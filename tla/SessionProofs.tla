--------------------------- MODULE SessionProofs ----------------------------
(***************************************************************************)
(* What is proved of a session for all sets of machines, clients and lines *)
(* and for every kind and number of mishaps: type correctness, that main   *)
(* processes and executives stay tied to each other, and the conversations *)
(* of the clients with the main processes that form a group, from which it *)
(* follows that nobody gets into a state that is not his.                  *)
(***************************************************************************)
EXTENDS Session, DaemonProofs, WellFoundedInduction

(* Every step of a client keeps the type of its record and of the network. *)
(* The type alone is not inductive: the watchdog resets the names of the   *)
(* slaves, so every slave has to have one.                                 *)

(* A machine that is being added and every slave is a host.                 *)
Named(k) ==
  /\ k.pc = "add" => k.target \in Hosts
  /\ \A r \in Ranks : k.line[r] # NoEnd => k.host[r] \in Hosts

Kind == {k \in ClientType : Named(k)}
ClientSituation == [c : [Clients -> Kind], n : NetType]

LEMMA RanksFacts == 0 \in Ranks /\ Ranks \subseteq Nat
BY WireAssumption DEF Ranks

LEMMA NewClientType ==
  /\ NoEnd \in Ends0
  /\ NoSlaves \in [Ranks -> Ends0]
  /\ NewClient \in Kind
  /\ [NewClient EXCEPT !.pc = "dead"] \in Kind
<1>1. NoEnd \in Ends0
  BY DEF Ends0
<1>2. NoSlaves \in [Ranks -> Ends0] /\ NoSlaves \in [Ranks -> Ends0 \cup {Ear}]
  BY <1>1 DEF NoSlaves
<1>3. NewClient \in ClientType /\ [NewClient EXCEPT !.pc = "dead"] \in ClientType
  BY <1>1, <1>2, RanksFacts DEF NewClient, ClientType, ClientPc, Phase
<1>4. Named(NewClient) /\ Named([NewClient EXCEPT !.pc = "dead"])
  BY DEF Named, NewClient, NoSlaves
<1> QED BY <1>1, <1>2, <1>3, <1>4 DEF Kind

LEMMA ClientParts ==
  ASSUME NEW S \in ClientSituation
  PROVE  /\ S.n \in NetType
         /\ S.c \in [Clients -> Kind]
         /\ \A c \in Clients : S.c[c] \in Kind /\ S.c[c] \in ClientType /\ Named(S.c[c])
BY DEF ClientSituation, Kind

LEMMA SetClient ==
  ASSUME NEW S \in ClientSituation, NEW c \in Clients, NEW k \in Kind
  PROVE  /\ [S EXCEPT !.c[c] = k] \in ClientSituation
         /\ [S EXCEPT !.c[c] = k].n = S.n
BY DEF ClientSituation

LEMMA SetClientNet ==
  ASSUME NEW S \in ClientSituation, NEW n \in NetType
  PROVE  [S EXCEPT !.n = n] \in ClientSituation /\ [S EXCEPT !.n = n].c = S.c
BY DEF ClientSituation

(* Fields that may be set without regard to the others.                     *)
LEMMA KindWith ==
  ASSUME NEW k \in Kind
  PROVE  /\ \A x \in ClientPc \ {"add"} : [k EXCEPT !.pc = x] \in Kind
         /\ \A x \in Ranks : [k EXCEPT !.pos = x] \in Kind
         /\ \A x \in Ranks : [k EXCEPT !.peer = x] \in Kind
         /\ \A x \in Ends0 : [k EXCEPT !.adding = x] \in Kind
         /\ \A x \in [Ranks -> Ends0 \cup {Ear}] : [k EXCEPT !.todo = x] \in Kind
         /\ \A x \in [Ranks -> Ends0] : [k EXCEPT !.cache = x] \in Kind
         /\ \A x \in SUBSET Hosts : [k EXCEPT !.left = x] \in Kind
         /\ \A x \in BOOLEAN : [k EXCEPT !.established = x] \in Kind
         /\ \A x \in BOOLEAN : [k EXCEPT !.quit = x] \in Kind
         /\ \A x \in BOOLEAN : [k EXCEPT !.final = x] \in Kind
         /\ \A x \in BOOLEAN : [k EXCEPT !.signal = x] \in Kind
         /\ \A x \in {"none", "set", "fired"} : [k EXCEPT !.watch = x] \in Kind
         /\ \A x \in Nat : [k EXCEPT !.done = x] \in Kind
         /\ \A x \in Nat : [k EXCEPT !.calls = x] \in Kind
BY SMTT(40) DEF Kind, ClientType, Named

LEMMA ClientWith ==
  ASSUME NEW S \in ClientSituation, NEW c \in Clients
  PROVE  /\ \A x \in ClientPc \ {"add"} : [S EXCEPT !.c[c].pc = x] \in ClientSituation
         /\ \A x \in Ranks : [S EXCEPT !.c[c].pos = x] \in ClientSituation
         /\ \A x \in Ranks : [S EXCEPT !.c[c].peer = x] \in ClientSituation
         /\ \A x \in [Ranks -> Ends0 \cup {Ear}] :
              [S EXCEPT !.c[c].todo = x] \in ClientSituation
         /\ \A x \in [Ranks -> Ends0] : [S EXCEPT !.c[c].cache = x] \in ClientSituation
         /\ \A x \in SUBSET Hosts : [S EXCEPT !.c[c].left = x] \in ClientSituation
         /\ \A x \in BOOLEAN : [S EXCEPT !.c[c].established = x] \in ClientSituation
         /\ \A x \in BOOLEAN : [S EXCEPT !.c[c].quit = x] \in ClientSituation
         /\ \A x \in BOOLEAN : [S EXCEPT !.c[c].final = x] \in ClientSituation
         /\ \A x \in {"none", "set", "fired"} : [S EXCEPT !.c[c].watch = x] \in ClientSituation
         /\ \A x \in Nat : [S EXCEPT !.c[c].done = x] \in ClientSituation
         /\ \A x \in Nat : [S EXCEPT !.c[c].calls = x] \in ClientSituation
<1>1. \A k \in Kind : [S EXCEPT !.c[c] = k] \in ClientSituation
  BY SetClient
<1>2. S.c[c] \in Kind
  BY ClientParts
<1> QED BY <1>1, <1>2, KindWith

LEMMA KindBools ==
  ASSUME NEW k \in Kind
  PROVE  /\ k.quit \in BOOLEAN /\ k.final \in BOOLEAN /\ k.established \in BOOLEAN
         /\ k.done \in Nat /\ k.calls \in Nat /\ k.world \in Nat /\ k.counter \in Nat
         /\ k.line \in [Ranks -> Ends0] /\ k.host \in [Ranks -> Hosts \cup {NoHost}]
         /\ k.todo \in [Ranks -> Ends0 \cup {Ear}] /\ k.cache \in [Ranks -> Ends0]
         /\ k.pos \in Ranks /\ k.peer \in Ranks /\ k.left \in SUBSET Hosts
         /\ k.adding \in Ends0 /\ k.target \in Hosts \cup {NoHost} /\ k.pc \in ClientPc
BY DEF Kind, ClientType

LEMMA RestType == ASSUME NEW k \in Kind PROVE Rest(k) \in Kind
<1> DEFINE a == [k EXCEPT !.pc = "idle", !.pos = 0, !.peer = 0]
           b == [a EXCEPT !.adding = NoEnd, !.target = NoHost]
           d == [b EXCEPT !.todo = NoSlaves, !.left = {}]
<1>1. NoSlaves \in [Ranks -> Ends0 \cup {Ear}] /\ NoEnd \in Ends0
  BY NewClientType
<1>2. a \in Kind /\ a.pc = "idle"
  BY RanksFacts DEF Kind, ClientType, ClientPc, Named
<1> HIDE DEF a
<1>3. b \in Kind
  BY <1>1, <1>2 DEF Kind, ClientType, Named
<1> HIDE DEF b
<1>4. d \in Kind
  BY <1>1, <1>3 DEF Kind, ClientType, Named
<1>5. Rest(k) = d
  BY DEF Rest, a, b, Kind, ClientType
<1> QED BY <1>4, <1>5

LEMMA ForgetType == ASSUME NEW k \in Kind PROVE Forget(k) \in Kind
BY NewClientType DEF Forget, Kind, ClientType, Named, NoSlaves

LEMMA ResetClientType == ASSUME NEW k \in Kind PROVE ResetClient(k) \in Kind
<1>1. Forget(k) \in Kind
  BY ForgetType
<1> QED BY <1>1 DEF ResetClient, Kind, ClientType, Named

LEMMA GoneType ==
  ASSUME NEW S \in ClientSituation, NEW c \in Clients PROVE Gone(S, c) \in ClientSituation
<1> DEFINE D == [S.c EXCEPT ![c] = [NewClient EXCEPT !.pc = "dead"]]
<1>1. D \in [Clients -> Kind]
  BY ClientParts, NewClientType
<1>2. Keep(S.n, c, {}) \in NetType
  BY ClientParts, KeepType
<1> HIDE DEF D
<1>3. [c |-> D, n |-> Keep(S.n, c, {})] \in ClientSituation
  BY <1>1, <1>2 DEF ClientSituation
<1> QED BY <1>3 DEF Gone, D

LEMMA KeepClientType ==
  ASSUME NEW S \in ClientSituation, NEW c, NEW keep
  PROVE  [S EXCEPT !.n = Keep(S.n, c, keep)] \in ClientSituation
BY KeepType, ClientParts, SetClientNet

LEMMA ReturnType ==
  ASSUME NEW S \in ClientSituation, NEW c \in Clients PROVE Return(S, c) \in ClientSituation
<1> DEFINE T == [S EXCEPT !.c[c] = Rest(S.c[c])]
<1>1. T \in ClientSituation
  BY RestType, ClientParts, SetClient
<1> HIDE DEF T
<1>2. [T EXCEPT !.n = Keep(T.n, c, Holds(T.c[c]))] \in ClientSituation
  BY <1>1, KeepClientType
<1> QED BY <1>2, GoneType DEF Return, T

-----------------------------------------------------------------------------
LEMMA SlavesType == ASSUME NEW k \in Kind PROVE Slaves(k) \in SUBSET Ranks /\ SlaveLines(k) \in SUBSET Ends0
BY KindBools DEF Slaves, SlaveLines

LEMMA NamesType == ASSUME NEW k \in Kind PROVE Names(k) \in SUBSET Hosts
BY DEF Names, Slaves, Kind, Named

LEMMA LeastType == ASSUME NEW Q \in SUBSET (Ranks \X Ranks) PROVE Least(Q) \in Ranks \X Ranks
<1> DEFINE first(q) == \A t \in Q : ~Lower(t, q)
<1>1. (\E q \in Q : first(q)) => (CHOOSE q \in Q : first(q)) \in Q
  OBVIOUS
<1>2. Least(Q) = IF \E q \in Q : first(q) THEN CHOOSE q \in Q : first(q) ELSE <<0, 0>>
  BY DEF Least
<1> HIDE DEF first
<1> QED BY <1>1, <1>2, RanksFacts

LEMMA RequestsType ==
  ASSUME NEW k \in Kind, NEW phase PROVE Requests(k, phase) \in SUBSET (Ranks \X Ranks)
BY SlavesType, RanksFacts DEF Requests

LEMMA NextRequestType ==
  ASSUME NEW k \in Kind, NEW phase, NEW q PROVE NextRequest(k, phase, q) \in Ranks \X Ranks
<1>1. {t \in Requests(k, phase) : Lower(q, t)} \in SUBSET (Ranks \X Ranks)
  BY RequestsType
<1> QED BY <1>1, LeastType DEF NextRequest

LEMMA RequestType ==
  ASSUME NEW k \in Kind, NEW phase, NEW q \in Ranks \X Ranks
  PROVE  Request(k, phase, q) \in Message
<1>1. q[2] \in Nat /\ q[2] \in Ranks /\ k.world \in Nat /\ k.host[q[2]] \in Hosts \cup {NoHost}
  BY RanksFacts, KindBools
<1>2. MsgArg("Peers", k.world) \in Message /\ MsgArg("ConnectTo", q[2]) \in Message
  BY <1>1, MsgArgIsMessage, CodeFacts
<1>3. [MsgArg("ConnectTo", q[2]) EXCEPT !.host = k.host[q[2]]] \in Message
  BY <1>1, <1>2, MessageWith
<1>4. /\ Msg("Grouped") \in Message /\ Msg("Run") \in Message
      /\ Msg("PrepareToLeave") \in Message /\ Msg("Leave") \in Message
  BY MsgIsMessage, CodeFacts
<1> QED BY <1>2, <1>3, <1>4 DEF Request

LEMMA AskType ==
  ASSUME NEW S \in ClientSituation, NEW c \in Clients, NEW phase \in Phase \ {"add"},
         NEW q \in Ranks \X Ranks
  PROVE  Ask(S, c, phase, q) \in ClientSituation
<1> DEFINE e == S.c[c].line[q[1]]
           D == [S.c EXCEPT ![c].pc = phase, ![c].pos = q[1], ![c].peer = q[2]]
           n == Send(S.n, e, Request(S.c[c], phase, q))
<1>1. D \in [Clients -> Kind]
  <2>1. S.c \in [Clients -> Kind] /\ q[1] \in Ranks /\ q[2] \in Ranks
        /\ phase \in ClientPc \ {"add"}
    BY ClientParts DEF ClientPc
  <2>2. [S.c EXCEPT ![c].pc = phase] \in [Clients -> Kind]
    BY <2>1, KindWith
  <2>3. [S.c EXCEPT ![c].pc = phase, ![c].pos = q[1]] \in [Clients -> Kind]
    BY <2>1, <2>2, KindWith
  <2> QED BY <2>1, <2>3, KindWith
<1>2. n \in NetType
  BY ClientParts, RequestType, SendType
<1> HIDE DEF D, n
<1>3. [c |-> D, n |-> n] \in ClientSituation
  BY <1>1, <1>2 DEF ClientSituation
<1> QED BY <1>3, ReturnType DEF Ask, D, n, e

LEMMA AskFirstType ==
  ASSUME NEW S \in ClientSituation, NEW c \in Clients, NEW phase \in Phase \ {"add"}
  PROVE  AskFirst(S, c, phase) \in ClientSituation
<1>1. Least(Requests(S.c[c], phase)) \in Ranks \X Ranks
  BY ClientParts, RequestsType, LeastType
<1> QED BY <1>1, AskType DEF AskFirst

LEMMA SendSlavesType ==
  ASSUME NEW S \in ClientSituation, NEW E \in SUBSET Ends0, NEW code \in Code
  PROVE  [S EXCEPT !.n = SendEach(S.n, E, Msg(code))] \in ClientSituation
<1>1. SendEach(S.n, E, Msg(code)) \in NetType
  BY ClientParts, MsgIsMessage, SendEachType
<1> QED BY <1>1, SetClientNet

LEMMA StartRunType ==
  ASSUME NEW S \in ClientSituation, NEW c \in Clients PROVE StartRun(S, c) \in ClientSituation
<1> DEFINE lines == SlaveLines(S.c[c])
           T == [S EXCEPT !.c[c].established = TRUE]
           U == [T EXCEPT !.n = SendEach(T.n, lines, Msg("InitialData"))]
<1>1. lines \in SUBSET Ends0
  BY SlavesType, ClientParts
<1>2. T \in ClientSituation
  BY ClientWith
<1> HIDE DEF lines, T
<1>3. U \in ClientSituation
  BY <1>1, <1>2, SendSlavesType, CodeFacts
<1> HIDE DEF U
<1>4. AskFirst(T, c, "run") \in ClientSituation /\ AskFirst(U, c, "run") \in ClientSituation
  BY <1>2, <1>3, AskFirstType DEF Phase
<1>5. Return(U, c) \in ClientSituation
  BY <1>3, ReturnType
<1> QED BY <1>4, <1>5 DEF StartRun, lines, T, U

LEMMA StartAllType ==
  ASSUME NEW S \in ClientSituation, NEW c \in Clients PROVE StartAll(S, c) \in ClientSituation
<1> DEFINE k == S.c[c]
           broken == {r \in Slaves(k) : Broken(S.n, k.line[r])}
           told == {k.line[r] : r \in {q \in Slaves(k) : \A b \in broken : q < b}}
           T == [S EXCEPT !.n = SendEach(S.n, told, Msg("Start"))]
           U1 == [T EXCEPT !.c[c].pc = "probe"]
           U2 == [U1 EXCEPT !.c[c].pos = 0]
           U3 == [U2 EXCEPT !.c[c].quit = FALSE]
           U4 == [U3 EXCEPT !.c[c].watch = "set"]
           U == [U4 EXCEPT !.c[c].cache = k.line]
<1>1. k.line \in [Ranks -> Ends0] /\ Slaves(k) \in SUBSET Ranks
  BY ClientParts, KindBools, SlavesType
<1>2. told \in SUBSET Ends0
  <2> HIDE DEF k, broken
  <2> QED BY <1>1
<1> HIDE DEF told
<1>3. T \in ClientSituation
  BY <1>2, SendSlavesType, CodeFacts
<1> HIDE DEF T, k
<1>4. U1 \in ClientSituation
  BY <1>3, ClientWith DEF ClientPc
<1> HIDE DEF U1
<1>5. U2 \in ClientSituation
  BY <1>4, ClientWith, RanksFacts
<1> HIDE DEF U2
<1>6. U3 \in ClientSituation
  BY <1>5, ClientWith
<1> HIDE DEF U3
<1>7. U4 \in ClientSituation
  BY <1>6, ClientWith
<1> HIDE DEF U4
<1>8. U \in ClientSituation
  BY <1>1, <1>7, ClientWith
<1> HIDE DEF U
<1>9. Return(T, c) \in ClientSituation
      /\ [U EXCEPT !.n = Keep(U.n, c, Holds(U.c[c]))] \in ClientSituation
  BY <1>3, <1>8, ReturnType, KeepClientType
<1>10. StartAll(S, c) = IF broken # {} THEN Return(T, c)
                        ELSE [U EXCEPT !.n = Keep(U.n, c, Holds(U.c[c]))]
  BY DEF StartAll, U, U1, U2, U3, U4, T, told, k
<1> QED BY <1>9, <1>10

LEMMA DissolveType ==
  ASSUME NEW S \in ClientSituation, NEW c \in Clients PROVE Dissolve(S, c) \in ClientSituation
<1>1. [S EXCEPT !.c[c].established = FALSE] \in ClientSituation
  BY ClientWith
<1>2. AskFirst([S EXCEPT !.c[c].established = FALSE], c, "prepare") \in ClientSituation
  BY <1>1, AskFirstType DEF Phase
<1> QED BY <1>2, ReturnType DEF Dissolve

LEMMA DissolvedType ==
  ASSUME NEW S \in ClientSituation, NEW c \in Clients PROVE Dissolved(S, c) \in ClientSituation
<1>1. [S EXCEPT !.c[c] = Forget(S.c[c])] \in ClientSituation
  BY ForgetType, ClientParts, SetClient
<1> QED BY <1>1, ReturnType DEF Dissolved

LEMMA EndPhaseType ==
  ASSUME NEW S \in ClientSituation, NEW c \in Clients, NEW phase
  PROVE  EndPhase(S, c, phase) \in ClientSituation
<1>1. /\ AskFirst(S, c, "connect") \in ClientSituation
      /\ AskFirst(S, c, "group") \in ClientSituation
      /\ AskFirst(S, c, "leave") \in ClientSituation
  BY AskFirstType DEF Phase
<1>2. /\ StartRun(S, c) \in ClientSituation
      /\ StartAll(S, c) \in ClientSituation
      /\ Dissolved(S, c) \in ClientSituation
  BY StartRunType, StartAllType, DissolvedType
<1> QED BY <1>1, <1>2 DEF EndPhase

LEMMA AgreedType ==
  ASSUME NEW S \in ClientSituation, NEW c \in Clients, S.c[c].pc \in Phase \ {"add"}
  PROVE  Agreed(S, c) \in ClientSituation
<1> DEFINE k == S.c[c]
           q == NextRequest(k, k.pc, <<k.pos, k.peer>>)
<1>1. q \in Ranks \X Ranks
  BY ClientParts, NextRequestType
<1> HIDE DEF q
<1>2. Ask(S, c, S.c[c].pc, q) \in ClientSituation
  BY <1>1, AskType
<1> QED BY <1>2, EndPhaseType DEF Agreed, q

LEMMA ResetSlavesType ==
  ASSUME NEW S \in ClientSituation, NEW c \in Clients
  PROVE  [S EXCEPT !.c[c] = ResetClient(S.c[c])] \in ClientSituation
BY ResetClientType, ClientParts, SetClient

LEMMA RefusedType ==
  ASSUME NEW S \in ClientSituation, NEW c \in Clients PROVE Refused(S, c) \in ClientSituation
<1>1. AskFirst(S, c, "leave") \in ClientSituation
  BY AskFirstType DEF Phase
<1>2. Return([S EXCEPT !.c[c] = ResetClient(S.c[c])], c) \in ClientSituation
  BY ResetSlavesType, ReturnType
<1> QED BY <1>1, <1>2, DissolvedType DEF Refused

LEMMA DoneType ==
  ASSUME NEW S \in ClientSituation, NEW c \in Clients PROVE Done(S, c) \in ClientSituation
<1> DEFINE done == S.c[c].done + 1
           full == done >= Cardinality(Slaves(S.c[c]))
           quit == S.c[c].quit \/ full
           todo == IF full THEN NoSlaves ELSE S.c[c].todo
<1>1. done \in Nat
  BY ClientParts, KindBools
<1>2. todo \in [Ranks -> Ends0 \cup {Ear}]
  BY ClientParts, KindBools, NewClientType
<1>3. quit \in BOOLEAN
  OBVIOUS
<1>4. Done(S, c) = [S EXCEPT !.c[c].done = done, !.c[c].quit = @ \/ full,
                             !.c[c].todo = IF full THEN NoSlaves ELSE @]
  BY DEF Done
<1> HIDE DEF done, full
<1>5. Done(S, c) = [S EXCEPT !.c[c].done = done, !.c[c].quit = quit, !.c[c].todo = todo]
  BY <1>4 DEF ClientSituation, Kind, ClientType
<1> HIDE DEF quit, todo
<1> DEFINE A == [S EXCEPT !.c[c].done = done]
           B == [A EXCEPT !.c[c].quit = quit]
           D == [B EXCEPT !.c[c].todo = todo]
<1>6. A \in ClientSituation
  BY <1>1, ClientWith
<1>7. Done(S, c) = [[[S EXCEPT !.c[c].done = done] EXCEPT !.c[c].quit = quit]
                     EXCEPT !.c[c].todo = todo]
  BY <1>5
<1> HIDE DEF A
<1>8. B \in ClientSituation
  BY <1>3, <1>6, ClientWith
<1> HIDE DEF B
<1>9. D \in ClientSituation
  BY <1>2, <1>8, ClientWith
<1> QED BY <1>7, <1>9 DEF A, B

LEMMA ProcessSlaveType ==
  ASSUME NEW S \in ClientSituation, NEW c \in Clients, NEW e
  PROVE  ProcessSlave(S, c, e) \in ClientSituation
<1> DEFINE T == [S EXCEPT !.n = Receive(S.n, e)]
           quiet == [ResetClient(T.c[c]) EXCEPT !.todo = NoSlaves]
           stopped == [T EXCEPT !.c[c] = quiet]
           told == SendEach(stopped.n, SlaveLines(T.c[c]), Msg("Renegade"))
<1>1. T \in ClientSituation
  BY ClientParts, ReceiveType, SetClientNet
<1> HIDE DEF T
<1>2. quiet \in Kind
  BY <1>1, ClientParts, ResetClientType, KindWith, NewClientType
<1> HIDE DEF quiet
<1>3. stopped \in ClientSituation
  BY <1>1, <1>2, SetClient
<1> HIDE DEF stopped
<1>4. [stopped EXCEPT !.n = told] \in ClientSituation
  <2>1. SlaveLines(T.c[c]) \in SUBSET Ends0
    BY <1>1, ClientParts, SlavesType
  <2> QED BY <2>1, <1>3, SendSlavesType, CodeFacts
<1>5. Done(T, c) \in ClientSituation
  BY <1>1, DoneType
<1> QED BY <1>3, <1>4, <1>5, ResetSlavesType DEF ProcessSlave, T, quiet, stopped

LEMMA EndRoundType ==
  ASSUME NEW S \in ClientSituation, NEW c \in Clients PROVE EndRound(S, c) \in ClientSituation
BY DissolveType, KeepClientType DEF EndRound

LEMMA ReadySlavesType ==
  ASSUME NEW k \in Kind PROVE ReadySlaves(k) \in [Ranks -> Ends0 \cup {Ear}]
<1>1. k.cache \in [Ranks -> Ends0]
  BY KindBools
<1> QED BY <1>1, NewClientType DEF ReadySlaves

-----------------------------------------------------------------------------
(* The actions.                                                             *)
TypedClient == NetTypeOK /\ client \in [Clients -> Kind]

LEMMA HereType ==
  ASSUME TypedClient
  PROVE  Here \in ClientSituation /\ Here.n = net /\ Here.c = client
BY DEF TypedClient, NetTypeOK, Here, ClientSituation

LEMMA ActType ==
  ASSUME NEW S \in ClientSituation, Act(S) PROVE TypedClient'
BY ClientParts DEF Act, TypedClient, NetTypeOK

LEMMA AddType == ASSUME TypedClient, NEW c \in Clients, NEW h \in Hosts, Add(c, h) PROVE TypedClient'
<1> DEFINE k == client[c]
           l == NewLine(net)
           K == [k EXCEPT !.pc = "add", !.adding = <<l, "near">>, !.target = h]
           n == Connect(net, l, {c}, h, MsgArg("Enslave", k.counter))
<1>1. k \in Kind /\ net \in NetType
  BY DEF TypedClient, NetTypeOK
<1>2. l \in Lines
  BY <1>1, NewLineIsLine DEF Add, FreeLine
<1> HIDE DEF l
<1>3. K \in Kind
  <2>1. <<l, "near">> \in Ends0 /\ "add" \in ClientPc
    BY <1>2 DEF Ends0, End, ClientPc, Phase
  <2> DEFINE e == <<l, "near">>
  <2>2. K = [k EXCEPT !.pc = "add", !.adding = e, !.target = h]
    OBVIOUS
  <2> HIDE DEF e, K
  <2>3. e \in Ends0
    BY <2>1 DEF e
  <2> QED BY <1>1, <2>1, <2>2, <2>3 DEF Kind, ClientType, Named
<1>4. n \in NetType
  <2>1. MsgArg("Enslave", k.counter) \in Message
    BY <1>1, KindBools, MsgArgIsMessage, CodeFacts
  <2>2. {c} \in SUBSET Procs
    BY DEF Procs
  <2> QED BY <1>1, <1>2, <2>1, <2>2, ConnectType
<1>5. client' = [client EXCEPT ![c] = K] /\ net' = n
  BY DEF Add, l
<1> HIDE DEF K, n
<1> QED BY <1>3, <1>4, <1>5 DEF TypedClient, NetTypeOK

(* The slave that agreed gets the next rank.                                *)
Slave(k) == [k EXCEPT !.counter = k.counter + 1, !.world = k.world + 1,
                      !.line[k.counter] = k.adding, !.host[k.counter] = k.target]
LEMMA SlaveFacts ==
  ASSUME NEW k \in Kind, k.pc = "add"
  PROVE  /\ Slave(k) \in Kind
         /\ Slave(k).line = [k.line EXCEPT ![k.counter] = k.adding]
         /\ Slave(k).cache = k.cache /\ Slave(k).counter = k.counter + 1
         /\ (Slave(k).established <=> k.established)
<1> DEFINE r == k.counter
           slave == Slave(k)
           line == [k.line EXCEPT ![r] = k.adding]
           host == [k.host EXCEPT ![r] = k.target]
<1>1. slave = [k EXCEPT !.counter = r + 1, !.world = k.world + 1, !.line = line, !.host = host]
  BY DEF Slave, Kind, ClientType
<1>2. /\ line \in [Ranks -> Ends0] /\ host \in [Ranks -> Hosts \cup {NoHost}]
      /\ r + 1 \in Nat /\ k.world + 1 \in Nat
  <2>1. /\ k.line \in [Ranks -> Ends0] /\ k.adding \in Ends0
        /\ k.host \in [Ranks -> Hosts \cup {NoHost}] /\ k.target \in Hosts \cup {NoHost}
        /\ r \in Nat /\ k.world \in Nat
    BY KindBools
  <2> HIDE DEF r
  <2>2. line \in [Ranks -> Ends0]
    BY <2>1
  <2>3. host \in [Ranks -> Hosts \cup {NoHost}]
    BY <2>1
  <2> QED BY <2>1, <2>2, <2>3
<1>3. \A q \in Ranks : line[q] # NoEnd => host[q] \in Hosts
  <2>1. k.target \in Hosts /\ \A q \in Ranks : k.line[q] # NoEnd => k.host[q] \in Hosts
    BY DEF Kind, Named
  <2>2. k.line \in [Ranks -> Ends0] /\ k.host \in [Ranks -> Hosts \cup {NoHost}]
    BY KindBools
  <2> HIDE DEF r
  <2> QED BY <2>1, <2>2
<1> HIDE DEF line, host, slave
<1>4. slave \in Kind
  BY <1>1, <1>2, <1>3 DEF Kind, ClientType, Named
<1>5. /\ slave.line = line /\ slave.cache = k.cache /\ slave.counter = r + 1
      /\ (slave.established <=> k.established)
  BY <1>1 DEF Kind, ClientType
<1> QED BY <1>4, <1>5 DEF slave, line

LEMMA AddedType == ASSUME TypedClient, NEW c \in Clients, Added(c) PROVE TypedClient'
<1> DEFINE k == client[c]
           S == [Here EXCEPT !.n = Receive(Here.n, k.adding)]
           T == [S EXCEPT !.c[c] = Slave(k)]
<1>1. k \in Kind /\ k.pc = "add"
  BY DEF TypedClient, Added
<1>2. S \in ClientSituation
  BY HereType, ClientParts, ReceiveType, SetClientNet
<1>3. T \in ClientSituation
  BY <1>1, <1>2, SlaveFacts, SetClient
<1>4. Act(Return(IF Peek(net, k.adding).tag = "OK" THEN T ELSE S, c))
  BY DEF Added, Slave
<1> HIDE DEF S, T
<1> QED BY <1>2, <1>3, <1>4, ReturnType, ActType

LEMMA SendDisconnectType ==
  ASSUME NEW S \in ClientSituation, NEW c \in Clients PROVE SendDisconnect(S, c) \in ClientSituation
<1> DEFINE lines == SlaveLines(S.c[c])
           T == [S EXCEPT !.n = SendEach(S.n, lines, Msg("Disconnect"))]
<1>1. T \in ClientSituation
  BY ClientParts, SlavesType, SendSlavesType, CodeFacts
<1> HIDE DEF T
<1>2. [T EXCEPT !.c[c] = Forget(T.c[c])] \in ClientSituation
  BY <1>1, ForgetType, ClientParts, SetClient
<1> QED BY <1>1, <1>2, ReturnType DEF SendDisconnect, T

LEMMA CallType ==
  ASSUME TypedClient, NEW c \in Clients
  PROVE  [Here EXCEPT !.c[c].calls = client[c].calls + 1] \in ClientSituation
<1>1. client[c] \in Kind
  BY DEF TypedClient
<1>2. client[c].calls + 1 \in Nat
  BY <1>1, KindBools
<1> QED BY <1>2, HereType, ClientWith

LEMMA RemoveAllType == ASSUME TypedClient, NEW c \in Clients, RemoveAll(c) PROVE TypedClient'
<1> DEFINE S == [Here EXCEPT !.c[c].calls = client[c].calls + 1]
<1>1. S \in ClientSituation
  BY CallType
<1>2. Act(SendDisconnect(S, c))
  BY DEF RemoveAll, Here
<1> HIDE DEF S
<1> QED BY <1>1, <1>2, SendDisconnectType, ActType

LEMMA CallRunType == ASSUME TypedClient, NEW c \in Clients, CallRun(c) PROVE TypedClient'
<1> DEFINE S == [Here EXCEPT !.c[c].calls = client[c].calls + 1]
<1>1. S \in ClientSituation
  BY CallType
<1>2. Act(AskFirst(S, c, "peers"))
  BY DEF CallRun, Here
<1> HIDE DEF S
<1> QED BY <1>1, <1>2, AskFirstType, ActType DEF Phase

LEMMA DestroyType == ASSUME TypedClient, NEW c \in Clients, Destroy(c) PROVE TypedClient'
<1> DEFINE S == [Here EXCEPT !.c[c].final = TRUE]
<1>1. S \in ClientSituation
  BY HereType, ClientWith
<1>2. Act(Gone(S, c)) \/ Act(Dissolve(S, c)) \/ Act(SendDisconnect(S, c))
  BY DEF Destroy
<1> HIDE DEF S
<1> QED BY <1>1, <1>2, GoneType, DissolveType, SendDisconnectType, ActType

LEMMA AnsweredType == ASSUME TypedClient, NEW c \in Clients, Answered(c) PROVE TypedClient'
<1> DEFINE S == [Here EXCEPT !.n = Receive(Here.n, client[c].line[client[c].pos])]
<1>1. S \in ClientSituation
  BY HereType, ClientParts, ReceiveType, SetClientNet
<1>2. S.c[c].pc \in Phase \ {"add"}
  BY HereType DEF Answered, Here
<1>3. Act(Agreed(S, c)) \/ Act(Refused(S, c)) \/ Act(Return(S, c))
  BY DEF Answered
<1> HIDE DEF S
<1> QED BY <1>1, <1>2, <1>3, AgreedType, RefusedType, ReturnType, ActType

LEMMA ProbeType == ASSUME TypedClient, NEW c \in Clients, Probe(c) PROVE TypedClient'
<1> DEFINE k == client[c]
           round == IF k.todo # NoSlaves THEN k.todo ELSE ReadySlaves(k)
           left(r) == [round EXCEPT ![r] = NoEnd]
           S(r) == [Here EXCEPT !.c[c].todo = left(r)]
           T1(r) == [S(r) EXCEPT !.c[c].pc = "alarm"]
           T2(r) == [T1(r) EXCEPT !.c[c].quit = TRUE]
           T(r) == [T2(r) EXCEPT !.c[c].left = Names(k)]
<1>1. k \in Kind
  BY DEF TypedClient
<1>2. round \in [Ranks -> Ends0 \cup {Ear}]
  BY <1>1, KindBools, ReadySlavesType
<1>3. PICK r \in Ranks : \/ Act(EndRound(ProcessSlave(S(r), c, round[r]), c))
                         \/ Act(T(r))
  BY DEF Probe
<1> HIDE DEF round
<1>4. left(r) \in [Ranks -> Ends0 \cup {Ear}]
  BY <1>2, NewClientType
<1> HIDE DEF left
<1>5. S(r) \in ClientSituation
  BY <1>4, HereType, ClientWith
<1> HIDE DEF S
<1>6. T1(r) \in ClientSituation
  BY <1>5, ClientWith DEF ClientPc
<1> HIDE DEF T1
<1>7. T2(r) \in ClientSituation
  BY <1>6, ClientWith
<1> HIDE DEF T2
<1>8. T(r) \in ClientSituation
  BY <1>1, <1>7, ClientWith, NamesType
<1> HIDE DEF T
<1>9. EndRound(ProcessSlave(S(r), c, round[r]), c) \in ClientSituation
  BY <1>5, ProcessSlaveType, EndRoundType
<1> QED BY <1>3, <1>8, <1>9, ActType

LEMMA AlarmType == ASSUME TypedClient, NEW c \in Clients, Alarm(c) PROVE TypedClient'
<1>1. CASE Act(Dissolve(Here, c)) \/ Act(Return(Here, c))
  BY <1>1, HereType, DissolveType, ReturnType, ActType
<1>2. CASE \E h \in client[c].left :
             Act([c |-> [client EXCEPT ![c].left = client[c].left \ {h}],
                  n |-> Connect(net, NewLine(net), {}, h, Msg("ForceReset"))])
  <2>1. PICK h \in client[c].left :
               Act([c |-> [client EXCEPT ![c].left = client[c].left \ {h}],
                    n |-> Connect(net, NewLine(net), {}, h, Msg("ForceReset"))])
    BY <1>2
  <2> DEFINE D == [client EXCEPT ![c].left = client[c].left \ {h}]
             n == Connect(net, NewLine(net), {}, h, Msg("ForceReset"))
  <2>2. client \in [Clients -> Kind] /\ net \in NetType
    BY DEF TypedClient, NetTypeOK
  <2>3. client[c].left \in SUBSET Hosts /\ h \in Hosts
    BY <2>2, KindBools
  <2>4. D \in [Clients -> Kind]
    BY <2>2, <2>3, KindWith
  <2>5. n \in NetType
    <3>1. NewLine(net) \in Lines
      BY <2>2, NewLineIsLine DEF Alarm, FreeLine
    <3>2. Msg("ForceReset") \in Message /\ {} \in SUBSET Procs
      BY MsgIsMessage, CodeFacts
    <3> QED BY <2>2, <2>3, <3>1, <3>2, ConnectType
  <2>6. client' = D /\ net' = n
    BY <2>1 DEF Act
  <2> HIDE DEF D, n
  <2> QED BY <2>4, <2>5, <2>6 DEF TypedClient, NetTypeOK
<1> QED BY <1>1, <1>2 DEF Alarm

LEMMA ClientTimeOutType ==
  ASSUME TypedClient, NEW c \in Clients, ClientTimeOut(c) PROVE TypedClient'
BY HereType, ReturnType, ActType DEF ClientTimeOut

(* The record of a client that was told of a signal, and the situation      *)
(* before its call fails.                                                   *)
Struck(c) == [Here EXCEPT !.c[c] = Signalled(client[c])]
LEMMA StruckType ==
  ASSUME TypedClient, NEW c \in Clients
  PROVE  Struck(c) \in ClientSituation /\ Signalled(client[c]) \in Kind
<1> DEFINE k == client[c]
<1>1. client \in [Clients -> Kind] /\ k \in Kind /\ net \in NetType
  BY DEF TypedClient, NetTypeOK
<1>2. [k EXCEPT !.signal = TRUE] \in Kind
  BY <1>1, KindWith
<1>3. [k EXCEPT !.signal = TRUE, !.watch = "fired"] \in Kind
  BY <1>1, <1>2, KindWith
<1>4. Signalled(k) \in Kind
  BY <1>1, <1>3 DEF Signalled
<1>5. Struck(c) = [c |-> [client EXCEPT ![c] = Signalled(k)], n |-> net]
  BY DEF Struck, Here
<1>6. [client EXCEPT ![c] = Signalled(k)] \in [Clients -> Kind]
  BY <1>1, <1>4
<1> HIDE DEF k
<1> QED BY <1>1, <1>4, <1>5, <1>6 DEF ClientSituation, k

LEMMA InterruptType ==
  ASSUME TypedClient, NEW c \in Clients, Interrupt(c) PROVE TypedClient'
BY StruckType, ReturnType, ActType DEF Interrupt, Struck

LEMMA ClientCrashType ==
  ASSUME TypedClient, NEW c \in Clients, ClientCrash(c) PROVE TypedClient'
BY HereType, GoneType, ActType DEF ClientCrash

LEMMA SignalType == ASSUME TypedClient, NEW c \in Clients, Signal(c) PROVE TypedClient'
<1>1. client \in [Clients -> Kind]
  BY DEF TypedClient
<1>2. [client EXCEPT ![c].signal = TRUE] \in [Clients -> Kind]
  BY <1>1, KindWith
<1>3. [client EXCEPT ![c].signal = TRUE, ![c].watch = "fired"] \in [Clients -> Kind]
  BY <1>1, <1>2, KindWith
<1> QED BY <1>3 DEF Signal, TypedClient, NetTypeOK

-----------------------------------------------------------------------------
(* The session: clients and daemons together.                              *)

(* The type is inductive together with: every slave of a client, and the    *)
(* machine it is about to add, is a host.                                   *)
AllNamed == \A c \in Clients : Named(client[c])
IInv == TypeOK /\ AllNamed

LEMMA TypedParts ==
  /\ IInv <=> Typed /\ TypedClient /\ mishaps \in 0..MaxMishaps
  /\ IInv' <=> Typed' /\ TypedClient' /\ (mishaps \in 0..MaxMishaps)'
<1>1. client \in [Clients -> Kind] <=> ClientTypeOK /\ AllNamed
  BY DEF Kind, ClientTypeOK, AllNamed
<1>2. client' \in [Clients -> Kind] <=> ClientTypeOK' /\ AllNamed'
  BY DEF Kind, ClientTypeOK, AllNamed, Named
<1> QED BY <1>1, <1>2 DEF IInv, TypeOK, Typed, TypedClient

LEMMA InitTyped == Init => IInv
<1> SUFFICES ASSUME Init PROVE IInv
  OBVIOUS
<1>1. NetTypeOK
  BY NetInitType DEF Init
<1>2. DaemonTypeOK
  BY ConstantsType DEF Init, DaemonInit, DaemonTypeOK
<1>3. client \in [Clients -> Kind]
  BY NewClientType DEF Init, ClientInit
<1>4. mishaps \in 0..MaxMishaps
  BY SessionAssumption DEF Init
<1> QED BY <1>1, <1>2, <1>3, <1>4, TypedParts DEF Typed, TypedClient

-----------------------------------------------------------------------------
LEMMA OperatorType ==
  ASSUME IInv, NEW h \in Hosts, NEW code \in Code, Operator(h, code)
  PROVE  Typed' /\ TypedClient'
<1>1. net \in NetType
  BY DEF IInv, TypeOK, NetTypeOK
<1>2. NewLine(net) \in Lines
  BY <1>1, NewLineIsLine DEF Operator, FreeLine
<1>3. Msg(code) \in Message /\ {} \in SUBSET Procs
  BY MsgIsMessage
<1>4. net' \in NetType
  BY <1>1, <1>2, <1>3, ConnectType DEF Operator
<1>5. UNCHANGED <<daemon, client>>
  BY DEF Operator
<1> QED BY <1>4, <1>5, TypedParts DEF Typed, TypedClient, NetTypeOK, DaemonTypeOK

LEMMA StartDaemonType ==
  ASSUME IInv, NEW h \in Hosts, StartDaemon(h)
  PROVE  Typed' /\ TypedClient'
<1>1. net \in NetType /\ daemon \in [Daemons -> DaemonType]
  BY DEF IInv, TypeOK, NetTypeOK, DaemonTypeOK
<1>2. Fresh \in DaemonType
  BY ConstantsType
<1>3. net' \in NetType
  BY <1>1 DEF StartDaemon, NetType
<1>4. daemon' \in [Daemons -> DaemonType]
  BY <1>1, <1>2 DEF StartDaemon
<1>5. client' = client
  BY DEF StartDaemon
<1> QED BY <1>3, <1>4, <1>5, TypedParts DEF Typed, TypedClient, NetTypeOK, DaemonTypeOK

LEMMA DaemonNextType == ASSUME IInv, DaemonNext PROVE IInv'
<1>1. PICK p \in Daemons : DaemonStep(p) /\ UNCHANGED <<client, mishaps>>
  BY DEF DaemonNext
<1>2. Typed
  BY TypedParts
<1>3. Typed'
  BY <1>1, <1>2, PollType, ResumeType, BuryType, FinishMainType DEF DaemonStep
<1> QED BY <1>1, <1>3, TypedParts DEF TypedClient, NetTypeOK, Typed

LEMMA ClientNextType == ASSUME IInv, ClientNext PROVE IInv'
<1>1. PICK c \in Clients : /\ ClientStep(c) \/ ClientCall(c)
                           /\ UNCHANGED <<daemon, mishaps>>
  BY DEF ClientNext
<1>2. TypedClient
  BY TypedParts
<1>3. CASE ClientStep(c)
  <2>1. TypedClient'
    BY <1>2, <1>3, AddedType, AnsweredType, ProbeType, AlarmType DEF ClientStep
  <2> QED BY <1>1, <2>1, TypedParts DEF TypedClient, Typed, DaemonTypeOK
<1>4. CASE ClientCall(c)
  <2>1. TypedClient'
    BY <1>2, <1>4, AddType, RemoveAllType, CallRunType, DestroyType DEF ClientCall
  <2> QED BY <1>1, <2>1, TypedParts DEF TypedClient, Typed, DaemonTypeOK
<1> QED BY <1>1, <1>3, <1>4

LEMMA MishapType == ASSUME IInv, Mishap PROVE IInv'
<1>1. Typed /\ TypedClient /\ mishaps \in 0..MaxMishaps
  BY TypedParts
<1>2. (mishaps \in 0..MaxMishaps)'
  BY <1>1, SessionAssumption DEF Mishap
<1>3. CASE \E h \in Hosts : ExecCrash(h) /\ UNCHANGED client
  <2>1. Typed' /\ UNCHANGED client
    BY <1>1, <1>3, ExecCrashType
  <2> QED BY <1>1, <1>2, <2>1, TypedParts DEF TypedClient, Typed
<1>4. CASE \E p \in Daemons : TimeOut(p) /\ UNCHANGED client
  <2>1. Typed' /\ UNCHANGED client
    BY <1>1, <1>4, TimeOutType
  <2> QED BY <1>1, <1>2, <2>1, TypedParts DEF TypedClient, Typed
<1>5. CASE \E c \in Clients : ClientTimeOut(c) /\ UNCHANGED daemon
  <2>1. TypedClient' /\ UNCHANGED daemon
    BY <1>1, <1>5, ClientTimeOutType
  <2> QED BY <1>1, <1>2, <2>1, TypedParts DEF TypedClient, Typed, DaemonTypeOK
<1>6. CASE \E p \in Daemons : BuryLate(p) /\ UNCHANGED client
  <2>1. Typed' /\ UNCHANGED client
    BY <1>1, <1>6, BuryLateType
  <2> QED BY <1>1, <1>2, <2>1, TypedParts DEF TypedClient, Typed
<1>7. CASE \E c \in Clients : ClientCrash(c) /\ UNCHANGED daemon
  <2>1. TypedClient' /\ UNCHANGED daemon
    BY <1>1, <1>7, ClientCrashType
  <2> QED BY <1>1, <1>2, <2>1, TypedParts DEF TypedClient, Typed, DaemonTypeOK
<1>8. CASE \E c \in Clients : Signal(c) /\ UNCHANGED daemon
  <2>1. TypedClient' /\ UNCHANGED daemon
    BY <1>1, <1>8, SignalType
  <2> QED BY <1>1, <1>2, <2>1, TypedParts DEF TypedClient, Typed, DaemonTypeOK
<1>9. CASE \E c \in Clients : Interrupt(c) /\ UNCHANGED daemon
  <2>1. TypedClient' /\ UNCHANGED daemon
    BY <1>1, <1>9, InterruptType
  <2> QED BY <1>1, <1>2, <2>1, TypedParts DEF TypedClient, Typed, DaemonTypeOK
<1>10. CASE \E h \in Hosts, code \in Mishaps \cap Code : Operator(h, code)
  BY <1>2, <1>10, OperatorType, TypedParts
<1>11. CASE \E h \in Hosts : StartDaemon(h)
  BY <1>2, <1>11, StartDaemonType, TypedParts
<1> QED BY <1>3, <1>4, <1>5, <1>6, <1>7, <1>8, <1>9, <1>10, <1>11 DEF Mishap

LEMMA NextTyped == IInv /\ [Next]_vars => IInv'
<1> SUFFICES ASSUME IInv, [Next]_vars PROVE IInv'
  OBVIOUS
<1>1. CASE UNCHANGED vars
  BY <1>1, TypedParts DEF vars, Typed, TypedClient, NetTypeOK, DaemonTypeOK
<1>2. CASE Terminated
  BY <1>1, <1>2 DEF Terminated
<1> QED BY <1>1, <1>2, DaemonNextType, ClientNextType, MishapType DEF Next

(* Whatever happens, every process stays in a state the program can be in:  *)
(* messages carry known codes, and the lines, ranks and machines a process  *)
(* refers to are those there are (the tables of daemon.cpp and client.cpp). *)
THEOREM TypeCorrect == Spec => []TypeOK
<1>1. Init => IInv
  BY InitTyped
<1>2. IInv /\ [Next]_vars => IInv'
  BY NextTyped
<1>3. IInv => TypeOK
  BY DEF IInv
<1> QED BY <1>1, <1>2, <1>3, PTL DEF Spec

-----------------------------------------------------------------------------
SInv == IInv /\ Bonds(daemon)

LEMMA InitTied == Init => SInv
<1> SUFFICES ASSUME Init PROVE SInv
  OBVIOUS
<1>1. \A p \in Daemons : daemon[p] = IF p[2] = "main" THEN Fresh ELSE Dead
  BY DEF Init, DaemonInit
<1>2. \A h \in Hosts : daemon[Main(h)] = Fresh /\ daemon[Exec(h)] = Dead
  BY <1>1, MainOrExec, ProcsFacts
<1>3. \A h \in Hosts : MainOk(daemon[Main(h)])
  BY <1>2, DeadFacts
<1>4. \A h \in Hosts : ExecOk(daemon[Main(h)], daemon[Exec(h)])
  BY <1>2, DeadFacts DEF ExecOk
<1> QED BY <1>3, <1>4, InitTyped DEF SInv, Bonds

LEMMA StartDaemonBond ==
  ASSUME SInv, NEW h \in Hosts, StartDaemon(h) PROVE Bonds(daemon')
<1>1. daemon \in [Daemons -> DaemonType] /\ Bonds(daemon) /\ Main(h) \in Daemons
  BY ProcsFacts DEF SInv, IInv, TypeOK, DaemonTypeOK
<1>2. daemon[Main(h)].mode = "dead" /\ daemon' = [daemon EXCEPT ![Main(h)] = Fresh]
  BY DEF StartDaemon
<1>3. daemon[Exec(h)].mode = "dead"
  BY <1>1, <1>2 DEF Bonds, ExecOk
<1>4. /\ \A g \in Hosts : daemon'[Main(g)] = IF g = h THEN Fresh ELSE daemon[Main(g)]
      /\ \A g \in Hosts : daemon'[Exec(g)] = daemon[Exec(g)]
  BY <1>1, <1>2, MainOrExec, ProcsFacts
<1>5. \A g \in Hosts : MainOk(daemon'[Main(g)])
  BY <1>1, <1>4, DeadFacts DEF Bonds
<1>6. \A g \in Hosts : ExecOk(daemon'[Main(g)], daemon'[Exec(g)])
  BY <1>1, <1>3, <1>4 DEF Bonds, ExecOk
<1> QED BY <1>5, <1>6 DEF Bonds

LEMMA NextTied == SInv /\ StatesKept /\ [Next]_vars => SInv'
<1> SUFFICES ASSUME SInv, StatesKept, [Next]_vars PROVE Bonds(daemon')
  BY NextTyped DEF SInv, Bonds
<1>1. Tied
  BY TypedParts DEF SInv, Tied
<1>2. NoMainLeaves
  BY DEF StatesKept, NoMainLeaves, Supervisor
<1>3. CASE daemon' = daemon
  BY <1>3 DEF SInv
<1>4. CASE DaemonNext
  <2>1. PICK p \in Daemons : DaemonStep(p)
    BY <1>4 DEF DaemonNext
  <2> QED BY <1>1, <1>2, <2>1, PollBond, ResumeBond, BuryBond, FinishMainBond DEF DaemonStep
<1>5. CASE ClientNext
  BY <1>3, <1>5 DEF ClientNext
<1>6. CASE Mishap
  <2>1. CASE \E h \in Hosts : ExecCrash(h)
    BY <1>1, <2>1, ExecCrashBond
  <2>2. CASE \E p \in Daemons : TimeOut(p)
    BY <1>1, <1>2, <2>2, TimeOutBond
  <2>3. CASE \E p \in Daemons : BuryLate(p)
    BY <1>1, <2>3, BuryLateBond
  <2>4. CASE \E h \in Hosts : StartDaemon(h)
    BY <2>4, StartDaemonBond
  <2>5. CASE \E h \in Hosts, code \in Mishaps \cap Code : Operator(h, code)
    BY <1>3, <2>5 DEF Operator
  <2> QED BY <1>3, <1>6, <2>1, <2>2, <2>3, <2>4, <2>5 DEF Mishap
<1>7. CASE Terminated \/ UNCHANGED vars
  BY <1>3, <1>7 DEF Terminated, vars
<1> QED BY <1>4, <1>5, <1>6, <1>7 DEF Next

LEMMA TiedSupervised == SInv => Supervised
<1> SUFFICES ASSUME SInv, NEW h \in Hosts
             PROVE  LET m == Supervisor(h)
                    IN /\ m.child <=> m.state = "Supervising" \/ m.wait.on = "bury"
                       /\ m.rope # NoEnd <=> m.state = "Supervising"
                       /\ Executive(h).mode # "dead" => m.child /\ m.mode = "loop"
  BY DEF Supervised
<1> QED BY DEF SInv, Bonds, MainOk, ExecOk, Supervisor, Executive

-----------------------------------------------------------------------------
(* The requests of a phase have a first one.                                *)
Under == {q \in Nat \X Nat : q[1] < q[2]}

LEMMA LeastFound ==
  ASSUME NEW Q \in SUBSET (Ranks \X Ranks), Q # {}
  PROVE  Least(Q) \in Q /\ \A t \in Q : ~Lower(t, Least(Q))
<1> DEFINE R == LexPairOrdering(Under, Under, Nat, Nat)
           first(q) == \A t \in Q : ~Lower(t, q)
<1>1. IsWellFoundedOn(Under, Nat)
  BY NatLessThanWellFounded DEF OpToRel, Under
<1>2. IsWellFoundedOn(R, Nat \X Nat)
  BY <1>1, WFLexPairOrdering
<1>3. Q \subseteq Nat \X Nat
  BY RanksFacts
<1>4. ASSUME NEW t \in Nat \X Nat, NEW q \in Nat \X Nat, Lower(t, q) PROVE <<t, q>> \in R
  BY <1>4 DEF Lower, LexPairOrdering, Under
<1> HIDE DEF R
<1>5. PICK q \in Q : \A t \in Q : ~(<<t, q>> \in R)
  BY <1>2, <1>3, WFMin
<1>6. \E x \in Q : first(x)
  BY <1>3, <1>4, <1>5
<1>7. Least(Q) = CHOOSE x \in Q : first(x)
  BY <1>6 DEF Least
<1> HIDE DEF first
<1>8. Least(Q) \in Q /\ first(Least(Q))
  BY <1>6, <1>7
<1> QED BY <1>8 DEF first

LEMMA LeastNone == Least({}) = <<0, 0>>
BY DEF Least

-----------------------------------------------------------------------------
(* The conversation of a client with a main process that forms a group: a   *)
(* holds the answers the client has not read, b the requests the daemon has *)
(* not read.  A request that will be refused, an answer that is not OK.     *)
Hopeless(v, j) ==
  \/ v.b[j].tag = "Disconnect"
  \/ v.b[j].tag = "Peers" /\ (v.formed \/ (j = 2 /\ v.b[1].tag = "Peers"))

(* How many answers the client can still get, and that the first one, or    *)
(* one of the first two, is not OK.                                         *)
Pending(v) == IF v.blocked THEN Len(v.a) + Len(v.b) + 1 ELSE Len(v.a) + Len(v.b)
Fails(v) ==
  IF Len(v.a) >= 1 THEN v.a[1].tag # "OK" ELSE ~v.blocked /\ Len(v.b) >= 1 /\ Hopeless(v, 1)
FailsSoon(v) ==
  \/ Fails(v)
  \/ Len(v.a) >= 2 /\ v.a[2].tag # "OK"
  \/ Len(v.a) = 1 /\ ~v.blocked /\ Len(v.b) >= 1 /\ Hopeless(v, 1)
  \/ Len(v.a) = 0 /\ v.blocked /\ Len(v.b) >= 1 /\ Hopeless(v, 1)
  \/ Len(v.a) = 0 /\ ~v.blocked /\ Len(v.b) >= 2 /\ Hopeless(v, 2)

(* What a conversation is like while a slave was not asked, is asked Peers, *)
(* has agreed to it, is asked ConnectTo, and is asked Grouped.              *)
Entering(v) ==
  ~v.formed => /\ Len(v.a) = 0 /\ ~v.blocked
               /\ \A i \in DOMAIN v.b : v.b[i].tag \in {"Peers", "Disconnect"}
Loose(v) == Entering(v) /\ (Pending(v) <= 1 \/ FailsSoon(v))
Waiting(v) == Entering(v) /\ (Pending(v) = 1 \/ FailsSoon(v))
Joined(v) == v.formed /\ (Pending(v) = 0 \/ Fails(v))
Meeting(v) == v.formed /\ (Pending(v) = 1 \/ Fails(v))
Grouping(v) ==
  /\ v.formed
  /\ \/ Fails(v)
     \/ Len(v.a) = 0 /\ ~v.blocked /\ Len(v.b) = 1 /\ v.b[1].tag = "Grouped"

Chat(v) == /\ v.a \in Seq(Message) /\ v.b \in Seq(Message)
           /\ v.blocked \in BOOLEAN /\ v.formed \in BOOLEAN

LEMMA SeqFacts ==
  ASSUME NEW s \in Seq(Message)
  PROVE  /\ Len(s) \in Nat /\ (s = <<>> <=> Len(s) = 0)
         /\ Len(s) >= 1 => Head(s) = s[1] /\ Len(Tail(s)) = Len(s) - 1 /\ Tail(s) \in Seq(Message)
         /\ Len(s) >= 2 => Tail(s)[1] = s[2]
         /\ DOMAIN s = 1..Len(s)
         /\ \A i \in DOMAIN Tail(s) : Len(s) >= 1 => i + 1 \in DOMAIN s /\ Tail(s)[i] = s[i + 1]
OBVIOUS

LEMMA AppendFacts ==
  ASSUME NEW s \in Seq(Message), NEW m \in Message
  PROVE  /\ Len(Append(s, m)) = Len(s) + 1 /\ Append(s, m) \in Seq(Message)
         /\ Append(s, m)[Len(s) + 1] = m
         /\ Len(s) >= 1 => Append(s, m)[1] = s[1]
         /\ Len(s) >= 2 => Append(s, m)[2] = s[2]
         /\ Len(s) = 0 => Append(s, m)[1] = m
         /\ Len(s) = 1 => Append(s, m)[2] = m
         /\ DOMAIN Append(s, m) = DOMAIN s \cup {Len(s) + 1}
         /\ \A i \in DOMAIN s : Append(s, m)[i] = s[i]
OBVIOUS

LEMMA PendingSum ==
  ASSUME NEW v
  PROVE  /\ v.blocked => Pending(v) = Len(v.a) + Len(v.b) + 1
         /\ ~v.blocked => Pending(v) = Len(v.a) + Len(v.b)
BY DEF Pending

(* Every move keeps the number of answers, and what will fail.              *)
LEMMA MovesKept ==
  ASSUME NEW v, NEW w, Chat(v), Chat(w), Moves(v, w), Entering(v)
  PROVE  /\ Entering(w) /\ Pending(w) = Pending(v) /\ (v.formed => w.formed)
         /\ Fails(v) => Fails(w)
         /\ FailsSoon(v) => FailsSoon(w)
         /\ Grouping(v) => Grouping(w)
<1> DEFINE la == Len(v.a)
           lb == Len(v.b)
           wa == Len(w.a)
           wb == Len(w.b)
           pv == Pending(v)
           pw == Pending(w)
<1>0. /\ v.blocked => pv = la + lb + 1
      /\ ~v.blocked => pv = la + lb
      /\ w.blocked => pw = wa + wb + 1
      /\ ~w.blocked => pw = wa + wb
  BY PendingSum
<1>1. /\ v.a \in Seq(Message) /\ v.b \in Seq(Message) /\ w.a \in Seq(Message) /\ w.b \in Seq(Message)
      /\ v.blocked \in BOOLEAN /\ v.formed \in BOOLEAN /\ w.blocked \in BOOLEAN /\ w.formed \in BOOLEAN
  BY DEF Chat
<1>2. la \in Nat /\ lb \in Nat /\ (v.b = <<>> <=> lb = 0)
  BY <1>1, SeqFacts
<1>3. /\ lb >= 1 => Head(v.b) = v.b[1] /\ Len(Tail(v.b)) = lb - 1
      /\ lb >= 2 => Tail(v.b)[1] = v.b[2]
      /\ lb >= 1 => \A i \in DOMAIN Tail(v.b) : i + 1 \in DOMAIN v.b /\ Tail(v.b)[i] = v.b[i + 1]
      /\ lb >= 1 => 1 \in DOMAIN v.b
  BY <1>1, SeqFacts
<1>4. \A t \in {"OK", "Refuse"} : LET x == Append(v.a, Msg(t)) IN
         /\ Len(x) = la + 1
         /\ la >= 1 => x[1] = v.a[1]
         /\ la >= 2 => x[2] = v.a[2]
         /\ la = 0 => x[1].tag = t
         /\ la = 1 => x[2].tag = t
  <2> SUFFICES ASSUME NEW t \in {"OK", "Refuse"}
               PROVE LET x == Append(v.a, Msg(t)) IN
                       /\ Len(x) = la + 1
                       /\ la >= 1 => x[1] = v.a[1]
                       /\ la >= 2 => x[2] = v.a[2]
                       /\ la = 0 => x[1].tag = t
                       /\ la = 1 => x[2].tag = t
    OBVIOUS
  <2>1. Msg(t) \in Message /\ Msg(t).tag = t
    BY MsgIsMessage, CodeFacts DEF Msg
  <2>2. LET x == Append(v.a, Msg(t)) IN
          /\ Len(x) = la + 1
          /\ la >= 1 => x[1] = v.a[1]
          /\ la >= 2 => x[2] = v.a[2]
          /\ la = 0 => x[1] = Msg(t)
          /\ la = 1 => x[2] = Msg(t)
    BY <1>1, <2>1, AppendFacts
  <2> QED BY <2>1, <2>2
<1> HIDE DEF la, lb, wa, wb, pv, pw
<1>5. CASE TakesUp(v, w)
  <2>1. /\ ~v.blocked /\ lb >= 1 /\ w.b = Tail(v.b) /\ w.a = v.a
        /\ v.b[1].tag = "ConnectTo" /\ v.formed /\ w.formed /\ w.blocked
    BY <1>2, <1>3, <1>5 DEF TakesUp
  <2>2. ~Hopeless(v, 1)
    BY <2>1 DEF Hopeless
  <2>3. lb >= 2 /\ Hopeless(v, 2) => Hopeless(w, 1)
    BY <1>3, <2>1 DEF Hopeless
  <2>4. wb = lb - 1 /\ wa = la
    BY <1>3, <2>1 DEF la, lb, wa, wb
  <2>5. Entering(w) /\ pw = pv
    <3>1. Entering(w)
      BY <1>2, <2>1, <2>4 DEF Entering, la, lb, wa, wb
    <3>2. pw = pv
      BY <1>2, <2>1, <2>4, <1>0
    <3> QED BY <3>1, <3>2
  <2>6. (Fails(v) => Fails(w)) /\ (FailsSoon(v) => FailsSoon(w))
    BY <1>2, <2>1, <2>2, <2>3, <2>4 DEF Fails, FailsSoon, la, lb, wa, wb
  <2>7. Grouping(v) => Grouping(w)
    BY <2>1, <2>6 DEF Grouping
  <2> QED BY <2>1, <2>5, <2>6, <2>7 DEF pv, pw
<1>6. CASE Agrees(v, w)
  <2>1. /\ ~v.blocked /\ lb >= 1 /\ w.b = Tail(v.b) /\ w.a = Append(v.a, Msg("OK"))
        /\ v.b[1].tag = "Peers" /\ ~v.formed /\ w.formed /\ ~w.blocked
    BY <1>2, <1>3, <1>6 DEF Agrees
  <2>2. la = 0
    BY <2>1 DEF Entering, la
  <2>3. wb = lb - 1 /\ wa = 1 /\ w.a[1].tag = "OK"
    BY <1>3, <1>4, <2>1, <2>2 DEF wa, wb
  <2>4. ~Hopeless(v, 1)
    BY <2>1 DEF Hopeless
  <2>5. lb >= 2 /\ Hopeless(v, 2) => Hopeless(w, 1)
    BY <1>3, <2>1 DEF Hopeless
  <2>6. Entering(w) /\ pw = pv
    <3>1. Entering(w)
      BY <1>2, <2>1, <2>2, <2>3 DEF Entering, la, lb, wa, wb
    <3>2. pw = pv
      BY <1>2, <2>1, <2>2, <2>3, <1>0
    <3> QED BY <3>1, <3>2
  <2>7. (Fails(v) => Fails(w)) /\ (FailsSoon(v) => FailsSoon(w))
    BY <1>2, <2>1, <2>2, <2>3, <2>4, <2>5 DEF Fails, FailsSoon, la, lb, wa, wb
  <2> QED BY <2>1, <2>6, <2>7 DEF Grouping, pv, pw
<1>7. CASE Declines(v, w)
  <2>1. /\ ~v.blocked /\ lb >= 1 /\ w.b = Tail(v.b) /\ w.a = Append(v.a, Msg("Refuse"))
        /\ (w.formed <=> v.formed) /\ ~w.blocked
        /\ ~v.formed => v.b[1].tag \notin {"Peers", "Disconnect"}
    BY <1>2, <1>3, <1>7 DEF Declines
  <2>2. v.formed /\ w.formed
    BY <1>3, <2>1 DEF Entering
  <2>3. /\ wb = lb - 1 /\ wa = la + 1
        /\ la >= 1 => w.a[1] = v.a[1]
        /\ la >= 2 => w.a[2] = v.a[2]
        /\ la = 0 => w.a[1].tag = "Refuse"
        /\ la = 1 => w.a[2].tag = "Refuse"
    BY <1>3, <1>4, <2>1 DEF wa, wb
  <2>4. Entering(w) /\ pw = pv
    <3>1. Entering(w)
      BY <1>2, <2>1, <2>2, <2>3 DEF Entering, la, lb, wa, wb
    <3>2. pw = pv
      BY <1>2, <2>1, <2>2, <2>3, <1>0
    <3> QED BY <3>1, <3>2
  <2>5. Fails(v) => Fails(w)
    BY <1>2, <2>3 DEF Fails, la, wa
  <2>6. FailsSoon(v) => FailsSoon(w)
    BY <1>2, <2>1, <2>3, <2>5 DEF Fails, FailsSoon, la, lb, wa, wb
  <2>7. Grouping(v) => Grouping(w)
    BY <1>2, <2>2, <2>3, <2>5 DEF Grouping, Fails, la, wa
  <2> QED BY <2>2, <2>4, <2>5, <2>6, <2>7 DEF pv, pw
<1>8. CASE Replies(v, w)
  <2>1. /\ v.blocked /\ ~w.blocked /\ w.b = v.b /\ (w.formed <=> v.formed)
    BY <1>8 DEF Replies
  <2>2. PICK t \in {"OK", "Refuse"} : w.a = Append(v.a, Msg(t))
    BY <1>8 DEF Replies
  <2>3. /\ wb = lb /\ wa = la + 1
        /\ la >= 1 => w.a[1] = v.a[1]
        /\ la >= 2 => w.a[2] = v.a[2]
    BY <1>4, <2>1, <2>2 DEF lb, wa, wb
  <2>4. v.formed /\ w.formed
    BY <1>1, <2>1 DEF Entering
  <2>5. \A j : Hopeless(v, j) => Hopeless(w, j)
    BY <2>1 DEF Hopeless
  <2>6. Entering(w) /\ pw = pv
    <3>1. Entering(w)
      BY <1>2, <2>1, <2>3, <2>4 DEF Entering, la, lb, wa, wb
    <3>2. pw = pv
      BY <1>2, <2>1, <2>3, <2>4, <1>0
    <3> QED BY <3>1, <3>2
  <2>7. Fails(v) => Fails(w)
    BY <1>2, <2>1, <2>3 DEF Fails, la, wa
  <2>8. FailsSoon(v) => FailsSoon(w)
    BY <1>2, <2>1, <2>3, <2>5, <2>7 DEF Fails, FailsSoon, la, lb, wa, wb
  <2>9. Grouping(v) => Grouping(w)
    BY <2>1, <2>4, <2>7 DEF Grouping
  <2> QED BY <2>4, <2>6, <2>7, <2>8, <2>9 DEF pv, pw
<1>9. CASE w = v
  BY <1>9
<1> QED BY <1>5, <1>6, <1>7, <1>8, <1>9 DEF Moves

LEMMA LevelsKept ==
  ASSUME NEW v, NEW w, Chat(v), Chat(w), Moves(v, w)
  PROVE  /\ Loose(v) => Loose(w)
         /\ Waiting(v) => Waiting(w)
         /\ Joined(v) => Joined(w)
         /\ Meeting(v) => Meeting(w)
         /\ Grouping(v) => Grouping(w)
<1>1. v.formed => Entering(v)
  BY DEF Entering
<1> QED BY <1>1, MovesKept DEF Loose, Waiting, Joined, Meeting, Grouping

(* What the client writes.                                                  *)
Adds(v, w, m) ==
  /\ w.a = v.a /\ w.b = Append(v.b, m)
  /\ (w.blocked <=> v.blocked) /\ (w.formed <=> v.formed)
LEMMA SaysMore ==
  ASSUME NEW v, NEW w, Chat(v), NEW m \in Message, Adds(v, w, m)
  PROVE  /\ Loose(v) /\ m.tag = "Peers" => Waiting(w)
         /\ Loose(v) /\ m.tag = "Disconnect" => Loose(w)
         /\ Joined(v) /\ m.tag = "ConnectTo" => Meeting(w)
         /\ Joined(v) /\ m.tag = "Grouped" => Grouping(w)
<1> DEFINE la == Len(v.a)
           lb == Len(v.b)
           wa == Len(w.a)
           wb == Len(w.b)
           pv == Pending(v)
           pw == Pending(w)
<1>0. /\ v.blocked => pv = la + lb + 1
      /\ ~v.blocked => pv = la + lb
      /\ w.blocked => pw = wa + wb + 1
      /\ ~w.blocked => pw = wa + wb
  BY PendingSum
<1>1. la \in Nat /\ lb \in Nat
  BY SeqFacts DEF Chat
<1>13. (w.blocked <=> v.blocked) /\ (w.formed <=> v.formed) /\ w.a = v.a
  BY DEF Adds
<1>2. /\ wb = lb + 1 /\ wa = la
      /\ lb >= 1 => w.b[1] = v.b[1]
      /\ lb >= 2 => w.b[2] = v.b[2]
      /\ lb = 0 => w.b[1] = m
      /\ lb = 1 => w.b[2] = m
  BY AppendFacts DEF Chat, Adds, wa, wb
<1>3. \A i \in DOMAIN w.b : w.b[i] = m \/ (i \in DOMAIN v.b /\ w.b[i] = v.b[i])
  BY AppendFacts DEF Chat, Adds
<1>9. lb >= 1 => 1 \in DOMAIN v.b
  BY SeqFacts DEF Chat
<1> HIDE DEF la, lb, wa, wb, pv, pw
<1>4. /\ lb >= 1 /\ Hopeless(v, 1) => Hopeless(w, 1)
      /\ lb >= 2 /\ Hopeless(v, 2) => Hopeless(w, 2)
  BY <1>1, <1>2, <1>13 DEF Hopeless
<1>5. (Fails(v) => Fails(w)) /\ (FailsSoon(v) => FailsSoon(w))
  BY <1>13, <1>1, <1>2, <1>4 DEF Fails, FailsSoon, la, lb, wa, wb
<1>6. pw = pv + 1 /\ pv \in Nat
  BY <1>1, <1>2, <1>0, <1>13
<1>7. ASSUME Loose(v), m.tag \in {"Peers", "Disconnect"} PROVE Entering(w)
  BY <1>13, <1>1, <1>2, <1>3, <1>7 DEF Loose, Entering, la, wa
<1>8. ASSUME Loose(v), m.tag \in {"Peers", "Disconnect"}, pv = 1 PROVE FailsSoon(w)
  <2>1. \/ la = 1 /\ ~v.blocked /\ lb = 0
        \/ la = 0 /\ v.blocked /\ lb = 0
        \/ la = 0 /\ ~v.blocked /\ lb = 1
    BY <1>13, <1>1, <1>8, <1>0
  <2>2. ~v.formed => la = 0 /\ ~v.blocked /\ (lb = 1 => v.b[1].tag \in {"Peers", "Disconnect"})
    BY <1>13, <1>1, <1>8, <1>9 DEF Loose, Entering, la
  <2>3. CASE lb = 0
    <3>1. v.formed
      BY <2>1, <2>2, <2>3
    <3>2. Hopeless(w, 1)
      BY <1>13, <1>2, <1>8, <2>3, <3>1 DEF Hopeless
    <3> QED BY <1>13, <1>1, <1>2, <2>1, <2>3, <3>2 DEF FailsSoon, la, lb, wa, wb
  <2>4. CASE lb = 1 /\ v.formed
    <3>1. Hopeless(w, 2)
      BY <1>13, <1>2, <1>8, <2>4 DEF Hopeless
    <3> QED BY <1>13, <1>1, <1>2, <2>1, <2>4, <3>1 DEF FailsSoon, la, lb, wa, wb
  <2>5. CASE lb = 1 /\ ~v.formed
    <3>1. Hopeless(w, 1) \/ Hopeless(w, 2)
      BY <1>2, <1>8, <1>13, <2>2, <2>5 DEF Hopeless
    <3> QED BY <1>13, <1>1, <1>2, <2>1, <2>5, <3>1 DEF FailsSoon, Fails, la, lb, wa, wb
  <2> QED BY <2>1, <2>3, <2>4, <2>5
<1>10. ASSUME Loose(v), m.tag \in {"Peers", "Disconnect"}
       PROVE  Entering(w) /\ (pw = 1 \/ FailsSoon(w))
  BY <1>13, <1>5, <1>6, <1>7, <1>8, <1>10 DEF Loose, pv
<1>11. ASSUME Joined(v), m.tag = "ConnectTo" PROVE Meeting(w)
  BY <1>13, <1>5, <1>6, <1>11 DEF Joined, Meeting, pv, pw
<1>12. ASSUME Joined(v), m.tag = "Grouped" PROVE Grouping(w)
  <2>1. pv = 0 => la = 0 /\ ~v.blocked /\ lb = 0
    BY <1>13, <1>1, <1>0
  <2> QED BY <1>13, <1>1, <1>2, <1>5, <1>12, <2>1 DEF Joined, Grouping, la, lb, wa, wb, pv
<1> QED BY <1>6, <1>10, <1>11, <1>12 DEF Waiting, Loose, pv, pw

(* What the client reads.                                                   *)
Reads(v, w) ==
  /\ v.a # <<>> /\ w.a = Tail(v.a) /\ w.b = v.b
  /\ (w.blocked <=> v.blocked) /\ (w.formed <=> v.formed)
LEMMA HearsOK ==
  ASSUME NEW v, NEW w, Chat(v), Reads(v, w), Head(v.a).tag = "OK"
  PROVE  /\ Waiting(v) => Joined(w)
         /\ Meeting(v) => Joined(w)
         /\ ~Grouping(v)
<1> DEFINE la == Len(v.a)
           lb == Len(v.b)
           wa == Len(w.a)
           wb == Len(w.b)
           pv == Pending(v)
           pw == Pending(w)
<1>0. /\ v.blocked => pv = la + lb + 1
      /\ ~v.blocked => pv = la + lb
      /\ w.blocked => pw = wa + wb + 1
      /\ ~w.blocked => pw = wa + wb
  BY PendingSum
<1>1. la \in Nat /\ lb \in Nat /\ la >= 1
  BY SeqFacts DEF Chat, Reads
<1>9. (w.blocked <=> v.blocked) /\ (w.formed <=> v.formed) /\ w.b = v.b
  BY DEF Reads
<1>2. /\ wb = lb /\ wa = la - 1 /\ v.a[1].tag = "OK"
      /\ la >= 2 => w.a[1] = v.a[2]
  BY <1>1, SeqFacts DEF Chat, Reads, la, lb, wa, wb
<1> HIDE DEF la, lb, wa, wb, pv, pw
<1>3. ~Fails(v)
  BY <1>1, <1>2 DEF Fails, la, wa
<1>4. Hopeless(v, 1) <=> Hopeless(w, 1)
  BY <1>9 DEF Hopeless
<1>5. FailsSoon(v) => Fails(w)
  BY <1>9, <1>1, <1>2, <1>3, <1>4 DEF FailsSoon, Fails, la, lb, wa, wb
<1>6. pv = pw + 1 /\ pw \in Nat
  BY <1>9, <1>1, <1>2, <1>0
<1>7. Entering(v) => v.formed
  BY <1>1 DEF Entering, la
<1>8. ~Grouping(v)
  BY <1>1, <1>3 DEF Grouping, la
<1> QED BY <1>9, <1>3, <1>5, <1>6, <1>7, <1>8 DEF Waiting, Meeting, Joined, pv, pw

LEMMA AllLoose ==
  ASSUME NEW v, Chat(v)
  PROVE  /\ Waiting(v) => Loose(v)
         /\ Joined(v) => Loose(v)
         /\ Meeting(v) => Loose(v)
         /\ Grouping(v) => Loose(v)
<1>1. Fails(v) => FailsSoon(v)
  BY DEF FailsSoon
<1>2. v.formed => Entering(v)
  BY DEF Entering
<1>3. Len(v.a) \in Nat /\ Len(v.b) \in Nat
  BY SeqFacts DEF Chat
<1>5. ~v.blocked => Pending(v) = Len(v.a) + Len(v.b)
  BY PendingSum
<1>4. Len(v.a) = 0 /\ ~v.blocked /\ Len(v.b) = 1 => Pending(v) = 1
  BY <1>3, <1>5
<1> QED BY <1>1, <1>2, <1>3, <1>4 DEF Waiting, Joined, Meeting, Grouping, Loose

-----------------------------------------------------------------------------
(* The invariant of a session: clients C, the network n, daemons D.  Every  *)
(* end a client uses is its own.                                            *)
Leased(C) ==
  {x \in End : \E c \in Clients : \E r \in Ranks : C[c].line[r] = x \/ C[c].cache[r] = x}
Owns(k, c, n) == \A e \in Holds(k) \ {NoEnd} : e \in End /\ n.hold[e] = {c} /\ e[2] = "near"

Shape(k) ==
  /\ k.line[0] = NoEnd /\ k.counter >= 1
  /\ k.adding # NoEnd =>
       k.pc = "add" /\ ~k.established /\ \A r \in Ranks : k.line[r] # k.adding /\ k.cache[r] # k.adding
  /\ \A r, q \in Ranks : k.line[r] = k.line[q] /\ k.line[r] # NoEnd => r = q
  /\ \A r \in Ranks \ {0} : k.todo[r] = NoEnd \/ k.todo[r] = k.cache[r]
  /\ k.pc # "probe" => k.todo = NoSlaves

(* The conversation with slave r, by the phase of the call.                 *)
Stage(k, r, v) ==
  /\ ~k.established
  /\ \/ k.pc \in {"idle", "add"} /\ Loose(v)
     \/ /\ k.pc = "peers"
        /\ (r > k.pos => Loose(v)) /\ (r = k.pos => Waiting(v)) /\ (r < k.pos => Joined(v))
     \/ /\ k.pc = "connect"
        /\ (r = k.pos => Meeting(v)) /\ (r # k.pos => Joined(v))
     \/ /\ k.pc = "group"
        /\ (r > k.pos => Joined(v)) /\ (r = k.pos => Grouping(v)) /\ r >= k.pos

Asking(v) == ~v.formed /\ ~v.blocked /\ Len(v.b) = 0 /\ Len(v.a) = 1
Aloof(k, n, D) ==
  \A h \in Hosts : Forming(D[Main(h)]) =>
    LET x == Other(Home(D[Main(h)]))
    IN /\ \A r \in Ranks : k.cache[r] # x
       /\ k.adding = x => Asking(View(n, D[Main(h)]))
Talks(k, n, D) ==
  \A h \in Hosts : Forming(D[Main(h)]) =>
    \A r \in Ranks : k.line[r] = Other(Home(D[Main(h)])) => Stage(k, r, View(n, D[Main(h)]))

Sound(k, c, n, D) == Owns(k, c, n) /\ Shape(k) /\ Aloof(k, n, D)
World(n, D) == [d |-> D, n |-> n]
Whole(C, n, D) ==
  /\ Orderly(World(n, D), Leased(C))
  /\ \A c \in Clients : Sound(C[c], c, n, D) /\ Talks(C[c], n, D)

LEMMA WorldFacts ==
  ASSUME NEW n \in NetType, NEW D \in [Daemons -> DaemonType]
  PROVE  World(n, D) \in Situation /\ World(n, D).n = n /\ World(n, D).d = D
BY DEF World, Situation

LEMMA ClientsApart ==
  /\ \A c \in Clients : c \notin Daemons /\ c \in Procs /\ {c} \cap Daemons = {} /\ {c} \cap Clients # {}
  /\ \A h \in Hosts : Main(h) \notin Clients
<1>1. Daemons \cap Clients = {}
  BY WireAssumption DEF Daemons
<1> QED BY <1>1, ProcsFacts DEF Procs

(* A main process that forms a group, the end of its client's line, and the *)
(* other end of it.                                                         *)
LEMMA SeatFacts ==
  ASSUME NEW n \in NetType, NEW D \in [Daemons -> DaemonType], NEW K, Orderly(World(n, D), K),
         NEW h \in Hosts, Forming(D[Main(h)]), NEW e, e = Home(D[Main(h)])
  PROVE  /\ e \in End /\ Other(e) \in End /\ Other(Other(e)) = e /\ Other(e) # e /\ e[2] = "far"
         /\ Other(e) # NoEnd
         /\ n.hold[e] = {Main(h)} /\ n.hold[Other(e)] \cap Daemons = {}
         /\ \A m \in Msgs(n, e) : m.tag \in {"Peers", "ConnectTo", "Grouped", "Disconnect"}
         /\ \A m \in Msgs(n, Other(e)) : m.tag \in {"OK", "Refuse"}
         /\ Chat(View(n, D[Main(h)]))
         /\ View(n, D[Main(h)]).a = n.box[Other(e)] /\ View(n, D[Main(h)]).b = n.box[e]
<1> DEFINE d == D[Main(h)]
           v == View(n, d)
<1>1. World(n, D).n = n /\ World(n, D).d = D
  BY WorldFacts
<1>2. Formed(World(n, D), NoHost, {})
  BY WiredOwned DEF Orderly
<1>3. FormOk(n, d, Main(h), {})
  BY <1>1, <1>2 DEF Formed
<1>4. /\ e \in End /\ e[2] = "far"
      /\ n.hold[e] = {Main(h)} /\ n.hold[Other(e)] \cap Daemons = {}
      /\ \A m \in Msgs(n, e) : m.tag \in {"Peers", "ConnectTo", "Grouped", "Disconnect"}
      /\ \A m \in Msgs(n, Other(e)) : m.tag \in {"OK", "Refuse"}
  BY <1>3 DEF FormOk
<1>5. /\ Other(e) \in End /\ Other(Other(e)) = e /\ Other(e) # e
  BY <1>4, OtherIsEnd
<1>6. Other(e) # NoEnd
  BY <1>5, NoEndIsNoEnd
<1>7. n.box[e] \in Seq(Message) /\ n.box[Other(e)] \in Seq(Message)
  BY <1>4, <1>5 DEF NetType
<1>8. /\ v.a = n.box[Other(e)] /\ v.b = n.box[e]
      /\ v.blocked \in BOOLEAN /\ v.formed \in BOOLEAN
  BY DEF View
<1>9. Chat(v)
  BY <1>7, <1>8 DEF Chat
<1> QED BY <1>4, <1>5, <1>6, <1>8, <1>9

-----------------------------------------------------------------------------
(* Steps of the daemons.                                                    *)
LEMMA StageKept ==
  ASSUME NEW k, NEW r, NEW v, NEW w, Chat(v), Chat(w), Moves(v, w), Stage(k, r, v)
  PROVE  Stage(k, r, w)
BY LevelsKept DEF Stage

LEMMA AskingKept ==
  ASSUME NEW v, NEW w, Chat(v), Chat(w), Moves(v, w), Asking(v)
  PROVE  Asking(w)
<1>1. v.b = <<>>
  BY SeqFacts DEF Chat, Asking
<1>2. ~v.blocked
  BY DEF Asking
<1>3. w = v
  BY <1>1, <1>2 DEF Moves, TakesUp, Agrees, Declines, Replies
<1> QED BY <1>3

LEMMA SoundHolds ==
  ASSUME NEW k, NEW c, NEW n, NEW D, Sound(k, c, n, D), NEW e, e # NoEnd,
         e = k.adding \/ \E r \in Ranks : e = k.line[r] \/ e = k.cache[r]
  PROVE  e \in End /\ n.hold[e] = {c} /\ e[2] = "near"
<1>1. e \in Holds(k) \ {NoEnd}
  BY DEF Holds
<1> QED BY <1>1 DEF Sound, Owns

LEMMA LeasedHolds ==
  ASSUME NEW C, NEW n, NEW D, \A c \in Clients : Sound(C[c], c, n, D)
  PROVE  \A x \in Leased(C) : /\ x \in End /\ n.hold[x] # {}
                              /\ \E c \in Clients : n.hold[x] = {c}
<1> SUFFICES ASSUME NEW x \in Leased(C)
             PROVE  x \in End /\ n.hold[x] # {} /\ \E c \in Clients : n.hold[x] = {c}
  OBVIOUS
<1>1. PICK c \in Clients : \E r \in Ranks : C[c].line[r] = x \/ C[c].cache[r] = x
  BY DEF Leased
<1>3. x \in End /\ x # NoEnd
  BY NoEndIsNoEnd DEF Leased
<1>2. x \in End /\ n.hold[x] = {c}
  BY <1>1, <1>3, SoundHolds
<1> QED BY <1>2

LEMMA OnwardTalks ==
  ASSUME NEW n \in NetType, NEW D \in [Daemons -> DaemonType],
         NEW o \in NetType, NEW B \in [Daemons -> DaemonType], NEW K,
         Orderly(World(n, D), K), Orderly(World(o, B), K),
         NEW h \in Hosts, Forming(B[Main(h)]), NEW x, x = Other(Home(B[Main(h)])),
         Goeson(n, D[Main(h)], o, B[Main(h)], h),
         NEW c \in Clients, n.hold[x] = {c}
  PROVE  \/ /\ Forming(D[Main(h)]) /\ Home(D[Main(h)]) = Home(B[Main(h)])
            /\ Chat(View(n, D[Main(h)])) /\ Chat(View(o, B[Main(h)]))
            /\ Moves(View(n, D[Main(h)]), View(o, B[Main(h)]))
         \/ x \notin K /\ Asking(View(o, B[Main(h)]))
<1> DEFINE b == D[Main(h)]
           d == B[Main(h)]
           e == Home(d)
           w == View(o, d)
<1>1. /\ e \in End /\ Other(e) = x /\ x \in End /\ Other(x) = e
      /\ Chat(w) /\ w.a = o.box[x] /\ w.b = o.box[e]
  BY SeatFacts
<1>2. CASE Converse(n, b, o, d)
  <2>1. Forming(b) /\ Home(d) = Home(b) /\ Moves(View(n, b), w)
    BY <1>1, <1>2 DEF Converse
  <2>2. Chat(View(n, b))
    BY <2>1, SeatFacts
  <2> QED BY <1>1, <2>1, <2>2
<1>3. CASE \E y \in Queue(n, h) : Enters(n, o, d, y)
  <2>1. PICK y \in Queue(n, h) : Enters(n, o, d, y)
    BY <1>3
  <2>2. y = e /\ d.state = "Enslaved" /\ d.wait.on # "line" /\ o.box[e] = <<>>
    BY <2>1 DEF Enters
  <2>3. n.hold[x] # {} /\ n.hold[x] \cap Daemons = {}
    BY ClientsApart
  <2>4. o.box[x] = <<Msg("OK")>>
    BY <1>1, <2>1, <2>2, <2>3 DEF Enters
  <2>5. Queued(World(n, D), {}, K)
    BY WiredOwned DEF Orderly
  <2>6. x \notin K
    BY <1>1, <2>1, <2>2, <2>5, WorldFacts DEF Queued
  <2>7. ~w.formed /\ ~w.blocked
    BY <2>2 DEF View
  <2>8. Len(w.a) = 1 /\ Len(w.b) = 0
    BY <1>1, <2>2, <2>4
  <2> QED BY <2>6, <2>7, <2>8 DEF Asking
<1> QED BY <1>2, <1>3 DEF Goeson

LEMMA OnwardWhole ==
  ASSUME Tied, net \in NetType, daemon \in [Daemons -> DaemonType], NEW C,
         Whole(C, net, daemon), Onward(Leased(C))
  PROVE  Whole(C, net', daemon')
<1> DEFINE T == World(net', daemon')
           K == Leased(C)
<1>0. Now = World(net, daemon)
  BY DEF Now, World
<1>1. Advance(Now, T, K)
  BY DEF Onward, World
<1>2. T \in Situation /\ Orderly(T, K) /\ T.n = net' /\ T.d = daemon'
  BY <1>1 DEF Advance, World
<1>3. net' \in NetType /\ daemon' \in [Daemons -> DaemonType]
  BY <1>2, Components
<1>4. \A x \in End : net.hold[x] # {} /\ net.hold[x] \cap Daemons = {} => net'.hold[x] = net.hold[x]
  BY <1>1, <1>2 DEF Advance, Lent, Sight, Now
<1>5. ASSUME NEW h \in Hosts, Forming(daemon'[Main(h)])
      PROVE  Goeson(net, daemon[Main(h)], net', daemon'[Main(h)], h)
  BY <1>1, <1>2, <1>5 DEF Advance, Now
<1>6. Orderly(World(net, daemon), K) /\ Orderly(World(net', daemon'), K)
  BY <1>2 DEF Whole
<1> HIDE DEF T
<1>7. ASSUME NEW c \in Clients
      PROVE  Sound(C[c], c, net', daemon') /\ Talks(C[c], net', daemon')
  <2> DEFINE k == C[c]
  <2>1. Sound(k, c, net, daemon) /\ Talks(k, net, daemon)
    BY DEF Whole
  <2>2. Owns(k, c, net')
    <3> SUFFICES ASSUME NEW e \in Holds(k) \ {NoEnd}
                 PROVE  e \in End /\ net'.hold[e] = {c} /\ e[2] = "near"
      BY DEF Owns
    <3>1. e \in End /\ net.hold[e] = {c} /\ e[2] = "near"
      BY <2>1 DEF Sound, Owns
    <3> QED BY <1>4, <3>1, ClientsApart
  <2>3. ASSUME NEW h \in Hosts, Forming(daemon'[Main(h)])
        PROVE  LET x == Other(Home(daemon'[Main(h)]))
                   w == View(net', daemon'[Main(h)])
               IN /\ \A r \in Ranks : k.cache[r] # x
                  /\ k.adding = x => Asking(w)
                  /\ \A r \in Ranks : k.line[r] = x => Stage(k, r, w)
    <3> DEFINE x == Other(Home(daemon'[Main(h)]))
               w == View(net', daemon'[Main(h)])
               b == daemon[Main(h)]
               v == View(net, b)
    <3>1. x # NoEnd /\ x \in End
      BY <1>3, <1>6, <2>3, SeatFacts
    <3>2. CASE x = k.adding \/ \E r \in Ranks : x = k.line[r] \/ x = k.cache[r]
      <4>1. net.hold[x] = {c}
        BY <2>1, <3>1, <3>2, SoundHolds
      <4>2. \/ /\ Forming(b) /\ Home(b) = Home(daemon'[Main(h)])
               /\ Chat(v) /\ Chat(w) /\ Moves(v, w)
            \/ x \notin K /\ Asking(w)
        BY <1>3, <1>5, <1>6, <2>3, <4>1, OnwardTalks
      <4>3. CASE Forming(b) /\ Home(b) = Home(daemon'[Main(h)]) /\ Chat(v) /\ Chat(w) /\ Moves(v, w)
        <5>1. /\ \A r \in Ranks : k.cache[r] # x
              /\ k.adding = x => Asking(v)
              /\ \A r \in Ranks : k.line[r] = x => Stage(k, r, v)
          BY <2>1, <4>3 DEF Sound, Aloof, Talks
        <5>2. k.adding = x => Asking(w)
          <6> HIDE DEF v, w, x, b, k
          <6> QED BY <4>3, <5>1, AskingKept
        <5>3. \A r \in Ranks : k.line[r] = x => Stage(k, r, w)
          <6> HIDE DEF v, w, x, b, k
          <6> QED BY <4>3, <5>1, StageKept
        <5> QED BY <5>1, <5>2, <5>3
      <4>4. CASE x \notin K /\ Asking(w)
        <5>1. \A r \in Ranks : k.cache[r] # x /\ k.line[r] # x
          BY <3>1, <4>4 DEF Leased
        <5> QED BY <4>4, <5>1
      <4> QED BY <4>2, <4>3, <4>4
    <3>3. CASE ~(x = k.adding \/ \E r \in Ranks : x = k.line[r] \/ x = k.cache[r])
      BY <3>3
    <3> QED BY <3>2, <3>3
  <2>4. Aloof(k, net', daemon') /\ Talks(k, net', daemon')
    BY <2>3 DEF Aloof, Talks
  <2> QED BY <2>1, <2>2, <2>4 DEF Sound
<1> QED BY <1>6, <1>7 DEF Whole

-----------------------------------------------------------------------------
(* Steps of a client.  Client c reads and closes ends R of its own and      *)
(* writes messages with tags T to its lines W.                              *)
Touched(n, o, c, R, W, T) ==
  /\ n \in NetType /\ o \in NetType /\ o.ear = n.ear /\ o.listen = n.listen
  /\ \A x \in R : c \in n.hold[x]
  /\ \A x \in W : x \in End /\ n.hold[x] = {c} /\ x[2] = "near"
  /\ \A x \in End :
       /\ o.hold[x] = n.hold[x] \/ (x \in R /\ o.hold[x] = n.hold[x] \ {c})
       /\ x \notin R /\ Other(x) \notin W => o.box[x] = n.box[x]
       /\ \A m \in Msgs(o, x) : m \in Msgs(n, x) \/ (Other(x) \in W /\ m.tag \in T)
       /\ o.hold[x] = {} => o.box[x] = <<>> \/ (n.hold[x] = {} /\ o.box[x] = n.box[x])

(* The requests a main process that forms a group expects.                  *)
HomeCode == {"Peers", "ConnectTo", "Grouped", "Disconnect"}

LEMMA OrderlyLess ==
  ASSUME NEW S, NEW K, Orderly(S, K), NEW L, L \subseteq K PROVE Orderly(S, L)
<1>1. Queued(S, {}, K)
  BY WiredOwned DEF Orderly
<1>2. Queued(S, {}, L)
  BY <1>1 DEF Queued
<1> QED BY <1>2 DEF Orderly, Wired

LEMMA TouchedOrderly ==
  ASSUME NEW n, NEW o, NEW c \in Clients, NEW R, NEW W, NEW T, Touched(n, o, c, R, W, T),
         NEW D \in [Daemons -> DaemonType], NEW K, Orderly(World(n, D), K),
         W \subseteq K, T \cap {"Enslave", "Join", "DataLine"} = {},
         T \subseteq HomeCode \/ \A h \in Hosts : Forming(D[Main(h)]) => Other(Home(D[Main(h)])) \notin W
  PROVE  Orderly(World(o, D), K)
<1> DEFINE S == World(n, D)
           U == World(o, D)
<1>1. /\ n \in NetType /\ o \in NetType /\ o.ear = n.ear
      /\ \A x \in R : c \in n.hold[x]
      /\ \A x \in W : x \in End /\ n.hold[x] = {c} /\ x[2] = "near"
      /\ \A x \in End : o.hold[x] = n.hold[x] \/ (x \in R /\ o.hold[x] = n.hold[x] \ {c})
      /\ \A x \in End : x \notin R /\ Other(x) \notin W => o.box[x] = n.box[x]
      /\ \A x \in End : \A m \in Msgs(o, x) : m \in Msgs(n, x) \/ (Other(x) \in W /\ m.tag \in T)
      /\ \A x \in End : o.hold[x] = {} => o.box[x] = <<>> \/ (n.hold[x] = {} /\ o.box[x] = n.box[x])
  BY DEF Touched
<1>2. S.n = n /\ U.n = o /\ S.d = D /\ U.d = D
  BY DEF World
<1>3. /\ Owned(S, NoHost, {}) /\ Queued(S, {}, K) /\ Enslaving(S, NoHost, {}) /\ Emptied(S)
      /\ Joining(S) /\ Formed(S, NoHost, {}) /\ Records(S)
  BY WiredOwned DEF Orderly
<1> HIDE DEF S, U
<1>4. c \notin Daemons
  BY ClientsApart
<1>5. \A x \in End : Other(x) \in End /\ Other(Other(x)) = x
  BY OtherIsEnd
<1>6. \A x \in End : \A B : c \notin B => n.hold[x] \cap B = o.hold[x] \cap B
  BY <1>1
<1>7. \A x \in End : o.hold[x] \subseteq n.hold[x]
  BY <1>1
<1>8. \A x \in End : \A B : Says(o, x, B) => Says(n, x, B) \/ (Other(x) \in W /\ T \cap B # {})
  BY <1>1 DEF Says
<1>9. \A x \in End : Peer(n, x) => Peer(o, x)
  <2> SUFFICES ASSUME NEW x \in End, Peer(n, x) PROVE Peer(o, x)
    OBVIOUS
  <2>1. o.hold[Other(x)] \cap Clients = {}
    BY <1>5, <1>7 DEF Peer
  <2>2. Other(x) \notin W
    BY <1>1 DEF Peer
  <2> QED BY <1>8, <2>1, <2>2 DEF Peer
<1>10. ASSUME NEW h \in Hosts, NEW e \in Queue(n, h)
       PROVE  /\ e \in End /\ e \notin R /\ Other(e) \notin W /\ e \notin W
              /\ o.hold[e] = n.hold[e] /\ o.box[e] = n.box[e] /\ o.box[Other(e)] = <<>>
  <2>1. e \in End
    <3>1. World(n, D) \in Situation /\ World(n, D).n = n
      BY <1>1, WorldFacts
    <3> QED BY <1>10, <3>1, QueueEnds
  <2>2. n.hold[e] = {Main(h)} /\ e[2] = "far" /\ Other(e) \notin K /\ n.box[Other(e)] = <<>>
    BY <1>2, <1>3, <1>10 DEF Queued
  <2>3. e \notin R /\ Other(e) \notin W /\ e \notin W
    BY <1>1, <2>2, ClientsApart
  <2>4. Msgs(o, Other(e)) = {}
    BY <1>1, <1>5, <2>1, <2>2, <2>3, NoMsgs
  <2>5. o.box[Other(e)] \in Seq(Message)
    BY <1>1, <1>5, <2>1 DEF NetType
  <2> QED BY <1>1, <2>1, <2>3, <2>4, <2>5, NothingArrived
<1>11. \A h \in Hosts : Queue(o, h) = Queue(n, h)
  BY <1>1 DEF Queue
<1>12. Owned(U, NoHost, {})
  <2> SUFFICES ASSUME NEW q \in Daemons, NEW e \in Uses(D[q]) PROVE q \in o.hold[e]
    BY <1>2 DEF Owned
  <2>1. q \in n.hold[e]
    BY <1>2, <1>3 DEF Owned
  <2>2. e \in End
    BY UsesType
  <2> QED BY <1>1, <1>4, <2>1, <2>2
<1>13. Queued(U, {}, K)
  <2>1. ASSUME NEW h \in Hosts, NEW e \in Queue(o, h)
        PROVE  /\ e[2] = "far" /\ o.hold[e] = {Main(h)} /\ e \notin Uses(D[Main(h)]) /\ e \notin {}
               /\ Other(e) \notin K /\ o.box[Other(e)] = <<>> /\ ~Says(o, e, ClientCode)
    <3>1. e \in Queue(n, h)
      BY <1>11, <2>1
    <3>2. /\ e[2] = "far" /\ n.hold[e] = {Main(h)} /\ e \notin Uses(D[Main(h)])
          /\ Other(e) \notin K /\ ~Says(n, e, ClientCode)
      BY <1>2, <1>3, <3>1 DEF Queued
    <3> QED BY <1>8, <1>10, <3>1, <3>2
  <2>2. \A h \in Hosts : \A i, j \in DOMAIN o.ear[h] : o.ear[h][i] = o.ear[h][j] => i = j
    BY <1>1, <1>2, <1>3 DEF Queued
  <2> QED BY <1>2, <2>1, <2>2 DEF Queued
<1>14. Enslaving(U, NoHost, {})
  <2> SUFFICES ASSUME NEW e \in End, Says(o, e, {"Enslave"})
               PROVE  /\ o.hold[Other(e)] \cap Daemons = {}
                      /\ Len(o.box[e]) = 1 /\ \E h \in Hosts : e \in Queue(o, h)
    BY <1>2 DEF Enslaving
  <2>1. Says(n, e, {"Enslave"})
    BY <1>8
  <2>2. /\ n.hold[Other(e)] \cap Daemons = {}
        /\ Len(n.box[e]) = 1 /\ \E h \in Hosts : e \in Queue(n, h)
    BY <1>2, <1>3, <2>1 DEF Enslaving
  <2> QED BY <1>5, <1>7, <1>10, <1>11, <2>2
<1>15. Emptied(U)
  BY <1>1, <1>2, <1>3 DEF Emptied
<1>16. Joining(U)
  <2> SUFFICES ASSUME NEW e \in End
               PROVE  /\ Says(o, e, {"Join", "DataLine"}) => Peer(o, e)
                      /\ \A m \in Msgs(o, e) : m.tag = "DataLine" => m.chan # Master
    BY <1>2 DEF Joining
  <2>1. Says(o, e, {"Join", "DataLine"}) => Says(n, e, {"Join", "DataLine"})
    BY <1>8
  <2> QED BY <1>1, <1>2, <1>3, <1>9, <2>1 DEF Joining
<1>17. ASSUME NEW h \in Hosts PROVE FormOk(o, D[Main(h)], Main(h), {})
  <2> DEFINE d == D[Main(h)]
             e == Home(d)
  <2>1. FormOk(n, d, Main(h), {})
    BY <1>2, <1>3, <1>17 DEF Formed
  <2> SUFFICES ASSUME Forming(d) PROVE FormOk(o, d, Main(h), {})
    BY DEF FormOk
  <2>2. /\ e \in End /\ e[2] = "far"
        /\ n.hold[e] = {Main(h)}
        /\ n.hold[Other(e)] \cap Daemons = {}
        /\ \A m \in Msgs(n, e) : m.tag \in {"Peers", "ConnectTo", "Grouped", "Disconnect"}
        /\ \A m \in Msgs(n, Other(e)) : m.tag \in {"OK", "Refuse"}
        /\ \A x \in Uses(d) \ {e} : Peer(n, x)
        /\ d.wait.on = "line" => d.wait.reply = e /\ d.wait.end[2] = "near"
    BY <2>1 DEF FormOk
  <2>3. e \notin R /\ e \notin W
    BY <1>1, <2>2, ClientsApart
  <2>4. o.hold[e] = {Main(h)} /\ o.hold[Other(e)] \cap Daemons = {}
    BY <1>1, <1>5, <1>7, <2>2, <2>3
  <2>5. \A m \in Msgs(o, e) : m.tag \in {"Peers", "ConnectTo", "Grouped", "Disconnect"}
    BY <1>1, <2>2, <1>17 DEF HomeCode
  <2>6. \A m \in Msgs(o, Other(e)) : m.tag \in {"OK", "Refuse"}
    BY <1>1, <1>5, <2>2, <2>3
  <2>7. Main(h) \in Daemons
    BY ProcsFacts
  <2>8. \A x \in Uses(d) \ {e} : Peer(o, x)
    BY <1>9, <2>2, <2>7, UsesType
  <2> QED BY <2>2, <2>4, <2>5, <2>6, <2>8 DEF FormOk
<1>18. Formed(U, NoHost, {}) /\ Records(U)
  <2>2. Records(U)
    BY <1>2, <1>3 DEF Records
  <2> QED BY <1>2, <1>17, <2>2 DEF Formed
<1>19. Frozen(U, {}, Sight(U))
  BY DEF Frozen, Seen, Lent, Sight
<1> QED BY <1>12, <1>13, <1>14, <1>15, <1>16, <1>18, <1>19 DEF Orderly, Wired, U

(* What a main process and its client see of each other stays the same when *)
(* the client touches other lines.                                          *)
LEMMA TouchedView ==
  ASSUME NEW n, NEW o, NEW c \in Clients, NEW R, NEW W, NEW T, Touched(n, o, c, R, W, T),
         NEW D \in [Daemons -> DaemonType], NEW K, Orderly(World(n, D), K),
         NEW h \in Hosts, Forming(D[Main(h)]), NEW x, x = Other(Home(D[Main(h)])), x \notin R, x \notin W
  PROVE  View(o, D[Main(h)]) = View(n, D[Main(h)])
<1> DEFINE e == Home(D[Main(h)])
<1>1. n \in NetType
  BY DEF Touched
<1>2. e \in End /\ x \in End /\ Other(x) = e /\ Other(e) = x /\ n.hold[e] = {Main(h)} /\ e[2] = "far"
  BY <1>1, SeatFacts
<1>3. e \notin R /\ e \notin W
  BY <1>2, ClientsApart DEF Touched
<1>4. o.box[e] = n.box[e] /\ o.box[x] = n.box[x]
  BY <1>2, <1>3 DEF Touched
<1> QED BY <1>2, <1>4 DEF View

(* What a client reads, writes and closes.                                  *)
LEMMA ReceiveTouched ==
  ASSUME NEW n \in NetType, NEW c, NEW e \in End, n.hold[e] = {c}
  PROVE  Touched(n, Receive(n, e), c, {e}, {}, {})
<1> DEFINE o == Receive(n, e)
<1>1. /\ o \in NetType /\ o.hold = n.hold /\ o.ear = n.ear /\ o.listen = n.listen
  BY ReceiveType
<1>2. Calmed(n, o, {e}, {})
  BY CalmReceive
<1>3. \A x \in End : x # e => o.box[x] = n.box[x]
  BY DEF Receive, NetType
<1>4. n.hold[e] # {}
  OBVIOUS
<1> HIDE DEF o
<1>5. \A x \in End : o.hold[x] = {} => n.hold[x] = {} /\ o.box[x] = n.box[x]
  BY <1>1, <1>3, <1>4
<1> QED BY <1>1, <1>2, <1>3, <1>5 DEF Touched, Calmed, o

LEMMA SendTouched ==
  ASSUME NEW n \in NetType, NEW c, NEW e, NEW W, NEW m \in Message,
         \A x \in W : x \in End /\ n.hold[x] = {c} /\ x[2] = "near", e \in End => e \in W
  PROVE  Touched(n, Send(n, e, m), c, {}, W, {m.tag})
<1> DEFINE o == Send(n, e, m)
<1>1. /\ o \in NetType /\ o.hold = n.hold /\ o.ear = n.ear /\ o.listen = n.listen
  BY SendType
<1>2. Calmed(n, o, {e}, {m.tag})
  BY CalmSend
<1>3. \A x \in End : Other(x) \in End /\ Other(Other(x)) = x
  BY OtherIsEnd
<1>4. \A x \in End : Other(x) # e \/ n.hold[x] = {} => o.box[x] = n.box[x]
  BY <1>3 DEF Send, NetType, Hung
<1> HIDE DEF o
<1>5. \A x \in End : Other(x) \notin W => Other(x) # e
  BY <1>3
<1>6. \A x \in End : Msgs(o, x) # Msgs(n, x) => Other(x) = e
  BY <1>4, SameMsgs
<1>7. \A x \in End : \A i \in Msgs(o, x) : i \in Msgs(n, x) \/ (Other(x) \in W /\ i.tag \in {m.tag})
  BY <1>2, <1>3, <1>6 DEF Calmed
<1> QED BY <1>1, <1>4, <1>5, <1>7 DEF Touched, o

LEMMA SendEachTouched ==
  ASSUME NEW n \in NetType, NEW c, NEW Y \in SUBSET Ends0, NEW m \in Message,
         \A x \in Y : x \in End /\ n.hold[x] = {c} /\ x[2] = "near"
  PROVE  Touched(n, SendEach(n, Y, m), c, {}, Y, {m.tag})
<1> DEFINE o == SendEach(n, Y, m)
<1>1. /\ o \in NetType /\ o.hold = n.hold /\ o.ear = n.ear /\ o.listen = n.listen
  BY SendEachType
<1>2. \A x \in End : o.box[x] = IF Other(x) \in Y /\ n.hold[x] # {} THEN Append(n.box[x], m)
                                ELSE n.box[x]
  BY DEF SendEach, NetType
<1>3. \A x \in End : n.box[x] \in Seq(Message)
  BY DEF NetType
<1> HIDE DEF o
<1>4. ASSUME NEW x \in End, NEW i \in Msgs(o, x)
      PROVE  i \in Msgs(n, x) \/ (Other(x) \in Y /\ i.tag \in {m.tag})
  <2>1. CASE Other(x) \in Y /\ n.hold[x] # {}
    <3>1. o.box[x] = Append(n.box[x], m) /\ n.box[x] \in Seq(Message)
      BY <1>2, <1>3, <2>1
    <3>2. Msgs(o, x) = Msgs(n, x) \cup {m}
      BY <3>1, MsgsAppend
    <3> QED BY <1>4, <2>1, <3>2
  <2>2. CASE ~(Other(x) \in Y /\ n.hold[x] # {})
    <3>1. o.box[x] = n.box[x]
      BY <1>2, <2>2
    <3> QED BY <1>4, <3>1, SameMsgs
  <2> QED BY <2>1, <2>2
<1> QED BY <1>1, <1>2, <1>4 DEF Touched, o

LEMMA KeepTouched ==
  ASSUME NEW n \in NetType, \A x \in End : n.hold[x] = {} => n.box[x] = <<>>,
         NEW c, NEW keep, NEW R, R = {x \in End : x \notin keep /\ c \in n.hold[x]}
  PROVE  Touched(n, Keep(n, c, keep), c, R, {}, {})
<1> DEFINE o == Keep(n, c, keep)
<1>1. /\ o.hold = [e \in End |-> IF e \in keep THEN n.hold[e] ELSE n.hold[e] \ {c}]
      /\ o.box = [e \in End |-> IF o.hold[e] = {} THEN <<>> ELSE n.box[e]]
      /\ o.ear = n.ear /\ o.listen = n.listen
  <2>1. o.hold = [e \in End |-> IF e \in keep THEN n.hold[e] ELSE n.hold[e] \ {c}]
    BY DEF Keep, NetType
  <2> DEFINE h == [e \in End |-> IF e \in keep THEN n.hold[e] ELSE n.hold[e] \ {c}]
             shut == {e \in End : h[e] = {}}
  <2>2. o.box = [e \in End |-> IF e \in shut THEN <<>> ELSE n.box[e]]
    BY DEF Keep, NetType
  <2>3. \A e \in End : e \in shut <=> h[e] = {}
    OBVIOUS
  <2>4. o.ear = n.ear /\ o.listen = n.listen
    BY DEF Keep, NetType
  <2> HIDE DEF o, h, shut
  <2>5. o.hold = h
    BY <2>1 DEF h
  <2> QED BY <2>1, <2>2, <2>3, <2>4, <2>5
<1>2. o \in NetType
  BY KeepType
<1> HIDE DEF o
<1>3. \A x \in End : n.hold[x] \in SUBSET Procs
  BY DEF NetType
<1>4. \A x \in End : o.hold[x] = n.hold[x] \/ (x \in R /\ o.hold[x] = n.hold[x] \ {c})
  <2> SUFFICES ASSUME NEW x \in End
               PROVE  o.hold[x] = n.hold[x] \/ (x \in R /\ o.hold[x] = n.hold[x] \ {c})
    OBVIOUS
  <2>1. c \notin n.hold[x] => n.hold[x] \ {c} = n.hold[x]
    OBVIOUS
  <2> QED BY <1>1, <2>1
<1>8. \A x \in End : x \notin R => o.box[x] = n.box[x]
  BY <1>1, <1>4
<1>5. \A x \in End : o.hold[x] = {} => o.box[x] = <<>>
  BY <1>1
<1>6. \A x \in End : o.box[x] = n.box[x] \/ o.box[x] = <<>>
  BY <1>1
<1>7. \A x \in End : Msgs(o, x) \subseteq Msgs(n, x)
  BY <1>6, SameMsgs, NoMsgs
<1>9. \A x \in R : c \in n.hold[x]
  OBVIOUS
<1> QED BY <1>1, <1>2, <1>4, <1>5, <1>7, <1>8, <1>9 DEF Touched, o

-----------------------------------------------------------------------------
(* Client c in the middle of an action: S holds the clients and the network *)
(* so far, D the daemons.  Only its lines and its cache count, and what it  *)
(* may still do with the lines: ask Peers from rank i on, ConnectTo, or     *)
(* Grouped from rank i on; in any other phase no main process that forms a  *)
(* group is at the far end.                                                 *)
Leases(k, e) == \E r \in Ranks : k.line[r] = e \/ k.cache[r] = e
Core(k, c, n, D) ==
  /\ \A e \in End : Leases(k, e) => n.hold[e] = {c} /\ e[2] = "near"
  /\ k.line[0] = NoEnd /\ k.counter >= 1
  /\ \A r, q \in Ranks : k.line[r] = k.line[q] /\ k.line[r] # NoEnd => r = q
  /\ \A h \in Hosts : Forming(D[Main(h)]) => \A r \in Ranks : k.cache[r] # Other(Home(D[Main(h)]))

Sit(S, D, c) ==
  /\ S \in ClientSituation
  /\ Orderly(World(S.n, D), Leased(S.c))
  /\ Core(S.c[c], c, S.n, D)
  /\ \A b \in Clients \ {c} : Sound(S.c[b], b, S.n, D) /\ Talks(S.c[b], S.n, D)

Near(phase, i, r, v) ==
  \/ phase = "peers" /\ ((r >= i /\ Loose(v)) \/ (r < i /\ Joined(v)))
  \/ phase = "connect" /\ Joined(v)
  \/ phase = "group" /\ r >= i /\ Joined(v)
Conv(k, n, D, phase, i) ==
  \A h \in Hosts : Forming(D[Main(h)]) =>
    \A r \in Ranks : k.line[r] = Other(Home(D[Main(h)])) =>
      ~k.established /\ Near(phase, i, r, View(n, D[Main(h)]))
Apt(S, D, c, phase, i) == Sit(S, D, c) /\ Conv(S.c[c], S.n, D, phase, i)

LEMMA LeasedMember ==
  ASSUME NEW C, NEW x
  PROVE  x \in Leased(C) <=> x \in End /\ \E c \in Clients : Leases(C[c], x)
BY DEF Leased, Leases

LEMMA OthersLeases ==
  ASSUME NEW k, NEW b, NEW n, NEW D, Sound(k, b, n, D), NEW e \in End, Leases(k, e)
  PROVE  n.hold[e] = {b}
<1>1. e # NoEnd
  BY NoEndIsNoEnd
<1>2. \E r \in Ranks : e = k.line[r] \/ e = k.cache[r]
  BY DEF Leases
<1> QED BY <1>1, <1>2, SoundHolds

LEMMA SitFacts ==
  ASSUME NEW S, NEW D, NEW c \in Clients, Sit(S, D, c)
  PROVE  /\ S \in ClientSituation /\ S.n \in NetType /\ S.c[c] \in Kind
         /\ \A x \in Leased(S.c) : S.n.hold[x] # {} /\ x \in End
         /\ \A x \in End : Leases(S.c[c], x) => x \in Leased(S.c) /\ S.n.hold[x] = {c} /\ x[2] = "near"
         /\ \A x \in End : S.n.hold[x] = {} => S.n.box[x] = <<>>
<1>1. S \in ClientSituation /\ S.n \in NetType /\ S.c[c] \in Kind
  BY ClientParts DEF Sit
<1>2. \A x \in End : Leases(S.c[c], x) => x \in Leased(S.c) /\ S.n.hold[x] = {c} /\ x[2] = "near"
  BY LeasedMember DEF Sit, Core
<1>3. ASSUME NEW x \in Leased(S.c) PROVE S.n.hold[x] # {} /\ x \in End
  <2>1. x \in End
    BY <1>3, LeasedMember
  <2>2. PICK b \in Clients : Leases(S.c[b], x)
    BY <1>3, LeasedMember
  <2>3. CASE b = c
    BY <1>2, <2>1, <2>2, <2>3
  <2>4. CASE b # c
    <3>1. Sound(S.c[b], b, S.n, D)
      BY <2>4 DEF Sit
    <3> QED BY <2>1, <2>2, <3>1, OthersLeases
  <2> QED BY <2>1, <2>3, <2>4
<1>4. \A x \in End : S.n.hold[x] = {} => S.n.box[x] = <<>>
  <2>1. Emptied(World(S.n, D))
    BY WiredOwned DEF Sit, Orderly
  <2> QED BY <2>1 DEF Emptied, World
<1> QED BY <1>1, <1>2, <1>3, <1>4

(* The record of the client becomes w, with no more lines than before.      *)
Less(k, w) ==
  /\ w.line = k.line \/ w.line = NoSlaves
  /\ w.cache = k.cache \/ w.cache = NoSlaves
  /\ w.counter >= 1
LEMMA SetParts ==
  ASSUME NEW S \in ClientSituation, NEW c \in Clients, NEW w \in Kind, NEW T, T = [S EXCEPT !.c[c] = w]
  PROVE  /\ T \in ClientSituation /\ T.n = S.n /\ T.c[c] = w
         /\ \A b \in Clients : b # c => T.c[b] = S.c[b]
BY SetClient DEF ClientSituation

Fewer(S, D, c, w) ==
  /\ \A e \in End : Leases(w, e) => Leases(S.c[c], e)
  /\ w.line = S.c[c].line \/ w.line = NoSlaves
  /\ w.counter >= 1
  /\ \A h \in Hosts : Forming(D[Main(h)]) => \A r \in Ranks : w.cache[r] # Other(Home(D[Main(h)]))
LEMMA SitFewer ==
  ASSUME NEW S, NEW D \in [Daemons -> DaemonType], NEW c \in Clients, Sit(S, D, c),
         NEW w \in Kind, Fewer(S, D, c, w), NEW T, T = [S EXCEPT !.c[c] = w]
  PROVE  Sit(T, D, c)
<1> DEFINE k == S.c[c]
<1>1. /\ T \in ClientSituation /\ T.n = S.n /\ T.c[c] = w
      /\ \A b \in Clients : b # c => T.c[b] = S.c[b]
  BY SitFacts, SetParts
<1>2. \A e \in End : Leases(w, e) => Leases(k, e)
  BY DEF Fewer
<1>3. Leased(T.c) \subseteq Leased(S.c)
  <2> SUFFICES ASSUME NEW x \in Leased(T.c) PROVE x \in Leased(S.c)
    OBVIOUS
  <2>1. x \in End
    BY LeasedMember
  <2>2. PICK b \in Clients : Leases(T.c[b], x)
    BY LeasedMember
  <2>3. Leases(S.c[b], x)
    BY <1>1, <1>2, <2>1, <2>2
  <2> QED BY <2>1, <2>3, LeasedMember
<1>4. Orderly(World(T.n, D), Leased(T.c))
  BY <1>1, <1>3, OrderlyLess DEF Sit
<1>5. Core(k, c, S.n, D)
  BY DEF Sit
<1>6. 0 \in Ranks /\ \A r \in Ranks : NoSlaves[r] = NoEnd
  BY RanksFacts DEF NoSlaves
<1>7. Core(w, c, S.n, D)
  <2>1. /\ \A e \in End : Leases(k, e) => S.n.hold[e] = {c} /\ e[2] = "near"
        /\ k.line[0] = NoEnd
        /\ \A r, q \in Ranks : k.line[r] = k.line[q] /\ k.line[r] # NoEnd => r = q
    BY <1>5 DEF Core
  <2>2. \A e \in End : Leases(w, e) => S.n.hold[e] = {c} /\ e[2] = "near"
    BY <1>2, <2>1
  <2>3. /\ w.line[0] = NoEnd
        /\ \A r, q \in Ranks : w.line[r] = w.line[q] /\ w.line[r] # NoEnd => r = q
    BY <1>6, <2>1 DEF Fewer
  <2> QED BY <2>2, <2>3 DEF Core, Fewer
<1>8. \A b \in Clients \ {c} : Sound(T.c[b], b, T.n, D) /\ Talks(T.c[b], T.n, D)
  BY <1>1 DEF Sit
<1> QED BY <1>1, <1>4, <1>7, <1>8 DEF Sit

LEMMA SitSet ==
  ASSUME NEW S, NEW D \in [Daemons -> DaemonType], NEW c \in Clients, Sit(S, D, c),
         NEW w \in Kind, Less(S.c[c], w), NEW T, T = [S EXCEPT !.c[c] = w]
  PROVE  Sit(T, D, c)
<1>1. \A r \in Ranks : NoSlaves[r] = NoEnd
  BY DEF NoSlaves
<1>2. \A e \in End : Leases(w, e) => Leases(S.c[c], e)
  BY <1>1, NoEndIsNoEnd DEF Less, Leases
<1>3. ASSUME NEW h \in Hosts, Forming(D[Main(h)]), NEW r \in Ranks
      PROVE  w.cache[r] # Other(Home(D[Main(h)]))
  <2>1. Other(Home(D[Main(h)])) # NoEnd
    <3>1. S.n \in NetType /\ Orderly(World(S.n, D), Leased(S.c))
      BY SitFacts DEF Sit
    <3> QED BY <1>3, <3>1, SeatFacts
  <2>2. S.c[c].cache[r] # Other(Home(D[Main(h)]))
    BY <1>3 DEF Sit, Core
  <2> QED BY <1>1, <2>1, <2>2 DEF Less
<1>4. Fewer(S, D, c, w)
  BY <1>2, <1>3 DEF Fewer, Less
<1> QED BY <1>4, SitFewer

LEMMA ConvSet ==
  ASSUME NEW k, NEW n \in NetType, NEW D \in [Daemons -> DaemonType], NEW phase, NEW i,
         Conv(k, n, D, phase, i), NEW K, Orderly(World(n, D), K), NEW w,
         w.line = NoSlaves \/ (w.line = k.line /\ ((w.established <=> k.established) \/ phase = "rest"))
  PROVE  Conv(w, n, D, phase, i)
<1> SUFFICES ASSUME NEW h \in Hosts, Forming(D[Main(h)]), NEW r \in Ranks,
                    w.line[r] = Other(Home(D[Main(h)]))
             PROVE  ~w.established /\ Near(phase, i, r, View(n, D[Main(h)]))
  BY DEF Conv
<1>1. Other(Home(D[Main(h)])) # NoEnd
  BY SeatFacts
<1>2. w.line = k.line
  BY <1>1 DEF NoSlaves
<1>3. ~k.established /\ Near(phase, i, r, View(n, D[Main(h)]))
  BY <1>2 DEF Conv
<1>4. phase # "rest"
  BY <1>3 DEF Near
<1> QED BY <1>1, <1>2, <1>3, <1>4 DEF NoSlaves

LEMMA NoLineConv ==
  ASSUME NEW w, NEW n \in NetType, NEW D \in [Daemons -> DaemonType], NEW K,
         Orderly(World(n, D), K), w.line = NoSlaves, NEW phase, NEW i
  PROVE  Conv(w, n, D, phase, i)
<1>1. ASSUME NEW h \in Hosts, Forming(D[Main(h)]) PROVE Other(Home(D[Main(h)])) # NoEnd
  BY <1>1, SeatFacts
<1> QED BY <1>1 DEF Conv, NoSlaves

(* The client touches its lines; those it still has it does not close.      *)
Touches(S, D, c, o, R, W, T) ==
  /\ Touched(S.n, o, c, R, W, T)
  /\ W \subseteq Leased(S.c) /\ T \cap {"Enslave", "Join", "DataLine"} = {}
  /\ T \subseteq HomeCode \/ \A h \in Hosts : Forming(D[Main(h)]) => Other(Home(D[Main(h)])) \notin W
  /\ \A e \in End : Leases(S.c[c], e) => o.hold[e] = S.n.hold[e]
SameBut(n, o, D, R, W) ==
  \A h \in Hosts : LET x == Other(Home(D[Main(h)])) IN
    Forming(D[Main(h)]) /\ x \notin R /\ x \notin W => View(o, D[Main(h)]) = View(n, D[Main(h)])
LEMMA SitTouched ==
  ASSUME NEW S, NEW D \in [Daemons -> DaemonType], NEW c \in Clients, Sit(S, D, c),
         NEW o, NEW R, NEW W, NEW T, Touches(S, D, c, o, R, W, T), NEW U, U = [S EXCEPT !.n = o]
  PROVE  Sit(U, D, c) /\ U.n = o /\ U.c = S.c /\ SameBut(S.n, o, D, R, W)
<1>0. /\ Touched(S.n, o, c, R, W, T)
      /\ W \subseteq Leased(S.c) /\ T \cap {"Enslave", "Join", "DataLine"} = {}
      /\ T \subseteq HomeCode \/ \A h \in Hosts : Forming(D[Main(h)]) => Other(Home(D[Main(h)])) \notin W
      /\ \A e \in End : Leases(S.c[c], e) => o.hold[e] = S.n.hold[e]
  BY DEF Touches
<1>1. S \in ClientSituation /\ Orderly(World(S.n, D), Leased(S.c))
  BY DEF Sit
<1>2. o \in NetType /\ S.n \in NetType
  BY <1>0 DEF Touched
<1>3. U \in ClientSituation /\ U.n = o /\ U.c = S.c
  BY <1>1, <1>2, SetClientNet DEF ClientSituation
<1>4. Orderly(World(o, D), Leased(S.c))
  BY <1>0, <1>1, TouchedOrderly
<1>5. Core(S.c[c], c, o, D)
  BY <1>0 DEF Sit, Core
<1>6. ASSUME NEW h \in Hosts, Forming(D[Main(h)]), NEW x, x = Other(Home(D[Main(h)])), x \notin R, x \notin W
      PROVE  View(o, D[Main(h)]) = View(S.n, D[Main(h)])
  <2> DEFINE n == S.n
             K == Leased(S.c)
  <2>1. Touched(n, o, c, R, W, T) /\ Orderly(World(n, D), K)
    BY <1>0, <1>1
  <2> HIDE DEF n, K
  <2>2. View(o, D[Main(h)]) = View(n, D[Main(h)])
    BY <1>6, <2>1, TouchedView
  <2> QED BY <2>2 DEF n
<1>7. ASSUME NEW b \in Clients \ {c} PROVE Sound(S.c[b], b, o, D) /\ Talks(S.c[b], o, D)
  <2> DEFINE k == S.c[b]
  <2>1. Sound(k, b, S.n, D) /\ Talks(k, S.n, D)
    BY DEF Sit
  <2>2. \A e \in End : S.n.hold[e] = {b} => e \notin R /\ e \notin W /\ o.hold[e] = S.n.hold[e]
    BY <1>0 DEF Touched
  <2>3. Owns(k, b, o)
    BY <2>1, <2>2 DEF Sound, Owns
  <2>4. ASSUME NEW h \in Hosts, Forming(D[Main(h)]), NEW x, x = Other(Home(D[Main(h)])),
               x = k.adding \/ \E r \in Ranks : x = k.line[r] \/ x = k.cache[r]
        PROVE  View(o, D[Main(h)]) = View(S.n, D[Main(h)])
    <3>1. x # NoEnd /\ x \in End
      BY <1>1, <1>2, <2>4, SeatFacts
    <3>2. S.n.hold[x] = {b}
      BY <2>1, <2>4, <3>1, SoundHolds
    <3>3. x \notin R /\ x \notin W
      BY <2>2, <3>1, <3>2
    <3>4. Forming(D[Main(h)]) /\ x = Other(Home(D[Main(h)]))
      BY <2>4
    <3> QED BY <1>6, <3>3, <3>4
  <2> HIDE DEF k
  <2>5. Aloof(k, o, D)
    <3>1. Aloof(k, S.n, D)
      BY <2>1 DEF Sound
    <3> QED BY <2>4, <3>1 DEF Aloof
  <2>6. Talks(k, o, D)
    BY <2>1, <2>4 DEF Talks
  <2> QED BY <2>1, <2>3, <2>5, <2>6 DEF Sound, k
<1>8. SameBut(S.n, o, D, R, W)
  BY <1>6 DEF SameBut
<1> QED BY <1>3, <1>4, <1>5, <1>7, <1>8 DEF Sit

(* The end of an action.                                                    *)
LEMMA WholeOf ==
  ASSUME NEW S, NEW D \in [Daemons -> DaemonType], NEW c \in Clients, Sit(S, D, c),
         S.c[c].adding = NoEnd, S.c[c].pc = "probe" \/ S.c[c].todo = NoSlaves,
         \A r \in Ranks \ {0} : S.c[c].todo[r] = NoEnd \/ S.c[c].todo[r] = S.c[c].cache[r],
         Talks(S.c[c], S.n, D)
  PROVE  Whole(S.c, S.n, D)
<1> DEFINE k == S.c[c]
<1>1. Core(k, c, S.n, D) /\ k \in Kind /\ S.n \in NetType /\ Orderly(World(S.n, D), Leased(S.c))
  BY SitFacts DEF Sit
<1>2. \A r \in Ranks : k.line[r] \in Ends0 /\ k.cache[r] \in Ends0
  BY <1>1, KindBools
<1>3. Owns(k, c, S.n)
  <2> SUFFICES ASSUME NEW e \in Holds(k) \ {NoEnd} PROVE e \in End /\ S.n.hold[e] = {c} /\ e[2] = "near"
    BY DEF Owns
  <2>1. PICK r \in Ranks : e = k.line[r] \/ e = k.cache[r]
    BY DEF Holds
  <2>2. e \in End
    BY <1>2, <2>1 DEF Ends0
  <2>3. Leases(k, e)
    BY <2>1 DEF Leases
  <2> QED BY <1>1, <2>2, <2>3 DEF Core
<1>4. Shape(k)
  BY <1>1 DEF Core, Shape
<1>5. Aloof(k, S.n, D)
  <2>1. \A h \in Hosts : Forming(D[Main(h)]) => Other(Home(D[Main(h)])) # NoEnd
    BY <1>1, SeatFacts
  <2> QED BY <1>1, <2>1 DEF Core, Aloof
<1>6. Sound(k, c, S.n, D)
  BY <1>3, <1>4, <1>5 DEF Sound
<1>7. \A b \in Clients \ {c} : Sound(S.c[b], b, S.n, D) /\ Talks(S.c[b], S.n, D)
  BY DEF Sit
<1> QED BY <1>1, <1>6, <1>7 DEF Whole

LEMMA NearLoose ==
  ASSUME NEW v, Chat(v), NEW phase, NEW i, NEW r, Near(phase, i, r, v)
  PROVE  Loose(v)
BY AllLoose DEF Near

(* A call is over.                                                          *)
LEMMA RestFacts ==
  ASSUME NEW k \in Kind, NEW w, w = Rest(k)
  PROVE  /\ w.line = k.line /\ w.cache = k.cache /\ w.counter = k.counter
         /\ (w.established <=> k.established) /\ w.pc = "idle" /\ w.adding = NoEnd /\ w.todo = NoSlaves
BY DEF Rest, Kind, ClientType

WithNet(S, o) == [S EXCEPT !.n = o]
ConvKept(k, n, o, D) == \A phase, i : Conv(k, n, D, phase, i) => Conv(k, o, D, phase, i)
Spares(k, keep) == \A e \in End : Leases(k, e) => e \in keep
LEMMA KeepSit ==
  ASSUME NEW S, NEW D \in [Daemons -> DaemonType], NEW c \in Clients, Sit(S, D, c),
         NEW keep, Spares(S.c[c], keep), NEW U, U = WithNet(S, Keep(S.n, c, keep))
  PROVE  /\ Sit(U, D, c) /\ U.c = S.c /\ U.n = Keep(S.n, c, keep)
         /\ ConvKept(S.c[c], S.n, U.n, D)
<1> DEFINE o == Keep(S.n, c, keep)
           R == {x \in End : x \notin keep /\ c \in S.n.hold[x]}
<1>1. /\ S.n \in NetType /\ S.c[c] \in Kind /\ \A x \in End : S.n.hold[x] = {} => S.n.box[x] = <<>>
      /\ \A x \in End : Leases(S.c[c], x) => x \in Leased(S.c) /\ S.n.hold[x] = {c} /\ x[2] = "near"
  BY SitFacts
<1>2. Touched(S.n, o, c, R, {}, {})
  BY <1>1, KeepTouched
<1>3. \A e \in End : Leases(S.c[c], e) => o.hold[e] = S.n.hold[e] /\ e \notin R
  BY <1>2 DEF Touched, Spares
<1> HIDE DEF o, R
<1>4. Sit(U, D, c) /\ U.n = o /\ U.c = S.c /\ SameBut(S.n, o, D, R, {})
  <2>1. U = [S EXCEPT !.n = o]
    BY DEF o, WithNet
  <2>2. Touches(S, D, c, o, R, {}, {})
    BY <1>2, <1>3 DEF Touches
  <2> QED BY <2>1, <2>2, SitTouched
<1>5. ASSUME NEW phase, NEW i, Conv(S.c[c], S.n, D, phase, i) PROVE Conv(S.c[c], o, D, phase, i)
  <2> SUFFICES ASSUME NEW h \in Hosts, Forming(D[Main(h)]), NEW r \in Ranks,
                      S.c[c].line[r] = Other(Home(D[Main(h)]))
               PROVE  ~S.c[c].established /\ Near(phase, i, r, View(o, D[Main(h)]))
    BY DEF Conv
  <2>1. ~S.c[c].established /\ Near(phase, i, r, View(S.n, D[Main(h)]))
    BY <1>5 DEF Conv
  <2>2. Orderly(World(S.n, D), Leased(S.c))
    BY DEF Sit
  <2>3. Other(Home(D[Main(h)])) \in End
    BY <1>1, <2>2, SeatFacts
  <2>4. Other(Home(D[Main(h)])) \notin R
    BY <1>3, <2>3 DEF Leases
  <2>5. View(o, D[Main(h)]) = View(S.n, D[Main(h)])
    BY <1>4, <2>4 DEF SameBut
  <2> QED BY <2>1, <2>5
<1>6. ConvKept(S.c[c], S.n, U.n, D)
  BY <1>4, <1>5 DEF ConvKept
<1> QED BY <1>4, <1>6 DEF o

LEMMA FitGone ==
  ASSUME NEW S, NEW D \in [Daemons -> DaemonType], NEW c \in Clients, Sit(S, D, c),
         NEW U, U = Gone(S, c)
  PROVE  Whole(U.c, U.n, D)
<1> DEFINE w == [NewClient EXCEPT !.pc = "dead"]
           T == [S EXCEPT !.c[c] = w]
           V == WithNet(T, Keep(T.n, c, {}))
<1>1. /\ w \in Kind /\ w.line = NoSlaves /\ w.cache = NoSlaves /\ w.counter = 1
      /\ w.adding = NoEnd /\ w.todo = NoSlaves
  BY NewClientType DEF NewClient
<1> HIDE DEF w
<1>2. Less(S.c[c], w)
  BY <1>1 DEF Less
<1>3. Sit(T, D, c)
  BY <1>1, <1>2, SitSet
<1>4. T.c[c] = w /\ T.n = S.n /\ T.c = [S.c EXCEPT ![c] = w] /\ S \in ClientSituation
  <2>1. S \in ClientSituation
    BY SitFacts
  <2> QED BY <1>1, <2>1, SetParts DEF ClientSituation
<1> HIDE DEF T
<1>5. Spares(T.c[c], {})
  BY <1>1, <1>4, NoEndIsNoEnd DEF Leases, NoSlaves, Spares
<1>6. Sit(V, D, c) /\ V.c = T.c /\ V.n = Keep(T.n, c, {})
  BY <1>3, <1>5, KeepSit
<1> HIDE DEF V
<1>7. Orderly(World(V.n, D), Leased(V.c)) /\ V.n \in NetType /\ V.c[c] = w
  BY <1>4, <1>6, SitFacts DEF Sit
<1>8. Talks(w, V.n, D)
  <2>1. \A h \in Hosts : Forming(D[Main(h)]) => Other(Home(D[Main(h)])) # NoEnd
    BY <1>7, SeatFacts
  <2> QED BY <1>1, <2>1 DEF Talks, NoSlaves
<1>9. \A r \in Ranks \ {0} : w.todo[r] = NoEnd
  BY <1>1 DEF NoSlaves
<1>10. Whole(V.c, V.n, D)
  BY <1>1, <1>6, <1>7, <1>8, <1>9, WholeOf
<1>11. U.c = V.c /\ U.n = V.n
  BY <1>4, <1>6 DEF Gone, w
<1> QED BY <1>10, <1>11

LEMMA FitReturn ==
  ASSUME NEW S, NEW D \in [Daemons -> DaemonType], NEW c \in Clients,
         NEW phase, NEW i, Apt(S, D, c, phase, i), NEW U, U = Return(S, c)
  PROVE  Whole(U.c, U.n, D)
<1> DEFINE k == S.c[c]
           w == Rest(k)
           T == [S EXCEPT !.c[c] = w]
           V == WithNet(T, Keep(T.n, c, Holds(w)))
<1>0. Sit(S, D, c) /\ Conv(k, S.n, D, phase, i) /\ S \in ClientSituation /\ k \in Kind /\ S.n \in NetType
  BY SitFacts DEF Apt
<1>1. CASE k.final
  <2>1. U = Gone(S, c)
    BY <1>1 DEF Return
  <2> QED BY <1>0, <2>1, FitGone
<1>2. CASE ~k.final
  <2>1. /\ w.line = k.line /\ w.cache = k.cache /\ w.counter = k.counter /\ w \in Kind
        /\ (w.established <=> k.established) /\ w.pc = "idle" /\ w.adding = NoEnd /\ w.todo = NoSlaves
    BY <1>0, RestFacts, RestType
  <2> HIDE DEF w
  <2>2. Less(k, w)
    BY <1>0, <2>1 DEF Less, Sit, Core
  <2>3. Sit(T, D, c)
    BY <1>0, <2>1, <2>2, SitSet
  <2>4. T.c[c] = w /\ T.n = S.n
    <3>1. T = [S EXCEPT !.c[c] = w]
      OBVIOUS
    <3> HIDE DEF T
    <3> QED BY <1>0, <2>1, <3>1, SetParts
  <2> HIDE DEF T
  <2>5. Conv(w, T.n, D, phase, i)
    <3>1. Orderly(World(S.n, D), Leased(S.c))
      BY <1>0 DEF Sit
    <3> QED BY <1>0, <2>1, <2>4, <3>1, ConvSet
  <2>6. Spares(T.c[c], Holds(w))
    BY <2>4 DEF Leases, Holds, Spares
  <2>7. Sit(V, D, c) /\ V.c = T.c /\ V.n = Keep(T.n, c, Holds(w)) /\ Conv(w, V.n, D, phase, i)
    <3>1. V = WithNet(T, Keep(T.n, c, Holds(w)))
      OBVIOUS
    <3> HIDE DEF V
    <3>2. Sit(V, D, c) /\ V.c = T.c /\ V.n = Keep(T.n, c, Holds(w)) /\ ConvKept(T.c[c], T.n, V.n, D)
      <4> HIDE DEF k
      <4> DEFINE keep == Holds(w)
      <4>1. Spares(T.c[c], keep) /\ V = WithNet(T, Keep(T.n, c, keep))
        BY <2>6, <3>1
      <4> HIDE DEF keep
      <4>2. /\ Sit(V, D, c) /\ V.c = T.c /\ V.n = Keep(T.n, c, keep)
            /\ ConvKept(T.c[c], T.n, V.n, D)
        BY <2>3, <4>1, KeepSit
      <4> QED BY <4>2 DEF keep
    <3> QED BY <2>4, <2>5, <3>2 DEF ConvKept
  <2> HIDE DEF V
  <2>8. Talks(w, V.n, D)
    <3> SUFFICES ASSUME NEW h \in Hosts, Forming(D[Main(h)]), NEW r \in Ranks,
                        w.line[r] = Other(Home(D[Main(h)]))
                 PROVE  Stage(w, r, View(V.n, D[Main(h)]))
      BY DEF Talks
    <3>1. ~w.established /\ Near(phase, i, r, View(V.n, D[Main(h)]))
      BY <2>7 DEF Conv
    <3>2. Orderly(World(V.n, D), Leased(V.c)) /\ V.n \in NetType
      BY <2>7, SitFacts DEF Sit
    <3>3. Chat(View(V.n, D[Main(h)]))
      BY <3>2, SeatFacts
    <3>4. Loose(View(V.n, D[Main(h)]))
      BY <3>1, <3>3, NearLoose
    <3> QED BY <2>1, <3>1, <3>4 DEF Stage
  <2>9. \A r \in Ranks \ {0} : w.todo[r] = NoEnd
    BY <2>1 DEF NoSlaves
  <2>10. Whole(V.c, V.n, D)
    BY <2>1, <2>4, <2>7, <2>8, <2>9, WholeOf
  <2>11. U = V
    BY <1>2, <2>4 DEF Return, V, T, w, WithNet
  <2> QED BY <2>10, <2>11
<1> QED BY <1>1, <1>2

-----------------------------------------------------------------------------
(* The requests of a phase.                                                 *)
FormPhase == {"peers", "connect", "group"}
LEMMA OtherPhase ==
  ASSUME NEW k, NEW n, NEW D, NEW phase, NEW i
  PROVE  /\ Conv(k, n, D, "rest", i) => \A p, j : Conv(k, n, D, p, j)
         /\ phase \notin FormPhase /\ Conv(k, n, D, phase, i) => Conv(k, n, D, "rest", i)
BY DEF Conv, Near, FormPhase

LEMMA RequestTag ==
  ASSUME NEW k \in Kind, NEW phase \in Phase \ {"add"}, NEW q \in Ranks \X Ranks,
         NEW m, m = Request(k, phase, q)
  PROVE  /\ m \in Message
         /\ phase = "peers" => m.tag = "Peers"
         /\ phase = "connect" => m.tag = "ConnectTo"
         /\ phase = "group" => m.tag = "Grouped"
         /\ phase \notin FormPhase => m.tag \in {"Run", "PrepareToLeave", "Leave"}
<1>1. m \in Message
  BY RequestType
<1>2. \A x : MsgArg("Peers", x).tag = "Peers" /\ [MsgArg("ConnectTo", x) EXCEPT !.host = k.host[x]].tag = "ConnectTo"
  BY DEF MsgArg, Msg
<1>3. Msg("Grouped").tag = "Grouped" /\ Msg("Run").tag = "Run"
      /\ Msg("PrepareToLeave").tag = "PrepareToLeave" /\ Msg("Leave").tag = "Leave"
  BY DEF Msg
<1>4. phase = "peers" => m.tag = "Peers"
  BY <1>2 DEF Request
<1>5. phase = "connect" => m.tag = "ConnectTo"
  BY <1>2 DEF Request
<1>6. phase = "group" => m.tag = "Grouped"
  BY <1>3 DEF Request
<1>7. phase \notin FormPhase => m.tag \in {"Run", "PrepareToLeave", "Leave"}
  BY <1>3 DEF Request, Phase, FormPhase
<1> QED BY <1>1, <1>4, <1>5, <1>6, <1>7

LEMMA SendView ==
  ASSUME NEW n \in NetType, NEW D \in [Daemons -> DaemonType], NEW K, Orderly(World(n, D), K),
         NEW h \in Hosts, Forming(D[Main(h)]), NEW x, x = Other(Home(D[Main(h)])), NEW m \in Message
  PROVE  /\ Adds(View(n, D[Main(h)]), View(Send(n, x, m), D[Main(h)]), m)
         /\ Chat(View(n, D[Main(h)]))
<1> DEFINE e == Home(D[Main(h)])
           o == Send(n, x, m)
<1>1. e \in End /\ x \in End /\ Other(x) = e /\ x # e /\ n.hold[e] = {Main(h)} /\ Chat(View(n, D[Main(h)]))
  BY SeatFacts
<1>2. o.box[e] = Append(n.box[e], m) /\ o.box[x] = n.box[x]
  <2>1. n.hold[Other(x)] # {}
    BY <1>1
  <2>2. /\ o.box[Other(x)] = Append(n.box[Other(x)], m)
        /\ \A y \in End : y # Other(x) => o.box[y] = n.box[y]
    <3>1. o = Send(n, x, m) /\ x \in End
      BY <1>1
    <3> HIDE DEF o
    <3> QED BY <2>1, <3>1, WriteNet
  <2> QED BY <1>1, <2>2
<1> HIDE DEF o
<1>3. Adds(View(n, D[Main(h)]), View(o, D[Main(h)]), m)
  BY <1>2 DEF View, Adds
<1> QED BY <1>1, <1>3 DEF o

(* The client asks the slave q[1]; the others wait for their turn.          *)
LEMMA StageAsked ==
  ASSUME NEW w, NEW phase, NEW i \in Ranks, NEW r \in Ranks, w.pc = phase, w.pos = i, ~w.established,
         NEW v, Near(phase, i, r, v), NEW m \in Message,
         phase = "peers" => m.tag = "Peers", phase = "connect" => m.tag = "ConnectTo",
         phase = "group" => m.tag = "Grouped",
         NEW u, Chat(v), IF r = i THEN Adds(v, u, m) ELSE u = v
  PROVE  Stage(w, r, u)
<1>1. i \in Nat /\ r \in Nat
  BY RanksFacts
<1>2. CASE r = i
  BY <1>1, <1>2, SaysMore DEF Near, Stage
<1>3. CASE r # i
  BY <1>1, <1>3 DEF Near, Stage
<1> QED BY <1>2, <1>3

Posed(S, c, phase, q) == [S.c[c] EXCEPT !.pc = phase, !.pos = q[1], !.peer = q[2]]
SetRecord(C, c, w) == [C EXCEPT ![c] = w]
PosedAll(S, c, phase, q) == [S.c EXCEPT ![c].pc = phase, ![c].pos = q[1], ![c].peer = q[2]]
LEMMA PosedFacts ==
  ASSUME NEW S \in ClientSituation, NEW c \in Clients, NEW phase \in Phase \ {"add"},
         NEW q \in Ranks \X Ranks, NEW w, w = Posed(S, c, phase, q), NEW k, k = S.c[c]
  PROVE  /\ w \in Kind /\ w.pc = phase /\ w.pos = q[1]
         /\ w.line = k.line /\ w.cache = k.cache /\ w.counter = k.counter
         /\ (w.established <=> k.established) /\ w.adding = k.adding /\ w.todo = k.todo
         /\ PosedAll(S, c, phase, q) = SetRecord(S.c, c, w)
<1>1. k \in Kind /\ q[1] \in Ranks /\ q[2] \in Ranks /\ phase \in ClientPc \ {"add"} /\ S.c \in [Clients -> Kind]
  BY ClientParts DEF ClientPc
<1>2. w \in Kind
  <2>1. [k EXCEPT !.pc = phase] \in Kind
    BY <1>1, KindWith
  <2>2. [k EXCEPT !.pc = phase, !.pos = q[1]] \in Kind
    BY <1>1, <2>1, KindWith
  <2> QED BY <1>1, <2>2, KindWith DEF Posed
<1>3. /\ w.pc = phase /\ w.pos = q[1] /\ w.line = k.line /\ w.cache = k.cache /\ w.counter = k.counter
      /\ (w.established <=> k.established) /\ w.adding = k.adding /\ w.todo = k.todo
  BY <1>1 DEF Posed, Kind, ClientType
<1>4. PosedAll(S, c, phase, q) = SetRecord(S.c, c, w)
  BY <1>1 DEF Posed, PosedAll, SetRecord
<1> QED BY <1>2, <1>3, <1>4

Clear(k) == k.adding = NoEnd /\ k.todo = NoSlaves
LEMMA FitAsk ==
  ASSUME NEW S, NEW D \in [Daemons -> DaemonType], NEW c \in Clients, NEW phase \in Phase \ {"add"},
         NEW q \in Ranks \X Ranks, Apt(S, D, c, phase, q[1]), Clear(S.c[c]),
         NEW U, U = Ask(S, c, phase, q)
  PROVE  Whole(U.c, U.n, D)
<1> DEFINE k == S.c[c]
           e == k.line[q[1]]
           m == Request(k, phase, q)
           w == Posed(S, c, phase, q)
           T == [S EXCEPT !.c[c] = w]
           o == Send(S.n, e, m)
           V == [T EXCEPT !.n = o]
           W == {e} \cap End
<1>0. /\ Sit(S, D, c) /\ Conv(k, S.n, D, phase, q[1]) /\ S \in ClientSituation /\ k \in Kind /\ S.n \in NetType
      /\ q[1] \in Ranks /\ Orderly(World(S.n, D), Leased(S.c))
  BY SitFacts DEF Apt, Sit
<1>1. CASE Broken(S.n, e)
  <2>1. U = Return(S, c)
    BY <1>1 DEF Ask
  <2> QED BY <2>1, FitReturn
<1>2. CASE ~Broken(S.n, e)
  <2>1. /\ w \in Kind /\ w.pc = phase /\ w.pos = q[1]
        /\ w.line = k.line /\ w.cache = k.cache /\ w.counter = k.counter
        /\ (w.established <=> k.established) /\ w.adding = NoEnd /\ w.todo = NoSlaves
        /\ PosedAll(S, c, phase, q) = SetRecord(S.c, c, w)
    BY <1>0, PosedFacts DEF Clear
  <2>2. /\ m \in Message
        /\ phase = "peers" => m.tag = "Peers"
        /\ phase = "connect" => m.tag = "ConnectTo"
        /\ phase = "group" => m.tag = "Grouped"
        /\ phase \notin FormPhase => m.tag \in {"Run", "PrepareToLeave", "Leave"}
    BY <1>0, RequestTag
  <2>3. U.c = [S.c EXCEPT ![c] = w] /\ U.n = o
    BY <1>2, <2>1 DEF Ask, PosedAll, SetRecord
  <2> HIDE DEF w, m
  <2>4. Sit(T, D, c)
    <3>1. Less(k, w)
      BY <1>0, <2>1 DEF Less, Sit, Core
    <3> QED BY <1>0, <2>1, <3>1, SitSet
  <2>5. T.c[c] = w /\ T.n = S.n /\ T.c = [S.c EXCEPT ![c] = w]
    <3>1. T = [S EXCEPT !.c[c] = w]
      OBVIOUS
    <3>2. T.c = [S.c EXCEPT ![c] = w]
      BY <1>0 DEF ClientSituation
    <3> HIDE DEF T
    <3> QED BY <1>0, <2>1, <3>1, <3>2, SetParts
  <2> HIDE DEF T
  <2>6. /\ Leases(w, e)
        /\ \A x \in End : Leases(w, x) => x \in Leased(T.c) /\ S.n.hold[x] = {c} /\ x[2] = "near"
    <3>1. Leases(w, e)
      BY <1>0, <2>1 DEF Leases
    <3>2. \A x \in End : Leases(T.c[c], x) => x \in Leased(T.c) /\ T.n.hold[x] = {c} /\ x[2] = "near"
      BY <2>4, SitFacts
    <3> QED BY <2>5, <3>1, <3>2
  <2>7. Touched(S.n, o, c, {}, W, {m.tag}) /\ o.hold = S.n.hold
    <3>1. \A x \in W : x \in End /\ S.n.hold[x] = {c} /\ x[2] = "near"
      BY <2>6
    <3>2. e \in End => e \in W
      OBVIOUS
    <3>3. o.hold = S.n.hold
      BY <1>0, <2>2, SendType
    <3> HIDE DEF W
    <3> QED BY <1>0, <2>2, <3>1, <3>2, <3>3, SendTouched
  <2>8. Touches(T, D, c, o, {}, W, {m.tag})
    <3>1. W \subseteq Leased(T.c)
      BY <2>6
    <3>2. m.tag \notin {"Enslave", "Join", "DataLine"}
      BY <2>2 DEF FormPhase
    <3>3. m.tag \in HomeCode \/ \A h \in Hosts : Forming(D[Main(h)]) => Other(Home(D[Main(h)])) \notin W
      <4>1. CASE phase \in FormPhase
        BY <2>2, <4>1 DEF FormPhase, HomeCode
      <4>2. CASE phase \notin FormPhase
        BY <1>0, <4>2 DEF Conv, Near, FormPhase
      <4> QED BY <4>1, <4>2
    <3> QED BY <2>5, <2>7, <3>1, <3>2, <3>3 DEF Touches
  <2>9. Sit(V, D, c) /\ V.n = o /\ V.c = T.c /\ SameBut(S.n, o, D, {}, W)
    <3>1. V = [T EXCEPT !.n = o]
      OBVIOUS
    <3> HIDE DEF V, o, W
    <3> QED BY <2>4, <2>5, <2>8, <3>1, SitTouched
  <2> HIDE DEF V
  <2>10. Talks(w, o, D)
    <3> SUFFICES ASSUME NEW h \in Hosts, Forming(D[Main(h)]), NEW r \in Ranks,
                        w.line[r] = Other(Home(D[Main(h)]))
                 PROVE  Stage(w, r, View(o, D[Main(h)]))
      BY DEF Talks
    <3> DEFINE x == Other(Home(D[Main(h)]))
               v == View(S.n, D[Main(h)])
               u == View(o, D[Main(h)])
    <3>1. ~w.established /\ Near(phase, q[1], r, v)
      BY <1>0, <2>1 DEF Conv
    <3>2. Chat(v) /\ Adds(v, View(Send(S.n, x, m), D[Main(h)]), m) /\ x # NoEnd /\ x \in End
      BY <1>0, <2>2, SendView, SeatFacts
    <3>3. IF r = q[1] THEN Adds(v, u, m) ELSE u = v
      <4>1. CASE r = q[1]
        <5>1. e = x
          BY <2>1, <4>1
        <5> QED BY <3>2, <4>1, <5>1
      <4>2. CASE r # q[1]
        <5>1. \A a, b \in Ranks : k.line[a] = k.line[b] /\ k.line[a] # NoEnd => a = b
          BY <1>0 DEF Sit, Core
        <5>2. x \notin W
          BY <1>0, <2>1, <3>2, <4>2, <5>1
        <5>3. u = v
          BY <2>9, <5>2 DEF SameBut
        <5> QED BY <4>2, <5>3
      <4> QED BY <4>1, <4>2
    <3> HIDE DEF x, v, u
    <3>4. Stage(w, r, u)
      BY <1>0, <2>1, <2>2, <3>1, <3>2, <3>3, StageAsked
    <3> QED BY <3>4 DEF u
  <2>11. \A r \in Ranks \ {0} : w.todo[r] = NoEnd
    BY <2>1 DEF NoSlaves
  <2>12. Whole(V.c, V.n, D)
    <3>1. V.c[c] = w /\ V.n = o
      BY <2>5, <2>9
    <3> QED BY <2>1, <2>9, <2>10, <2>11, <3>1, WholeOf
  <2> QED BY <2>3, <2>5, <2>9, <2>12
<1> QED BY <1>1, <1>2

LEMMA FitFirst ==
  ASSUME NEW S, NEW D \in [Daemons -> DaemonType], NEW c \in Clients, NEW phase \in Phase \ {"add"},
         Apt(S, D, c, phase, 0), Clear(S.c[c]), NEW U, U = AskFirst(S, c, phase)
  PROVE  Whole(U.c, U.n, D)
<1> DEFINE k == S.c[c]
           Q == Requests(k, phase)
           q == Least(Q)
<1>1. /\ Sit(S, D, c) /\ Conv(k, S.n, D, phase, 0) /\ k \in Kind /\ S.n \in NetType
      /\ Orderly(World(S.n, D), Leased(S.c))
  BY SitFacts DEF Apt, Sit
<1>2. Q \in SUBSET (Ranks \X Ranks) /\ q \in Ranks \X Ranks
  BY <1>1, RequestsType, LeastType
<1>3. phase # "connect" => \A r \in Slaves(k) : r >= q[1]
  <2> SUFFICES ASSUME phase # "connect", NEW r \in Slaves(k) PROVE r >= q[1]
    OBVIOUS
  <2>1. <<r, 0>> \in Q /\ r \in Ranks
    BY DEF Requests, Slaves
  <2> HIDE DEF Q
  <2>2. ~Lower(<<r, 0>>, q)
    BY <1>2, <2>1, LeastFound
  <2>3. q[1] \in Nat /\ r \in Nat
    BY <1>2, <2>1, RanksFacts
  <2> HIDE DEF q
  <2> QED BY <2>2, <2>3 DEF Lower
<1>4. Conv(k, S.n, D, phase, q[1])
  <2> SUFFICES ASSUME NEW h \in Hosts, Forming(D[Main(h)]), NEW r \in Ranks,
                      k.line[r] = Other(Home(D[Main(h)]))
               PROVE  ~k.established /\ Near(phase, q[1], r, View(S.n, D[Main(h)]))
    BY DEF Conv
  <2>1. ~k.established /\ Near(phase, 0, r, View(S.n, D[Main(h)]))
    BY <1>1 DEF Conv
  <2>2. r \in Slaves(k)
    BY <1>1, SeatFacts DEF Slaves
  <2>3. r \in Nat /\ q[1] \in Nat
    BY <1>2, RanksFacts
  <2>4. phase # "connect" => r >= q[1]
    BY <1>3, <2>2
  <2> HIDE DEF k, q
  <2> QED BY <2>1, <2>3, <2>4 DEF Near
<1>5. Apt(S, D, c, phase, q[1])
  BY <1>1, <1>4 DEF Apt
<1>6. U = Ask(S, c, phase, q)
  BY DEF AskFirst
<1> HIDE DEF q
<1> QED BY <1>2, <1>5, <1>6, FitAsk

(* Who comes after the slave that was asked.                                *)
LEMMA NextRank ==
  ASSUME NEW k \in Kind, NEW phase, phase # "connect", k.line[0] = NoEnd, NEW pos \in Ranks,
         NEW peer \in Ranks, NEW q, q = NextRequest(k, phase, <<pos, peer>>)
  PROVE  /\ q \in Ranks \X Ranks
         /\ q # <<0, 0>> => q[1] > pos /\ \A r \in Slaves(k) : r > pos => r >= q[1]
         /\ q = <<0, 0>> => \A r \in Slaves(k) : r <= pos
<1> DEFINE Q == {t \in Requests(k, phase) : Lower(<<pos, peer>>, t)}
<1>0. Requests(k, phase) = Slaves(k) \X {0} /\ Slaves(k) \subseteq Ranks
  BY DEF Requests, Slaves
<1>1. Q \in SUBSET (Ranks \X Ranks) /\ q = Least(Q) /\ q \in Ranks \X Ranks
  BY RequestsType, NextRequestType DEF NextRequest
<1>2. pos \in Nat /\ peer \in Nat /\ Ranks \subseteq Nat
  BY RanksFacts
<1>3. ASSUME NEW r \in Slaves(k), r > pos PROVE <<r, 0>> \in Q
  BY <1>0, <1>2, <1>3 DEF Lower
<1>4. \A t \in Q : t[1] > pos /\ t[1] \in Slaves(k)
  <2> SUFFICES ASSUME NEW t \in Q PROVE t[1] > pos /\ t[1] \in Slaves(k)
    OBVIOUS
  <2>1. t \in Slaves(k) \X {0} /\ Lower(<<pos, peer>>, t)
    BY <1>0
  <2>2. t[1] \in Slaves(k) /\ t[2] = 0 /\ t[1] \in Nat
    BY <1>0, <1>2, <2>1
  <2> QED BY <1>2, <2>1, <2>2 DEF Lower
<1> HIDE DEF Q
<1>5. CASE Q = {}
  <2>1. q = <<0, 0>>
    BY <1>1, <1>5, LeastNone
  <2>2. \A r \in Slaves(k) : r <= pos
    <3> SUFFICES ASSUME NEW r \in Slaves(k), ~(r <= pos) PROVE FALSE
      OBVIOUS
    <3>1. r \in Nat
      BY <1>0, <1>2
    <3>2. r > pos
      BY <1>2, <3>1
    <3> QED BY <1>3, <1>5, <3>2
  <2> QED BY <1>1, <2>1, <2>2
<1>6. CASE Q # {}
  <2>1. q \in Q /\ \A t \in Q : ~Lower(t, q)
    BY <1>1, <1>6, LeastFound
  <2>2. q[1] > pos /\ q[1] \in Slaves(k)
    BY <1>4, <2>1
  <2>3. q # <<0, 0>>
    BY <2>2 DEF Slaves
  <2>4. ASSUME NEW r \in Slaves(k), r > pos PROVE r >= q[1]
    <3>1. ~Lower(<<r, 0>>, q)
      BY <1>3, <2>1, <2>4
    <3>2. r \in Nat /\ q[1] \in Nat
      BY <1>0, <1>1, <1>2
    <3> QED BY <3>1, <3>2 DEF Lower
  <2> QED BY <1>1, <2>2, <2>3, <2>4
<1> QED BY <1>5, <1>6

(* The record of the client changes, but not its lines.                     *)
Suits(k, w, phase) ==
  Less(k, w) /\ (w.line = NoSlaves \/ (w.established <=> k.established) \/ phase = "rest")
LEMMA FitSet ==
  ASSUME NEW S, NEW D \in [Daemons -> DaemonType], NEW c \in Clients, NEW phase, NEW i,
         Apt(S, D, c, phase, i), NEW w \in Kind,
         Suits(S.c[c], w, phase), NEW T, T = [S EXCEPT !.c[c] = w]
  PROVE  Apt(T, D, c, phase, i) /\ T.n = S.n /\ T.c[c] = w
<1>1. Sit(S, D, c) /\ Conv(S.c[c], S.n, D, phase, i) /\ S \in ClientSituation /\ S.n \in NetType
      /\ Orderly(World(S.n, D), Leased(S.c))
  BY SitFacts DEF Apt, Sit
<1>2. Sit(T, D, c) /\ T.n = S.n /\ T.c[c] = w
  <2>1. Sit(T, D, c)
    BY <1>1, SitSet DEF Suits
  <2>2. T.n = S.n /\ T.c[c] = w
    BY <1>1 DEF ClientSituation
  <2> QED BY <2>1, <2>2
<1>3. w.line = NoSlaves \/ (w.line = S.c[c].line /\ ((w.established <=> S.c[c].established) \/ phase = "rest"))
  BY DEF Less, Suits
<1>4. Conv(w, S.n, D, phase, i)
  BY <1>1, <1>3, ConvSet
<1> QED BY <1>2, <1>4 DEF Apt

LEMMA SitForget ==
  ASSUME NEW S, NEW D \in [Daemons -> DaemonType], NEW c \in Clients, Sit(S, D, c), NEW w \in Kind,
         w.line = NoSlaves, w.cache = S.c[c].cache \/ w.cache = NoSlaves, w.counter >= 1,
         NEW T, T = [S EXCEPT !.c[c] = w]
  PROVE  Apt(T, D, c, "rest", 0) /\ T.n = S.n /\ T.c[c] = w
<1>1. /\ S \in ClientSituation /\ S.n \in NetType /\ Orderly(World(S.n, D), Leased(S.c))
  BY SitFacts DEF Sit
<1>2. Less(S.c[c], w)
  BY DEF Less
<1>3. Sit(T, D, c)
  BY <1>2, SitSet
<1>4. T.n = S.n /\ T.c[c] = w
  BY <1>1 DEF ClientSituation
<1>5. Conv(w, S.n, D, "rest", 0)
  BY <1>1, NoLineConv
<1> QED BY <1>3, <1>4, <1>5 DEF Apt

(* The client says the same to all slaves of E.                             *)
Tells(S, D, c, E, m) ==
  /\ E \subseteq SlaveLines(S.c[c]) /\ m \in Message /\ m.tag \notin {"Enslave", "Join", "DataLine"}
  /\ m.tag = "Disconnect" \/ Conv(S.c[c], S.n, D, "rest", 0)
LEMMA SitSendEach ==
  ASSUME NEW S, NEW D \in [Daemons -> DaemonType], NEW c \in Clients, Sit(S, D, c),
         NEW E, NEW m, Tells(S, D, c, E, m), NEW U, U = WithNet(S, SendEach(S.n, E, m))
  PROVE  /\ Sit(U, D, c) /\ U.c = S.c /\ U.n = SendEach(S.n, E, m)
         /\ SameBut(S.n, U.n, D, {}, E)
         /\ \A x \in E : x \in Ends0 /\ x # NoEnd /\ x[2] = "near"
<1> DEFINE k == S.c[c]
           o == SendEach(S.n, E, m)
<1>0. /\ E \subseteq SlaveLines(S.c[c]) /\ m \in Message /\ m.tag \notin {"Enslave", "Join", "DataLine"}
      /\ m.tag = "Disconnect" \/ Conv(S.c[c], S.n, D, "rest", 0)
  BY DEF Tells
<1>1. /\ k \in Kind /\ S.n \in NetType
      /\ \A x \in End : Leases(k, x) => x \in Leased(S.c) /\ S.n.hold[x] = {c} /\ x[2] = "near"
  BY SitFacts
<1>2. \A x \in E : x \in End /\ Leases(k, x) /\ \E r \in Ranks : k.line[r] = x
  <2> SUFFICES ASSUME NEW x \in E PROVE x \in End /\ Leases(k, x) /\ \E r \in Ranks : k.line[r] = x
    OBVIOUS
  <2>1. PICK r \in Slaves(k) : x = k.line[r]
    BY <1>0 DEF SlaveLines
  <2>2. r \in Ranks /\ k.line[r] # NoEnd
    BY <2>1 DEF Slaves
  <2>3. k.line[r] \in Ends0
    BY <1>1, <2>2, KindBools
  <2> QED BY <2>1, <2>2, <2>3 DEF Leases, Ends0
<1>3. \A x \in E : x \in End /\ S.n.hold[x] = {c} /\ x[2] = "near" /\ x \in Leased(S.c)
  BY <1>1, <1>2
<1>4. Touched(S.n, o, c, {}, E, {m.tag}) /\ o.hold = S.n.hold
  <2>1. E \in SUBSET Ends0
    BY <1>3 DEF Ends0
  <2>2. o.hold = S.n.hold
    BY DEF SendEach, NetType
  <2> QED BY <1>0, <1>1, <1>3, <2>1, <2>2, SendEachTouched
<1> HIDE DEF o
<1>5. Touches(S, D, c, o, {}, E, {m.tag})
  <2>1. {m.tag} \subseteq HomeCode \/ \A h \in Hosts : Forming(D[Main(h)]) => Other(Home(D[Main(h)])) \notin E
    <3>1. CASE m.tag = "Disconnect"
      BY <3>1 DEF HomeCode
    <3>2. CASE Conv(k, S.n, D, "rest", 0)
      BY <1>2, <3>2 DEF Conv, Near
    <3> QED BY <1>0, <3>1, <3>2
  <2> QED BY <1>0, <1>3, <1>4, <2>1 DEF Touches
<1>6. U = [S EXCEPT !.n = o]
  BY DEF WithNet, o
<1>7. Sit(U, D, c) /\ U.n = o /\ U.c = S.c /\ SameBut(S.n, o, D, {}, E)
  BY <1>5, <1>6, SitTouched
<1>8. \A x \in E : x \in Ends0 /\ x # NoEnd /\ x[2] = "near"
  BY <1>3, NoEndIsNoEnd DEF Ends0
<1> QED BY <1>7, <1>8 DEF o

LEMMA FitSendEach ==
  ASSUME NEW S, NEW D \in [Daemons -> DaemonType], NEW c \in Clients, Apt(S, D, c, "rest", 0),
         NEW E, E \subseteq SlaveLines(S.c[c]), NEW m \in Message, m.tag \notin {"Enslave", "Join", "DataLine"},
         NEW U, U = WithNet(S, SendEach(S.n, E, m))
  PROVE  Apt(U, D, c, "rest", 0) /\ U.c = S.c /\ U.n = SendEach(S.n, E, m)
<1>1. Sit(S, D, c) /\ Conv(S.c[c], S.n, D, "rest", 0)
  BY DEF Apt
<1>4. Tells(S, D, c, E, m)
  BY <1>1 DEF Tells
<1>2. Sit(U, D, c) /\ U.c = S.c /\ U.n = SendEach(S.n, E, m)
  BY <1>1, <1>4, SitSendEach
<1>3. Conv(U.c[c], U.n, D, "rest", 0)
  BY <1>1, <1>2 DEF Conv, Near
<1> QED BY <1>2, <1>3 DEF Apt

LEMMA EstablishedFacts ==
  ASSUME NEW k \in Kind, NEW x \in BOOLEAN, NEW w, w = [k EXCEPT !.established = x]
  PROVE  /\ w \in Kind /\ w.line = k.line /\ w.cache = k.cache /\ w.counter = k.counter
         /\ w.adding = k.adding /\ w.todo = k.todo
<1>1. w \in Kind
  BY KindWith
<1> QED BY <1>1 DEF Kind, ClientType

Marked(S, c, x) == [S EXCEPT !.c[c].established = x]
Alike(S, T, D, c) ==
  /\ Apt(T, D, c, "rest", 0) /\ T.n = S.n /\ T.c[c].line = S.c[c].line
  /\ Clear(S.c[c]) => Clear(T.c[c])
LEMMA FitEstablished ==
  ASSUME NEW S, NEW D \in [Daemons -> DaemonType], NEW c \in Clients, Apt(S, D, c, "rest", 0),
         NEW x \in BOOLEAN, NEW T, T = Marked(S, c, x)
  PROVE  Alike(S, T, D, c)
<1> DEFINE k == S.c[c]
           w == [k EXCEPT !.established = x]
<1>1. S \in ClientSituation /\ k \in Kind /\ Sit(S, D, c)
  BY SitFacts DEF Apt
<1>2. /\ w \in Kind /\ w.line = k.line /\ w.cache = k.cache /\ w.counter = k.counter
      /\ w.adding = k.adding /\ w.todo = k.todo
  BY <1>1, EstablishedFacts
<1>3. T = [S EXCEPT !.c[c] = w]
  BY <1>1 DEF ClientSituation, Marked
<1> HIDE DEF w
<1>4. Suits(k, w, "rest")
  BY <1>1, <1>2 DEF Less, Sit, Core, Suits
<1>5. Apt(T, D, c, "rest", 0)
  BY <1>2, <1>3, <1>4, FitSet
<1>6. T.n = S.n /\ T.c[c] = w
  BY <1>1, <1>3 DEF ClientSituation
<1> QED BY <1>2, <1>5, <1>6 DEF Clear, Alike

LEMMA RestFirst ==
  ASSUME NEW S, NEW D \in [Daemons -> DaemonType], NEW c \in Clients, NEW phase \in Phase \ {"add"},
         Apt(S, D, c, "rest", 0), Clear(S.c[c]), NEW U, U = AskFirst(S, c, phase)
  PROVE  Whole(U.c, U.n, D)
<1>1. Apt(S, D, c, phase, 0)
  BY OtherPhase DEF Apt
<1> QED BY <1>1, FitFirst

LEMMA FitStartRun ==
  ASSUME NEW S, NEW D \in [Daemons -> DaemonType], NEW c \in Clients, Apt(S, D, c, "rest", 0),
         Clear(S.c[c]), NEW U, U = StartRun(S, c)
  PROVE  Whole(U.c, U.n, D)
<1> DEFINE lines == SlaveLines(S.c[c])
           T == [S EXCEPT !.c[c].established = TRUE]
           m == Msg("InitialData")
           V == WithNet(T, SendEach(T.n, lines, m))
<1>0. T = Marked(S, c, TRUE)
  BY DEF Marked
<1> HIDE DEF T
<1>1. Apt(T, D, c, "rest", 0) /\ T.n = S.n /\ T.c[c].line = S.c[c].line /\ Clear(T.c[c])
  <2>1. TRUE \in BOOLEAN
    OBVIOUS
  <2>2. Alike(S, T, D, c)
    BY <1>0, <2>1, FitEstablished, Zenon
  <2> QED BY <2>2 DEF Alike
<1>2. lines \subseteq SlaveLines(T.c[c])
  BY <1>1 DEF SlaveLines, Slaves
<1>3. m \in Message /\ m.tag \notin {"Enslave", "Join", "DataLine"}
  BY MsgIsMessage, CodeFacts DEF Msg
<1>4. U = IF ~InitialData THEN AskFirst(T, c, "run")
          ELSE IF \E e \in lines : Broken(S.n, e) THEN Return(V, c) ELSE AskFirst(V, c, "run")
  BY <1>1 DEF StartRun, WithNet, T
<1>5. "run" \in Phase \ {"add"}
  BY DEF Phase
<1> HIDE DEF lines, m
<1>6. V = WithNet(T, SendEach(T.n, lines, m))
  OBVIOUS
<1> HIDE DEF V
<1>7. Apt(V, D, c, "rest", 0) /\ V.c = T.c
  <2>1. Apt(V, D, c, "rest", 0)
    BY <1>1, <1>2, <1>3, <1>6, FitSendEach
  <2>2. T \in ClientSituation
    BY <1>1 DEF Apt, Sit
  <2>3. V.c = T.c
    BY <1>6, <2>2 DEF ClientSituation, WithNet
  <2> QED BY <2>1, <2>3
<1>8. CASE U = AskFirst(T, c, "run")
  BY <1>1, <1>5, <1>8, RestFirst
<1>9. CASE U = Return(V, c)
  BY <1>7, <1>9, FitReturn
<1>10. CASE U = AskFirst(V, c, "run")
  BY <1>1, <1>5, <1>7, <1>10, RestFirst
<1> QED BY <1>4, <1>8, <1>9, <1>10

LEMMA FitDissolve ==
  ASSUME NEW S, NEW D \in [Daemons -> DaemonType], NEW c \in Clients, Apt(S, D, c, "rest", 0),
         Clear(S.c[c]), NEW U, U = Dissolve(S, c)
  PROVE  Whole(U.c, U.n, D)
<1> DEFINE T == [S EXCEPT !.c[c].established = FALSE]
<1>0. T = Marked(S, c, FALSE)
  BY DEF Marked
<1>1. Apt(T, D, c, "rest", 0) /\ Clear(T.c[c])
  <2> HIDE DEF T
  <2>1. FALSE \in BOOLEAN
    OBVIOUS
  <2>2. Alike(S, T, D, c)
    BY <1>0, <2>1, FitEstablished, Zenon
  <2> QED BY <2>2 DEF Alike
<1>2. U = Return(S, c) \/ U = AskFirst(T, c, "prepare")
  BY DEF Dissolve
<1>3. "prepare" \in Phase \ {"add"}
  BY DEF Phase
<1> HIDE DEF T
<1>4. CASE U = Return(S, c)
  BY <1>4, FitReturn
<1>5. CASE U = AskFirst(T, c, "prepare")
  BY <1>1, <1>3, <1>5, RestFirst
<1> QED BY <1>2, <1>4, <1>5

(* The client lets go of all its slaves.                                    *)
LEMMA ForgetFacts ==
  ASSUME NEW k \in Kind
  PROVE  /\ Forget(k) \in Kind /\ Forget(k).line = NoSlaves /\ Forget(k).cache = k.cache
         /\ Forget(k).counter = k.counter /\ Forget(k).adding = k.adding /\ Forget(k).todo = k.todo
         /\ ResetClient(k) \in Kind /\ ResetClient(k).line = NoSlaves /\ ResetClient(k).cache = k.cache
         /\ ResetClient(k).counter = 1 /\ ResetClient(k).adding = k.adding
         /\ ResetClient(k).todo = k.todo /\ ResetClient(k).pc = k.pc
<1>1. Forget(k) \in Kind /\ ResetClient(k) \in Kind
  BY ForgetType, ResetClientType
<1>2. /\ Forget(k).line = NoSlaves /\ Forget(k).cache = k.cache
      /\ Forget(k).counter = k.counter /\ Forget(k).adding = k.adding /\ Forget(k).todo = k.todo
  BY DEF Forget, Kind, ClientType
<1>3. /\ ResetClient(k).line = NoSlaves /\ ResetClient(k).cache = k.cache
      /\ ResetClient(k).counter = 1 /\ ResetClient(k).adding = k.adding
      /\ ResetClient(k).todo = k.todo /\ ResetClient(k).pc = k.pc
  BY DEF ResetClient, Forget, Kind, ClientType
<1> QED BY <1>1, <1>2, <1>3

LEMMA SitDissolved ==
  ASSUME NEW S, NEW D \in [Daemons -> DaemonType], NEW c \in Clients, Sit(S, D, c),
         NEW U, U = Dissolved(S, c) \/ U = Return([S EXCEPT !.c[c] = ResetClient(S.c[c])], c)
  PROVE  Whole(U.c, U.n, D)
<1> DEFINE T == [S EXCEPT !.c[c] = Forget(S.c[c])]
           V == [S EXCEPT !.c[c] = ResetClient(S.c[c])]
<1>1. S.c[c] \in Kind /\ S.c[c].counter >= 1
  <2>1. S.c[c] \in Kind
    BY SitFacts
  <2> QED BY <2>1 DEF Sit, Core
<1>2. Apt(T, D, c, "rest", 0)
  BY <1>1, ForgetFacts, SitForget
<1>3. Apt(V, D, c, "rest", 0)
  BY <1>1, ForgetFacts, SitForget
<1>4. U = Return(T, c) \/ U = Return(V, c)
  BY DEF Dissolved
<1> HIDE DEF T, V
<1>5. CASE U = Return(T, c)
  BY <1>2, <1>5, FitReturn
<1>6. CASE U = Return(V, c)
  BY <1>3, <1>6, FitReturn
<1> QED BY <1>4, <1>5, <1>6

Tidied(S, c) == [S EXCEPT !.n = Keep(S.n, c, Holds(S.c[c]))]
LEMMA SitProbe ==
  ASSUME NEW S, NEW D \in [Daemons -> DaemonType], NEW c \in Clients, Apt(S, D, c, "rest", 0),
         S.c[c].adding = NoEnd, S.c[c].pc = "probe" \/ S.c[c].todo = NoSlaves,
         \A r \in Ranks \ {0} : S.c[c].todo[r] = NoEnd \/ S.c[c].todo[r] = S.c[c].cache[r]
  PROVE  Whole(S.c, S.n, D)
<1>1. Talks(S.c[c], S.n, D)
  BY DEF Apt, Conv, Near, Talks
<1> QED BY <1>1, WholeOf DEF Apt

LEMMA FitKept ==
  ASSUME NEW S, NEW D \in [Daemons -> DaemonType], NEW c \in Clients, Apt(S, D, c, "rest", 0),
         S.c[c].adding = NoEnd, S.c[c].pc = "probe" \/ S.c[c].todo = NoSlaves,
         \A r \in Ranks \ {0} : S.c[c].todo[r] = NoEnd \/ S.c[c].todo[r] = S.c[c].cache[r],
         NEW U, U = Tidied(S, c)
  PROVE  Whole(U.c, U.n, D)
<1> DEFINE keep == Holds(S.c[c])
<1>1. Spares(S.c[c], keep)
  BY DEF Leases, Holds, Spares
<1>2. U = WithNet(S, Keep(S.n, c, keep))
  BY DEF Tidied, WithNet
<1>3. Sit(S, D, c) /\ Conv(S.c[c], S.n, D, "rest", 0)
  BY DEF Apt
<1> HIDE DEF keep
<1>4. Sit(U, D, c) /\ U.c = S.c /\ ConvKept(S.c[c], S.n, U.n, D)
  BY <1>1, <1>2, <1>3, KeepSit
<1>5. Apt(U, D, c, "rest", 0)
  BY <1>3, <1>4 DEF Apt, ConvKept
<1> QED BY <1>4, <1>5, SitProbe

(* A field changes that says nothing about lines.                           *)
Fields(S, c, T) ==
  \/ T = [S EXCEPT !.c[c].pc = "probe"]
  \/ T = [S EXCEPT !.c[c].pos = 0]
  \/ T = [S EXCEPT !.c[c].quit = FALSE]
  \/ T = [S EXCEPT !.c[c].watch = "set"]
LEMMA FitField ==
  ASSUME NEW S, NEW D \in [Daemons -> DaemonType], NEW c \in Clients, NEW phase, NEW i, Apt(S, D, c, phase, i),
         NEW T, Fields(S, c, T)
  PROVE  /\ Apt(T, D, c, phase, i)
         /\ T.n = S.n /\ T.c[c].line = S.c[c].line /\ T.c[c].cache = S.c[c].cache
         /\ T.c[c].adding = S.c[c].adding /\ T.c[c].todo = S.c[c].todo
<1> DEFINE k == S.c[c]
<1>1. S \in ClientSituation /\ k \in Kind /\ k.counter >= 1
  <2>1. S \in ClientSituation /\ k \in Kind
    BY SitFacts DEF Apt
  <2> QED BY <2>1 DEF Apt, Sit, Core
<1> DEFINE F(w) ==
     /\ w \in Kind /\ w.line = k.line /\ w.cache = k.cache /\ w.counter = k.counter
     /\ (w.established <=> k.established) /\ w.adding = k.adding /\ w.todo = k.todo
<1>2. ASSUME NEW w, F(w), T = [S EXCEPT !.c[c] = w]
      PROVE  Apt(T, D, c, phase, i) /\ T.n = S.n /\ T.c[c] = w
  <2>1. Suits(k, w, phase)
    BY <1>1, <1>2 DEF Suits, Less
  <2>2. Apt(T, D, c, phase, i)
    BY <1>2, <2>1, FitSet
  <2>3. T.n = S.n /\ T.c[c] = w
    BY <1>1, <1>2 DEF ClientSituation
  <2> QED BY <2>2, <2>3
<1>3. CASE T = [S EXCEPT !.c[c].pc = "probe"]
  <2> DEFINE w == [k EXCEPT !.pc = "probe"]
  <2>1. w \in Kind
    BY <1>1, KindWith DEF ClientPc
  <2>2. F(w)
    BY <1>1, <2>1 DEF Kind, ClientType
  <2>3. T = [S EXCEPT !.c[c] = w]
    BY <1>1, <1>3 DEF ClientSituation
  <2> HIDE DEF w
  <2>4. Apt(T, D, c, phase, i) /\ T.n = S.n /\ T.c[c] = w
    BY <1>2, <2>2, <2>3
  <2> QED BY <2>2, <2>4
<1>4. CASE T = [S EXCEPT !.c[c].pos = 0]
  <2> DEFINE w == [k EXCEPT !.pos = 0]
  <2>1. w \in Kind
    BY <1>1, KindWith, RanksFacts
  <2>2. F(w)
    BY <1>1, <2>1 DEF Kind, ClientType
  <2>3. T = [S EXCEPT !.c[c] = w]
    BY <1>1, <1>4 DEF ClientSituation
  <2> HIDE DEF w
  <2>4. Apt(T, D, c, phase, i) /\ T.n = S.n /\ T.c[c] = w
    BY <1>2, <2>2, <2>3
  <2> QED BY <2>2, <2>4
<1>5. CASE T = [S EXCEPT !.c[c].quit = FALSE]
  <2> DEFINE w == [k EXCEPT !.quit = FALSE]
  <2>1. w \in Kind
    BY <1>1, KindWith
  <2>2. F(w)
    BY <1>1, <2>1 DEF Kind, ClientType
  <2>3. T = [S EXCEPT !.c[c] = w]
    BY <1>1, <1>5 DEF ClientSituation
  <2> HIDE DEF w
  <2>4. Apt(T, D, c, phase, i) /\ T.n = S.n /\ T.c[c] = w
    BY <1>2, <2>2, <2>3
  <2> QED BY <2>2, <2>4
<1>6. CASE T = [S EXCEPT !.c[c].watch = "set"]
  <2> DEFINE w == [k EXCEPT !.watch = "set"]
  <2>1. w \in Kind
    BY <1>1, KindWith
  <2>2. F(w)
    BY <1>1, <2>1 DEF Kind, ClientType
  <2>3. T = [S EXCEPT !.c[c] = w]
    BY <1>1, <1>6 DEF ClientSituation
  <2> HIDE DEF w
  <2>4. Apt(T, D, c, phase, i) /\ T.n = S.n /\ T.c[c] = w
    BY <1>2, <2>2, <2>3
  <2> QED BY <2>2, <2>4
<1> QED BY <1>3, <1>4, <1>5, <1>6 DEF Fields

FirstBroken(S, c) == {r \in Slaves(S.c[c]) : Broken(S.n, S.c[c].line[r])}
ToldLines(S, c) ==
  {S.c[c].line[r] : r \in {q \in Slaves(S.c[c]) : \A b \in FirstBroken(S, c) : q < b}}
ToldStart(S, c) == [S EXCEPT !.n = SendEach(S.n, ToldLines(S, c), Msg("Start"))]
ToProbe(S, c) == [S EXCEPT !.c[c].pc = "probe"]
ToFirst(S, c) == [S EXCEPT !.c[c].pos = 0]
NoQuit(S, c) == [S EXCEPT !.c[c].quit = FALSE]
Watched(S, c) == [S EXCEPT !.c[c].watch = "set"]
WithCache(S, c, x) == [S EXCEPT !.c[c].cache = x]
LEMMA StartAllSteps ==
  ASSUME NEW S \in ClientSituation, NEW c \in Clients
  PROVE  StartAll(S, c) =
           IF FirstBroken(S, c) # {} THEN Return(ToldStart(S, c), c)
           ELSE Tidied(WithCache(Watched(NoQuit(ToFirst(ToProbe(ToldStart(S, c), c), c), c), c), c, S.c[c].line), c)
<1> DEFINE k == S.c[c]
           broken == {r \in Slaves(k) : Broken(S.n, k.line[r])}
           told == {k.line[r] : r \in {q \in Slaves(k) : \A b \in broken : q < b}}
           T == [S EXCEPT !.n = SendEach(S.n, told, Msg("Start"))]
           U1 == [T EXCEPT !.c[c].pc = "probe"]
           U2 == [U1 EXCEPT !.c[c].pos = 0]
           U3 == [U2 EXCEPT !.c[c].quit = FALSE]
           U4 == [U3 EXCEPT !.c[c].watch = "set"]
           U == [U4 EXCEPT !.c[c].cache = k.line]
<1>1. T = ToldStart(S, c) /\ broken = FirstBroken(S, c)
  BY DEF ToldStart, ToldLines, FirstBroken
<1> HIDE DEF told, T, k
<1>2. U1 = ToProbe(T, c)
  BY DEF ToProbe
<1> HIDE DEF U1
<1>3. U2 = ToFirst(U1, c)
  BY DEF ToFirst
<1> HIDE DEF U2
<1>4. U3 = NoQuit(U2, c)
  BY DEF NoQuit
<1> HIDE DEF U3
<1>5. U4 = Watched(U3, c)
  BY DEF Watched
<1> HIDE DEF U4
<1>6. U = WithCache(U4, c, S.c[c].line)
  BY DEF WithCache, k
<1> HIDE DEF U
<1>7. StartAll(S, c) = IF broken # {} THEN Return(T, c)
                       ELSE [U EXCEPT !.n = Keep(U.n, c, Holds(U.c[c]))]
  BY ZenonT(60) DEF StartAll, U, U1, U2, U3, U4, T, told, k
<1> HIDE DEF broken
<1> QED BY <1>1, <1>2, <1>3, <1>4, <1>5, <1>6, <1>7 DEF Tidied

LEMMA FitStartAll ==
  ASSUME NEW S, NEW D \in [Daemons -> DaemonType], NEW c \in Clients, Apt(S, D, c, "rest", 0),
         Clear(S.c[c]), NEW Z, Z = StartAll(S, c)
  PROVE  Whole(Z.c, Z.n, D)
<1> DEFINE k == S.c[c]
           told == ToldLines(S, c)
           T == ToldStart(S, c)
           U1 == ToProbe(T, c)
           U2 == ToFirst(U1, c)
           U3 == NoQuit(U2, c)
           U4 == Watched(U3, c)
           V == WithCache(U4, c, k.line)
<1>1. told \subseteq SlaveLines(S.c[c])
  BY DEF SlaveLines, ToldLines
<1>2. Msg("Start") \in Message /\ Msg("Start").tag \notin {"Enslave", "Join", "DataLine"}
  BY MsgIsMessage, CodeFacts DEF Msg
<1>3. T = WithNet(S, SendEach(S.n, told, Msg("Start")))
  BY DEF WithNet, ToldStart
<1>0. S \in ClientSituation
  BY SitFacts DEF Apt
<1> HIDE DEF T
<1>4. Fields(T, c, U1)
  BY DEF Fields, ToProbe
<1> HIDE DEF U1
<1>5. Fields(U1, c, U2)
  BY DEF Fields, ToFirst
<1> HIDE DEF U2
<1>6. Fields(U2, c, U3)
  BY DEF Fields, NoQuit
<1> HIDE DEF U3
<1>7. Fields(U3, c, U4)
  BY DEF Fields, Watched
<1> HIDE DEF U4, V, told, k
<1>8. Z = IF FirstBroken(S, c) # {} THEN Return(T, c) ELSE Tidied(V, c)
  BY <1>0, StartAllSteps DEF V, U1, U2, U3, U4, T, k
<1>9. Apt(T, D, c, "rest", 0) /\ T.c[c] = k
  <2>1. T.c[c] = k
    <3>1. S \in ClientSituation
      BY SitFacts DEF Apt
    <3> QED BY <3>1 DEF ClientSituation, T, k, ToldStart
  <2> QED BY <1>1, <1>2, <1>3, <2>1, FitSendEach
<1>10. Apt(U1, D, c, "rest", 0) /\ U1.c[c].line = k.line /\ Clear(U1.c[c])
  BY <1>4, <1>9, FitField DEF Clear, k
<1>11. Apt(U2, D, c, "rest", 0) /\ U2.c[c].line = k.line /\ Clear(U2.c[c])
  BY <1>5, <1>10, FitField DEF Clear
<1>12. Apt(U3, D, c, "rest", 0) /\ U3.c[c].line = k.line /\ Clear(U3.c[c])
  BY <1>6, <1>11, FitField DEF Clear
<1>13. Apt(U4, D, c, "rest", 0) /\ U4.c[c].line = k.line /\ Clear(U4.c[c])
  BY <1>7, <1>12, FitField DEF Clear
<1>14. CASE Z = Return(T, c)
  BY <1>9, <1>14, FitReturn
<1>15. CASE Z = Tidied(V, c)
  <2> DEFINE b == U4.c[c]
             w == [b EXCEPT !.cache = k.line]
  <2>1. /\ Sit(U4, D, c) /\ Conv(b, U4.n, D, "rest", 0) /\ U4 \in ClientSituation /\ b \in Kind
        /\ b.line = k.line /\ b.adding = NoEnd /\ b.todo = NoSlaves
    BY <1>13, SitFacts DEF Apt, Clear
  <2>2. b.counter >= 1
    BY <2>1 DEF Sit, Core
  <2>3. w \in Kind
    BY <2>1, KindWith, KindBools
  <2>4. V = [U4 EXCEPT !.c[c] = w]
    BY <2>1 DEF V, ClientSituation, WithCache
  <2>5. w.line = b.line /\ w.cache = b.line /\ w.counter = b.counter /\ w.adding = NoEnd /\ w.todo = NoSlaves
    BY <2>1 DEF Kind, ClientType
  <2> HIDE DEF w
  <2>6. Fewer(U4, D, c, w)
    <3>1. \A e \in End : Leases(w, e) => Leases(b, e)
      BY <2>5 DEF Leases
    <3>2. \A h \in Hosts : Forming(D[Main(h)]) => \A r \in Ranks : w.cache[r] # Other(Home(D[Main(h)]))
      BY <2>1, <2>5 DEF Conv, Near
    <3> QED BY <2>2, <2>5, <3>1, <3>2 DEF Fewer
  <2>7. Sit(V, D, c)
    BY <2>1, <2>3, <2>4, <2>6, SitFewer
  <2>8. V.c[c] = w /\ V.n = U4.n
    BY <2>1, <2>4 DEF ClientSituation
  <2>9. Conv(w, V.n, D, "rest", 0)
    BY <2>1, <2>5, <2>8 DEF Conv, Near
  <2>10. Apt(V, D, c, "rest", 0)
    BY <2>7, <2>8, <2>9 DEF Apt
  <2>11. \A r \in Ranks \ {0} : w.todo[r] = NoEnd
    BY <2>5 DEF NoSlaves
  <2> QED BY <1>15, <2>5, <2>8, <2>10, <2>11, FitKept
<1>16. Z = Return(T, c) \/ Z = Tidied(V, c)
  BY <1>8
<1> QED BY <1>14, <1>15, <1>16

(* All slaves of a phase agreed, or one refused.                            *)
Over(phase) == IF phase \in {"peers", "connect"} THEN "connect" ELSE "rest"
LEMMA FitEndPhase ==
  ASSUME NEW S, NEW D \in [Daemons -> DaemonType], NEW c \in Clients, NEW phase \in Phase \ {"add"},
         Apt(S, D, c, Over(phase), 0), Clear(S.c[c]), NEW U, U = EndPhase(S, c, phase)
  PROVE  Whole(U.c, U.n, D)
<1>1. /\ "connect" \in Phase \ {"add"} /\ "group" \in Phase \ {"add"} /\ "leave" \in Phase \ {"add"}
  BY DEF Phase
<1>2. CASE phase \in {"peers", "connect"}
  <2>1. Apt(S, D, c, "connect", 0)
    BY <1>2 DEF Over
  <2>2. Apt(S, D, c, "group", 0)
    <3>1. ASSUME NEW h \in Hosts, Forming(D[Main(h)]), NEW r \in Ranks,
                 S.c[c].line[r] = Other(Home(D[Main(h)]))
          PROVE  ~S.c[c].established /\ Near("group", 0, r, View(S.n, D[Main(h)]))
      <4>1. ~S.c[c].established /\ Near("connect", 0, r, View(S.n, D[Main(h)]))
        BY <2>1, <3>1 DEF Apt, Conv
      <4>2. r \in Nat
        BY RanksFacts
      <4> QED BY <4>1, <4>2 DEF Near
    <3> QED BY <2>1, <3>1 DEF Apt, Conv
  <2>3. U = AskFirst(S, c, "connect") \/ U = AskFirst(S, c, "group")
    BY <1>2 DEF EndPhase
  <2>4. CASE U = AskFirst(S, c, "connect")
    BY <1>1, <2>1, <2>4, FitFirst
  <2>5. CASE U = AskFirst(S, c, "group")
    BY <1>1, <2>2, <2>5, FitFirst
  <2> QED BY <2>3, <2>4, <2>5
<1>3. CASE phase \notin {"peers", "connect"}
  <2>1. Apt(S, D, c, "rest", 0) /\ Sit(S, D, c)
    BY <1>3 DEF Over, Apt
  <2>2. CASE phase = "group"
    BY <2>1, <2>2, FitStartRun DEF EndPhase
  <2>3. CASE phase = "run"
    BY <2>1, <2>3, FitStartAll DEF EndPhase
  <2>4. CASE phase = "prepare"
    BY <1>1, <2>1, <2>4, RestFirst DEF EndPhase
  <2>5. CASE phase = "leave"
    BY <2>1, <2>5, SitDissolved DEF EndPhase
  <2> QED BY <1>3, <2>2, <2>3, <2>4, <2>5 DEF Phase
<1> QED BY <1>2, <1>3

LEMMA FitAgreed ==
  ASSUME NEW S, NEW D \in [Daemons -> DaemonType], NEW c \in Clients, S.c[c].pc \in Phase \ {"add"},
         Apt(S, D, c, S.c[c].pc, S.c[c].pos + 1), Clear(S.c[c]), NEW U, U = Agreed(S, c)
  PROVE  Whole(U.c, U.n, D)
<1> DEFINE k == S.c[c]
           phase == k.pc
           pos == k.pos
           q == NextRequest(k, phase, <<pos, k.peer>>)
<1>1. /\ Sit(S, D, c) /\ Conv(k, S.n, D, phase, pos + 1) /\ k \in Kind /\ S.n \in NetType
      /\ Orderly(World(S.n, D), Leased(S.c)) /\ k.line[0] = NoEnd
  BY SitFacts DEF Apt, Sit, Core
<1>2. pos \in Ranks /\ k.peer \in Ranks /\ pos \in Nat
  BY <1>1, KindBools, RanksFacts
<1>3. q \in Ranks \X Ranks /\ q[1] \in Nat
  BY <1>1, NextRequestType, RanksFacts
<1>4. U = IF q # <<0, 0>> THEN Ask(S, c, phase, q) ELSE EndPhase(S, c, phase)
  BY DEF Agreed
<1>5. phase # "connect" =>
        /\ q # <<0, 0>> => q[1] > pos /\ \A r \in Slaves(k) : r > pos => r >= q[1]
        /\ q = <<0, 0>> => \A r \in Slaves(k) : r <= pos
  <2> SUFFICES ASSUME phase # "connect"
               PROVE  /\ q # <<0, 0>> => q[1] > pos /\ \A r \in Slaves(k) : r > pos => r >= q[1]
                      /\ q = <<0, 0>> => \A r \in Slaves(k) : r <= pos
    OBVIOUS
  <2>1. q = NextRequest(k, phase, <<pos, k.peer>>)
    OBVIOUS
  <2> HIDE DEF q, k, pos, phase
  <2> QED BY <1>1, <1>2, <2>1, NextRank
<1> HIDE DEF q
<1>6. ASSUME NEW h \in Hosts, Forming(D[Main(h)]), NEW r \in Ranks, k.line[r] = Other(Home(D[Main(h)]))
      PROVE  /\ ~k.established /\ Near(phase, pos + 1, r, View(S.n, D[Main(h)]))
             /\ r \in Slaves(k) /\ r \in Nat
  <2>1. ~k.established /\ Near(phase, pos + 1, r, View(S.n, D[Main(h)]))
    BY <1>1, <1>6 DEF Conv
  <2>2. r \in Slaves(k)
    BY <1>1, <1>6, SeatFacts DEF Slaves
  <2> QED BY <2>1, <2>2, RanksFacts
<1>7. CASE q # <<0, 0>>
  <2>1. Conv(k, S.n, D, phase, q[1])
    <3> SUFFICES ASSUME NEW h \in Hosts, Forming(D[Main(h)]), NEW r \in Ranks,
                        k.line[r] = Other(Home(D[Main(h)]))
                 PROVE  ~k.established /\ Near(phase, q[1], r, View(S.n, D[Main(h)]))
      BY DEF Conv
    <3>1. /\ ~k.established /\ Near(phase, pos + 1, r, View(S.n, D[Main(h)]))
          /\ r \in Slaves(k) /\ r \in Nat
      BY <1>6
    <3>2. phase # "connect" => q[1] > pos /\ (r > pos => r >= q[1])
      BY <1>5, <1>7, <3>1
    <3> HIDE DEF phase, pos, k
    <3>3. phase # "connect" => (r >= pos + 1 => r >= q[1]) /\ (r < pos + 1 => r < q[1])
      BY <1>2, <1>3, <3>1, <3>2
    <3> QED BY <3>1, <3>3 DEF Near
  <2>2. Apt(S, D, c, phase, q[1])
    BY <1>1, <2>1 DEF Apt
  <2> QED BY <1>3, <1>4, <1>7, <2>2, FitAsk
<1>8. CASE q = <<0, 0>>
  <2>1. Conv(k, S.n, D, Over(phase), 0)
    <3> SUFFICES ASSUME NEW h \in Hosts, Forming(D[Main(h)]), NEW r \in Ranks,
                        k.line[r] = Other(Home(D[Main(h)]))
                 PROVE  ~k.established /\ Near(Over(phase), 0, r, View(S.n, D[Main(h)]))
      BY DEF Conv
    <3>1. /\ ~k.established /\ Near(phase, pos + 1, r, View(S.n, D[Main(h)]))
          /\ r \in Slaves(k) /\ r \in Nat
      BY <1>6
    <3>2. phase # "connect" => r <= pos
      BY <1>5, <1>8, <3>1
    <3> HIDE DEF phase, pos, k
    <3>3. phase # "connect" => ~(r >= pos + 1)
      BY <1>2, <3>1, <3>2
    <3> QED BY <3>1, <3>3 DEF Near, Over
  <2>2. Apt(S, D, c, Over(phase), 0)
    BY <1>1, <2>1 DEF Apt
  <2>3. phase \in Phase \ {"add"} /\ Clear(k) /\ U = EndPhase(S, c, phase)
    BY <1>4, <1>8
  <2> HIDE DEF phase
  <2> QED BY <2>2, <2>3, FitEndPhase
<1> QED BY <1>7, <1>8

LEMMA FitRefused ==
  ASSUME NEW S, NEW D \in [Daemons -> DaemonType], NEW c \in Clients, Sit(S, D, c),
         S.c[c].pc = "prepare" => Apt(S, D, c, "rest", 0), Clear(S.c[c]), NEW U, U = Refused(S, c)
  PROVE  Whole(U.c, U.n, D)
<1>1. "leave" \in Phase \ {"add"}
  BY DEF Phase
<1>2. CASE S.c[c].pc = "prepare"
  BY <1>1, <1>2, RestFirst DEF Refused
<1>3. CASE S.c[c].pc = "leave"
  BY <1>3, SitDissolved DEF Refused
<1>4. CASE S.c[c].pc \notin {"prepare", "leave"}
  <2>1. U = Return([S EXCEPT !.c[c] = ResetClient(S.c[c])], c)
    BY <1>4 DEF Refused
  <2> QED BY <2>1, SitDissolved
<1> QED BY <1>2, <1>3, <1>4

-----------------------------------------------------------------------------
(* The actions of a client.                                                 *)
LEMMA HereApt ==
  ASSUME TypedClient, daemon \in [Daemons -> DaemonType], Whole(client, net, daemon), NEW c \in Clients
  PROVE  /\ Sit(Here, daemon, c) /\ Apt(Here, daemon, c, "peers", 0)
         /\ client[c].pc \notin FormPhase \cup {"idle", "add"} => Apt(Here, daemon, c, "rest", 0)
         /\ client[c].pc # "add" => client[c].adding = NoEnd
         /\ client[c].pc # "probe" => client[c].todo = NoSlaves
<1> DEFINE k == client[c]
<1>1. Here \in ClientSituation /\ Here.n = net /\ Here.c = client /\ net \in NetType
  BY HereType DEF TypedClient, NetTypeOK
<1>2. /\ Orderly(World(net, daemon), Leased(client))
      /\ Sound(k, c, net, daemon) /\ Talks(k, net, daemon)
      /\ \A b \in Clients \ {c} : Sound(client[b], b, net, daemon) /\ Talks(client[b], net, daemon)
  BY DEF Whole
<1>3. Shape(k) /\ Aloof(k, net, daemon)
  BY <1>2 DEF Sound
<1>4. \A e \in End : Leases(k, e) => net.hold[e] = {c} /\ e[2] = "near"
  BY <1>2, SoundHolds, NoEndIsNoEnd DEF Leases
<1>5. Core(k, c, net, daemon)
  BY <1>3, <1>4 DEF Core, Shape, Aloof
<1>6. Sit(Here, daemon, c)
  BY <1>1, <1>2, <1>5 DEF Sit
<1>7. ASSUME NEW h \in Hosts, Forming(daemon[Main(h)]), NEW r \in Ranks,
             k.line[r] = Other(Home(daemon[Main(h)])), NEW v, v = View(net, daemon[Main(h)])
      PROVE  ~k.established /\ Near("peers", 0, r, v) /\ k.pc \in FormPhase \cup {"idle", "add"}
  <2>1. Stage(k, r, v)
    BY <1>2, <1>7 DEF Talks
  <2>2. Chat(v)
    BY <1>1, <1>2, <1>7, SeatFacts
  <2>3. r \in Nat /\ k.pos \in Nat
    <3>1. k \in Kind
      BY <1>1, ClientParts
    <3> QED BY <3>1, KindBools, RanksFacts
  <2>4. Loose(v)
    BY <2>1, <2>2, <2>3, AllLoose DEF Stage
  <2> HIDE DEF k
  <2> QED BY <2>1, <2>3, <2>4 DEF Stage, Near, FormPhase
<1>8. Conv(k, net, daemon, "peers", 0)
  BY <1>7 DEF Conv
<1>9. k.pc \notin FormPhase \cup {"idle", "add"} => Conv(k, net, daemon, "rest", 0)
  BY <1>7 DEF Conv
<1> QED BY <1>1, <1>3, <1>6, <1>8, <1>9 DEF Apt, Shape

LEMMA ActWhole ==
  ASSUME NEW S, NEW D, Act(S), daemon' = D, Whole(S.c, S.n, D)
  PROVE  Whole(client', net', daemon')
BY DEF Act

Tidy == TypedClient /\ daemon \in [Daemons -> DaemonType] /\ Whole(client, net, daemon)

LEMMA ClientTimeOutWhole ==
  ASSUME Tidy, NEW c \in Clients, ClientTimeOut(c), daemon' = daemon
  PROVE  Whole(client', net', daemon')
<1>1. Apt(Here, daemon, c, "peers", 0)
  BY HereApt DEF Tidy
<1>2. Act(Return(Here, c))
  BY DEF ClientTimeOut
<1>3. daemon \in [Daemons -> DaemonType]
  BY DEF Tidy
<1>4. Whole(Return(Here, c).c, Return(Here, c).n, daemon)
  BY <1>1, <1>3, FitReturn
<1> QED BY <1>2, <1>4, ActWhole

LEMMA ClientCrashWhole ==
  ASSUME Tidy, NEW c \in Clients, ClientCrash(c), daemon' = daemon
  PROVE  Whole(client', net', daemon')
<1>1. Sit(Here, daemon, c)
  BY HereApt DEF Tidy
<1>2. Act(Gone(Here, c))
  BY DEF ClientCrash
<1>3. daemon \in [Daemons -> DaemonType]
  BY DEF Tidy
<1>4. Whole(Gone(Here, c).c, Gone(Here, c).n, daemon)
  BY <1>1, <1>3, FitGone
<1> QED BY <1>2, <1>4, ActWhole

(* The client reads from one of its lines.                                  *)
LEMMA SitReceive ==
  ASSUME NEW S, NEW D \in [Daemons -> DaemonType], NEW c \in Clients, Sit(S, D, c),
         NEW e \in End, S.n.hold[e] = {c}, NEW U, U = WithNet(S, Receive(S.n, e))
  PROVE  /\ Sit(U, D, c) /\ U.c = S.c /\ U.n = Receive(S.n, e)
         /\ SameBut(S.n, U.n, D, {e}, {})
<1> DEFINE o == Receive(S.n, e)
<1>1. S.n \in NetType
  BY SitFacts
<1>2. Touched(S.n, o, c, {e}, {}, {})
  BY <1>1, ReceiveTouched
<1>3. o.hold = S.n.hold
  BY <1>1, ReceiveType
<1>4. U = [S EXCEPT !.n = o]
  BY DEF WithNet
<1> HIDE DEF o
<1>5. Touches(S, D, c, o, {e}, {}, {})
  BY <1>2, <1>3 DEF Touches
<1>6. Sit(U, D, c) /\ U.n = o /\ U.c = S.c /\ SameBut(S.n, o, D, {e}, {})
  BY <1>4, <1>5, SitTouched
<1> QED BY <1>6 DEF o

LEMMA ReadView ==
  ASSUME NEW n \in NetType, NEW D \in [Daemons -> DaemonType], NEW K, Orderly(World(n, D), K),
         NEW h \in Hosts, Forming(D[Main(h)]), NEW x, x = Other(Home(D[Main(h)])), n.box[x] # <<>>
  PROVE  /\ Reads(View(n, D[Main(h)]), View(Receive(n, x), D[Main(h)]))
         /\ Head(View(n, D[Main(h)]).a) = Peek(n, x)
<1> DEFINE e == Home(D[Main(h)])
           o == Receive(n, x)
<1>1. /\ e \in End /\ x \in End /\ Other(x) = e /\ x # e
      /\ View(n, D[Main(h)]).a = n.box[x]
  BY SeatFacts
<1>2. o.box[x] = Tail(n.box[x]) /\ o.box[e] = n.box[e]
  BY <1>1 DEF Receive, NetType
<1> HIDE DEF o
<1>3. Reads(View(n, D[Main(h)]), View(o, D[Main(h)]))
  BY <1>1, <1>2 DEF View, Reads
<1> QED BY <1>1, <1>3 DEF o, Peek

(* Something arrived on the line of a main process that forms a group: an   *)
(* answer.                                                                  *)
LEMMA AnswerTag ==
  ASSUME NEW n \in NetType, NEW D \in [Daemons -> DaemonType], NEW K, Orderly(World(n, D), K),
         NEW h \in Hosts, Forming(D[Main(h)]), NEW x, x = Other(Home(D[Main(h)])), Readable(n, x)
  PROVE  n.box[x] # <<>> /\ Peek(n, x).tag \in {"OK", "Refuse"}
<1> DEFINE e == Home(D[Main(h)])
<1>1. /\ e \in End /\ x \in End /\ Other(x) = e
      /\ n.hold[e] = {Main(h)} /\ \A m \in Msgs(n, x) : m.tag \in {"OK", "Refuse"}
  BY SeatFacts
<1>2. ~Hung(n, x)
  BY <1>1 DEF Hung
<1>3. n.box[x] # <<>> /\ n.box[x] \in Seq(Message)
  BY <1>1, <1>2 DEF Readable, Empty, NetType
<1>4. Peek(n, x) = Head(n.box[x])
  BY <1>1, <1>3 DEF Peek
<1>5. Head(n.box[x]) \in Msgs(n, x)
  BY <1>3 DEF Msgs
<1> QED BY <1>1, <1>3, <1>4, <1>5

(* The state of the conversations after the client has read an answer.      *)
Hearing(i, r, v, w) ==
  IF r = i THEN (Waiting(v) => Joined(w)) /\ (Meeting(v) => Joined(w)) /\ ~Grouping(v) ELSE w = v
LEMMA StageHeard ==
  ASSUME NEW k, NEW phase, phase \in Phase \ {"add"}, k.pc = phase, NEW i \in Nat, k.pos = i, NEW r \in Nat,
         NEW v, NEW w, Stage(k, r, v),
         Hearing(i, r, v, w)
  PROVE  ~k.established /\ Near(phase, i + 1, r, w)
<1>0. ~k.established /\ phase # "idle" /\ phase # "add"
  BY DEF Stage, Phase
<1>1. CASE r = i
  <2>1. \/ phase = "peers" /\ Waiting(v)
        \/ phase = "connect" /\ Meeting(v)
        \/ phase = "group" /\ Grouping(v)
    BY <1>0, <1>1 DEF Stage
  <2>2. (phase = "peers" \/ phase = "connect") /\ Joined(w)
    BY <1>1, <2>1 DEF Hearing
  <2>3. r < i + 1
    BY <1>1
  <2> QED BY <1>0, <2>2, <2>3 DEF Near
<1>2. CASE r < i
  <2>1. (phase = "peers" \/ phase = "connect") /\ Joined(v)
    BY <1>0, <1>2 DEF Stage
  <2>2. r < i + 1 /\ w = v
    BY <1>2 DEF Hearing
  <2> QED BY <1>0, <2>1, <2>2 DEF Near
<1>3. CASE r > i
  <2>1. \/ phase = "peers" /\ Loose(v)
        \/ phase = "connect" /\ Joined(v)
        \/ phase = "group" /\ Joined(v)
    BY <1>0, <1>3 DEF Stage
  <2>2. r >= i + 1 /\ w = v
    BY <1>3 DEF Hearing
  <2> QED BY <1>0, <2>1, <2>2 DEF Near
<1> QED BY <1>1, <1>2, <1>3

LEMMA HeardOK ==
  ASSUME Tidy, NEW c \in Clients, NEW k, k = client[c], k.pc \in Phase \ {"add"}, NEW e, e = k.line[k.pos],
         Readable(net, e), Peek(net, e).tag = "OK", NEW U, U = WithNet(Here, Receive(net, e)),
         Sit(U, daemon, c), U.c = client, U.n = Receive(net, e), SameBut(net, U.n, daemon, {e}, {})
  PROVE  Apt(U, daemon, c, k.pc, k.pos + 1)
<1> DEFINE pos == k.pos
           phase == k.pc
<1>1. /\ net \in NetType /\ daemon \in [Daemons -> DaemonType] /\ k \in Kind
      /\ Orderly(World(net, daemon), Leased(client)) /\ Talks(k, net, daemon) /\ Shape(k)
  BY DEF Tidy, TypedClient, NetTypeOK, Whole, Sound
<1>2. pos \in Nat /\ pos \in Ranks
  BY <1>1, KindBools, RanksFacts
<1>4. k.pc = phase /\ k.pos = pos /\ phase \in Phase \ {"add"}
  OBVIOUS
<1>3. ASSUME NEW h \in Hosts, Forming(daemon[Main(h)]), NEW r \in Ranks, k.line[r] = Other(Home(daemon[Main(h)]))
      PROVE  ~k.established /\ Near(phase, pos + 1, r, View(U.n, daemon[Main(h)]))
  <2> DEFINE x == Other(Home(daemon[Main(h)]))
             v == View(net, daemon[Main(h)])
             w == View(U.n, daemon[Main(h)])
  <2>1. Stage(k, r, v) /\ Chat(v) /\ x # NoEnd /\ r \in Nat
    BY <1>1, <1>3, SeatFacts, RanksFacts DEF Talks
  <2>2. CASE r = pos
    <3>1. e = x
      BY <1>3, <2>2
    <3>2. net.box[x] # <<>>
      BY <1>1, <1>3, <3>1, AnswerTag
    <3>3. Reads(v, w) /\ Head(v.a).tag = "OK"
      BY <1>1, <1>3, <3>1, <3>2, ReadView
    <3> HIDE DEF v, w
    <3>4. /\ Waiting(v) => Joined(w)
          /\ Meeting(v) => Joined(w)
          /\ ~Grouping(v)
      BY <2>1, <3>3, HearsOK
    <3>5. (Waiting(v) => Joined(w)) /\ (Meeting(v) => Joined(w)) /\ ~Grouping(v)
      BY <3>4
    <3>6. Hearing(pos, r, v, w)
      BY <2>2, <3>5 DEF Hearing
    <3> HIDE DEF phase, pos
    <3>7. ~k.established /\ Near(phase, pos + 1, r, w)
      BY <1>2, <1>4, <2>1, <3>6, StageHeard
    <3> QED BY <3>7 DEF w
  <2>3. CASE r # pos
    <3>1. e # x
      BY <1>1, <1>2, <1>3, <2>1, <2>3 DEF Shape
    <3>2. w = v
      BY <1>3, <3>1 DEF SameBut
    <3> HIDE DEF v, w
    <3>6. Hearing(pos, r, v, w)
      BY <2>3, <3>2 DEF Hearing
    <3> HIDE DEF phase, pos
    <3>7. ~k.established /\ Near(phase, pos + 1, r, w)
      BY <1>2, <1>4, <2>1, <3>6, StageHeard
    <3> QED BY <3>7 DEF w
  <2> QED BY <2>2, <2>3
<1> QED BY <1>3 DEF Apt, Conv

LEMMA HeardElse ==
  ASSUME Tidy, NEW c \in Clients, NEW k, k = client[c], NEW e, NEW U, U = WithNet(Here, Receive(net, e)),
         Readable(net, e), Peek(net, e).tag \notin {"OK", "Refuse"},
         Sit(U, daemon, c), U.c = client, U.n = Receive(net, e), SameBut(net, U.n, daemon, {e}, {})
  PROVE  Apt(U, daemon, c, "peers", 0)
<1>1. /\ net \in NetType /\ daemon \in [Daemons -> DaemonType]
      /\ Orderly(World(net, daemon), Leased(client))
      /\ Conv(k, net, daemon, "peers", 0)
  <2>1. Apt(Here, daemon, c, "peers", 0) /\ Here.c = client /\ Here.n = net
    BY HereApt, HereType DEF Tidy
  <2> QED BY <2>1 DEF Tidy, TypedClient, NetTypeOK, Whole, Apt
<1>2. ASSUME NEW h \in Hosts, Forming(daemon[Main(h)]), NEW r \in Ranks, k.line[r] = Other(Home(daemon[Main(h)]))
      PROVE  ~k.established /\ Near("peers", 0, r, View(U.n, daemon[Main(h)]))
  <2>1. e # Other(Home(daemon[Main(h)]))
    BY <1>1, <1>2, AnswerTag
  <2>2. View(U.n, daemon[Main(h)]) = View(net, daemon[Main(h)])
    BY <1>2, <2>1 DEF SameBut
  <2> QED BY <1>1, <1>2, <2>2 DEF Conv
<1> QED BY <1>2 DEF Apt, Conv

LEMMA AnsweredWhole ==
  ASSUME Tidy, NEW c \in Clients, Answered(c), daemon' = daemon
  PROVE  Whole(client', net', daemon')
<1> DEFINE k == client[c]
           e == k.line[k.pos]
           tag == Peek(net, e).tag
           U == WithNet(Here, Receive(net, e))
<1>1. /\ daemon \in [Daemons -> DaemonType] /\ Here.c = client /\ Here.n = net
      /\ k.pc \in Phase \ {"add"} /\ Readable(net, e) /\ k \in Kind
  <2>1. client \in [Clients -> Kind]
    BY DEF Tidy, TypedClient
  <2> QED BY <2>1, HereType DEF Tidy, Answered
<1>2. \/ tag = "OK" /\ Act(Agreed(U, c))
      \/ tag = "Refuse" /\ Act(Refused(U, c))
      \/ tag \notin {"OK", "Refuse"} /\ Act(Return(U, c))
  <2>1. [Here EXCEPT !.n = Receive(@, e)] = U
    BY <1>1 DEF WithNet
  <2> QED BY <2>1 DEF Answered
<1>3. e \in End /\ net.hold[e] = {c}
  <2>1. e \in End /\ k.pos \in Ranks
    BY <1>1, KindBools DEF Readable
  <2>2. Sound(k, c, net, daemon)
    BY DEF Tidy, Whole
  <2> QED BY <2>1, <2>2, SoundHolds, NoEndIsNoEnd
<1> HIDE DEF tag
<1>4. /\ Sit(Here, daemon, c) /\ Clear(k)
      /\ k.pc \notin FormPhase \cup {"idle", "add"} => Apt(Here, daemon, c, "rest", 0)
  <2>1. k.pc # "add" /\ k.pc # "probe"
    BY <1>1 DEF Phase
  <2> QED BY <2>1, HereApt DEF Tidy, Clear
<1> HIDE DEF e
<1>5. U = WithNet(Here, Receive(Here.n, e)) /\ Here.n.hold[e] = {c}
  BY <1>1, <1>3
<1> HIDE DEF U
<1>6. Sit(U, daemon, c) /\ U.c = client /\ U.n = Receive(net, e) /\ SameBut(net, U.n, daemon, {e}, {})
  <2>1. Sit(U, daemon, c) /\ U.c = Here.c /\ U.n = Receive(Here.n, e) /\ SameBut(Here.n, U.n, daemon, {e}, {})
    BY <1>1, <1>3, <1>4, <1>5, SitReceive
  <2> QED BY <1>1, <2>1
<1>7. U = WithNet(Here, Receive(net, e))
  BY <1>1, <1>5
<1>8. CASE tag = "OK" /\ Act(Agreed(U, c))
  <2>1. Apt(U, daemon, c, k.pc, k.pos + 1)
    BY <1>1, <1>6, <1>7, <1>8, HeardOK DEF e, tag
  <2>2. Whole(Agreed(U, c).c, Agreed(U, c).n, daemon)
    BY <1>1, <1>4, <1>6, <2>1, FitAgreed
  <2> QED BY <1>8, <2>2, ActWhole
<1>9. CASE tag = "Refuse" /\ Act(Refused(U, c))
  <2>1. k.pc = "prepare" => Apt(U, daemon, c, "rest", 0)
    <3>1. k.pc = "prepare" => Conv(k, net, daemon, "rest", 0)
      BY <1>1, <1>4 DEF FormPhase, Apt
    <3> QED BY <1>6, <3>1 DEF Apt, Conv, Near
  <2>2. Whole(Refused(U, c).c, Refused(U, c).n, daemon)
    BY <1>1, <1>4, <1>6, <2>1, FitRefused
  <2> QED BY <1>9, <2>2, ActWhole
<1>10. CASE tag \notin {"OK", "Refuse"} /\ Act(Return(U, c))
  <2>1. Apt(U, daemon, c, "peers", 0)
    BY <1>1, <1>6, <1>7, <1>10, HeardElse DEF tag
  <2>2. Whole(Return(U, c).c, Return(U, c).n, daemon)
    BY <1>1, <2>1, FitReturn
  <2> QED BY <1>10, <2>2, ActWhole
<1> QED BY <1>2, <1>8, <1>9, <1>10

(* A change of a client's record that says nothing about its lines.         *)
Still(k, w) ==
  /\ w \in Kind /\ w.line = k.line /\ w.cache = k.cache /\ w.counter = k.counter
  /\ (w.established <=> k.established) /\ w.adding = k.adding /\ w.todo = k.todo
LEMMA StillFacts ==
  ASSUME NEW k \in Kind
  PROVE  /\ Still(k, [k EXCEPT !.calls = k.calls + 1])
         /\ Still(k, [k EXCEPT !.final = TRUE])
         /\ Still(k, [k EXCEPT !.quit = TRUE])
         /\ \A x \in SUBSET Hosts : Still(k, [k EXCEPT !.left = x])
         /\ [k EXCEPT !.calls = k.calls + 1].pc = k.pc /\ [k EXCEPT !.final = TRUE].pc = k.pc
         /\ [k EXCEPT !.quit = TRUE].pc = k.pc /\ \A x : [k EXCEPT !.left = x].pc = k.pc
<1>1. k.calls + 1 \in Nat
  <2>1. k.calls \in Nat
    BY KindBools
  <2> QED BY <2>1
<1>2. [k EXCEPT !.calls = k.calls + 1] \in Kind
  BY <1>1, KindWith
<1>3. [k EXCEPT !.final = TRUE] \in Kind /\ [k EXCEPT !.quit = TRUE] \in Kind
      /\ \A x \in SUBSET Hosts : [k EXCEPT !.left = x] \in Kind
  BY KindWith
<1>4. Still(k, [k EXCEPT !.calls = k.calls + 1])
  BY <1>2 DEF Still, Kind, ClientType
<1>5. Still(k, [k EXCEPT !.final = TRUE]) /\ Still(k, [k EXCEPT !.quit = TRUE])
  BY <1>3 DEF Still, Kind, ClientType
<1>6. \A x \in SUBSET Hosts : Still(k, [k EXCEPT !.left = x])
  BY <1>3 DEF Still, Kind, ClientType
<1>7. [k EXCEPT !.calls = k.calls + 1].pc = k.pc /\ [k EXCEPT !.final = TRUE].pc = k.pc
      /\ [k EXCEPT !.quit = TRUE].pc = k.pc /\ \A x : [k EXCEPT !.left = x].pc = k.pc
  BY DEF Kind, ClientType
<1> QED BY <1>4, <1>5, <1>6, <1>7

LEMMA FitStill ==
  ASSUME NEW S, NEW D \in [Daemons -> DaemonType], NEW c \in Clients, NEW phase, NEW i,
         Apt(S, D, c, phase, i), NEW w, Still(S.c[c], w), NEW T, T = [S EXCEPT !.c[c] = w]
  PROVE  Apt(T, D, c, phase, i) /\ T.n = S.n /\ T.c[c] = w
<1>1. S \in ClientSituation /\ S.c[c].counter >= 1
  BY SitFacts DEF Apt, Sit, Core
<1>2. Suits(S.c[c], w, phase) /\ w \in Kind
  BY <1>1 DEF Suits, Less, Still
<1>3. Apt(T, D, c, phase, i)
  BY <1>2, FitSet
<1>4. T.n = S.n /\ T.c[c] = w
  BY <1>1 DEF ClientSituation
<1> QED BY <1>3, <1>4

LEMMA ClearStill == ASSUME NEW k, NEW w, Still(k, w), Clear(k) PROVE Clear(w)
BY DEF Still, Clear

LEMMA CallRunWhole ==
  ASSUME Tidy, NEW c \in Clients, CallRun(c), daemon' = daemon
  PROVE  Whole(client', net', daemon')
<1> DEFINE w == [client[c] EXCEPT !.calls = client[c].calls + 1]
           S == [Here EXCEPT !.c[c] = w]
<1>1. /\ Apt(Here, daemon, c, "peers", 0) /\ Clear(client[c]) /\ daemon \in [Daemons -> DaemonType]
      /\ Here.c = client /\ client[c] \in Kind
  <2>1. client[c].pc = "idle"
    BY DEF CallRun
  <2> QED BY <2>1, HereApt, HereType DEF Tidy, Clear, TypedClient
<1>2. Still(client[c], w)
  BY <1>1, StillFacts
<1>3. Act(AskFirst(S, c, "peers"))
  <2>1. [Here EXCEPT !.c[c].calls = @ + 1] = S
    BY <1>1 DEF Here
  <2> QED BY <2>1 DEF CallRun
<1> HIDE DEF w
<1>4. S = [Here EXCEPT !.c[c] = w]
  OBVIOUS
<1> HIDE DEF S
<1>5. Apt(S, daemon, c, "peers", 0) /\ Clear(S.c[c])
  <2>1. Still(Here.c[c], w) /\ Clear(Here.c[c])
    BY <1>1, <1>2
  <2>2. Apt(S, daemon, c, "peers", 0)
    BY <1>1, <1>4, <2>1, FitStill
  <2>3. S.c[c] = w
    BY <1>4, HereType DEF ClientSituation, Tidy
  <2>4. Clear(w)
    BY <2>1, ClearStill
  <2> QED BY <2>2, <2>3, <2>4
<1>6. Whole(AskFirst(S, c, "peers").c, AskFirst(S, c, "peers").n, daemon)
  BY <1>1, <1>5, FitFirst DEF Phase
<1> QED BY <1>3, <1>6, ActWhole

(* The watchdog is told: nobody reads from a line or writes to one.         *)
LEMMA SignalWhole ==
  ASSUME Tidy, NEW c \in Clients, Signal(c), daemon' = daemon
  PROVE  Whole(client', net', daemon')
<1> DEFINE k == client[c]
           w == [k EXCEPT !.signal = TRUE, !.watch = "fired"]
<1>1. net' = net /\ client \in [Clients -> Kind] /\ k \in Kind /\ Whole(client, net, daemon)
  BY DEF Signal, Tidy, TypedClient
<1>2. client' = [client EXCEPT ![c] = w]
  BY <1>1 DEF Signal
<1>3. /\ w.line = k.line /\ w.cache = k.cache /\ w.counter = k.counter /\ w.pc = k.pc /\ w.pos = k.pos
      /\ (w.established <=> k.established) /\ w.adding = k.adding /\ w.todo = k.todo
  BY <1>1 DEF Kind, ClientType
<1> HIDE DEF w
<1>4. client'[c] = w /\ \A b \in Clients : b # c => client'[b] = client[b]
  BY <1>1, <1>2
<1>5. Leased(client') = Leased(client)
  <2>1. \A b \in Clients : client'[b].line = client[b].line /\ client'[b].cache = client[b].cache
    BY <1>3, <1>4
  <2> QED BY <2>1 DEF Leased
<1>6. ASSUME NEW b \in Clients
      PROVE  Sound(client'[b], b, net, daemon) /\ Talks(client'[b], net, daemon)
  <2>1. Sound(client[b], b, net, daemon) /\ Talks(client[b], net, daemon)
    BY <1>1 DEF Whole
  <2>2. CASE b # c
    BY <1>4, <2>1, <2>2
  <2>3. CASE b = c
    <3>1. Owns(w, c, net)
      BY <1>3, <2>1, <2>3 DEF Owns, Holds, Sound
    <3>2. Shape(w)
      BY <1>3, <2>1, <2>3 DEF Shape, Sound
    <3>3. Aloof(w, net, daemon)
      BY <1>3, <2>1, <2>3 DEF Aloof, Sound
    <3>4. Talks(w, net, daemon)
      BY <1>3, <2>1, <2>3 DEF Talks, Stage
    <3> QED BY <1>4, <2>3, <3>1, <3>2, <3>3, <3>4 DEF Sound
  <2> QED BY <2>2, <2>3
<1> QED BY <1>1, <1>5, <1>6 DEF Whole

(* The call that the signal interrupts fails as after a timeout.            *)
LEMMA InterruptWhole ==
  ASSUME Tidy, NEW c \in Clients, Interrupt(c), daemon' = daemon
  PROVE  Whole(client', net', daemon')
<1> DEFINE k == client[c]
           w == Signalled(k)
<1>1. /\ Apt(Here, daemon, c, "peers", 0) /\ daemon \in [Daemons -> DaemonType]
      /\ k \in Kind /\ w \in Kind /\ Here.c = client
  BY HereApt, HereType, StruckType DEF Tidy, TypedClient
<1>2. Still(k, w)
  BY <1>1 DEF Still, Signalled, Kind, ClientType
<1>3. Act(Return(Struck(c), c)) /\ Struck(c) = [Here EXCEPT !.c[c] = w]
  BY DEF Interrupt, Struck
<1> HIDE DEF w
<1>4. Apt(Struck(c), daemon, c, "peers", 0)
  BY <1>1, <1>2, <1>3, FitStill
<1>5. Whole(Return(Struck(c), c).c, Return(Struck(c), c).n, daemon)
  BY <1>1, <1>4, FitReturn
<1> QED BY <1>3, <1>5, ActWhole

LEMMA EachView ==
  ASSUME NEW n \in NetType, NEW D \in [Daemons -> DaemonType], NEW K, Orderly(World(n, D), K),
         NEW h \in Hosts, Forming(D[Main(h)]), NEW E, \A x \in E : x[2] = "near",
         Other(Home(D[Main(h)])) \in E, NEW m \in Message
  PROVE  Adds(View(n, D[Main(h)]), View(SendEach(n, E, m), D[Main(h)]), m)
<1> DEFINE e == Home(D[Main(h)])
           x == Other(e)
           o == SendEach(n, E, m)
<1>1. e \in End /\ x \in End /\ Other(x) = e /\ e[2] = "far" /\ n.hold[e] = {Main(h)}
  BY SeatFacts
<1>2. o.box = [y \in End |-> IF Other(y) \in E /\ n.hold[y] # {} THEN Append(n.box[y], m) ELSE n.box[y]]
  BY DEF SendEach, NetType
<1>3. o.box[e] = Append(n.box[e], m)
  BY <1>1, <1>2
<1>4. o.box[x] = n.box[x]
  BY <1>1, <1>2
<1> HIDE DEF o
<1> QED BY <1>3, <1>4 DEF View, Adds, o

LEMMA FitSendDisconnect ==
  ASSUME NEW S, NEW D \in [Daemons -> DaemonType], NEW c \in Clients, Apt(S, D, c, "peers", 0),
         NEW U, U = SendDisconnect(S, c)
  PROVE  Whole(U.c, U.n, D)
<1> DEFINE E == SlaveLines(S.c[c])
           m == Msg("Disconnect")
           T == WithNet(S, SendEach(S.n, E, m))
           k == S.c[c]
<1>0. m \in Message /\ m.tag = "Disconnect"
  BY MsgIsMessage, CodeFacts DEF Msg
<1>1. /\ Sit(S, D, c) /\ Conv(k, S.n, D, "peers", 0) /\ S.n \in NetType /\ k \in Kind
      /\ Orderly(World(S.n, D), Leased(S.c)) /\ k.counter >= 1
  <2>1. Sit(S, D, c) /\ Conv(k, S.n, D, "peers", 0)
    BY DEF Apt
  <2>2. S.n \in NetType /\ k \in Kind
    BY <2>1, SitFacts
  <2> QED BY <2>1, <2>2 DEF Sit, Core
<1>2. U = Return(T, c) \/ U = Return([T EXCEPT !.c[c] = Forget(T.c[c])], c)
  BY DEF SendDisconnect, WithNet
<1>3. Tells(S, D, c, E, m)
  BY <1>0 DEF Tells
<1> HIDE DEF m
<1>6. E = SlaveLines(k)
  OBVIOUS
<1> HIDE DEF E
<1>7. T = WithNet(S, SendEach(S.n, E, m))
  OBVIOUS
<1> HIDE DEF T
<1>4. /\ Sit(T, D, c) /\ T.c = S.c /\ T.n = SendEach(S.n, E, m) /\ SameBut(S.n, T.n, D, {}, E)
      /\ \A x \in E : x[2] = "near"
  BY <1>1, <1>3, <1>7, SitSendEach
<1>5. Apt(T, D, c, "peers", 0)
  <2> SUFFICES ASSUME NEW h \in Hosts, Forming(D[Main(h)]), NEW r \in Ranks,
                      k.line[r] = Other(Home(D[Main(h)]))
               PROVE  ~k.established /\ Near("peers", 0, r, View(T.n, D[Main(h)]))
    BY <1>4 DEF Apt, Conv
  <2> DEFINE v == View(S.n, D[Main(h)])
             w == View(T.n, D[Main(h)])
             x == Other(Home(D[Main(h)]))
  <2>1. ~k.established /\ Near("peers", 0, r, v) /\ r \in Nat
    BY <1>1, RanksFacts DEF Conv
  <2>2. Chat(v) /\ x # NoEnd
    BY <1>1, SeatFacts
  <2>3. x \in E
    BY <1>6, <2>2 DEF SlaveLines, Slaves
  <2>4. Adds(v, w, m)
    BY <1>0, <1>1, <1>4, <2>3, EachView
  <2> HIDE DEF v, w
  <2>5. Loose(w)
    BY <1>0, <2>1, <2>2, <2>4, NearLoose, SaysMore
  <2> QED BY <2>1, <2>5 DEF Near, w
<1>8. CASE U = Return(T, c)
  BY <1>5, <1>8, FitReturn
<1>9. CASE U = Return([T EXCEPT !.c[c] = Forget(T.c[c])], c)
  <2> DEFINE w == Forget(k)
             V == [T EXCEPT !.c[c] = w]
  <2>1. w \in Kind /\ w.line = NoSlaves /\ w.cache = T.c[c].cache /\ w.counter >= 1
    BY <1>1, <1>4, ForgetFacts
  <2>2. U = Return(V, c)
    BY <1>4, <1>9
  <2> HIDE DEF w
  <2>3. V = [T EXCEPT !.c[c] = w]
    OBVIOUS
  <2> HIDE DEF V
  <2>4. Apt(V, D, c, "rest", 0)
    BY <1>4, <2>1, <2>3, SitForget
  <2> QED BY <2>2, <2>4, FitReturn
<1> QED BY <1>2, <1>8, <1>9

LEMMA RemoveAllWhole ==
  ASSUME Tidy, NEW c \in Clients, RemoveAll(c), daemon' = daemon
  PROVE  Whole(client', net', daemon')
<1> DEFINE w == [client[c] EXCEPT !.calls = client[c].calls + 1]
           S == [Here EXCEPT !.c[c] = w]
<1>1. /\ Apt(Here, daemon, c, "peers", 0) /\ daemon \in [Daemons -> DaemonType]
      /\ Here.c = client /\ client[c] \in Kind
  BY HereApt, HereType DEF Tidy, TypedClient
<1>2. Still(Here.c[c], w)
  BY <1>1, StillFacts
<1>3. Act(SendDisconnect(S, c))
  <2>1. [Here EXCEPT !.c[c].calls = @ + 1] = S
    BY <1>1 DEF Here
  <2> QED BY <2>1 DEF RemoveAll
<1> HIDE DEF w
<1>4. S = [Here EXCEPT !.c[c] = w]
  OBVIOUS
<1> HIDE DEF S
<1>5. Apt(S, daemon, c, "peers", 0)
  BY <1>1, <1>2, <1>4, FitStill
<1>6. Whole(SendDisconnect(S, c).c, SendDisconnect(S, c).n, daemon)
  BY <1>1, <1>5, FitSendDisconnect
<1> QED BY <1>3, <1>6, ActWhole

LEMMA DestroyWhole ==
  ASSUME Tidy, NEW c \in Clients, Destroy(c), daemon' = daemon
  PROVE  Whole(client', net', daemon')
<1> DEFINE k == client[c]
           w == [k EXCEPT !.final = TRUE]
           S == [Here EXCEPT !.c[c] = w]
<1>1. /\ Apt(Here, daemon, c, "peers", 0) /\ daemon \in [Daemons -> DaemonType]
      /\ Here.c = client /\ Here.n = net /\ k \in Kind /\ Clear(k)
  <2>1. k.pc = "idle"
    BY DEF Destroy
  <2> QED BY <2>1, HereApt, HereType DEF Tidy, Clear, TypedClient
<1>2. Still(Here.c[c], w) /\ Clear(w)
  BY <1>1, StillFacts, ClearStill
<1>3. Act(Gone(S, c)) \/ (k.established /\ Act(Dissolve(S, c))) \/ Act(SendDisconnect(S, c))
  <2>1. [Here EXCEPT !.c[c].final = TRUE] = S
    BY <1>1 DEF Here
  <2> QED BY <2>1 DEF Destroy
<1> HIDE DEF w
<1>4. S = [Here EXCEPT !.c[c] = w]
  OBVIOUS
<1> HIDE DEF S
<1>5. Apt(S, daemon, c, "peers", 0)
  BY <1>1, <1>2, <1>4, FitStill
<1>6. CASE Act(Gone(S, c))
  <2>1. Whole(Gone(S, c).c, Gone(S, c).n, daemon)
    BY <1>1, <1>5, FitGone DEF Apt
  <2> QED BY <1>6, <2>1, ActWhole
<1>7. CASE k.established /\ Act(Dissolve(S, c))
  <2>1. Apt(Here, daemon, c, "rest", 0)
    BY <1>1, <1>7 DEF Apt, Conv
  <2>2. Apt(S, daemon, c, "rest", 0)
    BY <1>1, <1>2, <1>4, <2>1, FitStill
  <2>3. Clear(S.c[c])
    <3>1. S.c[c] = w
      BY <1>4, HereType DEF ClientSituation, Tidy
    <3> QED BY <1>2, <3>1
  <2>4. Whole(Dissolve(S, c).c, Dissolve(S, c).n, daemon)
    BY <1>1, <2>2, <2>3, FitDissolve
  <2> QED BY <1>7, <2>4, ActWhole
<1>8. CASE Act(SendDisconnect(S, c))
  <2>1. Whole(SendDisconnect(S, c).c, SendDisconnect(S, c).n, daemon)
    BY <1>1, <1>5, FitSendDisconnect
  <2> QED BY <1>8, <2>1, ActWhole
<1> QED BY <1>3, <1>6, <1>7, <1>8

-----------------------------------------------------------------------------
(* The loop of run: what a client may leave unfinished is a round over its  *)
(* cached lines.                                                            *)
Rounds(k) ==
  /\ k.adding = NoEnd
  /\ \A r \in Ranks \ {0} : k.todo[r] = NoEnd \/ k.todo[r] = k.cache[r]
Probing(k) == Rounds(k) /\ (k.pc = "probe" \/ k.todo = NoSlaves)

(* Slave e answers: its record and the lines to the slaves stay, the round  *)
(* may end.                                                                 *)
Counted(k, w) ==
  /\ w \in Kind /\ w.line = k.line /\ w.cache = k.cache /\ w.counter = k.counter
  /\ (w.established <=> k.established) /\ w.adding = k.adding /\ w.pc = k.pc
  /\ w.todo = k.todo \/ w.todo = NoSlaves
LEMMA DoneFacts ==
  ASSUME NEW S \in ClientSituation, NEW c \in Clients
  PROVE  \E w : Counted(S.c[c], w) /\ Done(S, c) = [S EXCEPT !.c[c] = w]
<1> DEFINE k == S.c[c]
           done == S.c[c].done + 1
           full == done >= Cardinality(Slaves(S.c[c]))
           quit == S.c[c].quit \/ full
           todo == IF full THEN NoSlaves ELSE S.c[c].todo
           w == [k EXCEPT !.done = done, !.quit = quit, !.todo = todo]
<1>1. done \in Nat /\ k \in Kind
  BY ClientParts, KindBools
<1>2. todo \in [Ranks -> Ends0 \cup {Ear}] /\ (todo = k.todo \/ todo = NoSlaves)
  BY ClientParts, KindBools, NewClientType
<1>3. quit \in BOOLEAN
  OBVIOUS
<1>4. Done(S, c) = [S EXCEPT !.c[c].done = done, !.c[c].quit = @ \/ full,
                             !.c[c].todo = IF full THEN NoSlaves ELSE @]
  BY DEF Done
<1> HIDE DEF done, full
<1>5. Done(S, c) = [S EXCEPT !.c[c].done = done, !.c[c].quit = quit, !.c[c].todo = todo]
  BY <1>4 DEF ClientSituation, Kind, ClientType
<1> HIDE DEF quit, todo
<1>6. w \in Kind
  <2>1. [k EXCEPT !.done = done] \in Kind
    BY <1>1, KindWith
  <2>2. [k EXCEPT !.done = done, !.quit = quit] \in Kind
    BY <1>3, <2>1, KindWith
  <2> QED BY <1>2, <2>2, KindWith
<1>7. Counted(k, w)
  BY <1>1, <1>2, <1>6 DEF Counted, Kind, ClientType
<1>8. Done(S, c) = [S EXCEPT !.c[c] = w]
  BY <1>5 DEF ClientSituation
<1> QED BY <1>7, <1>8

LEMMA FitCounted ==
  ASSUME NEW S, NEW D \in [Daemons -> DaemonType], NEW c \in Clients, Apt(S, D, c, "rest", 0),
         Probing(S.c[c]), NEW U, U = Done(S, c)
  PROVE  Apt(U, D, c, "rest", 0) /\ Probing(U.c[c])
<1> DEFINE k == S.c[c]
<1>1. S \in ClientSituation /\ k.counter >= 1
  BY DEF Apt, Sit, Core
<1>2. PICK w : Counted(k, w) /\ Done(S, c) = [S EXCEPT !.c[c] = w]
  BY <1>1, DoneFacts
<1>3. U = [S EXCEPT !.c[c] = w] /\ w \in Kind
  BY <1>2 DEF Counted
<1>4. Suits(k, w, "rest")
  BY <1>1, <1>2 DEF Suits, Less, Counted
<1>5. Apt(U, D, c, "rest", 0)
  BY <1>3, <1>4, FitSet
<1>6. U.c[c] = w
  BY <1>1, <1>3 DEF ClientSituation
<1>7. Probing(w)
  BY <1>2 DEF Counted, Probing, Rounds, NoSlaves
<1> QED BY <1>5, <1>6, <1>7

LEMMA RestReceive ==
  ASSUME NEW S, NEW D \in [Daemons -> DaemonType], NEW c \in Clients, Apt(S, D, c, "rest", 0),
         NEW e \in End, S.n.hold[e] = {c}, NEW U, U = WithNet(S, Receive(S.n, e))
  PROVE  Apt(U, D, c, "rest", 0) /\ U.c = S.c
<1>1. Sit(S, D, c) /\ Conv(S.c[c], S.n, D, "rest", 0)
  BY DEF Apt
<1>0. Sit(S, D, c)
  BY <1>1
<1>2. Sit(U, D, c) /\ U.c = S.c /\ U.n = Receive(S.n, e) /\ SameBut(S.n, U.n, D, {e}, {})
  BY <1>0, SitReceive, SMTT(30)
<1>3. Conv(U.c[c], U.n, D, "rest", 0)
  BY <1>1, <1>2 DEF Conv, Near
<1> QED BY <1>2, <1>3 DEF Apt

(* A slave of the loop failed: the client forgets all of them.              *)
WithClient(S, c, w) == [S EXCEPT !.c[c] = w]
LEMMA FitReset ==
  ASSUME NEW S, NEW D \in [Daemons -> DaemonType], NEW c \in Clients, Sit(S, D, c), Probing(S.c[c]),
         NEW w, \/ w = ResetClient(S.c[c])
                \/ w = [ResetClient(S.c[c]) EXCEPT !.todo = NoSlaves],
         NEW U, U = WithClient(S, c, w)
  PROVE  Apt(U, D, c, "rest", 0) /\ Probing(U.c[c])
<1> DEFINE k == S.c[c]
           u == ResetClient(k)
<1>1. S \in ClientSituation /\ k \in Kind
  BY SitFacts
<1>2. /\ u \in Kind /\ u.line = NoSlaves /\ u.cache = k.cache /\ u.counter = 1 /\ u.adding = k.adding
      /\ u.todo = k.todo /\ u.pc = k.pc
  BY <1>1, ForgetFacts
<1> HIDE DEF u
<1>3. /\ w \in Kind /\ w.line = NoSlaves /\ w.cache = k.cache /\ w.counter = 1 /\ w.adding = k.adding
      /\ w.todo = k.todo \/ w.todo = NoSlaves
      /\ w.pc = k.pc
  <2>1. w = u \/ w = [u EXCEPT !.todo = NoSlaves]
    BY DEF u
  <2>2. CASE w = u
    BY <1>2, <2>2
  <2>3. CASE w = [u EXCEPT !.todo = NoSlaves]
    <3>1. w \in Kind
      <4>1. NoSlaves \in [Ranks -> Ends0 \cup {Ear}]
        BY NewClientType
      <4> QED BY <1>2, <2>3, <4>1, KindWith
    <3>2. /\ w.line = u.line /\ w.cache = u.cache /\ w.counter = u.counter /\ w.adding = u.adding
          /\ w.todo = NoSlaves /\ w.pc = u.pc
      BY <1>2, <2>3 DEF Kind, ClientType
    <3> QED BY <1>2, <3>1, <3>2
  <2> QED BY <2>1, <2>2, <2>3
<1>4. U = [S EXCEPT !.c[c] = w]
  BY DEF WithClient
<1>5. Apt(U, D, c, "rest", 0)
  BY <1>3, <1>4, SitForget
<1>6. U.c[c] = w
  BY <1>1, <1>4 DEF ClientSituation
<1>7. Probing(w)
  BY <1>3 DEF Probing, Rounds, NoSlaves
<1> QED BY <1>5, <1>6, <1>7

LEMMA FitProcess ==
  ASSUME NEW S, NEW D \in [Daemons -> DaemonType], NEW c \in Clients, Apt(S, D, c, "rest", 0),
         Probing(S.c[c]), NEW e \in End, S.n.hold[e] = {c}, NEW U, U = ProcessSlave(S, c, e)
  PROVE  Apt(U, D, c, "rest", 0) /\ Probing(U.c[c])
<1> DEFINE T == WithNet(S, Receive(S.n, e))
           k == S.c[c]
           w == [ResetClient(k) EXCEPT !.todo = NoSlaves]
           m == Msg("Renegade")
           E == SlaveLines(k)
           V == WithNet(T, SendEach(T.n, E, m))
<1>0. S \in ClientSituation /\ Sit(S, D, c)
  BY DEF Apt, Sit
<1>1. Apt(T, D, c, "rest", 0) /\ T.c = S.c
  <2>1. T = WithNet(S, Receive(S.n, e))
    OBVIOUS
  <2> HIDE DEF T
  <2> QED BY <2>1, RestReceive
<1>2. \/ U = WithClient(S, c, ResetClient(k))
      \/ U = Done(T, c)
      \/ U = WithClient(T, c, w)
      \/ U = WithNet(WithClient(T, c, w), SendEach(WithClient(T, c, w).n, E, m))
      \/ U = S
  <2>1. T.c[c] = k /\ [S EXCEPT !.n = Receive(@, e)] = T
    BY <1>1 DEF WithNet
  <2> QED BY <2>1 DEF ProcessSlave, WithClient, WithNet
<1>3. T \in ClientSituation /\ Sit(T, D, c) /\ Probing(T.c[c])
  BY <1>1 DEF Apt, Sit
<1> HIDE DEF T
<1>4. CASE U = WithClient(S, c, ResetClient(k))
  BY <1>0, <1>4, FitReset
<1>5. CASE U = Done(T, c)
  BY <1>1, <1>3, <1>5, FitCounted
<1>6. CASE U = WithClient(T, c, w)
  BY <1>1, <1>3, <1>6, FitReset
<1>7. CASE U = WithNet(WithClient(T, c, w), SendEach(WithClient(T, c, w).n, E, m))
  <2>1. m \in Message /\ m.tag \notin {"Enslave", "Join", "DataLine"}
    BY MsgIsMessage, CodeFacts DEF Msg
  <2>2. E \subseteq SlaveLines(T.c[c])
    BY <1>1
  <2>3. V = WithNet(T, SendEach(T.n, E, m))
    OBVIOUS
  <2> HIDE DEF V, E, m
  <2>4. Apt(V, D, c, "rest", 0) /\ V.c = T.c /\ V.n = SendEach(T.n, E, m)
    BY <1>1, <2>1, <2>2, <2>3, FitSendEach
  <2>5. Sit(V, D, c) /\ Probing(V.c[c]) /\ V.c[c] = k
    BY <1>1, <1>3, <2>4 DEF Apt
  <2>6. U = WithClient(V, c, w)
    <3>1. V = [T EXCEPT !.n = SendEach(T.n, E, m)]
      BY <2>3 DEF WithNet
    <3> HIDE DEF w
    <3>2. WithClient(T, c, w).n = T.n
      BY <1>3 DEF WithClient, ClientSituation
    <3> QED BY <1>3, <1>7, <3>1, <3>2 DEF WithClient, WithNet, ClientSituation
  <2> QED BY <2>5, <2>6, FitReset
<1>8. CASE U = S
  BY <1>8
<1> QED BY <1>2, <1>4, <1>5, <1>6, <1>7, <1>8

LEMMA FitEndRound ==
  ASSUME NEW S, NEW D \in [Daemons -> DaemonType], NEW c \in Clients, Apt(S, D, c, "rest", 0),
         Probing(S.c[c]), NEW U, U = EndRound(S, c)
  PROVE  Whole(U.c, U.n, D)
<1> DEFINE k == S.c[c]
<1>1. /\ k.adding = NoEnd /\ (k.pc = "probe" \/ k.todo = NoSlaves)
      /\ \A r \in Ranks \ {0} : k.todo[r] = NoEnd \/ k.todo[r] = k.cache[r]
  BY DEF Probing, Rounds
<1>2. CASE U = S
  BY <1>1, <1>2, SitProbe
<1>3. CASE k.todo = NoSlaves /\ U = Dissolve(S, c)
  <2>1. Clear(k)
    BY <1>1, <1>3 DEF Clear
  <2> QED BY <1>3, <2>1, FitDissolve
<1>4. CASE U = Tidied(S, c)
  BY <1>1, <1>4, FitKept
<1> QED BY <1>2, <1>3, <1>4 DEF EndRound, Tidied

(* The channel of rank r is taken off the round.                            *)
Round(k) == IF k.todo # NoSlaves THEN k.todo ELSE ReadySlaves(k)
Without(t, r) == [t EXCEPT ![r] = NoEnd]
Heeded(k, r) == [k EXCEPT !.todo = Without(Round(k), r)]
Rung(k) == [k EXCEPT !.pc = "alarm", !.quit = TRUE, !.left = Names(k)]
LEMMA TakenFacts ==
  ASSUME NEW k \in Kind, Shape(k), k.pc = "probe", NEW r \in Ranks, NEW w, w = Heeded(k, r)
  PROVE  /\ \A q \in Ranks \ {0} : Round(k)[q] = NoEnd \/ Round(k)[q] = k.cache[q]
         /\ w \in Kind /\ w.line = k.line /\ w.cache = k.cache /\ w.counter = k.counter
         /\ (w.established <=> k.established) /\ w.adding = k.adding /\ w.pc = k.pc /\ w.host = k.host
         /\ w.todo = Without(Round(k), r)
         /\ k.adding = NoEnd => Probing(w)
         /\ (\A q \in Ranks \ {0} : q # r => Round(k)[q] = NoEnd) /\ r = 0 => w.todo = NoSlaves
<1>1. /\ k.todo \in [Ranks -> Ends0 \cup {Ear}] /\ ReadySlaves(k) \in [Ranks -> Ends0 \cup {Ear}]
      /\ \A q \in Ranks \ {0} : k.todo[q] = NoEnd \/ k.todo[q] = k.cache[q]
  BY KindBools, ReadySlavesType DEF Shape
<1>2. \A q \in Ranks \ {0} : ReadySlaves(k)[q] = NoEnd \/ ReadySlaves(k)[q] = k.cache[q]
  BY DEF ReadySlaves
<1>3. /\ Round(k) \in [Ranks -> Ends0 \cup {Ear}]
      /\ \A q \in Ranks \ {0} : Round(k)[q] = NoEnd \/ Round(k)[q] = k.cache[q]
  BY <1>1, <1>2 DEF Round
<1> DEFINE t == Round(k)
           u == Without(t, r)
<1>4. NoEnd \in Ends0
  BY NewClientType
<1> HIDE DEF t
<1>5. /\ u \in [Ranks -> Ends0 \cup {Ear}] /\ u[r] = NoEnd /\ \A q \in Ranks : q # r => u[q] = t[q]
  BY <1>3, <1>4 DEF Without, t
<1> HIDE DEF u
<1>6. w = [k EXCEPT !.todo = u]
  BY DEF Heeded, u, t
<1>7. w \in Kind
  <2>1. u \in [Ranks -> Ends0 \cup {Ear}]
    BY <1>5
  <2>2. [k EXCEPT !.todo = u] \in Kind
    BY <2>1, KindWith
  <2> QED BY <1>6, <2>2
<1>8. /\ w.line = k.line /\ w.cache = k.cache /\ w.counter = k.counter
      /\ (w.established <=> k.established) /\ w.adding = k.adding /\ w.pc = k.pc /\ w.host = k.host
      /\ w.todo = u
  BY <1>6 DEF Kind, ClientType
<1>9. \A q \in Ranks \ {0} : u[q] = NoEnd \/ u[q] = k.cache[q]
  BY <1>3, <1>5 DEF t
<1>10. k.adding = NoEnd => Probing(w)
  BY <1>8, <1>9 DEF Probing, Rounds
<1>11. (\A q \in Ranks \ {0} : q # r => t[q] = NoEnd) /\ r = 0 => w.todo = NoSlaves
  <2> SUFFICES ASSUME \A q \in Ranks \ {0} : q # r => t[q] = NoEnd, r = 0 PROVE u = NoSlaves
    BY <1>8
  <2>1. \A q \in Ranks : u[q] = NoEnd
    BY <1>5
  <2> QED BY <1>5, <2>1 DEF NoSlaves
<1> QED BY <1>3, <1>7, <1>8, <1>10, <1>11 DEF t, u

LEMMA RungFacts ==
  ASSUME NEW k \in Kind, NEW w, w = Rung(k)
  PROVE  /\ w \in Kind /\ w.line = k.line /\ w.cache = k.cache /\ w.counter = k.counter
         /\ (w.established <=> k.established) /\ w.adding = k.adding /\ w.todo = k.todo
<1>1. Names(k) \in SUBSET Hosts /\ "alarm" \in ClientPc \ {"add"}
  BY NamesType DEF ClientPc
<1>2. w \in Kind
  <2>1. [k EXCEPT !.pc = "alarm"] \in Kind
    BY <1>1, KindWith
  <2>2. [k EXCEPT !.pc = "alarm", !.quit = TRUE] \in Kind
    BY <2>1, KindWith
  <2> QED BY <1>1, <2>2, KindWith DEF Rung
<1> QED BY <1>2 DEF Rung, Kind, ClientType

RungAt(T, c, N) == [T EXCEPT !.c[c].pc = "alarm", !.c[c].quit = TRUE, !.c[c].left = N]
RungWith(w, N) == [w EXCEPT !.pc = "alarm", !.quit = TRUE, !.left = N]
LEMMA RungStep ==
  ASSUME NEW S \in ClientSituation, NEW c \in Clients, NEW w \in Kind, NEW T, T = [S EXCEPT !.c[c] = w], NEW N
  PROVE  RungAt(T, c, N) = WithClient(S, c, RungWith(w, N))
<1> DEFINE u == [w EXCEPT !.pc = "alarm"]
           v == [u EXCEPT !.quit = TRUE]
           x == [v EXCEPT !.left = N]
           A == [T EXCEPT !.c[c].pc = "alarm"]
           B == [A EXCEPT !.c[c].quit = TRUE]
           C == [B EXCEPT !.c[c].left = N]
<1>0. x = RungWith(w, N)
  BY DEF RungWith
<1>1. A = [S EXCEPT !.c[c] = u]
  BY DEF ClientSituation
<1>5. C = RungAt(T, c, N)
  BY DEF RungAt
<1> HIDE DEF A, u
<1>2. B = [S EXCEPT !.c[c] = v]
  BY <1>1 DEF ClientSituation
<1> HIDE DEF B, v
<1>3. C = [S EXCEPT !.c[c] = x]
  BY <1>2 DEF ClientSituation
<1> HIDE DEF C, x
<1> QED BY <1>0, <1>3, <1>5 DEF WithClient

LEMMA ProbeWhole ==
  ASSUME Tidy, NEW c \in Clients, Probe(c), daemon' = daemon
  PROVE  Whole(client', net', daemon')
<1> DEFINE k == client[c]
           round == Round(k)
           S(r) == [Here EXCEPT !.c[c].todo = Without(round, r)]
           R(r) == [S(r) EXCEPT !.c[c].pc = "alarm", !.c[c].quit = TRUE, !.c[c].left = Names(k)]
<1>1. /\ daemon \in [Daemons -> DaemonType] /\ Here.c = client /\ Here.n = net /\ Here \in ClientSituation
      /\ k \in Kind /\ k.pc = "probe" /\ Sound(k, c, net, daemon) /\ Shape(k)
  BY HereType DEF Tidy, TypedClient, Probe, Whole, Sound
<1>2. Apt(Here, daemon, c, "rest", 0) /\ k.adding = NoEnd
  BY <1>1, HereApt DEF Tidy, FormPhase
<1>3. PICK r \in Ranks :
        /\ round[r] # NoEnd
        /\ \A q \in Ranks \ {0} : (q < r \/ r = 0) /\ q # r => round[q] = NoEnd
        /\ IF r # 0 THEN Act(EndRound(ProcessSlave(S(r), c, round[r]), c)) ELSE Act(R(r))
  <2> DEFINE t == IF k.todo # NoSlaves THEN k.todo ELSE ReadySlaves(k)
             Q(r) == [Here EXCEPT !.c[c].todo = [t EXCEPT ![r] = NoEnd]]
  <2>1. \E r \in Ranks :
          /\ t[r] # NoEnd
          /\ \A q \in Ranks \ {0} : (q < r \/ r = 0) /\ q # r => t[q] = NoEnd
          /\ IF r # 0 THEN Act(EndRound(ProcessSlave(Q(r), c, t[r]), c))
             ELSE Act([Q(r) EXCEPT !.c[c].pc = "alarm", !.c[c].quit = TRUE, !.c[c].left = Names(k)])
    BY Zenon DEF Probe
  <2>2. t = round
    BY DEF Round
  <2> HIDE DEF t
  <2>3. \A r : Q(r) = S(r)
    BY <2>2 DEF Without
  <2> HIDE DEF Q, S, round
  <2> QED BY <2>1, <2>2, <2>3, Zenon
<1> DEFINE w == Heeded(k, r)
           T == S(r)
<1>4. /\ \A q \in Ranks \ {0} : round[q] = NoEnd \/ round[q] = k.cache[q]
      /\ w \in Kind /\ w.line = k.line /\ w.cache = k.cache /\ w.counter = k.counter
      /\ (w.established <=> k.established) /\ w.adding = k.adding /\ w.pc = k.pc /\ w.host = k.host
      /\ Probing(w)
      /\ (\A q \in Ranks \ {0} : q # r => round[q] = NoEnd) /\ r = 0 => w.todo = NoSlaves
  BY <1>1, <1>2, TakenFacts
<1>5. T = [Here EXCEPT !.c[c] = w]
  BY <1>1 DEF Heeded
<1>6. Names(k) = Names(w)
  BY <1>4 DEF Names, Slaves
<1> HIDE DEF w, round
<1>7. Suits(k, w, "rest")
  BY <1>1, <1>4 DEF Suits, Less, Shape
<1>8. T.c[c] = w /\ T.n = net
  BY <1>1, <1>5 DEF ClientSituation
<1>9. CASE r # 0
  <2> DEFINE e == round[r]
             V == ProcessSlave(T, c, e)
  <2>1. e = k.cache[r] /\ e # NoEnd
    BY <1>3, <1>4, <1>9
  <2>2. e \in End /\ net.hold[e] = {c}
    BY <1>1, <2>1, SoundHolds
  <2>3. Act(EndRound(V, c))
    BY <1>3, <1>9
  <2> HIDE DEF T, e
  <2>4. Apt(T, daemon, c, "rest", 0)
    BY <1>1, <1>2, <1>4, <1>5, <1>7, FitSet
  <2>5. Apt(V, daemon, c, "rest", 0) /\ Probing(V.c[c])
    BY <1>1, <1>4, <1>8, <2>2, <2>4, FitProcess
  <2> HIDE DEF V
  <2>6. Whole(EndRound(V, c).c, EndRound(V, c).n, daemon)
    BY <1>1, <2>5, FitEndRound
  <2> QED BY <2>3, <2>6, ActWhole
<1>10. CASE r = 0
  <2> DEFINE x == Rung(w)
             V == [Here EXCEPT !.c[c] = x]
  <2>1. Act(R(r))
    BY <1>3, <1>10
  <2>2. w.todo = NoSlaves
    BY <1>3, <1>4, <1>10
  <2>3. R(r) = V
    <3>1. R(r) = RungAt(T, c, Names(w))
      BY <1>6 DEF RungAt
    <3> HIDE DEF T, R
    <3>2. R(r) = WithClient(Here, c, RungWith(w, Names(w)))
      BY <1>1, <1>4, <1>5, <3>1, RungStep
    <3> QED BY <3>2 DEF Rung, RungWith, WithClient
  <2>4. /\ x \in Kind /\ x.line = w.line /\ x.cache = w.cache /\ x.counter = w.counter
        /\ (x.established <=> w.established) /\ x.adding = w.adding /\ x.todo = w.todo
    BY <1>4, RungFacts
  <2> HIDE DEF x
  <2>5. Suits(k, x, "rest")
    BY <1>4, <1>7, <2>4 DEF Suits, Less
  <2>6. V = [Here EXCEPT !.c[c] = x]
    OBVIOUS
  <2>7. V.c[c] = x
    BY <1>1 DEF ClientSituation
  <2> HIDE DEF V
  <2>8. Apt(V, daemon, c, "rest", 0)
    BY <1>1, <1>2, <2>4, <2>5, <2>6, FitSet
  <2>9. x.adding = NoEnd /\ x.todo = NoSlaves /\ \A q \in Ranks \ {0} : x.todo[q] = NoEnd
    BY <1>2, <1>4, <2>2, <2>4 DEF NoSlaves
  <2>10. Whole(V.c, V.n, daemon)
    BY <1>1, <2>7, <2>8, <2>9, SitProbe
  <2>11. Act(V)
    BY <2>1, <2>3
  <2> QED BY <2>10, <2>11, ActWhole
<1> QED BY <1>9, <1>10

-----------------------------------------------------------------------------
(* A new line to a daemon.                                                  *)
Opens(n, o, l, who, h, m) ==
  /\ FreeLines(n) # {} /\ l = NewLine(n) /\ who \in SUBSET Clients /\ h \in Hosts /\ m \in Message
  /\ m.tag \notin ClientCode \cup {"Join", "DataLine"}
  /\ o = Connect(n, l, who, h, m)
LEMMA OpensWhole ==
  ASSUME NEW n \in NetType, NEW D \in [Daemons -> DaemonType], NEW C, Whole(C, n, D),
         NEW o, NEW l, NEW who, NEW h, NEW m, Opens(n, o, l, who, h, m)
  PROVE  /\ Whole(C, o, D)
         /\ o.hold[<<l, "near">>] = who /\ <<l, "near">> \in End
         /\ \A c \in Clients : \A r \in Ranks : C[c].line[r] # <<l, "near">> /\ C[c].cache[r] # <<l, "near">>
         /\ \A g \in Hosts : Forming(D[Main(g)]) => Other(Home(D[Main(g)])) # <<l, "near">>
<1> DEFINE S == World(n, D)
           U == World(o, D)
           K == Leased(C)
           near == <<l, "near">>
           far == <<l, "far">>
<1>1. S \in Situation /\ S.n = n /\ S.d = D /\ U.n = o /\ U.d = D /\ U = [S EXCEPT !.n = o]
  BY WorldFacts DEF World
<1>2. FreeLines(n) # {} /\ l = NewLine(n) /\ who \in SUBSET Clients /\ h \in Hosts /\ m \in Message
      /\ m.tag \notin ClientCode \cup {"Join", "DataLine"} /\ o = Connect(n, l, who, h, m)
  BY DEF Opens
<1>3. Links(S, U, {}, l, who, h, m)
  <2>1. who \in SUBSET Procs /\ who \cap Daemons = {}
    BY <1>2, ClientsApart
  <2> HIDE DEF S, U
  <2> QED BY <1>1, <1>2, <2>1 DEF Links
<1>4. \A x \in K : n.hold[x] # {} /\ x \in End
  BY LeasedHolds DEF Whole
<1>5. Linked(S, U, l, who, h, m)
  BY <1>3, LinkNet
<1> HIDE DEF S, U, K
<1>6. Orderly(U, K)
  <2>1. Orderly(S, K)
    BY DEF Whole, S, K
  <2>2. Wired(S, Main(h), {}, {}, K, {}, Sight(S))
    BY <2>1, OrderlySight
  <2>3. Main(h) \in Daemons /\ {} \in SUBSET Hosts /\ \A x \in K : S.n.hold[x] # {}
    BY <1>1, <1>2, <1>4, ProcsFacts
  <2>4. Wired(U, Main(h), {}, {}, K, {}, Sight(S))
    BY <1>3, <2>2, <2>3, LinkWired
  <2> QED BY <2>4, OrderlyOf
<1> HIDE DEF near, far
<1>7. /\ near \in End /\ n.hold[near] = {} /\ n.hold[far] = {} /\ o.hold[near] = who
      /\ \A x \in End : x # near /\ x # far =>
            /\ Other(x) # near /\ Other(x) # far /\ Other(x) \in End
            /\ o.hold[x] = n.hold[x] /\ o.box[x] = n.box[x]
  BY <1>1, <1>5 DEF Linked, near, far
<1>8. ASSUME NEW g \in Hosts, Forming(D[Main(g)])
      PROVE  View(o, D[Main(g)]) = View(n, D[Main(g)]) /\ Other(Home(D[Main(g)])) # near
  <2> DEFINE e == Home(D[Main(g)])
  <2>1. e \in End /\ n.hold[e] = {Main(g)}
    BY <1>8, SeatFacts DEF Whole
  <2>2. e # near /\ e # far
    BY <1>7, <2>1
  <2>3. o.box[e] = n.box[e] /\ o.box[Other(e)] = n.box[Other(e)] /\ Other(e) # near
    BY <1>7, <2>1, <2>2
  <2> QED BY <2>3 DEF View
<1>9. ASSUME NEW c \in Clients
      PROVE  /\ Sound(C[c], c, o, D) /\ Talks(C[c], o, D)
             /\ \A r \in Ranks : C[c].line[r] # near /\ C[c].cache[r] # near
  <2> DEFINE k == C[c]
  <2>1. Sound(k, c, n, D) /\ Talks(k, n, D)
    BY DEF Whole
  <2>2. \A e \in Holds(k) \ {NoEnd} : e \in End /\ n.hold[e] = {c} /\ e[2] = "near" /\ e # near /\ e # far
    BY <1>7, <2>1 DEF Sound, Owns
  <2>3. Owns(k, c, o)
    BY <1>7, <2>2 DEF Owns
  <2>4. \A r \in Ranks : k.line[r] # near /\ k.cache[r] # near
    <3>1. near # NoEnd
      BY <1>7, NoEndIsNoEnd
    <3> QED BY <2>2, <3>1 DEF Holds
  <2> HIDE DEF k
  <2>5. Aloof(k, o, D)
    BY <1>8, <2>1 DEF Aloof, Sound
  <2>6. Talks(k, o, D)
    BY <1>8, <2>1 DEF Talks
  <2> QED BY <2>1, <2>3, <2>4, <2>5, <2>6 DEF Sound, k
<1>10. Whole(C, o, D)
  BY <1>6, <1>9 DEF Whole, U, K
<1> QED BY <1>7, <1>8, <1>9, <1>10 DEF near

(* The record of one client changes, its lines and its cache do not.        *)
LEMMA ChangeWhole ==
  ASSUME NEW C \in [Clients -> Kind], NEW n, NEW D, Whole(C, n, D), NEW c \in Clients, NEW w,
         w.line = C[c].line, w.cache = C[c].cache, Sound(w, c, n, D), Talks(w, n, D),
         NEW B, B = SetRecord(C, c, w)
  PROVE  Whole(B, n, D)
<1>1. B[c] = w /\ \A b \in Clients : b # c => B[b] = C[b]
  BY DEF SetRecord
<1>2. Leased(B) = Leased(C)
  <2>1. \A b \in Clients : B[b].line = C[b].line /\ B[b].cache = C[b].cache
    BY <1>1
  <2> QED BY <2>1 DEF Leased
<1>3. \A b \in Clients : Sound(B[b], b, n, D) /\ Talks(B[b], n, D)
  BY <1>1 DEF Whole
<1> QED BY <1>2, <1>3 DEF Whole

LEMMA OperatorWhole ==
  ASSUME Tidy, NEW h \in Hosts, NEW code \in Code \cap {"None", "Status", "Shutdown", "ForceShutdown", "ForceReset"},
         Operator(h, code)
  PROVE  Whole(client', net', daemon')
<1>1. /\ net \in NetType /\ daemon \in [Daemons -> DaemonType] /\ Whole(client, net, daemon)
      /\ daemon' = daemon /\ client' = client
  BY DEF Tidy, TypedClient, NetTypeOK, Operator
<1>2. Msg(code) \in Message /\ Msg(code).tag = code
  BY MsgIsMessage DEF Msg
<1>3. Opens(net, net', NewLine(net), {}, h, Msg(code))
  BY <1>2 DEF Opens, Operator, FreeLine, ClientCode
<1>4. Whole(client, net', daemon)
  BY <1>1, <1>3, OpensWhole
<1> QED BY <1>1, <1>4

LEMMA AddWhole ==
  ASSUME Tidy, NEW c \in Clients, NEW h \in Hosts, Add(c, h), daemon' = daemon
  PROVE  Whole(client', net', daemon')
<1> DEFINE k == client[c]
           l == NewLine(net)
           e == <<l, "near">>
           m == MsgArg("Enslave", k.counter)
           w == [k EXCEPT !.pc = "add", !.adding = e, !.target = h]
<1>1. /\ net \in NetType /\ daemon \in [Daemons -> DaemonType] /\ client \in [Clients -> Kind] /\ k \in Kind
      /\ Whole(client, net, daemon)
  BY DEF Tidy, TypedClient, NetTypeOK
<1>2. /\ k.pc = "idle" /\ ~k.established /\ FreeLines(net) # {}
      /\ client' = [client EXCEPT ![c] = w] /\ net' = Connect(net, l, {c}, h, m)
  BY DEF Add, FreeLine
<1>3. m \in Message /\ m.tag = "Enslave"
  BY <1>1, KindBools, MsgArgIsMessage, CodeFacts DEF MsgArg, Msg
<1>4. Opens(net, net', l, {c}, h, m)
  BY <1>2, <1>3 DEF Opens, ClientCode
<1>5. /\ Whole(client, net', daemon)
      /\ net'.hold[e] = {c} /\ e \in End
      /\ \A b \in Clients : \A r \in Ranks : client[b].line[r] # e /\ client[b].cache[r] # e
      /\ \A g \in Hosts : Forming(daemon[Main(g)]) => Other(Home(daemon[Main(g)])) # e
  BY <1>1, <1>4, OpensWhole
<1>6. e[2] = "near"
  OBVIOUS
<1> HIDE DEF e
<1>7. /\ w.line = k.line /\ w.cache = k.cache /\ w.counter = k.counter /\ w.pc = "add" /\ w.pos = k.pos
      /\ (w.established <=> k.established) /\ w.adding = e /\ w.todo = k.todo
  BY <1>1 DEF Kind, ClientType
<1> HIDE DEF w, m
<1>8. Sound(k, c, net', daemon) /\ Talks(k, net', daemon)
  BY <1>5 DEF Whole
<1>9. Owns(w, c, net')
  <2>1. Holds(w) \subseteq Holds(k) \cup {e}
    BY <1>7 DEF Holds
  <2> QED BY <1>5, <1>6, <1>8, <2>1 DEF Owns, Sound
<1>10. Shape(w)
  BY <1>2, <1>5, <1>7, <1>8 DEF Shape, Sound
<1>11. Aloof(w, net', daemon)
  BY <1>5, <1>7, <1>8 DEF Aloof, Sound
<1>12. Talks(w, net', daemon)
  BY <1>2, <1>7, <1>8 DEF Talks, Stage
<1>13. Sound(w, c, net', daemon)
  BY <1>9, <1>10, <1>11 DEF Sound
<1>14. client' = SetRecord(client, c, w)
  BY <1>2 DEF SetRecord
<1>15. Whole(client', net', daemon)
  BY <1>1, <1>5, <1>7, <1>12, <1>13, <1>14, ChangeWhole
<1> QED BY <1>15

LEMMA AlarmWhole ==
  ASSUME Tidy, NEW c \in Clients, Alarm(c), daemon' = daemon
  PROVE  Whole(client', net', daemon')
<1> DEFINE k == client[c]
           l == NewLine(net)
           m == Msg("ForceReset")
<1>1. /\ net \in NetType /\ daemon \in [Daemons -> DaemonType] /\ client \in [Clients -> Kind] /\ k \in Kind
      /\ Whole(client, net, daemon) /\ FreeLines(net) # {} /\ k.pc = "alarm"
  BY DEF Tidy, TypedClient, NetTypeOK, Alarm, FreeLine
<1>2. Apt(Here, daemon, c, "rest", 0) /\ Clear(Here.c[c])
  <2>1. Apt(Here, daemon, c, "rest", 0) /\ Clear(k)
    BY <1>1, HereApt DEF Tidy, Clear, FormPhase
  <2> QED BY <2>1, HereType DEF Tidy
<1>3. \/ Act(Dissolve(Here, c))
      \/ Act(Return(Here, c))
      \/ \E h \in k.left : /\ client' = [client EXCEPT ![c].left = k.left \ {h}]
                           /\ net' = Connect(net, l, {}, h, m)
  BY DEF Alarm, Act
<1>4. CASE Act(Dissolve(Here, c))
  <2>1. Whole(Dissolve(Here, c).c, Dissolve(Here, c).n, daemon)
    BY <1>1, <1>2, FitDissolve
  <2> QED BY <1>4, <2>1, ActWhole
<1>5. CASE Act(Return(Here, c))
  <2>1. Whole(Return(Here, c).c, Return(Here, c).n, daemon)
    BY <1>1, <1>2, FitReturn
  <2> QED BY <1>5, <2>1, ActWhole
<1>6. CASE \E h \in k.left : /\ client' = [client EXCEPT ![c].left = k.left \ {h}]
                             /\ net' = Connect(net, l, {}, h, m)
  <2>1. PICK h \in k.left : /\ client' = [client EXCEPT ![c].left = k.left \ {h}]
                            /\ net' = Connect(net, l, {}, h, m)
    BY <1>6
  <2> DEFINE w == [k EXCEPT !.left = k.left \ {h}]
  <2>2. h \in Hosts /\ m \in Message /\ m.tag = "ForceReset"
    BY <1>1, KindBools, MsgIsMessage, CodeFacts DEF Msg
  <2>3. Opens(net, net', l, {}, h, m)
    BY <1>1, <2>1, <2>2 DEF Opens, ClientCode
  <2>4. Whole(client, net', daemon)
    BY <1>1, <2>3, OpensWhole
  <2>5. /\ w.line = k.line /\ w.cache = k.cache /\ w.counter = k.counter /\ w.pc = k.pc /\ w.pos = k.pos
        /\ (w.established <=> k.established) /\ w.adding = k.adding /\ w.todo = k.todo
    BY <1>1 DEF Kind, ClientType
  <2>6. client' = SetRecord(client, c, w)
    BY <2>1 DEF SetRecord
  <2> HIDE DEF w
  <2>7. Sound(k, c, net', daemon) /\ Talks(k, net', daemon)
    BY <2>4 DEF Whole
  <2>8. Owns(w, c, net')
    BY <2>5, <2>7 DEF Owns, Holds, Sound
  <2>9. Shape(w)
    BY <2>5, <2>7 DEF Shape, Sound
  <2>10. Aloof(w, net', daemon)
    BY <2>5, <2>7 DEF Aloof, Sound
  <2>11. Talks(w, net', daemon)
    BY <2>5, <2>7 DEF Talks, Stage
  <2>12. Sound(w, c, net', daemon)
    BY <2>8, <2>9, <2>10 DEF Sound
  <2>13. Whole(client', net', daemon)
    BY <1>1, <2>4, <2>5, <2>6, <2>11, <2>12, ChangeWhole
  <2> QED BY <2>13
<1> QED BY <1>3, <1>4, <1>5, <1>6

(* The client reads the first OK on a line: it may ask for anything.        *)
LEMMA AskingHeard ==
  ASSUME NEW v, NEW w, Chat(v), Reads(v, w), Asking(v)
  PROVE  Loose(w)
<1>1. /\ w.a = Tail(v.a) /\ w.b = v.b /\ ~w.blocked /\ ~w.formed
      /\ Len(v.b) = 0 /\ Len(v.a) = 1 /\ v.a \in Seq(Message) /\ v.b \in Seq(Message)
  BY DEF Reads, Asking, Chat
<1>2. Len(w.a) = 0 /\ Len(w.b) = 0 /\ w.b = <<>>
  BY <1>1, SeqFacts
<1>3. Pending(w) = 0
  <2>1. Pending(w) = Len(w.a) + Len(w.b)
    BY <1>1, PendingSum
  <2> QED BY <1>2, <2>1
<1>4. Entering(w)
  BY <1>1, <1>2 DEF Entering
<1> QED BY <1>3, <1>4 DEF Loose

LEMMA OrderlyMore ==
  ASSUME NEW S, NEW K, Orderly(S, K), NEW e, NEW L, L \subseteq K \cup {e},
         \A h \in Hosts : \A q \in Queue(S.n, h) : Other(q) # e
  PROVE  Orderly(S, L)
<1>1. Queued(S, {}, K)
  BY WiredOwned DEF Orderly
<1>2. Queued(S, {}, L)
  BY <1>1 DEF Queued
<1> QED BY <1>2 DEF Orderly, Wired

LEMMA AddedWhole ==
  ASSUME Tidy, NEW c \in Clients, Added(c), daemon' = daemon
  PROVE  Whole(client', net', daemon')
<1> DEFINE k == client[c]
           e == k.adding
           o == Receive(net, e)
           S == WithNet(Here, o)
           w == Slave(k)
           T == [S EXCEPT !.c[c] = w]
<1>1. /\ net \in NetType /\ daemon \in [Daemons -> DaemonType] /\ client \in [Clients -> Kind] /\ k \in Kind
      /\ Orderly(World(net, daemon), Leased(client)) /\ Sound(k, c, net, daemon)
      /\ Here.c = client /\ Here.n = net
  BY HereType DEF Tidy, TypedClient, NetTypeOK, Whole
<1>2. /\ k.pc = "add" /\ Readable(net, e)
      /\ Act(Return(IF Peek(net, e).tag = "OK" THEN T ELSE S, c))
  <2>1. S = [Here EXCEPT !.n = o]
    BY DEF WithNet
  <2>2. o = Receive(Here.n, e)
    BY <1>1
  <2> QED BY <2>1, <2>2 DEF Added, Slave
<1>3. /\ e \in End /\ e # NoEnd /\ net.hold[e] = {c} /\ e[2] = "near"
  <2>1. e \in End /\ e # NoEnd
    BY <1>2, NoEndIsNoEnd DEF Readable
  <2> QED BY <1>1, <2>1, SoundHolds
<1>4. /\ ~k.established /\ k.line[0] = NoEnd /\ k.counter >= 1
      /\ \A r \in Ranks : k.line[r] # e /\ k.cache[r] # e
      /\ \A r, q \in Ranks : k.line[r] = k.line[q] /\ k.line[r] # NoEnd => r = q
  BY <1>1, <1>3 DEF Sound, Shape
<1>5. Sit(Here, daemon, c) /\ Conv(k, net, daemon, "peers", 0)
  <2>1. Apt(Here, daemon, c, "peers", 0)
    BY HereApt DEF Tidy
  <2> QED BY <1>1, <2>1 DEF Apt
<1>6. /\ w \in Kind /\ w.line = [k.line EXCEPT ![k.counter] = e] /\ w.cache = k.cache
      /\ w.counter = k.counter + 1 /\ (w.established <=> k.established)
  BY <1>1, <1>2, SlaveFacts
<1> HIDE DEF w
<1>7. S = WithNet(Here, Receive(Here.n, e)) /\ Here.n.hold[e] = {c} /\ T = [S EXCEPT !.c[c] = w]
  BY <1>1, <1>3
<1> HIDE DEF e, o, S
<1>8. Sit(S, daemon, c) /\ S.c = client /\ S.n = o /\ SameBut(net, o, daemon, {e}, {})
  <2>1. /\ Sit(S, daemon, c) /\ S.c = Here.c /\ S.n = Receive(Here.n, e)
        /\ SameBut(Here.n, S.n, daemon, {e}, {})
    BY <1>1, <1>3, <1>5, <1>7, SitReceive
  <2> QED BY <1>1, <2>1 DEF o
<1>9. ASSUME NEW h \in Hosts, Forming(daemon[Main(h)]), NEW r \in Ranks, k.line[r] = Other(Home(daemon[Main(h)]))
      PROVE  ~k.established /\ Near("peers", 0, r, View(o, daemon[Main(h)]))
  <2>1. Other(Home(daemon[Main(h)])) # e
    BY <1>4, <1>9
  <2>2. View(o, daemon[Main(h)]) = View(net, daemon[Main(h)])
    BY <1>8, <1>9, <2>1 DEF SameBut
  <2> QED BY <1>5, <1>9, <2>2 DEF Conv
<1>10. CASE Peek(net, e).tag # "OK"
  <2>1. Apt(S, daemon, c, "peers", 0)
    BY <1>8, <1>9 DEF Apt, Conv
  <2>2. Whole(Return(S, c).c, Return(S, c).n, daemon)
    BY <1>1, <2>1, FitReturn
  <2> QED BY <1>2, <1>10, <2>2, ActWhole
<1>11. CASE Peek(net, e).tag = "OK"
  <2>1. net.box[e] # <<>>
    BY <1>11 DEF Peek, Nothing, Msg
  <2>2. o.ear = net.ear
    BY DEF Receive, NetType, o
  <2>3. \A h \in Hosts : \A q \in Queue(o, h) : Other(q) # e
    <3>1. Queued(World(net, daemon), {}, Leased(client))
      BY <1>1, WiredOwned DEF Orderly
    <3>2. \A h \in Hosts : Queue(o, h) = Queue(net, h)
      BY <2>2 DEF Queue
    <3> QED BY <2>1, <3>1, <3>2 DEF Queued, World
  <2> HIDE DEF T
  <2>4. T \in ClientSituation /\ T.n = o /\ T.c[c] = w /\ \A b \in Clients : b # c => T.c[b] = client[b]
    <3>1. S \in ClientSituation
      BY <1>8 DEF Sit
    <3>2. /\ T \in ClientSituation /\ T.n = S.n /\ T.c[c] = w
          /\ \A b \in Clients : b # c => T.c[b] = S.c[b]
      <4>1. T = [S EXCEPT !.c[c] = w] /\ w \in Kind
        BY <1>6, <1>7
      <4>2. T \in ClientSituation
        BY <3>1, <4>1, SetClient
      <4>3. S.c \in [Clients -> Kind] /\ T.n = S.n /\ T.c = [S.c EXCEPT ![c] = w]
        BY <3>1, <4>1 DEF ClientSituation
      <4> QED BY <4>2, <4>3
    <3> QED BY <1>8, <3>2
  <2>5. \A r \in Ranks : w.line[r] = IF r = k.counter THEN e ELSE k.line[r]
    <3>1. k.line \in [Ranks -> Ends0]
      BY <1>1, KindBools
    <3> QED BY <1>6, <3>1
  <2>6. \A x \in End : Leases(w, x) => x = e \/ Leases(k, x)
    BY <1>6, <2>5 DEF Leases
  <2>7. Leased(T.c) \subseteq Leased(client) \cup {e}
    <3> SUFFICES ASSUME NEW x \in Leased(T.c) PROVE x = e \/ x \in Leased(client)
      OBVIOUS
    <3>1. x \in End
      BY LeasedMember
    <3>2. PICK b \in Clients : Leases(T.c[b], x)
      BY LeasedMember
    <3>3. x = e \/ Leases(client[b], x)
      BY <2>4, <2>6, <3>1, <3>2
    <3> QED BY <3>1, <3>3, LeasedMember
  <2>8. Orderly(World(o, daemon), Leased(T.c))
    <3>1. Orderly(World(o, daemon), Leased(client))
      BY <1>8 DEF Sit
    <3>2. World(o, daemon).n = o
      BY DEF World
    <3> QED BY <2>3, <2>7, <3>1, <3>2, OrderlyMore
  <2>9. Core(w, c, o, daemon)
    <3>1. Core(k, c, o, daemon)
      BY <1>8 DEF Sit
    <3>2. o.hold[e] = {c}
      BY <1>3 DEF Receive, NetType, o
    <3>3. \A x \in End : Leases(w, x) => o.hold[x] = {c} /\ x[2] = "near"
      BY <1>3, <2>6, <3>1, <3>2 DEF Core
    <3>4. k.counter \in Nat
      BY <1>1, KindBools
    <3>5. w.line[0] = NoEnd /\ w.counter >= 1
      <4>1. 0 # k.counter /\ 0 \in Ranks
        BY <1>4, <3>4, RanksFacts
      <4> QED BY <1>4, <1>6, <2>5, <3>4, <4>1
    <3>6. \A r, q \in Ranks : w.line[r] = w.line[q] /\ w.line[r] # NoEnd => r = q
      BY <1>4, <2>5
    <3>7. \A h \in Hosts : Forming(daemon[Main(h)]) => \A r \in Ranks : w.cache[r] # Other(Home(daemon[Main(h)]))
      BY <1>6, <3>1 DEF Core
    <3> QED BY <3>3, <3>5, <3>6, <3>7 DEF Core
  <2>10. \A b \in Clients \ {c} : Sound(T.c[b], b, T.n, daemon) /\ Talks(T.c[b], T.n, daemon)
    BY <1>8, <2>4 DEF Sit
  <2>11. Sit(T, daemon, c)
    BY <2>4, <2>8, <2>9, <2>10 DEF Sit
  <2>12. ASSUME NEW h \in Hosts, Forming(daemon[Main(h)]), NEW r \in Ranks, w.line[r] = Other(Home(daemon[Main(h)]))
         PROVE  ~w.established /\ Near("peers", 0, r, View(o, daemon[Main(h)]))
    <3> DEFINE x == Other(Home(daemon[Main(h)]))
               v == View(net, daemon[Main(h)])
               u == View(o, daemon[Main(h)])
    <3>1. CASE r # k.counter
      <4>1. k.line[r] = x
        BY <2>5, <2>12, <3>1
      <4> QED BY <1>6, <1>9, <2>12, <4>1
    <3>2. CASE r = k.counter
      <4>1. x = e
        BY <2>5, <2>12, <3>2
      <4>2. Asking(v)
        BY <1>1, <2>12, <4>1 DEF Sound, Aloof, e
      <4>3. Chat(v) /\ r \in Nat
        BY <1>1, <2>12, SeatFacts, RanksFacts
      <4>4. Reads(v, u)
        BY <1>1, <2>1, <2>12, <4>1, ReadView DEF o
      <4> HIDE DEF v, u
      <4>5. Loose(u)
        BY <4>2, <4>3, <4>4, AskingHeard
      <4> QED BY <1>4, <1>6, <4>3, <4>5 DEF Near, u
    <3> QED BY <3>1, <3>2
  <2>13. Apt(T, daemon, c, "peers", 0)
    BY <2>4, <2>11, <2>12 DEF Apt, Conv
  <2>14. Whole(Return(T, c).c, Return(T, c).n, daemon)
    BY <1>1, <2>13, FitReturn
  <2> QED BY <1>2, <1>11, <2>14, ActWhole
<1> QED BY <1>10, <1>11
-----------------------------------------------------------------------------
(* A daemon is started where none runs.                                     *)
LEMMA FreshUses == Uses(Fresh) = {} /\ MainRec(Fresh) /\ ~Forming(Fresh)
<1>1. /\ Fresh.mode = "loop" /\ Fresh.state = "Free" /\ Fresh.line = NoLines /\ Fresh.rope = NoEnd
      /\ Fresh.cache = NoLines /\ Fresh.todo = Idle /\ Fresh.wait = NoWait
  BY DEF Fresh, Dead
<1>2. /\ \A s \in Spot : Fresh.line[s] = NoEnd /\ Fresh.cache[s] = NoEnd
      /\ \A s \in Slot : Fresh.todo[s] = NoEnd
      /\ \A k \in Chan : Fresh.wait.lines[k] = NoEnd
      /\ Fresh.rope = NoEnd /\ Fresh.wait.end = NoEnd /\ Fresh.wait.reply = NoEnd
  BY <1>1 DEF NoLines, NoWait, Idle
<1>3. Uses(Fresh) = {}
  BY <1>2 DEF Uses, Refs
<1>4. MainRec(Fresh) /\ ~Forming(Fresh)
  BY <1>1 DEF MainRec, Forming, NoWait
<1> QED BY <1>3, <1>4

LEMMA StartDaemonWhole ==
  ASSUME Tidy, NEW h \in Hosts, StartDaemon(h)
  PROVE  Whole(client', net', daemon')
<1> DEFINE K == Leased(client)
           S == World(net, daemon)
           T == World(net', daemon')
<1>1. /\ net \in NetType /\ daemon \in [Daemons -> DaemonType] /\ Whole(client, net, daemon)
      /\ client' = client /\ daemon[Main(h)].mode = "dead"
      /\ daemon' = [daemon EXCEPT ![Main(h)] = Fresh]
      /\ net' = [net EXCEPT !.listen = @ \cup {h}]
  BY DEF Tidy, TypedClient, NetTypeOK, StartDaemon
<1>2. net'.hold = net.hold /\ net'.box = net.box /\ net'.ear = net.ear
  BY <1>1 DEF NetType
<1>3. /\ \A g \in Hosts : daemon'[Main(g)] = IF g = h THEN Fresh ELSE daemon[Main(g)]
      /\ \A g \in Hosts : daemon'[Exec(g)] = daemon[Exec(g)]
      /\ \A q \in Daemons : daemon'[q] = daemon[q] \/ daemon'[q] = Fresh
  BY <1>1, MainOrExec, ProcsFacts
<1>4. \A g \in Hosts : Forming(daemon'[Main(g)]) => daemon'[Main(g)] = daemon[Main(g)]
  BY <1>3, FreshUses
<1>5. \A q \in Daemons : Uses(daemon'[q]) \subseteq Uses(daemon[q])
  BY <1>3, FreshUses
<1>6. S.n = net /\ S.d = daemon /\ T.n = net' /\ T.d = daemon'
  BY DEF World
<1>7. Orderly(S, K) /\ \A c \in Clients : Sound(client[c], c, net, daemon) /\ Talks(client[c], net, daemon)
  BY <1>1 DEF Whole
<1> HIDE DEF S, T, K
<1>8. /\ Owned(S, NoHost, {}) /\ Queued(S, {}, K) /\ Enslaving(S, NoHost, {}) /\ Emptied(S)
      /\ Joining(S) /\ Formed(S, NoHost, {}) /\ Records(S)
  BY <1>7, WiredOwned DEF Orderly
<1>9. \A x : \A C : Says(net', x, C) <=> Says(net, x, C)
  BY <1>2 DEF Says, Msgs
<1>10. \A x : Msgs(net', x) = Msgs(net, x) /\ Queue(net', x) = Queue(net, x)
  BY <1>2 DEF Msgs, Queue
<1>11. Owned(T, NoHost, {})
  BY <1>2, <1>5, <1>6, <1>8 DEF Owned
<1>12. Queued(T, {}, K)
  <2>1. \A g \in Hosts : Uses(daemon'[Main(g)]) \subseteq Uses(daemon[Main(g)])
    BY <1>5, ProcsFacts
  <2> QED BY <1>2, <1>6, <1>8, <1>9, <1>10, <2>1 DEF Queued
<1>13. Enslaving(T, NoHost, {})
  BY <1>2, <1>6, <1>8, <1>9, <1>10 DEF Enslaving
<1>14. Emptied(T)
  BY <1>2, <1>6, <1>8 DEF Emptied
<1>15. \A x : Peer(net', x) <=> Peer(net, x)
  BY <1>2, <1>9 DEF Peer
<1>16. Joining(T)
  BY <1>6, <1>8, <1>9, <1>10, <1>15 DEF Joining
<1>17. Formed(T, NoHost, {})
  <2> SUFFICES ASSUME NEW g \in Hosts, Forming(daemon'[Main(g)])
               PROVE  FormOk(net', daemon'[Main(g)], Main(g), IF Main(g) = NoHost THEN {} ELSE {})
    BY <1>6 DEF Formed, FormOk
  <2>1. daemon'[Main(g)] = daemon[Main(g)]
    BY <1>4
  <2>2. FormOk(net, daemon[Main(g)], Main(g), {})
    BY <1>6, <1>8 DEF Formed
  <2> QED BY <1>2, <1>9, <1>10, <1>15, <2>1, <2>2 DEF FormOk
<1>18. Records(T)
  BY <1>3, <1>6, <1>8, FreshUses DEF Records
<1>19. Frozen(T, {}, Sight(T))
  BY DEF Frozen, Seen, Lent, Sight
<1>20. Orderly(T, K)
  BY <1>11, <1>12, <1>13, <1>14, <1>16, <1>17, <1>18, <1>19 DEF Orderly, Wired
<1>21. \A g \in Hosts : View(net', daemon[Main(g)]) = View(net, daemon[Main(g)])
  BY <1>2 DEF View
<1>22. ASSUME NEW c \in Clients PROVE Sound(client[c], c, net', daemon') /\ Talks(client[c], net', daemon')
  <2>1. Sound(client[c], c, net, daemon) /\ Talks(client[c], net, daemon)
    BY <1>7
  <2>2. Owns(client[c], c, net')
    BY <1>2, <2>1 DEF Sound, Owns
  <2>3. Aloof(client[c], net', daemon')
    BY <1>4, <1>21, <2>1 DEF Sound, Aloof
  <2>4. Talks(client[c], net', daemon')
    BY <1>4, <1>21, <2>1 DEF Talks
  <2> QED BY <2>1, <2>2, <2>3, <2>4 DEF Sound
<1> QED BY <1>1, <1>20, <1>22 DEF Whole, T, K

(* At the beginning there are no lines.                                     *)
LEMMA InitWhole == Init => Whole(client, net, daemon)
<1> SUFFICES ASSUME Init PROVE Whole(client, net, daemon)
  OBVIOUS
<1> DEFINE S == World(net, daemon)
           K == Leased(client)
<1>1. /\ \A x \in End : net.hold[x] = {} /\ net.box[x] = <<>>
      /\ \A g \in Hosts : net.ear[g] = <<>>
  BY DEF Init, NetInit
<1>2. \A x \in End : (\A C : ~Says(net, x, C)) /\ Msgs(net, x) = {}
  BY <1>1 DEF Says, Msgs
<1>3. \A g \in Hosts : Queue(net, g) = {} /\ DOMAIN net.ear[g] = {}
  BY <1>1 DEF Queue
<1>4. \A p \in Daemons : daemon[p] = IF p[2] = "main" THEN Fresh ELSE Dead
  BY DEF Init, DaemonInit
<1>5. \A g \in Hosts : daemon[Main(g)] = Fresh /\ daemon[Exec(g)] = Dead
  BY <1>4, MainOrExec, ProcsFacts
<1>6. S.n = net /\ S.d = daemon
  BY DEF World
<1> HIDE DEF S, K
<1>7. \A p \in Daemons : Uses(daemon[p]) = {}
  BY <1>4, FreshUses, DeadUses
<1>8. Owned(S, NoHost, {})
  BY <1>6, <1>7 DEF Owned
<1>9. Queued(S, {}, K)
  BY <1>3, <1>6 DEF Queued
<1>10. Enslaving(S, NoHost, {}) /\ Joining(S)
  BY <1>2, <1>6 DEF Enslaving, Joining
<1>11. Emptied(S)
  BY <1>1, <1>6 DEF Emptied
<1>12. Formed(S, NoHost, {})
  BY <1>5, <1>6, FreshUses DEF Formed, FormOk
<1>13. Records(S)
  BY <1>5, <1>6, FreshUses, DeadUses DEF Records
<1>14. Frozen(S, {}, Sight(S))
  BY DEF Frozen, Seen, Lent, Sight
<1>15. Orderly(S, K)
  BY <1>8, <1>9, <1>10, <1>11, <1>12, <1>13, <1>14 DEF Orderly, Wired
<1>16. ASSUME NEW c \in Clients PROVE Sound(client[c], c, net, daemon) /\ Talks(client[c], net, daemon)
  <2>1. client[c] = NewClient
    BY DEF Init, ClientInit
  <2>2. /\ \A r \in Ranks : NewClient.line[r] = NoEnd /\ NewClient.cache[r] = NoEnd
        /\ NewClient.adding = NoEnd /\ NewClient.counter = 1 /\ NewClient.todo = NoSlaves
    BY DEF NewClient, NoSlaves
  <2>3. Owns(NewClient, c, net)
    BY <2>2 DEF Owns, Holds
  <2>4. Shape(NewClient)
    BY <2>2, RanksFacts DEF Shape, NoSlaves
  <2>5. Aloof(NewClient, net, daemon) /\ Talks(NewClient, net, daemon)
    BY <1>5, FreshUses DEF Aloof, Talks
  <2> QED BY <2>1, <2>3, <2>4, <2>5 DEF Sound
<1> QED BY <1>15, <1>16 DEF Whole, S, K
-----------------------------------------------------------------------------
(* Every step of the session.                                               *)
CInv == SInv /\ Whole(client, net, daemon)

LEMMA InvParts ==
  ASSUME CInv
  PROVE  /\ Tied /\ Tidy /\ net \in NetType /\ Ordered(Leased(client)) /\ StatesKept
<1>1. /\ Typed /\ TypedClient /\ Bonds(daemon) /\ Whole(client, net, daemon)
  BY TypedParts DEF CInv, SInv
<1>2. net \in NetType /\ daemon \in [Daemons -> DaemonType]
  BY <1>1 DEF Typed, NetTypeOK, DaemonTypeOK
<1>3. Tied /\ Tidy
  BY <1>1, <1>2 DEF Tied, Tidy
<1>4. Now = World(net, daemon)
  BY DEF Now, World
<1>5. Orderly(Now, Leased(client)) /\ \A c \in Clients : Sound(client[c], c, net, daemon)
  BY <1>1, <1>4 DEF Whole
<1>6. Ordered(Leased(client))
  BY <1>3, <1>5, LeasedHolds DEF Ordered
<1>7. Records(Now)
  BY <1>5, WiredOwned DEF Orderly
<1>8. StatesKept
  BY <1>7 DEF Now, Records, MainRec, ExecRec, StatesKept, Supervisor, Executive
<1> QED BY <1>2, <1>3, <1>6, <1>8

LEMMA OnwardKept ==
  ASSUME CInv, Onward(Leased(client)), client' = client PROVE Whole(client', net', daemon')
<1>1. Tied /\ Tidy /\ net \in NetType
  BY InvParts
<1>2. Whole(client, net, daemon) /\ daemon \in [Daemons -> DaemonType]
  BY <1>1 DEF Tidy
<1>3. Whole(client, net', daemon')
  BY <1>1, <1>2, OnwardWhole
<1> QED BY <1>3

LEMMA NextWhole == CInv /\ [Next]_vars => CInv'
<1> SUFFICES ASSUME CInv, [Next]_vars PROVE Whole(client', net', daemon')
  <2>1. CInv => SInv /\ StatesKept
    BY InvParts DEF CInv
  <2> QED BY <2>1, NextTied DEF CInv, Whole
<1>1. Tied /\ Tidy /\ Ordered(Leased(client))
  BY InvParts
<1>2. CASE UNCHANGED vars
  BY <1>2 DEF vars, CInv
<1>3. CASE DaemonNext
  <2>1. PICK p \in Daemons : DaemonStep(p) /\ client' = client
    BY <1>3 DEF DaemonNext
  <2>2. Onward(Leased(client))
    BY <1>1, <2>1, PollOnward, ResumeOnward, BuryOnward, FinishMainOnward DEF DaemonStep
  <2> QED BY <2>1, <2>2, OnwardKept
<1>4. CASE ClientNext
  <2>1. PICK c \in Clients : (ClientStep(c) \/ ClientCall(c)) /\ daemon' = daemon
    BY <1>4 DEF ClientNext
  <2>2. CASE ClientStep(c)
    BY <1>1, <2>1, <2>2, AddedWhole, AnsweredWhole, ProbeWhole, AlarmWhole DEF ClientStep
  <2>3. CASE ClientCall(c)
    BY <1>1, <2>1, <2>3, AddWhole, RemoveAllWhole, CallRunWhole, DestroyWhole DEF ClientCall
  <2> QED BY <2>1, <2>2, <2>3
<1>5. CASE Mishap
  <2>1. CASE \E h \in Hosts : ExecCrash(h) /\ UNCHANGED client
    BY <1>1, <2>1, ExecCrashOnward, OnwardKept
  <2>2. CASE \E p \in Daemons : TimeOut(p) /\ UNCHANGED client
    BY <1>1, <2>2, TimeOutOnward, OnwardKept
  <2>3. CASE \E c \in Clients : ClientTimeOut(c) /\ UNCHANGED daemon
    BY <1>1, <2>3, ClientTimeOutWhole
  <2>4. CASE \E p \in Daemons : BuryLate(p) /\ UNCHANGED client
    BY <1>1, <2>4, BuryLateOnward, OnwardKept
  <2>5. CASE \E c \in Clients : ClientCrash(c) /\ UNCHANGED daemon
    BY <1>1, <2>5, ClientCrashWhole
  <2>6. CASE \E c \in Clients : Signal(c) /\ UNCHANGED daemon
    BY <1>1, <2>6, SignalWhole
  <2>9. CASE \E c \in Clients : Interrupt(c) /\ UNCHANGED daemon
    BY <1>1, <2>9, InterruptWhole
  <2>7. CASE \E h \in Hosts, code \in Mishaps \cap Code : Operator(h, code)
    <3>1. Mishaps \cap Code \subseteq Code \cap {"None", "Status", "Shutdown", "ForceShutdown", "ForceReset"}
      BY SessionAssumption DEF Code
    <3> QED BY <1>1, <2>7, <3>1, OperatorWhole
  <2>8. CASE \E h \in Hosts : StartDaemon(h)
    BY <1>1, <2>8, StartDaemonWhole
  <2> QED BY <1>5, <2>1, <2>2, <2>3, <2>4, <2>5, <2>6, <2>7, <2>8, <2>9 DEF Mishap
<1>6. CASE Terminated
  BY <1>2, <1>6 DEF Terminated
<1> QED BY <1>2, <1>3, <1>4, <1>5, <1>6 DEF Next

(* Whatever happens, the conversations of all clients stay in step with the *)
(* main processes they talk to: every end a client uses is its own, and the *)
(* messages on a line to a machine that forms a group are those of the call *)
(* the client is in.                                                        *)
THEOREM SessionWhole == Spec => []CInv
<1>1. Init => CInv
  BY InitTied, InitWhole DEF CInv
<1>2. CInv /\ [Next]_vars => CInv'
  BY NextWhole
<1> QED BY <1>1, <1>2, PTL DEF Spec

(* A main process never gets into a state of the executives, and an         *)
(* executive is Grouped, Leaving, or was reset and quits.  prepare() of     *)
(* daemon.cpp leaves it to the client that nobody is asked for what its     *)
(* state does not allow: the proof is that no client does, whatever is      *)
(* lost, late or reset, because a request is only written to a machine that *)
(* has agreed to the one before.                                            *)
THEOREM StatesStay == Spec => []StatesKept
<1>1. CInv => StatesKept
  BY InvParts
<1> QED BY <1>1, SessionWhole, PTL

(* The main process of every machine knows exactly the child it forked,     *)
(* holds a rope exactly while it supervises, and no executive outlives its  *)
(* main process: whatever messages arrive in whatever order, and whoever    *)
(* crashes, times out or is reset.                                          *)
THEOREM SupervisionStays == Spec => []Supervised
<1>1. CInv => Supervised
  BY TiedSupervised DEF CInv
<1> QED BY <1>1, SessionWhole, PTL
=============================================================================
