------------------------------- MODULE Client -------------------------------
(***************************************************************************)
(* The client library (client.cpp): a sequential program that calls add,   *)
(* removeAll and run in any order the interface allows, and destroys the   *)
(* client at last.  Inside a call every request is followed by the wait    *)
(* for its answer: pc is the phase of the call, pos the slave that was     *)
(* asked, peer the slave it was asked to connect to.  Operators map a      *)
(* situation S == [c |-> client, n |-> net] to the next one.               *)
(***************************************************************************)
EXTENDS Wire

CONSTANTS MaxCalls,   \* bound: calls of run and removeAll by one client
          InitialData \* run is given initial data

ASSUME ClientAssumption == MaxCalls \in Nat /\ InitialData \in BOOLEAN

VARIABLE client

(* idle: between two calls; probe: the loop of run; alarm: the watchdog     *)
(* resets the slaves; the other phases are named after the request.         *)
Phase == {"add", "peers", "connect", "group", "run", "prepare", "leave"}
ClientPc == Phase \cup {"idle", "probe", "alarm", "dead"}

ClientType == [pc: ClientPc, line: [Ranks -> Ends0], host: [Ranks -> Hosts \cup {NoHost}],
               counter: Nat, world: Nat, done: Nat, established: BOOLEAN, quit: BOOLEAN,
               signal: BOOLEAN, watch: {"none", "set", "fired"}, final: BOOLEAN,
               pos: Ranks, peer: Ranks, adding: Ends0, target: Hosts \cup {NoHost},
               cache: [Ranks -> Ends0], todo: [Ranks -> Ends0 \cup {Ear}],
               left: SUBSET Hosts, calls: Nat]

NoSlaves == [r \in Ranks |-> NoEnd]
NewClient == [pc |-> "idle", line |-> NoSlaves, host |-> [r \in Ranks |-> NoHost],
              counter |-> 1, world |-> 0, done |-> 0, established |-> FALSE,
              quit |-> FALSE, signal |-> FALSE, watch |-> "none", final |-> FALSE,
              pos |-> 0, peer |-> 0, adding |-> NoEnd, target |-> NoHost,
              cache |-> NoSlaves, todo |-> NoSlaves, left |-> {}, calls |-> 0]

ClientInit == client = [c \in Clients |-> NewClient]
ClientTypeOK == client \in [Clients -> ClientType]

Slaves(k) == {r \in Ranks : k.line[r] # NoEnd}
SlaveLines(k) == {k.line[r] : r \in Slaves(k)}
Names(k) == {k.host[r] : r \in Slaves(k)}
Holds(k) == {k.line[r] : r \in Ranks} \cup {k.cache[r] : r \in Ranks} \cup {k.adding}

-----------------------------------------------------------------------------
Gone(S, c) == [c |-> [S.c EXCEPT ![c] = [NewClient EXCEPT !.pc = "dead"]],
               n |-> Keep(S.n, c, {})]

(* The local variables of a call end with it.                               *)
Rest(k) == [k EXCEPT !.pc = "idle", !.pos = 0, !.peer = 0, !.adding = NoEnd,
                     !.target = NoHost, !.todo = NoSlaves, !.left = {}]

(* The call is over, by a return or by an exception that run or the caller  *)
(* of add catches; the destructor ends the client either way.               *)
Return(S, c) ==
  IF S.c[c].final THEN Gone(S, c)
  ELSE LET T == [S EXCEPT !.c[c] = Rest(@)]
       IN [T EXCEPT !.n = Keep(@, c, Holds(T.c[c]))]

Forget(k) == [k EXCEPT !.line = NoSlaves, !.host = [r \in Ranks |-> NoHost]]

(* Client::reset: worldSize stays.                                          *)
ResetClient(k) == [Forget(k) EXCEPT !.counter = 1, !.done = 0, !.quit = TRUE,
                                    !.established = FALSE]

(* The requests of a phase, in the order of the loops over connections().   *)
Requests(k, phase) ==
  IF phase = "connect" THEN {q \in Slaves(k) \X Slaves(k) : q[1] < q[2]}
  ELSE Slaves(k) \X {0}
Lower(q, t) == q[1] < t[1] \/ (q[1] = t[1] /\ q[2] < t[2])
Least(Q) ==
  LET first(q) == \A t \in Q : ~Lower(t, q)
  IN IF \E q \in Q : first(q) THEN CHOOSE q \in Q : first(q) ELSE <<0, 0>>
NextRequest(k, phase, q) == Least({t \in Requests(k, phase) : Lower(q, t)})

Request(k, phase, q) ==
  CASE phase = "peers" -> MsgArg("Peers", k.world)
    [] phase = "connect" -> [MsgArg("ConnectTo", q[2]) EXCEPT !.host = k.host[q[2]]]
    [] phase = "group" -> Msg("Grouped")
    [] phase = "run" -> Msg("Run")
    [] phase = "prepare" -> Msg("PrepareToLeave")
    [] OTHER -> Msg("Leave")

Ask(S, c, phase, q) ==
  LET e == S.c[c].line[q[1]]
  IN IF Broken(S.n, e) THEN Return(S, c)
     ELSE [c |-> [S.c EXCEPT ![c].pc = phase, ![c].pos = q[1], ![c].peer = q[2]],
           n |-> Send(S.n, e, Request(S.c[c], phase, q))]
AskFirst(S, c, phase) == Ask(S, c, phase, Least(Requests(S.c[c], phase)))

(* Client::start before the Run requests; connectAll is done.               *)
StartRun(S, c) ==
  LET lines == SlaveLines(S.c[c])
      T == [S EXCEPT !.c[c].established = TRUE]
      U == [T EXCEPT !.n = SendEach(@, lines, Msg("InitialData"))]
  IN IF ~InitialData THEN AskFirst(T, c, "run")
     ELSE IF \E e \in lines : Broken(S.n, e) THEN Return(U, c)
     ELSE AskFirst(U, c, "run")

(* Start goes to one slave after the other, the first broken line raises;   *)
(* then run prepares its loop.                                              *)
StartAll(S, c) ==
  LET k == S.c[c]
      broken == {r \in Slaves(k) : Broken(S.n, k.line[r])}
      told == {k.line[r] : r \in {q \in Slaves(k) : \A b \in broken : q < b}}
      T == [S EXCEPT !.n = SendEach(@, told, Msg("Start"))]
      U == [T EXCEPT !.c[c].pc = "probe", !.c[c].pos = 0, !.c[c].quit = FALSE,
                     !.c[c].watch = "set", !.c[c].cache = k.line]
  IN IF broken # {} THEN Return(T, c)
     ELSE [U EXCEPT !.n = Keep(@, c, Holds(U.c[c]))]

Dissolve(S, c) ==
  IF ~S.c[c].established \/ S.c[c].signal THEN Return(S, c)
  ELSE AskFirst([S EXCEPT !.c[c].established = FALSE], c, "prepare")

Dissolved(S, c) == Return([S EXCEPT !.c[c] = Forget(@)], c)

(* All slaves of a phase agreed.                                            *)
EndPhase(S, c, phase) ==
  CASE phase = "peers" /\ Requests(S.c[c], "connect") # {} -> AskFirst(S, c, "connect")
    [] phase = "peers" /\ Requests(S.c[c], "connect") = {} -> AskFirst(S, c, "group")
    [] phase = "connect" -> AskFirst(S, c, "group")
    [] phase = "group" -> StartRun(S, c)
    [] phase = "run" -> StartAll(S, c)
    [] phase = "prepare" -> AskFirst(S, c, "leave")
    [] OTHER -> Dissolved(S, c)

Agreed(S, c) ==
  LET k == S.c[c]
      q == NextRequest(k, k.pc, <<k.pos, k.peer>>)
  IN IF q # <<0, 0>> THEN Ask(S, c, k.pc, q) ELSE EndPhase(S, c, k.pc)

(* A refusal before the start fails establish; dissolve breaks its loop.    *)
Refused(S, c) ==
  CASE S.c[c].pc = "prepare" -> AskFirst(S, c, "leave")
    [] S.c[c].pc = "leave" -> Dissolved(S, c)
    [] OTHER -> Return([S EXCEPT !.c[c] = ResetClient(@)], c)

-----------------------------------------------------------------------------
(* One channel of the loop of run; the slots of a round are the cached      *)
(* lines by rank and, at last, the watchdog (slot 0).                       *)
DoneEarly(S, c) ==                       \* mutant: the last slave is not waited for
  LET done == S.c[c].done + 1
  IN [S EXCEPT !.c[c].done = done, !.c[c].quit = @ \/ done + 1 >= Cardinality(Slaves(S.c[c]))]
DoneLate(S, c) ==                        \* mutant: one more than there are
  LET done == S.c[c].done + 1
  IN [S EXCEPT !.c[c].done = done, !.c[c].quit = @ \/ done > Cardinality(Slaves(S.c[c]))]
Done(S, c) ==
  LET done == S.c[c].done + 1
      full == done >= Cardinality(Slaves(S.c[c]))
  IN [S EXCEPT !.c[c].done = done, !.c[c].quit = @ \/ full,
               !.c[c].todo = IF full THEN NoSlaves ELSE @]

ProcessSlave(S, c, e) ==
  LET m == Peek(S.n, e)
      T == [S EXCEPT !.n = Receive(@, e)]
      stopped == [T EXCEPT !.c[c] = [ResetClient(@) EXCEPT !.todo = NoSlaves]]
  IN CASE Closed(S.n, e) -> [S EXCEPT !.c[c] = ResetClient(@)]
       [] ~Closed(S.n, e) /\ m.tag = "Done" -> Done(T, c)
       [] ~Closed(S.n, e) /\ m.tag = "Error" -> stopped
       [] ~Closed(S.n, e) /\ m.tag = "Renegade" ->
            [stopped EXCEPT !.n = SendEach(@, SlaveLines(T.c[c]), Msg("Renegade"))]
       [] OTHER -> S     \* only peeked at

EndRound(S, c) ==
  IF S.c[c].todo # NoSlaves THEN S
  ELSE IF S.c[c].quit THEN Dissolve(S, c)
  ELSE [S EXCEPT !.n = Keep(@, c, Holds(S.c[c]))]

ReadySlaves(k) ==
  [r \in Ranks |-> IF r = 0 THEN IF k.watch = "fired" THEN Ear ELSE NoEnd
                   ELSE IF Readable(net, k.cache[r]) THEN k.cache[r] ELSE NoEnd]

-----------------------------------------------------------------------------
Act(S) == client' = S.c /\ net' = S.n
Here == [c |-> client, n |-> net]
FreeLine == FreeLines(net) # {}   \* bound: a connecting call finds a free line

(* add: connect and ask; connect fails when nobody listens, which changes   *)
(* nothing.  Bound: the ranks and the world size stay below MaxRank.        *)
Add(c, h) ==
  LET k == client[c]
      l == NewLine(net)
  IN /\ k.pc = "idle" /\ ~k.established
     /\ h \notin Names(k) /\ h \in net.listen
     /\ k.counter <= MaxRank /\ k.world < MaxRank
     /\ FreeLine
     /\ client' = [client EXCEPT ![c].pc = "add", ![c].adding = <<l, "near">>, ![c].target = h]
     /\ net' = Connect(net, l, {c}, h, MsgArg("Enslave", k.counter))

(* Any other answer than OK leaves no trace: a refusal returns false, the   *)
(* rest raises.  After OK peerAddress could raise between the increment of  *)
(* _idCounter and the insertion (client.cpp:130-132); getpeername fails     *)
(* only on a line that was reset, and nobody resets this one: the answer    *)
(* was all it carried.                                                      *)
Added(c) ==
  LET k == client[c]
      r == k.counter
      S == [Here EXCEPT !.n = Receive(@, k.adding)]
      slave == [k EXCEPT !.counter = @ + 1, !.world = @ + 1,
                         !.line[r] = k.adding, !.host[r] = k.target]
  IN /\ k.pc = "add"
     /\ Readable(net, k.adding)
     /\ Act(Return(IF Peek(net, k.adding).tag = "OK" THEN [S EXCEPT !.c[c] = slave] ELSE S, c))

(* removeAll: the answers are not awaited, counter and world size stay.     *)
SendDisconnect(S, c) ==
  LET lines == SlaveLines(S.c[c])
      T == [S EXCEPT !.n = SendEach(@, lines, Msg("Disconnect"))]
  IN Return(IF \E e \in lines : Broken(S.n, e) THEN T ELSE [T EXCEPT !.c[c] = Forget(@)], c)

RemoveAll(c) ==
  /\ client[c].pc = "idle" /\ ~client[c].established
  /\ Slaves(client[c]) # {}
  /\ client[c].calls < MaxCalls
  /\ Act(SendDisconnect([Here EXCEPT !.c[c].calls = @ + 1], c))

CallRun(c) ==
  /\ client[c].pc = "idle" /\ ~client[c].established
  /\ Slaves(client[c]) # {}
  /\ client[c].calls < MaxCalls
  /\ Act(AskFirst([Here EXCEPT !.c[c].calls = @ + 1], c, "peers"))

(* The destructor: quit, then the end of the process.                       *)
Destroy(c) ==
  LET S == [Here EXCEPT !.c[c].final = TRUE]
  IN /\ client[c].pc = "idle"
     /\ Act(IF Slaves(client[c]) = {} THEN Gone(S, c)
            ELSE IF client[c].established THEN Dissolve(S, c)
            ELSE SendDisconnect(S, c))

(* The answer of a phase: OK, Refuse, or an exception.                      *)
Answered(c) ==
  LET k == client[c]
      e == k.line[k.pos]
      S == [Here EXCEPT !.n = Receive(@, e)]
      tag == Peek(net, e).tag
  IN /\ k.pc \in Phase \ {"add"}
     /\ Readable(net, e)
     /\ \/ tag = "OK" /\ Act(Agreed(S, c))
        \/ tag = "Refuse" /\ Act(Refused(S, c))
        \/ tag \notin {"OK", "Refuse"} /\ Act(Return(S, c))

Probe(c) ==
  LET k == client[c]
      round == IF k.todo # NoSlaves THEN k.todo ELSE ReadySlaves(k)
  IN /\ k.pc = "probe"
     /\ \E r \in Ranks :
          /\ round[r] # NoEnd
          /\ \A q \in Ranks \ {0} : (q < r \/ r = 0) /\ q # r => round[q] = NoEnd
          /\ LET S == [Here EXCEPT !.c[c].todo = [round EXCEPT ![r] = NoEnd]]
             IN IF r # 0 THEN Act(EndRound(ProcessSlave(S, c, round[r]), c))
                ELSE Act([S EXCEPT !.c[c].pc = "alarm", !.c[c].quit = TRUE,
                                   !.c[c].left = Names(k)])

(* The watchdog: forceReset for every name, then the loop ends.             *)
Alarm(c) ==
  LET k == client[c]
      l == NewLine(net)
  IN /\ k.pc = "alarm"
     /\ FreeLine
     /\ \/ /\ k.left = {}
           /\ Act(Dissolve(Here, c))
        \/ \E h \in k.left :
             IF h \in net.listen
             THEN Act([c |-> [client EXCEPT ![c].left = @ \ {h}],
                       n |-> Connect(net, l, {}, h, Msg("ForceReset"))])
             ELSE Act(Return(Here, c))

ClientStep(c) == Added(c) \/ Answered(c) \/ Probe(c) \/ Alarm(c)
ClientCall(c) == (\E h \in Hosts : Add(c, h)) \/ RemoveAll(c) \/ CallRun(c) \/ Destroy(c)

-----------------------------------------------------------------------------
(* What may go wrong in a client.                                           *)

(* The client waits for an answer that is not there yet.                    *)
Awaits(k) ==
  \/ k.pc = "add" /\ ~Readable(net, k.adding)
  \/ k.pc \in Phase \ {"add"} /\ ~Readable(net, k.line[k.pos])

(* Five seconds pass before the awaited answer.                             *)
ClientTimeOut(c) ==
  /\ Awaits(client[c])
  /\ Act(Return(Here, c))

ClientCrash(c) ==
  /\ client[c].pc # "dead"
  /\ Act(Gone(Here, c))

(* A signal after the first start: handleSignal closes _flag, once.  It     *)
(* meets the client at work, in the poll of run, which is repeated, or      *)
(* between a request and the wait for the answer.  Before the first start   *)
(* no handler is installed and a signal is a crash.                         *)
Signal(c) ==
  /\ client[c].pc # "dead"
  /\ client[c].watch = "set" /\ ~client[c].signal
  /\ client' = [client EXCEPT ![c].signal = TRUE, ![c].watch = "fired"]
  /\ UNCHANGED net

(* A signal that meets the client inside a system call: a receive with a    *)
(* timeout is not restarted (brick-net.h:665-674), and neither is the poll  *)
(* of a connecting socket, so that after the handler EINTR is raised as an  *)
(* exception and the call of the client fails, dissolve too.                *)
Signalled(k) ==
  IF k.signal THEN k ELSE [k EXCEPT !.signal = TRUE, !.watch = "fired"]
Interrupt(c) ==
  LET k == client[c]
  IN /\ k.watch # "none"
     /\ \/ Awaits(k)
        \/ k.pc = "alarm" /\ k.left # {}
     /\ Act(Return([Here EXCEPT !.c[c] = Signalled(k)], c))
=============================================================================
