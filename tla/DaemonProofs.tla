---------------------------- MODULE DaemonProofs ----------------------------
(***************************************************************************)
(* What is proved of the daemons, one handler after the other: first what  *)
(* the operators of Wire keep, then that every handler keeps the type of   *)
(* the situation it is given, then what ties the main process of a daemon  *)
(* to its executive, and last the lines: who holds the ends a daemon uses, *)
(* what may have arrived at them, and that no handler of a daemon disturbs *)
(* the conversation of another one with its client.                        *)
(***************************************************************************)
EXTENDS Daemon, SequenceTheorems, TLAPS

(* The type of the network, and the lines that are free.                   *)

(* A free line is a line.                                                   *)
LEMMA NewLineIsLine ==
  ASSUME NEW n \in NetType, FreeLines(n) # {}
  PROVE  NewLine(n) \in Lines
BY DEF FreeLines, NewLine

(* Channel numbers and messages.                                            *)
LEMMA MasterIsChan == Master \in Chan
BY WireAssumption DEF Master, Chan

LEMMA MsgIsMessage == \A c \in Code : Msg(c) \in Message
BY MasterIsChan DEF Msg, Message

LEMMA MsgArgIsMessage == \A c \in Code, i \in Nat : MsgArg(c, i) \in Message
BY MasterIsChan DEF MsgArg, Msg, Message

LEMMA MessageWith ==
  ASSUME NEW m \in Message
  PROVE  /\ \A k \in Chan : [m EXCEPT !.chan = k] \in Message
         /\ \A h \in Hosts \cup {NoHost} : [m EXCEPT !.host = h] \in Message
         /\ m.arg \in Nat /\ m.chan \in Chan /\ m.host \in Hosts \cup {NoHost}
BY DEF Message

LEMMA CodeFacts ==
  /\ "None" \in Code /\ "OK" \in Code /\ "Refuse" \in Code /\ "Status" \in Code
  /\ "Done" \in Code /\ "CutRope" \in Code /\ "Error" \in Code /\ "Renegade" \in Code
  /\ "Join" \in Code /\ "DataLine" \in Code /\ "Enslave" \in Code /\ "Disconnect" \in Code
  /\ "Peers" \in Code /\ "ConnectTo" \in Code /\ "Grouped" \in Code /\ "Run" \in Code
  /\ "Start" \in Code /\ "InitialData" \in Code /\ "PrepareToLeave" \in Code
  /\ "Leave" \in Code /\ "ForceReset" \in Code
BY DEF Code

(* The far end of an end is an end, and NoEnd and Ear are none.             *)
LEMMA OtherIsEnd == \A e \in End : Other(e) \in End /\ Other(Other(e)) = e /\ Other(e) # e
BY DEF End, Other

LEMMA NoEndIsNoEnd == NoEnd \notin End /\ Ear \notin End /\ Ear \notin Ends0
BY WireAssumption DEF NoEnd, Ear, End, Ends0

-----------------------------------------------------------------------------
LEMMA PeekType == ASSUME NEW n \in NetType, NEW e PROVE Peek(n, e) \in Message
<1>1. CASE e \in End /\ n.box[e] # <<>>
  <2>1. n.box[e] \in Seq(Message)
    BY <1>1 DEF NetType
  <2>2. Head(n.box[e]) \in Message
    BY <2>1, <1>1
  <2> QED BY <1>1, <2>2 DEF Peek
<1>2. CASE ~(e \in End /\ n.box[e] # <<>>)
  BY <1>2, MsgIsMessage, CodeFacts DEF Peek, Nothing
<1> QED BY <1>1, <1>2

LEMMA ReceiveType ==
  ASSUME NEW n \in NetType, NEW e
  PROVE  /\ Receive(n, e) \in NetType
         /\ Receive(n, e).hold = n.hold
         /\ Receive(n, e).ear = n.ear
         /\ Receive(n, e).listen = n.listen
<1>1. CASE e \in End /\ n.box[e] # <<>>
  <2>1. n.box[e] \in Seq(Message)
    BY <1>1 DEF NetType
  <2>2. Tail(n.box[e]) \in Seq(Message)
    BY <2>1, <1>1
  <2> QED BY <1>1, <2>2 DEF Receive, NetType
<1>2. CASE ~(e \in End /\ n.box[e] # <<>>)
  BY <1>2 DEF Receive
<1> QED BY <1>1, <1>2

LEMMA SendType ==
  ASSUME NEW n \in NetType, NEW e, NEW m \in Message
  PROVE  /\ Send(n, e, m) \in NetType
         /\ Send(n, e, m).hold = n.hold
         /\ Send(n, e, m).ear = n.ear
         /\ Send(n, e, m).listen = n.listen
<1>1. CASE e \notin End
  BY <1>1 DEF Send
<1>2. CASE e \in End /\ Hung(n, e)
  BY <1>2 DEF Send, NetType
<1>3. CASE e \in End /\ ~Hung(n, e)
  <2>1. Other(e) \in End
    BY <1>3, OtherIsEnd
  <2>2. Append(n.box[Other(e)], m) \in Seq(Message)
    BY <2>1 DEF NetType
  <2> QED BY <1>3, <2>1, <2>2 DEF Send, NetType
<1> QED BY <1>1, <1>2, <1>3

LEMMA SendEachType ==
  ASSUME NEW n \in NetType, NEW S \in SUBSET Ends0, NEW m \in Message
  PROVE  /\ SendEach(n, S, m) \in NetType
         /\ SendEach(n, S, m).hold = n.hold
         /\ SendEach(n, S, m).ear = n.ear
         /\ SendEach(n, S, m).listen = n.listen
<1>1. \A e \in End : Append(n.box[e], m) \in Seq(Message)
  BY DEF NetType
<1>2. [e \in End |-> IF Other(e) \in S /\ n.hold[e] # {}
                     THEN Append(n.box[e], m) ELSE n.box[e]] \in [End -> Seq(Message)]
  BY <1>1 DEF NetType
<1>3. {e \in S : Hung(n, e)} \subseteq End
  BY DEF Hung
<1> QED BY <1>2, <1>3 DEF SendEach, NetType

LEMMA KeepType ==
  ASSUME NEW n \in NetType, NEW p, NEW keep
  PROVE  /\ Keep(n, p, keep) \in NetType
         /\ Keep(n, p, keep).ear = n.ear
         /\ Keep(n, p, keep).listen = n.listen
<1> DEFINE hold == [e \in End |-> IF e \in keep THEN n.hold[e] ELSE n.hold[e] \ {p}]
           shut == {e \in End : hold[e] = {}}
           box == [e \in End |-> IF e \in shut THEN <<>> ELSE n.box[e]]
           rst == (n.rst \ shut) \cup {e \in End : /\ e \notin shut
                                                   /\ Other(e) \in shut
                                                   /\ n.box[Other(e)] # <<>>}
<1>1. hold \in [End -> SUBSET Procs]
  BY DEF NetType
<1>2. box \in [End -> Seq(Message)]
  <2> HIDE DEF shut
  <2>1. <<>> \in Seq(Message)
    OBVIOUS
  <2> QED BY <2>1 DEF NetType
<1>3. rst \in SUBSET End
  <2> HIDE DEF shut
  <2> QED BY DEF NetType
<1>4. Keep(n, p, keep) = [n EXCEPT !.hold = hold, !.box = box, !.rst = rst]
  BY DEF Keep
<1> HIDE DEF hold, shut, box, rst
<1> QED BY <1>1, <1>2, <1>3, <1>4 DEF NetType

LEMMA ConnectType ==
  ASSUME NEW n \in NetType, NEW l \in Lines, NEW who \in SUBSET Procs, NEW h \in Hosts,
         NEW m \in Message
  PROVE  Connect(n, l, who, h, m) \in NetType
<1>1. <<l, "near">> \in End /\ <<l, "far">> \in End
  BY DEF End
<1>2. {Main(h)} \in SUBSET Procs
  BY DEF Main, Procs, Daemons
<1>3. <<m>> \in Seq(Message)
  OBVIOUS
<1>4. Append(n.ear[h], <<l, "far">>) \in Seq(End)
  BY <1>1 DEF NetType
<1> QED BY <1>1, <1>2, <1>3, <1>4 DEF Connect, NetType

LEMMA SocketPairType ==
  ASSUME NEW n \in NetType, NEW l \in Lines, NEW p \in Procs, NEW q \in Procs
  PROVE  SocketPair(n, l, p, q) \in NetType
<1>1. <<l, "near">> \in End /\ <<l, "far">> \in End
  BY DEF End
<1> QED BY <1>1 DEF SocketPair, NetType

LEMMA ForkType ==
  ASSUME NEW n \in NetType, NEW p, NEW q \in Procs, NEW backlog
  PROVE  Fork(n, p, q, backlog) \in NetType
BY DEF Fork, NetType

LEMMA AcceptType ==
  ASSUME NEW n \in NetType, NEW h \in Hosts, n.ear[h] # <<>>
  PROVE  /\ Accept(n, h) \in NetType
         /\ Head(n.ear[h]) \in End
         /\ Accept(n, h).hold = n.hold
         /\ Accept(n, h).listen = n.listen
<1>1. n.ear[h] \in Seq(End)
  BY DEF NetType
<1>2. Tail(n.ear[h]) \in Seq(End) /\ Head(n.ear[h]) \in End
  BY <1>1
<1> QED BY <1>2 DEF Accept, NetType

LEMMA UnlistenType ==
  ASSUME NEW n \in NetType, NEW h \in Hosts
  PROVE  Unlisten(n, h) \in NetType
<1>1. <<>> \in Seq(End)
  OBVIOUS
<1> QED BY <1>1 DEF Unlisten, NetType

LEMMA NetInitType == NetInit => NetTypeOK
<1>1. <<>> \in Seq(End) /\ <<>> \in Seq(Message)
  OBVIOUS
<1> QED BY <1>1 DEF NetInit, NetTypeOK, NetType

(* The lines that are free depend on who holds their ends only.             *)
LEMMA FreeLinesByHold ==
  ASSUME NEW n, NEW o, n.hold = o.hold PROVE FreeLines(n) = FreeLines(o)
BY DEF FreeLines

-----------------------------------------------------------------------------
(* Every handler of the daemon keeps the type of the situation it is given.*)

Situation == [d : [Daemons -> DaemonType], n : NetType]

LEMMA ProcsFacts ==
  /\ Daemons \subseteq Procs
  /\ \A h \in Hosts : Main(h) \in Daemons /\ Exec(h) \in Daemons
  /\ \A p \in Daemons : p[1] \in Hosts /\ p[2] \in {"main", "exec"}
                        /\ p = <<p[1], p[2]>> /\ Exec(p[1]) \in Daemons
BY DEF Daemons, Procs, Main, Exec

LEMMA ConstantsType ==
  /\ NoEnd \in Ends0
  /\ NoLines \in [Spot -> Ends0]
  /\ Idle \in [Slot -> Ends0]
  /\ NoWait \in WaitType
  /\ Dead \in DaemonType
  /\ Fresh \in DaemonType
<1>1. NoEnd \in Ends0
  BY DEF Ends0
<1>2. NoLines \in [Spot -> Ends0] /\ Idle \in [Slot -> Ends0]
  BY <1>1 DEF NoLines, Idle
<1>3. NoWait \in WaitType
  BY <1>1, MasterIsChan DEF NoWait, WaitType
<1>4. Dead \in DaemonType /\ Fresh \in DaemonType
  BY <1>1, <1>2, <1>3 DEF Dead, Fresh, DaemonType, State, Mode
<1> QED BY <1>1, <1>2, <1>3, <1>4

(* Changing one process, or the network, of a situation.                    *)
LEMMA SetProc ==
  ASSUME NEW S \in Situation, NEW p \in Daemons, NEW d \in DaemonType
  PROVE  [S EXCEPT !.d[p] = d] \in Situation
BY DEF Situation

LEMMA SetNet ==
  ASSUME NEW S \in Situation, NEW n \in NetType
  PROVE  [S EXCEPT !.n = n] \in Situation
BY DEF Situation

LEMMA Components ==
  ASSUME NEW S \in Situation
  PROVE  /\ S.n \in NetType
         /\ S.d \in [Daemons -> DaemonType]
         /\ \A p \in Daemons : S.d[p] \in DaemonType
BY DEF Situation

LEMMA DieType ==
  ASSUME NEW S \in Situation, NEW p \in Daemons
  PROVE  Die(S, p) \in Situation
<1> DEFINE n == Keep(S.n, p, {})
<1>1. n \in NetType
  BY KeepType, Components
<1>2. (IF p[2] = "main" THEN Unlisten(n, p[1]) ELSE n) \in NetType
  BY <1>1, UnlistenType, ProcsFacts
<1>3. [S.d EXCEPT ![p] = Dead] \in [Daemons -> DaemonType]
  BY Components, ConstantsType
<1> HIDE DEF n
<1>4. Die(S, p) = [d |-> [S.d EXCEPT ![p] = Dead],
                   n |-> IF p[2] = "main" THEN Unlisten(n, p[1]) ELSE n]
  BY DEF Die, n
<1> QED BY <1>2, <1>3, <1>4 DEF Situation

(* Changes of single fields of a process.                                   *)
LEMMA FieldTypes ==
  ASSUME NEW d \in DaemonType
  PROVE  /\ [d EXCEPT !.child = FALSE] \in DaemonType
         /\ [d EXCEPT !.wait = NoWait] \in DaemonType
         /\ \A t \in [Slot -> Ends0] : [d EXCEPT !.todo = t] \in DaemonType
         /\ \A w \in WaitType : [d EXCEPT !.wait = w] \in DaemonType
         /\ \A s \in State : [d EXCEPT !.state = s] \in DaemonType
         /\ \A m \in Mode : [d EXCEPT !.mode = m] \in DaemonType
         /\ [d EXCEPT !.runMain = TRUE] \in DaemonType
BY ConstantsType DEF DaemonType

LEMMA ProcsWith ==
  ASSUME NEW D \in [Daemons -> DaemonType], NEW p \in Daemons
  PROVE  /\ \A d \in DaemonType : [D EXCEPT ![p] = d] \in [Daemons -> DaemonType]
         /\ [D EXCEPT ![p].child = FALSE] \in [Daemons -> DaemonType]
         /\ \A t \in [Slot -> Ends0] : [D EXCEPT ![p].todo = t] \in [Daemons -> DaemonType]
         /\ \A w \in WaitType : [D EXCEPT ![p].wait = w] \in [Daemons -> DaemonType]
         /\ \A m \in Mode : [D EXCEPT ![p].mode = m] \in [Daemons -> DaemonType]
BY FieldTypes

LEMMA SituationWith ==
  ASSUME NEW S \in Situation, NEW p \in Daemons
  PROVE  /\ [S EXCEPT !.d[p].child = FALSE] \in Situation
         /\ \A t \in [Slot -> Ends0] : [S EXCEPT !.d[p].todo = t] \in Situation
         /\ \A w \in WaitType : [S EXCEPT !.d[p].wait = w] \in Situation
         /\ \A m \in Mode : [S EXCEPT !.d[p].mode = m] \in Situation
BY ProcsWith, Components DEF Situation

LEMMA WaitForChildType ==
  ASSUME NEW S \in Situation, NEW p \in Daemons, NEW wait \in BOOLEAN
  PROVE  WaitForChild(S, p, wait) \in Situation
<1>1. CASE ~S.d[p].child
  BY <1>1 DEF WaitForChild
<1>2. CASE S.d[p].child /\ wait
  <2>1. [NoWait EXCEPT !.on = "bury"] \in WaitType
    BY ConstantsType DEF WaitType
  <2>2. [S.d[p] EXCEPT !.wait = [NoWait EXCEPT !.on = "bury"]] \in DaemonType
    BY <2>1, FieldTypes, Components
  <2>3. [S EXCEPT !.d[p] = [S.d[p] EXCEPT !.wait = [NoWait EXCEPT !.on = "bury"]]] \in Situation
    BY <2>2, SetProc
  <2> QED BY <1>2, <2>3 DEF WaitForChild, Situation
<1>3. CASE S.d[p].child /\ ~wait
  <2>1. [S.d[p] EXCEPT !.child = FALSE] \in DaemonType
    BY FieldTypes, Components
  <2>2. [S EXCEPT !.d[p].child = FALSE] \in Situation
    BY <2>1 DEF Situation
  <2>3. Exec(p[1]) \in Daemons
    BY ProcsFacts
  <2>4. Die([S EXCEPT !.d[p].child = FALSE], Exec(p[1])) \in Situation
    BY <2>2, <2>3, DieType
  <2> QED BY <1>3, <2>4 DEF WaitForChild
<1> QED BY <1>1, <1>2, <1>3

LEMMA BlankType == ASSUME NEW d \in DaemonType PROVE Blank(d) \in DaemonType
BY ConstantsType DEF Blank, DaemonType, State, Quitting

LEMMA SetDefaultType ==
  ASSUME NEW S \in Situation, NEW p \in Daemons, NEW wait \in BOOLEAN
  PROVE  SetDefault(S, p, wait) \in Situation
<1>1. [S EXCEPT !.d[p] = Blank(S.d[p])] \in Situation
  BY BlankType, Components, SetProc
<1> QED BY <1>1, WaitForChildType DEF SetDefault

LEMMA PeerLinesType ==
  ASSUME NEW d \in DaemonType PROVE PeerLines(d) \in SUBSET Ends0
<1>1. \A r \in Ranks : <<r, Master>> \in Spot
  BY MasterIsChan DEF Spot
<1>2. \A r \in Ranks : d.line[<<r, Master>>] \in Ends0
  BY <1>1 DEF DaemonType
<1> QED BY <1>2 DEF PeerLines

LEMMA ResetType ==
  ASSUME NEW S \in Situation, NEW p \in Daemons, NEW code \in Code
  PROVE  Reset(S, p, code) \in Situation
<1>1. SendEach(S.n, PeerLines(S.d[p]), Msg(code)) \in NetType
  BY Components, PeerLinesType, MsgIsMessage, SendEachType
<1>2. [S EXCEPT !.n = SendEach(S.n, PeerLines(S.d[p]), Msg(code))] \in Situation
  BY <1>1, SetNet
<1> QED BY <1>2, SetDefaultType DEF Reset

LEMMA FinishType ==
  ASSUME NEW S \in Situation, NEW p \in Daemons
  PROVE  Finish(S, p) \in Situation
<1> DEFINE e == S.d[p].line[<<0, Master>>]
           d == [S.d EXCEPT ![p].mode = "exit", ![p].todo = Idle, ![p].wait = NoWait]
<1>1. d \in [Daemons -> DaemonType]
  BY Components, ProcsWith, ConstantsType DEF Mode
<1>2. Send(S.n, e, Msg("Done")) \in NetType
  BY Components, SendType, MsgIsMessage, CodeFacts
<1> HIDE DEF d
<1>3. [d |-> d, n |-> Send(S.n, e, Msg("Done"))] \in Situation
  BY <1>1, <1>2 DEF Situation
<1> QED BY <1>3, DieType DEF Finish, d

LEMMA RaiseType ==
  ASSUME NEW S \in Situation, NEW p \in Daemons
  PROVE  Raise(S, p) \in Situation
<1> DEFINE T == [S EXCEPT !.d[p].wait = NoWait, !.d[p].todo = Idle]
<1>1. T \in Situation
  <2>1. [S EXCEPT !.d[p].wait = NoWait] \in Situation
    BY SituationWith, ConstantsType
  <2> QED BY <2>1, SituationWith, ConstantsType
<1> HIDE DEF T
<1>2. Reset(T, p, "Error") \in Situation /\ Finish(T, p) \in Situation /\ Die(S, p) \in Situation
  BY <1>1, ResetType, FinishType, DieType, CodeFacts
<1> QED BY <1>2 DEF Raise, T

LEMMA ConsumeType ==
  ASSUME NEW S \in Situation, NEW e
  PROVE  /\ Consume(S, e) \in Situation
         /\ Consume(S, e).d = S.d
         /\ Consume(S, e).n.hold = S.n.hold
         /\ FreeLines(Consume(S, e).n) = FreeLines(S.n)
<1>1. Receive(S.n, e) \in NetType /\ Receive(S.n, e).hold = S.n.hold
  BY Components, ReceiveType
<1>2. Consume(S, e) = [S EXCEPT !.n = Receive(S.n, e)]
  BY DEF Consume
<1>3. Consume(S, e).d = S.d /\ Consume(S, e).n = Receive(S.n, e)
  BY <1>2 DEF Situation
<1> QED BY <1>1, <1>2, <1>3, SetNet, FreeLinesByHold

LEMMA StopRoundType ==
  ASSUME NEW S \in Situation, NEW p \in Daemons PROVE StopRound(S, p) \in Situation
BY SituationWith, ConstantsType DEF StopRound

LEMMA AnswerType ==
  ASSUME NEW S \in Situation, NEW p \in Daemons, NEW e, NEW c \in Code, NEW d \in DaemonType
  PROVE  Answer(S, p, e, c, d) \in Situation
<1>1. Send(S.n, e, Msg(c)) \in NetType
  BY Components, MsgIsMessage, SendType
<1>2. [S.d EXCEPT ![p] = d] \in [Daemons -> DaemonType]
  BY Components
<1>3. [d |-> [S.d EXCEPT ![p] = d], n |-> Send(S.n, e, Msg(c))] \in Situation
  BY <1>1, <1>2 DEF Situation
<1> QED BY <1>3, RaiseType DEF Answer

LEMMA RefuseType ==
  ASSUME NEW S \in Situation, NEW p \in Daemons, NEW e PROVE Refuse(S, p, e) \in Situation
BY AnswerType, Components, CodeFacts DEF Refuse

LEMMA OneLineType == ASSUME NEW e \in Ends0 PROVE OneLine(e) \in [Chan -> Ends0]
BY ConstantsType DEF OneLine

LEMMA InsertType ==
  ASSUME NEW d \in DaemonType, NEW r, NEW lines \in [Chan -> Ends0]
  PROVE  Insert(d, r, lines) \in DaemonType
<1> DEFINE line == [s \in Spot |-> IF s[1] = r THEN lines[s[2]] ELSE d.line[s]]
<1>1. line \in [Spot -> Ends0]
  BY DEF Spot, DaemonType
<1> HIDE DEF line
<1>2. [d EXCEPT !.line = line] \in DaemonType
  BY <1>1 DEF DaemonType
<1> QED BY <1>2 DEF Insert, line

-----------------------------------------------------------------------------
(* The handlers.                                                            *)

LEMMA EnslaveType ==
  ASSUME NEW S \in Situation, NEW p \in Daemons, NEW e \in Ends0, NEW m \in Message, NEW late
  PROVE  Enslave(S, p, e, m, late) \in Situation
<1>1. Insert(S.d[p], 0, OneLine(e)) \in DaemonType
  BY InsertType, OneLineType, Components
<1> DEFINE d == Insert(S.d[p], 0, OneLine(e))
<1> HIDE DEF d
<1>2. [d EXCEPT !.rank = m.arg, !.state = "Enslaved"] \in DaemonType
  BY <1>1, MessageWith DEF d, DaemonType, State
<1>3. Refuse(S, p, e) \in Situation /\ Raise(Consume(S, e), p) \in Situation
  BY RefuseType, RaiseType, ConsumeType
<1>4. Answer(Consume(S, e), p, e, "OK", [d EXCEPT !.rank = m.arg, !.state = "Enslaved"])
        \in Situation
  BY <1>2, ConsumeType, AnswerType, CodeFacts
<1> QED BY <1>3, <1>4 DEF Enslave, d

LEMMA ReleaseType ==
  ASSUME NEW S \in Situation, NEW p \in Daemons, NEW e
  PROVE  Release(S, p, e) \in Situation
<1> DEFINE T == Consume(S, e)
<1>1. T \in Situation
  BY ConsumeType
<1> HIDE DEF T
<1>2. Refuse(T, p, e) \in Situation /\ Raise(T, p) \in Situation
  BY <1>1, RefuseType, RaiseType
<1>3. Answer(T, p, e, "OK", T.d[p]) \in Situation
  BY <1>1, AnswerType, Components, CodeFacts
<1>4. SetDefault(Answer(T, p, e, "OK", T.d[p]), p, FALSE) \in Situation
  BY <1>3, SetDefaultType
<1> QED BY <1>2, <1>4 DEF Release, T

LEMMA StartGroupingType ==
  ASSUME NEW S \in Situation, NEW p \in Daemons, NEW e, NEW m \in Message
  PROVE  StartGrouping(S, p, e, m) \in Situation
<1> DEFINE T == Consume(S, e)
<1>1. T \in Situation
  BY ConsumeType
<1> HIDE DEF T
<1>2. [T.d[p] EXCEPT !.state = "FormingGroup", !.world = m.arg] \in DaemonType
  <2>1. T.d[p] \in DaemonType /\ m.arg \in Nat
    BY <1>1, Components, MessageWith
  <2> QED BY <2>1 DEF DaemonType, State
<1>3. Answer(T, p, e, "OK", [T.d[p] EXCEPT !.state = "FormingGroup", !.world = m.arg])
        \in Situation
  BY <1>1, <1>2, AnswerType, CodeFacts
<1> QED BY <1>1, <1>3, RefuseType DEF StartGrouping, T

LEMMA ConnectLineType ==
  ASSUME NEW S \in Situation, NEW p \in Daemons, NEW k \in Chan, NEW w \in WaitType,
         FreeLines(S.n) # {}
  PROVE  ConnectLine(S, p, k, w) \in Situation
<1> DEFINE l == NewLine(S.n)
           code == IF k = Master THEN "Join" ELSE "DataLine"
           m == [MsgArg(code, S.d[p].rank) EXCEPT !.chan = k]
           v == [w EXCEPT !.on = "line", !.chan = k, !.end = <<l, "near">>]
           D == [S.d EXCEPT ![p].wait = v]
<1>1. CASE w.host \notin S.n.listen
  BY <1>1, RaiseType DEF ConnectLine
<1>2. CASE w.host \in S.n.listen
  <2>1. l \in Lines
    BY NewLineIsLine, Components
  <2>2. w.host \in Hosts
    BY <1>2, Components DEF NetType
  <2>3. m \in Message
    <3>1. S.d[p].rank \in Nat
      BY Components DEF DaemonType
    <3>2. code \in Code
      BY CodeFacts
    <3> HIDE DEF code
    <3>3. MsgArg(code, S.d[p].rank) \in Message
      BY <3>1, <3>2, MsgArgIsMessage
    <3> QED BY <3>3, MessageWith
  <2>4. v \in WaitType
    <3>1. <<l, "near">> \in Ends0
      BY <2>1 DEF End, Ends0
    <3> HIDE DEF l
    <3> QED BY <3>1 DEF WaitType
  <2> HIDE DEF l, m, v
  <2>5. D \in [Daemons -> DaemonType]
    BY <2>4, ProcsWith, Components
  <2>6. {p} \in SUBSET Procs
    BY ProcsFacts
  <2>7. Connect(S.n, l, {p}, w.host, m) \in NetType
    BY <2>1, <2>2, <2>3, <2>6, ConnectType, Components
  <2>8. [d |-> D, n |-> Connect(S.n, l, {p}, w.host, m)] \in Situation
    <3> HIDE DEF D
    <3> QED BY <2>5, <2>7 DEF Situation
  <2> QED BY <1>2, <2>8 DEF ConnectLine, l, m, v
<1> QED BY <1>1, <1>2

LEMMA ConnectingType ==
  ASSUME NEW S \in Situation, NEW p \in Daemons, NEW e \in Ends0, NEW m \in Message,
         FreeLines(S.n) # {}
  PROVE  Connecting(S, p, e, m) \in Situation
<1> DEFINE T == Consume(S, e)
           w == [NoWait EXCEPT !.reply = e, !.host = m.host, !.arg = m.arg]
<1>1. T \in Situation /\ FreeLines(T.n) # {}
  BY ConsumeType
<1>2. w \in WaitType
  BY ConstantsType, MessageWith DEF WaitType
<1> HIDE DEF T, w
<1>3. ConnectLine(T, p, Master, w) \in Situation /\ Refuse(T, p, e) \in Situation
  BY <1>1, <1>2, ConnectLineType, MasterIsChan, RefuseType
<1> QED BY <1>3 DEF Connecting, T, w

LEMMA ConnectedType ==
  ASSUME NEW S \in Situation, NEW p \in Daemons, FreeLines(S.n) # {}
  PROVE  Connected(S, p) \in Situation
<1> DEFINE w == S.d[p].wait
           answer == Peek(S.n, w.end).tag
           lines == [w.lines EXCEPT ![w.chan] = w.end]
           T == [Consume(S, w.end) EXCEPT !.d[p].wait = NoWait]
           U == [T EXCEPT !.d[p] = Insert(T.d[p], w.arg, lines)]
           v == [w EXCEPT !.lines = lines]
<1>1. w \in WaitType
  BY Components DEF DaemonType
<1>2. lines \in [Chan -> Ends0]
  <2> HIDE DEF w
  <2> QED BY <1>1 DEF WaitType
<1>3. v \in WaitType
  <2> HIDE DEF w, lines
  <2> QED BY <1>1, <1>2 DEF WaitType
<1>4. T \in Situation /\ FreeLines(T.n) # {}
  <2>1. Consume(S, w.end) \in Situation /\ FreeLines(Consume(S, w.end).n) # {}
    BY ConsumeType
  <2>2. T.n = Consume(S, w.end).n
    BY <2>1 DEF Situation
  <2> QED BY <2>1, <2>2, SituationWith, ConstantsType
<1> HIDE DEF w, lines, T, v
<1>5. U \in Situation
  BY <1>2, <1>4, InsertType, Components, SetProc
<1> HIDE DEF U
<1>6. U.d[p] \in DaemonType
  BY <1>5, Components
<1>7. w.chan + 1 \in Chan => ConnectLine(T, p, w.chan + 1, v) \in Situation
  BY <1>3, <1>4, ConnectLineType
<1>8. /\ Answer(U, p, w.reply, "OK", U.d[p]) \in Situation
      /\ Refuse(T, p, w.reply) \in Situation
      /\ Raise(T, p) \in Situation
  BY <1>4, <1>5, <1>6, AnswerType, RefuseType, RaiseType, CodeFacts
<1>9. Connected(S, p) =
        CASE answer = "OK" /\ w.chan + 1 \in Chan -> ConnectLine(T, p, w.chan + 1, v)
          [] answer = "OK" /\ w.chan + 1 \notin Chan -> Answer(U, p, w.reply, "OK", U.d[p])
          [] answer = "Refuse" -> Refuse(T, p, w.reply)
          [] OTHER -> Raise(T, p)
  BY DEF Connected, w, lines, T, U, v
<1> HIDE DEF answer
<1> QED BY <1>7, <1>8, <1>9

LEMMA JoinType ==
  ASSUME NEW S \in Situation, NEW p \in Daemons, NEW e \in Ends0, NEW m \in Message, NEW late
  PROVE  Join(S, p, e, m, late) \in Situation
<1> DEFINE T == Consume(S, e)
<1>1. T \in Situation
  BY ConsumeType
<1> HIDE DEF T
<1>2. Insert(T.d[p], m.arg, OneLine(e)) \in DaemonType
  BY <1>1, InsertType, OneLineType, Components
<1>3. Answer(T, p, e, "OK", Insert(T.d[p], m.arg, OneLine(e))) \in Situation
  BY <1>1, <1>2, AnswerType, CodeFacts
<1> QED BY <1>1, <1>3, RefuseType, RaiseType DEF Join, T

LEMMA AddDataLineType ==
  ASSUME NEW S \in Situation, NEW p \in Daemons, NEW e \in Ends0, NEW m \in Message
  PROVE  AddDataLine(S, p, e, m) \in Situation
<1> DEFINE T == Consume(S, e)
           d == T.d[p]
<1>1. T \in Situation /\ d \in DaemonType
  BY ConsumeType, Components
<1> HIDE DEF T, d
<1>2. [d EXCEPT !.line[<<m.arg, m.chan>>] = e] \in DaemonType
  BY <1>1 DEF DaemonType
<1>3. Answer(T, p, e, "OK", [d EXCEPT !.line[<<m.arg, m.chan>>] = e]) \in Situation
  BY <1>1, <1>2, AnswerType, CodeFacts
<1> QED BY <1>1, <1>3, RefuseType DEF AddDataLine, T, d

LEMMA GroupedType ==
  ASSUME NEW S \in Situation, NEW p \in Daemons, NEW e, FreeLines(S.n) # {}
  PROVE  Grouped(S, p, e) \in Situation
<1> DEFINE T == Consume(S, e)
           l == NewLine(S.n)
           d == T.d[p]
           n == SocketPair(Fork(Send(T.n, e, Msg("OK")), p, Exec(p[1]), Backlog(T.n, p)),
                           l, p, Exec(p[1]))
           parent == [d EXCEPT !.line = NoLines, !.state = "Supervising",
                               !.rope = <<l, "near">>, !.child = TRUE]
           child == [d EXCEPT !.state = "Grouped", !.rope = <<l, "far">>, !.cache = d.line]
           D == [T.d EXCEPT ![p] = parent, ![Exec(p[1])] = child]
<1>1. T \in Situation /\ d \in DaemonType
  BY ConsumeType, Components
<1>2. l \in Lines
  BY NewLineIsLine, Components
<1>3. p \in Procs /\ Exec(p[1]) \in Procs /\ Exec(p[1]) \in Daemons
  BY ProcsFacts
<1>4. <<l, "near">> \in Ends0 /\ <<l, "far">> \in Ends0
  BY <1>2 DEF End, Ends0
<1> HIDE DEF T, d, l
<1>5. parent \in DaemonType
  BY <1>1, <1>4, ConstantsType DEF DaemonType, State
<1>6. child \in DaemonType
  BY <1>1, <1>4, ConstantsType DEF DaemonType, State
<1>7. n \in NetType
  <2>1. Send(T.n, e, Msg("OK")) \in NetType
    BY <1>1, Components, SendType, MsgIsMessage, CodeFacts
  <2>2. Fork(Send(T.n, e, Msg("OK")), p, Exec(p[1]), Backlog(T.n, p)) \in NetType
    BY <2>1, <1>3, ForkType
  <2> QED BY <2>2, <1>2, <1>3, SocketPairType
<1> HIDE DEF n, parent, child
<1>8. D \in [Daemons -> DaemonType]
  <2>1. T.d \in [Daemons -> DaemonType]
    BY <1>1, Components
  <2> QED BY <2>1, <1>5, <1>6
<1> HIDE DEF D
<1>9. [d |-> D, n |-> n] \in Situation
  BY <1>7, <1>8 DEF Situation
<1>10. Refuse(T, p, e) \in Situation /\ Raise(T, p) \in Situation
  BY <1>1, RefuseType, RaiseType
<1> QED BY <1>9, <1>10 DEF Grouped, T, l, d, n, parent, child, D

LEMMA InitDataType ==
  ASSUME NEW S \in Situation, NEW p \in Daemons, NEW e
  PROVE  InitData(S, p, e) \in Situation
BY ConsumeType DEF InitData

LEMMA RunType ==
  ASSUME NEW S \in Situation, NEW p \in Daemons, NEW e \in Ends0
  PROVE  Run(S, p, e) \in Situation
<1> DEFINE w == [NoWait EXCEPT !.on = "start", !.end = e]
<1>1. w \in WaitType
  BY ConstantsType DEF WaitType
<1> HIDE DEF w
<1>2. [S.d[p] EXCEPT !.wait = w] \in DaemonType
  BY <1>1, FieldTypes, Components
<1>3. Answer(Consume(S, e), p, e, "OK", [S.d[p] EXCEPT !.wait = w]) \in Situation
  BY <1>2, ConsumeType, AnswerType, CodeFacts
<1> QED BY <1>3, RefuseType DEF Run, w

LEMMA StartedType ==
  ASSUME NEW S \in Situation, NEW p \in Daemons
  PROVE  Started(S, p) \in Situation
<1> DEFINE e == S.d[p].wait.end
           T == [Consume(S, e) EXCEPT !.d[p].wait = NoWait]
<1>1. T \in Situation
  BY ConsumeType, SituationWith, ConstantsType
<1> HIDE DEF T
<1>2. [T EXCEPT !.d[p].runMain = TRUE] \in Situation
  <2>1. [T.d[p] EXCEPT !.runMain = TRUE] \in DaemonType
    BY <1>1, Components, FieldTypes
  <2> QED BY <1>1, <2>1 DEF Situation
<1> QED BY <1>1, <1>2, RaiseType DEF Started, T

LEMMA PrepareType ==
  ASSUME NEW S \in Situation, NEW p \in Daemons, NEW e
  PROVE  Prepare(S, p, e) \in Situation
<1> DEFINE T == Consume(S, e)
<1>1. T \in Situation /\ T.d[p] \in DaemonType
  BY ConsumeType, Components
<1> HIDE DEF T
<1>2. [T.d[p] EXCEPT !.state = "Leaving"] \in DaemonType
  BY <1>1, FieldTypes DEF State
<1>3. Answer(T, p, e, "OK", [T.d[p] EXCEPT !.state = "Leaving"]) \in Situation
  BY <1>1, <1>2, AnswerType, CodeFacts
<1> QED BY <1>1, <1>3, RefuseType DEF Prepare, T

LEMMA LeaveType ==
  ASSUME NEW S \in Situation, NEW p \in Daemons, NEW e \in Ends0
  PROVE  Leave(S, p, e) \in Situation
<1> DEFINE T == Consume(S, e)
           d == T.d[p]
           w == [NoWait EXCEPT !.on = "ack", !.end = d.rope, !.reply = e]
<1>1. T \in Situation /\ d \in DaemonType
  BY ConsumeType, Components
<1> HIDE DEF T, d
<1>2. w \in WaitType
  <2>1. d.rope \in Ends0
    BY <1>1 DEF DaemonType
  <2> QED BY <2>1, ConstantsType DEF WaitType
<1> HIDE DEF w
<1>3. [d EXCEPT !.wait = w] \in DaemonType
  BY <1>1, <1>2, FieldTypes
<1>4. Answer(T, p, d.rope, "CutRope", [d EXCEPT !.wait = w]) \in Situation
  BY <1>1, <1>3, AnswerType, CodeFacts
<1> QED BY <1>1, <1>4, RefuseType, DieType DEF Leave, T, d, w

LEMMA AcknowledgedType ==
  ASSUME NEW S \in Situation, NEW p \in Daemons
  PROVE  Acknowledged(S, p) \in Situation
<1> DEFINE w == S.d[p].wait
           T == [Consume(S, w.end) EXCEPT !.d[p].wait = NoWait]
<1>1. T \in Situation
  BY ConsumeType, SituationWith, ConstantsType
<1> HIDE DEF T
<1>2. [T.d[p] EXCEPT !.world = 0, !.quit = TRUE] \in DaemonType
  <2>1. T.d[p] \in DaemonType
    BY <1>1, Components
  <2> QED BY <2>1 DEF DaemonType
<1>3. Answer(T, p, w.reply, "OK", [T.d[p] EXCEPT !.world = 0, !.quit = TRUE]) \in Situation
  BY <1>1, <1>2, AnswerType, CodeFacts
<1> QED BY <1>3 DEF Acknowledged, T

LEMMA CutRopeType ==
  ASSUME NEW S \in Situation, NEW p \in Daemons, NEW e
  PROVE  CutRope(S, p, e) \in Situation
<1> DEFINE T == Consume(S, e)
<1>1. T \in Situation /\ T.d[p] \in DaemonType
  BY ConsumeType, Components
<1> HIDE DEF T
<1>2. SetDefault(Answer(T, p, e, "OK", T.d[p]), p, TRUE) \in Situation
  BY <1>1, AnswerType, SetDefaultType, CodeFacts
<1> QED BY <1>1, <1>2, RefuseType, RaiseType DEF CutRope, T

LEMMA ErrorType ==
  ASSUME NEW S \in Situation, NEW p \in Daemons, NEW e
  PROVE  Error(S, p, e) \in Situation
BY ConsumeType, ResetType, CodeFacts DEF Error

LEMMA StatusReplyType ==
  ASSUME NEW S \in Situation, NEW p \in Daemons, NEW e
  PROVE  StatusReply(S, p, e) \in Situation
BY ConsumeType, AnswerType, Components, CodeFacts DEF StatusReply

LEMMA ShutdownType ==
  ASSUME NEW S \in Situation, NEW p \in Daemons, NEW e
  PROVE  Shutdown(S, p, e) \in Situation
<1> DEFINE T == Consume(S, e)
<1>1. T \in Situation /\ T.d[p] \in DaemonType
  BY ConsumeType, Components
<1> HIDE DEF T
<1>2. Die(SetDefault(Answer(T, p, e, "OK", T.d[p]), p, FALSE), p) \in Situation
  BY <1>1, AnswerType, SetDefaultType, DieType, CodeFacts
<1> QED BY <1>1, <1>2, RefuseType, RaiseType DEF Shutdown, T

LEMMA ForceType ==
  ASSUME NEW S \in Situation, NEW p \in Daemons, NEW e
  PROVE  ForceShutdown(S, p, e) \in Situation /\ ForceReset(S, p, e) \in Situation
BY ConsumeType, SetDefaultType, DieType, ResetType, CodeFacts DEF ForceShutdown, ForceReset

LEMMA ProcessControlType ==
  ASSUME NEW S \in Situation, NEW p \in Daemons, NEW e \in Ends0, NEW late, FreeLines(S.n) # {}
  PROVE  ProcessControl(S, p, e, late) \in Situation
<1> DEFINE m == Peek(S.n, e)
<1>1. m \in Message
  BY PeekType, Components
<1> HIDE DEF m
<1>2. /\ Enslave(S, p, e, m, late) \in Situation
      /\ Release(S, p, e) \in Situation
      /\ StartGrouping(S, p, e, m) \in Situation
      /\ Connecting(S, p, e, m) \in Situation
      /\ Join(S, p, e, m, late) \in Situation
      /\ AddDataLine(S, p, e, m) \in Situation
      /\ Grouped(S, p, e) \in Situation
      /\ InitData(S, p, e) \in Situation
      /\ Run(S, p, e) \in Situation
  BY <1>1, EnslaveType, ReleaseType, StartGroupingType, ConnectingType, JoinType,
     AddDataLineType, GroupedType, InitDataType, RunType
<1>3. /\ Prepare(S, p, e) \in Situation
      /\ Leave(S, p, e) \in Situation
      /\ CutRope(S, p, e) \in Situation
      /\ Error(S, p, e) \in Situation
      /\ StatusReply(S, p, e) \in Situation
      /\ Shutdown(S, p, e) \in Situation
      /\ ForceShutdown(S, p, e) \in Situation
      /\ ForceReset(S, p, e) \in Situation
      /\ Raise(Consume(S, e), p) \in Situation
  BY PrepareType, LeaveType, CutRopeType, ErrorType, StatusReplyType, ShutdownType,
     ForceType, RaiseType, ConsumeType
<1> QED BY <1>2, <1>3 DEF ProcessControl, m

LEMMA ProcessDisconnectedType ==
  ASSUME NEW S \in Situation, NEW p \in Daemons
  PROVE  ProcessDisconnected(S, p) \in Situation
BY SetDefaultType, DieType DEF ProcessDisconnected

LEMMA ProcessIncomingType ==
  ASSUME NEW S \in Situation, NEW p \in Daemons, NEW late, FreeLines(S.n) # {},
         S.n.ear[p[1]] # <<>>
  PROVE  ProcessIncoming(S, p, late) \in Situation
<1> DEFINE e == Head(S.n.ear[p[1]])
           R == [S EXCEPT !.n = Accept(S.n, p[1])]
           T == ProcessControl(R, p, e, late)
<1>1. Accept(S.n, p[1]) \in NetType /\ e \in Ends0 /\ FreeLines(Accept(S.n, p[1])) # {}
  BY AcceptType, Components, ProcsFacts, FreeLinesByHold DEF Ends0
<1>2. R \in Situation /\ R.n = Accept(S.n, p[1])
  BY <1>1 DEF Situation
<1> HIDE DEF e, R
<1>3. T \in Situation
  BY <1>1, <1>2, ProcessControlType
<1> HIDE DEF T
<1>4. Keep(T.n, p, End \ {e}) \in NetType
  BY <1>3, Components, KeepType
<1>5. [T EXCEPT !.n = Keep(T.n, p, End \ {e})] \in Situation
  BY <1>3, <1>4, SetNet
<1> QED BY <1>3, <1>5 DEF ProcessIncoming, e, R, T

LEMMA ProcessType ==
  ASSUME NEW S \in Situation, NEW p \in Daemons, NEW e \in Ends0 \cup {Ear}, NEW late,
         FreeLines(S.n) # {}, e = Ear => S.n.ear[p[1]] # <<>>
  PROVE  Process(S, p, e, late) \in Situation
<1>1. CASE e = Ear
  BY <1>1, ProcessIncomingType DEF Process
<1>2. CASE e # Ear
  <2>1. e \in Ends0
    BY <1>2
  <2>2. ProcessControl(S, p, e, late) \in Situation
    BY <2>1, ProcessControlType
  <2>3. StopRound(ProcessControl(S, p, e, late), p) \in Situation
    BY <2>2, StopRoundType
  <2> QED BY <1>2, <2>2, <2>3, ProcessDisconnectedType DEF Process
<1> QED BY <1>1, <1>2

LEMMA SettleType ==
  ASSUME NEW S \in Situation, NEW p \in Daemons PROVE Settle(S, p) \in Situation
<1> DEFINE n == Keep(S.n, p, Refs(S.d[p]) \cup Backlog(S.n, p))
           T == [S EXCEPT !.n = n]
<1>1. T \in Situation
  BY Components, KeepType, SetNet
<1> HIDE DEF n, T
<1>2. [T EXCEPT !.d[p].mode = "main"] \in Situation
  BY <1>1, SituationWith DEF Mode
<1> QED BY <1>1, <1>2, DieType DEF Settle, n, T

LEMMA BuriedType ==
  ASSUME NEW S \in Situation, NEW p \in Daemons PROVE Buried(S, p) \in Situation
<1>1. [S EXCEPT !.d[p].child = FALSE] \in Situation
  BY SituationWith
<1> QED BY <1>1, SituationWith, ConstantsType DEF Buried

-----------------------------------------------------------------------------
(* The actions.                                                             *)
Typed == NetTypeOK /\ DaemonTypeOK

LEMMA NowType == ASSUME Typed PROVE Now \in Situation /\ Now.n = net /\ Now.d = daemon
BY DEF Typed, NetTypeOK, DaemonTypeOK, Now, Situation

LEMMA BecomeType ==
  ASSUME NEW S \in Situation, Become(S) PROVE Typed'
BY Components DEF Become, Typed, NetTypeOK, DaemonTypeOK

(* Ear is the first slot, and the only one where the ear is.                *)
LEMMA SlotFacts ==
  /\ EarSlot \in Slot /\ RopeSlot \in Slot /\ Spot \subseteq Slot
  /\ EarSlot \notin Spot
  /\ \A s \in Slot \ {EarSlot} : Before(EarSlot, s)
BY WireAssumption DEF Slot, Spot, EarSlot, RopeSlot, Before, Ranks, Master

LEMMA PolledType ==
  ASSUME Typed, NEW p \in Daemons, NEW k
  PROVE  /\ Polled(p, k) \in [Slot -> Ends0 \cup {Ear}]
         /\ \A s \in Slot \ {EarSlot} : Polled(p, k)[s] \in Ends0
         /\ Polled(p, k)[EarSlot] = Ear => net.ear[p[1]] # <<>>
<1> DEFINE d == daemon[p]
           Ready(e) == IF Readable(net, e) THEN e ELSE NoEnd
           Of(s) == IF d.mode = "loop"
                    THEN IF s = EarSlot
                         THEN IF p[2] = "main" /\ net.ear[p[1]] # <<>> THEN Ear ELSE NoEnd
                         ELSE IF s = RopeSlot THEN IF d.child THEN Ready(d.rope) ELSE NoEnd
                         ELSE IF s[2] = Master THEN Ready(d.line[s]) ELSE NoEnd
                    ELSE IF s \in Spot /\ (d.mode = "exit" \/ s[2] = k)
                         THEN Ready(d.cache[s]) ELSE NoEnd
<1>1. Polled(p, k) = [s \in Slot |-> Of(s)]
  BY DEF Polled
<1>2. d \in DaemonType
  BY DEF Typed, DaemonTypeOK
<1>3. \A e \in Ends0 : Ready(e) \in Ends0
  BY ConstantsType
<1>4. \A s \in Spot : d.line[s] \in Ends0 /\ d.cache[s] \in Ends0
  BY <1>2 DEF DaemonType
<1>5. d.rope \in Ends0
  BY <1>2 DEF DaemonType
<1> HIDE DEF d, Ready
<1>6. \A s \in Slot \ {EarSlot} : Of(s) \in Ends0
  BY <1>3, <1>4, <1>5, ConstantsType DEF Slot
<1>7. Of(EarSlot) \in {NoEnd, Ear} /\ (Of(EarSlot) = Ear => net.ear[p[1]] # <<>>)
  BY SlotFacts, NoEndIsNoEnd, ConstantsType
<1> HIDE DEF Of
<1> QED BY <1>1, <1>6, <1>7, SlotFacts, ConstantsType

LEMMA PollType == ASSUME Typed, NEW p \in Daemons, Poll(p) PROVE Typed'
<1> DEFINE round(k) == IF daemon[p].todo # Idle THEN daemon[p].todo ELSE Polled(p, k)
           Left(k, s) == [round(k) EXCEPT ![s] = NoEnd]
           S(k, s) == [Now EXCEPT !.d[p].todo = Left(k, s)]
<1>0. PICK k \in IF daemon[p].mode = "main" THEN Chan ELSE {Master}, late \in BOOLEAN :
        \E s \in Slot :
          /\ round(k)[s] # NoEnd
          /\ \A t \in Slot : Before(t, s) => round(k)[t] = NoEnd
          /\ Become(Settle(Process(S(k, s), p, round(k)[s], late), p))
  BY Zenon DEF Poll
<1>1. PICK s \in Slot :
        /\ round(k)[s] # NoEnd
        /\ \A t \in Slot : Before(t, s) => round(k)[t] = NoEnd
        /\ Become(Settle(Process(S(k, s), p, round(k)[s], late), p))
  BY <1>0
<1>2. daemon[p].todo \in [Slot -> Ends0]
  BY DEF Typed, DaemonTypeOK, DaemonType
<1>3. /\ round(k) \in [Slot -> Ends0 \cup {Ear}]
      /\ \A t \in Slot \ {EarSlot} : round(k)[t] \in Ends0
      /\ round(k)[EarSlot] = Ear => net.ear[p[1]] # <<>>
  <2>1. CASE daemon[p].todo # Idle
    BY <2>1, <1>2, SlotFacts, NoEndIsNoEnd
  <2>2. CASE daemon[p].todo = Idle
    BY <2>2, PolledType
  <2> QED BY <2>1, <2>2
<1> HIDE DEF round
<1>4. Left(k, s) \in [Slot -> Ends0]
  <2>1. CASE s = EarSlot
    BY <2>1, <1>3, ConstantsType
  <2>2. CASE s # EarSlot
    <3>1. round(k)[EarSlot] = NoEnd
      BY <2>2, <1>1, SlotFacts
    <3> QED BY <3>1, <1>3, ConstantsType
  <2> QED BY <2>1, <2>2
<1> HIDE DEF Left
<1>5. S(k, s) \in Situation /\ S(k, s).n = net
  <2>1. Now \in Situation /\ Now.n = net
    BY NowType
  <2>2. [Now EXCEPT !.d[p].todo = Left(k, s)].n = Now.n
    BY <2>1 DEF Situation
  <2> QED BY <1>4, <2>1, <2>2, SituationWith
<1> HIDE DEF S
<1>6. FreeLines(net) # {}
  <2>1. Room
    BY DEF Poll
  <2> QED BY <2>1 DEF Room
<1>7. round(k)[s] \in Ends0 \cup {Ear} /\ (round(k)[s] = Ear => net.ear[p[1]] # <<>>)
  BY <1>3, NoEndIsNoEnd
<1>8. Process(S(k, s), p, round(k)[s], late) \in Situation
  BY <1>5, <1>6, <1>7, ProcessType
<1> QED BY <1>1, <1>8, SettleType, BecomeType

LEMMA ResumeType == ASSUME Typed, NEW p \in Daemons, Resume(p) PROVE Typed'
<1>1. FreeLines(Now.n) # {}
  BY NowType DEF Resume, Room
<1>2. /\ Connected(Now, p) \in Situation
      /\ Started(Now, p) \in Situation
      /\ Acknowledged(Now, p) \in Situation
  BY <1>1, NowType, ConnectedType, StartedType, AcknowledgedType
<1> QED BY <1>2, SettleType, BecomeType DEF Resume

LEMMA BuryType == ASSUME Typed, NEW p \in Daemons, Bury(p) PROVE Typed'
BY NowType, BuriedType, SettleType, BecomeType DEF Bury

LEMMA FinishMainType == ASSUME Typed, NEW p \in Daemons, FinishMain(p) PROVE Typed'
BY NowType, FinishType, SettleType, BecomeType DEF FinishMain

LEMMA TimeOutType == ASSUME Typed, NEW p \in Daemons, TimeOut(p) PROVE Typed'
BY NowType, RaiseType, SettleType, BecomeType DEF TimeOut

LEMMA BuryLateType == ASSUME Typed, NEW p \in Daemons, BuryLate(p) PROVE Typed'
<1>1. Die(Now, Exec(p[1])) \in Situation
  BY NowType, DieType, ProcsFacts
<1> QED BY <1>1, BuriedType, SettleType, BecomeType DEF BuryLate

LEMMA ExecCrashType == ASSUME Typed, NEW h \in Hosts, ExecCrash(h) PROVE Typed'
BY NowType, DieType, ProcsFacts, BecomeType DEF ExecCrash

-----------------------------------------------------------------------------
(* What ties the main process of a daemon to its executive, and that every *)
(* step of a daemon keeps it, whatever the messages are: provided that the *)
(* main process is not in Leaving, the state that belongs to executives.   *)

(* A main process never runs a program and never quits by itself; it knows  *)
(* of a child and has a rope while it supervises, and of the child also     *)
(* while it waits for the child's death.                                    *)
MainOk(m) ==
  /\ m.child <=> m.state = "Supervising" \/ m.wait.on = "bury"
  /\ m.rope # NoEnd <=> m.state = "Supervising"
  /\ m.wait.on = "bury" => m.state # "Supervising"
  /\ m.wait.on \in {"no", "line", "bury"}
  /\ m.mode \in {"loop", "dead"}
  /\ m.mode = "dead" => m.wait.on = "no"
  /\ ~m.runMain /\ ~m.quit /\ m.state \notin {"Grouped", "Running"}

ExecOk(m, x) ==
  /\ x.mode # "dead" => m.child /\ m.mode = "loop"
  /\ x.mode = "dead" => x.wait.on = "no"

Bonds(D) ==
  /\ \A h \in Hosts : MainOk(D[Main(h)])
  /\ \A h \in Hosts : ExecOk(D[Main(h)], D[Exec(h)])
Bonded(S) == S \in Situation /\ Bonds(S.d)

(* Process p may handle a message, and go on to d.                          *)
Fit(S, p) ==
  /\ S.d[p].mode # "dead"
  /\ p[2] = "main" => S.d[p].wait.on # "bury" /\ S.d[p].state # "Leaving"
Follows(S, p, d) ==
  /\ d \in DaemonType /\ d.mode # "dead"
  /\ p[2] = "main" => /\ MainOk(d)
                      /\ d.child = S.d[p].child \/ S.d[Exec(p[1])].mode = "dead"

LEMMA MainOrExec ==
  /\ \A p \in Daemons : \/ p[2] = "main" /\ p = Main(p[1])
                        \/ p[2] # "main" /\ p = Exec(p[1])
  /\ \A p \in Daemons : Exec(p[1])[2] # "main" /\ Exec(Exec(p[1])[1]) = Exec(p[1])
  /\ \A h, g \in Hosts : /\ Main(h) # Exec(g) /\ Main(h)[2] = "main" /\ Exec(h)[2] # "main"
                         /\ Main(h)[1] = h /\ Exec(h)[1] = h
                         /\ h # g => Main(h) # Main(g) /\ Exec(h) # Exec(g)
BY DEF Daemons, Main, Exec

LEMMA BondParts ==
  ASSUME NEW S, Bonded(S), NEW p \in Daemons
  PROVE  /\ S \in Situation /\ S.d \in [Daemons -> DaemonType] /\ S.d[p] \in DaemonType
         /\ p[2] = "main" => MainOk(S.d[p]) /\ ExecOk(S.d[p], S.d[Exec(p[1])])
         /\ p[2] # "main" => ExecOk(S.d[Main(p[1])], S.d[p])
BY MainOrExec, ProcsFacts, Components DEF Bonded, Bonds

(* Only what the processes are counts, not the network.                     *)
LEMMA SameBond ==
  ASSUME NEW S, NEW T, Bonded(S), T \in Situation, T.d = S.d PROVE Bonded(T)
BY DEF Bonded

(* One process changes.                                                     *)
LEMMA FollowBond ==
  ASSUME NEW S, Bonded(S), NEW p \in Daemons, S.d[p].mode # "dead", NEW d, Follows(S, p, d),
         NEW T \in Situation, T.d = [S.d EXCEPT ![p] = d]
  PROVE  Bonded(T)
<1>1. S.d \in [Daemons -> DaemonType] /\ \A h \in Hosts : Main(h) \in Daemons /\ Exec(h) \in Daemons
  BY BondParts, ProcsFacts
<1>2. CASE p[2] = "main"
  <2>1. \A h \in Hosts : MainOk(T.d[Main(h)])
    <3> SUFFICES ASSUME NEW h \in Hosts PROVE MainOk(T.d[Main(h)])
      OBVIOUS
    <3>1. T.d[Main(h)] = IF Main(h) = p THEN d ELSE S.d[Main(h)]
      BY <1>1
    <3> QED BY <1>2, <3>1 DEF Bonded, Bonds, Follows
  <2>2. \A h \in Hosts : ExecOk(T.d[Main(h)], T.d[Exec(h)])
    <3> SUFFICES ASSUME NEW h \in Hosts PROVE ExecOk(T.d[Main(h)], T.d[Exec(h)])
      OBVIOUS
    <3>1. Exec(h) # p
      BY <1>2, MainOrExec
    <3>2. T.d[Main(h)] = IF Main(h) = p THEN d ELSE S.d[Main(h)]
      BY <1>1
    <3>3. T.d[Exec(h)] = S.d[Exec(h)]
      BY <1>1, <3>1
    <3>4. ExecOk(S.d[Main(h)], S.d[Exec(h)])
      BY DEF Bonded, Bonds
    <3>5. Main(h) = p => p[1] = h
      BY MainOrExec
    <3> QED BY <1>2, <3>2, <3>3, <3>4, <3>5 DEF ExecOk, Follows, MainOk
  <2> QED BY <2>1, <2>2 DEF Bonded, Bonds
<1>3. CASE p[2] # "main"
  <2>1. \A h \in Hosts : T.d[Main(h)] = S.d[Main(h)]
    BY <1>1, <1>3, MainOrExec
  <2>2. \A h \in Hosts : ExecOk(T.d[Main(h)], T.d[Exec(h)])
    <3> SUFFICES ASSUME NEW h \in Hosts PROVE ExecOk(T.d[Main(h)], T.d[Exec(h)])
      OBVIOUS
    <3>1. T.d[Exec(h)] = IF Exec(h) = p THEN d ELSE S.d[Exec(h)]
      BY <1>1
    <3>2. ExecOk(S.d[Main(h)], S.d[Exec(h)])
      BY DEF Bonded, Bonds
    <3> QED BY <2>1, <3>1, <3>2 DEF ExecOk, Follows
  <2> QED BY <2>1, <2>2 DEF Bonded, Bonds
<1> QED BY <1>2, <1>3

LEMMA DeadFacts ==
  /\ Dead.mode = "dead" /\ ~Dead.child /\ Dead.wait.on = "no"
  /\ MainOk(Dead) /\ MainOk(Fresh) /\ Fresh.mode = "loop" /\ ~Fresh.child
BY DEF Dead, Fresh, NoWait, MainOk

(* An executive may die at any time, a main process without a child.        *)
LEMMA DieBond ==
  ASSUME NEW S, Bonded(S), NEW p \in Daemons, p[2] = "main" => ~S.d[p].child
  PROVE  Bonded(Die(S, p)) /\ Die(S, p).d = [S.d EXCEPT ![p] = Dead]
<1>1. Die(S, p) \in Situation /\ Die(S, p).d = [S.d EXCEPT ![p] = Dead]
  BY BondParts, DieType DEF Die
<1> DEFINE D == [S.d EXCEPT ![p] = Dead]
<1>2. S.d \in [Daemons -> DaemonType] /\ \A h \in Hosts : Main(h) \in Daemons /\ Exec(h) \in Daemons
  BY BondParts, ProcsFacts
<1>3. \A h \in Hosts : MainOk(D[Main(h)])
  <2> SUFFICES ASSUME NEW h \in Hosts PROVE MainOk(D[Main(h)])
    OBVIOUS
  <2>1. D[Main(h)] = IF Main(h) = p THEN Dead ELSE S.d[Main(h)]
    BY <1>2
  <2> QED BY <2>1, DeadFacts DEF Bonded, Bonds
<1>4. \A h \in Hosts : ExecOk(D[Main(h)], D[Exec(h)])
  <2> SUFFICES ASSUME NEW h \in Hosts PROVE ExecOk(D[Main(h)], D[Exec(h)])
    OBVIOUS
  <2>1. ExecOk(S.d[Main(h)], S.d[Exec(h)])
    BY DEF Bonded, Bonds
  <2>2. CASE p = Exec(h)
    <3>1. D[Exec(h)] = Dead
      BY <1>2, <2>2
    <3> QED BY <3>1, DeadFacts DEF ExecOk
  <2>3. CASE p # Exec(h) /\ p # Main(h)
    <3>1. D[Exec(h)] = S.d[Exec(h)] /\ D[Main(h)] = S.d[Main(h)]
      BY <1>2, <2>3
    <3> QED BY <2>1, <3>1
  <2>4. CASE p = Main(h)
    <3>1. D[Exec(h)] = S.d[Exec(h)]
      BY <1>2, <2>4, MainOrExec
    <3>2. ~S.d[Main(h)].child
      BY <2>4, MainOrExec
    <3> QED BY <2>1, <3>1, <3>2 DEF ExecOk
  <2> QED BY <2>2, <2>3, <2>4
<1> QED BY <1>1, <1>3, <1>4 DEF Bonded, Bonds

-----------------------------------------------------------------------------
LEMMA NetBond ==
  ASSUME NEW S, Bonded(S), NEW p \in Daemons, NEW n \in NetType
  PROVE  /\ Bonded([S EXCEPT !.n = n]) /\ [S EXCEPT !.n = n].d = S.d
         /\ Fit(S, p) => Fit([S EXCEPT !.n = n], p)
<1>1. [S EXCEPT !.n = n] \in Situation /\ [S EXCEPT !.n = n].d = S.d
  BY BondParts, SetNet DEF Situation
<1> QED BY <1>1, SameBond DEF Fit

LEMMA ConsumeBond ==
  ASSUME NEW S, Bonded(S), NEW p \in Daemons, NEW e
  PROVE  /\ Bonded(Consume(S, e)) /\ Consume(S, e).d = S.d
         /\ Fit(S, p) => Fit(Consume(S, e), p)
BY BondParts, ConsumeType, SameBond DEF Fit

(* A reset: without delay the main process has no child any more.           *)
LEMMA SetDefaultBond ==
  ASSUME NEW S, Bonded(S), NEW p \in Daemons, Fit(S, p), NEW wait \in BOOLEAN
  PROVE  /\ Bonded(SetDefault(S, p, wait))
         /\ p[2] = "main" /\ ~wait => ~SetDefault(S, p, wait).d[p].child
<1> DEFINE blank == Blank(S.d[p])
           B == [S EXCEPT !.d[p] = blank]
           T == SetDefault(S, p, wait)
<1>1. /\ S \in Situation /\ S.d \in [Daemons -> DaemonType] /\ S.d[p] \in DaemonType
      /\ T \in Situation /\ B \in Situation /\ blank \in DaemonType
      /\ Exec(p[1]) \in Daemons
  BY BondParts, SetDefaultType, BlankType, SetProc, ProcsFacts
<1>2. /\ blank.child = S.d[p].child /\ blank.mode = S.d[p].mode
      /\ blank.wait = S.d[p].wait /\ blank.state = "Free" /\ blank.rope = NoEnd
      /\ blank.runMain = S.d[p].runMain
      /\ blank.quit <=> S.d[p].quit \/ S.d[p].state \in Quitting
  BY <1>1 DEF Blank, DaemonType
<1>3. p[2] = "main" => /\ MainOk(S.d[p]) /\ S.d[p].mode = "loop"
                       /\ S.d[p].wait.on \in {"no", "line"} /\ ~blank.quit
  BY BondParts, <1>2 DEF Fit, MainOk, Quitting
<1>4. B.d = [S.d EXCEPT ![p] = blank] /\ B.n = S.n /\ B.d[p] = blank
  BY <1>1 DEF Situation
<1>5. T = WaitForChild(B, p, wait)
  BY DEF SetDefault
<1> HIDE DEF blank, B, T
<1>6. CASE ~blank.child
  <2>1. T = B
    BY <1>4, <1>5, <1>6 DEF WaitForChild
  <2>2. Follows(S, p, blank)
    BY <1>1, <1>2, <1>3, <1>6 DEF Follows, MainOk, Fit
  <2> QED BY <1>1, <1>4, <1>6, <2>1, <2>2, FollowBond DEF Fit, T
<1>7. CASE blank.child /\ wait
  <2> DEFINE d == [blank EXCEPT !.wait = [NoWait EXCEPT !.on = "bury"]]
  <2>1. d \in DaemonType
    <3>1. [NoWait EXCEPT !.on = "bury"] \in WaitType
      BY ConstantsType DEF WaitType
    <3> QED BY <1>1, <3>1, FieldTypes
  <2>2. /\ d.child = blank.child /\ d.mode = blank.mode /\ d.wait.on = "bury"
        /\ d.state = "Free" /\ d.rope = NoEnd /\ d.runMain = blank.runMain
        /\ d.quit = blank.quit
    BY <1>1, <1>2 DEF DaemonType, NoWait
  <2>3. T.d = [S.d EXCEPT ![p] = d]
    BY <1>1, <1>4, <1>5, <1>7 DEF WaitForChild, Situation
  <2> HIDE DEF d
  <2>4. Follows(S, p, d)
    BY <1>1, <1>2, <1>3, <1>7, <2>1, <2>2 DEF Follows, MainOk, Fit
  <2> QED BY <1>1, <1>7, <2>3, <2>4, FollowBond DEF Fit, T
<1>8. CASE blank.child /\ ~wait
  <2> DEFINE d == [blank EXCEPT !.child = FALSE]
             E == Exec(p[1])
             K == Die(S, E)
  <2>1. d \in DaemonType
    BY <1>1, FieldTypes
  <2>2. /\ d.child = FALSE /\ d.mode = blank.mode /\ d.wait = blank.wait
        /\ d.state = "Free" /\ d.rope = NoEnd /\ d.runMain = blank.runMain
        /\ d.quit = blank.quit
    BY <1>1, <1>2 DEF DaemonType
  <2>3. T.d = [[S.d EXCEPT ![p] = d] EXCEPT ![E] = Dead]
    <3>1. [B EXCEPT !.d[p].child = FALSE].d = [S.d EXCEPT ![p] = d]
      BY <1>1, <1>4 DEF Situation
    <3> HIDE DEF d, E
    <3>2. T = Die([B EXCEPT !.d[p].child = FALSE], E)
      BY <1>4, <1>5, <1>8 DEF WaitForChild, E
    <3> QED BY <3>1, <3>2 DEF Die
  <2>4. Bonded(K) /\ K.d = [S.d EXCEPT ![E] = Dead]
    BY <1>1, DieBond, MainOrExec
  <2> HIDE DEF d, K
  <2>5. CASE p[2] = "main"
    <3>1. p # E
      BY <2>5, MainOrExec
    <3>2. T.d = [K.d EXCEPT ![p] = d]
      BY <1>1, <2>3, <2>4, <3>1
    <3>3. K.d[E].mode = "dead" /\ K.d[p] = S.d[p]
      BY <1>1, <2>4, <3>1, DeadFacts
    <3>4. Follows(K, p, d)
      BY <1>2, <1>3, <2>1, <2>2, <2>5, <3>3 DEF Follows, MainOk
    <3>5. Bonded(T)
      BY <1>1, <2>4, <3>2, <3>3, <3>4, FollowBond DEF Fit
    <3>6. T.d[p] = d
      BY <1>1, <3>2, <2>1, <2>4
    <3> QED BY <2>2, <3>5, <3>6 DEF T
  <2>6. CASE p[2] # "main"
    <3>1. p = E
      BY <2>6, MainOrExec
    <3>2. T.d = K.d
      BY <1>1, <2>3, <2>4, <3>1
    <3> QED BY <1>1, <2>4, <2>6, <3>2, SameBond DEF T
  <2> QED BY <2>5, <2>6
<1> QED BY <1>6, <1>7, <1>8

LEMMA ResetBond ==
  ASSUME NEW S, Bonded(S), NEW p \in Daemons, Fit(S, p), NEW code \in Code
  PROVE  Bonded(Reset(S, p, code))
<1> DEFINE n == SendEach(S.n, PeerLines(S.d[p]), Msg(code))
<1>1. n \in NetType
  BY BondParts, Components, PeerLinesType, MsgIsMessage, SendEachType
<1>2. Bonded([S EXCEPT !.n = n]) /\ Fit([S EXCEPT !.n = n], p)
  BY <1>1, NetBond
<1> QED BY <1>2, SetDefaultBond DEF Reset

LEMMA FinishBond ==
  ASSUME NEW S, Bonded(S), NEW p \in Daemons, p[2] # "main", S.d[p].mode # "dead"
  PROVE  Bonded(Finish(S, p))
<1> DEFINE d == [S.d[p] EXCEPT !.mode = "exit", !.todo = Idle, !.wait = NoWait]
           e == S.d[p].line[<<0, Master>>]
<1>1. S.d \in [Daemons -> DaemonType] /\ S.d[p] \in DaemonType /\ Finish(S, p) \in Situation
  BY BondParts, FinishType
<1>2. d \in DaemonType /\ d.mode = "exit"
  BY <1>1, ConstantsType DEF DaemonType, Mode
<1>3. CASE e = NoEnd \/ Broken(S.n, e)
  BY <1>3, DieBond DEF Finish
<1>4. CASE ~(e = NoEnd \/ Broken(S.n, e))
  <2>1. Finish(S, p).d = [S.d EXCEPT ![p].mode = "exit", ![p].todo = Idle, ![p].wait = NoWait]
    BY <1>4 DEF Finish
  <2>2. Finish(S, p).d = [S.d EXCEPT ![p] = d]
    BY <1>1, <2>1
  <2> HIDE DEF d
  <2> QED BY <1>1, <1>2, <2>2, FollowBond DEF Follows
<1> QED BY <1>3, <1>4

LEMMA RaiseBond ==
  ASSUME NEW S, Bonded(S), NEW p \in Daemons, Fit(S, p) PROVE Bonded(Raise(S, p))
<1> DEFINE T == [S EXCEPT !.d[p].wait = NoWait, !.d[p].todo = Idle]
           d == [S.d[p] EXCEPT !.wait = NoWait, !.todo = Idle]
<1>1. S \in Situation /\ S.d \in [Daemons -> DaemonType] /\ S.d[p] \in DaemonType
  BY BondParts
<1>2. /\ d \in DaemonType /\ d.mode = S.d[p].mode /\ d.child = S.d[p].child
      /\ d.wait.on = "no" /\ d.state = S.d[p].state /\ d.rope = S.d[p].rope
      /\ d.quit = S.d[p].quit /\ d.runMain = S.d[p].runMain
  BY <1>1, ConstantsType DEF DaemonType, NoWait
<1>3. T \in Situation /\ T.d = [S.d EXCEPT ![p] = d]
  <2>1. T.d = [S.d EXCEPT ![p] = d]
    BY <1>1 DEF Situation
  <2>2. [S EXCEPT !.d[p].wait = NoWait] \in Situation
    BY <1>1, SituationWith, ConstantsType
  <2>3. T \in Situation
    BY <2>2, SituationWith, ConstantsType
  <2> QED BY <2>1, <2>3
<1>4. T.d[p] = d
  BY <1>1, <1>2, <1>3
<1> HIDE DEF T, d
<1>5. Follows(S, p, d)
  BY <1>2, BondParts DEF Follows, MainOk, Fit
<1>6. Bonded(T) /\ Fit(T, p)
  BY <1>2, <1>3, <1>4, <1>5, FollowBond DEF Fit
<1>7. CASE S.d[p].mode = "loop"
  BY <1>6, <1>7, ResetBond, CodeFacts DEF Raise, T
<1>8. CASE S.d[p].mode # "loop"
  <2>1. p[2] # "main"
    BY <1>8, BondParts DEF Fit, MainOk
  <2> QED BY <1>6, <1>8, <2>1, FinishBond, DieBond DEF Raise, T, Fit
<1> QED BY <1>7, <1>8

LEMMA AnswerBond ==
  ASSUME NEW S, Bonded(S), NEW p \in Daemons, Fit(S, p), NEW e, NEW c \in Code,
         NEW d, Follows(S, p, d)
  PROVE  /\ Bonded(Answer(S, p, e, c, d))
         /\ ~Broken(S.n, e) => Answer(S, p, e, c, d).d[p] = d
<1>1. S.d \in [Daemons -> DaemonType] /\ Answer(S, p, e, c, d) \in Situation
  BY BondParts, AnswerType DEF Follows
<1>2. CASE Broken(S.n, e)
  BY <1>2, RaiseBond DEF Answer
<1>3. CASE ~Broken(S.n, e)
  <2>1. Answer(S, p, e, c, d).d = [S.d EXCEPT ![p] = d]
    BY <1>3 DEF Answer
  <2> QED BY <1>1, <2>1, FollowBond DEF Fit
<1> QED BY <1>2, <1>3

(* The process itself follows, and so does what differs in other fields.    *)
LEMMA StayFollows ==
  ASSUME NEW S, Bonded(S), NEW p \in Daemons, Fit(S, p)
  PROVE  Follows(S, p, S.d[p])
BY BondParts DEF Follows, Fit

LEMMA RefuseBond ==
  ASSUME NEW S, Bonded(S), NEW p \in Daemons, Fit(S, p), NEW e PROVE Bonded(Refuse(S, p, e))
BY StayFollows, AnswerBond, CodeFacts DEF Refuse

LEMMA AlikeFollows ==
  ASSUME NEW S, Bonded(S), NEW p \in Daemons, Fit(S, p), NEW d \in DaemonType,
         d.mode = S.d[p].mode, d.child = S.d[p].child, d.rope = S.d[p].rope,
         d.wait.on = S.d[p].wait.on \/ d.wait.on \in {"no", "line"},
         d.quit = S.d[p].quit, d.runMain = S.d[p].runMain,
         \/ d.state = S.d[p].state
         \/ d.state \notin {"Grouped", "Running", "Supervising"} /\ S.d[p].state # "Supervising"
  PROVE  Follows(S, p, d)
BY BondParts DEF Follows, Fit, MainOk

LEMMA InsertFields ==
  ASSUME NEW d \in DaemonType, NEW r, NEW lines \in [Chan -> Ends0]
  PROVE  LET i == Insert(d, r, lines)
         IN /\ i \in DaemonType /\ i.mode = d.mode /\ i.child = d.child /\ i.rope = d.rope
            /\ i.wait = d.wait /\ i.quit = d.quit /\ i.runMain = d.runMain /\ i.state = d.state
<1>1. Insert(d, r, lines) \in DaemonType
  BY InsertType
<1> QED BY <1>1 DEF Insert, DaemonType

LEMMA ExecFollows ==
  ASSUME NEW S, NEW p \in Daemons, p[2] # "main", NEW d \in DaemonType, d.mode # "dead"
  PROVE  Follows(S, p, d)
BY DEF Follows

(* A main process is in none of the executive's states.                     *)
LEMMA MainStates ==
  ASSUME NEW S, Bonded(S), NEW p \in Daemons, Fit(S, p),
         S.d[p].state \in {"Grouped", "Leaving"} \/ S.d[p].wait.on \in {"start", "ack"}
  PROVE  p[2] # "main"
BY BondParts DEF Fit, MainOk

-----------------------------------------------------------------------------
(* The handlers.                                                            *)

LEMMA EnslaveBond ==
  ASSUME NEW S, Bonded(S), NEW p \in Daemons, Fit(S, p), NEW e \in Ends0, NEW m \in Message,
         NEW late
  PROVE  Bonded(Enslave(S, p, e, m, late))
<1> DEFINE T == Consume(S, e)
           i == Insert(S.d[p], 0, OneLine(e))
           d == [i EXCEPT !.rank = m.arg, !.state = "Enslaved"]
<1>1. Bonded(T) /\ Fit(T, p) /\ T.d = S.d
  BY ConsumeBond
<1>2. Bonded(Refuse(S, p, e)) /\ Bonded(Raise(T, p))
  BY <1>1, RefuseBond, RaiseBond
<1>3. CASE S.d[p].state = "Free"
  <2>1. /\ i \in DaemonType /\ i.mode = S.d[p].mode /\ i.child = S.d[p].child
        /\ i.rope = S.d[p].rope /\ i.wait = S.d[p].wait /\ i.quit = S.d[p].quit
        /\ i.runMain = S.d[p].runMain
    BY BondParts, InsertFields, OneLineType
  <2> HIDE DEF i
  <2>2. /\ d \in DaemonType /\ d.mode = i.mode /\ d.child = i.child /\ d.rope = i.rope
        /\ d.wait = i.wait /\ d.quit = i.quit /\ d.runMain = i.runMain /\ d.state = "Enslaved"
    BY <2>1, MessageWith DEF DaemonType, State
  <2> HIDE DEF d
  <2>3. Follows(T, p, d)
    BY <1>1, <1>3, <2>1, <2>2, AlikeFollows
  <2>4. Bonded(Answer(T, p, e, "OK", d))
    BY <1>1, <2>3, AnswerBond, CodeFacts
  <2> QED BY <1>2, <2>4 DEF Enslave, T, d, i
<1>4. CASE S.d[p].state # "Free"
  BY <1>2, <1>4 DEF Enslave
<1> QED BY <1>3, <1>4

(* The end of a group: an answer, then a reset.                             *)
LEMMA AnswerSetDefaultBond ==
  ASSUME NEW S, Bonded(S), NEW p \in Daemons, Fit(S, p), NEW e, ~Broken(S.n, e),
         NEW wait \in BOOLEAN
  PROVE  LET T == SetDefault(Answer(S, p, e, "OK", S.d[p]), p, wait)
         IN Bonded(T) /\ (p[2] = "main" /\ ~wait => ~T.d[p].child)
<1> DEFINE A == Answer(S, p, e, "OK", S.d[p])
<1>1. Bonded(A) /\ A.d[p] = S.d[p]
  BY StayFollows, AnswerBond, CodeFacts
<1>2. Fit(A, p)
  BY <1>1 DEF Fit
<1> HIDE DEF A
<1>3. Bonded(SetDefault(A, p, wait)) /\ (p[2] = "main" /\ ~wait => ~SetDefault(A, p, wait).d[p].child)
  BY <1>1, <1>2, SetDefaultBond
<1> QED BY <1>3 DEF A

LEMMA ReleaseBond ==
  ASSUME NEW S, Bonded(S), NEW p \in Daemons, Fit(S, p), NEW e PROVE Bonded(Release(S, p, e))
<1> DEFINE T == Consume(S, e)
<1>1. Bonded(T) /\ Fit(T, p)
  BY ConsumeBond
<1> HIDE DEF T
<1>2. Bonded(Refuse(T, p, e)) /\ Bonded(Raise(T, p))
  BY <1>1, RefuseBond, RaiseBond
<1>3. ~Broken(T.n, e) => Bonded(SetDefault(Answer(T, p, e, "OK", T.d[p]), p, FALSE))
  BY <1>1, AnswerSetDefaultBond
<1> QED BY <1>2, <1>3 DEF Release, T

LEMMA CutRopeBond ==
  ASSUME NEW S, Bonded(S), NEW p \in Daemons, Fit(S, p), NEW e PROVE Bonded(CutRope(S, p, e))
<1> DEFINE T == Consume(S, e)
<1>1. Bonded(T) /\ Fit(T, p)
  BY ConsumeBond
<1> HIDE DEF T
<1>2. Bonded(Refuse(T, p, e)) /\ Bonded(Raise(T, p))
  BY <1>1, RefuseBond, RaiseBond
<1>3. ~Broken(T.n, e) => Bonded(SetDefault(Answer(T, p, e, "OK", T.d[p]), p, TRUE))
  BY <1>1, AnswerSetDefaultBond
<1> QED BY <1>2, <1>3 DEF CutRope, T

LEMMA ShutdownBond ==
  ASSUME NEW S, Bonded(S), NEW p \in Daemons, Fit(S, p), NEW e
  PROVE  Bonded(Shutdown(S, p, e)) /\ Bonded(ForceShutdown(S, p, e))
<1> DEFINE T == Consume(S, e)
           U == SetDefault(Answer(T, p, e, "OK", T.d[p]), p, FALSE)
           V == SetDefault(T, p, FALSE)
<1>1. Bonded(T) /\ Fit(T, p)
  BY ConsumeBond
<1> HIDE DEF T
<1>2. Bonded(Refuse(T, p, e)) /\ Bonded(Raise(T, p))
  BY <1>1, RefuseBond, RaiseBond
<1>3. ~Broken(T.n, e) => Bonded(Die(U, p))
  BY <1>1, AnswerSetDefaultBond, DieBond
<1>4. Bonded(Die(V, p))
  BY <1>1, SetDefaultBond, DieBond
<1> QED BY <1>2, <1>3, <1>4 DEF Shutdown, ForceShutdown, T

LEMMA StartGroupingBond ==
  ASSUME NEW S, Bonded(S), NEW p \in Daemons, Fit(S, p), NEW e, NEW m \in Message
  PROVE  Bonded(StartGrouping(S, p, e, m))
<1> DEFINE T == Consume(S, e)
           c == T.d[p]
           d == [c EXCEPT !.state = "FormingGroup", !.world = m.arg]
<1>1. Bonded(T) /\ Fit(T, p) /\ T.d = S.d
  BY ConsumeBond
<1> HIDE DEF T
<1>2. Bonded(Refuse(T, p, e))
  BY <1>1, RefuseBond
<1>3. CASE c.state = "Enslaved"
  <2>1. c \in DaemonType
    BY <1>1, BondParts
  <2>2. c = T.d[p]
    OBVIOUS
  <2> HIDE DEF c
  <2>3. /\ d \in DaemonType /\ d.mode = c.mode /\ d.child = c.child /\ d.rope = c.rope
        /\ d.wait = c.wait /\ d.quit = c.quit /\ d.runMain = c.runMain
        /\ d.state = "FormingGroup"
    BY <2>1, MessageWith DEF DaemonType, State
  <2> HIDE DEF d
  <2>4. Follows(T, p, d)
    BY <1>1, <1>3, <2>2, <2>3, AlikeFollows
  <2>5. Bonded(Answer(T, p, e, "OK", d))
    BY <1>1, <2>4, AnswerBond, CodeFacts
  <2> QED BY <1>2, <2>5 DEF StartGrouping, T, d, c
<1>4. CASE c.state # "Enslaved"
  BY <1>1, <1>2, <1>4 DEF StartGrouping, T
<1> QED BY <1>3, <1>4

LEMMA ConnectLineBond ==
  ASSUME NEW S, Bonded(S), NEW p \in Daemons, Fit(S, p), NEW k \in Chan, NEW w \in WaitType,
         FreeLines(S.n) # {}
  PROVE  Bonded(ConnectLine(S, p, k, w))
<1> DEFINE l == NewLine(S.n)
           v == [w EXCEPT !.on = "line", !.chan = k, !.end = <<l, "near">>]
           c == S.d[p]
           d == [c EXCEPT !.wait = v]
           T == ConnectLine(S, p, k, w)
<1>1. S \in Situation /\ S.d \in [Daemons -> DaemonType] /\ c \in DaemonType /\ T \in Situation
  BY BondParts, ConnectLineType
<1>2. CASE w.host \notin S.n.listen
  BY <1>2, RaiseBond DEF ConnectLine
<1>3. CASE w.host \in S.n.listen
  <2>1. <<l, "near">> \in Ends0
    BY <1>1, NewLineIsLine, Components DEF End, Ends0
  <2>2. T.d = [S.d EXCEPT ![p] = d]
    BY <1>1, <1>3 DEF ConnectLine
  <2> HIDE DEF l, T
  <2>3. v \in WaitType /\ v.on = "line"
    BY <2>1 DEF WaitType
  <2>4. c = S.d[p]
    OBVIOUS
  <2> HIDE DEF v, c
  <2>5. /\ d \in DaemonType /\ d.mode = c.mode /\ d.child = c.child /\ d.rope = c.rope
        /\ d.wait.on = "line" /\ d.quit = c.quit /\ d.runMain = c.runMain
        /\ d.state = c.state
    BY <1>1, <2>3 DEF DaemonType
  <2> HIDE DEF d
  <2>6. Follows(S, p, d)
    BY <2>4, <2>5, AlikeFollows
  <2> QED BY <1>1, <2>2, <2>6, FollowBond DEF Fit, T
<1> QED BY <1>2, <1>3

LEMMA ConnectingBond ==
  ASSUME NEW S, Bonded(S), NEW p \in Daemons, Fit(S, p), NEW e \in Ends0, NEW m \in Message,
         FreeLines(S.n) # {}
  PROVE  Bonded(Connecting(S, p, e, m))
<1> DEFINE T == Consume(S, e)
           w == [NoWait EXCEPT !.reply = e, !.host = m.host, !.arg = m.arg]
<1>1. Bonded(T) /\ Fit(T, p) /\ FreeLines(T.n) # {}
  BY ConsumeBond, ConsumeType, BondParts
<1>2. w \in WaitType
  BY ConstantsType, MessageWith DEF WaitType
<1> HIDE DEF T, w
<1>3. Bonded(Refuse(T, p, e))
  BY <1>1, RefuseBond
<1>4. Bonded(ConnectLine(T, p, Master, w))
  BY <1>1, <1>2, ConnectLineBond, MasterIsChan
<1> QED BY <1>3, <1>4 DEF Connecting, T, w

(* A blocked process stops waiting and reads what it waited for.            *)
LEMMA WakeBond ==
  ASSUME NEW S, Bonded(S), NEW p \in Daemons, Fit(S, p), NEW e
  PROVE  LET T == [Consume(S, e) EXCEPT !.d[p].wait = NoWait]
         IN /\ Bonded(T) /\ Fit(T, p) /\ T.n = Consume(S, e).n
            /\ T.d[p] = [S.d[p] EXCEPT !.wait = NoWait]
            /\ T.d[p].state = S.d[p].state
<1> DEFINE C == Consume(S, e)
           T == [C EXCEPT !.d[p].wait = NoWait]
           d == [C.d[p] EXCEPT !.wait = NoWait]
<1>1. Bonded(C) /\ Fit(C, p) /\ C.d = S.d
  BY ConsumeBond
<1>2. C \in Situation /\ C.d \in [Daemons -> DaemonType] /\ C.d[p] \in DaemonType
  BY <1>1, BondParts
<1> HIDE DEF C
<1>3. T \in Situation /\ T.n = C.n /\ T.d = [C.d EXCEPT ![p] = d] /\ T.d[p] = d
  BY <1>2, SituationWith, ConstantsType DEF Situation
<1>4. /\ d \in DaemonType /\ d.mode = C.d[p].mode /\ d.child = C.d[p].child
      /\ d.rope = C.d[p].rope /\ d.wait.on = "no" /\ d.quit = C.d[p].quit
      /\ d.runMain = C.d[p].runMain /\ d.state = C.d[p].state
  BY <1>2, ConstantsType DEF DaemonType, NoWait
<1>5. d = [S.d[p] EXCEPT !.wait = NoWait]
  BY <1>1
<1> HIDE DEF T, d
<1>6. Follows(C, p, d)
  BY <1>1, <1>4, AlikeFollows
<1>7. Bonded(T)
  BY <1>1, <1>3, <1>6, FollowBond DEF Fit
<1>8. Fit(T, p)
  BY <1>1, <1>3, <1>4 DEF Fit
<1> QED BY <1>1, <1>3, <1>4, <1>5, <1>7, <1>8 DEF T, C

LEMMA ConnectedBond ==
  ASSUME NEW S, Bonded(S), NEW p \in Daemons, Fit(S, p), FreeLines(S.n) # {}
  PROVE  Bonded(Connected(S, p))
<1> DEFINE w == S.d[p].wait
           answer == Peek(S.n, w.end).tag
           lines == [w.lines EXCEPT ![w.chan] = w.end]
           T == [Consume(S, w.end) EXCEPT !.d[p].wait = NoWait]
           i == Insert(T.d[p], w.arg, lines)
           U == [T EXCEPT !.d[p] = i]
           v == [w EXCEPT !.lines = lines]
<1>1. w \in WaitType /\ S \in Situation
  BY BondParts DEF DaemonType
<1>2. lines \in [Chan -> Ends0]
  <2> HIDE DEF w
  <2> QED BY <1>1 DEF WaitType
<1>3. v \in WaitType
  <2> HIDE DEF w, lines
  <2> QED BY <1>1, <1>2 DEF WaitType
<1>4. Bonded(T) /\ Fit(T, p) /\ FreeLines(T.n) # {}
  <2> DEFINE e == w.end
  <2> HIDE DEF w, e
  <2>1. /\ Bonded([Consume(S, e) EXCEPT !.d[p].wait = NoWait])
        /\ Fit([Consume(S, e) EXCEPT !.d[p].wait = NoWait], p)
        /\ [Consume(S, e) EXCEPT !.d[p].wait = NoWait].n = Consume(S, e).n
    <3>1. LET woken == [Consume(S, e) EXCEPT !.d[p].wait = NoWait]
          IN /\ Bonded(woken) /\ Fit(woken, p) /\ woken.n = Consume(S, e).n
             /\ woken.d[p] = [S.d[p] EXCEPT !.wait = NoWait]
             /\ woken.d[p].state = S.d[p].state
      <4> HIDE DEF T
      <4> QED BY WakeBond, ZenonT(40)
    <3> QED BY <3>1, Zenon
  <2>2. FreeLines(Consume(S, w.end).n) # {}
    BY <1>1, ConsumeType
  <2> QED BY <2>1, <2>2 DEF e
<1> HIDE DEF w, lines, T, v
<1>5. T \in Situation /\ T.d \in [Daemons -> DaemonType] /\ T.d[p] \in DaemonType
  BY <1>4, BondParts
<1>6. /\ i \in DaemonType /\ i.mode = T.d[p].mode /\ i.child = T.d[p].child
      /\ i.rope = T.d[p].rope /\ i.wait = T.d[p].wait /\ i.quit = T.d[p].quit
      /\ i.runMain = T.d[p].runMain /\ i.state = T.d[p].state
  BY <1>2, <1>5, InsertFields
<1> HIDE DEF i
<1>7. Follows(T, p, i)
  BY <1>4, <1>6, AlikeFollows
<1>8. U \in Situation /\ U.d = [T.d EXCEPT ![p] = i] /\ U.d[p] = i
  BY <1>5, <1>6, SetProc DEF Situation
<1> HIDE DEF U
<1>9. Bonded(U) /\ Fit(U, p)
  BY <1>4, <1>6, <1>7, <1>8, FollowBond DEF Fit
<1>10. Bonded(Answer(U, p, w.reply, "OK", U.d[p]))
  BY <1>9, StayFollows, AnswerBond, CodeFacts
<1>11. w.chan + 1 \in Chan => Bonded(ConnectLine(T, p, w.chan + 1, v))
  BY <1>3, <1>4, ConnectLineBond
<1>12. Bonded(Refuse(T, p, w.reply)) /\ Bonded(Raise(T, p))
  BY <1>4, RefuseBond, RaiseBond
<1>13. Connected(S, p) =
         CASE answer = "OK" /\ w.chan + 1 \in Chan -> ConnectLine(T, p, w.chan + 1, v)
           [] answer = "OK" /\ w.chan + 1 \notin Chan -> Answer(U, p, w.reply, "OK", U.d[p])
           [] answer = "Refuse" -> Refuse(T, p, w.reply)
           [] OTHER -> Raise(T, p)
  BY DEF Connected, w, lines, T, U, v, i
<1> HIDE DEF answer
<1> QED BY <1>10, <1>11, <1>12, <1>13

LEMMA JoinBond ==
  ASSUME NEW S, Bonded(S), NEW p \in Daemons, Fit(S, p), NEW e \in Ends0, NEW m \in Message,
         NEW late
  PROVE  Bonded(Join(S, p, e, m, late))
<1> DEFINE T == Consume(S, e)
           i == Insert(T.d[p], m.arg, OneLine(e))
<1>1. Bonded(T) /\ Fit(T, p)
  BY ConsumeBond
<1> HIDE DEF T
<1>2. Bonded(Refuse(T, p, e)) /\ Bonded(Raise(T, p))
  BY <1>1, RefuseBond, RaiseBond
<1>3. /\ i \in DaemonType /\ i.mode = T.d[p].mode /\ i.child = T.d[p].child
      /\ i.rope = T.d[p].rope /\ i.wait = T.d[p].wait /\ i.quit = T.d[p].quit
      /\ i.runMain = T.d[p].runMain /\ i.state = T.d[p].state
  BY <1>1, BondParts, InsertFields, OneLineType
<1> HIDE DEF i
<1>4. Follows(T, p, i)
  BY <1>1, <1>3, AlikeFollows
<1>5. Bonded(Answer(T, p, e, "OK", i))
  BY <1>1, <1>4, AnswerBond, CodeFacts
<1> QED BY <1>2, <1>5 DEF Join, T, i

LEMMA AddDataLineBond ==
  ASSUME NEW S, Bonded(S), NEW p \in Daemons, Fit(S, p), NEW e \in Ends0, NEW m \in Message
  PROVE  Bonded(AddDataLine(S, p, e, m))
<1> DEFINE T == Consume(S, e)
           c == T.d[p]
           line == [c.line EXCEPT ![<<m.arg, m.chan>>] = e]
           d == [c EXCEPT !.line = line]
<1>1. Bonded(T) /\ Fit(T, p)
  BY ConsumeBond
<1> HIDE DEF T
<1>2. c = T.d[p] /\ c \in DaemonType
  BY <1>1, BondParts
<1> HIDE DEF c
<1>3. line \in [Spot -> Ends0]
  BY <1>2 DEF DaemonType
<1> HIDE DEF line
<1>4. /\ d \in DaemonType /\ d.mode = c.mode /\ d.child = c.child
      /\ d.rope = c.rope /\ d.wait = c.wait /\ d.quit = c.quit
      /\ d.runMain = c.runMain /\ d.state = c.state
  BY <1>2, <1>3 DEF DaemonType
<1> HIDE DEF d
<1>5. Follows(T, p, d)
  BY <1>1, <1>2, <1>4, AlikeFollows
<1>6. Bonded(Answer(T, p, e, "OK", d)) /\ Bonded(Refuse(T, p, e))
  BY <1>1, <1>5, AnswerBond, RefuseBond, CodeFacts
<1> QED BY <1>6 DEF AddDataLine, T, c, d, line

(* The fork: an executive that would fork only replaces itself.             *)
LEMMA GroupedBond ==
  ASSUME NEW S, Bonded(S), NEW p \in Daemons, Fit(S, p), NEW e, FreeLines(S.n) # {}
  PROVE  Bonded(Grouped(S, p, e))
<1> DEFINE T == Consume(S, e)
           l == NewLine(S.n)
           d == T.d[p]
           E == Exec(p[1])
           parent == [d EXCEPT !.line = NoLines, !.state = "Supervising",
                               !.rope = <<l, "near">>, !.child = TRUE]
           child == [d EXCEPT !.state = "Grouped", !.rope = <<l, "far">>, !.cache = d.line]
           D == [T.d EXCEPT ![p] = parent, ![E] = child]
           G == Grouped(S, p, e)
<1>1. Bonded(T) /\ Fit(T, p) /\ S \in Situation
  BY ConsumeBond, BondParts
<1>2. G \in Situation
  BY <1>1, GroupedType
<1>3. Bonded(Refuse(T, p, e)) /\ Bonded(Raise(T, p))
  BY <1>1, RefuseBond, RaiseBond
<1>4. G = Refuse(T, p, e) \/ G = Raise(T, p) \/ G.d = D
  BY DEF Grouped
<1>5. SUFFICES ASSUME G.d = D PROVE Bonded(G)
  BY <1>3, <1>4
<1>6. l \in Lines
  BY <1>1, NewLineIsLine, Components
<1>7. <<l, "near">> \in Ends0 /\ <<l, "far">> \in Ends0 /\ <<l, "near">> # NoEnd
  BY <1>6, WireAssumption DEF End, Ends0, NoEnd
<1> HIDE DEF T, l, G
<1>8. T.d \in [Daemons -> DaemonType] /\ d \in DaemonType /\ d = T.d[p] /\ E \in Daemons
  BY <1>1, BondParts, ProcsFacts
<1> HIDE DEF d
<1>9. /\ parent \in DaemonType /\ parent.mode = d.mode /\ parent.child = TRUE
      /\ parent.rope # NoEnd /\ parent.state = "Supervising" /\ parent.wait = d.wait
      /\ parent.quit = d.quit /\ parent.runMain = d.runMain
  BY <1>7, <1>8, ConstantsType DEF DaemonType, State
<1>10. child \in DaemonType /\ child.mode = d.mode
  BY <1>7, <1>8 DEF DaemonType, State
<1> HIDE DEF parent, child
<1>11. CASE p[2] # "main"
  <2>1. p = E
    BY <1>11, MainOrExec
  <2>2. D = [T.d EXCEPT ![p] = child]
    BY <1>8, <2>1
  <2>3. Follows(T, p, child)
    BY <1>1, <1>8, <1>10, <1>11, ExecFollows DEF Fit
  <2> QED BY <1>1, <1>2, <1>5, <2>2, <2>3, FollowBond DEF Fit
<1>12. CASE p[2] = "main"
  <2>1. p = Main(p[1]) /\ p # E /\ p[1] \in Hosts
    BY <1>12, MainOrExec, ProcsFacts
  <2>2. D[p] = parent /\ D[E] = child
    BY <1>8, <2>1
  <2>3. parent.mode = "loop" /\ MainOk(parent) /\ child.mode # "dead"
    BY <1>1, <1>8, <1>9, <1>10, <1>12, BondParts DEF Fit, MainOk
  <2>4. \A h \in Hosts : MainOk(D[Main(h)])
    <3> SUFFICES ASSUME NEW h \in Hosts PROVE MainOk(D[Main(h)])
      OBVIOUS
    <3>1. CASE h = p[1]
      BY <2>1, <2>2, <2>3, <3>1
    <3>2. CASE h # p[1]
      <4>1. Main(h) # p /\ Main(h) # E /\ Main(h) \in Daemons
        BY <2>1, <3>2, MainOrExec, ProcsFacts
      <4>2. D[Main(h)] = T.d[Main(h)]
        BY <1>8, <4>1
      <4> QED BY <1>1, <4>2 DEF Bonded, Bonds
    <3> QED BY <3>1, <3>2
  <2>5. \A h \in Hosts : ExecOk(D[Main(h)], D[Exec(h)])
    <3> SUFFICES ASSUME NEW h \in Hosts PROVE ExecOk(D[Main(h)], D[Exec(h)])
      OBVIOUS
    <3>1. CASE h = p[1]
      BY <1>9, <2>1, <2>2, <2>3, <3>1 DEF ExecOk
    <3>2. CASE h # p[1]
      <4>1. /\ Main(h) # p /\ Main(h) # E /\ Main(h) \in Daemons
            /\ Exec(h) # p /\ Exec(h) # E /\ Exec(h) \in Daemons
        BY <2>1, <3>2, MainOrExec, ProcsFacts
      <4>2. D[Main(h)] = T.d[Main(h)] /\ D[Exec(h)] = T.d[Exec(h)]
        BY <1>8, <4>1
      <4> QED BY <1>1, <4>2 DEF Bonded, Bonds
    <3> QED BY <3>1, <3>2
  <2> HIDE DEF D
  <2> QED BY <1>2, <1>5, <2>4, <2>5 DEF Bonded, Bonds
<1> QED BY <1>11, <1>12

LEMMA RunBond ==
  ASSUME NEW S, Bonded(S), NEW p \in Daemons, Fit(S, p), NEW e \in Ends0
  PROVE  Bonded(Run(S, p, e)) /\ Bonded(InitData(S, p, e))
<1> DEFINE T == Consume(S, e)
           w == [NoWait EXCEPT !.on = "start", !.end = e]
           d == [S.d[p] EXCEPT !.wait = w]
<1>1. Bonded(T) /\ Fit(T, p) /\ T.d = S.d
  BY ConsumeBond
<1>2. Bonded(Refuse(S, p, e))
  BY RefuseBond
<1>3. S.d[p].state = "Grouped" => Bonded(Answer(T, p, e, "OK", d))
  <2> SUFFICES ASSUME S.d[p].state = "Grouped" PROVE Bonded(Answer(T, p, e, "OK", d))
    OBVIOUS
  <2>1. p[2] # "main"
    BY MainStates
  <2>2. w \in WaitType
    BY ConstantsType DEF WaitType
  <2> HIDE DEF w
  <2>3. d \in DaemonType /\ d.mode = S.d[p].mode
    <3>1. S.d[p] \in DaemonType
      BY BondParts
    <3> QED BY <2>2, <3>1 DEF DaemonType
  <2> HIDE DEF d
  <2>4. Follows(T, p, d)
    BY <2>1, <2>3, ExecFollows DEF Fit
  <2> QED BY <1>1, <2>4, AnswerBond, CodeFacts
<1> QED BY <1>1, <1>2, <1>3 DEF Run, InitData, T, d, w

LEMMA StartedBond ==
  ASSUME NEW S, Bonded(S), NEW p \in Daemons, Fit(S, p), S.d[p].wait.on = "start"
  PROVE  Bonded(Started(S, p))
<1> DEFINE e == S.d[p].wait.end
           T == [Consume(S, e) EXCEPT !.d[p].wait = NoWait]
           d == [T.d[p] EXCEPT !.runMain = TRUE]
           U == [T EXCEPT !.d[p].runMain = TRUE]
<1>1. Bonded(T) /\ Fit(T, p) /\ p[2] # "main"
  BY WakeBond, MainStates
<1> HIDE DEF T
<1>2. T \in Situation /\ T.d \in [Daemons -> DaemonType] /\ T.d[p] \in DaemonType
  BY <1>1, BondParts
<1>3. d \in DaemonType /\ d.mode = T.d[p].mode
  BY <1>2 DEF DaemonType
<1>4. U \in Situation /\ U.d = [T.d EXCEPT ![p] = d]
  BY <1>2, <1>3 DEF Situation
<1> HIDE DEF d, U
<1>5. Bonded(U)
  <2>1. d.mode # "dead" /\ T.d[p].mode # "dead"
    BY <1>1, <1>3 DEF Fit
  <2>2. Follows(T, p, d)
    BY <1>1, <1>3, <2>1, ExecFollows
  <2> QED BY <1>1, <1>4, <2>1, <2>2, FollowBond
<1> QED BY <1>1, <1>5, RaiseBond DEF Started, T, U

LEMMA PrepareBond ==
  ASSUME NEW S, Bonded(S), NEW p \in Daemons, Fit(S, p), NEW e PROVE Bonded(Prepare(S, p, e))
<1> DEFINE T == Consume(S, e)
           c == T.d[p]
           d == [c EXCEPT !.state = "Leaving"]
<1>1. Bonded(T) /\ Fit(T, p) /\ T.d = S.d
  BY ConsumeBond
<1> HIDE DEF T
<1>2. c = T.d[p] /\ c \in DaemonType
  BY <1>1, BondParts
<1> HIDE DEF c
<1>3. /\ d \in DaemonType /\ d.mode = c.mode /\ d.child = c.child
      /\ d.rope = c.rope /\ d.wait = c.wait /\ d.quit = c.quit
      /\ d.runMain = c.runMain /\ d.state = "Leaving"
  BY <1>2 DEF DaemonType, State
<1> HIDE DEF d
<1>4. c.state # "Supervising" => Bonded(Answer(T, p, e, "OK", d))
  BY <1>1, <1>2, <1>3, AlikeFollows, AnswerBond, CodeFacts
<1>5. Bonded(Refuse(T, p, e))
  BY <1>1, RefuseBond
<1> QED BY <1>1, <1>2, <1>4, <1>5 DEF Prepare, T, c, d

LEMMA LeaveBond ==
  ASSUME NEW S, Bonded(S), NEW p \in Daemons, Fit(S, p), NEW e \in Ends0
  PROVE  Bonded(Leave(S, p, e))
<1> DEFINE T == Consume(S, e)
           c == T.d[p]
           w == [NoWait EXCEPT !.on = "ack", !.end = c.rope, !.reply = e]
           d == [c EXCEPT !.wait = w]
<1>1. Bonded(T) /\ Fit(T, p)
  BY ConsumeBond
<1> HIDE DEF T
<1>2. c = T.d[p] /\ c \in DaemonType
  BY <1>1, BondParts
<1>3. Bonded(Refuse(T, p, e))
  BY <1>1, RefuseBond
<1>4. CASE c.state # "Leaving"
  BY <1>3, <1>4 DEF Leave, T, c
<1>5. CASE c.state = "Leaving"
  <2>1. p[2] # "main"
    BY <1>1, <1>5, MainStates
  <2>2. Bonded(Die(T, p))
    BY <1>1, <2>1, DieBond
  <2> HIDE DEF c
  <2>3. w \in WaitType
    <3>1. c.rope \in Ends0
      BY <1>2 DEF DaemonType
    <3> QED BY <3>1, ConstantsType DEF WaitType
  <2> HIDE DEF w
  <2>4. d \in DaemonType /\ d.mode = c.mode
    BY <1>2, <2>3, FieldTypes DEF DaemonType
  <2> HIDE DEF d
  <2>5. Bonded(Answer(T, p, c.rope, "CutRope", d))
    <3>1. Follows(T, p, d)
      BY <1>1, <1>2, <2>1, <2>4, ExecFollows DEF Fit
    <3> QED BY <1>1, <3>1, AnswerBond, CodeFacts
  <2> QED BY <1>5, <2>2, <2>5 DEF Leave, T, c, d, w
<1> QED BY <1>4, <1>5

LEMMA AcknowledgedBond ==
  ASSUME NEW S, Bonded(S), NEW p \in Daemons, Fit(S, p), S.d[p].wait.on = "ack"
  PROVE  Bonded(Acknowledged(S, p))
<1> DEFINE w == S.d[p].wait
           T == [Consume(S, w.end) EXCEPT !.d[p].wait = NoWait]
           d == [T.d[p] EXCEPT !.world = 0, !.quit = TRUE]
<1>1. Bonded(T) /\ Fit(T, p) /\ p[2] # "main"
  BY WakeBond, MainStates
<1> HIDE DEF T
<1>2. d \in DaemonType /\ d.mode = T.d[p].mode
  <2>1. T.d[p] \in DaemonType
    BY <1>1, BondParts
  <2> QED BY <2>1 DEF DaemonType
<1> HIDE DEF d
<1>3. Follows(T, p, d)
  BY <1>1, <1>2, ExecFollows DEF Fit
<1>4. Bonded(Answer(T, p, w.reply, "OK", d))
  BY <1>1, <1>3, AnswerBond, CodeFacts
<1> QED BY <1>4 DEF Acknowledged, T, d

LEMMA ProcessControlBond ==
  ASSUME NEW S, Bonded(S), NEW p \in Daemons, Fit(S, p), NEW e \in Ends0, NEW late,
         FreeLines(S.n) # {}
  PROVE  Bonded(ProcessControl(S, p, e, late))
<1> DEFINE m == Peek(S.n, e)
<1>1. m \in Message
  BY PeekType, BondParts, Components
<1> HIDE DEF m
<1>2. Bonded(Consume(S, e)) /\ Fit(Consume(S, e), p)
  BY ConsumeBond
<1>3. /\ Bonded(Enslave(S, p, e, m, late))
      /\ Bonded(Release(S, p, e))
      /\ Bonded(StartGrouping(S, p, e, m))
      /\ Bonded(Connecting(S, p, e, m))
      /\ Bonded(Join(S, p, e, m, late))
      /\ Bonded(AddDataLine(S, p, e, m))
      /\ Bonded(Grouped(S, p, e))
      /\ Bonded(InitData(S, p, e))
      /\ Bonded(Run(S, p, e))
  BY <1>1, EnslaveBond, ReleaseBond, StartGroupingBond, ConnectingBond, JoinBond,
     AddDataLineBond, GroupedBond, RunBond
<1>4. /\ Bonded(Prepare(S, p, e))
      /\ Bonded(Leave(S, p, e))
      /\ Bonded(CutRope(S, p, e))
      /\ Bonded(Shutdown(S, p, e))
      /\ Bonded(ForceShutdown(S, p, e))
      /\ Bonded(Raise(Consume(S, e), p))
  BY <1>2, PrepareBond, LeaveBond, CutRopeBond, ShutdownBond, RaiseBond
<1>5. /\ Bonded(Error(S, p, e))
      /\ Bonded(ForceReset(S, p, e))
  BY <1>2, ResetBond, CodeFacts DEF Error, ForceReset
<1>6. Bonded(StatusReply(S, p, e))
  <2>1. Follows(Consume(S, e), p, S.d[p])
    BY <1>2, ConsumeBond, StayFollows
  <2> QED BY <1>2, <2>1, AnswerBond, CodeFacts DEF StatusReply
<1> QED BY <1>3, <1>4, <1>5, <1>6 DEF ProcessControl, m

LEMMA ProcessDisconnectedBond ==
  ASSUME NEW S, Bonded(S), NEW p \in Daemons, Fit(S, p)
  PROVE  Bonded(ProcessDisconnected(S, p))
<1>1. Bonded(SetDefault(S, p, FALSE))
  BY SetDefaultBond
<1>2. S.d[p].state \in State
  BY BondParts DEF DaemonType
<1>3. S.d[p].state \in {"Grouped", "Running"} => Bonded(Die(S, p))
  BY BondParts, DieBond DEF MainOk
<1> QED BY <1>1, <1>2, <1>3 DEF ProcessDisconnected, State

LEMMA ProcessIncomingBond ==
  ASSUME NEW S, Bonded(S), NEW p \in Daemons, Fit(S, p), NEW late, FreeLines(S.n) # {},
         S.n.ear[p[1]] # <<>>
  PROVE  Bonded(ProcessIncoming(S, p, late))
<1> DEFINE e == Head(S.n.ear[p[1]])
           R == [S EXCEPT !.n = Accept(S.n, p[1])]
           T == ProcessControl(R, p, e, late)
<1>1. Accept(S.n, p[1]) \in NetType /\ e \in Ends0 /\ FreeLines(Accept(S.n, p[1])) # {}
  BY AcceptType, BondParts, Components, ProcsFacts, FreeLinesByHold DEF Ends0
<1>2. Bonded(R) /\ Fit(R, p)
  BY <1>1, NetBond
<1>3. R.n = Accept(S.n, p[1])
  BY BondParts DEF Situation
<1> HIDE DEF e, R
<1>4. Bonded(T)
  BY <1>1, <1>2, <1>3, ProcessControlBond
<1> HIDE DEF T
<1>5. Keep(T.n, p, End \ {e}) \in NetType
  BY <1>4, BondParts, Components, KeepType
<1>6. Bonded([T EXCEPT !.n = Keep(T.n, p, End \ {e})])
  BY <1>4, <1>5, NetBond
<1> QED BY <1>4, <1>6 DEF ProcessIncoming, e, R, T

(* Whatever a process's condition, its round may end.                       *)
LEMMA StopRoundBond ==
  ASSUME NEW S, Bonded(S), NEW p \in Daemons PROVE Bonded(StopRound(S, p))
<1> DEFINE c == S.d[p]
           d == [c EXCEPT !.todo = Idle]
           T == StopRound(S, p)
<1>1. S \in Situation /\ S.d \in [Daemons -> DaemonType] /\ c \in DaemonType /\ T \in Situation
  BY BondParts, StopRoundType
<1>2. T.d = [S.d EXCEPT ![p] = d]
  BY <1>1 DEF StopRound, Situation
<1> HIDE DEF T
<1>3. c = S.d[p]
  OBVIOUS
<1> HIDE DEF c
<1>4. /\ d \in DaemonType /\ d.mode = c.mode /\ d.child = c.child
      /\ d.rope = c.rope /\ d.wait = c.wait /\ d.quit = c.quit
      /\ d.runMain = c.runMain /\ d.state = c.state
  BY <1>1, ConstantsType DEF DaemonType
<1> HIDE DEF d
<1>5. \A q \in Daemons : LET x == T.d[q] IN
        /\ x.mode = S.d[q].mode /\ x.child = S.d[q].child
        /\ x.rope = S.d[q].rope /\ x.wait = S.d[q].wait /\ x.quit = S.d[q].quit
        /\ x.runMain = S.d[q].runMain /\ x.state = S.d[q].state
  <2> SUFFICES ASSUME NEW q \in Daemons
               PROVE  LET x == T.d[q] IN
                      /\ x.mode = S.d[q].mode /\ x.child = S.d[q].child
                      /\ x.rope = S.d[q].rope /\ x.wait = S.d[q].wait /\ x.quit = S.d[q].quit
                      /\ x.runMain = S.d[q].runMain /\ x.state = S.d[q].state
    OBVIOUS
  <2>1. T.d[q] = IF q = p THEN d ELSE S.d[q]
    BY <1>1, <1>2
  <2> QED BY <1>3, <1>4, <2>1
<1>6. \A h \in Hosts : Main(h) \in Daemons /\ Exec(h) \in Daemons
  BY ProcsFacts
<1>7. \A h \in Hosts : MainOk(T.d[Main(h)])
  BY <1>5, <1>6 DEF MainOk, Bonded, Bonds
<1>8. \A h \in Hosts : ExecOk(T.d[Main(h)], T.d[Exec(h)])
  BY <1>5, <1>6 DEF ExecOk, Bonded, Bonds
<1> QED BY <1>1, <1>7, <1>8 DEF Bonded, Bonds, T

LEMMA ProcessBond ==
  ASSUME NEW S, Bonded(S), NEW p \in Daemons, Fit(S, p), NEW e \in Ends0 \cup {Ear}, NEW late,
         FreeLines(S.n) # {}, e = Ear => S.n.ear[p[1]] # <<>>
  PROVE  Bonded(Process(S, p, e, late))
<1>1. CASE e = Ear
  BY <1>1, ProcessIncomingBond DEF Process
<1>2. CASE e # Ear
  <2>1. Bonded(ProcessControl(S, p, e, late))
    BY <1>2, ProcessControlBond
  <2>2. Bonded(StopRound(ProcessControl(S, p, e, late), p))
    BY <2>1, StopRoundBond
  <2> QED BY <1>2, <2>1, <2>2, ProcessDisconnectedBond DEF Process
<1> QED BY <1>1, <1>2

(* The end of a round: a main process neither starts a program nor quits.   *)
LEMMA SettleBond ==
  ASSUME NEW S, Bonded(S), NEW p \in Daemons PROVE Bonded(Settle(S, p))
<1> DEFINE n == Keep(S.n, p, Refs(S.d[p]) \cup Backlog(S.n, p))
           T == [S EXCEPT !.n = n]
           d == [T.d[p] EXCEPT !.mode = "main"]
           U == [T EXCEPT !.d[p].mode = "main"]
<1>1. n \in NetType
  BY BondParts, Components, KeepType
<1>2. Bonded(T) /\ T.d = S.d
  BY <1>1, NetBond
<1> HIDE DEF n, T
<1>3. p[2] # "main" => Bonded(Die(S, p))
  BY DieBond
<1>4. p[2] # "main" /\ S.d[p].mode # "dead" => Bonded(U)
  <2> SUFFICES ASSUME p[2] # "main", S.d[p].mode # "dead" PROVE Bonded(U)
    OBVIOUS
  <2>1. T \in Situation /\ T.d \in [Daemons -> DaemonType] /\ T.d[p] \in DaemonType
    BY <1>2, BondParts
  <2>2. d \in DaemonType /\ d.mode = "main"
    BY <2>1 DEF DaemonType, Mode
  <2>3. U \in Situation /\ U.d = [T.d EXCEPT ![p] = d]
    BY <2>1, <2>2 DEF Situation
  <2> HIDE DEF d, U
  <2>4. Follows(T, p, d)
    BY <2>2, ExecFollows
  <2> QED BY <1>2, <2>3, <2>4, FollowBond
<1>5. p[2] = "main" => ~S.d[p].runMain /\ ~S.d[p].quit
  BY BondParts DEF MainOk
<1> QED BY <1>2, <1>3, <1>4, <1>5 DEF Settle, T, n, U

(* The main process has buried its child.                                   *)
LEMMA BuriedBond ==
  ASSUME NEW S, Bonded(S), NEW p \in Daemons, S.d[p].wait.on = "bury",
         p[2] = "main" => S.d[Exec(p[1])].mode = "dead",
         S.d[p].mode # "dead"
  PROVE  Bonded(Buried(S, p))
<1> DEFINE c == S.d[p]
           d == [c EXCEPT !.child = FALSE, !.wait = NoWait]
           T == Buried(S, p)
<1>1. S \in Situation /\ S.d \in [Daemons -> DaemonType] /\ c \in DaemonType /\ T \in Situation
  BY BondParts, BuriedType
<1>2. T.d = [S.d EXCEPT ![p] = d]
  BY <1>1 DEF Buried, Situation
<1> HIDE DEF T
<1>3. c = S.d[p]
  OBVIOUS
<1> HIDE DEF c
<1>4. /\ d \in DaemonType /\ d.mode = c.mode /\ d.child = FALSE
      /\ d.rope = c.rope /\ d.wait.on = "no" /\ d.quit = c.quit
      /\ d.runMain = c.runMain /\ d.state = c.state
  BY <1>1, ConstantsType DEF DaemonType, NoWait
<1> HIDE DEF d
<1>5. Follows(S, p, d)
  BY <1>3, <1>4, BondParts DEF Follows, MainOk
<1> QED BY <1>1, <1>2, <1>5, FollowBond DEF T

-----------------------------------------------------------------------------
(* The actions.                                                             *)
NoMainLeaves == \A h \in Hosts : daemon[Main(h)].state # "Leaving"
Tied == Typed /\ Bonds(daemon)

LEMMA NowBond == ASSUME Tied PROVE Bonded(Now) /\ Now.d = daemon /\ Now.n = net
BY NowType DEF Tied, Bonded

LEMMA BecomeBond == ASSUME NEW S, Bonded(S), Become(S) PROVE Bonds(daemon')
BY DEF Become, Bonded

LEMMA ReadyFits ==
  ASSUME Tied, NoMainLeaves, NEW p \in Daemons, daemon[p].mode # "dead",
         p[2] = "main" => daemon[p].wait.on # "bury"
  PROVE  Fit(Now, p)
BY NowBond, MainOrExec, ProcsFacts DEF Fit, NoMainLeaves

LEMMA PollBond == ASSUME Tied, NoMainLeaves, NEW p \in Daemons, Poll(p) PROVE Bonds(daemon')
<1> DEFINE round(k) == IF daemon[p].todo # Idle THEN daemon[p].todo ELSE Polled(p, k)
           Left(k, s) == [round(k) EXCEPT ![s] = NoEnd]
           S(k, s) == [Now EXCEPT !.d[p].todo = Left(k, s)]
<1>0. PICK k \in IF daemon[p].mode = "main" THEN Chan ELSE {Master}, late \in BOOLEAN :
        \E s \in Slot :
          /\ round(k)[s] # NoEnd
          /\ \A t \in Slot : Before(t, s) => round(k)[t] = NoEnd
          /\ Become(Settle(Process(S(k, s), p, round(k)[s], late), p))
  BY Zenon DEF Poll
<1>1. PICK s \in Slot :
        /\ round(k)[s] # NoEnd
        /\ \A t \in Slot : Before(t, s) => round(k)[t] = NoEnd
        /\ Become(Settle(Process(S(k, s), p, round(k)[s], late), p))
  BY <1>0
<1>2. Typed /\ daemon[p].todo \in [Slot -> Ends0]
  BY DEF Tied, Typed, DaemonTypeOK, DaemonType
<1>3. /\ round(k) \in [Slot -> Ends0 \cup {Ear}]
      /\ \A t \in Slot \ {EarSlot} : round(k)[t] \in Ends0
      /\ round(k)[EarSlot] = Ear => net.ear[p[1]] # <<>>
  <2>1. CASE daemon[p].todo # Idle
    BY <2>1, <1>2, SlotFacts, NoEndIsNoEnd
  <2>2. CASE daemon[p].todo = Idle
    BY <1>2, <2>2, PolledType
  <2> QED BY <2>1, <2>2
<1> HIDE DEF round
<1>4. Left(k, s) \in [Slot -> Ends0]
  <2>1. CASE s = EarSlot
    BY <2>1, <1>3, ConstantsType
  <2>2. CASE s # EarSlot
    <3>1. round(k)[EarSlot] = NoEnd
      BY <2>2, <1>1, SlotFacts
    <3> QED BY <3>1, <1>3, ConstantsType
  <2> QED BY <2>1, <2>2
<1> HIDE DEF Left
<1>5. Bonded(S(k, s)) /\ Fit(S(k, s), p) /\ S(k, s).n = net
  <2> DEFINE c == daemon[p]
             d == [c EXCEPT !.todo = Left(k, s)]
  <2>1. Bonded(Now) /\ Fit(Now, p) /\ Now.d = daemon /\ Now.n = net
    BY NowBond, ReadyFits DEF Poll
  <2>2. Now \in Situation /\ daemon \in [Daemons -> DaemonType] /\ c \in DaemonType /\ c = Now.d[p]
    BY <2>1, BondParts
  <2>3. /\ S(k, s) \in Situation /\ S(k, s).d = [Now.d EXCEPT ![p] = d]
        /\ S(k, s).n = Now.n
    BY <1>4, <2>1, <2>2, SituationWith DEF Situation
  <2> HIDE DEF c, S
  <2>4. /\ d \in DaemonType /\ d.mode = c.mode /\ d.child = c.child
        /\ d.rope = c.rope /\ d.wait = c.wait /\ d.quit = c.quit
        /\ d.runMain = c.runMain /\ d.state = c.state
    BY <1>4, <2>2 DEF DaemonType
  <2> HIDE DEF d
  <2>5. Follows(Now, p, d)
    BY <2>1, <2>2, <2>4, AlikeFollows
  <2>6. Bonded(S(k, s))
    BY <2>1, <2>3, <2>5, FollowBond DEF Fit
  <2>7. S(k, s).d[p] = d
    BY <2>1, <2>2, <2>3
  <2> QED BY <2>1, <2>2, <2>3, <2>4, <2>6, <2>7 DEF Fit
<1> HIDE DEF S
<1>6. FreeLines(net) # {}
  <2>1. Room
    BY DEF Poll
  <2> QED BY <2>1 DEF Room
<1>7. round(k)[s] \in Ends0 \cup {Ear} /\ (round(k)[s] = Ear => net.ear[p[1]] # <<>>)
  BY <1>3, NoEndIsNoEnd
<1>8. Bonded(Process(S(k, s), p, round(k)[s], late))
  BY <1>5, <1>6, <1>7, ProcessBond
<1> QED BY <1>1, <1>8, SettleBond, BecomeBond

LEMMA ResumeBond == ASSUME Tied, NoMainLeaves, NEW p \in Daemons, Resume(p) PROVE Bonds(daemon')
<1>1. FreeLines(Now.n) # {}
  BY NowBond DEF Resume, Room
<1>2. daemon[p].wait.on \in {"line", "start", "ack"}
  BY DEF Resume
<1>3. daemon[p].mode # "dead"
  BY <1>2, NowBond, BondParts DEF MainOk, ExecOk
<1>4. Bonded(Now) /\ Fit(Now, p) /\ Now.d = daemon
  BY <1>2, <1>3, NowBond, ReadyFits
<1>5. /\ Bonded(Connected(Now, p))
      /\ daemon[p].wait.on = "start" => Bonded(Started(Now, p))
      /\ daemon[p].wait.on = "ack" => Bonded(Acknowledged(Now, p))
  BY <1>1, <1>4, ConnectedBond, StartedBond, AcknowledgedBond
<1> QED BY <1>5, SettleBond, BecomeBond DEF Resume

LEMMA BuryBond == ASSUME Tied, NEW p \in Daemons, Bury(p) PROVE Bonds(daemon')
<1>1. Bonded(Now) /\ Now.d = daemon
  BY NowBond
<1>2. daemon[p].wait.on = "bury" /\ daemon[Exec(p[1])].mode = "dead"
  BY DEF Bury
<1>3. daemon[p].mode # "dead"
  BY <1>1, <1>2, BondParts DEF MainOk, ExecOk
<1>4. Bonded(Buried(Now, p))
  BY <1>1, <1>2, <1>3, BuriedBond
<1> QED BY <1>4, SettleBond, BecomeBond DEF Bury

LEMMA FinishMainBond == ASSUME Tied, NEW p \in Daemons, FinishMain(p) PROVE Bonds(daemon')
<1>1. Bonded(Now) /\ Now.d = daemon /\ daemon[p].mode = "main"
  BY NowBond DEF FinishMain
<1>2. p[2] # "main"
  BY <1>1, BondParts DEF MainOk
<1>3. Bonded(Finish(Now, p))
  BY <1>1, <1>2, FinishBond
<1> QED BY <1>3, SettleBond, BecomeBond DEF FinishMain

LEMMA TimeOutBond == ASSUME Tied, NoMainLeaves, NEW p \in Daemons, TimeOut(p) PROVE Bonds(daemon')
<1>1. daemon[p].wait.on \in {"line", "start"}
  BY DEF TimeOut
<1>2. daemon[p].mode # "dead"
  BY <1>1, NowBond, BondParts DEF MainOk, ExecOk
<1>3. Bonded(Now) /\ Fit(Now, p)
  BY <1>1, <1>2, NowBond, ReadyFits
<1> QED BY <1>3, RaiseBond, SettleBond, BecomeBond DEF TimeOut

LEMMA BuryLateBond == ASSUME Tied, NEW p \in Daemons, BuryLate(p) PROVE Bonds(daemon')
<1> DEFINE E == Exec(p[1])
           K == Die(Now, E)
<1>1. Bonded(Now) /\ Now.d = daemon /\ daemon[p].wait.on = "bury"
  BY NowBond DEF BuryLate
<1>2. daemon \in [Daemons -> DaemonType] /\ E \in Daemons
  BY <1>1, BondParts, ProcsFacts
<1>3. Bonded(K) /\ K.d = [daemon EXCEPT ![E] = Dead]
  BY <1>1, <1>2, DieBond, MainOrExec
<1> HIDE DEF K
<1>4. CASE p[2] = "main"
  <2>1. p # E
    BY <1>4, MainOrExec
  <2>2. K.d[p] = daemon[p] /\ K.d[E].mode = "dead"
    BY <1>2, <1>3, <2>1, DeadFacts
  <2>3. daemon[p].mode # "dead"
    BY <1>1, <1>4, BondParts DEF MainOk
  <2>4. Bonded(Buried(K, p))
    BY <1>1, <1>3, <2>2, <2>3, BuriedBond
  <2> QED BY <2>4, SettleBond, BecomeBond DEF BuryLate, K
<1>5. CASE p[2] # "main"
  <2>1. p = E
    BY <1>5, MainOrExec
  <2>2. K.d[p] = Dead
    BY <1>2, <1>3, <2>1
  <2>3. Buried(K, p).d = K.d
    <3>1. K.d \in [Daemons -> DaemonType] /\ K \in Situation
      BY <1>3, BondParts
    <3>2. [Dead EXCEPT !.child = FALSE, !.wait = NoWait] = Dead
      <4>1. Dead \in DaemonType /\ Dead.child = FALSE /\ Dead.wait = NoWait
        BY ConstantsType DEF Dead
      <4>2. \A d \in DaemonType : d.child = FALSE /\ d.wait = NoWait =>
              [d EXCEPT !.child = FALSE, !.wait = NoWait] = d
        BY DEF DaemonType
      <4> QED BY <4>1, <4>2
    <3>3. Buried(K, p).d = [K.d EXCEPT ![p] = [K.d[p] EXCEPT !.child = FALSE, !.wait = NoWait]]
      BY <3>1 DEF Buried, Situation
    <3> QED BY <2>2, <3>1, <3>2, <3>3
  <2>4. Bonded(Buried(K, p))
    BY <1>3, <2>3, BondParts, BuriedType, SameBond
  <2> QED BY <2>4, SettleBond, BecomeBond DEF BuryLate, K
<1> QED BY <1>4, <1>5

LEMMA ExecCrashBond == ASSUME Tied, NEW h \in Hosts, ExecCrash(h) PROVE Bonds(daemon')
<1>1. Bonded(Die(Now, Exec(h)))
  BY NowBond, DieBond, MainOrExec, ProcsFacts
<1> QED BY <1>1, BecomeBond DEF ExecCrash

-----------------------------------------------------------------------------
(* The ends a process still uses, the ends that wait to be accepted, and    *)
(* what has arrived at an end.                                              *)
Uses(d) == (Refs(d) \cup {d.todo[s] : s \in Slot}) \ {NoEnd}
Queue(n, h) == {n.ear[h][i] : i \in DOMAIN n.ear[h]}
Msgs(n, x) == {n.box[x][i] : i \in DOMAIN n.box[x]}
Says(n, x, T) == \E m \in Msgs(n, x) : m.tag \in T

(* What clients say on a line that was accepted.                            *)
ClientCode == {"Disconnect", "Peers", "ConnectTo", "Grouped", "InitialData", "Run", "Start",
               "PrepareToLeave", "Leave"}

(* A main process that serves a client whose group is not formed yet, and   *)
(* the end of the client's line.                                            *)
Forming(d) == d.mode # "dead" /\ d.state \in {"Enslaved", "FormingGroup"}
Home(d) == d.line[<<0, Master>>]

(* The parts of the invariant, about a situation S in which process p       *)
(* handles the ends X, while a connection of A is being accepted and the    *)
(* clients hold the lines K.  The conversations of the hosts F stay as in V, *)
(* and so do the clients that hold an end.                                  *)
Owned(S, p, X) ==
  /\ \A q \in Daemons : \A e \in Uses(S.d[q]) : q \in S.n.hold[e]
  /\ \A e \in X : e \in End /\ p \in S.n.hold[e]

Queued(S, X, K) ==
  \A h \in Hosts :
    /\ \A e \in Queue(S.n, h) :
         /\ e[2] = "far"
         /\ S.n.hold[e] = {Main(h)}
         /\ e \notin Uses(S.d[Main(h)]) /\ e \notin X
         /\ Other(e) \notin K
         /\ S.n.box[Other(e)] = <<>>
         /\ ~Says(S.n, e, ClientCode)
    /\ \A i, j \in DOMAIN S.n.ear[h] : S.n.ear[h][i] = S.n.ear[h][j] => i = j

Enslaving(S, p, A) ==
  \A e \in End : Says(S.n, e, {"Enslave"}) =>
    /\ S.n.hold[Other(e)] \cap Daemons = {}
    /\ IF e \in A THEN S.n.hold[e] \subseteq {p}
       ELSE Len(S.n.box[e]) = 1 /\ \E h \in Hosts : e \in Queue(S.n, h)

Emptied(S) == \A e \in End : S.n.hold[e] = {} => S.n.box[e] = <<>>

(* No client is at the far end.                                             *)
Peer(n, x) == n.hold[Other(x)] \cap Clients = {} /\ ~Says(n, x, ClientCode)
Joining(S) ==
  \A e \in End :
    /\ Says(S.n, e, {"Join", "DataLine"}) => Peer(S.n, e)
    /\ \A m \in Msgs(S.n, e) : m.tag = "DataLine" => m.chan # Master

FormOk(n, d, p, X) ==
  Forming(d) =>
    LET e == Home(d)
    IN /\ e \in End /\ e[2] = "far"
       /\ n.hold[e] = {p}
       /\ n.hold[Other(e)] \cap Daemons = {}
       /\ \A m \in Msgs(n, e) : m.tag \in {"Peers", "ConnectTo", "Grouped", "Disconnect"}
       /\ \A m \in Msgs(n, Other(e)) : m.tag \in {"OK", "Refuse"}
       /\ \A x \in Uses(d) \ {e} : Peer(n, x)
       /\ \A x \in X \ {e} : ~Says(n, x, ClientCode)
       /\ d.wait.on = "line" => d.wait.reply = e /\ d.wait.end[2] = "near"
Formed(S, p, X) ==
  \A h \in Hosts : FormOk(S.n, S.d[Main(h)], Main(h), IF Main(h) = p THEN X ELSE {})

MainRec(d) ==
  /\ d.state \in {"Free", "Enslaved", "FormingGroup", "Supervising"}
  /\ d.mode \in {"dead", "loop"}
  /\ d.cache = NoLines
  /\ d.state = "Free" => d.line = NoLines
  /\ d.wait.on = "no" => d.wait = NoWait
  /\ d.wait.on = "line" => d.state = "FormingGroup"
ExecRec(d) == d.mode # "dead" => \/ d.state \in {"Grouped", "Leaving"}
                                 \/ d.state = "Free" /\ d.quit
Records(S) == \A h \in Hosts : MainRec(S.d[Main(h)]) /\ ExecRec(S.d[Exec(h)])

(* What a client and a main process that forms a group see of each other.   *)
View(n, d) == [home |-> Home(d), a |-> n.box[Other(Home(d))], b |-> n.box[Home(d)],
               blocked |-> d.wait.on = "line", formed |-> d.state = "FormingGroup"]
Seen(S, F, V) == \A h \in F : Forming(S.d[Main(h)]) => View(S.n, S.d[Main(h)]) = V.view[h]

(* An end that only clients held is still held by the same.                 *)
Lent(n, V) ==
  \A x \in End : V.hold[x] # {} /\ V.hold[x] \cap Daemons = {} => n.hold[x] = V.hold[x]
Frozen(S, F, V) == Seen(S, F, V) /\ Lent(S.n, V)

Wired(S, p, X, A, K, F, V) ==
  /\ Owned(S, p, X) /\ Queued(S, X, K) /\ Enslaving(S, p, A) /\ Emptied(S)
  /\ Joining(S) /\ Formed(S, p, X) /\ Records(S) /\ Frozen(S, F, V)

-----------------------------------------------------------------------------
(* What a daemon says on its lines changes no end it does not use: from n   *)
(* to o process p reads and writes the ends M and sends messages of C.      *)
Said == {"OK", "Refuse", "Status", "Done", "CutRope", "Error", "Renegade"}
Calmed(n, o, M, C) ==
  /\ o.hold = n.hold /\ o.ear = n.ear /\ o.listen = n.listen
  /\ \A x \in End :
       /\ x \notin M /\ Other(x) \notin M => o.box[x] = n.box[x]
       /\ Other(x) \notin M => Msgs(o, x) \subseteq Msgs(n, x)
       /\ \A m \in Msgs(o, x) : m \in Msgs(n, x) \/ m.tag \in C
       /\ n.hold[x] = {} /\ n.box[x] = <<>> => o.box[x] = <<>>

LEMMA CalmSame == ASSUME NEW n, NEW M, NEW C PROVE Calmed(n, n, M, C)
BY DEF Calmed

LEMMA CalmTrans ==
  ASSUME NEW n, NEW o, NEW q, NEW M, NEW C, Calmed(n, o, M, C), Calmed(o, q, M, C)
  PROVE  Calmed(n, q, M, C)
<1> HIDE DEF Msgs
<1>1. /\ q.hold = n.hold /\ q.ear = n.ear /\ q.listen = n.listen
      /\ o.hold = n.hold
  BY DEF Calmed
<1>2. ASSUME NEW x \in End
      PROVE  /\ x \notin M /\ Other(x) \notin M => q.box[x] = n.box[x]
             /\ Other(x) \notin M => Msgs(q, x) \subseteq Msgs(n, x)
             /\ \A m \in Msgs(q, x) : m \in Msgs(n, x) \/ m.tag \in C
             /\ n.hold[x] = {} /\ n.box[x] = <<>> => q.box[x] = <<>>
  BY <1>1, <1>2 DEF Calmed
<1> QED BY <1>1, <1>2 DEF Calmed

LEMMA CalmMore ==
  ASSUME NEW n, NEW o, NEW M, NEW C, Calmed(n, o, M, C), NEW N, M \subseteq N, NEW D, C \subseteq D
  PROVE  Calmed(n, o, N, D)
BY DEF Calmed

(* The messages of a sequence that loses its head or gets a new last one.   *)
LEMMA TailMsgs ==
  ASSUME NEW s \in Seq(Message), s # <<>>
  PROVE  {Tail(s)[i] : i \in DOMAIN Tail(s)} \subseteq {s[i] : i \in DOMAIN s}
<1> SUFFICES ASSUME NEW i \in DOMAIN Tail(s) PROVE \E j \in DOMAIN s : Tail(s)[i] = s[j]
  OBVIOUS
<1>1. Tail(s)[i] = s[i + 1] /\ i + 1 \in DOMAIN s
  OBVIOUS
<1> QED BY <1>1

LEMMA AppendMsgs ==
  ASSUME NEW s \in Seq(Message), NEW m \in Message
  PROVE  {Append(s, m)[i] : i \in DOMAIN Append(s, m)} = {s[i] : i \in DOMAIN s} \cup {m}
<1> DEFINE t == Append(s, m)
<1>1. DOMAIN t = DOMAIN s \cup {Len(s) + 1} /\ Len(s) + 1 \notin DOMAIN s
  OBVIOUS
<1>2. t[Len(s) + 1] = m /\ \A i \in DOMAIN s : t[i] = s[i]
  OBVIOUS
<1> HIDE DEF t
<1>3. {t[i] : i \in DOMAIN t} = {s[i] : i \in DOMAIN s} \cup {m}
  BY <1>1, <1>2
<1> QED BY <1>3 DEF t

LEMMA MsgsAppend ==
  ASSUME NEW n, NEW o, NEW x, n.box[x] \in Seq(Message), NEW m \in Message,
         o.box[x] = Append(n.box[x], m)
  PROVE  Msgs(o, x) = Msgs(n, x) \cup {m}
<1> DEFINE s == n.box[x]
           t == o.box[x]
<1>1. t = Append(s, m) /\ s \in Seq(Message)
  OBVIOUS
<1> HIDE DEF s, t
<1>2. {t[i] : i \in DOMAIN t} = {s[i] : i \in DOMAIN s} \cup {m}
  BY <1>1, AppendMsgs
<1> QED BY <1>2 DEF s, t, Msgs

LEMMA SameMsgs ==
  ASSUME NEW n, NEW o, NEW x, o.box[x] = n.box[x] PROVE Msgs(o, x) = Msgs(n, x)
BY DEF Msgs

LEMMA NoMsgs == ASSUME NEW n, NEW x, n.box[x] = <<>> PROVE Msgs(n, x) = {}
BY DEF Msgs

LEMMA NothingArrived ==
  ASSUME NEW n, NEW x, n.box[x] \in Seq(Message), Msgs(n, x) = {} PROVE n.box[x] = <<>>
<1>1. \A s \in Seq(Message) : s # <<>> => 1 \in DOMAIN s
  OBVIOUS
<1>2. n.box[x] # <<>> => n.box[x][1] \in Msgs(n, x)
  BY <1>1 DEF Msgs
<1> QED BY <1>2

LEMMA CalmReceive ==
  ASSUME NEW n \in NetType, NEW e, NEW M, e \in M, NEW C
  PROVE  Calmed(n, Receive(n, e), M, C)
<1>1. CASE e \in End /\ n.box[e] # <<>>
  <2> DEFINE o == [n EXCEPT !.box[e] = Tail(n.box[e])]
  <2>1. Receive(n, e) = o
    BY <1>1 DEF Receive
  <2>2. /\ o.hold = n.hold /\ o.ear = n.ear /\ o.listen = n.listen
        /\ \A x \in End : o.box[x] = IF x = e THEN Tail(n.box[e]) ELSE n.box[x]
    BY <1>1 DEF NetType
  <2>3. n.box[e] \in Seq(Message)
    BY <1>1 DEF NetType
  <2> HIDE DEF o
  <2>4. \A x \in End : Msgs(o, x) \subseteq Msgs(n, x)
    BY <1>1, <2>2, <2>3, TailMsgs DEF Msgs
  <2> QED BY <1>1, <2>1, <2>2, <2>4 DEF Calmed
<1>2. CASE ~(e \in End /\ n.box[e] # <<>>)
  BY <1>2, CalmSame DEF Receive
<1> QED BY <1>1, <1>2

LEMMA CalmSend ==
  ASSUME NEW n \in NetType, NEW e, NEW M, e \in M, NEW m \in Message, NEW C, m.tag \in C
  PROVE  Calmed(n, Send(n, e, m), M, C)
<1>1. CASE e \in End /\ ~Hung(n, e)
  <2> DEFINE o == [n EXCEPT !.box[Other(e)] = Append(n.box[Other(e)], m)]
  <2>1. Send(n, e, m) = o
    BY <1>1 DEF Send
  <2>2. Other(e) \in End /\ Other(Other(e)) = e /\ n.hold[Other(e)] # {}
    BY <1>1, OtherIsEnd DEF Hung
  <2>3. /\ o.hold = n.hold /\ o.ear = n.ear /\ o.listen = n.listen
        /\ \A x \in End : o.box[x] = IF x = Other(e) THEN Append(n.box[x], m) ELSE n.box[x]
    BY <2>2 DEF NetType
  <2>4. \A x \in End : n.box[x] \in Seq(Message)
    BY DEF NetType
  <2> HIDE DEF o
  <2>5. Msgs(o, Other(e)) = Msgs(n, Other(e)) \cup {m}
    <3>1. o.box[Other(e)] = Append(n.box[Other(e)], m) /\ n.box[Other(e)] \in Seq(Message)
      BY <2>2, <2>3, <2>4
    <3> QED BY <3>1, MsgsAppend
  <2>6. \A x \in End : x # Other(e) => Msgs(o, x) = Msgs(n, x)
    BY <2>3, SameMsgs
  <2> QED BY <2>1, <2>2, <2>3, <2>5, <2>6 DEF Calmed
<1>2. CASE e \notin End
  BY <1>2, CalmSame DEF Send
<1>3. CASE e \in End /\ Hung(n, e)
  <2>1. Send(n, e, m) = [n EXCEPT !.rst = n.rst \cup {e}]
    BY <1>3 DEF Send
  <2> DEFINE o == [n EXCEPT !.rst = n.rst \cup {e}]
  <2>2. o.hold = n.hold /\ o.ear = n.ear /\ o.listen = n.listen /\ o.box = n.box
    BY DEF NetType
  <2> HIDE DEF o
  <2> QED BY <2>1, <2>2 DEF Calmed, Msgs, o
<1> QED BY <1>1, <1>2, <1>3

LEMMA CalmSendEach ==
  ASSUME NEW n \in NetType, NEW Y \in SUBSET Ends0, NEW M, Y \cap End \subseteq M,
         NEW m \in Message, NEW C, m.tag \in C
  PROVE  Calmed(n, SendEach(n, Y, m), M, C)
<1> DEFINE o == SendEach(n, Y, m)
<1>1. \A x \in End : o.box[x] = IF Other(x) \in Y /\ n.hold[x] # {} THEN Append(n.box[x], m)
                                ELSE n.box[x]
  BY DEF SendEach, NetType
<1>2. o.hold = n.hold /\ o.ear = n.ear /\ o.listen = n.listen
  BY SendEachType
<1>3. \A x \in End : n.box[x] \in Seq(Message) /\ Other(x) \in End
  BY OtherIsEnd DEF NetType
<1> HIDE DEF o
<1>4. ASSUME NEW x \in End, Other(x) \in Y, n.hold[x] # {} PROVE Msgs(o, x) = Msgs(n, x) \cup {m}
  <2>1. o.box[x] = Append(n.box[x], m) /\ n.box[x] \in Seq(Message)
    BY <1>1, <1>3, <1>4
  <2> QED BY <2>1, MsgsAppend
<1>6. \A x \in End : ~(Other(x) \in Y /\ n.hold[x] # {}) => Msgs(o, x) = Msgs(n, x)
  BY <1>1, SameMsgs
<1>5. \A x \in End : Other(x) \in Y => Other(x) \in M
  BY <1>3
<1> QED BY <1>1, <1>2, <1>4, <1>5, <1>6 DEF Calmed, o

-----------------------------------------------------------------------------
(* A daemon changes its record and reads and writes ends it uses.           *)

LEMMA UsesType == ASSUME NEW d \in DaemonType PROVE Uses(d) \subseteq End
<1>1. /\ \A s \in Spot : d.line[s] \in Ends0 /\ d.cache[s] \in Ends0
      /\ \A s \in Slot : d.todo[s] \in Ends0
      /\ d.rope \in Ends0 /\ d.wait \in WaitType
  BY DEF DaemonType
<1>2. \A k \in Chan : d.wait.lines[k] \in Ends0
  BY <1>1 DEF WaitType
<1>3. d.wait.end \in Ends0 /\ d.wait.reply \in Ends0
  BY <1>1 DEF WaitType
<1> QED BY <1>1, <1>2, <1>3 DEF Uses, Refs, Ends0

(* The record of a process is one of the program.                           *)
Rec(p, d) == (p[2] = "main" => MainRec(d)) /\ (p[2] = "exec" => ExecRec(d))

(* p, which handled X and now handles Y, went on to d.                      *)
Moved(S, T, p, X, d, Y, M, C) ==
  /\ T \in Situation /\ T.d = [S.d EXCEPT ![p] = d] /\ d \in DaemonType
  /\ Calmed(S.n, T.n, M, C) /\ C \subseteq Said
  /\ M \subseteq Uses(S.d[p]) \cup X
  /\ Y \subseteq Uses(S.d[p]) \cup X
  /\ Uses(d) \subseteq Uses(S.d[p]) \cup X

LEMMA UsedEnds ==
  ASSUME NEW S \in Situation, NEW p \in Daemons, NEW X, Owned(S, p, X)
  PROVE  /\ \A x \in Uses(S.d[p]) \cup X : x \in End /\ p \in S.n.hold[x]
         /\ \A x \in End : S.n.hold[x] \cap Daemons = {} => x \notin Uses(S.d[p]) \cup X
BY Components, UsesType DEF Owned

LEMMA MovedProcs ==
  ASSUME NEW S \in Situation, NEW T, NEW p \in Daemons, NEW X, NEW d, NEW Y, NEW M, NEW C,
         Moved(S, T, p, X, d, Y, M, C)
  PROVE  /\ T.d[p] = d
         /\ \A q \in Daemons : q # p => T.d[q] = S.d[q]
BY Components DEF Moved

LEMMA MovedOwned ==
  ASSUME NEW S \in Situation, NEW T, NEW p \in Daemons, NEW X, NEW d, NEW Y, NEW M, NEW C,
         Moved(S, T, p, X, d, Y, M, C), Owned(S, p, X)
  PROVE  Owned(T, p, Y)
<1>1. T.n.hold = S.n.hold
  BY DEF Moved, Calmed
<1>2. \A x \in Uses(S.d[p]) \cup X : x \in End /\ p \in S.n.hold[x]
  BY UsedEnds
<1>3. \A q \in Daemons : \A e \in Uses(T.d[q]) : q \in T.n.hold[e]
  <2> SUFFICES ASSUME NEW q \in Daemons, NEW e \in Uses(T.d[q]) PROVE q \in T.n.hold[e]
    OBVIOUS
  <2>1. CASE q = p
    BY <1>1, <1>2, <2>1, MovedProcs DEF Moved
  <2>2. CASE q # p
    BY <1>1, <2>2, MovedProcs DEF Owned
  <2> QED BY <2>1, <2>2
<1> QED BY <1>1, <1>2, <1>3 DEF Owned, Moved

LEMMA MovedQueued ==
  ASSUME NEW S \in Situation, NEW T, NEW p \in Daemons, NEW X, NEW d, NEW Y, NEW M, NEW C,
         Moved(S, T, p, X, d, Y, M, C), Owned(S, p, X), NEW K, Queued(S, X, K)
  PROVE  Queued(T, Y, K)
<1>0. T.d[p] = d /\ \A q \in Daemons : q # p => T.d[q] = S.d[q]
  BY MovedProcs
<1>1. T.n.hold = S.n.hold /\ T.n.ear = S.n.ear
  BY DEF Moved, Calmed
<1>2. ASSUME NEW h \in Hosts, NEW e \in Queue(T.n, h)
      PROVE  /\ e[2] = "far" /\ T.n.hold[e] = {Main(h)}
             /\ e \notin Uses(T.d[Main(h)]) /\ e \notin Y
             /\ Other(e) \notin K /\ T.n.box[Other(e)] = <<>>
             /\ ~Says(T.n, e, ClientCode)
  <2>1. e \in Queue(S.n, h)
    BY <1>1, <1>2 DEF Queue
  <2>2. /\ e[2] = "far" /\ S.n.hold[e] = {Main(h)} /\ e \notin Uses(S.d[Main(h)]) /\ e \notin X
        /\ Other(e) \notin K /\ S.n.box[Other(e)] = <<>> /\ ~Says(S.n, e, ClientCode)
    BY <2>1 DEF Queued
  <2>3. e \in End /\ Other(e) \in End /\ Other(Other(e)) = e
    <3>1. S.n.ear[h] \in Seq(End)
      BY Components DEF NetType
    <3>2. e \in End
      BY <2>1, <3>1 DEF Queue
    <3> QED BY <3>2, OtherIsEnd
  <2>4. e \notin Uses(S.d[p]) \cup X
    BY <2>2, UsedEnds
  <2>5. e \notin M /\ e \notin Y /\ e \notin Uses(d)
    BY <2>4 DEF Moved
  <2>6. e \notin Uses(T.d[Main(h)])
    BY <1>0, <2>2, <2>5, ProcsFacts
  <2>7. Msgs(T.n, Other(e)) \subseteq Msgs(S.n, Other(e))
    BY <2>3, <2>5 DEF Moved, Calmed
  <2>8. T.n.box[Other(e)] = <<>>
    <3>1. Msgs(S.n, Other(e)) = {}
      BY <2>2, NoMsgs
    <3>2. T.n.box[Other(e)] \in Seq(Message)
      BY <2>3, Components DEF Moved, NetType
    <3> QED BY <2>7, <3>1, <3>2, NothingArrived
  <2>9. \A m \in Msgs(T.n, e) : m \in Msgs(S.n, e) \/ m.tag \in Said
    BY <2>3 DEF Moved, Calmed
  <2>10. ~Says(T.n, e, ClientCode)
    BY <2>2, <2>9 DEF Says, Said, ClientCode
  <2> QED BY <1>1, <2>2, <2>5, <2>6, <2>8, <2>10
<1>3. \A h \in Hosts : \A i, j \in DOMAIN T.n.ear[h] : T.n.ear[h][i] = T.n.ear[h][j] => i = j
  BY <1>1 DEF Queued
<1> QED BY <1>2, <1>3 DEF Queued

LEMMA MovedEnslaving ==
  ASSUME NEW S \in Situation, NEW T, NEW p \in Daemons, NEW X, NEW d, NEW Y, NEW M, NEW C,
         Moved(S, T, p, X, d, Y, M, C), Owned(S, p, X), NEW K, Queued(S, X, K),
         NEW A, Enslaving(S, p, A)
  PROVE  Enslaving(T, p, A)
<1> SUFFICES ASSUME NEW e \in End, Says(T.n, e, {"Enslave"})
             PROVE  /\ T.n.hold[Other(e)] \cap Daemons = {}
                    /\ IF e \in A THEN T.n.hold[e] \subseteq {p}
                       ELSE Len(T.n.box[e]) = 1 /\ \E h \in Hosts : e \in Queue(T.n, h)
  BY DEF Enslaving
<1>1. T.n.hold = S.n.hold /\ T.n.ear = S.n.ear
  BY DEF Moved, Calmed
<1>2. \A m \in Msgs(T.n, e) : m \in Msgs(S.n, e) \/ m.tag \in Said
  BY DEF Moved, Calmed
<1>3. Says(S.n, e, {"Enslave"})
  BY <1>2 DEF Says, Said
<1>4. /\ S.n.hold[Other(e)] \cap Daemons = {}
      /\ IF e \in A THEN S.n.hold[e] \subseteq {p}
         ELSE Len(S.n.box[e]) = 1 /\ \E h \in Hosts : e \in Queue(S.n, h)
  BY <1>3 DEF Enslaving
<1>5. CASE e \in A
  BY <1>1, <1>4, <1>5
<1>6. CASE e \notin A
  <2>1. PICK h \in Hosts : e \in Queue(S.n, h)
    BY <1>4, <1>6
  <2>2. e \notin Uses(S.d[Main(h)]) /\ e \notin X /\ S.n.hold[e] = {Main(h)}
    BY <2>1 DEF Queued
  <2>3. e \notin M /\ Other(e) \notin M
    BY <1>4, <2>2, UsedEnds, OtherIsEnd DEF Moved
  <2>4. T.n.box[e] = S.n.box[e]
    BY <2>3 DEF Moved, Calmed
  <2> QED BY <1>1, <1>4, <1>6, <2>1, <2>4 DEF Queue
<1> QED BY <1>5, <1>6

LEMMA SaysStays ==
  ASSUME NEW n, NEW o, NEW M, NEW C, Calmed(n, o, M, C), C \subseteq Said,
         NEW x \in End, NEW D, D \cap Said = {}, ~Says(n, x, D)
  PROVE  ~Says(o, x, D)
BY DEF Says, Calmed

LEMMA CodesApart == ClientCode \cap Said = {} /\ {"Join", "DataLine"} \cap Said = {} /\ "Enslave" \notin Said
BY DEF ClientCode, Said

LEMMA PeerStays ==
  ASSUME NEW n, NEW o, NEW M, NEW C, Calmed(n, o, M, C), C \subseteq Said, NEW x \in End, Peer(n, x)
  PROVE  Peer(o, x)
<1>1. ~Says(o, x, ClientCode)
  BY SaysStays, CodesApart DEF Peer
<1> QED BY <1>1 DEF Peer, Calmed

LEMMA MovedEmptied ==
  ASSUME NEW S, NEW T, NEW p, NEW X, NEW d, NEW Y, NEW M, NEW C,
         Moved(S, T, p, X, d, Y, M, C), Emptied(S)
  PROVE  Emptied(T)
BY DEF Moved, Emptied, Calmed

LEMMA MovedJoining ==
  ASSUME NEW S, NEW T, NEW p, NEW X, NEW d, NEW Y, NEW M, NEW C,
         Moved(S, T, p, X, d, Y, M, C), Joining(S)
  PROVE  Joining(T)
<1>1. Calmed(S.n, T.n, M, C) /\ C \subseteq Said
  BY DEF Moved
<1> SUFFICES ASSUME NEW e \in End
             PROVE  /\ Says(T.n, e, {"Join", "DataLine"}) => Peer(T.n, e)
                    /\ \A m \in Msgs(T.n, e) : m.tag = "DataLine" => m.chan # Master
  BY DEF Joining
<1>2. Says(T.n, e, {"Join", "DataLine"}) => Says(S.n, e, {"Join", "DataLine"})
  BY <1>1, SaysStays, CodesApart
<1>3. Says(T.n, e, {"Join", "DataLine"}) => Peer(T.n, e)
  BY <1>1, <1>2, PeerStays DEF Joining
<1>4. \A m \in Msgs(T.n, e) : m.tag = "DataLine" => m \in Msgs(S.n, e)
  BY <1>1 DEF Calmed, Said
<1> QED BY <1>3, <1>4 DEF Joining

(* A main process that goes on serving its client.                          *)
Serves(n, c, X, d, Y, M, C) ==
  LET e == Home(c)
  IN /\ Forming(c) /\ Home(d) = e
     /\ Other(e) \notin M
     /\ e \notin M \/ C \subseteq {"OK", "Refuse"}
     /\ \A x \in Uses(d) \ {e} : x \in End /\ Peer(n, x)
     /\ \A x \in Y \ {e} : x \in End /\ ~Says(n, x, ClientCode)
     /\ d.wait.on = "line" => d.wait.reply = e /\ d.wait.end[2] = "near"

LEMMA StayFormed ==
  ASSUME NEW n, NEW o, NEW M, NEW C, Calmed(n, o, M, C), C \subseteq Said,
         NEW q, NEW c, NEW X, FormOk(n, c, q, X),
         NEW d, NEW Y, Forming(d) => Serves(n, c, X, d, Y, M, C)
  PROVE  FormOk(o, d, q, Y)
<1> SUFFICES ASSUME Forming(d) PROVE FormOk(o, d, q, Y)
  BY DEF FormOk
<1> DEFINE e == Home(c)
<1>1. /\ e \in End /\ e[2] = "far" /\ n.hold[e] = {q} /\ n.hold[Other(e)] \cap Daemons = {}
      /\ \A m \in Msgs(n, e) : m.tag \in {"Peers", "ConnectTo", "Grouped", "Disconnect"}
      /\ \A m \in Msgs(n, Other(e)) : m.tag \in {"OK", "Refuse"}
  BY DEF FormOk, Serves
<1>2. Serves(n, c, X, d, Y, M, C)
  OBVIOUS
<1>3. /\ Home(d) = e /\ Other(e) \notin M
      /\ e \notin M \/ C \subseteq {"OK", "Refuse"}
      /\ \A x \in Uses(d) \ {e} : x \in End /\ Peer(n, x)
      /\ \A x \in Y \ {e} : x \in End /\ ~Says(n, x, ClientCode)
      /\ d.wait.on = "line" => d.wait.reply = e /\ d.wait.end[2] = "near"
  BY <1>2 DEF Serves
<1> HIDE DEF e
<1>4. Other(e) \in End /\ Other(Other(e)) = e
  BY <1>1, OtherIsEnd
<1>5. Msgs(o, e) \subseteq Msgs(n, e) /\ o.hold = n.hold
  BY <1>1, <1>3 DEF Calmed
<1>6. \A m \in Msgs(o, Other(e)) : m.tag \in {"OK", "Refuse"}
  <2>1. CASE e \notin M
    BY <1>1, <1>4, <2>1 DEF Calmed
  <2>2. CASE C \subseteq {"OK", "Refuse"}
    BY <1>1, <1>4, <2>2 DEF Calmed
  <2> QED BY <1>3, <2>1, <2>2
<1>7. \A x \in Uses(d) \ {e} : Peer(o, x)
  BY <1>3, PeerStays
<1>8. \A x \in Y \ {e} : ~Says(o, x, ClientCode)
  BY <1>3, SaysStays, CodesApart
<1> QED BY <1>1, <1>3, <1>5, <1>6, <1>7, <1>8 DEF FormOk

LEMMA MovedFormed ==
  ASSUME NEW S \in Situation, NEW T, NEW p \in Daemons, NEW X, NEW d, NEW Y, NEW M, NEW C,
         Moved(S, T, p, X, d, Y, M, C), Owned(S, p, X), Formed(S, p, X),
         p[2] = "main" => FormOk(T.n, d, p, Y)
  PROVE  Formed(T, p, Y)
<1>0. T.d[p] = d /\ \A q \in Daemons : q # p => T.d[q] = S.d[q]
  BY MovedProcs
<1>1. Calmed(S.n, T.n, M, C) /\ C \subseteq Said /\ M \subseteq Uses(S.d[p]) \cup X
  BY DEF Moved
<1> SUFFICES ASSUME NEW h \in Hosts
             PROVE  FormOk(T.n, T.d[Main(h)], Main(h), IF Main(h) = p THEN Y ELSE {})
  BY DEF Formed
<1>2. CASE Main(h) = p
  BY <1>0, <1>2, MainOrExec
<1>3. CASE Main(h) # p
  <2> DEFINE c == S.d[Main(h)]
             e == Home(c)
  <2>1. Main(h) \in Daemons /\ T.d[Main(h)] = c
    BY <1>0, <1>3, ProcsFacts
  <2>2. FormOk(S.n, c, Main(h), {})
    BY <1>3 DEF Formed
  <2>3. c \in DaemonType /\ \A x \in Uses(c) : x \in End
    BY <2>1, Components, UsesType
  <2>4. Forming(c) => Serves(S.n, c, {}, c, {}, M, C)
    <3> SUFFICES ASSUME Forming(c) PROVE Serves(S.n, c, {}, c, {}, M, C)
      OBVIOUS
    <3>1. /\ e \in End /\ S.n.hold[e] = {Main(h)} /\ S.n.hold[Other(e)] \cap Daemons = {}
          /\ \A x \in Uses(c) \ {e} : Peer(S.n, x)
          /\ c.wait.on = "line" => c.wait.reply = e /\ c.wait.end[2] = "near"
      BY <2>2 DEF FormOk
    <3>2. Other(e) \in End
      BY <3>1, OtherIsEnd
    <3>3. e \notin M /\ Other(e) \notin M
      BY <1>1, <1>3, <3>1, <3>2, UsedEnds
    <3> QED BY <2>3, <3>1, <3>3 DEF Serves
  <2> HIDE DEF c
  <2>5. FormOk(T.n, c, Main(h), {})
    BY <1>1, <2>2, <2>4, StayFormed
  <2> QED BY <1>3, <2>1, <2>5
<1> QED BY <1>2, <1>3

LEMMA MovedRecords ==
  ASSUME NEW S \in Situation, NEW T, NEW p \in Daemons, NEW X, NEW d, NEW Y, NEW M, NEW C,
         Moved(S, T, p, X, d, Y, M, C), Records(S), Rec(p, d)
  PROVE  Records(T)
<1>0. T.d[p] = d /\ \A q \in Daemons : q # p => T.d[q] = S.d[q]
  BY MovedProcs
<1>1. \A h \in Hosts : MainRec(T.d[Main(h)]) /\ ExecRec(T.d[Exec(h)])
  <2> SUFFICES ASSUME NEW h \in Hosts PROVE MainRec(T.d[Main(h)]) /\ ExecRec(T.d[Exec(h)])
    OBVIOUS
  <2>1. MainRec(S.d[Main(h)]) /\ ExecRec(S.d[Exec(h)])
    BY DEF Records
  <2>2. Main(h) = p => MainRec(d)
    BY MainOrExec DEF Rec
  <2>3. Exec(h) = p => ExecRec(d)
    BY DEF Rec, Exec
  <2> QED BY <1>0, <2>1, <2>2, <2>3, ProcsFacts
<1> QED BY <1>1 DEF Records

LEMMA MovedFrozen ==
  ASSUME NEW S \in Situation, NEW T, NEW p \in Daemons, NEW X, NEW d, NEW Y, NEW M, NEW C,
         Moved(S, T, p, X, d, Y, M, C), Owned(S, p, X), Formed(S, p, X),
         NEW F \in SUBSET Hosts, NEW V, Frozen(S, F, V),
         p[1] \in F /\ p[2] = "main" /\ Forming(d) => View(T.n, d) = V.view[p[1]]
  PROVE  Frozen(T, F, V)
<1>0. T.d[p] = d /\ \A q \in Daemons : q # p => T.d[q] = S.d[q]
  BY MovedProcs
<1>1. Calmed(S.n, T.n, M, C) /\ M \subseteq Uses(S.d[p]) \cup X
  BY DEF Moved
<1>4. Lent(T.n, V)
  BY <1>1 DEF Frozen, Lent, Calmed
<1> SUFFICES ASSUME NEW h \in F, Forming(T.d[Main(h)])
             PROVE  View(T.n, T.d[Main(h)]) = V.view[h]
  BY <1>4 DEF Frozen, Seen
<1>2. CASE Main(h) = p
  BY <1>0, <1>2, MainOrExec
<1>3. CASE Main(h) # p
  <2> DEFINE c == S.d[Main(h)]
             e == Home(c)
  <2>1. Main(h) \in Daemons /\ T.d[Main(h)] = c /\ Forming(c)
    BY <1>0, <1>3, ProcsFacts
  <2>2. e \in End /\ S.n.hold[e] = {Main(h)} /\ S.n.hold[Other(e)] \cap Daemons = {}
    BY <1>3, <2>1 DEF Formed, FormOk
  <2>3. Other(e) \in End /\ Other(Other(e)) = e
    BY <2>2, OtherIsEnd
  <2>4. e \notin M /\ Other(e) \notin M
    BY <1>1, <1>3, <2>2, <2>3, UsedEnds
  <2>5. T.n.box[e] = S.n.box[e] /\ T.n.box[Other(e)] = S.n.box[Other(e)]
    BY <1>1, <2>2, <2>3, <2>4 DEF Calmed
  <2>6. View(S.n, c) = V.view[h]
    BY <2>1 DEF Frozen, Seen
  <2> QED BY <2>1, <2>5, <2>6 DEF View
<1> QED BY <1>2, <1>3

-----------------------------------------------------------------------------
(* From S, where p handles X, a handler got to T: p reads and writes the    *)
(* ends M, has sent messages of C, and its record is d.                     *)
Mine(S, p, X) == Uses(S.d[p]) \cup X
Went(S, T, p, X, d, M, C) == Moved(S, T, p, X, d, {}, M, C) /\ Rec(p, d)

LEMMA WiredOwned ==
  ASSUME NEW S, NEW p, NEW X, NEW A, NEW K, NEW F, NEW V, Wired(S, p, X, A, K, F, V)
  PROVE  /\ Owned(S, p, X) /\ Queued(S, X, K) /\ Enslaving(S, p, A) /\ Emptied(S)
         /\ Joining(S) /\ Formed(S, p, X) /\ Records(S) /\ Frozen(S, F, V)
BY DEF Wired

LEMMA WentStart ==
  ASSUME NEW S \in Situation, NEW p \in Daemons, NEW X, Records(S), NEW M, M \subseteq Mine(S, p, X),
         NEW C, C \subseteq Said
  PROVE  Went(S, S, p, X, S.d[p], M, C)
<1>1. Rec(p, S.d[p])
  <2>1. p[1] \in Hosts /\ (p = Main(p[1]) \/ p = Exec(p[1]))
    BY MainOrExec DEF Daemons
  <2>2. MainRec(S.d[Main(p[1])]) /\ ExecRec(S.d[Exec(p[1])])
    BY <2>1 DEF Records
  <2>3. Main(p[1])[2] = "main" /\ Exec(p[1])[2] = "exec"
    BY DEF Main, Exec
  <2> QED BY <2>1, <2>2, <2>3 DEF Rec
<1>2. S.d = [S.d EXCEPT ![p] = S.d[p]] /\ S.d[p] \in DaemonType
  BY Components
<1> QED BY <1>1, <1>2, CalmSame DEF Went, Moved, Mine

LEMMA WentMore ==
  ASSUME NEW S, NEW T, NEW p, NEW X, NEW d, NEW M, NEW C, Went(S, T, p, X, d, M, C),
         NEW N, M \subseteq N, N \subseteq Mine(S, p, X), NEW D, C \subseteq D, D \subseteq Said
  PROVE  Went(S, T, p, X, d, N, D)
BY CalmMore DEF Went, Moved, Mine

LEMMA WentTo ==
  ASSUME NEW S \in Situation, NEW T, NEW p \in Daemons, NEW X, NEW c, NEW M, NEW C,
         Went(S, T, p, X, c, M, C),
         NEW n \in NetType, Calmed(T.n, n, M, C),
         NEW d \in DaemonType, Rec(p, d), Uses(d) \subseteq Mine(S, p, X),
         NEW U \in Situation, U.d = [T.d EXCEPT ![p] = d], U.n = n
  PROVE  Went(S, U, p, X, d, M, C)
<1>1. /\ T.d = [S.d EXCEPT ![p] = c] /\ Calmed(S.n, T.n, M, C) /\ C \subseteq Said
      /\ M \subseteq Mine(S, p, X)
  BY DEF Went, Moved, Mine
<1>2. Calmed(S.n, U.n, M, C)
  BY <1>1, CalmTrans
<1>3. U.d = [S.d EXCEPT ![p] = d]
  BY <1>1
<1> QED BY <1>1, <1>2, <1>3 DEF Went, Moved, Mine

LEMMA WentFacts ==
  ASSUME NEW S \in Situation, NEW T, NEW p \in Daemons, NEW X, NEW d, NEW M, NEW C,
         Went(S, T, p, X, d, M, C)
  PROVE  /\ T \in Situation /\ T.n \in NetType /\ T.d \in [Daemons -> DaemonType]
         /\ T.d[p] = d /\ d \in DaemonType /\ Rec(p, d)
         /\ T.d = [T.d EXCEPT ![p] = d]
         /\ M \subseteq Mine(S, p, X) /\ Uses(d) \subseteq Mine(S, p, X) /\ C \subseteq Said
<1>1. T \in Situation /\ d \in DaemonType /\ Rec(p, d) /\ C \subseteq Said
      /\ M \subseteq Mine(S, p, X) /\ Uses(d) \subseteq Mine(S, p, X)
  BY DEF Went, Moved, Mine
<1>2. T.n \in NetType /\ T.d \in [Daemons -> DaemonType]
  BY <1>1, Components
<1>3. T.d[p] = d
  BY MovedProcs DEF Went
<1> QED BY <1>1, <1>2, <1>3

LEMMA WentRecord ==
  ASSUME NEW S \in Situation, NEW T, NEW p \in Daemons, NEW X, NEW d, NEW M, NEW C,
         Went(S, T, p, X, d, M, C)
  PROVE  /\ T \in Situation /\ T.d[p] = d /\ d \in DaemonType /\ Rec(p, d)
         /\ Uses(d) \subseteq Mine(S, p, X)
<1>1. T.d[p] = d
  BY WentFacts
<1>2. T \in Situation /\ d \in DaemonType /\ Rec(p, d) /\ Uses(d) \subseteq Mine(S, p, X)
  BY WentFacts
<1> QED BY <1>1, <1>2

LEMMA WentConsume ==
  ASSUME NEW S \in Situation, NEW T, NEW p \in Daemons, NEW X, NEW d, NEW M, NEW C,
         Went(S, T, p, X, d, M, C), NEW e \in M
  PROVE  Went(S, Consume(T, e), p, X, d, M, C) /\ Consume(T, e).d = T.d
<1>1. /\ T \in Situation /\ T.n \in NetType /\ d \in DaemonType /\ Rec(p, d)
      /\ T.d = [T.d EXCEPT ![p] = d] /\ Uses(d) \subseteq Mine(S, p, X)
  BY WentFacts
<1>2. Consume(T, e) \in Situation /\ Consume(T, e).d = T.d /\ Consume(T, e).n = Receive(T.n, e)
  BY <1>1, ConsumeType DEF Consume, Situation
<1>3. Receive(T.n, e) \in NetType /\ Calmed(T.n, Receive(T.n, e), M, C)
  BY <1>1, ReceiveType, CalmReceive
<1> QED BY <1>1, <1>2, <1>3, WentTo

LEMMA WentSend ==
  ASSUME NEW S \in Situation, NEW T, NEW p \in Daemons, NEW X, NEW c, NEW M, NEW C,
         Went(S, T, p, X, c, M, C), NEW e \in M, NEW code \in Code, code \in C,
         NEW d \in DaemonType, Rec(p, d), Uses(d) \subseteq Mine(S, p, X),
         NEW U, U = [d |-> [T.d EXCEPT ![p] = d], n |-> Send(T.n, e, Msg(code))]
  PROVE  Went(S, U, p, X, d, M, C)
<1>1. T \in Situation /\ T.n \in NetType /\ T.d \in [Daemons -> DaemonType]
  BY WentFacts
<1>2. Msg(code) \in Message /\ Msg(code).tag \in C
  BY MsgIsMessage DEF Msg
<1>3. Send(T.n, e, Msg(code)) \in NetType /\ Calmed(T.n, Send(T.n, e, Msg(code)), M, C)
  BY <1>1, <1>2, SendType, CalmSend
<1>4. U \in Situation /\ U.d = [T.d EXCEPT ![p] = d] /\ U.n = Send(T.n, e, Msg(code))
  BY <1>1, <1>3 DEF Situation
<1> QED BY <1>3, <1>4, WentTo

(* The handler is over: p does not form a group, or serves its client on,   *)
(* whose conversation is untouched when it is one of F.                     *)
Goes(S, p, X, d, M, C, F) ==
  p[2] = "main" /\ Forming(d) =>
    /\ Serves(S.n, S.d[p], X, d, {}, M, C)
    /\ p[1] \in F => /\ Home(d) \notin M
                     /\ d.wait.on = "line" <=> S.d[p].wait.on = "line"
                     /\ d.state = S.d[p].state

LEMMA WentWired ==
  ASSUME NEW S \in Situation, NEW p \in Daemons, NEW X, NEW A, NEW K, NEW F \in SUBSET Hosts, NEW V,
         Wired(S, p, X, A, K, F, V),
         NEW T, NEW d, NEW M, NEW C, Went(S, T, p, X, d, M, C), Goes(S, p, X, d, M, C, F)
  PROVE  Wired(T, p, {}, A, K, F, V)
<1>0. p[2] = "main" /\ Forming(d) =>
        /\ Serves(S.n, S.d[p], X, d, {}, M, C)
        /\ p[1] \in F => /\ Home(d) \notin M
                         /\ d.wait.on = "line" <=> S.d[p].wait.on = "line"
                         /\ d.state = S.d[p].state
  BY DEF Goes
<1>1. Moved(S, T, p, X, d, {}, M, C) /\ Rec(p, d)
  BY DEF Went
<1>2. /\ Owned(S, p, X) /\ Queued(S, X, K) /\ Enslaving(S, p, A) /\ Emptied(S)
      /\ Joining(S) /\ Formed(S, p, X) /\ Records(S) /\ Frozen(S, F, V)
  BY WiredOwned
<1>3. Calmed(S.n, T.n, M, C) /\ C \subseteq Said
  BY <1>1 DEF Moved
<1>4. p[2] = "main" => FormOk(S.n, S.d[p], p, X)
  BY <1>2, MainOrExec, ProcsFacts DEF Formed
<1>5. p[2] = "main" => FormOk(T.n, d, p, {})
  <2>1. p[2] = "main" /\ ~Forming(d) => FormOk(T.n, d, p, {})
    BY DEF FormOk
  <2>2. p[2] = "main" /\ Forming(d) => FormOk(T.n, d, p, {})
    BY <1>0, <1>3, <1>4, StayFormed
  <2> QED BY <2>1, <2>2
<1>6. ASSUME p[1] \in F, p[2] = "main", Forming(d) PROVE View(T.n, d) = V.view[p[1]]
  <2> DEFINE e == Home(d)
  <2>1. Home(S.d[p]) = e /\ Forming(S.d[p]) /\ Other(e) \notin M /\ e \notin M
    BY <1>0, <1>6 DEF Serves
  <2>2. e \in End
    BY <1>4, <1>6, <2>1 DEF FormOk
  <2>3. Other(e) \in End /\ Other(Other(e)) = e
    BY <2>2, OtherIsEnd
  <2>4. T.n.box[e] = S.n.box[e] /\ T.n.box[Other(e)] = S.n.box[Other(e)]
    BY <1>3, <2>1, <2>2, <2>3 DEF Calmed
  <2>5. View(S.n, S.d[p]) = V.view[p[1]]
    <3>1. Main(p[1]) = p
      BY <1>6, MainOrExec
    <3> QED BY <1>2, <1>6, <2>1, <3>1 DEF Frozen, Seen
  <2> QED BY <1>0, <1>6, <2>1, <2>4, <2>5 DEF View
<1> QED BY <1>1, <1>2, <1>5, <1>6, MovedOwned, MovedQueued, MovedEnslaving, MovedEmptied,
           MovedJoining, MovedFormed, MovedRecords, MovedFrozen DEF Wired
LEMMA WentSet ==
  ASSUME NEW S \in Situation, NEW T, NEW p \in Daemons, NEW X, NEW c, NEW M, NEW C,
         Went(S, T, p, X, c, M, C),
         NEW d \in DaemonType, Rec(p, d), Uses(d) \subseteq Mine(S, p, X),
         NEW U, U = [T EXCEPT !.d[p] = d]
  PROVE  Went(S, U, p, X, d, M, C)
<1>1. T \in Situation /\ T.n \in NetType
  BY WentFacts
<1>2. U \in Situation
  BY <1>1, SetProc
<1>3. U.d = [T.d EXCEPT ![p] = d] /\ U.n = T.n
  BY <1>1 DEF Situation
<1> QED BY <1>1, <1>2, <1>3, CalmSame, WentTo

LEMMA WentSendEach ==
  ASSUME NEW S \in Situation, NEW T, NEW p \in Daemons, NEW X, NEW d, NEW M, NEW C,
         Went(S, T, p, X, d, M, C),
         NEW Y \in SUBSET Ends0, Y \cap End \subseteq M, NEW code \in Code, code \in C,
         NEW U, U = [T EXCEPT !.n = SendEach(T.n, Y, Msg(code))]
  PROVE  Went(S, U, p, X, d, M, C)
<1>1. /\ T \in Situation /\ T.n \in NetType /\ d \in DaemonType /\ Rec(p, d)
      /\ T.d = [T.d EXCEPT ![p] = d] /\ Uses(d) \subseteq Mine(S, p, X)
  BY WentFacts
<1>2. Msg(code) \in Message /\ Msg(code).tag \in C
  BY MsgIsMessage DEF Msg
<1> DEFINE n == SendEach(T.n, Y, Msg(code))
<1>3. n \in NetType /\ Calmed(T.n, n, M, C)
  BY <1>1, <1>2, SendEachType, CalmSendEach
<1>4. U \in Situation
  BY <1>1, <1>3, SetNet
<1>5. U.d = T.d /\ U.n = n
  BY <1>1 DEF Situation
<1> HIDE DEF n
<1> QED BY <1>1, <1>3, <1>4, <1>5, WentTo
-----------------------------------------------------------------------------
(* q closes ends it does not use any more, or all of them when it dies.     *)
LetGo(S, T, q) ==
  /\ T \in Situation
  /\ \A x \in End : /\ T.n.hold[x] = S.n.hold[x] \/ T.n.hold[x] = S.n.hold[x] \ {q}
                    /\ T.n.box[x] = IF T.n.hold[x] = {} THEN <<>> ELSE S.n.box[x]
  /\ \A h \in Hosts : /\ T.n.ear[h] = S.n.ear[h] \/ T.n.ear[h] = <<>>
                      /\ \A e \in Queue(T.n, h) : T.n.hold[e] = S.n.hold[e]
                      /\ \A e \in Queue(S.n, h) : T.n.hold[e] # {} => e \in Queue(T.n, h)
  /\ \A r \in Daemons : r # q => T.d[r] = S.d[r]
  /\ \/ T.d[q] = Dead
     \/ T.d[q] = S.d[q] /\ \A x \in Uses(S.d[q]) : T.n.hold[x] = S.n.hold[x]

LEMMA DeadUses == Uses(Dead) = {} /\ MainRec(Dead) /\ ExecRec(Dead) /\ ~Forming(Dead)
<1>1. /\ \A s \in Spot : NoLines[s] = NoEnd
      /\ \A s \in Slot : Idle[s] = NoEnd
      /\ \A k \in Chan : NoWait.lines[k] = NoEnd
      /\ NoWait.end = NoEnd /\ NoWait.reply = NoEnd
  BY DEF NoLines, Idle, NoWait
<1>2. Uses(Dead) = {}
  BY <1>1 DEF Uses, Refs, Dead
<1>3. NoWait.on = "no"
  BY DEF NoWait
<1> QED BY <1>2, <1>3 DEF MainRec, ExecRec, Forming, Dead

(* What is read or held becomes less, and nothing new is said.              *)
LEMMA LetGoLess ==
  ASSUME NEW S, NEW T, NEW q, LetGo(S, T, q), NEW x \in End
  PROVE  /\ T.n.hold[x] \subseteq S.n.hold[x]
         /\ Msgs(T.n, x) \subseteq Msgs(S.n, x)
         /\ T.n.box[x] = S.n.box[x] \/ T.n.box[x] = <<>>
         /\ \A D : Says(T.n, x, D) => Says(S.n, x, D) /\ T.n.box[x] = S.n.box[x] /\ T.n.hold[x] # {}
         /\ Peer(S.n, x) => Peer(T.n, x)
<1>1. Other(x) \in End
  BY OtherIsEnd
<1>2. T.n.hold[x] \subseteq S.n.hold[x] /\ T.n.hold[Other(x)] \subseteq S.n.hold[Other(x)]
  BY <1>1 DEF LetGo
<1>3. T.n.box[x] = S.n.box[x] \/ (T.n.box[x] = <<>> /\ T.n.hold[x] = {})
  BY DEF LetGo
<1>4. T.n.box[x] = <<>> => Msgs(T.n, x) = {}
  BY NoMsgs
<1>5. T.n.box[x] = S.n.box[x] => Msgs(T.n, x) = Msgs(S.n, x)
  BY SameMsgs
<1>6. \A D : Says(T.n, x, D) => Says(S.n, x, D) /\ T.n.box[x] = S.n.box[x] /\ T.n.hold[x] # {}
  <2>1. T.n.hold[x] = {} => T.n.box[x] = <<>>
    BY DEF LetGo
  <2> QED BY <1>3, <1>4, <1>5, <2>1 DEF Says
<1> QED BY <1>2, <1>3, <1>4, <1>5, <1>6 DEF Peer

LEMMA LetGoOwned ==
  ASSUME NEW S \in Situation, NEW T, NEW q \in Daemons, LetGo(S, T, q), NEW p, Owned(S, p, {})
  PROVE  Owned(T, p, {})
<1> SUFFICES ASSUME NEW r \in Daemons, NEW e \in Uses(T.d[r]) PROVE r \in T.n.hold[e]
  BY DEF Owned
<1>1. T.d[r] = S.d[r] \/ T.d[r] = Dead
  BY DEF LetGo
<1>2. T.d[r] = S.d[r] /\ e \in Uses(S.d[r]) /\ e \in End /\ r \in S.n.hold[e]
  BY <1>1, DeadUses, UsedEnds, UsesType, Components DEF Owned
<1>3. CASE r # q
  BY <1>2, <1>3 DEF LetGo
<1>4. CASE r = q
  <2>1. T.n.hold[e] = S.n.hold[e]
    BY <1>2, <1>4, DeadUses DEF LetGo
  <2> QED BY <1>2, <2>1
<1> QED BY <1>3, <1>4

LEMMA QueueEnds == ASSUME NEW S \in Situation, NEW h \in Hosts PROVE Queue(S.n, h) \subseteq End
<1>1. S.n.ear[h] \in Seq(End)
  BY Components DEF NetType
<1> QED BY <1>1 DEF Queue

LEMMA LetGoQueued ==
  ASSUME NEW S \in Situation, NEW T, NEW q \in Daemons, LetGo(S, T, q), NEW K, Queued(S, {}, K)
  PROVE  Queued(T, {}, K)
<1>1. ASSUME NEW h \in Hosts, NEW e \in Queue(T.n, h)
      PROVE  /\ e[2] = "far" /\ T.n.hold[e] = {Main(h)}
             /\ e \notin Uses(T.d[Main(h)]) /\ Other(e) \notin K /\ T.n.box[Other(e)] = <<>>
             /\ ~Says(T.n, e, ClientCode)
  <2>1. T.n.ear[h] = S.n.ear[h]
    BY <1>1 DEF LetGo, Queue
  <2>2. e \in Queue(S.n, h)
    BY <1>1, <2>1 DEF Queue
  <2>3. /\ e[2] = "far" /\ S.n.hold[e] = {Main(h)} /\ e \notin Uses(S.d[Main(h)])
        /\ Other(e) \notin K /\ S.n.box[Other(e)] = <<>> /\ ~Says(S.n, e, ClientCode)
    BY <2>2 DEF Queued
  <2>4. e \in End /\ Other(e) \in End
    BY <2>2, QueueEnds, OtherIsEnd
  <2>5. T.n.hold[e] = {Main(h)}
    BY <1>1, <2>3 DEF LetGo
  <2>6. T.d[Main(h)] = S.d[Main(h)] \/ T.d[Main(h)] = Dead
    BY ProcsFacts DEF LetGo
  <2>7. T.n.box[Other(e)] = <<>> /\ ~Says(T.n, e, ClientCode)
    BY <2>3, <2>4, LetGoLess
  <2> QED BY <2>3, <2>5, <2>6, <2>7, DeadUses
<1>2. \A h \in Hosts : \A i, j \in DOMAIN T.n.ear[h] : T.n.ear[h][i] = T.n.ear[h][j] => i = j
  BY DEF LetGo, Queued
<1> QED BY <1>1, <1>2 DEF Queued

LEMMA LetGoEnslaving ==
  ASSUME NEW S \in Situation, NEW T, NEW q \in Daemons, LetGo(S, T, q), NEW p, NEW A, Enslaving(S, p, A)
  PROVE  Enslaving(T, p, A)
<1> SUFFICES ASSUME NEW e \in End, Says(T.n, e, {"Enslave"})
             PROVE  /\ T.n.hold[Other(e)] \cap Daemons = {}
                    /\ IF e \in A THEN T.n.hold[e] \subseteq {p}
                       ELSE Len(T.n.box[e]) = 1 /\ \E h \in Hosts : e \in Queue(T.n, h)
  BY DEF Enslaving
<1>1. Says(S.n, e, {"Enslave"}) /\ T.n.box[e] = S.n.box[e] /\ T.n.hold[e] # {}
      /\ T.n.hold[e] \subseteq S.n.hold[e]
  BY LetGoLess
<1>2. /\ S.n.hold[Other(e)] \cap Daemons = {}
      /\ IF e \in A THEN S.n.hold[e] \subseteq {p}
         ELSE Len(S.n.box[e]) = 1 /\ \E h \in Hosts : e \in Queue(S.n, h)
  BY <1>1 DEF Enslaving
<1>3. T.n.hold[Other(e)] \subseteq S.n.hold[Other(e)]
  BY LetGoLess, OtherIsEnd
<1>4. ASSUME NEW h \in Hosts, e \in Queue(S.n, h) PROVE e \in Queue(T.n, h)
  <2>1. \A x \in Queue(S.n, h) : T.n.hold[x] # {} => x \in Queue(T.n, h)
    BY DEF LetGo
  <2> QED BY <1>1, <1>4, <2>1
<1> QED BY <1>1, <1>2, <1>3, <1>4

LEMMA LetGoFormed ==
  ASSUME NEW S \in Situation, NEW T, NEW q \in Daemons, LetGo(S, T, q), Emptied(S),
         NEW p, Formed(S, p, {}), NEW F \in SUBSET Hosts, NEW V, Frozen(S, F, V)
  PROVE  Formed(T, p, {}) /\ Frozen(T, F, V)
<1>1. ASSUME NEW h \in Hosts, Forming(T.d[Main(h)])
      PROVE  FormOk(T.n, T.d[Main(h)], Main(h), {}) /\ (h \in F => View(T.n, T.d[Main(h)]) = V.view[h])
  <2> DEFINE d == S.d[Main(h)]
             e == Home(d)
  <2>1. T.d[Main(h)] = d /\ Forming(d) /\ Main(h) \in Daemons
    BY <1>1, ProcsFacts, DeadUses DEF LetGo
  <2>2. FormOk(S.n, d, Main(h), {}) /\ d \in DaemonType /\ Uses(d) \subseteq End
    BY <2>1, Components, UsesType DEF Formed
  <2>3. /\ e \in End /\ e[2] = "far"
        /\ S.n.hold[e] = {Main(h)} /\ S.n.hold[Other(e)] \cap Daemons = {}
        /\ \A m \in Msgs(S.n, e) : m.tag \in {"Peers", "ConnectTo", "Grouped", "Disconnect"}
        /\ \A m \in Msgs(S.n, Other(e)) : m.tag \in {"OK", "Refuse"}
        /\ \A x \in Uses(d) \ {e} : Peer(S.n, x)
        /\ d.wait.on = "line" => d.wait.reply = e /\ d.wait.end[2] = "near"
    BY <2>1, <2>2 DEF FormOk
  <2>4. Other(e) \in End
    BY <2>3, OtherIsEnd
  <2>5. e \in Uses(d)
    <3>1. <<0, Master>> \in Spot
      BY MasterIsChan, WireAssumption DEF Spot, Ranks
    <3>2. e \in Refs(d)
      BY <3>1 DEF Refs, Home
    <3> QED BY <2>3, <3>2, NoEndIsNoEnd DEF Uses
  <2>6. T.n.hold[e] = S.n.hold[e]
    <3>1. CASE Main(h) = q
      BY <1>1, <2>1, <2>5, <3>1, DeadUses DEF LetGo
    <3>2. CASE Main(h) # q
      BY <2>3, <3>2 DEF LetGo
    <3> QED BY <3>1, <3>2
  <2>7. T.n.hold[Other(e)] = S.n.hold[Other(e)]
    <3>1. S.n.hold[Other(e)] \ {q} = S.n.hold[Other(e)]
      BY <2>3
    <3> QED BY <2>4, <3>1 DEF LetGo
  <2>8. T.n.box[e] = S.n.box[e] /\ T.n.box[Other(e)] = S.n.box[Other(e)]
    BY <2>3, <2>4, <2>6, <2>7 DEF LetGo, Emptied
  <2>9. Msgs(T.n, e) = Msgs(S.n, e) /\ Msgs(T.n, Other(e)) = Msgs(S.n, Other(e))
    BY <2>8, SameMsgs
  <2>10. \A x \in Uses(d) \ {e} : Peer(T.n, x)
    BY <2>2, <2>3, LetGoLess
  <2>11. h \in F => View(S.n, d) = V.view[h]
    BY <2>1 DEF Frozen, Seen
  <2>12. View(T.n, d) = View(S.n, d)
    BY <2>8 DEF View
  <2>13. FormOk(T.n, d, Main(h), {})
    BY <2>3, <2>6, <2>7, <2>9, <2>10 DEF FormOk
  <2> QED BY <2>1, <2>11, <2>12, <2>13
<1>2. Formed(T, p, {})
  <2> SUFFICES ASSUME NEW h \in Hosts PROVE FormOk(T.n, T.d[Main(h)], Main(h), {})
    BY DEF Formed
  <2> QED BY <1>1 DEF FormOk
<1>3. Lent(T.n, V)
  <2> SUFFICES ASSUME NEW x \in End, V.hold[x] # {}, V.hold[x] \cap Daemons = {}
               PROVE  T.n.hold[x] = V.hold[x]
    BY DEF Lent
  <2>1. S.n.hold[x] = V.hold[x]
    BY DEF Frozen, Lent
  <2>2. S.n.hold[x] \ {q} = S.n.hold[x]
    BY <2>1
  <2> QED BY <2>1, <2>2 DEF LetGo
<1> QED BY <1>1, <1>2, <1>3 DEF Frozen, Seen

LEMMA LetGoWired ==
  ASSUME NEW S \in Situation, NEW T, NEW q \in Daemons, LetGo(S, T, q),
         NEW p, NEW A, NEW K, NEW F \in SUBSET Hosts, NEW V, Wired(S, p, {}, A, K, F, V)
  PROVE  Wired(T, p, {}, A, K, F, V)
<1>1. /\ Owned(S, p, {}) /\ Queued(S, {}, K) /\ Enslaving(S, p, A) /\ Emptied(S)
      /\ Joining(S) /\ Formed(S, p, {}) /\ Records(S) /\ Frozen(S, F, V)
  BY WiredOwned
<1>2. Emptied(T)
  BY DEF LetGo, Emptied
<1>3. Joining(T)
  <2> SUFFICES ASSUME NEW e \in End
               PROVE  /\ Says(T.n, e, {"Join", "DataLine"}) => Peer(T.n, e)
                      /\ \A m \in Msgs(T.n, e) : m.tag = "DataLine" => m.chan # Master
    BY DEF Joining
  <2> QED BY <1>1, LetGoLess DEF Joining
<1>4. Records(T)
  BY <1>1, DeadUses, ProcsFacts DEF LetGo, Records
<1> QED BY <1>1, <1>2, <1>3, <1>4, LetGoOwned, LetGoQueued, LetGoEnslaving, LetGoFormed DEF Wired
LEMMA KeepFacts ==
  ASSUME NEW n \in NetType, NEW p, NEW keep, NEW o, o = Keep(n, p, keep)
  PROVE  /\ o \in NetType /\ o.ear = n.ear /\ o.listen = n.listen
         /\ \A x \in End : /\ x \in keep => o.hold[x] = n.hold[x]
                           /\ x \notin keep => o.hold[x] = n.hold[x] \ {p}
                           /\ o.hold[x] = {} => o.box[x] = <<>>
                           /\ o.hold[x] # {} => o.box[x] = n.box[x]
<1> DEFINE hold == [e \in End |-> IF e \in keep THEN n.hold[e] ELSE n.hold[e] \ {p}]
           shut == {e \in End : hold[e] = {}}
           box == [e \in End |-> IF e \in shut THEN <<>> ELSE n.box[e]]
           rst == (n.rst \ shut) \cup {e \in End : /\ e \notin shut
                                                   /\ Other(e) \in shut
                                                   /\ n.box[Other(e)] # <<>>}
<1>1. o = [n EXCEPT !.hold = hold, !.box = box, !.rst = rst]
  BY DEF Keep
<1> HIDE DEF hold, box, rst
<1>2. o.hold = hold /\ o.box = box
  BY <1>1 DEF NetType
<1>3. \A x \in End : /\ x \in keep => hold[x] = n.hold[x]
                     /\ x \notin keep => hold[x] = n.hold[x] \ {p}
  BY DEF hold
<1>4. \A x \in End : /\ hold[x] = {} => box[x] = <<>>
                     /\ hold[x] # {} => box[x] = n.box[x]
  BY DEF box
<1> QED BY <1>2, <1>3, <1>4, KeepType

LEMMA KeepLetGo ==
  ASSUME NEW S \in Situation, NEW q \in Daemons, NEW keep, Uses(S.d[q]) \subseteq keep,
         \A h \in Hosts : \A e \in Queue(S.n, h) : q \in S.n.hold[e] => e \in keep,
         NEW T, T = [S EXCEPT !.n = Keep(S.n, q, keep)]
  PROVE  LetGo(S, T, q)
<1>1. S.n \in NetType
  BY Components
<1>2. T.d = S.d /\ T.n = Keep(S.n, q, keep)
  BY DEF Situation
<1>3. /\ T.n \in NetType /\ T.n.ear = S.n.ear
      /\ \A x \in End : /\ x \in keep => T.n.hold[x] = S.n.hold[x]
                        /\ x \notin keep => T.n.hold[x] = S.n.hold[x] \ {q}
                        /\ T.n.hold[x] = {} => T.n.box[x] = <<>>
                        /\ T.n.hold[x] # {} => T.n.box[x] = S.n.box[x]
  BY <1>1, <1>2, KeepFacts
<1>4. T \in Situation
  BY <1>2, <1>3, SetNet
<1>5. \A x \in End : T.n.hold[x] = S.n.hold[x] \/ T.n.hold[x] = S.n.hold[x] \ {q}
  BY <1>3
<1>6. \A h \in Hosts : T.n.ear[h] = S.n.ear[h] /\ Queue(T.n, h) = Queue(S.n, h)
  BY <1>3 DEF Queue
<1>7. ASSUME NEW h \in Hosts, NEW e \in Queue(S.n, h) PROVE T.n.hold[e] = S.n.hold[e]
  <2>1. e \in End
    BY QueueEnds
  <2>2. e \notin keep => S.n.hold[e] \ {q} = S.n.hold[e]
    OBVIOUS
  <2> QED BY <1>3, <2>1, <2>2
<1>8. \A x \in Uses(S.d[q]) : T.n.hold[x] = S.n.hold[x]
  BY <1>3, UsesType, Components
<1> QED BY <1>2, <1>3, <1>4, <1>5, <1>6, <1>7, <1>8 DEF LetGo

LEMMA DieLetGo ==
  ASSUME NEW S \in Situation, NEW q \in Daemons, NEW X, NEW K, Queued(S, X, K)
  PROVE  LetGo(S, Die(S, q), q)
<1> DEFINE T == Die(S, q)
           o == Keep(S.n, q, {})
<1>0. T \in Situation
  BY DieType
<1>1. S.n \in NetType /\ S.d \in [Daemons -> DaemonType]
  BY Components
<1>2. /\ o \in NetType /\ o.ear = S.n.ear
      /\ \A x \in End : /\ o.hold[x] = S.n.hold[x] \ {q}
                        /\ o.hold[x] = {} => o.box[x] = <<>>
                        /\ o.hold[x] # {} => o.box[x] = S.n.box[x]
  BY <1>1, KeepFacts
<1>3. T.d = [S.d EXCEPT ![q] = Dead] /\ T.n = IF q[2] = "main" THEN Unlisten(o, q[1]) ELSE o
  BY DEF Die
<1> HIDE DEF o, T
<1>4. /\ Unlisten(o, q[1]).hold = o.hold /\ Unlisten(o, q[1]).box = o.box
      /\ Unlisten(o, q[1]).ear = [o.ear EXCEPT ![q[1]] = <<>>]
  BY <1>2 DEF Unlisten, NetType
<1>5. T.n.hold = o.hold /\ T.n.box = o.box
  BY <1>3, <1>4
<1>6. \A x \in End : /\ T.n.hold[x] = S.n.hold[x] \ {q}
                     /\ T.n.box[x] = IF T.n.hold[x] = {} THEN <<>> ELSE S.n.box[x]
  BY <1>2, <1>5
<1>7. T.d[q] = Dead /\ \A r \in Daemons : r # q => T.d[r] = S.d[r]
  BY <1>1, <1>3
<1>8. ASSUME NEW h \in Hosts
      PROVE  /\ T.n.ear[h] = S.n.ear[h] \/ T.n.ear[h] = <<>>
             /\ \A e \in Queue(T.n, h) : T.n.hold[e] = S.n.hold[e]
             /\ \A e \in Queue(S.n, h) : T.n.hold[e] # {} => e \in Queue(T.n, h)
  <2>1. ASSUME NEW e \in Queue(S.n, h) PROVE S.n.hold[e] = {Main(h)} /\ e \in End
    BY <2>1, QueueEnds DEF Queued
  <2>2. CASE q = Main(h)
    <3>1. q[2] = "main" /\ q[1] = h
      BY <2>2, MainOrExec
    <3>2. T.n.ear[h] = <<>>
      BY <1>2, <1>3, <1>4, <3>1 DEF NetType
    <3>3. Queue(T.n, h) = {}
      BY <3>2 DEF Queue
    <3>4. \A e \in Queue(S.n, h) : T.n.hold[e] = {}
      BY <1>6, <2>1, <2>2
    <3> QED BY <3>2, <3>3, <3>4
  <2>3. CASE q # Main(h)
    <3>1. q[2] = "main" => q[1] # h
      BY <2>3, MainOrExec
    <3>2. T.n.ear[h] = S.n.ear[h]
      BY <1>2, <1>3, <1>4, <3>1 DEF NetType
    <3>3. Queue(T.n, h) = Queue(S.n, h)
      BY <3>2 DEF Queue
    <3>4. ASSUME NEW e \in Queue(S.n, h) PROVE T.n.hold[e] = S.n.hold[e]
      <4>1. S.n.hold[e] \ {q} = S.n.hold[e]
        BY <2>1, <2>3, <3>4
      <4> QED BY <1>6, <2>1, <3>4, <4>1
    <3> QED BY <3>2, <3>3, <3>4
  <2> QED BY <2>2, <2>3
<1> QED BY <1>0, <1>6, <1>7, <1>8 DEF LetGo, T

LEMMA DieWired ==
  ASSUME NEW S \in Situation, NEW q \in Daemons,
         NEW p, NEW A, NEW K, NEW F \in SUBSET Hosts, NEW V, Wired(S, p, {}, A, K, F, V)
  PROVE  Die(S, q) \in Situation /\ Wired(Die(S, q), p, {}, A, K, F, V)
<1>1. Queued(S, {}, K)
  BY WiredOwned
<1>2. LetGo(S, Die(S, q), q)
  BY <1>1, DieLetGo
<1> QED BY <1>2, DieType, LetGoWired

-----------------------------------------------------------------------------
(* How handlers end: p forgets its group, gives up, or answers.             *)

LEMMA FieldUses ==
  ASSUME NEW d \in DaemonType
  PROVE  /\ Uses(Blank(d)) \subseteq Uses(d)
         /\ Uses([d EXCEPT !.child = FALSE]) = Uses(d)
         /\ \A w \in WaitType : /\ w.end = NoEnd /\ w.reply = NoEnd /\ w.lines = NoWait.lines
                                => Uses([d EXCEPT !.wait = w]) \subseteq Uses(d)
         /\ Uses([d EXCEPT !.wait = NoWait]) \subseteq Uses(d)
         /\ Uses([d EXCEPT !.todo = Idle]) \subseteq Uses(d)
         /\ \A m \in Mode : Uses([d EXCEPT !.mode = m]) = Uses(d)
<1>1. /\ \A s \in Spot : NoLines[s] = NoEnd
      /\ \A s \in Slot : Idle[s] = NoEnd
      /\ \A k \in Chan : NoWait.lines[k] = NoEnd
      /\ NoWait.end = NoEnd /\ NoWait.reply = NoEnd
  BY DEF NoLines, Idle, NoWait
<1>2. Uses(Blank(d)) \subseteq Uses(d)
  <2> DEFINE b == Blank(d)
  <2>1. b.line = NoLines /\ b.rope = NoEnd /\ b.cache = d.cache /\ b.todo = d.todo /\ b.wait = d.wait
    BY DEF Blank, DaemonType
  <2> HIDE DEF b
  <2>2. Uses(b) \subseteq Uses(d)
    BY <1>1, <2>1 DEF Uses, Refs
  <2> QED BY <2>2 DEF b
<1>3. Uses([d EXCEPT !.child = FALSE]) = Uses(d)
  <2> DEFINE b == [d EXCEPT !.child = FALSE]
  <2>1. b.line = d.line /\ b.rope = d.rope /\ b.cache = d.cache /\ b.todo = d.todo /\ b.wait = d.wait
    BY DEF DaemonType
  <2> HIDE DEF b
  <2>2. Uses(b) = Uses(d)
    BY <2>1 DEF Uses, Refs
  <2> QED BY <2>2 DEF b
<1>4. ASSUME NEW w \in WaitType, w.end = NoEnd, w.reply = NoEnd, w.lines = NoWait.lines
      PROVE  Uses([d EXCEPT !.wait = w]) \subseteq Uses(d)
  <2> DEFINE b == [d EXCEPT !.wait = w]
  <2>1. b.line = d.line /\ b.rope = d.rope /\ b.cache = d.cache /\ b.todo = d.todo /\ b.wait = w
    BY DEF DaemonType
  <2> HIDE DEF b
  <2>2. Uses(b) \subseteq Uses(d)
    BY <1>1, <1>4, <2>1 DEF Uses, Refs
  <2> QED BY <2>2 DEF b
<1>5. Uses([d EXCEPT !.todo = Idle]) \subseteq Uses(d)
  <2> DEFINE b == [d EXCEPT !.todo = Idle]
  <2>1. b.line = d.line /\ b.rope = d.rope /\ b.cache = d.cache /\ b.todo = Idle /\ b.wait = d.wait
    BY DEF DaemonType
  <2> HIDE DEF b
  <2>2. Uses(b) \subseteq Uses(d)
    BY <1>1, <2>1 DEF Uses, Refs
  <2> QED BY <2>2 DEF b
<1>6. ASSUME NEW m \in Mode PROVE Uses([d EXCEPT !.mode = m]) = Uses(d)
  <2> DEFINE b == [d EXCEPT !.mode = m]
  <2>1. b.line = d.line /\ b.rope = d.rope /\ b.cache = d.cache /\ b.todo = d.todo /\ b.wait = d.wait
    BY DEF DaemonType
  <2> HIDE DEF b
  <2>2. Uses(b) = Uses(d)
    BY <2>1 DEF Uses, Refs
  <2> QED BY <2>2 DEF b
<1>7. NoWait \in WaitType
  BY ConstantsType
<1> QED BY <1>1, <1>2, <1>3, <1>4, <1>5, <1>6, <1>7

LEMMA SetDefaultWired ==
  ASSUME NEW S \in Situation, NEW p \in Daemons, NEW X, NEW A, NEW K, NEW F \in SUBSET Hosts, NEW V,
         Wired(S, p, X, A, K, F, V),
         NEW T, NEW c, NEW M, NEW C, Went(S, T, p, X, c, M, C), NEW wait \in BOOLEAN,
         c.wait.on # "line"
  PROVE  SetDefault(T, p, wait) \in Situation /\ Wired(SetDefault(T, p, wait), p, {}, A, K, F, V)
<1>1. /\ T \in Situation /\ T.d[p] = c /\ c \in DaemonType /\ Rec(p, c)
      /\ Uses(c) \subseteq Mine(S, p, X)
  BY WentRecord
<1> DEFINE b == Blank(c)
           B == [T EXCEPT !.d[p] = b]
<1>2. b \in DaemonType /\ Uses(b) \subseteq Mine(S, p, X)
  BY <1>1, BlankType, FieldUses
<1>3. /\ b.state = "Free" /\ b.mode = c.mode /\ b.cache = c.cache /\ b.line = NoLines
      /\ b.wait = c.wait /\ (b.quit <=> c.quit \/ c.state \in Quitting) /\ b.child = c.child
  BY <1>1 DEF Blank, DaemonType
<1>4. Rec(p, b)
  <2>1. MainRec(c) => MainRec(b)
    BY <1>3 DEF MainRec
  <2>2. ExecRec(c) => ExecRec(b)
    BY <1>3 DEF ExecRec, Quitting
  <2> QED BY <1>1, <2>1, <2>2 DEF Rec
<1> HIDE DEF b
<1>5. Went(S, B, p, X, b, M, C)
  BY <1>1, <1>2, <1>4, WentSet
<1> HIDE DEF B
<1>6. B \in Situation /\ B.d[p] = b
  BY <1>5, WentRecord
<1>7. ~Forming(b)
  BY <1>3 DEF Forming
<1>8. CASE ~b.child
  <2>1. Goes(S, p, X, b, M, C, F)
    BY <1>7 DEF Goes
  <2>2. Wired(B, p, {}, A, K, F, V)
    BY <1>5, <2>1, WentWired
  <2>3. WaitForChild(B, p, wait) = B
    BY <1>6, <1>8 DEF WaitForChild
  <2> QED BY <1>1, <1>6, <2>2, <2>3 DEF SetDefault, B, b
<1>9. CASE b.child /\ wait
  <2> DEFINE w == [NoWait EXCEPT !.on = "bury"]
             d == [b EXCEPT !.wait = w]
             U == [B EXCEPT !.d[p] = d]
  <2>1. w \in WaitType /\ w.end = NoEnd /\ w.reply = NoEnd /\ w.lines = NoWait.lines /\ w.on = "bury"
    BY ConstantsType DEF WaitType, NoWait
  <2> HIDE DEF w
  <2>2. d \in DaemonType /\ Uses(d) \subseteq Mine(S, p, X)
    BY <1>2, <2>1, FieldTypes, FieldUses
  <2>3. d.state = "Free" /\ d.mode = b.mode /\ d.cache = b.cache /\ d.line = b.line
        /\ d.wait = w /\ d.quit = b.quit
    BY <1>2, <1>3 DEF DaemonType
  <2> HIDE DEF d
  <2>4. Rec(p, d) /\ ~Forming(d)
    BY <1>3, <1>4, <2>1, <2>3 DEF Rec, MainRec, ExecRec, Forming
  <2>5. Went(S, U, p, X, d, M, C)
    BY <1>5, <2>2, <2>4, WentSet
  <2>6. Goes(S, p, X, d, M, C, F)
    BY <2>4 DEF Goes
  <2> HIDE DEF U
  <2>7. U \in Situation /\ Wired(U, p, {}, A, K, F, V)
    BY <2>5, <2>6, WentWired, WentFacts
  <2>8. WaitForChild(B, p, wait) = U
    BY <1>6, <1>9 DEF WaitForChild, w, d, U, Situation
  <2> QED BY <1>1, <2>7, <2>8 DEF SetDefault, B, b
<1>10. CASE b.child /\ ~wait
  <2> DEFINE d == [b EXCEPT !.child = FALSE]
             U == [B EXCEPT !.d[p] = d]
  <2>2. d \in DaemonType /\ Uses(d) \subseteq Mine(S, p, X)
    BY <1>2, FieldTypes, FieldUses
  <2>3. d.state = "Free" /\ d.mode = b.mode /\ d.cache = b.cache /\ d.line = b.line
        /\ d.wait = b.wait /\ d.quit = b.quit
    BY <1>2, <1>3 DEF DaemonType
  <2> HIDE DEF d
  <2>4. Rec(p, d) /\ ~Forming(d)
    BY <1>3, <1>4, <2>3 DEF Rec, MainRec, ExecRec, Forming
  <2>5. Went(S, U, p, X, d, M, C)
    BY <1>5, <2>2, <2>4, WentSet
  <2>6. Goes(S, p, X, d, M, C, F)
    BY <2>4 DEF Goes
  <2> HIDE DEF U
  <2>7. U \in Situation /\ Wired(U, p, {}, A, K, F, V)
    BY <2>5, <2>6, WentWired, WentFacts
  <2>8. [B EXCEPT !.d[p].child = FALSE] = U
    BY <1>6 DEF d, U
  <2>9. WaitForChild(B, p, wait) = Die(U, Exec(p[1]))
    BY <1>6, <1>10, <2>8 DEF WaitForChild
  <2>10. Exec(p[1]) \in Daemons
    BY ProcsFacts
  <2>11. WaitForChild(B, p, wait) \in Situation /\ Wired(WaitForChild(B, p, wait), p, {}, A, K, F, V)
    BY <2>7, <2>9, <2>10, DieWired
  <2> QED BY <1>1, <2>11 DEF SetDefault, B, b
<1> QED BY <1>8, <1>9, <1>10

LEMMA AllMine ==
  ASSUME NEW S, NEW T, NEW p, NEW X, NEW d, NEW M, NEW C, Went(S, T, p, X, d, M, C)
  PROVE  Went(S, T, p, X, d, Mine(S, p, X), Said)
<1>1. M \subseteq Mine(S, p, X) /\ C \subseteq Said
  BY DEF Went, Moved, Mine
<1> QED BY <1>1, WentMore

LEMMA ResetWired ==
  ASSUME NEW S \in Situation, NEW p \in Daemons, NEW X, NEW A, NEW K, NEW F \in SUBSET Hosts, NEW V,
         Wired(S, p, X, A, K, F, V),
         NEW T, NEW c, NEW M, NEW C, Went(S, T, p, X, c, M, C), NEW code \in {"Error", "Renegade"},
         c.wait.on # "line"
  PROVE  Reset(T, p, code) \in Situation /\ Wired(Reset(T, p, code), p, {}, A, K, F, V)
<1>1. /\ T \in Situation /\ T.d[p] = c /\ c \in DaemonType /\ Uses(c) \subseteq Mine(S, p, X)
  BY WentRecord
<1> DEFINE Y == PeerLines(c)
           U == [T EXCEPT !.n = SendEach(T.n, Y, Msg(code))]
<1>2. Y \in SUBSET Ends0
  BY <1>1, PeerLinesType
<1>3. Y \subseteq Uses(c)
  <2>1. \A r \in Ranks : <<r, Master>> \in Spot
    BY MasterIsChan DEF Spot
  <2>2. Y \subseteq Refs(c) \ {NoEnd}
    BY <2>1 DEF PeerLines, Refs
  <2> QED BY <2>2 DEF Uses
<1> HIDE DEF Y
<1>4. Went(S, T, p, X, c, Mine(S, p, X), Said)
  BY AllMine
<1>5. code \in Code /\ code \in Said
  BY DEF Code, Said
<1>6. Went(S, U, p, X, c, Mine(S, p, X), Said)
  BY <1>1, <1>2, <1>3, <1>4, <1>5, WentSendEach
<1>7. Reset(T, p, code) = SetDefault(U, p, FALSE)
  BY <1>1 DEF Reset, Y
<1> HIDE DEF U
<1> QED BY <1>6, <1>7, SetDefaultWired

LEMMA ExecGoes ==
  ASSUME NEW S, NEW p, p[2] # "main", NEW X, NEW d, NEW M, NEW C, NEW F PROVE Goes(S, p, X, d, M, C, F)
BY DEF Goes

LEMMA WentGiveUp ==
  ASSUME NEW S \in Situation, NEW p \in Daemons, NEW X, NEW A, NEW K, NEW F \in SUBSET Hosts, NEW V,
         Wired(S, p, X, A, K, F, V),
         NEW T, NEW c, NEW M, NEW C, Went(S, T, p, X, c, M, C)
  PROVE  Die(T, p) \in Situation /\ Wired(Die(T, p), p, {}, A, K, F, V)
<1>1. T \in Situation /\ T.d[p] = c /\ c \in DaemonType /\ Rec(p, c) /\ Uses(c) \subseteq Mine(S, p, X)
  BY WentRecord
<1> DEFINE d == [c EXCEPT !.state = "Free", !.line = NoLines, !.quit = TRUE, !.wait = NoWait]
           U == [T EXCEPT !.d[p] = d]
<1>3. /\ d \in DaemonType /\ d.state = "Free" /\ d.line = NoLines /\ d.quit = TRUE
      /\ d.rope = c.rope /\ d.cache = c.cache /\ d.todo = c.todo /\ d.wait = NoWait /\ d.mode = c.mode
  BY <1>1, ConstantsType DEF DaemonType, State
<1> HIDE DEF d
<1>4. /\ \A s \in Spot : NoLines[s] = NoEnd
      /\ NoWait.on = "no" /\ NoWait.end = NoEnd /\ NoWait.reply = NoEnd
      /\ \A k \in Chan : NoWait.lines[k] = NoEnd
  BY DEF NoLines, NoWait
<1>5. Uses(d) \subseteq Uses(c)
  BY <1>3, <1>4 DEF Uses, Refs
<1>7. Rec(p, d) /\ ~Forming(d)
  BY <1>1, <1>3, <1>4 DEF Rec, MainRec, ExecRec, Forming
<1>8. Went(S, U, p, X, d, M, C) /\ U \in Situation
  BY <1>1, <1>3, <1>5, <1>7, WentSet, SetProc DEF Mine
<1> HIDE DEF U
<1>9. Goes(S, p, X, d, M, C, F)
  BY <1>7 DEF Goes
<1>10. Wired(U, p, {}, A, K, F, V)
  BY <1>8, <1>9, WentWired
<1>11. Die(U, p) = Die(T, p)
  <2>1. U.n = T.n /\ [U.d EXCEPT ![p] = Dead] = [T.d EXCEPT ![p] = Dead]
    BY <1>1, Components DEF U, Situation
  <2> QED BY <2>1 DEF Die
<1> QED BY <1>8, <1>10, <1>11, DieWired

LEMMA FinishWired ==
  ASSUME NEW S \in Situation, NEW p \in Daemons, NEW X, NEW A, NEW K, NEW F \in SUBSET Hosts, NEW V,
         Wired(S, p, X, A, K, F, V), p[2] # "main",
         NEW T, NEW c, NEW M, NEW C, Went(S, T, p, X, c, M, C), c.mode # "dead"
  PROVE  Finish(T, p) \in Situation /\ Wired(Finish(T, p), p, {}, A, K, F, V)
<1>1. T \in Situation /\ T.d[p] = c /\ c \in DaemonType /\ Rec(p, c) /\ Uses(c) \subseteq Mine(S, p, X)
  BY WentRecord
<1> DEFINE e == c.line[<<0, Master>>]
<1>2. CASE e = NoEnd \/ Broken(T.n, e)
  <2>1. Finish(T, p) = Die(T, p)
    BY <1>1, <1>2 DEF Finish
  <2> QED BY <2>1, WentGiveUp
<1>3. CASE ~(e = NoEnd \/ Broken(T.n, e))
  <2> DEFINE d == [c EXCEPT !.mode = "exit", !.todo = Idle, !.wait = NoWait]
             U == [d |-> [T.d EXCEPT ![p] = d], n |-> Send(T.n, e, Msg("Done"))]
             b == [[c EXCEPT !.mode = "exit"] EXCEPT !.todo = Idle]
  <2>1. d = [b EXCEPT !.wait = NoWait] /\ b \in DaemonType /\ d \in DaemonType
    BY <1>1, FieldTypes, ConstantsType DEF Mode
  <2>2. Uses(d) \subseteq Mine(S, p, X)
    <3>1. "exit" \in Mode /\ [c EXCEPT !.mode = "exit"] \in DaemonType
      BY <1>1, FieldTypes DEF Mode
    <3>2. Uses([c EXCEPT !.mode = "exit"]) = Uses(c)
      BY <1>1, <3>1, FieldUses
    <3>3. Uses(b) \subseteq Uses(c)
      BY <3>1, <3>2, FieldUses
    <3>4. Uses([b EXCEPT !.wait = NoWait]) \subseteq Uses(b)
      BY <2>1, FieldUses
    <3> QED BY <1>1, <2>1, <3>3, <3>4
  <2>3. d.state = c.state /\ d.quit = c.quit
    BY <1>1 DEF DaemonType
  <2> HIDE DEF d
  <2>4. Rec(p, d)
    BY <1>1, <2>3 DEF Rec, ExecRec
  <2>5. e \in Uses(c)
    <3>1. <<0, Master>> \in Spot
      BY MasterIsChan, WireAssumption DEF Spot, Ranks
    <3>2. e \in Refs(c)
      BY <3>1 DEF Refs
    <3> QED BY <1>3, <3>2 DEF Uses
  <2>6. Went(S, T, p, X, c, Mine(S, p, X), Said)
    BY AllMine
  <2>7. e \in Mine(S, p, X) /\ "Done" \in Said /\ "Done" \in Code
    BY <1>1, <2>5 DEF Said, Code
  <2> HIDE DEF e
  <2>8. Went(S, U, p, X, d, Mine(S, p, X), Said)
    BY <2>1, <2>2, <2>4, <2>6, <2>7, WentSend
  <2>9. Finish(T, p) = U
    <3>1. T.d \in [Daemons -> DaemonType]
      BY <1>1, Components
    <3>2. [T.d EXCEPT ![p].mode = "exit", ![p].todo = Idle, ![p].wait = NoWait] = [T.d EXCEPT ![p] = d]
      BY <1>1, <3>1 DEF d
    <3>3. Finish(T, p) = [d |-> [T.d EXCEPT ![p].mode = "exit", ![p].todo = Idle, ![p].wait = NoWait],
                          n |-> Send(T.n, e, Msg("Done"))]
      BY <1>1, <1>3 DEF Finish, e
    <3> QED BY <3>2, <3>3
  <2> HIDE DEF U
  <2>10. Goes(S, p, X, d, Mine(S, p, X), Said, F)
    BY ExecGoes
  <2>11. U \in Situation /\ Wired(U, p, {}, A, K, F, V)
    <3>1. U \in Situation
      BY <2>8, WentRecord
    <3> QED BY <2>8, <2>10, <3>1, WentWired
  <2> QED BY <2>9, <2>11
<1> QED BY <1>2, <1>3

LEMMA RaiseWired ==
  ASSUME NEW S \in Situation, NEW p \in Daemons, NEW X, NEW A, NEW K, NEW F \in SUBSET Hosts, NEW V,
         Wired(S, p, X, A, K, F, V),
         NEW T, NEW c, NEW M, NEW C, Went(S, T, p, X, c, M, C)
  PROVE  Raise(T, p) \in Situation /\ Wired(Raise(T, p), p, {}, A, K, F, V)
<1>1. T \in Situation /\ T.d[p] = c /\ c \in DaemonType /\ Rec(p, c) /\ Uses(c) \subseteq Mine(S, p, X)
  BY WentRecord
<1> DEFINE b == [c EXCEPT !.wait = NoWait]
           d == [b EXCEPT !.todo = Idle]
           U == [T EXCEPT !.d[p] = d]
<1>2. b \in DaemonType /\ d \in DaemonType
  BY <1>1, FieldTypes, ConstantsType
<1>3. Uses(d) \subseteq Uses(c)
  BY <1>1, <1>2, FieldUses
<1>4. /\ d.state = c.state /\ d.quit = c.quit /\ d.mode = c.mode /\ d.cache = c.cache
      /\ d.line = c.line /\ d.wait = NoWait
  BY <1>1, <1>2 DEF DaemonType
<1>5. [T EXCEPT !.d[p].wait = NoWait, !.d[p].todo = Idle] = U
  BY <1>1 DEF Situation
<1> HIDE DEF b, d
<1>6. Rec(p, d)
  <2>1. d.wait.on = "no"
    BY <1>4 DEF NoWait
  <2> QED BY <1>1, <1>4, <2>1 DEF Rec, MainRec, ExecRec
<1>7. Went(S, U, p, X, d, M, C)
  BY <1>1, <1>2, <1>3, <1>6, WentSet
<1>8. Raise(T, p) = CASE c.mode = "loop" -> Reset(U, p, "Error")
                      [] c.mode = "main" -> Finish(U, p)
                      [] OTHER -> Die(T, p)
  BY <1>1, <1>5 DEF Raise
<1> HIDE DEF U
<1>9. CASE c.mode = "loop"
  <2>1. Raise(T, p) = Reset(U, p, "Error")
    BY <1>8, <1>9
  <2>2. d.wait.on # "line"
    BY <1>4 DEF NoWait
  <2> QED BY <1>7, <2>1, <2>2, ResetWired
<1>10. CASE c.mode = "main"
  <2>1. Raise(T, p) = Finish(U, p)
    BY <1>8, <1>10
  <2>2. p[2] # "main"
    BY <1>1, <1>10 DEF Rec, MainRec
  <2>3. d.mode # "dead"
    BY <1>4, <1>10
  <2> QED BY <1>7, <2>1, <2>2, <2>3, FinishWired
<1>11. CASE c.mode \notin {"loop", "main"}
  <2>1. Raise(T, p) = Die(T, p)
    BY <1>8, <1>11
  <2> QED BY <2>1, WentGiveUp
<1> QED BY <1>9, <1>10, <1>11

LEMMA AnswerWired ==
  ASSUME NEW S \in Situation, NEW p \in Daemons, NEW X, NEW A, NEW K, NEW F \in SUBSET Hosts, NEW V,
         Wired(S, p, X, A, K, F, V),
         NEW T, NEW c, NEW M, NEW C, Went(S, T, p, X, c, M, C),
         NEW e \in M, NEW code \in Code, code \in C,
         NEW d \in DaemonType, Rec(p, d), Uses(d) \subseteq Mine(S, p, X), Goes(S, p, X, d, M, C, F)
  PROVE  Answer(T, p, e, code, d) \in Situation /\ Wired(Answer(T, p, e, code, d), p, {}, A, K, F, V)
<1>1. CASE Broken(T.n, e)
  <2>1. Answer(T, p, e, code, d) = Raise(T, p)
    BY <1>1 DEF Answer
  <2> QED BY <2>1, RaiseWired
<1>2. CASE ~Broken(T.n, e)
  <2> DEFINE U == [d |-> [T.d EXCEPT ![p] = d], n |-> Send(T.n, e, Msg(code))]
  <2>1. Answer(T, p, e, code, d) = U
    BY <1>2 DEF Answer
  <2>2. Went(S, U, p, X, d, M, C)
    BY WentSend
  <2> HIDE DEF U
  <2>3. U \in Situation
    BY <2>2, WentRecord
  <2>4. Wired(U, p, {}, A, K, F, V)
    BY <2>2, WentWired
  <2> QED BY <2>1, <2>3, <2>4
<1> QED BY <1>1, <1>2

(* The message of e is read.                                                *)
LEMMA Heard ==
  ASSUME NEW S \in Situation, NEW p \in Daemons, NEW X, Records(S), NEW e \in Mine(S, p, X),
         NEW C, C \subseteq Said
  PROVE  /\ Went(S, Consume(S, e), p, X, S.d[p], {e}, C)
         /\ Consume(S, e) \in Situation /\ Consume(S, e).d = S.d
<1>1. Went(S, S, p, X, S.d[p], {e}, C)
  BY WentStart
<1>2. Went(S, Consume(S, e), p, X, S.d[p], {e}, C)
  BY <1>1, WentConsume
<1> QED BY <1>2, ConsumeType

-----------------------------------------------------------------------------
(* p handles what arrived at e, and leaves a sound situation behind.        *)
Asked(S, p, e, A, K, F, V) ==
  /\ S \in Situation /\ p \in Daemons /\ F \in SUBSET Hosts
  /\ Wired(S, p, {e}, A, K, F, V)
  /\ S.d[p].mode # "dead" /\ S.d[p].wait.on = "no"
  /\ p[2] = "main" /\ Forming(S.d[p]) /\ e = Home(S.d[p]) => p[1] \notin F
Kept(T, p, A, K, F, V) == T \in Situation /\ Wired(T, p, {}, A, K, F, V)

(* The answer C to e says nothing wrong to a client p serves.               *)
Aside(S, p, e, C, F) ==
  p[2] = "main" /\ Forming(S.d[p]) => e # Home(S.d[p]) \/ (C \subseteq {"OK", "Refuse"} /\ p[1] \notin F)

LEMMA AskedFacts ==
  ASSUME NEW S, NEW p, NEW e, NEW A, NEW K, NEW F, NEW V, Asked(S, p, e, A, K, F, V)
  PROVE  /\ S \in Situation /\ p \in Daemons /\ F \in SUBSET Hosts
         /\ Wired(S, p, {e}, A, K, F, V)
         /\ Records(S) /\ Rec(p, S.d[p])
         /\ S.n \in NetType /\ S.d \in [Daemons -> DaemonType] /\ S.d[p] \in DaemonType
         /\ e \in End /\ p \in S.n.hold[e] /\ e \in Mine(S, p, {e})
         /\ Uses(S.d[p]) \subseteq End /\ Uses(S.d[p]) \subseteq Mine(S, p, {e})
         /\ Mine(S, p, {e}) = Uses(S.d[p]) \cup {e}
<1>1. /\ S \in Situation /\ p \in Daemons /\ F \in SUBSET Hosts /\ Wired(S, p, {e}, A, K, F, V)
  BY DEF Asked
<1>2. Records(S) /\ Owned(S, p, {e})
  BY <1>1, WiredOwned
<1>3. e \in End /\ p \in S.n.hold[e]
  BY <1>2 DEF Owned
<1>4. Went(S, S, p, {e}, S.d[p], {}, {})
  BY <1>1, <1>2, WentStart
<1>5. Rec(p, S.d[p])
  BY <1>4 DEF Went
<1> QED BY <1>1, <1>2, <1>3, <1>5, Components, UsesType DEF Mine

LEMMA AskedWent ==
  ASSUME NEW S, NEW p, NEW e, NEW A, NEW K, NEW F, NEW V, Asked(S, p, e, A, K, F, V),
         NEW T \in {S, Consume(S, e)}, NEW C, C \subseteq Said
  PROVE  /\ Went(S, T, p, {e}, S.d[p], {e}, C)
         /\ T \in Situation /\ T.d = S.d
<1>1. /\ S \in Situation /\ p \in Daemons /\ Records(S) /\ e \in Mine(S, p, {e})
  BY AskedFacts
<1>2. CASE T = S
  BY <1>1, <1>2, WentStart
<1>3. CASE T = Consume(S, e)
  BY <1>1, <1>3, Heard
<1> QED BY <1>2, <1>3

LEMMA AnswerKept ==
  ASSUME NEW S, NEW p, NEW e, NEW A, NEW K, NEW F, NEW V, Asked(S, p, e, A, K, F, V),
         NEW T \in {S, Consume(S, e)}, NEW code \in Code, code \in Said,
         NEW d \in DaemonType, Rec(p, d), Uses(d) \subseteq Uses(S.d[p]) \cup {e},
         Goes(S, p, {e}, d, {e}, {code}, F)
  PROVE  Kept(Answer(T, p, e, code, d), p, A, K, F, V)
<1>1. /\ S \in Situation /\ p \in Daemons /\ F \in SUBSET Hosts /\ Wired(S, p, {e}, A, K, F, V)
      /\ Mine(S, p, {e}) = Uses(S.d[p]) \cup {e}
  BY AskedFacts
<1>2. Went(S, T, p, {e}, S.d[p], {e}, {code})
  BY AskedWent
<1> QED BY <1>1, <1>2, AnswerWired DEF Kept

LEMMA RaiseKept ==
  ASSUME NEW S, NEW p, NEW e, NEW A, NEW K, NEW F, NEW V, Asked(S, p, e, A, K, F, V),
         NEW T \in {S, Consume(S, e)}
  PROVE  Kept(Raise(T, p), p, A, K, F, V)
<1>1. /\ S \in Situation /\ p \in Daemons /\ F \in SUBSET Hosts /\ Wired(S, p, {e}, A, K, F, V)
  BY AskedFacts
<1>2. Went(S, T, p, {e}, S.d[p], {e}, {})
  BY AskedWent
<1> QED BY <1>1, <1>2, RaiseWired DEF Kept

LEMMA ResetKept ==
  ASSUME NEW S, NEW p, NEW e, NEW A, NEW K, NEW F, NEW V, Asked(S, p, e, A, K, F, V),
         NEW T \in {S, Consume(S, e)}, NEW code \in {"Error", "Renegade"}
  PROVE  Kept(Reset(T, p, code), p, A, K, F, V)
<1>1. /\ S \in Situation /\ p \in Daemons /\ F \in SUBSET Hosts /\ Wired(S, p, {e}, A, K, F, V)
  BY AskedFacts
<1>2. Went(S, T, p, {e}, S.d[p], {e}, {})
  BY AskedWent
<1>3. S.d[p].wait.on # "line"
  BY DEF Asked
<1> QED BY <1>1, <1>2, <1>3, ResetWired DEF Kept

LEMMA SetDefaultKept ==
  ASSUME NEW S, NEW p, NEW e, NEW A, NEW K, NEW F, NEW V, Asked(S, p, e, A, K, F, V),
         NEW T \in {S, Consume(S, e)}, NEW wait \in BOOLEAN
  PROVE  Kept(SetDefault(T, p, wait), p, A, K, F, V)
<1>1. /\ S \in Situation /\ p \in Daemons /\ F \in SUBSET Hosts /\ Wired(S, p, {e}, A, K, F, V)
  BY AskedFacts
<1>2. Went(S, T, p, {e}, S.d[p], {e}, {})
  BY AskedWent
<1>3. S.d[p].wait.on # "line"
  BY DEF Asked
<1> QED BY <1>1, <1>2, <1>3, SetDefaultWired DEF Kept

LEMMA DieKept ==
  ASSUME NEW S, NEW p, NEW e, NEW A, NEW K, NEW F, NEW V, Asked(S, p, e, A, K, F, V),
         NEW T \in {S, Consume(S, e)}
  PROVE  Kept(Die(T, p), p, A, K, F, V)
<1>1. /\ S \in Situation /\ p \in Daemons /\ F \in SUBSET Hosts /\ Wired(S, p, {e}, A, K, F, V)
  BY AskedFacts
<1>2. Went(S, T, p, {e}, S.d[p], {e}, {})
  BY AskedWent
<1> QED BY <1>1, <1>2, WentGiveUp DEF Kept

(* Disconnect and the rope: OK is said, then the group is forgotten.        *)
LEMMA AnswerSetDefaultKept ==
  ASSUME NEW S, NEW p, NEW e, NEW A, NEW K, NEW F, NEW V, Asked(S, p, e, A, K, F, V),
         NEW T, T = Consume(S, e), ~Broken(T.n, e), NEW wait \in BOOLEAN
  PROVE  LET U == Answer(T, p, e, "OK", T.d[p])
         IN  U \in Situation /\ Kept(SetDefault(U, p, wait), p, A, K, F, V)
<1>1. /\ S \in Situation /\ p \in Daemons /\ F \in SUBSET Hosts /\ Wired(S, p, {e}, A, K, F, V)
      /\ S.d[p] \in DaemonType /\ Rec(p, S.d[p]) /\ Uses(S.d[p]) \subseteq Mine(S, p, {e})
  BY AskedFacts
<1>2. "OK" \in Code /\ "OK" \in Said
  BY DEF Code, Said
<1>3. Went(S, T, p, {e}, S.d[p], {e}, {"OK"}) /\ T.d = S.d
  BY <1>2, AskedWent
<1> DEFINE U == [d |-> [T.d EXCEPT ![p] = S.d[p]], n |-> Send(T.n, e, Msg("OK"))]
<1>4. Answer(T, p, e, "OK", T.d[p]) = U
  BY <1>3 DEF Answer
<1>5. Went(S, U, p, {e}, S.d[p], {e}, {"OK"})
  BY <1>1, <1>2, <1>3, WentSend
<1> HIDE DEF U
<1>6. U \in Situation
  BY <1>1, <1>5, WentRecord
<1>7. SetDefault(U, p, wait) \in Situation /\ Wired(SetDefault(U, p, wait), p, {}, A, K, F, V)
  <2>1. S.d[p].wait.on # "line"
    BY DEF Asked
  <2> QED BY <1>1, <1>5, <2>1, SetDefaultWired
<1> QED BY <1>4, <1>6, <1>7 DEF Kept

(* p goes on serving its client with the line it has.                       *)
LEMMA StayGoes ==
  ASSUME NEW S, NEW p, NEW e, NEW A, NEW K, NEW F, NEW V, Asked(S, p, e, A, K, F, V),
         NEW C, C \subseteq Said, Aside(S, p, e, C, F),
         NEW d \in DaemonType,
         Forming(d) => /\ Forming(S.d[p]) /\ Home(d) = Home(S.d[p])
                       /\ p[1] \in F => d.state = S.d[p].state,
         \A x \in Uses(d) \ Uses(S.d[p]) : Peer(S.n, x),
         d.wait.on = S.d[p].wait.on, d.wait.on = "line" => d.wait = S.d[p].wait
  PROVE  Goes(S, p, {e}, d, {e}, C, F)
<1> DEFINE c == S.d[p]
           h == Home(c)
<1> SUFFICES ASSUME p[2] = "main", Forming(d)
             PROVE  /\ Serves(S.n, c, {e}, d, {}, {e}, C)
                    /\ p[1] \in F => /\ Home(d) \notin {e}
                                     /\ d.wait.on = "line" <=> c.wait.on = "line"
                                     /\ d.state = c.state
  BY DEF Goes
<1>1. /\ S \in Situation /\ p \in Daemons /\ Wired(S, p, {e}, A, K, F, V) /\ p \in S.n.hold[e]
      /\ Main(p[1]) = p
  BY AskedFacts, MainOrExec
<1>2. FormOk(S.n, c, p, {e})
  <2>1. Formed(S, p, {e})
    BY <1>1, WiredOwned
  <2> QED BY <1>1, <2>1, ProcsFacts DEF Formed
<1>3. /\ h \in End /\ S.n.hold[Other(h)] \cap Daemons = {}
      /\ \A x \in Uses(c) \ {h} : Peer(S.n, x)
      /\ c.wait.on = "line" => c.wait.reply = h /\ c.wait.end[2] = "near"
  BY <1>2 DEF FormOk
<1>4. Other(h) \notin {e}
  BY <1>1, <1>3
<1>5. h \notin {e} \/ (C \subseteq {"OK", "Refuse"} /\ p[1] \notin F)
  BY DEF Aside
<1>6. \A x \in Uses(d) \ {h} : x \in End /\ Peer(S.n, x)
  BY <1>3, UsesType
<1>7. Serves(S.n, c, {e}, d, {}, {e}, C)
  BY <1>3, <1>4, <1>5, <1>6 DEF Serves
<1> QED BY <1>5, <1>7

LEMMA RefuseKept ==
  ASSUME NEW S, NEW p, NEW e, NEW A, NEW K, NEW F, NEW V, Asked(S, p, e, A, K, F, V),
         NEW T \in {S, Consume(S, e)}, NEW code \in Said, Aside(S, p, e, {code}, F)
  PROVE  Kept(Answer(T, p, e, code, S.d[p]), p, A, K, F, V)
<1>1. S.d[p] \in DaemonType /\ Rec(p, S.d[p])
  BY AskedFacts
<1>2. Goes(S, p, {e}, S.d[p], {e}, {code}, F)
  BY <1>1, StayGoes
<1>3. code \in Code
  BY DEF Said, Code
<1> QED BY <1>1, <1>2, <1>3, AnswerKept

(* What a client whose group is being formed may say.                       *)
LEMMA AskedHome ==
  ASSUME NEW S, NEW p, NEW e, NEW A, NEW K, NEW F, NEW V, Asked(S, p, e, A, K, F, V),
         p[2] = "main", Forming(S.d[p])
  PROVE  /\ Home(S.d[p]) \in End
         /\ e = Home(S.d[p]) =>
              /\ p[1] \notin F
              /\ \A m \in Msgs(S.n, e) : m.tag \in {"Peers", "ConnectTo", "Grouped", "Disconnect"}
         /\ Says(S.n, e, ClientCode) => e = Home(S.d[p])
         /\ \A x \in Uses(S.d[p]) \ {Home(S.d[p])} : Peer(S.n, x)
         /\ S.d[p].wait.on = "line" =>
              S.d[p].wait.reply = Home(S.d[p]) /\ S.d[p].wait.end[2] = "near"
         /\ e = Home(S.d[p]) => e[2] = "far"
<1>1. /\ S \in Situation /\ p \in Daemons /\ Wired(S, p, {e}, A, K, F, V) /\ Main(p[1]) = p
      /\ p[1] \in Hosts
  BY AskedFacts, MainOrExec, ProcsFacts
<1>2. Formed(S, p, {e})
  BY <1>1, WiredOwned
<1>3. FormOk(S.n, S.d[p], p, {e})
  BY <1>1, <1>2 DEF Formed
<1> QED BY <1>3 DEF FormOk, Asked

LEMMA AskedAside ==
  ASSUME NEW S, NEW p, NEW e, NEW A, NEW K, NEW F, NEW V, Asked(S, p, e, A, K, F, V),
         NEW C, C \subseteq {"OK", "Refuse"}
  PROVE  Aside(S, p, e, C, F)
BY DEF Asked, Aside

LEMMA Peeked ==
  ASSUME NEW n \in NetType, NEW e, NEW m, m = Peek(n, e), m.tag # "None"
  PROVE  /\ m \in Message /\ e \in End /\ m \in Msgs(n, e)
         /\ \A D : m.tag \in D => Says(n, e, D)
<1>1. m \in Message
  BY PeekType
<1>2. e \in End /\ n.box[e] # <<>> /\ m = Head(n.box[e])
  BY DEF Peek, Nothing, Msg
<1>3. n.box[e] \in Seq(Message)
  BY <1>2 DEF NetType
<1>4. \A s \in Seq(Message) : s # <<>> => 1 \in DOMAIN s /\ s[1] = Head(s)
  OBVIOUS
<1>5. m \in Msgs(n, e)
  BY <1>2, <1>3, <1>4 DEF Msgs
<1> QED BY <1>1, <1>2, <1>5 DEF Says

LEMMA RefusedKept ==
  ASSUME NEW S, NEW p, NEW e, NEW A, NEW K, NEW F, NEW V, Asked(S, p, e, A, K, F, V),
         NEW T \in {S, Consume(S, e)}
  PROVE  Kept(Refuse(T, p, e), p, A, K, F, V)
<1>1. T.d = S.d /\ Aside(S, p, e, {"Refuse"}, F) /\ "Refuse" \in Said
  BY AskedWent, AskedAside DEF Said
<1> QED BY <1>1, RefuseKept DEF Refuse

LEMMA ReleaseKept ==
  ASSUME NEW S, NEW p, NEW e, NEW A, NEW K, NEW F, NEW V, Asked(S, p, e, A, K, F, V)
  PROVE  Kept(Release(S, p, e), p, A, K, F, V)
<1> DEFINE T == Consume(S, e)
           U == Answer(T, p, e, "OK", T.d[p])
<1>1. Kept(Refuse(T, p, e), p, A, K, F, V) /\ Kept(Raise(T, p), p, A, K, F, V)
  BY RefusedKept, RaiseKept
<1>2. ~Broken(T.n, e) => Kept(SetDefault(U, p, FALSE), p, A, K, F, V)
  BY AnswerSetDefaultKept
<1> QED BY <1>1, <1>2 DEF Release

LEMMA StartGroupingKept ==
  ASSUME NEW S, NEW p, NEW e, NEW A, NEW K, NEW F, NEW V, Asked(S, p, e, A, K, F, V),
         NEW m \in Message, Says(S.n, e, {"Peers"})
  PROVE  Kept(StartGrouping(S, p, e, m), p, A, K, F, V)
<1> DEFINE T == Consume(S, e)
           c == S.d[p]
           d == [c EXCEPT !.state = "FormingGroup", !.world = m.arg]
<1>1. T.d = S.d /\ c \in DaemonType /\ Rec(p, c)
  BY AskedWent, AskedFacts
<1>2. CASE c.state # "Enslaved"
  <2>1. StartGrouping(S, p, e, m) = Refuse(T, p, e)
    BY <1>2 DEF StartGrouping
  <2> QED BY <2>1, RefusedKept
<1>3. CASE c.state = "Enslaved"
  <2>1. StartGrouping(S, p, e, m) = Answer(T, p, e, "OK", d)
    BY <1>1, <1>3 DEF StartGrouping
  <2>2. m.arg \in Nat
    BY DEF Message
  <2>3. /\ d \in DaemonType /\ d.state = "FormingGroup" /\ d.mode = c.mode /\ d.cache = c.cache
        /\ d.line = c.line /\ d.wait = c.wait /\ d.quit = c.quit /\ d.rope = c.rope
        /\ d.todo = c.todo
    BY <1>1, <2>2 DEF DaemonType, State
  <2> HIDE DEF d
  <2>4. Rec(p, d)
    BY <1>1, <1>3, <2>3 DEF Rec, MainRec, ExecRec
  <2>5. Uses(d) = Uses(c)
    BY <2>3 DEF Uses, Refs
  <2>6. Goes(S, p, {e}, d, {e}, {"OK"}, F)
    <3>1. CASE p[2] # "main"
      BY <3>1, ExecGoes
    <3>2. CASE p[2] = "main"
      <4>1. Forming(d) => Forming(c) /\ Home(d) = Home(c)
        BY <1>3, <2>3 DEF Forming, Home
      <4>2. Says(S.n, e, ClientCode)
        BY DEF Says, ClientCode
      <4>3. Forming(d) => p[1] \notin F
        BY <3>2, <4>1, <4>2, AskedHome
      <4>4. {"OK"} \subseteq Said /\ Aside(S, p, e, {"OK"}, F)
        BY AskedAside DEF Said
      <4> QED BY <2>3, <2>5, <4>1, <4>3, <4>4, StayGoes
    <3> QED BY <3>1, <3>2
  <2>7. "OK" \in Code /\ "OK" \in Said
    BY DEF Code, Said
  <2> QED BY <2>1, <2>3, <2>4, <2>5, <2>6, <2>7, AnswerKept
<1> QED BY <1>2, <1>3

LEMMA InsertUses ==
  ASSUME NEW d \in DaemonType, NEW r, NEW lines \in [Chan -> Ends0], NEW i, i = Insert(d, r, lines)
  PROVE  /\ \A x \in Uses(i) : x \in Uses(d) \/ \E k \in Chan : x = lines[k]
         /\ i.cache = d.cache
         /\ Home(d) # NoEnd => Home(i) = Home(d)
<1>1. CASE d.line[<<r, Master>>] # NoEnd
  BY <1>1 DEF Insert
<1>2. CASE d.line[<<r, Master>>] = NoEnd
  <2> DEFINE line == [s \in Spot |-> IF s[1] = r THEN lines[s[2]] ELSE d.line[s]]
  <2>1. i = [d EXCEPT !.line = line]
    BY <1>2 DEF Insert
  <2>2. \A s \in Spot : line[s] = d.line[s] \/ \E k \in Chan : line[s] = lines[k]
    BY DEF Spot
  <2>3. <<0, Master>> \in Spot /\ (r # 0 => line[<<0, Master>>] = d.line[<<0, Master>>])
    BY MasterIsChan, WireAssumption DEF Spot, Ranks
  <2> HIDE DEF line
  <2>4. i.line = line /\ i.cache = d.cache /\ i.rope = d.rope /\ i.wait = d.wait /\ i.todo = d.todo
    BY <2>1 DEF DaemonType
  <2>5. \A x \in Uses(i) : x \in Uses(d) \/ \E k \in Chan : x = lines[k]
    BY <2>2, <2>4 DEF Uses, Refs
  <2>6. Home(d) # NoEnd => Home(i) = Home(d)
    BY <1>2, <2>3, <2>4 DEF Home
  <2> QED BY <2>4, <2>5, <2>6
<1> QED BY <1>1, <1>2

LEMMA OneLineUses ==
  ASSUME NEW d \in DaemonType, NEW r, NEW e \in End, NEW i, i = Insert(d, r, OneLine(e))
  PROVE  /\ Uses(i) \subseteq Uses(d) \cup {e}
         /\ i.cache = d.cache
         /\ Home(d) # NoEnd => Home(i) = Home(d)
<1>1. OneLine(e) \in [Chan -> Ends0]
  BY OneLineType DEF Ends0
<1>2. \A k \in Chan : OneLine(e)[k] \in {e, NoEnd}
  BY DEF OneLine
<1>3. \A x \in Uses(i) : x # NoEnd
  BY DEF Uses
<1>4. /\ \A x \in Uses(i) : x \in Uses(d) \/ \E k \in Chan : x = OneLine(e)[k]
      /\ i.cache = d.cache /\ (Home(d) # NoEnd => Home(i) = Home(d))
  BY <1>1, InsertUses
<1> QED BY <1>2, <1>3, <1>4

LEMMA JoinKept ==
  ASSUME NEW S, NEW p, NEW e, NEW A, NEW K, NEW F, NEW V, Asked(S, p, e, A, K, F, V),
         NEW m \in Message, Says(S.n, e, {"Join"}), NEW late
  PROVE  Kept(Join(S, p, e, m, late), p, A, K, F, V)
<1> DEFINE T == Consume(S, e)
           c == S.d[p]
           d == Insert(c, m.arg, OneLine(e))
<1>1. T.d = S.d /\ c \in DaemonType /\ Rec(p, c) /\ e \in End
  BY AskedWent, AskedFacts
<1>2. CASE c.state # "FormingGroup"
  <2>1. Join(S, p, e, m, late) = Refuse(T, p, e)
    BY <1>2 DEF Join
  <2> QED BY <2>1, RefusedKept
<1>3. CASE c.state = "FormingGroup" /\ late /\ Hung(T.n, e)
  <2>1. Join(S, p, e, m, late) = Raise(T, p)
    BY <1>3 DEF Join
  <2> QED BY <2>1, RaiseKept
<1>4. CASE c.state = "FormingGroup" /\ ~(late /\ Hung(T.n, e))
  <2>1. Join(S, p, e, m, late) = Answer(T, p, e, "OK", d)
    BY <1>1, <1>4 DEF Join
  <2>2. OneLine(e) \in [Chan -> Ends0]
    BY <1>1, OneLineType DEF Ends0
  <2>3. d \in DaemonType /\ d.mode = c.mode /\ d.wait = c.wait /\ d.quit = c.quit /\ d.state = c.state
    BY <1>1, <2>2, InsertFields
  <2>4. Uses(d) \subseteq Uses(c) \cup {e} /\ d.cache = c.cache /\ (Home(c) # NoEnd => Home(d) = Home(c))
    BY <1>1, OneLineUses
  <2> HIDE DEF d
  <2>5. Rec(p, d)
    BY <1>1, <1>4, <2>3, <2>4 DEF Rec, MainRec, ExecRec
  <2>6. Goes(S, p, {e}, d, {e}, {"OK"}, F)
    <3>1. CASE p[2] # "main"
      BY <3>1, ExecGoes
    <3>2. CASE p[2] = "main"
      <4>1. Forming(d) => Forming(c) /\ Home(d) = Home(c)
        BY <2>3, <2>4, <3>2, AskedHome, NoEndIsNoEnd DEF Forming
      <4>2. Joining(S)
        <5>1. Wired(S, p, {e}, A, K, F, V)
          BY AskedFacts
        <5> QED BY <5>1, WiredOwned
      <4>3. Peer(S.n, e)
        BY <1>1, <4>2 DEF Joining, Says
      <4>4. {"OK"} \subseteq Said /\ Aside(S, p, e, {"OK"}, F)
        BY AskedAside DEF Said
      <4> QED BY <2>3, <2>4, <4>1, <4>3, <4>4, StayGoes
    <3> QED BY <3>1, <3>2
  <2>7. "OK" \in Code /\ "OK" \in Said
    BY DEF Code, Said
  <2> QED BY <2>1, <2>3, <2>4, <2>5, <2>6, <2>7, AnswerKept
<1> QED BY <1>2, <1>3, <1>4

LEMMA AddDataLineKept ==
  ASSUME NEW S, NEW p, NEW e, NEW A, NEW K, NEW F, NEW V, Asked(S, p, e, A, K, F, V),
         NEW m \in Message, m \in Msgs(S.n, e), m.tag = "DataLine"
  PROVE  Kept(AddDataLine(S, p, e, m), p, A, K, F, V)
<1> DEFINE T == Consume(S, e)
           c == S.d[p]
           s == <<m.arg, m.chan>>
           d == [c EXCEPT !.line[s] = e]
<1>1. T.d = S.d /\ c \in DaemonType /\ Rec(p, c) /\ e \in End
  BY AskedWent, AskedFacts
<1>2. CASE ~(c.state = "FormingGroup" /\ c.line[<<m.arg, Master>>] # NoEnd)
  <2>1. AddDataLine(S, p, e, m) = Refuse(T, p, e)
    BY <1>1, <1>2 DEF AddDataLine
  <2> QED BY <2>1, RefusedKept
<1>3. CASE c.state = "FormingGroup" /\ c.line[<<m.arg, Master>>] # NoEnd
  <2>1. AddDataLine(S, p, e, m) = Answer(T, p, e, "OK", d)
    BY <1>1, <1>3 DEF AddDataLine
  <2>2. Peer(S.n, e) /\ m.chan # Master
    <3>1. Wired(S, p, {e}, A, K, F, V)
      BY AskedFacts
    <3>2. Joining(S)
      BY <3>1, WiredOwned
    <3> QED BY <1>1, <3>2 DEF Joining, Says
  <2>3. <<0, Master>> # s
    BY <2>2
  <2> HIDE DEF s
  <2>4. /\ d \in DaemonType /\ d.mode = c.mode /\ d.wait = c.wait /\ d.quit = c.quit
        /\ d.state = c.state /\ d.cache = c.cache /\ d.rope = c.rope /\ d.todo = c.todo
        /\ d.line = [c.line EXCEPT ![s] = e]
    BY <1>1 DEF DaemonType, Ends0
  <2>5. c.line \in [Spot -> Ends0] /\ <<0, Master>> \in Spot
    BY <1>1, MasterIsChan, WireAssumption DEF DaemonType, Spot, Ranks
  <2> HIDE DEF d
  <2>6. \A t \in Spot : d.line[t] = c.line[t] \/ d.line[t] = e
    BY <2>4, <2>5
  <2>7. Uses(d) \subseteq Uses(c) \cup {e} /\ Home(d) = Home(c)
    <3>1. Home(d) = Home(c)
      BY <2>3, <2>4, <2>5 DEF Home
    <3>2. Refs(d) \subseteq Refs(c) \cup {e}
      BY <2>4, <2>6 DEF Refs
    <3> QED BY <2>4, <3>1, <3>2 DEF Uses
  <2>8. Rec(p, d)
    BY <1>1, <1>3, <2>4 DEF Rec, MainRec, ExecRec
  <2>9. Goes(S, p, {e}, d, {e}, {"OK"}, F)
    <3>1. Forming(d) => Forming(c)
      BY <2>4 DEF Forming
    <3>2. {"OK"} \subseteq Said /\ Aside(S, p, e, {"OK"}, F)
      BY AskedAside DEF Said
    <3> QED BY <2>2, <2>4, <2>7, <3>1, <3>2, StayGoes
  <2>10. "OK" \in Code /\ "OK" \in Said
    BY DEF Code, Said
  <2> QED BY <2>1, <2>4, <2>7, <2>8, <2>9, <2>10, AnswerKept
<1> QED BY <1>2, <1>3

(* A message is read, or left, and nothing else happens.                    *)
LEMMA ReadKept ==
  ASSUME NEW S, NEW p, NEW e, NEW A, NEW K, NEW F, NEW V, Asked(S, p, e, A, K, F, V),
         NEW T \in {S, Consume(S, e)},
         ~(p[2] = "main" /\ Forming(S.d[p]) /\ e = Home(S.d[p]))
  PROVE  Kept(T, p, A, K, F, V)
<1>1. Went(S, T, p, {e}, S.d[p], {e}, {}) /\ T \in Situation
  BY AskedWent
<1>2. S.d[p] \in DaemonType /\ Aside(S, p, e, {}, F)
  BY AskedFacts DEF Aside
<1>3. Goes(S, p, {e}, S.d[p], {e}, {}, F)
  BY <1>2, StayGoes
<1>4. /\ S \in Situation /\ p \in Daemons /\ F \in SUBSET Hosts /\ Wired(S, p, {e}, A, K, F, V)
  BY AskedFacts
<1> QED BY <1>1, <1>3, <1>4, WentWired DEF Kept

LEMMA RunKept ==
  ASSUME NEW S, NEW p, NEW e, NEW A, NEW K, NEW F, NEW V, Asked(S, p, e, A, K, F, V)
  PROVE  Kept(Run(S, p, e), p, A, K, F, V)
<1> DEFINE c == S.d[p]
           w == [NoWait EXCEPT !.on = "start", !.end = e]
           d == [c EXCEPT !.wait = w]
<1>1. c \in DaemonType /\ Rec(p, c) /\ e \in End
  BY AskedFacts
<1>2. CASE c.state # "Grouped"
  <2>1. Run(S, p, e) = Refuse(S, p, e)
    BY <1>2 DEF Run
  <2> QED BY <2>1, RefusedKept
<1>3. CASE c.state = "Grouped"
  <2>1. Run(S, p, e) = Answer(Consume(S, e), p, e, "OK", d)
    BY <1>3 DEF Run
  <2>2. w \in WaitType /\ w.end = e /\ w.reply = NoEnd /\ w.lines = NoWait.lines
    BY <1>1, ConstantsType DEF WaitType, NoWait, Ends0
  <2> HIDE DEF w
  <2>3. /\ d \in DaemonType /\ d.mode = c.mode /\ d.wait = w /\ d.quit = c.quit /\ d.state = c.state
        /\ d.line = c.line /\ d.cache = c.cache /\ d.rope = c.rope /\ d.todo = c.todo
    BY <1>1, <2>2 DEF DaemonType
  <2> HIDE DEF d
  <2>4. \A k \in Chan : w.lines[k] = NoEnd
    BY <2>2 DEF NoWait
  <2>5. Uses(d) \subseteq Uses(c) \cup {e}
    BY <2>2, <2>3, <2>4 DEF Uses, Refs
  <2>6. p[2] # "main"
    BY <1>1, <1>3 DEF Rec, MainRec
  <2>7. Rec(p, d)
    BY <1>1, <1>3, <2>3, <2>6 DEF Rec, ExecRec
  <2>8. "OK" \in Code /\ "OK" \in Said /\ Goes(S, p, {e}, d, {e}, {"OK"}, F)
    BY <2>6, ExecGoes DEF Code, Said
  <2> QED BY <2>1, <2>3, <2>5, <2>7, <2>8, AnswerKept
<1> QED BY <1>2, <1>3

LEMMA PrepareKept ==
  ASSUME NEW S, NEW p, NEW e, NEW A, NEW K, NEW F, NEW V, Asked(S, p, e, A, K, F, V),
         Says(S.n, e, {"PrepareToLeave"})
  PROVE  Kept(Prepare(S, p, e), p, A, K, F, V)
<1> DEFINE T == Consume(S, e)
           c == S.d[p]
           d == [c EXCEPT !.state = "Leaving"]
<1>1. c \in DaemonType /\ Rec(p, c) /\ e \in End /\ T.d = S.d
  BY AskedFacts, AskedWent
<1>2. CASE c.state \notin {"Grouped", "FormingGroup"}
  <2>1. Prepare(S, p, e) = Refuse(T, p, e)
    BY <1>2 DEF Prepare
  <2> QED BY <2>1, RefusedKept
<1>3. CASE c.state \in {"Grouped", "FormingGroup"}
  <2>1. Prepare(S, p, e) = Answer(T, p, e, "OK", d)
    BY <1>1, <1>3 DEF Prepare
  <2>2. p[2] # "main"
    <3> SUFFICES ASSUME p[2] = "main" PROVE FALSE
      OBVIOUS
    <3>1. c.state = "FormingGroup" /\ c.mode # "dead"
      BY <1>1, <1>3 DEF Rec, MainRec, Asked
    <3>2. Forming(c)
      BY <3>1 DEF Forming
    <3>3. Says(S.n, e, ClientCode)
      BY DEF Says, ClientCode
    <3>4. \A m \in Msgs(S.n, e) : m.tag \in {"Peers", "ConnectTo", "Grouped", "Disconnect"}
      BY <3>2, <3>3, AskedHome
    <3> QED BY <3>4 DEF Says
  <2>3. /\ d \in DaemonType /\ d.mode = c.mode /\ d.state = "Leaving"
        /\ d.line = c.line /\ d.cache = c.cache /\ d.rope = c.rope /\ d.todo = c.todo /\ d.wait = c.wait
    BY <1>1 DEF DaemonType, State
  <2> HIDE DEF d
  <2>4. Uses(d) = Uses(c)
    BY <2>3 DEF Uses, Refs
  <2>5. Rec(p, d)
    BY <2>2, <2>3 DEF Rec, ExecRec
  <2>6. "OK" \in Code /\ "OK" \in Said /\ Goes(S, p, {e}, d, {e}, {"OK"}, F)
    BY <2>2, ExecGoes DEF Code, Said
  <2> QED BY <2>1, <2>3, <2>4, <2>5, <2>6, AnswerKept
<1> QED BY <1>2, <1>3

LEMMA LeaveKept ==
  ASSUME NEW S, NEW p, NEW e, NEW A, NEW K, NEW F, NEW V, Asked(S, p, e, A, K, F, V)
  PROVE  Kept(Leave(S, p, e), p, A, K, F, V)
<1> DEFINE T == Consume(S, e)
           c == S.d[p]
           w == [NoWait EXCEPT !.on = "ack", !.end = c.rope, !.reply = e]
           d == [c EXCEPT !.wait = w]
<1>1. c \in DaemonType /\ Rec(p, c) /\ e \in End /\ T.d = S.d
  BY AskedFacts, AskedWent
<1>2. CASE c.state # "Leaving"
  <2>1. Leave(S, p, e) = Refuse(T, p, e)
    BY <1>1, <1>2 DEF Leave
  <2> QED BY <2>1, RefusedKept
<1>3. CASE c.state = "Leaving" /\ c.rope = NoEnd
  <2>1. Leave(S, p, e) = Die(T, p)
    BY <1>1, <1>3 DEF Leave
  <2> QED BY <2>1, DieKept
<1>4. CASE c.state = "Leaving" /\ c.rope # NoEnd
  <2>1. Leave(S, p, e) = Answer(T, p, c.rope, "CutRope", d)
    BY <1>1, <1>4 DEF Leave
  <2>2. c.rope \in Ends0
    BY <1>1 DEF DaemonType
  <2>3. w \in WaitType /\ w.end = c.rope /\ w.reply = e /\ w.lines = NoWait.lines
    BY <1>1, <2>2, ConstantsType DEF WaitType, NoWait, Ends0
  <2> HIDE DEF w
  <2>4. /\ d \in DaemonType /\ d.mode = c.mode /\ d.wait = w /\ d.quit = c.quit /\ d.state = c.state
        /\ d.line = c.line /\ d.cache = c.cache /\ d.rope = c.rope /\ d.todo = c.todo
    BY <1>1, <2>3 DEF DaemonType
  <2> HIDE DEF d
  <2>5. \A k \in Chan : w.lines[k] = NoEnd
    BY <2>3 DEF NoWait
  <2>6. Uses(d) \subseteq Uses(c) \cup {e}
    BY <2>3, <2>4, <2>5 DEF Uses, Refs
  <2>7. c.rope \in Uses(c)
    BY <1>4 DEF Uses, Refs
  <2>8. p[2] # "main"
    BY <1>1, <1>4 DEF Rec, MainRec
  <2>9. Rec(p, d)
    BY <1>1, <1>4, <2>4, <2>8 DEF Rec, ExecRec
  <2>10. Went(S, T, p, {e}, c, Mine(S, p, {e}), Said)
    <3>1. Went(S, T, p, {e}, c, {e}, {})
      BY AskedWent
    <3> QED BY <3>1, AllMine
  <2>11. "CutRope" \in Code /\ "CutRope" \in Said /\ Goes(S, p, {e}, d, Mine(S, p, {e}), Said, F)
    BY <2>8, ExecGoes DEF Code, Said
  <2>12. /\ S \in Situation /\ p \in Daemons /\ F \in SUBSET Hosts /\ Wired(S, p, {e}, A, K, F, V)
         /\ Mine(S, p, {e}) = Uses(c) \cup {e}
    BY AskedFacts
  <2>13. Answer(T, p, c.rope, "CutRope", d) \in Situation
         /\ Wired(Answer(T, p, c.rope, "CutRope", d), p, {}, A, K, F, V)
    BY <2>4, <2>6, <2>7, <2>9, <2>10, <2>11, <2>12, AnswerWired
  <2> QED BY <2>1, <2>13 DEF Kept
<1> QED BY <1>2, <1>3, <1>4

LEMMA CutRopeKept ==
  ASSUME NEW S, NEW p, NEW e, NEW A, NEW K, NEW F, NEW V, Asked(S, p, e, A, K, F, V)
  PROVE  Kept(CutRope(S, p, e), p, A, K, F, V)
<1> DEFINE T == Consume(S, e)
           U == Answer(T, p, e, "OK", T.d[p])
<1>1. Kept(Refuse(T, p, e), p, A, K, F, V) /\ Kept(Raise(T, p), p, A, K, F, V)
  BY RefusedKept, RaiseKept
<1>2. ~Broken(T.n, e) => Kept(SetDefault(U, p, TRUE), p, A, K, F, V)
  BY AnswerSetDefaultKept
<1> QED BY <1>1, <1>2 DEF CutRope

LEMMA ErrorKept ==
  ASSUME NEW S, NEW p, NEW e, NEW A, NEW K, NEW F, NEW V, Asked(S, p, e, A, K, F, V)
  PROVE  Kept(Error(S, p, e), p, A, K, F, V)
BY ResetKept DEF Error

LEMMA StatusKept ==
  ASSUME NEW S, NEW p, NEW e, NEW A, NEW K, NEW F, NEW V, Asked(S, p, e, A, K, F, V),
         Says(S.n, e, {"Status"})
  PROVE  Kept(StatusReply(S, p, e), p, A, K, F, V)
<1>1. Aside(S, p, e, {"Status"}, F)
  <2> SUFFICES ASSUME p[2] = "main", Forming(S.d[p]) PROVE e # Home(S.d[p])
    BY DEF Aside
  <2>1. e = Home(S.d[p]) => \A m \in Msgs(S.n, e) : m.tag \in {"Peers", "ConnectTo", "Grouped", "Disconnect"}
    BY AskedHome
  <2> QED BY <2>1 DEF Says
<1>2. "Status" \in Said
  BY DEF Said
<1> QED BY <1>1, <1>2, RefuseKept DEF StatusReply

LEMMA KeptDie ==
  ASSUME NEW T, NEW p \in Daemons, NEW A, NEW K, NEW F \in SUBSET Hosts, NEW V, Kept(T, p, A, K, F, V),
         NEW q \in Daemons
  PROVE  Kept(Die(T, q), p, A, K, F, V)
BY DieWired DEF Kept

LEMMA ShutdownKept ==
  ASSUME NEW S, NEW p, NEW e, NEW A, NEW K, NEW F, NEW V, Asked(S, p, e, A, K, F, V)
  PROVE  Kept(Shutdown(S, p, e), p, A, K, F, V)
<1> DEFINE T == Consume(S, e)
           U == Answer(T, p, e, "OK", T.d[p])
<1>1. Kept(Refuse(T, p, e), p, A, K, F, V) /\ Kept(Raise(T, p), p, A, K, F, V)
  BY RefusedKept, RaiseKept
<1>2. ~Broken(T.n, e) => Kept(SetDefault(U, p, FALSE), p, A, K, F, V)
  BY AnswerSetDefaultKept
<1>3. p \in Daemons /\ F \in SUBSET Hosts
  BY AskedFacts
<1>4. ~Broken(T.n, e) => Kept(Die(SetDefault(U, p, FALSE), p), p, A, K, F, V)
  BY <1>2, <1>3, KeptDie
<1> QED BY <1>1, <1>4 DEF Shutdown

LEMMA ForceShutdownKept ==
  ASSUME NEW S, NEW p, NEW e, NEW A, NEW K, NEW F, NEW V, Asked(S, p, e, A, K, F, V)
  PROVE  Kept(ForceShutdown(S, p, e), p, A, K, F, V)
<1>1. Kept(SetDefault(Consume(S, e), p, FALSE), p, A, K, F, V)
  BY SetDefaultKept
<1>2. p \in Daemons /\ F \in SUBSET Hosts
  BY AskedFacts
<1> QED BY <1>1, <1>2, KeptDie DEF ForceShutdown

LEMMA ForceResetKept ==
  ASSUME NEW S, NEW p, NEW e, NEW A, NEW K, NEW F, NEW V, Asked(S, p, e, A, K, F, V)
  PROVE  Kept(ForceReset(S, p, e), p, A, K, F, V)
<1>1. S.d[p].state = "Free" => Kept(Consume(S, e), p, A, K, F, V)
  BY ReadKept DEF Forming
<1>2. Kept(Reset(Consume(S, e), p, "Error"), p, A, K, F, V)
  BY ResetKept
<1> QED BY <1>1, <1>2 DEF ForceReset

LEMMA InitDataKept ==
  ASSUME NEW S, NEW p, NEW e, NEW A, NEW K, NEW F, NEW V, Asked(S, p, e, A, K, F, V),
         Says(S.n, e, {"InitialData"})
  PROVE  Kept(InitData(S, p, e), p, A, K, F, V)
<1>1. ~(p[2] = "main" /\ Forming(S.d[p]) /\ e = Home(S.d[p]))
  <2> SUFFICES ASSUME p[2] = "main", Forming(S.d[p]), e = Home(S.d[p]) PROVE FALSE
    OBVIOUS
  <2>1. \A m \in Msgs(S.n, e) : m.tag \in {"Peers", "ConnectTo", "Grouped", "Disconnect"}
    BY AskedHome
  <2> QED BY <2>1 DEF Says
<1> QED BY <1>1, ReadKept DEF InitData

-----------------------------------------------------------------------------
(* Who gives up uses no end it did not use; a round goes on as it was, or   *)
(* is over.                                                                 *)
Lean(d, c) == Uses(d) \subseteq Uses(c) /\ d.todo \in {c.todo, Idle}

LEMMA LeanTrans ==
  ASSUME NEW d, NEW c, NEW b, Lean(d, c), Lean(c, b) PROVE Lean(d, b)
BY DEF Lean

LEMMA LeanFields ==
  ASSUME NEW c \in DaemonType
  PROVE  /\ Lean(c, c) /\ Lean(Dead, c) /\ Lean(Blank(c), c)
         /\ Lean([c EXCEPT !.child = FALSE], c)
         /\ Lean([c EXCEPT !.wait = NoWait], c)
         /\ Lean([c EXCEPT !.wait = [NoWait EXCEPT !.on = "bury"]], c)
         /\ Lean([c EXCEPT !.todo = Idle], c)
         /\ \A m \in Mode : Lean([c EXCEPT !.mode = m], c)
<1>1. Dead.todo = Idle
  BY DEF Dead
<1>2. Blank(c).todo = c.todo
  BY DEF Blank, DaemonType
<1>3. [c EXCEPT !.child = FALSE].todo = c.todo /\ [c EXCEPT !.wait = NoWait].todo = c.todo
      /\ [c EXCEPT !.todo = Idle].todo = Idle
      /\ [c EXCEPT !.wait = [NoWait EXCEPT !.on = "bury"]].todo = c.todo
      /\ \A m \in Mode : [c EXCEPT !.mode = m].todo = c.todo
  BY DEF DaemonType
<1> DEFINE w == [NoWait EXCEPT !.on = "bury"]
<1>4. w \in WaitType /\ w.end = NoEnd /\ w.reply = NoEnd /\ w.lines = NoWait.lines
  BY ConstantsType DEF WaitType, NoWait
<1> HIDE DEF w
<1>5. Uses([c EXCEPT !.wait = w]) \subseteq Uses(c)
  BY <1>4, FieldUses
<1>6. /\ Uses(Dead) \subseteq Uses(c) /\ Uses(Blank(c)) \subseteq Uses(c)
      /\ Uses([c EXCEPT !.child = FALSE]) \subseteq Uses(c)
      /\ Uses([c EXCEPT !.wait = NoWait]) \subseteq Uses(c)
      /\ Uses([c EXCEPT !.todo = Idle]) \subseteq Uses(c)
      /\ \A m \in Mode : Uses([c EXCEPT !.mode = m]) \subseteq Uses(c)
  BY DeadUses, FieldUses
<1> QED BY <1>1, <1>2, <1>3, <1>5, <1>6 DEF Lean, w

LEMMA DieLean ==
  ASSUME NEW S \in Situation, NEW p \in Daemons, NEW q \in Daemons
  PROVE  Die(S, q) \in Situation /\ Lean(Die(S, q).d[p], S.d[p])
<1>1. Die(S, q).d = [S.d EXCEPT ![q] = Dead]
  BY DEF Die
<1>2. Die(S, q).d[p] = Dead \/ Die(S, q).d[p] = S.d[p]
  BY <1>1, Components
<1> QED BY <1>2, LeanFields, Components, DieType

LEMMA SetDefaultLean ==
  ASSUME NEW S \in Situation, NEW p \in Daemons, NEW wait \in BOOLEAN
  PROVE  SetDefault(S, p, wait) \in Situation /\ Lean(SetDefault(S, p, wait).d[p], S.d[p])
<1> DEFINE b == Blank(S.d[p])
           B == [S EXCEPT !.d[p] = b]
<1>1. b \in DaemonType /\ Lean(b, S.d[p]) /\ S.d \in [Daemons -> DaemonType]
  BY BlankType, LeanFields, Components
<1> HIDE DEF b
<1>2. B \in Situation /\ B.d[p] = b
  BY <1>1, SetProc DEF Situation
<1> HIDE DEF B
<1>3. SetDefault(S, p, wait) = WaitForChild(B, p, wait)
  BY <1>1 DEF SetDefault, B, b
<1>4. Lean(WaitForChild(B, p, wait).d[p], b)
  <2>1. CASE ~b.child
    BY <1>1, <1>2, <2>1, LeanFields DEF WaitForChild
  <2>2. CASE b.child /\ wait
    <3>1. WaitForChild(B, p, wait).d[p] = [b EXCEPT !.wait = [NoWait EXCEPT !.on = "bury"]]
      BY <1>2, <2>2 DEF WaitForChild, Situation
    <3> QED BY <1>1, <3>1, LeanFields
  <2>3. CASE b.child /\ ~wait
    <3> DEFINE U == [B EXCEPT !.d[p].child = FALSE]
    <3>1. U \in Situation
      BY <1>2, SituationWith
    <3>2. U.d[p] = [b EXCEPT !.child = FALSE]
      BY <1>2 DEF Situation
    <3> HIDE DEF U
    <3>3. WaitForChild(B, p, wait) = Die(U, Exec(p[1]))
      BY <1>2, <2>3 DEF WaitForChild, U
    <3>4. Lean(Die(U, Exec(p[1])).d[p], U.d[p])
      BY <3>1, DieLean, ProcsFacts
    <3> QED BY <1>1, <3>2, <3>3, <3>4, LeanFields, LeanTrans
  <2> QED BY <2>1, <2>2, <2>3
<1> QED BY <1>1, <1>3, <1>4, LeanTrans, SetDefaultType

LEMMA ResetLean ==
  ASSUME NEW S \in Situation, NEW p \in Daemons, NEW code \in Code
  PROVE  Reset(S, p, code) \in Situation /\ Lean(Reset(S, p, code).d[p], S.d[p])
<1> DEFINE n == SendEach(S.n, PeerLines(S.d[p]), Msg(code))
           U == [S EXCEPT !.n = n]
<1>1. n \in NetType
  BY Components, PeerLinesType, MsgIsMessage, SendEachType
<1> HIDE DEF n
<1>2. U \in Situation /\ U.d = S.d
  BY <1>1, SetNet DEF Situation
<1> HIDE DEF U
<1>3. Reset(S, p, code) = SetDefault(U, p, FALSE)
  BY DEF Reset, U, n
<1> QED BY <1>2, <1>3, SetDefaultLean

LEMMA FinishLean ==
  ASSUME NEW S \in Situation, NEW p \in Daemons
  PROVE  Finish(S, p) \in Situation /\ Lean(Finish(S, p).d[p], S.d[p])
<1> DEFINE c == S.d[p]
           b == [c EXCEPT !.mode = "exit"]
           a == [b EXCEPT !.todo = Idle]
           d == [a EXCEPT !.wait = NoWait]
<1>1. c \in DaemonType /\ S.d \in [Daemons -> DaemonType]
  BY Components
<1>2. b \in DaemonType /\ a \in DaemonType /\ d \in DaemonType
  BY <1>1, FieldTypes, ConstantsType DEF Mode
<1>3. Lean(b, c) /\ Lean(a, b) /\ Lean(d, a)
  BY <1>1, <1>2, LeanFields DEF Mode
<1>4. Finish(S, p).d = [S.d EXCEPT ![p] = Dead] \/ Finish(S, p).d = [S.d EXCEPT ![p] = d]
  <2>1. [S.d EXCEPT ![p].mode = "exit", ![p].todo = Idle, ![p].wait = NoWait] = [S.d EXCEPT ![p] = d]
    BY <1>1
  <2> QED BY <2>1 DEF Finish, Die
<1> HIDE DEF a, b, c, d
<1>5. Finish(S, p).d[p] = Dead \/ Finish(S, p).d[p] = d
  BY <1>1, <1>4
<1>6. Lean(d, c) /\ Lean(Dead, c)
  BY <1>1, <1>3, LeanTrans, LeanFields
<1> QED BY <1>5, <1>6, FinishType DEF c

LEMMA RaiseLean ==
  ASSUME NEW S \in Situation, NEW p \in Daemons
  PROVE  Raise(S, p) \in Situation /\ Lean(Raise(S, p).d[p], S.d[p])
<1> DEFINE c == S.d[p]
           b == [c EXCEPT !.wait = NoWait]
           d == [b EXCEPT !.todo = Idle]
           U == [S EXCEPT !.d[p].wait = NoWait, !.d[p].todo = Idle]
<1>1. c \in DaemonType /\ S.d \in [Daemons -> DaemonType]
  BY Components
<1>2. b \in DaemonType /\ d \in DaemonType
  BY <1>1, FieldTypes, ConstantsType
<1>3. U = [S EXCEPT !.d[p] = d] /\ U.d[p] = d
  BY <1>1 DEF Situation
<1>4. Lean(b, c) /\ Lean(d, b)
  BY <1>1, <1>2, LeanFields
<1>5. Lean(d, c)
  BY <1>4, LeanTrans
<1>6. U \in Situation
  BY <1>2, <1>3, SetProc
<1>7. Raise(S, p) \in {Reset(U, p, "Error"), Finish(U, p), Die(S, p)}
  BY DEF Raise
<1> HIDE DEF U, b, c, d
<1>8. /\ Lean(Reset(U, p, "Error").d[p], d) /\ Lean(Finish(U, p).d[p], d) /\ Lean(Die(S, p).d[p], c)
  BY <1>3, <1>6, ResetLean, FinishLean, DieLean, CodeFacts DEF c
<1> QED BY <1>5, <1>7, <1>8, LeanTrans, RaiseType DEF c

LEMMA AnswerLean ==
  ASSUME NEW S \in Situation, NEW p \in Daemons, NEW e, NEW code \in Code, NEW d \in DaemonType
  PROVE  /\ Answer(S, p, e, code, d) \in Situation
         /\ \/ Answer(S, p, e, code, d).d[p] = d
            \/ Lean(Answer(S, p, e, code, d).d[p], S.d[p])
         /\ Lean(d, S.d[p]) => Lean(Answer(S, p, e, code, d).d[p], S.d[p])
<1>1. Answer(S, p, e, code, d) = Raise(S, p) \/ Answer(S, p, e, code, d).d[p] = d
  BY Components DEF Answer
<1> QED BY <1>1, RaiseLean, AnswerType

-----------------------------------------------------------------------------
(* A free machine is enslaved: the line it was asked on is its home.        *)
Fresher(n, d, e) ==
  /\ Forming(d) /\ Home(d) = e /\ d.state = "Enslaved" /\ d.wait.on = "no"
  /\ n.box[e] = <<>>
  /\ n.hold[Other(e)] # {} => n.box[Other(e)] = <<Msg("OK")>>

(* The connection was taken from the backlog, its only message is Enslave.  *)
Accepted(S, p, e) ==
  /\ p[2] = "main" /\ S.d[p].state = "Free" => Uses(S.d[p]) = {} /\ S.d[p].wait = NoWait
  /\ e[2] = "far" /\ S.n.hold[e] = {p} /\ S.n.box[Other(e)] = <<>>
  /\ Len(S.n.box[e]) = 1 /\ e \notin Uses(S.d[p])

LEMMA OneMessage ==
  ASSUME NEW s \in Seq(Message), Len(s) = 1 PROVE s # <<>> /\ Tail(s) = <<>>
<1>1. s # <<>>
  OBVIOUS
<1>2. Tail(s) \in Seq(Message) /\ Len(Tail(s)) = 0
  BY <1>1
<1>3. \A t \in Seq(Message) : Len(t) = 0 => t = <<>>
  OBVIOUS
<1> QED BY <1>1, <1>2, <1>3

LEMMA AppendToNothing == \A m \in Message : Append(<<>>, m) = <<m>>
OBVIOUS

LEMMA FirstAnswer ==
  ASSUME NEW n \in NetType, NEW e \in End, Len(n.box[e]) = 1, n.box[Other(e)] = <<>>,
         NEW o, o = Send(Receive(n, e), e, Msg("OK"))
  PROVE  /\ o.box[e] = <<>> /\ o.hold = n.hold
         /\ o.box[Other(e)] = <<>> \/ o.box[Other(e)] = <<Msg("OK")>>
         /\ n.hold[Other(e)] # {} => o.box[Other(e)] = <<Msg("OK")>>
<1> DEFINE r == Receive(n, e)
<1>1. n.box[e] \in Seq(Message) /\ Other(e) \in End /\ Other(e) # e /\ Msg("OK") \in Message
  BY OtherIsEnd, MsgIsMessage, CodeFacts DEF NetType
<1>2. n.box[e] # <<>> /\ Tail(n.box[e]) = <<>>
  BY <1>1, OneMessage
<1>3. r \in NetType /\ r.hold = n.hold
  BY ReceiveType
<1>4. r.box[e] = <<>> /\ r.box[Other(e)] = <<>>
  BY <1>1, <1>2 DEF Receive, NetType
<1>5. Append(<<>>, Msg("OK")) = <<Msg("OK")>>
  BY <1>1, AppendToNothing
<1> HIDE DEF r
<1>6. o = Send(r, e, Msg("OK"))
  BY DEF r
<1>7. CASE Hung(r, e)
  <2>1. o = [r EXCEPT !.rst = r.rst \cup {e}]
    BY <1>6, <1>7 DEF Send
  <2> QED BY <1>3, <1>4, <1>7, <2>1 DEF NetType, Hung
<1>8. CASE ~Hung(r, e)
  <2>1. o = [r EXCEPT !.box[Other(e)] = Append(r.box[Other(e)], Msg("OK"))]
    BY <1>6, <1>8 DEF Send
  <2>2. o.hold = r.hold /\ o.box[e] = r.box[e]
    BY <1>1, <1>3, <2>1 DEF NetType
  <2>3. o.box[Other(e)] = Append(r.box[Other(e)], Msg("OK"))
    BY <1>1, <1>3, <2>1 DEF NetType
  <2> QED BY <1>3, <1>4, <1>5, <2>2, <2>3
<1> QED BY <1>7, <1>8

LEMMA EnslaveKept ==
  ASSUME NEW S, NEW p, NEW e, NEW A, NEW K, NEW F, NEW V, Asked(S, p, e, A, K, F, V),
         p[2] = "main", S.d[p].state = "Free" => p[1] \notin F, Accepted(S, p, e),
         NEW m \in Message, Says(S.n, e, {"Enslave"}), NEW late
  PROVE  LET T == Enslave(S, p, e, m, late)
         IN  /\ Kept(T, p, A, K, F, V)
             /\ \/ Lean(T.d[p], S.d[p])
                \/ ~Says(T.n, e, {"Enslave"}) /\ Fresher(T.n, T.d[p], e)
<1> DEFINE T == Consume(S, e)
           c == S.d[p]
           i == Insert(c, 0, OneLine(e))
           d == [i EXCEPT !.rank = m.arg, !.state = "Enslaved"]
           R == Enslave(S, p, e, m, late)
<1>1. /\ c \in DaemonType /\ Rec(p, c) /\ e \in End /\ S \in Situation /\ p \in Daemons
      /\ S.n \in NetType /\ T \in Situation /\ T.d = S.d
  BY AskedFacts, AskedWent
<1>2. CASE R = Refuse(S, p, e) \/ R = Raise(T, p)
  <2>1. Kept(R, p, A, K, F, V)
    BY <1>2, RefusedKept, RaiseKept
  <2>2. Lean(R.d[p], c)
    <3>1. Lean(Refuse(S, p, e).d[p], c)
      BY <1>1, AnswerLean, LeanFields, CodeFacts DEF Refuse
    <3>2. Lean(Raise(T, p).d[p], c)
      BY <1>1, RaiseLean
    <3> QED BY <1>2, <3>1, <3>2
  <2> QED BY <2>1, <2>2
<1>3. CASE c.state = "Free" /\ R = Answer(T, p, e, "OK", d) /\ ~Broken(T.n, e)
  <2> DEFINE U == [d |-> [T.d EXCEPT ![p] = d], n |-> Send(T.n, e, Msg("OK"))]
  <2>1. R = U
    BY <1>3 DEF Answer
  <2>2. Uses(c) = {} /\ c.wait = NoWait /\ c.line = NoLines /\ c.cache = NoLines
    BY <1>1, <1>3 DEF Accepted, Rec, MainRec
  <2>3. OneLine(e) \in [Chan -> Ends0]
    BY <1>1, OneLineType DEF Ends0
  <2>4. /\ i \in DaemonType /\ i.mode = c.mode /\ i.rope = c.rope /\ i.wait = c.wait
        /\ i.quit = c.quit /\ i.cache = c.cache
    BY <1>1, <2>3, InsertFields, InsertUses
  <2>5. Uses(i) \subseteq {e}
    BY <1>1, <2>2, OneLineUses
  <2>6. i.line[<<0, Master>>] = e
    <3>1. <<0, Master>> \in Spot /\ \A s \in Spot : NoLines[s] = NoEnd
      BY MasterIsChan, WireAssumption DEF Spot, Ranks, NoLines
    <3>2. i = [c EXCEPT !.line = [s \in Spot |-> IF s[1] = 0 THEN OneLine(e)[s[2]] ELSE c.line[s]]]
      BY <2>2, <3>1 DEF Insert
    <3>3. i.line[<<0, Master>>] = OneLine(e)[Master]
      BY <1>1, <3>1, <3>2 DEF DaemonType
    <3> QED BY <3>3, MasterIsChan DEF OneLine
  <2> HIDE DEF i
  <2>7. /\ d \in DaemonType /\ d.mode = i.mode /\ d.line = i.line /\ d.rope = i.rope
        /\ d.cache = i.cache /\ d.todo = i.todo /\ d.wait = i.wait /\ d.state = "Enslaved"
    BY <2>4, MessageWith DEF DaemonType, State
  <2> HIDE DEF d
  <2>8. Uses(d) \subseteq {e} /\ Home(d) = e /\ Forming(d) /\ d.wait = NoWait
    <3>1. Uses(d) = Uses(i)
      BY <2>7 DEF Uses, Refs
    <3>2. c.mode # "dead"
      BY DEF Asked
    <3> QED BY <2>2, <2>4, <2>5, <2>6, <2>7, <3>1, <3>2 DEF Home, Forming
  <2>9. Rec(p, d)
    <3>1. MainRec(d)
      <4>1. d.wait.on = "no"
        BY <2>8 DEF NoWait
      <4> QED BY <1>1, <2>2, <2>4, <2>7, <2>8, <4>1 DEF Rec, MainRec
    <3> QED BY <3>1 DEF Rec
  <2>10. Went(S, U, p, {e}, d, {e}, {"OK"})
    <3>1. "OK" \in Said /\ "OK" \in Code
      BY DEF Said, Code
    <3>2. Went(S, T, p, {e}, c, {e}, {"OK"})
      BY <3>1, AskedWent
    <3>3. Uses(d) \subseteq Mine(S, p, {e})
      BY <2>8 DEF Mine
    <3> QED BY <1>1, <2>7, <2>9, <3>1, <3>2, <3>3, WentSend
  <2> HIDE DEF U
  <2>11. /\ U.n.box[e] = <<>> /\ U.n.hold = S.n.hold
         /\ U.n.box[Other(e)] = <<>> \/ U.n.box[Other(e)] = <<Msg("OK")>>
         /\ S.n.hold[Other(e)] # {} => U.n.box[Other(e)] = <<Msg("OK")>>
    <3>1. U.n = Send(Receive(S.n, e), e, Msg("OK"))
      BY <1>1, Components DEF U, Consume, Situation
    <3> QED BY <1>1, <3>1, FirstAnswer DEF Accepted
  <2>12. Msgs(U.n, e) = {} /\ \A m1 \in Msgs(U.n, Other(e)) : m1.tag = "OK"
    BY <2>11 DEF Msgs, Msg
  <2>13. Wired(S, p, {e}, A, K, F, V) /\ F \in SUBSET Hosts
    BY AskedFacts
  <2>14. /\ Owned(S, p, {e}) /\ Queued(S, {e}, K) /\ Enslaving(S, p, A) /\ Emptied(S)
         /\ Joining(S) /\ Formed(S, p, {e}) /\ Records(S) /\ Frozen(S, F, V)
    BY <2>13, WiredOwned
  <2>15. FormOk(U.n, d, p, {})
    <3>1. e[2] = "far" /\ U.n.hold[e] = {p} /\ U.n.hold[Other(e)] \cap Daemons = {}
      BY <1>1, <2>11, <2>14 DEF Accepted, Enslaving
    <3>2. d.wait.on # "line"
      BY <2>8 DEF NoWait
    <3> QED BY <1>1, <2>8, <2>12, <3>1, <3>2 DEF FormOk
  <2>16. Moved(S, U, p, {e}, d, {}, {e}, {"OK"})
    BY <2>10 DEF Went
  <2>17. Kept(U, p, A, K, F, V)
    <3>1. Owned(U, p, {}) /\ Queued(U, {}, K) /\ Enslaving(U, p, A)
      BY <1>1, <2>14, <2>16, MovedOwned, MovedQueued, MovedEnslaving
    <3>2. Emptied(U) /\ Joining(U)
      BY <1>1, <2>14, <2>16, MovedEmptied, MovedJoining
    <3>3. Formed(U, p, {}) /\ Records(U)
      BY <1>1, <2>9, <2>14, <2>15, <2>16, MovedFormed, MovedRecords
    <3>4. Frozen(U, F, V)
      BY <1>1, <1>3, <2>13, <2>14, <2>16, MovedFrozen
    <3> QED BY <2>16, <3>1, <3>2, <3>3, <3>4 DEF Kept, Wired, Moved
  <2>18. U.d[p] = d
    BY <1>1, <2>10, WentRecord
  <2>19. ~Says(U.n, e, {"Enslave"}) /\ Fresher(U.n, d, e)
    <3>1. d.state = "Enslaved" /\ d.wait.on = "no"
      BY <2>7, <2>8 DEF NoWait
    <3> QED BY <2>8, <2>11, <2>12, <3>1 DEF Says, Fresher
  <2> QED BY <2>1, <2>17, <2>18, <2>19
<1>4. R = Refuse(S, p, e) \/ R = Raise(T, p)
      \/ (c.state = "Free" /\ R = Answer(T, p, e, "OK", d) /\ ~Broken(T.n, e))
  BY DEF Enslave, Answer
<1> QED BY <1>2, <1>3, <1>4
-----------------------------------------------------------------------------
(* A process connects: a free line is used, and waits to be accepted.       *)
LEMMA FreeLineEnds ==
  ASSUME NEW n \in NetType, FreeLines(n) # {}, NEW l, l = NewLine(n)
  PROVE  /\ l \in Lines
         /\ <<l, "near">> \in End /\ <<l, "far">> \in End
         /\ Other(<<l, "near">>) = <<l, "far">> /\ Other(<<l, "far">>) = <<l, "near">>
         /\ n.hold[<<l, "near">>] = {} /\ n.hold[<<l, "far">>] = {}
         /\ \A x \in End : x # <<l, "near">> /\ x # <<l, "far">> =>
              Other(x) # <<l, "near">> /\ Other(x) # <<l, "far">>
<1>1. l \in FreeLines(n)
  BY DEF NewLine
<1>2. l \in Lines
  BY <1>1 DEF FreeLines
<1>3. <<l, "near">> \in End /\ <<l, "far">> \in End
  BY <1>2 DEF End
<1>4. Other(<<l, "near">>) = <<l, "far">> /\ Other(<<l, "far">>) = <<l, "near">>
  BY DEF Other
<1>5. n.hold[<<l, "near">>] = {} /\ n.hold[<<l, "far">>] = {}
  BY <1>1 DEF FreeLines
<1>6. \A x \in End : x # <<l, "near">> /\ x # <<l, "far">> =>
        Other(x) # <<l, "near">> /\ Other(x) # <<l, "far">>
  BY <1>4, OtherIsEnd
<1> QED BY <1>2, <1>3, <1>4, <1>5, <1>6

Plugged(n, o, l, who, h, m) ==
  /\ \A x \in End : x # <<l, "near">> /\ x # <<l, "far">> =>
       o.hold[x] = n.hold[x] /\ o.box[x] = n.box[x]
  /\ o.hold[<<l, "near">>] = who /\ o.hold[<<l, "far">>] = {Main(h)}
  /\ o.box[<<l, "near">>] = n.box[<<l, "near">>] /\ o.box[<<l, "far">>] = <<m>>
  /\ o.ear[h] = Append(n.ear[h], <<l, "far">>)
  /\ \A g \in Hosts : g # h => o.ear[g] = n.ear[g]

LEMMA ConnectFacts ==
  ASSUME NEW n \in NetType, FreeLines(n) # {}, NEW l, l = NewLine(n), NEW who \in SUBSET Procs,
         NEW h \in Hosts, NEW m \in Message, NEW o, o = Connect(n, l, who, h, m)
  PROVE  o \in NetType /\ Plugged(n, o, l, who, h, m)
<1>1. l \in Lines /\ <<l, "near">> \in End /\ <<l, "far">> \in End
  BY FreeLineEnds
<1>2. o \in NetType
  BY <1>1, ConnectType
<1>3. /\ o.hold = [n.hold EXCEPT ![<<l, "near">>] = who, ![<<l, "far">>] = {Main(h)}]
      /\ o.box = [n.box EXCEPT ![<<l, "far">>] = <<m>>]
      /\ o.ear = [n.ear EXCEPT ![h] = Append(n.ear[h], <<l, "far">>)]
  BY DEF Connect, NetType
<1>4. /\ n.hold \in [End -> SUBSET Procs] /\ n.box \in [End -> Seq(Message)]
      /\ n.ear \in [Hosts -> Seq(End)]
  BY DEF NetType
<1>5. <<l, "near">> # <<l, "far">>
  OBVIOUS
<1> QED BY <1>1, <1>2, <1>3, <1>4, <1>5 DEF Plugged

(* The backlog of h with one more connection.                               *)
LEMMA QueueMore ==
  ASSUME NEW s \in Seq(End), NEW e \in End
  PROVE  LET t == Append(s, e)
         IN /\ {t[i] : i \in DOMAIN t} = {s[i] : i \in DOMAIN s} \cup {e}
            /\ \/ e \in {s[i] : i \in DOMAIN s}
               \/ \E i, j \in DOMAIN s : s[i] = s[j] /\ i # j
               \/ \A i, j \in DOMAIN t : t[i] = t[j] => i = j
<1> DEFINE t == Append(s, e)
<1>1. DOMAIN t = DOMAIN s \cup {Len(s) + 1} /\ Len(s) + 1 \notin DOMAIN s
  OBVIOUS
<1>2. t[Len(s) + 1] = e /\ \A i \in DOMAIN s : t[i] = s[i]
  OBVIOUS
<1> HIDE DEF t
<1>3. {t[i] : i \in DOMAIN t} = {s[i] : i \in DOMAIN s} \cup {e}
  BY <1>1, <1>2
<1>4. ASSUME e \notin {s[i] : i \in DOMAIN s}, \A i, j \in DOMAIN s : s[i] = s[j] => i = j,
             NEW i \in DOMAIN t, NEW j \in DOMAIN t, t[i] = t[j]
      PROVE  i = j
  BY <1>1, <1>2, <1>4
<1> QED BY <1>3, <1>4 DEF t
(* Process who of connects to h and sends m.                                *)
Links(S, U, A, l, who, h, m) ==
  /\ S \in Situation /\ FreeLines(S.n) # {} /\ l = NewLine(S.n)
  /\ who \in SUBSET Procs /\ h \in Hosts /\ m \in Message
  /\ U = [S EXCEPT !.n = Connect(S.n, l, who, h, m)]
  /\ m.tag \notin ClientCode
  /\ m.tag = "Enslave" => A = {} /\ who \cap Daemons = {}
  /\ m.tag \in {"Join", "DataLine"} => who \cap Clients = {}
  /\ m.tag = "DataLine" => m.chan # Master

Linked(S, U, l, who, h, m) ==
  /\ S \in Situation /\ U \in Situation /\ U.d = S.d /\ S.n \in NetType /\ U.n \in NetType
  /\ h \in Hosts /\ m \in Message
  /\ <<l, "near">> \in End /\ <<l, "far">> \in End
  /\ Other(<<l, "near">>) = <<l, "far">> /\ Other(<<l, "far">>) = <<l, "near">>
  /\ S.n.hold[<<l, "near">>] = {} /\ S.n.hold[<<l, "far">>] = {}
  /\ \A x \in End : x # <<l, "near">> /\ x # <<l, "far">> =>
       /\ Other(x) # <<l, "near">> /\ Other(x) # <<l, "far">> /\ Other(x) \in End
       /\ U.n.hold[x] = S.n.hold[x] /\ U.n.box[x] = S.n.box[x]
  /\ U.n.hold[<<l, "near">>] = who /\ U.n.hold[<<l, "far">>] = {Main(h)}
  /\ U.n.box[<<l, "near">>] = S.n.box[<<l, "near">>] /\ U.n.box[<<l, "far">>] = <<m>>
  /\ U.n.ear[h] = Append(S.n.ear[h], <<l, "far">>)
  /\ \A g \in Hosts : g # h => U.n.ear[g] = S.n.ear[g]

LEMMA LinkNet ==
  ASSUME NEW S, NEW U, NEW A, NEW l, NEW who, NEW h, NEW m, Links(S, U, A, l, who, h, m)
  PROVE  Linked(S, U, l, who, h, m)
<1> DEFINE o == Connect(S.n, l, who, h, m)
<1>1. /\ S \in Situation /\ S.n \in NetType /\ FreeLines(S.n) # {} /\ l = NewLine(S.n)
      /\ who \in SUBSET Procs /\ h \in Hosts /\ m \in Message
  BY Components DEF Links
<1>2. o \in NetType
  BY <1>1, ConnectFacts
<1>3. U = [S EXCEPT !.n = o]
  BY DEF Links
<1>4. U \in Situation /\ U.n = o /\ U.d = S.d
  <2> HIDE DEF o
  <2> QED BY <1>1, <1>2, <1>3 DEF Situation
<1>5. Plugged(S.n, o, l, who, h, m)
  BY <1>1, ConnectFacts
<1> HIDE DEF o
<1>6. /\ <<l, "near">> \in End /\ <<l, "far">> \in End
      /\ Other(<<l, "near">>) = <<l, "far">> /\ Other(<<l, "far">>) = <<l, "near">>
      /\ S.n.hold[<<l, "near">>] = {} /\ S.n.hold[<<l, "far">>] = {}
      /\ \A x \in End : x # <<l, "near">> /\ x # <<l, "far">> =>
              Other(x) # <<l, "near">> /\ Other(x) # <<l, "far">>
  BY <1>1, FreeLineEnds
<1> QED BY <1>1, <1>2, <1>4, <1>5, <1>6, OtherIsEnd DEF Linked, Plugged

LEMMA LinkQueue ==
  ASSUME NEW S, NEW U, NEW l, NEW who, NEW h, NEW m, Linked(S, U, l, who, h, m),
         NEW X, NEW K, Queued(S, X, K)
  PROVE  /\ Queue(U.n, h) = Queue(S.n, h) \cup {<<l, "far">>}
         /\ \A i, j \in DOMAIN U.n.ear[h] : U.n.ear[h][i] = U.n.ear[h][j] => i = j
         /\ \A g \in Hosts : g # h => Queue(U.n, g) = Queue(S.n, g)
         /\ \A g \in Hosts : <<l, "far">> \notin Queue(S.n, g) /\ <<l, "near">> \notin Queue(S.n, g)
<1>1. S.n.ear[h] \in Seq(End) /\ <<l, "far">> \in End /\ h \in Hosts
  BY DEF Linked, NetType
<1>2. U.n.ear[h] = Append(S.n.ear[h], <<l, "far">>)
  BY DEF Linked
<1>3. S.n.hold[<<l, "near">>] = {} /\ S.n.hold[<<l, "far">>] = {}
  BY DEF Linked
<1>4. \A g \in Hosts : <<l, "far">> \notin Queue(S.n, g) /\ <<l, "near">> \notin Queue(S.n, g)
  BY <1>3 DEF Queued
<1>5. \A i, j \in DOMAIN S.n.ear[h] : S.n.ear[h][i] = S.n.ear[h][j] => i = j
  BY <1>1 DEF Queued
<1>6. /\ Queue(U.n, h) = Queue(S.n, h) \cup {<<l, "far">>}
      /\ \A i, j \in DOMAIN U.n.ear[h] : U.n.ear[h][i] = U.n.ear[h][j] => i = j
  <2> DEFINE s == S.n.ear[h]
             t == U.n.ear[h]
  <2>1. s \in Seq(End) /\ t = Append(s, <<l, "far">>) /\ <<l, "far">> \in End
    BY <1>1, <1>2
  <2>2. <<l, "far">> \notin {s[i] : i \in DOMAIN s} /\ \A i, j \in DOMAIN s : s[i] = s[j] => i = j
    BY <1>1, <1>4, <1>5 DEF Queue
  <2> HIDE DEF s, t
  <2>3. /\ {t[i] : i \in DOMAIN t} = {s[i] : i \in DOMAIN s} \cup {<<l, "far">>}
        /\ \A i, j \in DOMAIN t : t[i] = t[j] => i = j
    <3>1. LET y == Append(s, <<l, "far">>)
          IN /\ {y[i] : i \in DOMAIN y} = {s[i] : i \in DOMAIN s} \cup {<<l, "far">>}
             /\ \/ <<l, "far">> \in {s[i] : i \in DOMAIN s}
                \/ \E i, j \in DOMAIN s : s[i] = s[j] /\ i # j
                \/ \A i, j \in DOMAIN y : y[i] = y[j] => i = j
      BY <2>1, QueueMore
    <3> QED BY <2>1, <2>2, <3>1
  <2> QED BY <2>3 DEF s, t, Queue
<1>7. \A g \in Hosts : g # h => Queue(U.n, g) = Queue(S.n, g)
  BY DEF Linked, Queue
<1> QED BY <1>4, <1>6, <1>7

LEMMA LinkWired ==
  ASSUME NEW S, NEW U, NEW A, NEW l, NEW who, NEW h, NEW m, Links(S, U, A, l, who, h, m),
         NEW p \in Daemons, NEW K, \A x \in K : S.n.hold[x] # {},
         NEW F \in SUBSET Hosts, NEW V, Wired(S, p, {}, A, K, F, V)
  PROVE  /\ Wired(U, p, {}, A, K, F, V)
         /\ \A x \in Uses(S.d[p]) : x # <<l, "near">> /\ x # <<l, "far">>
<1> DEFINE near == <<l, "near">>
           far == <<l, "far">>
           new == {near, far}
<1>0. Linked(S, U, l, who, h, m)
  BY LinkNet
<1>1. /\ Owned(S, p, {}) /\ Queued(S, {}, K) /\ Enslaving(S, p, A) /\ Emptied(S)
      /\ Joining(S) /\ Formed(S, p, {}) /\ Records(S) /\ Frozen(S, F, V)
  BY WiredOwned
<1>2. /\ S \in Situation /\ U \in Situation /\ U.d = S.d /\ S.n \in NetType /\ U.n \in NetType
      /\ h \in Hosts /\ m \in Message /\ near \in End /\ far \in End
  BY <1>0 DEF Linked
<1>3. \A x \in End : x \notin new =>
         /\ Other(x) \notin new /\ Other(x) \in End
         /\ U.n.hold[x] = S.n.hold[x] /\ U.n.box[x] = S.n.box[x]
  BY <1>0 DEF Linked
<1>4. /\ Other(near) = far /\ Other(far) = near /\ near # far
      /\ S.n.hold[near] = {} /\ S.n.hold[far] = {}
      /\ U.n.hold[near] = who /\ U.n.hold[far] = {Main(h)}
      /\ U.n.box[near] = S.n.box[near] /\ U.n.box[far] = <<m>>
  BY <1>0 DEF Linked
<1>5. U.n.box[near] = <<>>
  BY <1>1, <1>2, <1>4 DEF Emptied
<1>6. /\ Queue(U.n, h) = Queue(S.n, h) \cup {far}
      /\ \A i, j \in DOMAIN U.n.ear[h] : U.n.ear[h][i] = U.n.ear[h][j] => i = j
      /\ \A g \in Hosts : g # h => Queue(U.n, g) = Queue(S.n, g) /\ U.n.ear[g] = S.n.ear[g]
      /\ \A g \in Hosts : far \notin Queue(S.n, g) /\ near \notin Queue(S.n, g)
  <2>1. \A g \in Hosts : g # h => U.n.ear[g] = S.n.ear[g]
    BY <1>0 DEF Linked
  <2> QED BY <1>0, <1>1, <2>1, LinkQueue
<1>7. /\ m.tag \notin ClientCode
      /\ m.tag = "Enslave" => A = {} /\ who \cap Daemons = {}
      /\ m.tag \in {"Join", "DataLine"} => who \cap Clients = {}
      /\ m.tag = "DataLine" => m.chan # Master
  BY DEF Links
<1>8. /\ Msgs(U.n, far) = {m} /\ Msgs(U.n, near) = {}
      /\ \A x \in End : x \notin new => Msgs(U.n, x) = Msgs(S.n, x)
  <2>1. \A x \in End : x \notin new => Msgs(U.n, x) = Msgs(S.n, x)
    BY <1>3, SameMsgs
  <2>2. Msgs(U.n, near) = {}
    BY <1>5, NoMsgs
  <2>3. Msgs(U.n, far) = {m}
    BY <1>4 DEF Msgs
  <2> QED BY <2>1, <2>2, <2>3
<1>9. \A q \in Daemons : \A x \in Uses(S.d[q]) : x \in End /\ x \notin new
  <2>1. \A q \in Daemons : Uses(S.d[q]) \subseteq End
    BY <1>2, Components, UsesType
  <2> QED BY <1>1, <1>4, <2>1 DEF Owned
<1> HIDE DEF near, far
<1>10. \A x \in End : \A D :
         /\ x \notin new => Says(U.n, x, D) = Says(S.n, x, D)
         /\ Says(U.n, far, D) => m.tag \in D
         /\ ~Says(U.n, near, D)
  BY <1>8 DEF Says
<1> HIDE DEF new
<1>11. Owned(U, p, {})
  BY <1>1, <1>2, <1>3, <1>9 DEF Owned
<1>12. Queued(U, {}, K)
  <2>1. ASSUME NEW g \in Hosts, NEW e \in Queue(U.n, g), e # far
        PROVE  /\ e[2] = "far" /\ U.n.hold[e] = {Main(g)}
               /\ e \notin Uses(U.d[Main(g)]) /\ e \notin {}
               /\ Other(e) \notin K /\ U.n.box[Other(e)] = <<>>
               /\ ~Says(U.n, e, ClientCode)
    <3>1. e \in Queue(S.n, g)
      BY <1>6, <2>1
    <3>2. e \in End /\ e \notin new
      BY <1>2, <1>6, <3>1, QueueEnds DEF new
    <3> QED BY <1>1, <1>2, <1>3, <1>10, <3>1, <3>2 DEF Queued
  <2>2. ASSUME NEW g \in Hosts, NEW e \in Queue(U.n, g), e = far
        PROVE  /\ e[2] = "far" /\ U.n.hold[e] = {Main(g)}
               /\ e \notin Uses(U.d[Main(g)]) /\ e \notin {}
               /\ Other(e) \notin K /\ U.n.box[Other(e)] = <<>>
               /\ ~Says(U.n, e, ClientCode)
    <3>1. g = h
      BY <1>6, <2>2
    <3>2. Main(h) \in Daemons /\ far[2] = "far"
      BY <1>2, ProcsFacts DEF far
    <3>3. far \in new
      BY DEF new
    <3> QED BY <1>2, <1>4, <1>5, <1>7, <1>9, <1>10, <2>2, <3>1, <3>2, <3>3
  <2>3. \A g \in Hosts : \A i, j \in DOMAIN U.n.ear[g] : U.n.ear[g][i] = U.n.ear[g][j] => i = j
    BY <1>1, <1>6 DEF Queued
  <2> QED BY <2>1, <2>2, <2>3 DEF Queued
<1>13. Enslaving(U, p, A)
  <2> SUFFICES ASSUME NEW e \in End, Says(U.n, e, {"Enslave"})
               PROVE  /\ U.n.hold[Other(e)] \cap Daemons = {}
                      /\ IF e \in A THEN U.n.hold[e] \subseteq {p}
                         ELSE Len(U.n.box[e]) = 1 /\ \E g \in Hosts : e \in Queue(U.n, g)
    BY DEF Enslaving
  <2>1. CASE e \in new
    <3>1. e = far /\ m.tag = "Enslave"
      BY <1>10, <2>1 DEF new
    <3>2. e \in Queue(U.n, h) /\ Len(U.n.box[e]) = 1
      BY <1>2, <1>4, <1>6, <3>1
    <3> QED BY <1>2, <1>4, <1>7, <3>1, <3>2
  <2>2. CASE e \notin new
    <3>1. Says(S.n, e, {"Enslave"})
      BY <1>10, <2>2
    <3>2. \A g \in Hosts : e \in Queue(S.n, g) => e \in Queue(U.n, g)
      BY <1>6
    <3> QED BY <1>1, <1>3, <2>2, <3>1, <3>2 DEF Enslaving
  <2> QED BY <2>1, <2>2
<1>14. Emptied(U)
  <2>1. \A e \in End : e \notin new => (U.n.hold[e] = {} => U.n.box[e] = <<>>)
    BY <1>1, <1>3 DEF Emptied
  <2>2. U.n.hold[far] # {}
    BY <1>4
  <2> QED BY <1>5, <2>1, <2>2 DEF Emptied, new
<1>15. \A x \in End : x \notin new => (Peer(S.n, x) => Peer(U.n, x))
  BY <1>3, <1>10 DEF Peer
<1>16. Joining(U)
  <2> SUFFICES ASSUME NEW e \in End
               PROVE  /\ Says(U.n, e, {"Join", "DataLine"}) => Peer(U.n, e)
                      /\ \A j \in Msgs(U.n, e) : j.tag = "DataLine" => j.chan # Master
    BY DEF Joining
  <2>1. CASE e \notin new
    BY <1>1, <1>8, <1>10, <1>15, <2>1 DEF Joining
  <2>2. CASE e = near
    BY <1>8, <1>10, <2>2
  <2>3. CASE e = far
    BY <1>4, <1>7, <1>8, <1>10, <2>3 DEF Peer
  <2> QED BY <2>1, <2>2, <2>3 DEF new
<1>17. \A q \in Daemons : FormOk(S.n, S.d[q], q, {}) => FormOk(U.n, S.d[q], q, {})
                          /\ (Forming(S.d[q]) => View(U.n, S.d[q]) = View(S.n, S.d[q]))
  <2> SUFFICES ASSUME NEW q \in Daemons, FormOk(S.n, S.d[q], q, {}), Forming(S.d[q])
               PROVE  FormOk(U.n, S.d[q], q, {}) /\ View(U.n, S.d[q]) = View(S.n, S.d[q])
    BY DEF FormOk
  <2> DEFINE d == S.d[q]
             e == Home(d)
  <2>1. e \in End /\ S.n.hold[e] = {q}
    BY DEF FormOk
  <2>2. e \notin new
    BY <1>4, <2>1 DEF new
  <2>3. Other(e) \notin new /\ Other(e) \in End
    BY <1>3, <2>1, <2>2
  <2>4. /\ U.n.hold[e] = S.n.hold[e] /\ U.n.box[e] = S.n.box[e] /\ Msgs(U.n, e) = Msgs(S.n, e)
        /\ U.n.hold[Other(e)] = S.n.hold[Other(e)] /\ U.n.box[Other(e)] = S.n.box[Other(e)]
        /\ Msgs(U.n, Other(e)) = Msgs(S.n, Other(e))
    BY <1>3, <1>8, <2>1, <2>2, <2>3
  <2>5. \A x \in Uses(d) \ {e} : Peer(S.n, x) => Peer(U.n, x)
    BY <1>9, <1>15
  <2>6. FormOk(U.n, d, q, {})
    BY <2>4, <2>5 DEF FormOk
  <2>7. View(U.n, d) = View(S.n, d)
    BY <2>4 DEF View
  <2> QED BY <2>6, <2>7
<1>18. Formed(U, p, {})
  BY <1>1, <1>2, <1>17, ProcsFacts DEF Formed
<1>22. ASSUME NEW x \in End, S.n.hold[x] # {} PROVE U.n.hold[x] = S.n.hold[x]
  <2>1. x \notin new
    BY <1>4, <1>22 DEF new
  <2> QED BY <1>3, <2>1
<1>21. Lent(U.n, V)
  <2>1. Lent(S.n, V)
    BY <1>1 DEF Frozen
  <2> QED BY <1>22, <2>1 DEF Lent
<1>19. Frozen(U, F, V)
  <2> SUFFICES ASSUME NEW g \in F, Forming(U.d[Main(g)]) PROVE View(U.n, U.d[Main(g)]) = V.view[g]
    BY <1>21 DEF Frozen, Seen
  <2>1. g \in Hosts /\ Main(g) \in Daemons
    BY ProcsFacts
  <2>2. FormOk(S.n, S.d[Main(g)], Main(g), {})
    BY <1>1, <2>1 DEF Formed
  <2> QED BY <1>1, <1>2, <1>17, <2>1, <2>2 DEF Frozen, Seen
<1>20. Records(U)
  BY <1>1, <1>2 DEF Records
<1> QED BY <1>9, <1>11, <1>12, <1>13, <1>14, <1>16, <1>18, <1>19, <1>20 DEF Wired, near, far, new
(* p handles an end it holds.                                               *)
LEMMA AlsoHolds ==
  ASSUME NEW S \in Situation, NEW p \in Daemons, NEW A, NEW K, NEW F, NEW V, Wired(S, p, {}, A, K, F, V),
         NEW x \in End, p \in S.n.hold[x], \A h \in Hosts : x \notin Queue(S.n, h),
         p[2] = "main" /\ Forming(S.d[p]) => x = Home(S.d[p]) \/ ~Says(S.n, x, ClientCode)
  PROVE  Wired(S, p, {x}, A, K, F, V)
<1>1. /\ Owned(S, p, {}) /\ Queued(S, {}, K) /\ Enslaving(S, p, A) /\ Emptied(S)
      /\ Joining(S) /\ Formed(S, p, {}) /\ Records(S) /\ Frozen(S, F, V)
  BY WiredOwned
<1>2. Owned(S, p, {x})
  BY <1>1 DEF Owned
<1>3. Queued(S, {x}, K)
  BY <1>1 DEF Queued
<1>4. Formed(S, p, {x})
  <2> SUFFICES ASSUME NEW h \in Hosts, Main(h) = p
               PROVE  FormOk(S.n, S.d[Main(h)], Main(h), {x})
    BY <1>1 DEF Formed
  <2>1. FormOk(S.n, S.d[Main(h)], Main(h), {})
    BY <1>1 DEF Formed
  <2>2. p[2] = "main"
    BY DEF Main
  <2> QED BY <2>1, <2>2 DEF FormOk
<1> QED BY <1>1, <1>2, <1>3, <1>4 DEF Wired

(* What the handler waits with while it connects.                           *)
Linking(w, k) == [w EXCEPT !.on = "line", !.chan = k, !.end = NoEnd]
LinkRec(d, w, k) == [d EXCEPT !.wait = Linking(w, k)]
LinkMsg(d, k) == [MsgArg(IF k = Master THEN "Join" ELSE "DataLine", d.rank) EXCEPT !.chan = k]

LEMMA LinkMsgFacts ==
  ASSUME NEW d \in DaemonType, NEW k \in Chan, NEW m, m = LinkMsg(d, k)
  PROVE  /\ m \in Message /\ m.tag \in {"Join", "DataLine"} /\ m.tag \notin ClientCode
         /\ m.tag # "Enslave" /\ (m.tag = "DataLine" => m.chan # Master)
<1>1. d.rank \in Nat
  BY DEF DaemonType
<1>2. MsgArg(IF k = Master THEN "Join" ELSE "DataLine", d.rank) \in Message
  BY <1>1, MsgArgIsMessage, CodeFacts
<1>3. m \in Message
  BY <1>2, MessageWith DEF LinkMsg
<1>4. m.tag = IF k = Master THEN "Join" ELSE "DataLine"
  BY <1>2 DEF LinkMsg, MsgArg, Msg
<1>5. m.chan = k
  BY <1>2 DEF LinkMsg, Message
<1> QED BY <1>3, <1>4, <1>5 DEF ClientCode

LEMMA WaitFields ==
  ASSUME NEW d \in DaemonType, NEW w \in WaitType, NEW v, v = [d EXCEPT !.wait = w]
  PROVE  /\ v \in DaemonType /\ v.wait = w /\ v.state = d.state /\ v.mode = d.mode
         /\ v.line = d.line /\ v.cache = d.cache /\ v.todo = d.todo /\ v.rope = d.rope
         /\ v.quit = d.quit /\ Home(v) = Home(d)
BY FieldTypes DEF DaemonType, Home

LEMMA WaitUses ==
  ASSUME NEW d \in DaemonType, NEW w \in WaitType, NEW v, v = [d EXCEPT !.wait = w]
  PROVE  /\ Uses(v) \subseteq Uses(d) \cup (({w.end, w.reply} \cup {w.lines[k] : k \in Chan}) \ {NoEnd})
         /\ (Uses(d) \ (({d.wait.end, d.wait.reply} \cup {d.wait.lines[k] : k \in Chan}) \ {NoEnd}))
              \subseteq Uses(v)
<1>1. /\ v.wait = w /\ v.line = d.line /\ v.cache = d.cache /\ v.todo = d.todo /\ v.rope = d.rope
  BY WaitFields
<1> QED BY <1>1 DEF Uses, Refs
(* p waits on the end of a new line.                                        *)
LEMMA GrabWired ==
  ASSUME NEW S \in Situation, NEW p \in Daemons, NEW A, NEW K, NEW F \in SUBSET Hosts, NEW V,
         Wired(S, p, {}, A, K, F, V), S.d[p].wait.on = "line",
         NEW x \in End, x[2] = "near", p \in S.n.hold[x], Peer(S.n, x),
         NEW w, w = [S.d[p].wait EXCEPT !.end = x],
         NEW U, U = [S EXCEPT !.d[p].wait = w]
  PROVE  U \in Situation /\ Wired(U, p, {}, A, K, F, V)
<1> DEFINE c == S.d[p]
           d == [c EXCEPT !.wait = w]
<1>1. c \in DaemonType /\ c.wait \in WaitType /\ x \in Ends0
  BY Components DEF DaemonType, Ends0
<1>2. /\ w \in WaitType /\ w.on = "line" /\ w.end = x /\ w.reply = c.wait.reply
      /\ w.lines = c.wait.lines
  BY <1>1 DEF WaitType
<1> HIDE DEF c
<1>3. /\ d \in DaemonType /\ d.wait = w /\ d.state = c.state /\ d.mode = c.mode
      /\ d.line = c.line /\ d.cache = c.cache /\ d.todo = c.todo /\ d.rope = c.rope
      /\ d.quit = c.quit /\ Home(d) = Home(c)
  BY <1>1, <1>2, WaitFields
<1> HIDE DEF d
<1>4. Uses(d) \subseteq Uses(c) \cup {x}
  BY <1>2, <1>3 DEF Uses, Refs
<1>5. /\ Owned(S, p, {}) /\ Queued(S, {}, K) /\ Formed(S, p, {}) /\ Records(S)
  BY WiredOwned
<1>6. Wired(S, p, {x}, A, K, F, V)
  <2>1. \A h \in Hosts : x \notin Queue(S.n, h)
    BY <1>5 DEF Queued
  <2> QED BY <2>1, AlsoHolds DEF Peer
<1>7. Rec(p, d)
  <2>1. Rec(p, c)
    BY <1>5, MainOrExec, ProcsFacts DEF c, Rec, Records
  <2>2. MainRec(c) => MainRec(d)
    BY <1>2, <1>3 DEF MainRec, c
  <2>3. ExecRec(c) => ExecRec(d)
    BY <1>3 DEF ExecRec
  <2> QED BY <2>1, <2>2, <2>3 DEF Rec
<1>8. Went(S, U, p, {x}, d, {}, {})
  <2>1. Went(S, S, p, {x}, c, {}, {})
    BY <1>5, WentStart DEF c
  <2>2. Uses(d) \subseteq Mine(S, p, {x})
    BY <1>4 DEF Mine, c
  <2>3. U = [S EXCEPT !.d[p] = d]
    BY <1>1, Components DEF d, c, Situation
  <2> QED BY <1>3, <1>7, <2>1, <2>2, <2>3, WentSet
<1>9. Goes(S, p, {x}, d, {}, {}, F)
  <2> SUFFICES ASSUME p[2] = "main", Forming(d)
               PROVE  /\ Serves(S.n, c, {x}, d, {}, {}, {})
                      /\ d.wait.on = "line" <=> c.wait.on = "line"
                      /\ d.state = c.state
    BY <1>3 DEF Goes, c
  <2>1. FormOk(S.n, c, p, {}) /\ Forming(c)
    BY <1>3, <1>5, MainOrExec, ProcsFacts DEF Formed, Forming, c
  <2>2. Uses(c) \subseteq End
    BY <1>1, UsesType
  <2>3. \A y \in Uses(d) \ {Home(c)} : y \in End /\ Peer(S.n, y)
    BY <1>4, <2>1, <2>2 DEF FormOk
  <2>4. c.wait.on = "line" /\ c.wait.reply = Home(c)
    BY <2>1 DEF FormOk, c
  <2> QED BY <1>2, <1>3, <2>1, <2>3, <2>4 DEF Serves
<1>10. U \in Situation
  BY <1>8, WentRecord
<1> QED BY <1>6, <1>8, <1>9, <1>10, WentWired

LEMMA ConnectLineWired ==
  ASSUME NEW S \in Situation, NEW p \in Daemons, NEW X, NEW A, NEW K, NEW F \in SUBSET Hosts, NEW V,
         Wired(S, p, X, A, K, F, V), \A x \in K : S.n.hold[x] # {},
         NEW T, NEW c, NEW M, NEW C, Went(S, T, p, X, c, M, C), FreeLines(T.n) # {},
         NEW k \in Chan, NEW w \in WaitType, NEW b, b = LinkRec(c, w, k),
         Rec(p, b), Uses(b) \subseteq Mine(S, p, X), Goes(S, p, X, b, M, C, F)
  PROVE  /\ ConnectLine(T, p, k, w) \in Situation
         /\ Wired(ConnectLine(T, p, k, w), p, {}, A, K, F, V)
<1>1. /\ T \in Situation /\ T.d[p] = c /\ c \in DaemonType /\ T.n \in NetType /\ T.n.hold = S.n.hold
  <2>1. T \in Situation /\ T.d[p] = c /\ c \in DaemonType /\ T.n \in NetType
    BY WentRecord, Components
  <2>2. T.n.hold = S.n.hold
    BY DEF Went, Moved, Calmed
  <2> QED BY <2>1, <2>2
<1>2. CASE w.host \notin T.n.listen
  <2>1. ConnectLine(T, p, k, w) = Raise(T, p)
    BY <1>2 DEF ConnectLine
  <2> QED BY <2>1, RaiseWired
<1>3. CASE w.host \in T.n.listen
  <2> DEFINE l == NewLine(T.n)
             m == LinkMsg(c, k)
             near == <<l, "near">>
             T1 == [T EXCEPT !.d[p] = b]
             U0 == [T1 EXCEPT !.n = Connect(T.n, l, {p}, w.host, m)]
             v == [b.wait EXCEPT !.end = near]
             U == [U0 EXCEPT !.d[p].wait = v]
  <2>1. ConnectLine(T, p, k, w) = U
    <3>1. ConnectLine(T, p, k, w) =
            [d |-> [T.d EXCEPT ![p].wait = [w EXCEPT !.on = "line", !.chan = k, !.end = near]],
             n |-> Connect(T.n, l, {p}, w.host, m)]
      BY <1>1, <1>3 DEF ConnectLine, LinkMsg
    <3>2. v = [w EXCEPT !.on = "line", !.chan = k, !.end = near]
      BY <1>1 DEF Linking, LinkRec, DaemonType, WaitType
    <3> DEFINE n == Connect(T.n, l, {p}, w.host, m)
    <3> HIDE DEF l, m, near, v, n
    <3>3. T1.d = [T.d EXCEPT ![p] = b] /\ T1.n = T.n /\ T1 = [d |-> T1.d, n |-> T1.n]
      BY <1>1 DEF Situation
    <3> HIDE DEF T1
    <3>4. U0.d = T1.d /\ U0.n = n /\ U0 = [d |-> T1.d, n |-> n]
      BY <3>3 DEF n
    <3> HIDE DEF U0
    <3>5. U = [d |-> [T1.d EXCEPT ![p].wait = v], n |-> n]
      BY <3>4
    <3>6. [T1.d EXCEPT ![p].wait = v] = [T.d EXCEPT ![p].wait = v]
      <4> DEFINE D == T.d
                 D1 == T1.d
      <4>1. [b EXCEPT !.wait = v] = [c EXCEPT !.wait = v]
        BY <1>1 DEF LinkRec, DaemonType
      <4>2. D \in [Daemons -> DaemonType] /\ D1 = [D EXCEPT ![p] = b] /\ D[p] = c
        BY <1>1, <3>3, Components
      <4> HIDE DEF D, D1
      <4>3. D1[p] = b
        BY <4>2
      <4>4. [D1 EXCEPT ![p] = [b EXCEPT !.wait = v]] = [D EXCEPT ![p] = [b EXCEPT !.wait = v]]
        BY <4>2
      <4> QED BY <4>1, <4>2, <4>3, <4>4 DEF D, D1
    <3> QED BY <3>1, <3>2, <3>5, <3>6 DEF n
  <2>2. Linking(w, k) \in WaitType /\ Linking(w, k).on = "line"
    BY ConstantsType DEF Linking, WaitType
  <2>3. b \in DaemonType /\ b.wait = Linking(w, k)
    BY <1>1, <2>2, WaitFields DEF LinkRec
  <2>4. Went(S, T1, p, X, b, M, C)
    BY <2>3, WentSet
  <2>5. Wired(T1, p, {}, A, K, F, V)
    BY <2>4, WentWired
  <2>6. T1 \in Situation /\ T1.d[p] = b /\ T1.n = T.n
    BY <1>1, <2>4, WentRecord DEF Situation
  <2> HIDE DEF T1
  <2>7. Links(T1, U0, A, l, {p}, w.host, m)
    <3>1. /\ m \in Message /\ m.tag \in {"Join", "DataLine"} /\ m.tag \notin ClientCode
          /\ m.tag # "Enslave" /\ (m.tag = "DataLine" => m.chan # Master)
      BY <1>1, LinkMsgFacts
    <3>2. {p} \in SUBSET Procs /\ {p} \cap Clients = {}
      BY ProcsFacts, WireAssumption DEF Daemons
    <3>3. w.host \in Hosts
      BY <1>1, <1>3 DEF NetType
    <3> HIDE DEF m
    <3> QED BY <2>6, <3>1, <3>2, <3>3 DEF Links
  <2>8. Linked(T1, U0, l, {p}, w.host, m)
    BY <2>7, LinkNet
  <2>9. Wired(U0, p, {}, A, K, F, V)
    BY <1>1, <2>5, <2>6, <2>7, LinkWired
  <2>10. /\ U0 \in Situation /\ U0.d[p] = b /\ near \in End /\ U0.n.hold[near] = {p}
         /\ Other(near) = <<l, "far">> /\ near[2] = "near"
         /\ U0.n.hold[Other(near)] = {Main(w.host)}
         /\ U0.n.box[near] = T1.n.box[near] /\ T1.n.hold[near] = {}
    <3> HIDE DEF U0, l
    <3>1. T1.n.hold[near] = {} /\ U0.n.hold[near] = {p} /\ U0.n.box[near] = T1.n.box[near]
      BY <2>8 DEF Linked
    <3>2. Other(near) = <<l, "far">> /\ near[2] = "near" /\ near \in End
      BY <2>8 DEF Linked
    <3>3. U0.n.hold[Other(near)] = {Main(w.host)}
      BY <2>8 DEF Linked
    <3>4. U0 \in Situation /\ U0.d[p] = b
      BY <2>6, <2>8 DEF Linked
    <3> QED BY <3>1, <3>2, <3>3, <3>4
  <2>11. Peer(U0.n, near)
    <3>1. U0.n.box[near] = <<>>
      BY <2>5, <2>10 DEF Wired, Emptied
    <3>2. Main(w.host) \notin Clients
      <4>1. w.host \in Hosts
        BY <2>8 DEF Linked
      <4> QED BY <4>1, ProcsFacts, WireAssumption DEF Daemons
    <3> QED BY <2>10, <3>1, <3>2, NoMsgs DEF Peer, Says
  <2> HIDE DEF U0, near
  <2>12. v = [U0.d[p].wait EXCEPT !.end = near]
    BY <2>10
  <2> HIDE DEF v
  <2>13. U \in Situation /\ Wired(U, p, {}, A, K, F, V)
    BY <2>2, <2>3, <2>9, <2>10, <2>11, <2>12, GrabWired
  <2> QED BY <2>1, <2>13
<1> QED BY <1>2, <1>3
LEMMA ConnectingKept ==
  ASSUME NEW S, NEW p, NEW e, NEW A, NEW K, NEW F, NEW V, Asked(S, p, e, A, K, F, V),
         \A x \in K : S.n.hold[x] # {}, FreeLines(S.n) # {},
         NEW m \in Message, Says(S.n, e, {"ConnectTo"})
  PROVE  Kept(Connecting(S, p, e, m), p, A, K, F, V)
<1> DEFINE T == Consume(S, e)
           c == S.d[p]
           w == [NoWait EXCEPT !.reply = e, !.host = m.host, !.arg = m.arg]
           b == LinkRec(c, w, Master)
           R == Connecting(S, p, e, m)
<1>1. /\ S \in Situation /\ p \in Daemons /\ F \in SUBSET Hosts /\ Wired(S, p, {e}, A, K, F, V)
      /\ c \in DaemonType /\ Rec(p, c) /\ e \in End /\ Uses(c) \subseteq End
      /\ Mine(S, p, {e}) = Uses(c) \cup {e}
  BY AskedFacts
<1>2. Went(S, T, p, {e}, c, {e}, {"OK", "Refuse"}) /\ T \in Situation /\ T.d = S.d
  BY AskedWent DEF Said
<1>3. CASE c.state # "FormingGroup"
  BY <1>2, <1>3, RefusedKept DEF Connecting
<1>4. CASE c.state = "FormingGroup"
  <2>1. R = ConnectLine(T, p, Master, w)
    BY <1>2, <1>4 DEF Connecting
  <2>2. p[2] = "main" /\ Forming(c)
    BY <1>1, <1>4, ProcsFacts DEF Asked, Rec, ExecRec, Forming
  <2>3. Says(S.n, e, ClientCode)
    BY DEF Says, ClientCode
  <2>4. /\ e = Home(c) /\ p[1] \notin F
        /\ \A x \in Uses(c) \ {e} : Peer(S.n, x)
    BY <2>2, <2>3, AskedHome
  <2>5. /\ w \in WaitType /\ w.reply = e /\ w.lines = NoWait.lines
        /\ Linking(w, Master) \in WaitType /\ Linking(w, Master).on = "line"
        /\ Linking(w, Master).end = NoEnd /\ Linking(w, Master).reply = e
        /\ Linking(w, Master).lines = NoWait.lines
    BY <1>1, ConstantsType, MasterIsChan, MessageWith DEF Linking, WaitType, Ends0
  <2>6. Master \in Chan /\ FreeLines(T.n) # {}
    BY <1>1, ConsumeType, MasterIsChan
  <2> HIDE DEF w
  <2>7. /\ b \in DaemonType /\ b.wait = Linking(w, Master) /\ b.state = c.state /\ b.mode = c.mode
        /\ b.line = c.line /\ b.cache = c.cache /\ b.quit = c.quit /\ Home(b) = Home(c)
        /\ b.todo = c.todo /\ b.rope = c.rope
    BY <1>1, <2>5, WaitFields DEF LinkRec
  <2> HIDE DEF b
  <2>8. Uses(b) \subseteq Uses(c) \cup {e}
    BY <2>5, <2>7 DEF Uses, Refs, NoWait
  <2>9. Rec(p, b)
    BY <1>1, <1>4, <2>2, <2>5, <2>7 DEF Rec, MainRec
  <2>10. Goes(S, p, {e}, b, {e}, {"OK", "Refuse"}, F)
    <3>1. Other(e) # e
      BY <1>1, OtherIsEnd
    <3>2. \A x \in Uses(b) \ {e} : x \in End /\ Peer(S.n, x)
      BY <1>1, <2>4, <2>8
    <3>3. b.wait.on = "line" => b.wait.reply = e /\ b.wait.end[2] = "near"
      BY <2>5, <2>7 DEF NoEnd
    <3> QED BY <2>2, <2>4, <2>7, <3>1, <3>2, <3>3 DEF Goes, Serves
  <2>11. Uses(b) \subseteq Mine(S, p, {e})
    BY <1>1, <2>8
  <2>12. b = LinkRec(c, w, Master)
    BY DEF b
  <2> HIDE DEF T, c
  <2> HIDE DEF R
  <2>13. /\ ConnectLine(T, p, Master, w) \in Situation
         /\ Wired(ConnectLine(T, p, Master, w), p, {}, A, K, F, V)
    BY <1>1, <1>2, <2>5, <2>6, <2>9, <2>10, <2>11, <2>12, ConnectLineWired
  <2> QED BY <2>1, <2>13 DEF Kept, R
<1> QED BY <1>3, <1>4
-----------------------------------------------------------------------------
(* A blocked handler goes on: what p waited for has arrived, or its line    *)
(* was closed.                                                              *)
Woken(S, p, A, K, F, V) ==
  /\ S \in Situation /\ p \in Daemons /\ F \in SUBSET Hosts
  /\ Wired(S, p, {}, A, K, F, V)
  /\ S.d[p].mode # "dead" /\ S.d[p].wait.end \in End
  /\ p[2] = "main" => S.d[p].wait.on = "line" /\ (Forming(S.d[p]) => p[1] \notin F)
Waits(d) == {d.wait.end, d.wait.reply} \ {NoEnd}
Awake(d) == [d EXCEPT !.wait = NoWait]
Wake(S, p) == [Consume(S, S.d[p].wait.end) EXCEPT !.d[p].wait = NoWait]

LEMMA WokenFacts ==
  ASSUME NEW S, NEW p, NEW A, NEW K, NEW F, NEW V, Woken(S, p, A, K, F, V)
  PROVE  /\ S \in Situation /\ p \in Daemons /\ F \in SUBSET Hosts
         /\ Wired(S, p, {}, A, K, F, V)
         /\ Records(S) /\ Rec(p, S.d[p])
         /\ S.n \in NetType /\ S.d \in [Daemons -> DaemonType] /\ S.d[p] \in DaemonType
         /\ S.d[p].wait \in WaitType /\ S.d[p].wait.end \in End
         /\ Mine(S, p, {}) = Uses(S.d[p]) /\ Uses(S.d[p]) \subseteq End
         /\ Waits(S.d[p]) \subseteq Uses(S.d[p]) /\ S.d[p].wait.end \in Waits(S.d[p])
<1>1. /\ S \in Situation /\ p \in Daemons /\ F \in SUBSET Hosts
      /\ Wired(S, p, {}, A, K, F, V) /\ S.d[p].wait.end \in End
  BY DEF Woken
<1>2. S.n \in NetType /\ S.d \in [Daemons -> DaemonType] /\ S.d[p] \in DaemonType
  BY <1>1, Components
<1>3. S.d[p].wait \in WaitType
  BY <1>2 DEF DaemonType
<1>4. Records(S)
  BY <1>1, WiredOwned
<1>5. Rec(p, S.d[p])
  BY <1>1, <1>4, MainOrExec, ProcsFacts DEF Rec, Records
<1>6. Mine(S, p, {}) = Uses(S.d[p]) /\ Uses(S.d[p]) \subseteq End
  BY <1>2, UsesType DEF Mine
<1>7. Waits(S.d[p]) \subseteq Uses(S.d[p])
  BY DEF Waits, Uses, Refs
<1>8. S.d[p].wait.end \in Waits(S.d[p])
  BY <1>1, NoEndIsNoEnd DEF Waits
<1> QED BY <1>1, <1>2, <1>3, <1>4, <1>5, <1>6, <1>7, <1>8

(* p may serve a client only, when it waits for a peer.                     *)
LEMMA WokenHome ==
  ASSUME NEW S, NEW p, NEW A, NEW K, NEW F, NEW V, Woken(S, p, A, K, F, V),
         p[2] = "main", Forming(S.d[p])
  PROVE  LET e == Home(S.d[p])
         IN /\ e \in End /\ p[1] \notin F
            /\ S.d[p].wait.on = "line" /\ S.d[p].wait.reply = e
            /\ S.d[p].wait.end # e /\ Other(e) \notin Waits(S.d[p])
            /\ \A x \in Uses(S.d[p]) \ {e} : Peer(S.n, x)
<1> DEFINE e == Home(S.d[p])
           c == S.d[p]
<1>1. /\ S \in Situation /\ p \in Daemons /\ Wired(S, p, {}, A, K, F, V)
      /\ Waits(c) \subseteq Uses(c)
  BY WokenFacts
<1>2. Owned(S, p, {}) /\ Formed(S, p, {})
  BY <1>1, WiredOwned
<1>3. FormOk(S.n, c, p, {})
  BY <1>1, <1>2, MainOrExec, ProcsFacts DEF Formed
<1>4. c.wait.on = "line" /\ p[1] \notin F
  BY DEF Woken
<1>5. /\ e \in End /\ e[2] = "far" /\ S.n.hold[Other(e)] \cap Daemons = {}
      /\ c.wait.reply = e /\ c.wait.end[2] = "near"
      /\ \A x \in Uses(c) \ {e} : Peer(S.n, x)
  BY <1>3, <1>4 DEF FormOk
<1>6. Other(e) \notin Uses(c)
  BY <1>1, <1>2, <1>5 DEF Owned
<1> QED BY <1>1, <1>4, <1>5, <1>6

LEMMA WakeWent ==
  ASSUME NEW S, NEW p, NEW A, NEW K, NEW F, NEW V, Woken(S, p, A, K, F, V),
         NEW C, C \subseteq Said
  PROVE  /\ Went(S, Wake(S, p), p, {}, Awake(S.d[p]), Waits(S.d[p]), C)
         /\ Wake(S, p) \in Situation /\ Wake(S, p).n = Consume(S, S.d[p].wait.end).n
<1> DEFINE c == S.d[p]
           x == c.wait.end
           T == Consume(S, x)
           d == Awake(c)
<1>1. /\ S \in Situation /\ p \in Daemons /\ Records(S) /\ Rec(p, c) /\ c \in DaemonType
      /\ Mine(S, p, {}) = Uses(c) /\ Waits(c) \subseteq Uses(c) /\ x \in Waits(c)
  BY WokenFacts
<1>2. Went(S, S, p, {}, c, Waits(c), C)
  BY <1>1, WentStart
<1> HIDE DEF c, x
<1>3. Went(S, T, p, {}, c, Waits(c), C)
  BY <1>1, <1>2, WentConsume
<1> HIDE DEF T
<1>4. d \in DaemonType /\ d.wait = NoWait /\ d.state = c.state /\ d.mode = c.mode
      /\ d.line = c.line /\ d.cache = c.cache /\ d.quit = c.quit
  BY <1>1, WaitFields, ConstantsType DEF Awake
<1>5. Uses(d) \subseteq Mine(S, p, {})
  <2>1. Uses([c EXCEPT !.wait = NoWait]) \subseteq Uses(c)
    BY <1>1, FieldUses
  <2> QED BY <1>1, <2>1 DEF Awake
<1>6. Rec(p, d)
  <2>1. MainRec(c) => MainRec(d)
    BY <1>4 DEF MainRec, NoWait
  <2>2. ExecRec(c) => ExecRec(d)
    BY <1>4 DEF ExecRec
  <2> QED BY <1>1, <2>1, <2>2 DEF Rec
<1> DEFINE U == Wake(S, p)
<1>7. T \in Situation /\ T.d[p] = c
  BY <1>1, <1>3, WentRecord
<1>8. U = [T EXCEPT !.d[p] = d]
  BY <1>7 DEF Wake, Awake, T, x, c
<1> HIDE DEF U, d
<1>9. Went(S, U, p, {}, d, Waits(c), C)
  BY <1>1, <1>3, <1>4, <1>5, <1>6, <1>8, WentSet
<1>10. U \in Situation
  BY <1>1, <1>9, WentRecord
<1>11. U.n = T.n
  BY <1>7, <1>8 DEF Situation
<1> QED BY <1>9, <1>10, <1>11 DEF U, d, T, x, c

(* The answer to whom the handler works for.                                *)
LEMMA WakeAnswered ==
  ASSUME NEW S, NEW p, NEW A, NEW K, NEW F, NEW V, Woken(S, p, A, K, F, V),
         NEW U, NEW d, Went(S, U, p, {}, d, Waits(S.d[p]), {"OK", "Refuse"}),
         NEW code \in {"OK", "Refuse"},
         NEW b \in DaemonType, Rec(p, b), Uses(b) \subseteq Uses(S.d[p]),
         p[2] = "main" /\ Forming(b) =>
           Forming(S.d[p]) /\ Home(b) = Home(S.d[p]) /\ b.wait.on # "line",
         NEW r, r = S.d[p].wait.reply
  PROVE  Kept(Answer(U, p, r, code, b), p, A, K, F, V)
<1> DEFINE c == S.d[p]
           M == Waits(c)
           C == {"OK", "Refuse"}
           R == Answer(U, p, r, code, b)
<1>1. /\ S \in Situation /\ p \in Daemons /\ F \in SUBSET Hosts /\ Wired(S, p, {}, A, K, F, V)
      /\ c.wait \in WaitType /\ Mine(S, p, {}) = Uses(c) /\ Uses(c) \subseteq End
  BY WokenFacts
<1>2. U \in Situation
  BY <1>1, WentRecord
<1>3. Goes(S, p, {}, b, M, C, F)
  <2> SUFFICES ASSUME p[2] = "main", Forming(b)
               PROVE  Serves(S.n, c, {}, b, {}, M, C) /\ p[1] \notin F
    BY DEF Goes
  <2>1. Forming(c) /\ Home(b) = Home(c) /\ b.wait.on # "line"
    OBVIOUS
  <2>2. /\ Home(c) \in End /\ p[1] \notin F /\ Other(Home(c)) \notin M
        /\ \A x \in Uses(c) \ {Home(c)} : Peer(S.n, x)
    BY <2>1, WokenHome
  <2> QED BY <1>1, <2>1, <2>2 DEF Serves
<1> HIDE DEF c, M, C, R
<1>4. CASE r = NoEnd
  <2> DEFINE W == [U EXCEPT !.d[p] = b]
  <2>1. R = W
    <3>1. ~Broken(U.n, r) /\ Send(U.n, r, Msg(code)) = U.n
      BY <1>4, NoEndIsNoEnd DEF Broken, Hung, Send
    <3>2. R = [d |-> [U.d EXCEPT ![p] = b], n |-> U.n]
      BY <3>1 DEF R, Answer
    <3> QED BY <1>2, <3>2 DEF Situation
  <2>2. Went(S, W, p, {}, b, M, C)
    <3>1. Uses(b) \subseteq Mine(S, p, {})
      BY <1>1 DEF c
    <3>2. Went(S, U, p, {}, d, M, C)
      BY DEF M, C, c
    <3> HIDE DEF Went, Mine
    <3> QED BY <1>1, <3>1, <3>2, WentSet
  <2> HIDE DEF W
  <2>3. Wired(W, p, {}, A, K, F, V) /\ W \in Situation
    BY <1>1, <1>3, <2>2, WentWired, WentRecord
  <2> QED BY <2>1, <2>3 DEF Kept, R
<1>5. CASE r # NoEnd
  <2>1. r \in M
    BY <1>5 DEF M, c, Waits
  <2>2. code \in Code /\ code \in C /\ Uses(b) \subseteq Mine(S, p, {})
    BY <1>1, CodeFacts DEF C, c
  <2>3. Went(S, U, p, {}, d, M, C)
    BY DEF M, C, c
  <2>4. R \in Situation /\ Wired(R, p, {}, A, K, F, V)
    BY <1>1, <1>3, <2>1, <2>2, <2>3, AnswerWired DEF R
  <2> QED BY <2>4 DEF Kept, R
<1> QED BY <1>4, <1>5
LEMMA StartedKept ==
  ASSUME NEW S, NEW p, NEW A, NEW K, NEW F, NEW V, Woken(S, p, A, K, F, V), p[2] # "main"
  PROVE  Kept(Started(S, p), p, A, K, F, V)
<1> DEFINE c == S.d[p]
           d == Awake(c)
           T == Wake(S, p)
           b == [d EXCEPT !.runMain = TRUE]
           U == [T EXCEPT !.d[p].runMain = TRUE]
<1>1. /\ S \in Situation /\ p \in Daemons /\ F \in SUBSET Hosts /\ Wired(S, p, {}, A, K, F, V)
  BY WokenFacts
<1>2. Went(S, T, p, {}, d, Waits(c), Said)
  BY WakeWent
<1>3. Started(S, p) = U \/ Started(S, p) = Raise(T, p)
  BY Zenon DEF Started, Wake
<1>4. Kept(Raise(T, p), p, A, K, F, V)
  <2> HIDE DEF T, d, c
  <2> QED BY <1>1, <1>2, RaiseWired DEF Kept
<1>5. Kept(U, p, A, K, F, V)
  <2> HIDE DEF d, T, c
  <2>1. T \in Situation /\ T.d[p] = d /\ d \in DaemonType /\ Rec(p, d) /\ Uses(d) \subseteq Mine(S, p, {})
    BY <1>1, <1>2, WentRecord
  <2>2. U = [T EXCEPT !.d[p] = b]
    BY <2>1
  <2>3. /\ b \in DaemonType /\ b.line = d.line /\ b.cache = d.cache /\ b.rope = d.rope
        /\ b.todo = d.todo /\ b.wait = d.wait /\ b.state = d.state /\ b.mode = d.mode /\ b.quit = d.quit
    <3>1. b \in DaemonType
      BY <2>1, FieldTypes
    <3> QED BY <2>1, <3>1 DEF DaemonType
  <2> HIDE DEF b, U
  <2>4. Uses(b) = Uses(d)
    BY <2>3 DEF Uses, Refs
  <2>5. Rec(p, b)
    BY <2>1, <2>3 DEF Rec, ExecRec
  <2>6. Went(S, U, p, {}, b, Waits(c), Said)
    BY <1>1, <1>2, <2>1, <2>2, <2>3, <2>4, <2>5, WentSet
  <2>7. Goes(S, p, {}, b, Waits(c), Said, F)
    BY ExecGoes
  <2>8. Wired(U, p, {}, A, K, F, V)
    BY <1>1, <2>6, <2>7, WentWired
  <2>9. U \in Situation
    BY <1>1, <2>6, WentRecord
  <2> QED BY <2>8, <2>9 DEF Kept
<1> HIDE DEF T, U
<1> QED BY <1>3, <1>4, <1>5

LEMMA AcknowledgedKept ==
  ASSUME NEW S, NEW p, NEW A, NEW K, NEW F, NEW V, Woken(S, p, A, K, F, V), p[2] # "main"
  PROVE  Kept(Acknowledged(S, p), p, A, K, F, V)
<1> DEFINE c == S.d[p]
           d == Awake(c)
           T == Wake(S, p)
           b == [d EXCEPT !.world = 0, !.quit = TRUE]
           C == {"OK", "Refuse"}
<1>1. /\ S \in Situation /\ p \in Daemons /\ Mine(S, p, {}) = Uses(c)
  BY WokenFacts
<1>2. Went(S, T, p, {}, d, Waits(c), C)
  BY WakeWent DEF Said
<1>3. T.d[p] = d
  BY <1>1, <1>2, WentRecord
<1>4. Acknowledged(S, p) = Answer(T, p, c.wait.reply, "OK", b)
  <2>1. Acknowledged(S, p) = Answer(T, p, c.wait.reply, "OK", [T.d[p] EXCEPT !.world = 0, !.quit = TRUE])
    BY Zenon DEF Acknowledged, Wake
  <2> HIDE DEF T, d
  <2> QED BY <1>3, <2>1
<1> HIDE DEF T, d, c
<1>5. d \in DaemonType /\ Rec(p, d) /\ Uses(d) \subseteq Uses(c)
  BY <1>1, <1>2, WentRecord
<1>6. /\ b \in DaemonType /\ b.line = d.line /\ b.cache = d.cache /\ b.rope = d.rope
      /\ b.todo = d.todo /\ b.wait = d.wait /\ b.state = d.state /\ b.mode = d.mode /\ b.quit
  BY <1>5 DEF DaemonType
<1> HIDE DEF b
<1>7. Uses(b) = Uses(d)
  BY <1>6 DEF Uses, Refs
<1>8. Rec(p, b)
  BY <1>5, <1>6 DEF Rec, ExecRec
<1>9. Kept(Answer(T, p, c.wait.reply, "OK", b), p, A, K, F, V)
  <2> HIDE DEF Kept
  <2> QED BY <1>1, <1>2, <1>5, <1>6, <1>7, <1>8, WakeAnswered DEF c
<1> QED BY <1>4, <1>9
LEMMA ConnectedKept ==
  ASSUME NEW S, NEW p, NEW A, NEW K, NEW F, NEW V, Woken(S, p, A, K, F, V),
         \A x \in K : S.n.hold[x] # {}, FreeLines(S.n) # {}, S.d[p].wait.on = "line"
  PROVE  Kept(Connected(S, p), p, A, K, F, V)
<1> DEFINE c == S.d[p]
           w == c.wait
           d == Awake(c)
           T == Wake(S, p)
           lines == [w.lines EXCEPT ![w.chan] = w.end]
           i == Insert(d, w.arg, lines)
           U == [T EXCEPT !.d[p] = i]
           v == [w EXCEPT !.lines = lines]
           C == {"OK", "Refuse"}
           M == Waits(c)
           R == Connected(S, p)
<1>1. /\ S \in Situation /\ p \in Daemons /\ F \in SUBSET Hosts /\ Wired(S, p, {}, A, K, F, V)
      /\ Rec(p, c) /\ c \in DaemonType /\ w \in WaitType /\ w.end \in End
      /\ Mine(S, p, {}) = Uses(c) /\ Uses(c) \subseteq End
      /\ M \subseteq Uses(c) /\ w.end \in M /\ w.on = "line"
  BY WokenFacts
<1>2. /\ Went(S, T, p, {}, d, M, C) /\ T \in Situation /\ T.n = Consume(S, w.end).n
  BY WakeWent DEF Said
<1>3. T.d[p] = d /\ d \in DaemonType /\ Rec(p, d) /\ Uses(d) \subseteq Uses(c)
  <2> HIDE DEF T, d, M, C
  <2> QED BY <1>1, <1>2, WentRecord
<1>4. /\ d.wait = NoWait /\ d.state = c.state /\ d.mode = c.mode /\ d.line = c.line
      /\ d.cache = c.cache /\ d.quit = c.quit /\ Home(d) = Home(c) /\ d.todo = c.todo
      /\ d.rope = c.rope
  BY <1>1, ConstantsType, WaitFields DEF Awake
<1>5. /\ lines \in [Chan -> Ends0] /\ w.chan \in Chan /\ w.lines \in [Chan -> Ends0]
      /\ \A k \in Chan : lines[k] = NoEnd \/ lines[k] \in Uses(c)
  <2>1. w.chan \in Chan /\ w.lines \in [Chan -> Ends0] /\ w.end \in Ends0
    BY <1>1 DEF WaitType, Ends0
  <2>2. \A k \in Chan : w.lines[k] = NoEnd \/ w.lines[k] \in Uses(c)
    BY DEF Uses, Refs
  <2> QED BY <1>1, <2>1, <2>2
<1>6. \/ R = ConnectLine(T, p, w.chan + 1, v) /\ w.chan + 1 \in Chan
      \/ R = Answer(U, p, w.reply, "OK", U.d[p])
      \/ R = Refuse(T, p, w.reply)
      \/ R = Raise(T, p)
  <2>1. \/ R = ConnectLine(T, p, w.chan + 1, v) /\ w.chan + 1 \in Chan
        \/ R = Answer([T EXCEPT !.d[p] = Insert(T.d[p], w.arg, lines)], p, w.reply, "OK",
                      [T EXCEPT !.d[p] = Insert(T.d[p], w.arg, lines)].d[p])
        \/ R = Refuse(T, p, w.reply)
        \/ R = Raise(T, p)
    BY Zenon DEF Connected, Wake
  <2> QED BY <1>3, <2>1
<1> HIDE DEF T, d, lines, R
<1>7. ASSUME p[2] = "main", Forming(c)
      PROVE  /\ Home(c) \in End /\ p[1] \notin F /\ w.reply = Home(c)
             /\ Other(Home(c)) \notin M
             /\ \A x \in Uses(c) \ {Home(c)} : Peer(S.n, x)
  BY <1>7, WokenHome
<1>8. CASE R = Raise(T, p)
  <2> HIDE DEF M, C
  <2>1. Raise(T, p) \in Situation /\ Wired(Raise(T, p), p, {}, A, K, F, V)
    BY <1>1, <1>2, RaiseWired
  <2> QED BY <1>8, <2>1 DEF Kept, R
<1>9. CASE R = Refuse(T, p, w.reply)
  <2>1. Kept(Answer(T, p, w.reply, "Refuse", d), p, A, K, F, V)
    <3>1. p[2] = "main" /\ Forming(d) => Forming(c) /\ Home(d) = Home(c) /\ d.wait.on # "line"
      BY <1>4 DEF Forming, NoWait
    <3> HIDE DEF Kept
    <3> QED BY <1>2, <1>3, <3>1, WakeAnswered
  <2>2. Refuse(T, p, w.reply) = Answer(T, p, w.reply, "Refuse", d)
    BY <1>3 DEF Refuse
  <2> QED BY <1>9, <2>1, <2>2 DEF R
<1>10. CASE R = Answer(U, p, w.reply, "OK", U.d[p])
  <2>1. /\ i \in DaemonType /\ i.mode = d.mode /\ i.rope = d.rope /\ i.wait = d.wait
        /\ i.quit = d.quit /\ i.state = d.state /\ i.cache = d.cache
        /\ (\A x \in Uses(i) : x \in Uses(d) \/ \E k \in Chan : x = lines[k])
        /\ (Home(d) # NoEnd => Home(i) = Home(d))
    BY <1>3, <1>5, InsertFields, InsertUses
  <2> HIDE DEF i
  <2>2. Uses(i) \subseteq Uses(c)
    <3>1. NoEnd \notin Uses(i)
      BY DEF Uses
    <3> QED BY <1>3, <1>5, <2>1, <3>1
  <2>3. Rec(p, i)
    <3>1. p[2] = "main" => MainRec(i)
      <4>1. p[2] = "main" => c.state = "FormingGroup" /\ MainRec(c)
        BY <1>1 DEF Rec, MainRec
      <4> QED BY <1>4, <2>1, <4>1 DEF MainRec, NoWait
    <3>2. p[2] = "exec" => ExecRec(i)
      BY <1>3, <2>1 DEF Rec, ExecRec
    <3> QED BY <3>1, <3>2 DEF Rec
  <2>4. U.d[p] = i /\ Went(S, U, p, {}, i, M, C)
    <3>1. Went(S, U, p, {}, i, M, C)
      BY <1>1, <1>2, <2>1, <2>2, <2>3, WentSet DEF i
    <3> HIDE DEF U, M, C
    <3> QED BY <1>1, <3>1, WentRecord
  <2>5. p[2] = "main" /\ Forming(i) => Forming(c) /\ Home(i) = Home(c) /\ i.wait.on # "line"
    <3>1. Forming(i) => Forming(c) /\ i.wait.on # "line"
      BY <1>4, <2>1 DEF Forming, NoWait
    <3>2. p[2] = "main" /\ Forming(c) => Home(c) \in End
      BY <1>7
    <3>3. Home(c) \in End => Home(d) # NoEnd
      BY <1>4, NoEndIsNoEnd
    <3> QED BY <1>4, <2>1, <3>1, <3>2, <3>3
  <2>6. Kept(Answer(U, p, w.reply, "OK", i), p, A, K, F, V)
    <3> HIDE DEF Kept, U
    <3> QED BY <2>1, <2>2, <2>3, <2>4, <2>5, WakeAnswered
  <2> QED BY <1>10, <2>4, <2>6 DEF R
<1>11. CASE R = ConnectLine(T, p, w.chan + 1, v) /\ w.chan + 1 \in Chan
  <2> DEFINE k == w.chan + 1
             u == Linking(v, k)
             b == LinkRec(d, v, k)
  <2>1. /\ v \in WaitType /\ v.reply = w.reply /\ v.lines = lines
        /\ u \in WaitType /\ u.on = "line" /\ u.end = NoEnd /\ u.reply = w.reply /\ u.lines = lines
    BY <1>1, <1>5, <1>11 DEF Linking, WaitType, Ends0
  <2> HIDE DEF v
  <2>2. /\ b \in DaemonType /\ b.wait = u /\ b.state = c.state /\ b.mode = c.mode
        /\ b.line = c.line /\ b.cache = c.cache /\ b.quit = c.quit /\ Home(b) = Home(c)
        /\ b.todo = c.todo /\ b.rope = c.rope
    BY <1>3, <1>4, <2>1, WaitFields DEF LinkRec
  <2> HIDE DEF u, b
  <2>3. Uses(b) \subseteq Uses(c)
    <3>1. w.reply = NoEnd \/ w.reply \in Uses(c)
      BY DEF Uses, Refs
    <3> QED BY <1>5, <2>1, <2>2, <3>1 DEF Uses, Refs
  <2>4. Rec(p, b)
    <3>1. MainRec(c) => MainRec(b)
      BY <1>1, <2>1, <2>2 DEF MainRec
    <3>2. ExecRec(c) => ExecRec(b)
      BY <2>2 DEF ExecRec
    <3> QED BY <1>1, <3>1, <3>2 DEF Rec
  <2>5. Goes(S, p, {}, b, M, C, F)
    <3> SUFFICES ASSUME p[2] = "main", Forming(b) PROVE Serves(S.n, c, {}, b, {}, M, C) /\ p[1] \notin F
      BY DEF Goes
    <3>1. Forming(c)
      BY <2>2 DEF Forming
    <3>2. /\ Home(c) \in End /\ p[1] \notin F /\ w.reply = Home(c) /\ Other(Home(c)) \notin M
          /\ \A x \in Uses(c) \ {Home(c)} : Peer(S.n, x)
      BY <1>7, <3>1
    <3>3. b.wait.on = "line" => b.wait.reply = Home(c) /\ b.wait.end[2] = "near"
      BY <2>1, <2>2, <3>2 DEF NoEnd
    <3> QED BY <1>1, <2>2, <2>3, <3>1, <3>2, <3>3 DEF Serves
  <2>6. FreeLines(T.n) # {}
    BY <1>1, <1>2, ConsumeType
  <2>7. ConnectLine(T, p, k, v) \in Situation /\ Wired(ConnectLine(T, p, k, v), p, {}, A, K, F, V)
    <3> HIDE DEF k, M, C
    <3>1. k \in Chan /\ b = LinkRec(d, v, k)
      BY <1>11 DEF k, b
    <3>2. Went(S, T, p, {}, d, M, C) /\ Uses(b) \subseteq Mine(S, p, {})
      BY <1>1, <1>2, <2>3
    <3> QED BY <1>1, <2>1, <2>4, <2>5, <2>6, <3>1, <3>2, ConnectLineWired
  <2>8. R \in Situation /\ Wired(R, p, {}, A, K, F, V)
    BY <1>11, <2>7
  <2> QED BY <2>8 DEF Kept, R
<1> QED BY <1>6, <1>8, <1>9, <1>10, <1>11

-----------------------------------------------------------------------------
(* The fork: the executive gets a copy of every end but the backlog, and    *)
(* the two ends of the rope are new.                                        *)
Forked(n, o, p, q, l, B) ==
  /\ \A x \in End : x # <<l, "near">> /\ x # <<l, "far">> =>
       o.hold[x] = IF p \in n.hold[x] /\ x \notin B THEN n.hold[x] \cup {q} ELSE n.hold[x]
  /\ o.hold[<<l, "near">>] = {p} /\ o.hold[<<l, "far">>] = {q}
  /\ o.box = n.box /\ o.ear = n.ear

LEMMA ForkNet ==
  ASSUME NEW n \in NetType, NEW l, <<l, "near">> \in End, <<l, "far">> \in End, NEW p, NEW q, NEW B,
         NEW o, o = SocketPair(Fork(n, p, q, B), l, p, q)
  PROVE  Forked(n, o, p, q, l, B)
<1> DEFINE near == <<l, "near">>
           far == <<l, "far">>
           f == Fork(n, p, q, B)
<1>0. near # far
  OBVIOUS
<1>1. /\ f.box = n.box /\ f.ear = n.ear
      /\ f.hold = [x \in End |-> IF p \in n.hold[x] /\ x \notin B THEN n.hold[x] \cup {q} ELSE n.hold[x]]
  BY DEF Fork, NetType
<1>2. f = [n EXCEPT !.hold = f.hold]
  BY <1>1 DEF Fork, NetType
<1> HIDE DEF near, far
<1>3. /\ o.hold = [f.hold EXCEPT ![near] = {p}, ![far] = {q}]
      /\ o.box = f.box /\ o.ear = f.ear
  <2> HIDE DEF f
  <2>1. o = [f EXCEPT !.hold[near] = {p}, !.hold[far] = {q}, !.rst = f.rst \cup {near, far}]
    BY DEF SocketPair, near, far, f
  <2>2. f = [n EXCEPT !.hold = f.hold]
    BY <1>2
  <2> QED BY <2>1, <2>2 DEF NetType
<1>4. \A x \in End : x # near /\ x # far =>
        o.hold[x] = IF p \in n.hold[x] /\ x \notin B THEN n.hold[x] \cup {q} ELSE n.hold[x]
  <2>1. f.hold = [x \in End |-> f.hold[x]]
    BY <1>1
  <2>2. \A x \in End : x # near /\ x # far => o.hold[x] = f.hold[x]
    <3> HIDE DEF f
    <3> QED BY <1>3, <2>1
  <2> QED BY <1>1, <2>2
<1>5. o.hold[near] = {p} /\ o.hold[far] = {q}
  <2>1. DOMAIN f.hold = End
    BY <1>1
  <2>2. near \in End /\ far \in End
    BY DEF near, far
  <2> HIDE DEF f
  <2> QED BY <1>0, <1>3, <2>1, <2>2 DEF near, far
<1> QED BY <1>1, <1>3, <1>4, <1>5 DEF Forked, near, far

(* p becomes the parent b of an executive x.                                *)
LEMMA ForkWired ==
  ASSUME NEW S \in Situation, NEW p \in Daemons, p[2] = "main", NEW K, NEW F \in SUBSET Hosts, NEW V,
         Wired(S, p, {}, {}, K, F, V),
         FreeLines(S.n) # {}, NEW l, l = NewLine(S.n), NEW q, q = Exec(p[1]),
         NEW U \in Situation, Forked(S.n, U.n, p, q, l, Backlog(S.n, p)),
         NEW b \in DaemonType, NEW x \in DaemonType, U.d[p] = b, U.d[q] = x,
         \A r \in Daemons : r # p /\ r # q => U.d[r] = S.d[r],
         b.state = "Supervising", MainRec(b), ExecRec(x),
         Uses(b) \subseteq Uses(S.d[p]) \cup {<<l, "near">>},
         Uses(x) \subseteq Uses(S.d[p]) \cup {<<l, "far">>}
  PROVE  Wired(U, p, {}, {}, K, F, V)
<1> DEFINE near == <<l, "near">>
           far == <<l, "far">>
           B == Backlog(S.n, p)
           new == {near, far}
<1>1. /\ Owned(S, p, {}) /\ Queued(S, {}, K) /\ Enslaving(S, p, {}) /\ Emptied(S)
      /\ Joining(S) /\ Formed(S, p, {}) /\ Records(S) /\ Frozen(S, F, V)
  BY WiredOwned
<1>2. /\ S.n \in NetType /\ U.n \in NetType
      /\ p = Main(p[1]) /\ p[1] \in Hosts /\ q \in Daemons /\ q # p
      /\ \A h \in Hosts : Main(h) # q /\ (Main(h) = p <=> h = p[1])
                          /\ Main(h) \in Daemons /\ Exec(h) \in Daemons /\ Exec(h) # p
                          /\ (Exec(h) = q <=> h = p[1])
  BY Components, ProcsFacts, MainOrExec
<1>3. B = Queue(S.n, p[1])
  BY DEF Backlog, Queue
<1>4. /\ near \in End /\ far \in End /\ Other(near) = far /\ Other(far) = near
      /\ S.n.hold[near] = {} /\ S.n.hold[far] = {}
      /\ \A y \in End : y # near /\ y # far => Other(y) # near /\ Other(y) # far
  BY <1>2, FreeLineEnds
<1>5. /\ \A y \in End : y # near /\ y # far =>
           U.n.hold[y] = IF p \in S.n.hold[y] /\ y \notin B THEN S.n.hold[y] \cup {q} ELSE S.n.hold[y]
      /\ U.n.hold[near] = {p} /\ U.n.hold[far] = {q}
      /\ U.n.box = S.n.box /\ U.n.ear = S.n.ear
  BY DEF Forked
<1>6. /\ \A r \in Daemons : \A y \in Uses(S.d[r]) : y \in End /\ r \in S.n.hold[y]
      /\ \A y \in Uses(S.d[p]) : y \notin B
  <2>1. \A r \in Daemons : Uses(S.d[r]) \subseteq End
    BY Components, UsesType
  <2> QED BY <1>1, <1>2, <1>3, <2>1 DEF Owned, Queued
<1>7. \A y \in Uses(b) : y \in Uses(S.d[p]) \/ y = near
  OBVIOUS
<1>8. \A y \in Uses(x) : y \in Uses(S.d[p]) \/ y = far
  OBVIOUS
<1> HIDE DEF near, far, B, new
<1>9. \A y \in End : y # near /\ y # far =>
        /\ \A r : r # q => (r \in U.n.hold[y] <=> r \in S.n.hold[y])
        /\ (q \in U.n.hold[y] => q \in S.n.hold[y] \/ p \in S.n.hold[y])
        /\ (p \notin S.n.hold[y] => U.n.hold[y] = S.n.hold[y])
        /\ (y \in B => U.n.hold[y] = S.n.hold[y])
        /\ (p \in S.n.hold[y] /\ y \notin B => q \in U.n.hold[y])
  <2> SUFFICES ASSUME NEW y \in End, y # near, y # far
               PROVE  /\ \A r : r # q => (r \in U.n.hold[y] <=> r \in S.n.hold[y])
                      /\ (q \in U.n.hold[y] => q \in S.n.hold[y] \/ p \in S.n.hold[y])
                      /\ (p \notin S.n.hold[y] => U.n.hold[y] = S.n.hold[y])
                      /\ (y \in B => U.n.hold[y] = S.n.hold[y])
                      /\ (p \in S.n.hold[y] /\ y \notin B => q \in U.n.hold[y])
    OBVIOUS
  <2>1. CASE p \in S.n.hold[y] /\ y \notin B
    <3>1. U.n.hold[y] = S.n.hold[y] \cup {q}
      BY <1>5, <2>1
    <3> QED BY <2>1, <3>1
  <2>2. CASE ~(p \in S.n.hold[y] /\ y \notin B)
    <3>1. U.n.hold[y] = S.n.hold[y]
      BY <1>5, <2>2
    <3> QED BY <2>2, <3>1
  <2> QED BY <2>1, <2>2
<1>10. \A y \in End : S.n.hold[y] # {} => y # near /\ y # far
  BY <1>4
<1>11. \A y \in End : \A D : Says(U.n, y, D) = Says(S.n, y, D) /\ Msgs(U.n, y) = Msgs(S.n, y)
  BY <1>5 DEF Says, Msgs
<1>12. \A D : ~Says(S.n, near, D) /\ ~Says(S.n, far, D)
  <2>1. S.n.box[near] = <<>> /\ S.n.box[far] = <<>>
    BY <1>1, <1>4 DEF Emptied
  <2> QED BY <2>1, NoMsgs DEF Says
<1>13. Owned(U, p, {})
  <2> SUFFICES ASSUME NEW r \in Daemons, NEW y \in Uses(U.d[r]) PROVE r \in U.n.hold[y]
    BY DEF Owned
  <2>1. CASE r = p
    BY <1>2, <1>5, <1>6, <1>7, <1>9, <1>10, <2>1
  <2>2. CASE r = q
    BY <1>5, <1>6, <1>8, <1>9, <1>10, <2>2
  <2>3. CASE r # p /\ r # q
    BY <1>6, <1>9, <1>10, <2>3
  <2> QED BY <2>1, <2>2, <2>3
<1>14. Queued(U, {}, K)
  <2>1. \A h \in Hosts : Queue(U.n, h) = Queue(S.n, h)
    BY <1>5 DEF Queue
  <2>2. ASSUME NEW h \in Hosts, NEW e \in Queue(S.n, h)
        PROVE  /\ e[2] = "far" /\ U.n.hold[e] = {Main(h)}
               /\ e \notin Uses(U.d[Main(h)]) /\ Other(e) \notin K /\ U.n.box[Other(e)] = <<>>
               /\ ~Says(U.n, e, ClientCode)
    <3>1. /\ e[2] = "far" /\ S.n.hold[e] = {Main(h)} /\ e \notin Uses(S.d[Main(h)])
          /\ Other(e) \notin K /\ S.n.box[Other(e)] = <<>> /\ ~Says(S.n, e, ClientCode)
      BY <1>1 DEF Queued
    <3>2. e \in End /\ e # near /\ e # far
      BY <1>10, <3>1, QueueEnds
    <3>3. U.n.hold[e] = {Main(h)}
      BY <1>2, <1>3, <1>9, <3>1, <3>2
    <3>4. e \notin Uses(U.d[Main(h)])
      BY <1>2, <1>7, <3>1, <3>2
    <3> QED BY <1>5, <1>11, <3>1, <3>2, <3>3, <3>4
  <2> QED BY <1>1, <1>5, <2>1, <2>2 DEF Queued
<1>15. Enslaving(U, p, {})
  <2> SUFFICES ASSUME NEW e \in End, Says(U.n, e, {"Enslave"})
               PROVE  /\ U.n.hold[Other(e)] \cap Daemons = {}
                      /\ Len(U.n.box[e]) = 1 /\ \E h \in Hosts : e \in Queue(U.n, h)
    BY DEF Enslaving
  <2>1. Says(S.n, e, {"Enslave"}) /\ e # near /\ e # far
    BY <1>11, <1>12
  <2>2. /\ S.n.hold[Other(e)] \cap Daemons = {}
        /\ Len(S.n.box[e]) = 1 /\ \E h \in Hosts : e \in Queue(S.n, h)
    BY <1>1, <2>1 DEF Enslaving
  <2>3. Other(e) \in End /\ Other(e) # near /\ Other(e) # far
    BY <1>4, <2>1, OtherIsEnd
  <2> QED BY <1>5, <1>9, <2>2, <2>3 DEF Queue
<1>16. Emptied(U)
  <2> SUFFICES ASSUME NEW e \in End, U.n.hold[e] = {} PROVE U.n.box[e] = <<>>
    BY DEF Emptied
  <2>1. e # near /\ e # far
    BY <1>5
  <2>2. S.n.hold[e] = {}
    BY <1>5, <2>1
  <2> QED BY <1>1, <1>5, <2>2 DEF Emptied
<1>17. \A y \in End : U.n.hold[y] \cap Clients = S.n.hold[y] \cap Clients
  <2> SUFFICES ASSUME NEW y \in End PROVE U.n.hold[y] \cap Clients = S.n.hold[y] \cap Clients
    OBVIOUS
  <2>1. p \notin Clients /\ q \notin Clients
    BY <1>2, WireAssumption DEF Daemons
  <2>2. CASE y = near \/ y = far
    BY <1>4, <1>5, <2>1, <2>2
  <2>3. CASE y # near /\ y # far
    BY <1>9, <2>1, <2>3
  <2> QED BY <2>2, <2>3
<1>18. \A y \in End : Peer(U.n, y) <=> Peer(S.n, y)
  BY <1>11, <1>17, OtherIsEnd DEF Peer
<1>19. Joining(U)
  BY <1>1, <1>11, <1>18 DEF Joining
<1>20. Records(U)
  BY <1>1, <1>2 DEF Records
<1>21. ASSUME NEW h \in Hosts, Forming(U.d[Main(h)])
       PROVE  /\ FormOk(U.n, U.d[Main(h)], Main(h), {})
              /\ h \in F => View(U.n, U.d[Main(h)]) = V.view[h]
  <2> DEFINE d == S.d[Main(h)]
             e == Home(d)
  <2>1. Main(h) # p /\ U.d[Main(h)] = d /\ Forming(d)
    BY <1>2, <1>21 DEF Forming
  <2>2. FormOk(S.n, d, Main(h), {}) /\ Uses(d) \subseteq End
    BY <1>1, <1>2, <1>6, <2>1 DEF Formed
  <2>3. /\ e \in End /\ e[2] = "far"
        /\ S.n.hold[e] = {Main(h)} /\ S.n.hold[Other(e)] \cap Daemons = {}
        /\ \A m \in Msgs(S.n, e) : m.tag \in {"Peers", "ConnectTo", "Grouped", "Disconnect"}
        /\ \A m \in Msgs(S.n, Other(e)) : m.tag \in {"OK", "Refuse"}
        /\ \A y \in Uses(d) \ {e} : Peer(S.n, y)
        /\ d.wait.on = "line" => d.wait.reply = e /\ d.wait.end[2] = "near"
    BY <2>1, <2>2 DEF FormOk
  <2>4. e # near /\ e # far /\ Other(e) \in End /\ Other(e) # near /\ Other(e) # far
    BY <1>4, <1>10, <2>3, OtherIsEnd
  <2>5. U.n.hold[e] = {Main(h)} /\ U.n.hold[Other(e)] \cap Daemons = {}
    BY <1>9, <2>1, <2>3, <2>4
  <2>6. \A y \in Uses(d) \ {e} : Peer(U.n, y)
    BY <1>18, <2>2, <2>3
  <2>7. FormOk(U.n, d, Main(h), {})
    BY <1>11, <2>3, <2>4, <2>5, <2>6 DEF FormOk
  <2>8. View(U.n, d) = View(S.n, d)
    BY <1>5 DEF View
  <2>9. h \in F => View(S.n, d) = V.view[h]
    BY <1>1, <2>1 DEF Frozen, Seen
  <2> QED BY <2>1, <2>7, <2>8, <2>9
<1>22. Formed(U, p, {})
  <2> SUFFICES ASSUME NEW h \in Hosts PROVE FormOk(U.n, U.d[Main(h)], Main(h), {})
    BY DEF Formed
  <2> QED BY <1>21 DEF FormOk
<1>23. Lent(U.n, V)
  <2> SUFFICES ASSUME NEW y \in End, V.hold[y] # {}, V.hold[y] \cap Daemons = {}
               PROVE  U.n.hold[y] = V.hold[y]
    BY DEF Lent
  <2>1. S.n.hold[y] = V.hold[y]
    BY <1>1 DEF Frozen, Lent
  <2>2. S.n.hold[y] # {} /\ p \notin S.n.hold[y]
    BY <2>1
  <2> QED BY <1>9, <1>10, <2>1, <2>2
<1>24. Frozen(U, F, V)
  BY <1>21, <1>23 DEF Frozen, Seen
<1> QED BY <1>13, <1>14, <1>15, <1>16, <1>19, <1>20, <1>22, <1>24 DEF Wired

(* What the two processes know after the daemon has forked on line l.       *)
Parent(c, l) == [c EXCEPT !.line = NoLines, !.state = "Supervising",
                          !.rope = <<l, "near">>, !.child = TRUE]
Child(c, l) == [c EXCEPT !.state = "Grouped", !.rope = <<l, "far">>, !.cache = c.line]
Parting(n, p, e, l, q) == SocketPair(Fork(Send(n, e, Msg("OK")), p, q, Backlog(n, p)), l, p, q)

(* A daemon that accepts Grouped: the two records and the network.          *)
LEMMA GroupedParts ==
  ASSUME NEW S, NEW p, NEW e, NEW T, T = Consume(S, e), NEW c, c = T.d[p],
         c.state = "FormingGroup", ~Broken(T.n, e)
  PROVE  Grouped(S, p, e)
         = [d |-> [T.d EXCEPT ![p] = Parent(c, NewLine(S.n)), ![Exec(p[1])] = Child(c, NewLine(S.n))],
            n |-> Parting(T.n, p, e, NewLine(S.n), Exec(p[1]))]
  BY Zenon DEF Grouped, Parent, Child, Parting

LEMMA ParentChild ==
  ASSUME NEW c \in DaemonType, NEW l, <<l, "near">> \in End, <<l, "far">> \in End
  PROVE  LET b == Parent(c, l)
             x == Child(c, l)
         IN /\ b \in DaemonType /\ x \in DaemonType
            /\ b.state = "Supervising" /\ b.mode = c.mode /\ b.cache = c.cache /\ b.wait = c.wait
            /\ b.line = NoLines /\ b.rope = <<l, "near">> /\ b.todo = c.todo
            /\ x.state = "Grouped" /\ x.wait = c.wait /\ x.cache = c.line
            /\ x.line = c.line /\ x.rope = <<l, "far">> /\ x.todo = c.todo
  BY ConstantsType DEF DaemonType, State, Ends0, Parent, Child

LEMMA GroupedKept ==
  ASSUME NEW S, NEW p, NEW e, NEW K, NEW F, NEW V, Asked(S, p, e, {}, K, F, V),
         FreeLines(S.n) # {}, Says(S.n, e, {"Grouped"})
  PROVE  Kept(Grouped(S, p, e), p, {}, K, F, V)
<1> DEFINE T == Consume(S, e)
           c == S.d[p]
           l == NewLine(S.n)
           q == Exec(p[1])
           B == Backlog(T.n, p)
           s == Send(T.n, e, Msg("OK"))
           b == Parent(c, l)
           x == Child(c, l)
           n == Parting(T.n, p, e, l, q)
           W == [d |-> [T.d EXCEPT ![p] = c], n |-> s]
           R == Grouped(S, p, e)
<1>1. /\ S \in Situation /\ p \in Daemons /\ F \in SUBSET Hosts /\ Wired(S, p, {e}, {}, K, F, V)
      /\ c \in DaemonType /\ Rec(p, c) /\ e \in End
  BY AskedFacts
<1>2. T \in Situation /\ T.d = S.d /\ T.n \in NetType /\ FreeLines(T.n) = FreeLines(S.n)
      /\ T.n.hold = S.n.hold /\ T.n.ear = S.n.ear
  <2>1. T \in Situation /\ T.d = S.d
    BY AskedWent
  <2>2. Went(S, T, p, {e}, c, {e}, {})
    BY AskedWent
  <2>3. T.n.hold = S.n.hold /\ T.n.ear = S.n.ear
    BY <2>2 DEF Went, Moved, Calmed
  <2> QED BY <2>1, <2>3, Components, FreeLinesByHold
<1>3. CASE c.state # "FormingGroup"
  <2>1. R = Refuse(T, p, e)
    BY <1>2, <1>3 DEF Grouped
  <2> QED BY <2>1, RefusedKept
<1>4. CASE c.state = "FormingGroup" /\ Broken(T.n, e)
  <2>1. R = Raise(T, p)
    BY <1>2, <1>4 DEF Grouped
  <2> QED BY <2>1, RaiseKept
<1>5. CASE c.state = "FormingGroup" /\ ~Broken(T.n, e)
  <2>1. R = [d |-> [T.d EXCEPT ![p] = b, ![q] = x], n |-> n]
    <3> HIDE DEF T
    <3>1. c = T.d[p]
      BY <1>2
    <3> HIDE DEF c
    <3>2. T = Consume(S, e)
      BY DEF T
    <3> QED BY <1>5, <3>1, <3>2, GroupedParts
  <2>2. p[2] = "main" /\ MainRec(c) /\ c.wait.on = "no" /\ c.mode # "dead"
    BY <1>1, <1>5, ProcsFacts DEF Asked, Rec, ExecRec
  <2>3. Kept(Answer(T, p, e, "OK", c), p, {}, K, F, V)
    <3>1. Aside(S, p, e, {"OK"}, F) /\ "OK" \in Said /\ "OK" \in Code
      BY AskedAside DEF Said, Code
    <3>2. Goes(S, p, {e}, c, {e}, {"OK"}, F)
      BY <1>1, <3>1, StayGoes
    <3> QED BY <1>1, <3>1, <3>2, AnswerKept
  <2>4. Answer(T, p, e, "OK", c) = W
    BY <1>5 DEF Answer
  <2>5. W \in Situation /\ Wired(W, p, {}, {}, K, F, V)
    BY <2>3, <2>4 DEF Kept
  <2>6. W.n = s /\ W.d = S.d /\ W.d[p] = c
    BY <1>1, <1>2, Components
  <2>7. s \in NetType /\ s.hold = T.n.hold /\ s.ear = T.n.ear
    <3>1. Msg("OK") \in Message
      BY CodeFacts, MsgIsMessage DEF Code
    <3>2. Calmed(T.n, s, {e}, {"OK"})
      BY <1>2, <3>1, CalmSend DEF Msg
    <3> QED BY <2>5, <2>6, <3>2, Components DEF Calmed
  <2>8. l = NewLine(W.n) /\ FreeLines(W.n) # {} /\ B = Backlog(W.n, p)
    <3>1. FreeLines(W.n) = FreeLines(T.n)
      BY <2>6, <2>7, FreeLinesByHold
    <3>2. NewLine(W.n) = NewLine(S.n)
      <4> HIDE DEF W, T
      <4> QED BY <1>2, <3>1 DEF NewLine
    <3>3. W.n.ear = T.n.ear
      BY <2>6, <2>7
    <3>4. Backlog(W.n, p) = Backlog(T.n, p)
      <4> HIDE DEF W, T
      <4> QED BY <3>3 DEF Backlog
    <3> QED BY <1>2, <3>1, <3>2, <3>4
  <2>9. <<l, "near">> \in End /\ <<l, "far">> \in End
    BY <2>5, <2>8, FreeLineEnds, Components
  <2>10. n \in NetType /\ Forked(W.n, n, p, q, l, B)
    <3>1. n = SocketPair(Fork(W.n, p, q, B), l, p, q)
      BY <2>6 DEF Parting
    <3>2. Forked(W.n, n, p, q, l, B)
      <4> HIDE DEF n, l, B, q, W
      <4> QED BY <2>5, <2>9, <3>1, ForkNet, Components
    <3>3. l \in Lines
      BY <2>5, <2>8, FreeLineEnds, Components
    <3>4. n \in NetType
      <4>1. p \in Procs /\ q \in Procs
        BY <1>1, ProcsFacts
      <4> HIDE DEF l, B, s, q
      <4>2. n = SocketPair(Fork(s, p, q, B), l, p, q)
        BY DEF Parting, s, B
      <4> HIDE DEF n
      <4> QED BY <2>7, <3>3, <4>1, <4>2, ForkType, SocketPairType
    <3> QED BY <3>2, <3>4
  <2> HIDE DEF n, l, B, s, W
  <2>11. /\ b \in DaemonType /\ x \in DaemonType
         /\ b.state = "Supervising" /\ b.mode = c.mode /\ b.cache = c.cache /\ b.wait = c.wait
         /\ b.line = NoLines /\ b.rope = <<l, "near">> /\ b.todo = c.todo
         /\ x.state = "Grouped" /\ x.wait = c.wait /\ x.cache = c.line
         /\ x.line = c.line /\ x.rope = <<l, "far">> /\ x.todo = c.todo
    <3> HIDE DEF c, l
    <3> QED BY <1>1, <2>9, ParentChild
  <2> HIDE DEF b, x, c
  <2>12. MainRec(b) /\ ExecRec(x)
    BY <2>2, <2>11 DEF MainRec, ExecRec
  <2>13. /\ Uses(b) \subseteq Uses(c) \cup {<<l, "near">>}
         /\ Uses(x) \subseteq Uses(c) \cup {<<l, "far">>}
    <3>1. \A y \in Spot : NoLines[y] = NoEnd
      BY DEF NoLines
    <3> QED BY <2>11, <3>1 DEF Uses, Refs
  <2>14. q \in Daemons /\ q # p
    BY <1>1, <2>2, ProcsFacts, MainOrExec
  <2>15. /\ R \in Situation /\ R.n = n /\ R.d[p] = b /\ R.d[q] = x
         /\ \A r \in Daemons : r # p /\ r # q => R.d[r] = W.d[r]
    <3>1. T.d \in [Daemons -> DaemonType]
      BY <1>2, Components
    <3> HIDE DEF R, T, q
    <3>2. [T.d EXCEPT ![p] = b, ![q] = x] \in [Daemons -> DaemonType]
      BY <1>1, <2>11, <3>1
    <3> QED BY <1>1, <1>2, <2>1, <2>6, <2>10, <2>11, <2>14, <3>1, <3>2 DEF Situation
  <2>16. Wired(R, p, {}, {}, K, F, V)
    <3>1. W.d[p] = c /\ W.n \in NetType
      BY <2>5, <2>6, Components
    <3>2. q = Exec(p[1])
      OBVIOUS
    <3> HIDE DEF R, q, T
    <3> QED BY <1>1, <2>2, <2>5, <2>8, <2>10, <2>11, <2>12, <2>13, <2>15, <3>1, <3>2, ForkWired, SMTT(60)
  <2> QED BY <2>15, <2>16 DEF Kept
<1> QED BY <1>3, <1>4, <1>5

-----------------------------------------------------------------------------
(* What a handler does that neither connects nor forks.  The round goes on  *)
(* as it was or is over; nobody else is concerned but the executive, which  *)
(* may end; a process that ends holds nothing, and when it is the one that  *)
(* listens the backlog is lost; and nobody gets a descriptor.               *)
Loses(S, T, p) ==
  /\ \A q \in Daemons \ {p} : T.d[q] = S.d[q] \/ (q = Exec(p[1]) /\ T.d[q] = Dead)
  /\ \A q \in {p, Exec(p[1])} :
       T.d[q].mode = "dead" => S.d[q].mode = "dead" \/ \A e \in End : q \notin T.n.hold[e]
  /\ \A e \in End : /\ T.n.hold[e] \subseteq S.n.hold[e]
                    /\ \A q \in S.n.hold[e] : q \in T.n.hold[e] \/ q \in {p, Exec(p[1])}
Slim(S, T, p) ==
  /\ S \in Situation /\ T \in Situation /\ Loses(S, T, p)
  /\ T.d[p].todo \in {S.d[p].todo, Idle}
  /\ \A h \in Hosts : \/ T.n.ear[h] = S.n.ear[h]
                      \/ T.n.ear[h] = <<>> /\ p = Main(h) /\ \A e \in End : p \notin T.n.hold[e]

LEMMA SlimSame == ASSUME NEW S \in Situation, NEW p PROVE Slim(S, S, p)
BY DEF Slim, Loses

LEMMA LosesTrans ==
  ASSUME NEW S, NEW T, NEW U, NEW p, Loses(S, T, p), Loses(T, U, p) PROVE Loses(S, U, p)
<1>1. \A q \in Daemons \ {p} : U.d[q] = S.d[q] \/ (q = Exec(p[1]) /\ U.d[q] = Dead)
  BY DEF Loses
<1>2. \A e \in End : /\ U.n.hold[e] \subseteq S.n.hold[e]
                     /\ \A q \in S.n.hold[e] : q \in U.n.hold[e] \/ q \in {p, Exec(p[1])}
  BY DEF Loses
<1>3. ASSUME NEW q \in {p, Exec(p[1])}, U.d[q].mode = "dead", S.d[q].mode # "dead"
      PROVE  \A e \in End : q \notin U.n.hold[e]
  <2>1. T.d[q].mode = "dead" \/ \A e \in End : q \notin U.n.hold[e]
    BY <1>3 DEF Loses
  <2>2. T.d[q].mode = "dead" => \A e \in End : q \notin T.n.hold[e]
    BY <1>3 DEF Loses
  <2>3. \A e \in End : U.n.hold[e] \subseteq T.n.hold[e]
    BY DEF Loses
  <2> QED BY <2>1, <2>2, <2>3
<1> QED BY <1>1, <1>2, <1>3 DEF Loses

LEMMA SlimTrans ==
  ASSUME NEW S, NEW T, NEW U, NEW p, Slim(S, T, p), Slim(T, U, p) PROVE Slim(S, U, p)
<1>1. Loses(S, U, p) /\ \A e \in End : U.n.hold[e] \subseteq T.n.hold[e]
  BY LosesTrans DEF Slim, Loses
<1>2. S \in Situation /\ U \in Situation /\ U.d[p].todo \in {S.d[p].todo, Idle}
  BY DEF Slim
<1>3. ASSUME NEW h \in Hosts
      PROVE  \/ U.n.ear[h] = S.n.ear[h]
             \/ U.n.ear[h] = <<>> /\ p = Main(h) /\ \A e \in End : p \notin U.n.hold[e]
  <2>1. \/ U.n.ear[h] = T.n.ear[h]
        \/ U.n.ear[h] = <<>> /\ p = Main(h) /\ \A e \in End : p \notin U.n.hold[e]
    BY <1>3 DEF Slim
  <2>2. \/ T.n.ear[h] = S.n.ear[h]
        \/ T.n.ear[h] = <<>> /\ p = Main(h) /\ \A e \in End : p \notin T.n.hold[e]
    BY <1>3 DEF Slim
  <2> QED BY <1>1, <2>1, <2>2
<1> QED BY <1>1, <1>2, <1>3 DEF Slim

(* The record of the process changes, and what was sent or read.            *)
LEMMA SlimRecord ==
  ASSUME NEW S \in Situation, NEW p \in Daemons, NEW T \in Situation, NEW d,
         T.d = [S.d EXCEPT ![p] = d], d.todo \in {S.d[p].todo, Idle},
         d.mode = "dead" => S.d[p].mode = "dead",
         T.n.hold = S.n.hold, T.n.ear = S.n.ear
  PROVE  Slim(S, T, p)
<1>1. T.d[p] = d /\ \A q \in Daemons \ {p} : T.d[q] = S.d[q]
  BY Components
<1>2. Exec(p[1]) \in Daemons
  BY ProcsFacts
<1> QED BY <1>1, <1>2 DEF Slim, Loses

LEMMA SlimNet ==
  ASSUME NEW S \in Situation, NEW p, NEW T \in Situation,
         T.d = S.d, T.n.hold = S.n.hold, T.n.ear = S.n.ear
  PROVE  Slim(S, T, p)
BY DEF Slim, Loses

LEMMA SlimConsume ==
  ASSUME NEW S \in Situation, NEW p, NEW e PROVE Slim(S, Consume(S, e), p)
<1>1. Consume(S, e) \in Situation /\ Consume(S, e).d = S.d
  BY ConsumeType
<1>2. Consume(S, e).n = Receive(S.n, e)
  BY Components DEF Consume, Situation
<1>3. Consume(S, e).n.ear = S.n.ear /\ Consume(S, e).n.hold = S.n.hold
  BY <1>2, Components, ReceiveType
<1> QED BY <1>1, <1>3, SlimNet

LEMMA DieFacts ==
  ASSUME NEW S \in Situation, NEW q \in Daemons, NEW T, T = Die(S, q)
  PROVE  /\ T \in Situation /\ T.d = [S.d EXCEPT ![q] = Dead]
         /\ \A e \in End : T.n.hold[e] = S.n.hold[e] \ {q}
         /\ \A h \in Hosts : T.n.ear[h] = S.n.ear[h] \/ (T.n.ear[h] = <<>> /\ q = Main(h))
<1> DEFINE n == Keep(S.n, q, {})
<1>1. n \in NetType /\ n.ear = S.n.ear /\ \A e \in End : n.hold[e] = S.n.hold[e] \ {q}
  BY Components, KeepFacts
<1> HIDE DEF n
<1>2. T.n = (IF q[2] = "main" THEN Unlisten(n, q[1]) ELSE n) /\ T.d = [S.d EXCEPT ![q] = Dead]
  BY DEF Die, n
<1>3. /\ \A h \in Hosts : \/ Unlisten(n, q[1]).ear[h] = n.ear[h]
                          \/ Unlisten(n, q[1]).ear[h] = <<>> /\ h = q[1]
      /\ Unlisten(n, q[1]).hold = n.hold
  BY <1>1, ProcsFacts DEF Unlisten, NetType
<1>4. q[2] = "main" => q = Main(q[1])
  BY MainOrExec
<1> QED BY <1>1, <1>2, <1>3, <1>4, DieType

LEMMA SlimDie ==
  ASSUME NEW S \in Situation, NEW p \in Daemons, NEW q \in {p, Exec(p[1])} PROVE Slim(S, Die(S, q), p)
<1> DEFINE T == Die(S, q)
<1>1. q \in Daemons /\ Exec(p[1]) \in Daemons /\ \A h \in Hosts : Exec(p[1]) # Main(h)
  BY ProcsFacts, MainOrExec
<1>2. /\ T \in Situation /\ T.d = [S.d EXCEPT ![q] = Dead]
      /\ \A e \in End : T.n.hold[e] = S.n.hold[e] \ {q}
      /\ \A h \in Hosts : T.n.ear[h] = S.n.ear[h] \/ (T.n.ear[h] = <<>> /\ q = Main(h))
  BY <1>1, DieFacts
<1> HIDE DEF T
<1>3. T.d[q] = Dead /\ \A r \in Daemons : r # q => T.d[r] = S.d[r]
  BY <1>1, <1>2, Components
<1>4. Dead.todo = Idle
  BY DEF Dead
<1>5. Loses(S, T, p)
  BY <1>1, <1>2, <1>3 DEF Loses
<1>6. T.d[p].todo \in {S.d[p].todo, Idle}
  BY <1>3, <1>4
<1>7. \A h \in Hosts : \/ T.n.ear[h] = S.n.ear[h]
                       \/ T.n.ear[h] = <<>> /\ p = Main(h) /\ \A e \in End : p \notin T.n.hold[e]
  BY <1>1, <1>2
<1> QED BY <1>2, <1>5, <1>6, <1>7 DEF Slim, T

LEMMA SlimSetDefault ==
  ASSUME NEW S \in Situation, NEW p \in Daemons, NEW wait \in BOOLEAN
  PROVE  Slim(S, SetDefault(S, p, wait), p)
<1> DEFINE R == SetDefault(S, p, wait)
           b == Blank(S.d[p])
           w == [NoWait EXCEPT !.on = "bury"]
           U == [S EXCEPT !.d[p] = b]
           W == [U EXCEPT !.d[p].child = FALSE]
           X == [U EXCEPT !.d[p].wait = w]
<1>1. S.d[p] \in DaemonType /\ b \in DaemonType /\ b.todo = S.d[p].todo /\ b.mode = S.d[p].mode
  <2>1. S.d[p] \in DaemonType
    BY Components
  <2> QED BY <2>1, BlankType DEF Blank, DaemonType
<1>2. U \in Situation /\ U.n = S.n /\ U.d = [S.d EXCEPT ![p] = b] /\ U.d[p] = b
  BY <1>1, SetProc, Components DEF Situation
<1>3. w \in WaitType
  BY ConstantsType DEF WaitType
<1>4. R = WaitForChild(U, p, wait)
  BY DEF SetDefault
<1> HIDE DEF U, R, w, b
<1>5. Slim(S, U, p)
  BY <1>1, <1>2, SlimRecord
<1>6. /\ W \in Situation /\ W.n = U.n /\ W.d = [U.d EXCEPT ![p] = [b EXCEPT !.child = FALSE]]
      /\ X \in Situation /\ X.n = U.n /\ X.d = [U.d EXCEPT ![p] = [b EXCEPT !.wait = w]]
  BY <1>2, <1>3, SituationWith DEF Situation
<1>7. /\ [b EXCEPT !.child = FALSE].todo = b.todo /\ [b EXCEPT !.child = FALSE].mode = b.mode
      /\ [b EXCEPT !.wait = w].todo = b.todo /\ [b EXCEPT !.wait = w].mode = b.mode
  BY <1>1 DEF DaemonType
<1>8. R = U \/ R = X \/ R = Die(W, Exec(p[1]))
  BY <1>4 DEF WaitForChild, W, X, w
<1> HIDE DEF W, X
<1>9. Slim(U, W, p) /\ Slim(U, X, p)
  <2>1. Slim(U, W, p)
    BY <1>2, <1>6, <1>7, SlimRecord
  <2>2. Slim(U, X, p)
    BY <1>2, <1>6, <1>7, SlimRecord
  <2> QED BY <2>1, <2>2
<1>10. Slim(W, Die(W, Exec(p[1])), p)
  BY <1>6, SlimDie
<1>11. Slim(S, R, p)
  BY <1>5, <1>8, <1>9, <1>10, SlimTrans
<1> QED BY <1>11 DEF R

LEMMA SlimReset ==
  ASSUME NEW S \in Situation, NEW p \in Daemons, NEW code \in Code
  PROVE  Slim(S, Reset(S, p, code), p)
<1> DEFINE n == SendEach(S.n, PeerLines(S.d[p]), Msg(code))
           T == [S EXCEPT !.n = n]
<1>1. n \in NetType /\ n.ear = S.n.ear /\ n.hold = S.n.hold
  BY Components, PeerLinesType, SendEachType, MsgIsMessage
<1>2. T \in Situation /\ T.n = n /\ T.d = S.d
  BY <1>1, SetNet DEF Situation
<1>3. Reset(S, p, code) = SetDefault(T, p, FALSE)
  BY DEF Reset
<1> HIDE DEF n, T
<1>4. Slim(S, T, p)
  BY <1>1, <1>2, SlimNet
<1> QED BY <1>2, <1>3, <1>4, SlimSetDefault, SlimTrans

LEMMA SlimFinish ==
  ASSUME NEW S \in Situation, NEW p \in Daemons PROVE Slim(S, Finish(S, p), p)
<1> DEFINE R == Finish(S, p)
           c == S.d[p]
           e == c.line[<<0, Master>>]
           d == [c EXCEPT !.mode = "exit", !.todo = Idle, !.wait = NoWait]
           n == Send(S.n, e, Msg("Done"))
<1>1. c \in DaemonType /\ S.d \in [Daemons -> DaemonType]
  BY Components
<1>2. d.todo = Idle /\ d.mode = "exit"
  BY <1>1 DEF DaemonType
<1>3. n.ear = S.n.ear /\ n.hold = S.n.hold
  BY Components, SendType, MsgIsMessage, CodeFacts
<1>4. R \in Situation
  BY FinishType
<1>5. R = Die(S, p) \/ (R.n = n /\ R.d = [S.d EXCEPT ![p].mode = "exit", ![p].todo = Idle, ![p].wait = NoWait])
  BY DEF Finish
<1>6. [S.d EXCEPT ![p].mode = "exit", ![p].todo = Idle, ![p].wait = NoWait] = [S.d EXCEPT ![p] = d]
  BY <1>1
<1> HIDE DEF R, d, n, e, c
<1>7. CASE R = Die(S, p)
  BY <1>7, SlimDie DEF R
<1>8. CASE R.n = n /\ R.d = [S.d EXCEPT ![p] = d]
  <2>1. Slim(S, R, p)
    BY <1>2, <1>3, <1>4, <1>8, SlimRecord
  <2> QED BY <2>1 DEF R
<1> QED BY <1>5, <1>6, <1>7, <1>8

LEMMA SlimRaise ==
  ASSUME NEW S \in Situation, NEW p \in Daemons PROVE Slim(S, Raise(S, p), p)
<1> DEFINE T == [S EXCEPT !.d[p].wait = NoWait, !.d[p].todo = Idle]
           U == [S EXCEPT !.d[p].wait = NoWait]
           d == [S.d[p] EXCEPT !.wait = NoWait, !.todo = Idle]
<1>1. U \in Situation /\ T = [U EXCEPT !.d[p].todo = Idle]
  BY SituationWith, ConstantsType DEF Situation
<1>2. T \in Situation
  BY <1>1, SituationWith, ConstantsType
<1>3. /\ T.n = S.n /\ T.d = [S.d EXCEPT ![p] = d]
      /\ d.todo = Idle /\ d.mode = S.d[p].mode
  BY Components DEF Situation, DaemonType
<1>4. Raise(S, p) = Reset(T, p, "Error") \/ Raise(S, p) = Finish(T, p) \/ Raise(S, p) = Die(S, p)
  BY DEF Raise
<1> HIDE DEF T, d
<1>5. Slim(S, T, p)
  BY <1>2, <1>3, SlimRecord
<1>6. Slim(S, Reset(T, p, "Error"), p)
  BY <1>2, <1>5, SlimReset, SlimTrans, CodeFacts
<1>7. Slim(S, Finish(T, p), p)
  BY <1>2, <1>5, SlimFinish, SlimTrans
<1> QED BY <1>4, <1>6, <1>7, SlimDie

LEMMA SlimAnswer ==
  ASSUME NEW S \in Situation, NEW p \in Daemons, NEW e, NEW code \in Code, NEW d \in DaemonType,
         d.todo = S.d[p].todo, d.mode = S.d[p].mode
  PROVE  Slim(S, Answer(S, p, e, code, d), p)
<1> DEFINE R == Answer(S, p, e, code, d)
           n == Send(S.n, e, Msg(code))
<1>1. R \in Situation
  BY AnswerType
<1>2. R = Raise(S, p) \/ (R.d = [S.d EXCEPT ![p] = d] /\ R.n = n)
  BY DEF Answer
<1>3. n.ear = S.n.ear /\ n.hold = S.n.hold
  BY Components, SendType, MsgIsMessage
<1> HIDE DEF R, n
<1>4. CASE R = Raise(S, p)
  BY <1>4, SlimRaise DEF R
<1>5. CASE R.d = [S.d EXCEPT ![p] = d] /\ R.n = n
  <2>1. Slim(S, R, p)
    BY <1>1, <1>3, <1>5, SlimRecord
  <2> QED BY <2>1 DEF R
<1> QED BY <1>2, <1>4, <1>5

LEMMA SlimRefuse ==
  ASSUME NEW S \in Situation, NEW p \in Daemons, NEW e PROVE Slim(S, Refuse(S, p, e), p)
BY SlimAnswer, Components, CodeFacts DEF Refuse

(* What may arrive on a new connection never makes a handler connect.       *)
LEMMA SlimEnslave ==
  ASSUME NEW S \in Situation, NEW p \in Daemons, NEW e \in Ends0, NEW m \in Message, NEW late
  PROVE  Slim(S, Enslave(S, p, e, m, late), p)
<1> DEFINE T == Consume(S, e)
           i == Insert(S.d[p], 0, OneLine(e))
           d == [i EXCEPT !.rank = m.arg, !.state = "Enslaved"]
           R == Enslave(S, p, e, m, late)
<1>1. T \in Situation /\ T.d = S.d /\ Slim(S, T, p) /\ S.d[p] \in DaemonType
  BY ConsumeType, SlimConsume, Components
<1>2. i \in DaemonType /\ i.todo = S.d[p].todo /\ i.mode = S.d[p].mode
  <2>1. OneLine(e) \in [Chan -> Ends0]
    BY OneLineType
  <2>2. i \in DaemonType
    BY <1>1, <2>1, InsertType
  <2>3. i = S.d[p] \/ \E x : i = [S.d[p] EXCEPT !.line = x]
    BY Zenon DEF Insert
  <2> HIDE DEF i
  <2> QED BY <1>1, <2>2, <2>3 DEF DaemonType
<1> HIDE DEF i
<1>3. d \in DaemonType /\ d.todo = S.d[p].todo /\ d.mode = S.d[p].mode
  BY <1>2, MessageWith DEF DaemonType, State
<1> HIDE DEF d
<1>4. R = Refuse(S, p, e) \/ R = Raise(T, p) \/ R = Answer(T, p, e, "OK", d)
  BY DEF Enslave, d, i
<1>5. Slim(S, Raise(T, p), p) /\ Slim(S, Answer(T, p, e, "OK", d), p)
  BY <1>1, <1>3, SlimRaise, SlimAnswer, SlimTrans, CodeFacts
<1> QED BY <1>4, <1>5, SlimRefuse

LEMMA SlimJoin ==
  ASSUME NEW S \in Situation, NEW p \in Daemons, NEW e \in Ends0, NEW m \in Message, NEW late
  PROVE  Slim(S, Join(S, p, e, m, late), p)
<1> DEFINE T == Consume(S, e)
           i == Insert(T.d[p], m.arg, OneLine(e))
           R == Join(S, p, e, m, late)
<1>1. T \in Situation /\ T.d = S.d /\ Slim(S, T, p) /\ T.d[p] \in DaemonType
  BY ConsumeType, SlimConsume, Components
<1> HIDE DEF T
<1>2. i \in DaemonType /\ i.todo = T.d[p].todo /\ i.mode = T.d[p].mode
  <2>1. OneLine(e) \in [Chan -> Ends0]
    BY OneLineType
  <2>2. i \in DaemonType
    BY <1>1, <2>1, InsertType
  <2>3. i = T.d[p] \/ \E x : i = [T.d[p] EXCEPT !.line = x]
    BY Zenon DEF Insert
  <2> HIDE DEF i
  <2> QED BY <1>1, <2>2, <2>3 DEF DaemonType
<1> HIDE DEF i
<1>3. R = Refuse(T, p, e) \/ R = Raise(T, p) \/ R = Answer(T, p, e, "OK", i)
  BY DEF Join, T, i
<1>4. /\ Slim(T, Refuse(T, p, e), p) /\ Slim(T, Raise(T, p), p)
      /\ Slim(T, Answer(T, p, e, "OK", i), p)
  BY <1>1, <1>2, SlimRaise, SlimRefuse, SlimAnswer, CodeFacts
<1> QED BY <1>1, <1>3, <1>4, SlimTrans

LEMMA SlimAddDataLine ==
  ASSUME NEW S \in Situation, NEW p \in Daemons, NEW e \in Ends0, NEW m \in Message
  PROVE  Slim(S, AddDataLine(S, p, e, m), p)
<1> DEFINE T == Consume(S, e)
           d == T.d[p]
           i == [d EXCEPT !.line[<<m.arg, m.chan>>] = e]
           R == AddDataLine(S, p, e, m)
<1>1. T \in Situation /\ T.d = S.d /\ Slim(S, T, p) /\ d \in DaemonType
  BY ConsumeType, SlimConsume, Components
<1> HIDE DEF T
<1>2. i \in DaemonType /\ i.todo = d.todo /\ i.mode = d.mode
  <2> HIDE DEF d
  <2> QED BY <1>1 DEF DaemonType
<1>3. R = Refuse(T, p, e) \/ R = Answer(T, p, e, "OK", i)
  BY DEF AddDataLine, T
<1>4. /\ Slim(T, Refuse(T, p, e), p) /\ Slim(T, Answer(T, p, e, "OK", i), p)
  BY <1>1, <1>2, SlimRefuse, SlimAnswer, CodeFacts
<1> QED BY <1>1, <1>3, <1>4, SlimTrans

LEMMA SlimAnswered ==
  ASSUME NEW S \in Situation, NEW p \in Daemons, NEW e, NEW wait \in BOOLEAN
  PROVE  LET T == Consume(S, e)
             U == SetDefault(Answer(T, p, e, "OK", T.d[p]), p, wait)
         IN  Slim(S, U, p)
<1> DEFINE T == Consume(S, e)
           A == Answer(T, p, e, "OK", T.d[p])
<1>1. T \in Situation /\ Slim(S, T, p) /\ T.d[p] \in DaemonType
  BY ConsumeType, SlimConsume, Components
<1> HIDE DEF T
<1>2. Slim(T, A, p)
  BY <1>1, SlimAnswer, CodeFacts
<1> HIDE DEF A
<1>3. Slim(A, SetDefault(A, p, wait), p)
  BY <1>2, SlimSetDefault DEF Slim
<1>4. Slim(S, SetDefault(A, p, wait), p)
  BY <1>1, <1>2, <1>3, SlimTrans
<1> QED BY <1>4 DEF A, T

LEMMA SlimCommands ==
  ASSUME NEW S \in Situation, NEW p \in Daemons, NEW e
  PROVE  /\ Slim(S, CutRope(S, p, e), p)
         /\ Slim(S, Error(S, p, e), p)
         /\ Slim(S, StatusReply(S, p, e), p)
         /\ Slim(S, Shutdown(S, p, e), p)
         /\ Slim(S, ForceShutdown(S, p, e), p)
         /\ Slim(S, ForceReset(S, p, e), p)
         /\ Slim(S, Raise(Consume(S, e), p), p)
<1> DEFINE T == Consume(S, e)
<1>1. T \in Situation /\ T.d = S.d /\ Slim(S, T, p) /\ T.d[p] \in DaemonType
  BY ConsumeType, SlimConsume, Components
<1>2. /\ Slim(S, SetDefault(Answer(T, p, e, "OK", T.d[p]), p, TRUE), p)
      /\ Slim(S, SetDefault(Answer(T, p, e, "OK", T.d[p]), p, FALSE), p)
  BY SlimAnswered
<1> HIDE DEF T
<1>3. /\ Slim(S, Refuse(T, p, e), p) /\ Slim(S, Raise(T, p), p)
      /\ Slim(S, SetDefault(T, p, FALSE), p)
      /\ Slim(S, Reset(T, p, "Error"), p) /\ Slim(S, Reset(T, p, "Renegade"), p)
  <2>1. /\ Slim(T, Refuse(T, p, e), p) /\ Slim(T, Raise(T, p), p)
        /\ Slim(T, SetDefault(T, p, FALSE), p)
        /\ Slim(T, Reset(T, p, "Error"), p) /\ Slim(T, Reset(T, p, "Renegade"), p)
    BY <1>1, SlimRefuse, SlimRaise, SlimSetDefault, SlimReset, CodeFacts
  <2> QED BY <1>1, <2>1, SlimTrans
<1>4. Slim(S, CutRope(S, p, e), p)
  BY <1>2, <1>3 DEF CutRope, T
<1>5. Slim(S, Error(S, p, e), p)
  BY <1>3 DEF Error, T
<1>6. Slim(S, StatusReply(S, p, e), p)
  <2>1. Slim(T, Answer(T, p, e, "Status", S.d[p]), p)
    BY <1>1, SlimAnswer, CodeFacts
  <2> QED BY <1>1, <2>1, SlimTrans DEF StatusReply, T
<1>7. /\ Slim(S, Die(SetDefault(Answer(T, p, e, "OK", T.d[p]), p, FALSE), p), p)
      /\ Slim(S, Die(SetDefault(T, p, FALSE), p), p)
  <2> DEFINE A == SetDefault(Answer(T, p, e, "OK", T.d[p]), p, FALSE)
             B == SetDefault(T, p, FALSE)
  <2>1. Slim(S, A, p) /\ Slim(S, B, p) /\ A \in Situation /\ B \in Situation
    BY <1>2, <1>3 DEF Slim
  <2> HIDE DEF A, B
  <2>2. Slim(A, Die(A, p), p) /\ Slim(B, Die(B, p), p)
    BY <2>1, SlimDie
  <2>3. Slim(S, Die(A, p), p) /\ Slim(S, Die(B, p), p)
    BY <2>1, <2>2, SlimTrans
  <2> QED BY <2>3 DEF A, B
<1>8. Slim(S, Shutdown(S, p, e), p) /\ Slim(S, ForceShutdown(S, p, e), p)
  BY <1>3, <1>7 DEF Shutdown, ForceShutdown, T
<1>9. Slim(S, ForceReset(S, p, e), p)
  BY <1>1, <1>3 DEF ForceReset, T
<1> QED BY <1>3, <1>4, <1>5, <1>6, <1>8, <1>9 DEF T

LEMMA SlimControl ==
  ASSUME NEW S \in Situation, NEW p \in Daemons, NEW e \in Ends0, NEW late,
         Peek(S.n, e).tag \notin ClientCode
  PROVE  Slim(S, ProcessControl(S, p, e, late), p)
<1> DEFINE m == Peek(S.n, e)
<1>1. m \in Message
  BY Components, PeekType
<1>2. /\ m.tag # "Disconnect" /\ m.tag # "Peers" /\ m.tag # "ConnectTo" /\ m.tag # "Grouped"
      /\ m.tag # "InitialData" /\ m.tag # "Run" /\ m.tag # "PrepareToLeave" /\ m.tag # "Leave"
  BY DEF ClientCode
<1> HIDE DEF m
<1>3. /\ Slim(S, Enslave(S, p, e, m, late), p)
      /\ Slim(S, Join(S, p, e, m, late), p)
      /\ Slim(S, AddDataLine(S, p, e, m), p)
  BY <1>1, SlimEnslave, SlimJoin, SlimAddDataLine
<1> QED BY <1>2, <1>3, SlimCommands DEF ProcessControl, m

(* Whatever has arrived except Enslave is handled by the lines' rules.      *)
LEMMA ProcessControlKept ==
  ASSUME NEW S, NEW p, NEW e, NEW K, NEW F, NEW V, Asked(S, p, e, {}, K, F, V),
         \A x \in K : S.n.hold[x] # {}, FreeLines(S.n) # {}, ~Says(S.n, e, {"Enslave"}), NEW late
  PROVE  Kept(ProcessControl(S, p, e, late), p, {}, K, F, V)
<1> DEFINE m == Peek(S.n, e)
<1>1. S.n \in NetType
  BY AskedFacts
<1>2. m \in Message
  BY <1>1, PeekType
<1>3. m.tag # "None" => m \in Msgs(S.n, e) /\ \A D : m.tag \in D => Says(S.n, e, D)
  BY <1>1, Peeked
<1> HIDE DEF m
<1>4. m.tag # "Enslave"
  BY <1>3
<1>5. /\ Kept(Release(S, p, e), p, {}, K, F, V)
      /\ Kept(Run(S, p, e), p, {}, K, F, V)
      /\ Kept(Leave(S, p, e), p, {}, K, F, V)
      /\ Kept(CutRope(S, p, e), p, {}, K, F, V)
      /\ Kept(Error(S, p, e), p, {}, K, F, V)
      /\ Kept(Shutdown(S, p, e), p, {}, K, F, V)
      /\ Kept(ForceShutdown(S, p, e), p, {}, K, F, V)
      /\ Kept(ForceReset(S, p, e), p, {}, K, F, V)
      /\ Kept(Raise(Consume(S, e), p), p, {}, K, F, V)
  BY ReleaseKept, RunKept, LeaveKept, CutRopeKept, ErrorKept, ShutdownKept, ForceShutdownKept,
     ForceResetKept, RaiseKept
<1>6. m.tag = "Peers" => Kept(StartGrouping(S, p, e, m), p, {}, K, F, V)
  BY <1>2, <1>3, StartGroupingKept
<1>7. m.tag = "ConnectTo" => Kept(Connecting(S, p, e, m), p, {}, K, F, V)
  BY <1>2, <1>3, ConnectingKept
<1>8. m.tag = "Join" => Kept(Join(S, p, e, m, late), p, {}, K, F, V)
  BY <1>2, <1>3, JoinKept
<1>9. m.tag = "DataLine" => Kept(AddDataLine(S, p, e, m), p, {}, K, F, V)
  BY <1>2, <1>3, AddDataLineKept
<1>10. m.tag = "Grouped" => Kept(Grouped(S, p, e), p, {}, K, F, V)
  BY <1>3, GroupedKept
<1>11. m.tag = "InitialData" => Kept(InitData(S, p, e), p, {}, K, F, V)
  BY <1>3, InitDataKept
<1>12. m.tag = "PrepareToLeave" => Kept(Prepare(S, p, e), p, {}, K, F, V)
  BY <1>3, PrepareKept
<1>13. m.tag = "Status" => Kept(StatusReply(S, p, e), p, {}, K, F, V)
  BY <1>3, StatusKept
<1> QED BY <1>4, <1>5, <1>6, <1>7, <1>8, <1>9, <1>10, <1>11, <1>12, <1>13 DEF ProcessControl, m

LEMMA ProcessDisconnectedKept ==
  ASSUME NEW S, NEW p, NEW e, NEW K, NEW F, NEW V, Asked(S, p, e, {}, K, F, V)
  PROVE  Kept(ProcessDisconnected(S, p), p, {}, K, F, V)
<1>1. Kept(SetDefault(S, p, FALSE), p, {}, K, F, V) /\ Kept(Die(S, p), p, {}, K, F, V)
  BY SetDefaultKept, DieKept
<1>2. S.d[p].state = "Leaving" => Kept(S, p, {}, K, F, V)
  <2> SUFFICES ASSUME S.d[p].state = "Leaving" PROVE Kept(S, p, {}, K, F, V)
    OBVIOUS
  <2>1. p[2] # "main"
    BY AskedFacts DEF Rec, MainRec
  <2> QED BY <2>1, ReadKept
<1> QED BY <1>1, <1>2 DEF ProcessDisconnected

-----------------------------------------------------------------------------
(* A connection is taken from the backlog.                                  *)
LEMMA TailOfDistinct ==
  ASSUME NEW s \in Seq(End), s # <<>>, \A i, j \in DOMAIN s : s[i] = s[j] => i = j,
         NEW t, t = Tail(s)
  PROVE  /\ Head(s) \in {s[i] : i \in DOMAIN s}
         /\ {t[i] : i \in DOMAIN t} = {s[i] : i \in DOMAIN s} \ {Head(s)}
         /\ \A i, j \in DOMAIN t : t[i] = t[j] => i = j
<1>1. /\ DOMAIN s = 1..Len(s) /\ Len(s) \in Nat /\ Len(s) > 0 /\ Head(s) = s[1]
      /\ DOMAIN t = 1..(Len(s) - 1)
      /\ \A i \in 1..(Len(s) - 1) : t[i] = s[i + 1]
  OBVIOUS
<1>2. Head(s) \in {s[i] : i \in DOMAIN s}
  BY <1>1
<1>3. \A i \in DOMAIN t : i + 1 \in DOMAIN s /\ t[i] = s[i + 1] /\ s[i + 1] # s[1]
  BY <1>1
<1>4. \A i, j \in DOMAIN t : t[i] = t[j] => i = j
  BY <1>1, <1>3
<1>5. \A i \in DOMAIN s : s[i] # s[1] => \E j \in DOMAIN t : t[j] = s[i]
  <2> SUFFICES ASSUME NEW i \in DOMAIN s, s[i] # s[1] PROVE \E j \in DOMAIN t : t[j] = s[i]
    OBVIOUS
  <2>1. i - 1 \in DOMAIN t /\ t[i - 1] = s[i]
    BY <1>1
  <2> QED BY <2>1
<1>6. {t[i] : i \in DOMAIN t} = {s[i] : i \in DOMAIN s} \ {Head(s)}
  <2> DEFINE Q == {s[i] : i \in DOMAIN s}
             R == {t[i] : i \in DOMAIN t}
  <2>1. \A x \in R : x \in Q /\ x # Head(s)
    BY <1>1, <1>3
  <2>2. \A x \in Q : x # Head(s) => x \in R
    BY <1>1, <1>5
  <2> HIDE DEF Q, R
  <2>3. R = Q \ {Head(s)}
    BY <2>1, <2>2
  <2> QED BY <2>3 DEF Q, R
<1> QED BY <1>2, <1>4, <1>6

LEMMA AcceptFacts ==
  ASSUME NEW n \in NetType, NEW h \in Hosts, n.ear[h] # <<>>, NEW o, o = Accept(n, h)
  PROVE  /\ o \in NetType /\ o.hold = n.hold /\ o.box = n.box
         /\ o.ear[h] = Tail(n.ear[h]) /\ n.ear[h] \in Seq(End)
         /\ \A g \in Hosts : g # h => o.ear[g] = n.ear[g]
<1>1. o \in NetType
  BY AcceptType
<1> QED BY <1>1 DEF Accept, NetType

(* A connection taken at the listening socket.                              *)
Taken(S, T, p, e, K, F, V) ==
  /\ T \in Situation /\ T.d = S.d /\ T.n.hold = S.n.hold /\ T.n.box = S.n.box
  /\ Wired(T, p, {e}, {e}, K, F, V)
  /\ e \in End /\ e[2] = "far" /\ S.n.hold[e] = {p} /\ e \notin Uses(S.d[p])
  /\ S.n.box[Other(e)] = <<>> /\ ~Says(S.n, e, ClientCode)
  /\ Says(S.n, e, {"Enslave"}) => Len(S.n.box[e]) = 1
  /\ \A h \in Hosts : e \notin Queue(T.n, h)

LEMMA AcceptWired ==
  ASSUME NEW S \in Situation, NEW p \in Daemons, p[2] = "main", S.n.ear[p[1]] # <<>>,
         NEW K, NEW F \in SUBSET Hosts, NEW V, Wired(S, p, {}, {}, K, F, V),
         NEW e, e = Head(S.n.ear[p[1]])
  PROVE  Taken(S, [S EXCEPT !.n = Accept(S.n, p[1])], p, e, K, F, V)
<1> DEFINE T == [S EXCEPT !.n = Accept(S.n, p[1])]
           o == Accept(S.n, p[1])
<1>0. T = [S EXCEPT !.n = o]
  OBVIOUS
<1>1. /\ Owned(S, p, {}) /\ Queued(S, {}, K) /\ Enslaving(S, p, {}) /\ Emptied(S)
      /\ Joining(S) /\ Formed(S, p, {}) /\ Records(S) /\ Frozen(S, F, V)
  BY WiredOwned
<1>2. S.n \in NetType /\ p[1] \in Hosts /\ p = Main(p[1])
  BY Components, ProcsFacts, MainOrExec
<1>3. /\ o \in NetType /\ o.hold = S.n.hold /\ o.box = S.n.box
      /\ o.ear[p[1]] = Tail(S.n.ear[p[1]]) /\ S.n.ear[p[1]] \in Seq(End)
      /\ \A g \in Hosts : g # p[1] => o.ear[g] = S.n.ear[g]
  BY <1>2, AcceptFacts
<1> HIDE DEF o, T
<1>4. T \in Situation /\ T.d = S.d /\ T.n = o
  BY <1>0, <1>3, SetNet DEF Situation
<1>5. /\ e \in Queue(S.n, p[1])
      /\ Queue(o, p[1]) = Queue(S.n, p[1]) \ {e}
      /\ \A i, j \in DOMAIN o.ear[p[1]] : o.ear[p[1]][i] = o.ear[p[1]][j] => i = j
  <2>1. \A i, j \in DOMAIN S.n.ear[p[1]] : S.n.ear[p[1]][i] = S.n.ear[p[1]][j] => i = j
    BY <1>1, <1>2 DEF Queued
  <2> DEFINE s == S.n.ear[p[1]]
             t == Tail(s)
  <2>2. s \in Seq(End) /\ s # <<>> /\ e = Head(s) /\ o.ear[p[1]] = t
    BY <1>3
  <2> HIDE DEF s, t
  <2>3. \A i, j \in DOMAIN s : s[i] = s[j] => i = j
    BY <2>1 DEF s
  <2>4. /\ e \in {s[i] : i \in DOMAIN s}
        /\ {t[i] : i \in DOMAIN t} = {s[i] : i \in DOMAIN s} \ {e}
        /\ \A i, j \in DOMAIN t : t[i] = t[j] => i = j
    <3>1. t = Tail(s)
      BY DEF t
    <3>2. /\ Head(s) \in {s[i] : i \in DOMAIN s}
          /\ {t[i] : i \in DOMAIN t} = {s[i] : i \in DOMAIN s} \ {Head(s)}
          /\ \A i, j \in DOMAIN t : t[i] = t[j] => i = j
      BY <2>2, <2>3, <3>1, TailOfDistinct, Zenon
    <3> QED BY <2>2, <3>2, Zenon
  <2>5. Queue(S.n, p[1]) = {s[i] : i \in DOMAIN s}
    BY DEF Queue, s
  <2>6. Queue(o, p[1]) = {t[i] : i \in DOMAIN t}
    BY <2>2 DEF Queue
  <2> QED BY <2>2, <2>4, <2>5, <2>6
<1>6. /\ e[2] = "far" /\ S.n.hold[e] = {p} /\ e \notin Uses(S.d[p])
      /\ Other(e) \notin K /\ S.n.box[Other(e)] = <<>> /\ ~Says(S.n, e, ClientCode)
  BY <1>1, <1>2, <1>5 DEF Queued
<1>7. \A h \in Hosts : h # p[1] => e \notin Queue(S.n, h) /\ Queue(o, h) = Queue(S.n, h)
  <2> SUFFICES ASSUME NEW h \in Hosts, h # p[1]
               PROVE  e \notin Queue(S.n, h) /\ Queue(o, h) = Queue(S.n, h)
    OBVIOUS
  <2>1. Main(h) # p
    BY <1>2, MainOrExec
  <2>2. e \in Queue(S.n, h) => S.n.hold[e] = {Main(h)}
    BY <1>1 DEF Queued
  <2> QED BY <1>3, <1>6, <2>1, <2>2 DEF Queue
<1>8. \A h \in Hosts : Queue(o, h) = Queue(S.n, h) \ {e}
  BY <1>5, <1>7
<1>9. e \in End
  BY <1>2, <1>5, QueueEnds
<1>10. \A x : Msgs(o, x) = Msgs(S.n, x)
  BY <1>3 DEF Msgs
<1>11. \A x, D : Says(o, x, D) <=> Says(S.n, x, D)
  BY <1>10 DEF Says
<1>12. \A x : Peer(o, x) <=> Peer(S.n, x)
  BY <1>3, <1>11 DEF Peer
<1>13. Owned(T, p, {e})
  BY <1>1, <1>3, <1>4, <1>6, <1>9 DEF Owned
<1>14. Queued(T, {e}, K)
  <2> SUFFICES ASSUME NEW h \in Hosts
               PROVE  /\ \A x \in Queue(o, h) :
                           /\ x[2] = "far" /\ o.hold[x] = {Main(h)}
                           /\ x \notin Uses(S.d[Main(h)]) /\ x \notin {e}
                           /\ Other(x) \notin K /\ o.box[Other(x)] = <<>> /\ ~Says(o, x, ClientCode)
                      /\ \A i, j \in DOMAIN o.ear[h] : o.ear[h][i] = o.ear[h][j] => i = j
    BY <1>4 DEF Queued
  <2>1. \A x \in Queue(o, h) :
          /\ x[2] = "far" /\ o.hold[x] = {Main(h)}
          /\ x \notin Uses(S.d[Main(h)]) /\ x \notin {e}
          /\ Other(x) \notin K /\ o.box[Other(x)] = <<>> /\ ~Says(o, x, ClientCode)
    BY <1>1, <1>3, <1>8, <1>11 DEF Queued
  <2>2. \A i, j \in DOMAIN o.ear[h] : o.ear[h][i] = o.ear[h][j] => i = j
    <3>1. \A i, j \in DOMAIN S.n.ear[h] : S.n.ear[h][i] = S.n.ear[h][j] => i = j
      BY <1>1 DEF Queued
    <3>2. h # p[1] => o.ear[h] = S.n.ear[h]
      BY <1>3
    <3> QED BY <1>5, <3>1, <3>2
  <2> QED BY <2>1, <2>2
<1>15. Enslaving(T, p, {e})
  <2> SUFFICES ASSUME NEW x \in End, Says(S.n, x, {"Enslave"})
               PROVE  /\ S.n.hold[Other(x)] \cap Daemons = {}
                      /\ IF x \in {e} THEN S.n.hold[x] \subseteq {p}
                         ELSE Len(S.n.box[x]) = 1 /\ \E h \in Hosts : x \in Queue(o, h)
    BY <1>3, <1>4, <1>11 DEF Enslaving
  <2> QED BY <1>1, <1>6, <1>8 DEF Enslaving
<1>16. Says(S.n, e, {"Enslave"}) => Len(S.n.box[e]) = 1
  BY <1>1, <1>9 DEF Enslaving
<1>17. Emptied(T) /\ Joining(T) /\ Records(T)
  BY <1>1, <1>3, <1>4, <1>10, <1>11, <1>12 DEF Emptied, Joining, Records
<1>18. Formed(T, p, {e})
  <2> SUFFICES ASSUME NEW h \in Hosts
               PROVE  FormOk(o, S.d[Main(h)], Main(h), IF Main(h) = p THEN {e} ELSE {})
    BY <1>4 DEF Formed
  <2>1. FormOk(S.n, S.d[Main(h)], Main(h), {})
    BY <1>1 DEF Formed
  <2> QED BY <1>3, <1>6, <1>10, <1>11, <1>12, <2>1 DEF FormOk
<1>19. Frozen(T, F, V)
  <2>1. \A d : View(o, d) = View(S.n, d)
    BY <1>3 DEF View
  <2> QED BY <1>1, <1>3, <1>4, <2>1 DEF Frozen, Seen, Lent
<1>20. Wired(T, p, {e}, {e}, K, F, V)
  BY <1>13, <1>14, <1>15, <1>17, <1>18, <1>19 DEF Wired
<1>21. \A h \in Hosts : e \notin Queue(T.n, h)
  BY <1>4, <1>8
<1>22. /\ T.n.hold = S.n.hold /\ T.n.box = S.n.box
       /\ e \in End /\ e[2] = "far" /\ S.n.hold[e] = {p} /\ e \notin Uses(S.d[p])
       /\ S.n.box[Other(e)] = <<>> /\ ~Says(S.n, e, ClientCode)
  BY <1>3, <1>4, <1>6, <1>9
<1>23. Taken(S, T, p, e, K, F, V)
  BY <1>4, <1>16, <1>20, <1>21, <1>22, Zenon DEF Taken
<1> QED BY <1>23 DEF T, o

(* No message Enslave is left where one was accepted.                       *)
LEMMA EnslavedOff ==
  ASSUME NEW S, NEW p, NEW X, NEW e, NEW K, NEW F, NEW V, Wired(S, p, X, {e}, K, F, V),
         ~Says(S.n, e, {"Enslave"})
  PROVE  Wired(S, p, X, {}, K, F, V)
<1>1. Enslaving(S, p, {})
  BY DEF Wired, Enslaving
<1> QED BY <1>1 DEF Wired

LEMMA HomeUsed ==
  ASSUME NEW S, NEW p \in Daemons, p[2] = "main", NEW A, NEW K, NEW F, NEW V, Kept(S, p, A, K, F, V),
         Forming(S.d[p])
  PROVE  /\ Home(S.d[p]) \in Refs(S.d[p]) /\ Home(S.d[p]) \in Uses(S.d[p])
         /\ Home(S.d[p]) \in End /\ S.n.hold[Home(S.d[p])] = {p}
<1>1. Formed(S, p, {}) /\ p[1] \in Hosts /\ p = Main(p[1])
  BY WiredOwned, ProcsFacts, MainOrExec DEF Kept
<1>2. FormOk(S.n, S.d[p], p, {})
  BY <1>1 DEF Formed
<1>3. Home(S.d[p]) \in End /\ S.n.hold[Home(S.d[p])] = {p}
  BY <1>2 DEF FormOk
<1>4. <<0, Master>> \in Spot
  BY MasterIsChan, WireAssumption DEF Spot, Ranks
<1>5. Home(S.d[p]) \in Refs(S.d[p])
  BY <1>4 DEF Home, Refs
<1> QED BY <1>3, <1>5, NoEndIsNoEnd DEF Uses

LEMMA OnlyMessage ==
  ASSUME NEW n \in NetType, NEW e \in End, Len(n.box[e]) = 1, NEW D, Says(n, e, D)
  PROVE  Peek(n, e).tag \in D
<1>1. n.box[e] \in Seq(Message)
  BY DEF NetType
<1>2. \A s \in Seq(Message) : Len(s) = 1 => s # <<>> /\ \A i \in DOMAIN s : s[i] = Head(s)
  <2> SUFFICES ASSUME NEW s \in Seq(Message), Len(s) = 1
               PROVE  s # <<>> /\ \A i \in DOMAIN s : s[i] = Head(s)
    OBVIOUS
  <2>1. s # <<>>
    BY OneMessage
  <2>2. DOMAIN s = 1..Len(s)
    OBVIOUS
  <2>3. Head(s) = s[1]
    BY <2>1
  <2>4. \A i \in DOMAIN s : i = 1
    BY <2>2
  <2> QED BY <2>1, <2>3, <2>4
<1>3. n.box[e] # <<>> /\ \A i \in DOMAIN n.box[e] : n.box[e][i] = Head(n.box[e])
  BY <1>1, <1>2
<1>4. \A m \in Msgs(n, e) : m = Peek(n, e)
  BY <1>3 DEF Msgs, Peek
<1> QED BY <1>4 DEF Says

(* What Enslave leaves when it came as the only message of its channel.     *)
EnslaveDone(S, T, p, e, A, K, F, V) ==
  /\ Kept(T, p, A, K, F, V)
  /\ \/ Lean(T.d[p], S.d[p])
     \/ ~Says(T.n, e, {"Enslave"}) /\ Fresher(T.n, T.d[p], e)

LEMMA ControlEnslaved ==
  ASSUME NEW S, NEW p, NEW e, NEW A, NEW K, NEW F, NEW V, Asked(S, p, e, A, K, F, V),
         p[2] = "main", S.d[p].state = "Free" => p[1] \notin F, Accepted(S, p, e),
         Peek(S.n, e).tag = "Enslave", NEW late
  PROVE  EnslaveDone(S, ProcessControl(S, p, e, late), p, e, A, K, F, V)
<1> DEFINE m == Peek(S.n, e)
<1>1. S.n \in NetType
  BY AskedFacts
<1>2. m \in Message /\ m.tag = "Enslave"
  BY <1>1, PeekType
<1>3. Says(S.n, e, {"Enslave"})
  BY <1>1, <1>2, Peeked
<1> HIDE DEF m
<1>4. EnslaveDone(S, Enslave(S, p, e, m, late), p, e, A, K, F, V)
  BY <1>2, <1>3, EnslaveKept DEF EnslaveDone
<1> QED BY <1>2, <1>4 DEF ProcessControl, m

(* What a new connection says is handled, and the connection is let go      *)
(* unless it was filed.                                                     *)
Unfiled(T, p, e) == [T EXCEPT !.n = Keep(@, p, End \ {e})]

LEMMA LetGoIncoming ==
  ASSUME NEW T, NEW p \in Daemons, NEW e \in End, NEW A, A = {} \/ A = {e}, NEW K, NEW F \in SUBSET Hosts, NEW V,
         Kept(T, p, A, K, F, V), e \notin Uses(T.d[p]), \A h \in Hosts : e \notin Queue(T.n, h)
  PROVE  Kept(Unfiled(T, p, e), p, {}, K, F, V) /\ Unfiled(T, p, e).d = T.d
<1> DEFINE R == Unfiled(T, p, e)
<1>0. R = [T EXCEPT !.n = Keep(T.n, p, End \ {e})]
  BY DEF Unfiled
<1> HIDE DEF R
<1>1. T \in Situation /\ Wired(T, p, {}, A, K, F, V) /\ T.n \in NetType /\ T.d[p] \in DaemonType
  BY Components DEF Kept
<1> DEFINE keep == End \ {e}
           o == Keep(T.n, p, keep)
<1>2. Uses(T.d[p]) \subseteq keep
  BY <1>1, UsesType
<1>3. \A h \in Hosts : \A x \in Queue(T.n, h) : p \in T.n.hold[x] => x \in keep
  BY <1>1, QueueEnds
<1>4. /\ o \in NetType
      /\ \A x \in End : /\ x \notin keep => o.hold[x] = T.n.hold[x] \ {p}
                        /\ o.hold[x] = {} => o.box[x] = <<>>
  BY <1>1, KeepFacts
<1> HIDE DEF keep, o
<1>5. R = [T EXCEPT !.n = o]
  BY <1>0 DEF o, keep
<1>6. LetGo(T, R, p)
  BY <1>1, <1>2, <1>3, <1>5, KeepLetGo DEF o
<1>7. Wired(R, p, {}, A, K, F, V)
  BY <1>1, <1>6, LetGoWired
<1>8. R \in Situation /\ R.n = o /\ R.d = T.d
  BY <1>1, <1>4, <1>5, SetNet DEF Situation
<1>9. Wired(R, p, {}, {}, K, F, V)
  <2>1. CASE A = {}
    BY <1>7, <2>1
  <2>2. CASE A = {e}
    <3>1. ~Says(o, e, {"Enslave"})
      <4> SUFFICES ASSUME Says(o, e, {"Enslave"}) PROVE FALSE
        OBVIOUS
      <4>1. Enslaving(R, p, {e})
        BY <1>7, <2>2, WiredOwned
      <4>2. o.hold[e] \subseteq {p}
        BY <1>8, <4>1 DEF Enslaving
      <4>3. o.hold[e] = T.n.hold[e] \ {p}
        BY <1>4 DEF keep
      <4>4. o.box[e] = <<>>
        BY <1>4, <4>2, <4>3
      <4> QED BY <4>4 DEF Says, Msgs
    <3> QED BY <1>7, <1>8, <2>2, <3>1, EnslavedOff
  <2> QED BY <2>1, <2>2
<1> QED BY <1>8, <1>9 DEF Kept, R

LEMMA QueueLess ==
  ASSUME NEW n, NEW o, NEW h, o.ear[h] = n.ear[h] \/ o.ear[h] = <<>>
  PROVE  Queue(o, h) \subseteq Queue(n, h)
BY DEF Queue

LEMMA TodoUses ==
  ASSUME NEW d, NEW c, NEW e \in End, e \notin Uses(c), e \notin Refs(d), d.todo \in {c.todo, Idle}
  PROVE  e \notin Uses(d)
BY DEF Uses, Idle

IncomingDone(S, R, p, e, K, F, V) ==
  /\ Kept(R, p, {}, K, F, V)
  /\ Says(S.n, e, {"Enslave"}) /\ S.d[p].state = "Free" /\ Forming(R.d[p]) => Fresher(R.n, R.d[p], e)

LEMMA IncomingLean ==
  ASSUME NEW S, NEW N, NEW T, NEW p \in Daemons, p[2] = "main", NEW e, NEW K, NEW F \in SUBSET Hosts, NEW V,
         Taken(S, N, p, e, K, F, V), Slim(N, T, p)
  PROVE  /\ e \in End /\ e \notin Uses(S.d[p])
         /\ \A h \in Hosts : e \notin Queue(T.n, h)
         /\ e \notin Refs(T.d[p]) => e \notin Uses(T.d[p])
         /\ e \in Refs(T.d[p]) => e \in Uses(T.d[p])
<1>1. e \in End /\ e \notin Uses(S.d[p]) /\ N.d = S.d
  BY DEF Taken
<1>2. \A h \in Hosts : e \notin Queue(N.n, h)
  BY DEF Taken
<1>3. \A h \in Hosts : T.n.ear[h] = N.n.ear[h] \/ T.n.ear[h] = <<>>
  BY DEF Slim
<1>4. \A h \in Hosts : Queue(T.n, h) \subseteq Queue(N.n, h)
  BY <1>3, QueueLess
<1>5. T.d[p].todo \in {S.d[p].todo, Idle}
  BY <1>1 DEF Slim
<1>6. e \notin Refs(T.d[p]) => e \notin Uses(T.d[p])
  BY <1>1, <1>5, TodoUses
<1>7. e \in Refs(T.d[p]) => e \in Uses(T.d[p])
  BY <1>1, NoEndIsNoEnd DEF Uses
<1> QED BY <1>1, <1>2, <1>4, <1>6, <1>7

LEMMA IncomingPlain ==
  ASSUME NEW S, NEW N, NEW T, NEW p \in Daemons, p[2] = "main", NEW e, NEW K, NEW F \in SUBSET Hosts, NEW V,
         Taken(S, N, p, e, K, F, V), Slim(N, T, p), ~Says(S.n, e, {"Enslave"}), Kept(T, p, {}, K, F, V)
  PROVE  IncomingDone(S, IF e \in Refs(T.d[p]) THEN T ELSE Unfiled(T, p, e), p, e, K, F, V)
<1>1. /\ e \in End /\ \A h \in Hosts : e \notin Queue(T.n, h)
      /\ e \notin Refs(T.d[p]) => e \notin Uses(T.d[p])
  BY IncomingLean
<1>2. e \notin Refs(T.d[p]) => Kept(Unfiled(T, p, e), p, {}, K, F, V)
  BY <1>1, LetGoIncoming
<1>3. Kept(IF e \in Refs(T.d[p]) THEN T ELSE Unfiled(T, p, e), p, {}, K, F, V)
  BY <1>2
<1> QED BY <1>3 DEF IncomingDone

LEMMA IncomingEnslaved ==
  ASSUME NEW S, NEW N, NEW T, NEW p \in Daemons, p[2] = "main", NEW e, NEW K, NEW F \in SUBSET Hosts, NEW V,
         Taken(S, N, p, e, K, F, V), Slim(N, T, p), EnslaveDone(N, T, p, e, {e}, K, F, V),
         S.d[p].state = "Free" => Uses(S.d[p]) = {}
  PROVE  IncomingDone(S, IF e \in Refs(T.d[p]) THEN T ELSE Unfiled(T, p, e), p, e, K, F, V)
<1>1. /\ e \in End /\ e \notin Uses(S.d[p]) /\ \A h \in Hosts : e \notin Queue(T.n, h)
      /\ e \notin Refs(T.d[p]) => e \notin Uses(T.d[p])
      /\ e \in Refs(T.d[p]) => e \in Uses(T.d[p])
  BY IncomingLean
<1>2. /\ Kept(T, p, {e}, K, F, V)
      /\ \/ Lean(T.d[p], S.d[p])
         \/ ~Says(T.n, e, {"Enslave"}) /\ Fresher(T.n, T.d[p], e)
  <2>1. N.d = S.d
    BY DEF Taken
  <2> QED BY <2>1 DEF EnslaveDone
<1>3. CASE e \in Refs(T.d[p])
  <2>1. ~Lean(T.d[p], S.d[p])
    BY <1>1, <1>3 DEF Lean
  <2>2. ~Says(T.n, e, {"Enslave"}) /\ Fresher(T.n, T.d[p], e)
    BY <1>2, <2>1
  <2>3. Kept(T, p, {}, K, F, V)
    BY <1>2, <2>2, EnslavedOff DEF Kept
  <2>4. IncomingDone(S, T, p, e, K, F, V)
    BY <2>2, <2>3 DEF IncomingDone
  <2> QED BY <1>3, <2>4
<1>4. CASE e \notin Refs(T.d[p])
  <2>1. Kept(Unfiled(T, p, e), p, {}, K, F, V) /\ Unfiled(T, p, e).d = T.d
    BY <1>1, <1>2, <1>4, LetGoIncoming
  <2>2. ASSUME S.d[p].state = "Free", Forming(T.d[p]) PROVE FALSE
    <3>1. Home(T.d[p]) \in Uses(T.d[p]) /\ Home(T.d[p]) \in Refs(T.d[p])
      BY <1>2, <2>2, HomeUsed
    <3>2. ~Lean(T.d[p], S.d[p])
      BY <2>2, <3>1 DEF Lean
    <3>3. Home(T.d[p]) = e
      BY <1>2, <3>2 DEF Fresher
    <3> QED BY <1>4, <3>1, <3>3
  <2>3. IncomingDone(S, Unfiled(T, p, e), p, e, K, F, V)
    BY <2>1, <2>2 DEF IncomingDone
  <2> QED BY <1>4, <2>3
<1> QED BY <1>3, <1>4

LEMMA ProcessIncomingKept ==
  ASSUME NEW S \in Situation, NEW p \in Daemons, p[2] = "main",
         S.d[p].mode # "dead", S.d[p].wait.on = "no",
         S.d[p].state = "Free" => Uses(S.d[p]) = {},
         S.n.ear[p[1]] # <<>>, FreeLines(S.n) # {}, NEW K, \A x \in K : S.n.hold[x] # {},
         NEW F \in SUBSET Hosts, NEW V, Wired(S, p, {}, {}, K, F, V),
         NEW e, e = Head(S.n.ear[p[1]]),
         Says(S.n, e, {"Enslave"}) /\ S.d[p].state = "Free" => p[1] \notin F, NEW late
  PROVE  IncomingDone(S, ProcessIncoming(S, p, late), p, e, K, F, V)
<1> DEFINE N == [S EXCEPT !.n = Accept(S.n, p[1])]
           T == ProcessControl(N, p, e, late)
           R == IF e \in Refs(T.d[p]) THEN T ELSE Unfiled(T, p, e)
<1>1. Taken(S, N, p, e, K, F, V)
  BY AcceptWired
<1>2. ProcessIncoming(S, p, late) = R
  BY Zenon DEF ProcessIncoming, Unfiled
<1> HIDE DEF N
<1>3. /\ N \in Situation /\ N.n.hold = S.n.hold /\ N.n.box = S.n.box
      /\ e \in End /\ S.n.hold[e] = {p} /\ ~Says(S.n, e, ClientCode)
  BY <1>1 DEF Taken
<1>4. \A D : Says(N.n, e, D) <=> Says(S.n, e, D)
  <2>1. Msgs(N.n, e) = Msgs(S.n, e)
    BY <1>3, SameMsgs
  <2> QED BY <2>1 DEF Says
<1>5. FreeLines(N.n) # {} /\ N.n \in NetType /\ (\A x \in K : N.n.hold[x] # {}) /\ e \in Ends0
  BY <1>3, FreeLinesByHold, Components DEF Ends0
<1>6. N.d = S.d /\ e \notin Uses(S.d[p]) /\ Wired(N, p, {e}, {e}, K, F, V)
  BY <1>1 DEF Taken
<1>7. Forming(S.d[p]) => e # Home(S.d[p])
  <2>1. Kept(S, p, {}, K, F, V)
    BY DEF Kept
  <2> QED BY <1>6, <2>1, HomeUsed
<1>8. \A A : Wired(N, p, {e}, A, K, F, V) => Asked(N, p, e, A, K, F, V)
  BY <1>3, <1>6, <1>7 DEF Asked
<1>9. Slim(N, T, p)
  <2> DEFINE m == Peek(N.n, e)
  <2>1. m \in Message
    BY <1>5, PeekType
  <2>2. m.tag # "None" => \A D : m.tag \in D => Says(N.n, e, D)
    BY <1>5, Peeked
  <2> HIDE DEF m
  <2>3. m.tag \notin ClientCode
    BY <1>3, <1>4, <2>2 DEF ClientCode
  <2> QED BY <1>3, <1>5, <2>3, SlimControl DEF m
<1>10. CASE ~Says(S.n, e, {"Enslave"})
  <2>1. Asked(N, p, e, {}, K, F, V) /\ ~Says(N.n, e, {"Enslave"})
    BY <1>4, <1>6, <1>8, <1>10, EnslavedOff
  <2>2. Kept(T, p, {}, K, F, V)
    BY <1>5, <2>1, ProcessControlKept
  <2> HIDE DEF T
  <2> QED BY <1>1, <1>2, <1>9, <1>10, <2>2, IncomingPlain
<1>11. CASE Says(S.n, e, {"Enslave"})
  <2>1. Says(N.n, e, {"Enslave"}) /\ Len(N.n.box[e]) = 1
    <3>1. Len(S.n.box[e]) = 1
      BY <1>1, <1>11 DEF Taken
    <3> QED BY <1>3, <1>4, <1>11, <3>1
  <2>2. Peek(N.n, e).tag = "Enslave"
    BY <1>3, <1>5, <2>1, OnlyMessage
  <2>3. S.d[p].state = "Free" => S.d[p].wait = NoWait
    <3>1. Records(N) /\ p[1] \in Hosts /\ p = Main(p[1])
      BY <1>6, WiredOwned, ProcsFacts, MainOrExec
    <3> QED BY <1>6, <3>1 DEF Records, MainRec
  <2>4. Accepted(N, p, e)
    <3>1. e[2] = "far" /\ S.n.box[Other(e)] = <<>>
      BY <1>1 DEF Taken
    <3> QED BY <1>3, <1>6, <2>1, <2>3, <3>1 DEF Accepted
  <2>5. Asked(N, p, e, {e}, K, F, V) /\ (N.d[p].state = "Free" => p[1] \notin F)
    BY <1>6, <1>8, <1>11
  <2>6. EnslaveDone(N, T, p, e, {e}, K, F, V)
    BY <2>2, <2>4, <2>5, ControlEnslaved
  <2> HIDE DEF T
  <2>7. IncomingDone(S, R, p, e, K, F, V)
    BY <1>1, <1>9, <2>6, IncomingEnslaved
  <2> HIDE DEF R
  <2> QED BY <1>2, <2>7
<1> QED BY <1>10, <1>11

-----------------------------------------------------------------------------
(* What is left of a round.                                                 *)
LEMMA TodoKept ==
  ASSUME NEW S \in Situation, NEW p \in Daemons, NEW A, NEW K, NEW F \in SUBSET Hosts, NEW V,
         Wired(S, p, {}, A, K, F, V),
         NEW t \in [Slot -> Ends0], \A s \in Slot : t[s] # NoEnd => t[s] \in Uses(S.d[p])
  PROVE  Kept([S EXCEPT !.d[p].todo = t], p, A, K, F, V)
<1> DEFINE c == S.d[p]
           d == [c EXCEPT !.todo = t]
           T == [S EXCEPT !.d[p] = d]
<1>1. c \in DaemonType /\ d \in DaemonType /\ Records(S) /\ Formed(S, p, {}) /\ p[1] \in Hosts
  BY Components, FieldTypes, WiredOwned, ProcsFacts
<1>2. /\ d.state = c.state /\ d.mode = c.mode /\ d.cache = c.cache /\ d.line = c.line
      /\ d.wait = c.wait /\ d.quit = c.quit /\ d.rope = c.rope /\ d.todo = t
  BY <1>1 DEF DaemonType
<1>3. [S EXCEPT !.d[p].todo = t] = T
  BY DEF Situation
<1> HIDE DEF d
<1>4. Uses(d) \subseteq Uses(c)
  BY <1>2 DEF Uses, Refs
<1>5. Went(S, S, p, {}, c, {}, {}) /\ Rec(p, c)
  BY <1>1, WentStart DEF Went
<1>6. Rec(p, d)
  BY <1>2, <1>5 DEF Rec, MainRec, ExecRec
<1>7. Went(S, T, p, {}, d, {}, {})
  BY <1>1, <1>4, <1>5, <1>6, WentSet DEF Mine
<1> HIDE DEF T
<1>8. Goes(S, p, {}, d, {}, {}, F)
  <2> SUFFICES ASSUME p[2] = "main", Forming(d)
               PROVE  /\ Serves(S.n, c, {}, d, {}, {}, {})
                      /\ Home(d) \notin {} /\ (d.wait.on = "line" <=> c.wait.on = "line") /\ d.state = c.state
    BY DEF Goes
  <2>1. FormOk(S.n, c, p, {})
    BY <1>1, MainOrExec DEF Formed
  <2>2. Forming(c) /\ Home(d) = Home(c)
    BY <1>2 DEF Forming, Home
  <2>3. \A x \in Uses(c) : x \in End
    BY <1>1, UsesType
  <2>4. Serves(S.n, c, {}, d, {}, {}, {})
    BY <1>2, <1>4, <2>1, <2>2, <2>3 DEF Serves, FormOk
  <2> QED BY <1>2, <2>4
<1>9. T \in Situation /\ Wired(T, p, {}, A, K, F, V)
  BY <1>7, <1>8, WentWired, WentRecord
<1> QED BY <1>3, <1>9 DEF Kept

LEMMA StopRoundKept ==
  ASSUME NEW T, NEW p \in Daemons, NEW A, NEW K, NEW F \in SUBSET Hosts, NEW V, Kept(T, p, A, K, F, V)
  PROVE  Kept(StopRound(T, p), p, A, K, F, V)
<1>1. Idle \in [Slot -> Ends0] /\ \A s \in Slot : Idle[s] = NoEnd
  BY ConstantsType DEF Idle
<1>2. T \in Situation /\ Wired(T, p, {}, A, K, F, V)
  BY DEF Kept
<1> QED BY <1>1, <1>2, TodoKept DEF StopRound

LEMMA AskedPlain ==
  ASSUME NEW S, NEW p, NEW e, NEW K, NEW F, NEW V, Asked(S, p, e, {}, K, F, V)
  PROVE  ~Says(S.n, e, {"Enslave"})
<1>0. Wired(S, p, {e}, {}, K, F, V) /\ e \in End
  BY AskedFacts
<1>1. Enslaving(S, p, {}) /\ Queued(S, {e}, K) /\ e \in End
  BY <1>0, WiredOwned
<1>2. \A h \in Hosts : e \notin Queue(S.n, h)
  BY <1>1 DEF Queued
<1> QED BY <1>1, <1>2 DEF Enslaving

LEMMA ProcessKept ==
  ASSUME NEW S, NEW p, NEW e, NEW K, NEW F, NEW V, Asked(S, p, e, {}, K, F, V),
         \A x \in K : S.n.hold[x] # {}, FreeLines(S.n) # {}, NEW late
  PROVE  Kept(Process(S, p, e, late), p, {}, K, F, V)
<1> DEFINE T == ProcessControl(S, p, e, late)
<1>1. e \in End /\ p \in Daemons /\ F \in SUBSET Hosts
  BY AskedFacts
<1>2. e # Ear
  BY <1>1, WireAssumption DEF Ear, End
<1>3. Kept(T, p, {}, K, F, V)
  BY AskedPlain, ProcessControlKept
<1> HIDE DEF T
<1>4. Kept(StopRound(T, p), p, {}, K, F, V)
  BY <1>1, <1>3, StopRoundKept
<1>5. Kept(ProcessDisconnected(S, p), p, {}, K, F, V)
  BY ProcessDisconnectedKept
<1>6. Process(S, p, e, late) = IF Closed(S.n, e) THEN ProcessDisconnected(S, p)
                               ELSE IF Peek(S.n, e).tag \in {"Disconnect", "ForceReset"} THEN StopRound(T, p)
                               ELSE T
  BY <1>2 DEF Process, T
<1> QED BY <1>3, <1>4, <1>5, <1>6

(* The round is over.                                                       *)
LEMMA SettleKept ==
  ASSUME NEW S, NEW p \in Daemons, NEW A, NEW K, NEW F \in SUBSET Hosts, NEW V, Kept(S, p, A, K, F, V),
         p[2] = "main" => ~S.d[p].runMain /\ ~S.d[p].quit
  PROVE  Kept(Settle(S, p), p, A, K, F, V)
<1> DEFINE d == S.d[p]
           keep == Refs(d) \cup Backlog(S.n, p)
           T == [S EXCEPT !.n = Keep(S.n, p, keep)]
           U == [T EXCEPT !.d[p].mode = "main"]
<1>1. S \in Situation /\ Wired(S, p, {}, A, K, F, V) /\ S.n \in NetType /\ d \in DaemonType
  BY Components DEF Kept
<1>2. Kept(Die(S, p), p, A, K, F, V)
  BY <1>1, DieWired DEF Kept
<1>3. CASE d.todo = Idle
  <2>1. Uses(d) \subseteq keep
    BY <1>3 DEF Uses, Idle
  <2>2. \A h \in Hosts : \A e \in Queue(S.n, h) : p \in S.n.hold[e] => e \in keep
    <3>1. \A h \in Hosts : \A e \in Queue(S.n, h) : S.n.hold[e] = {Main(h)}
      BY <1>1, WiredOwned DEF Queued
    <3>2. \A h \in Hosts : p = Main(h) => Queue(S.n, h) \subseteq Backlog(S.n, p)
      BY DEF Main, Queue, Backlog
    <3> QED BY <3>1, <3>2
  <2>3. Keep(S.n, p, keep) \in NetType
    BY <1>1, KeepType
  <2>4. LetGo(S, T, p)
    BY <1>1, <2>1, <2>2, KeepLetGo
  <2>5. T \in Situation /\ T.d = S.d
    BY <1>1, <2>3, SetNet DEF Situation
  <2> HIDE DEF T
  <2>6. Wired(T, p, {}, A, K, F, V)
    BY <1>1, <2>4, LetGoWired
  <2>7. p[2] # "main" /\ d.mode = "loop" => Kept(U, p, A, K, F, V)
    <3> SUFFICES ASSUME p[2] # "main", d.mode = "loop" PROVE Kept(U, p, A, K, F, V)
      OBVIOUS
    <3> DEFINE b == [d EXCEPT !.mode = "main"]
               W == [T EXCEPT !.d[p] = b]
    <3>1. b \in DaemonType /\ Uses(b) = Uses(d)
      BY <1>1, FieldTypes, FieldUses DEF Mode
    <3>2. Records(T) /\ T.d[p] = d
      BY <2>5, <2>6, WiredOwned
    <3>3. Went(T, T, p, {}, d, {}, {})
      BY <2>5, <3>2, WentStart
    <3>4. b.state = d.state /\ b.quit = d.quit
      BY <1>1 DEF DaemonType
    <3>5. U = W
      BY <2>5, <3>2 DEF Situation
    <3>6. Rec(p, d)
      BY <3>3 DEF Went
    <3> HIDE DEF b
    <3>7. Rec(p, b)
      BY <3>4, <3>6 DEF Rec, ExecRec
    <3>8. Went(T, W, p, {}, b, {}, {})
      BY <2>5, <3>1, <3>2, <3>3, <3>7, WentSet DEF Mine
    <3> HIDE DEF W, d, U
    <3>9. W \in Situation /\ Wired(W, p, {}, A, K, F, V)
      BY <2>5, <2>6, <3>8, ExecGoes, WentWired, WentRecord
    <3> QED BY <3>5, <3>9 DEF Kept
  <2>8. Kept(T, p, A, K, F, V)
    BY <2>5, <2>6 DEF Kept
  <2>9. Settle(S, p) = IF d.mode = "dead" \/ d.wait.on # "no" THEN S
                       ELSE IF d.mode = "loop" /\ d.runMain THEN U
                       ELSE IF d.mode \in {"loop", "exit"} /\ d.quit THEN Die(S, p)
                       ELSE T
    BY <1>3 DEF Settle, T
  <2> HIDE DEF U
  <2> QED BY <1>2, <2>7, <2>8, <2>9
<1>4. CASE d.todo # Idle
  <2>1. Settle(S, p) = S
    BY <1>4 DEF Settle
  <2> QED BY <2>1
<1> QED BY <1>3, <1>4

-----------------------------------------------------------------------------
(* What a step of a daemon does to the conversations of clients with main   *)
(* processes that form a group.  A request is taken up and answered later,  *)
(* agreed to, declined, or the answer that was due is given.                *)
TakesUp(v, w) ==
  /\ ~v.blocked /\ v.b # <<>> /\ w.b = Tail(v.b) /\ w.a = v.a
  /\ Head(v.b).tag = "ConnectTo" /\ v.formed /\ w.formed /\ w.blocked
Agrees(v, w) ==
  /\ ~v.blocked /\ v.b # <<>> /\ w.b = Tail(v.b) /\ w.a = Append(v.a, Msg("OK"))
  /\ Head(v.b).tag = "Peers" /\ ~v.formed /\ w.formed /\ ~w.blocked
Declines(v, w) ==
  /\ ~v.blocked /\ v.b # <<>> /\ w.b = Tail(v.b) /\ w.a = Append(v.a, Msg("Refuse"))
  /\ (w.formed <=> v.formed) /\ ~w.blocked
  /\ ~v.formed => Head(v.b).tag \notin {"Peers", "Disconnect"}
Replies(v, w) ==
  /\ v.blocked /\ ~w.blocked /\ w.b = v.b /\ (w.formed <=> v.formed)
  /\ \E t \in {"OK", "Refuse"} : w.a = Append(v.a, Msg(t))
Moves(v, w) == w = v \/ TakesUp(v, w) \/ Agrees(v, w) \/ Declines(v, w) \/ Replies(v, w)

(* p serves the same client as before if it serves one, and the             *)
(* conversation went on by at most one move.                                *)
Converse(n, c, o, d) ==
  Forming(d) =>
    /\ Forming(c) /\ Home(d) = Home(c)
    /\ n.hold[Other(Home(c))] # {} => Moves(View(n, c), View(o, d))

LEMMA SetDefaultOff ==
  ASSUME NEW S \in Situation, NEW p \in Daemons, p[2] = "main", NEW wait \in BOOLEAN
  PROVE  ~Forming(SetDefault(S, p, wait).d[p])
<1> DEFINE d == Blank(S.d[p])
           T == [S EXCEPT !.d[p] = d]
           Q == Exec(p[1])
<1>1. S.d[p] \in DaemonType /\ d \in DaemonType
  BY Components, BlankType
<1>2. d.state = "Free"
  BY <1>1 DEF Blank, DaemonType
<1> HIDE DEF d
<1>3. T \in Situation /\ T.d[p] = d
  BY <1>1, SetProc, Components DEF Situation
<1>4. SetDefault(S, p, wait) = WaitForChild(T, p, wait)
  BY DEF SetDefault, T, d
<1> HIDE DEF T
<1>5. T.d \in [Daemons -> DaemonType] /\ Q \in Daemons /\ Q # p
  BY <1>3, Components, ProcsFacts, MainOrExec
<1>6. CASE ~T.d[p].child
  BY <1>2, <1>3, <1>4, <1>6 DEF WaitForChild, Forming
<1>7. CASE T.d[p].child /\ wait
  <2>1. WaitForChild(T, p, wait) = [T EXCEPT !.d[p].wait = [NoWait EXCEPT !.on = "bury"]]
    BY <1>7 DEF WaitForChild
  <2>2. WaitForChild(T, p, wait).d[p].state = "Free"
    BY <1>2, <1>3, <1>5, <2>1 DEF Situation, DaemonType
  <2> QED BY <1>4, <2>2 DEF Forming
<1>8. CASE T.d[p].child /\ ~wait
  <2> DEFINE U == [T EXCEPT !.d[p].child = FALSE]
  <2>1. WaitForChild(T, p, wait) = Die(U, Q)
    BY <1>8 DEF WaitForChild
  <2>2. U.d \in [Daemons -> DaemonType] /\ U.d[p].state = "Free"
    <3>1. U \in Situation
      BY <1>3, SituationWith
    <3>2. U.d[p] = [d EXCEPT !.child = FALSE] /\ d \in DaemonType
      BY <1>1, <1>3, <1>5 DEF Situation, d
    <3> HIDE DEF U
    <3> QED BY <1>2, <3>1, <3>2, Components DEF DaemonType
  <2> HIDE DEF U
  <2>3. Die(U, Q).d[p].state = "Free"
    BY <1>5, <2>2 DEF Die
  <2> QED BY <1>4, <2>1, <2>3 DEF Forming
<1> QED BY <1>6, <1>7, <1>8

LEMMA DieOff ==
  ASSUME NEW S \in Situation, NEW p \in Daemons PROVE ~Forming(Die(S, p).d[p])
<1>1. Die(S, p).d = [S.d EXCEPT ![p] = Dead]
  BY DEF Die
<1>2. Die(S, p).d[p] = Dead
  BY <1>1, Components
<1> QED BY <1>2, DeadUses

LEMMA ResetOff ==
  ASSUME NEW S \in Situation, NEW p \in Daemons, p[2] = "main", NEW code \in Code
  PROVE  ~Forming(Reset(S, p, code).d[p])
<1> DEFINE T == [S EXCEPT !.n = SendEach(S.n, PeerLines(S.d[p]), Msg(code))]
<1>1. T \in Situation
  BY Components, PeerLinesType, SendEachType, MsgIsMessage, SetNet
<1>2. Reset(S, p, code) = SetDefault(T, p, FALSE)
  BY DEF Reset
<1> HIDE DEF T
<1> QED BY <1>1, <1>2, SetDefaultOff

LEMMA RaiseOff ==
  ASSUME NEW S \in Situation, NEW p \in Daemons, p[2] = "main", S.d[p].mode \in {"dead", "loop"}
  PROVE  ~Forming(Raise(S, p).d[p])
<1> DEFINE U == [S EXCEPT !.d[p].wait = NoWait]
           T == [S EXCEPT !.d[p].wait = NoWait, !.d[p].todo = Idle]
<1>1. T \in Situation
  <2>1. U \in Situation
    BY SituationWith, ConstantsType
  <2>2. T = [U EXCEPT !.d[p].todo = Idle]
    BY DEF Situation
  <2> HIDE DEF U, T
  <2> QED BY <2>1, <2>2, SituationWith, ConstantsType
<1>2. /\ S.d[p].mode = "loop" => Raise(S, p) = Reset(T, p, "Error")
      /\ S.d[p].mode = "dead" => Raise(S, p) = Die(S, p)
  BY DEF Raise
<1> HIDE DEF T
<1> QED BY <1>1, <1>2, ResetOff, DieOff, CodeFacts

LEMMA OffConverse ==
  ASSUME NEW n, NEW c, NEW o, NEW d, ~Forming(d) PROVE Converse(n, c, o, d)
BY DEF Converse

(* What the client wrote is read, and answered with m.                      *)
LEMMA ReadNet ==
  ASSUME NEW n \in NetType, NEW e \in End, n.box[e] # <<>>, NEW o, o = Receive(n, e)
  PROVE  /\ o \in NetType /\ o.hold = n.hold
         /\ o.box[e] = Tail(n.box[e]) /\ \A x \in End : x # e => o.box[x] = n.box[x]
<1>1. Receive(n, e) = [n EXCEPT !.box[e] = Tail(n.box[e])]
  BY DEF Receive
<1> QED BY <1>1, ReceiveType DEF NetType

LEMMA WriteNet ==
  ASSUME NEW n \in NetType, NEW e \in End, n.hold[Other(e)] # {}, NEW m \in Message,
         NEW o, o = Send(n, e, m)
  PROVE  /\ o.box[Other(e)] = Append(n.box[Other(e)], m)
         /\ \A x \in End : x # Other(e) => o.box[x] = n.box[x]
<1>1. Send(n, e, m) = [n EXCEPT !.box[Other(e)] = Append(n.box[Other(e)], m)]
  BY DEF Send, Hung
<1> QED BY <1>1, OtherIsEnd DEF NetType

(* p serves a client at e, where a request has arrived.                     *)
Requested(S, p, e) ==
  /\ S \in Situation /\ p \in Daemons /\ p[2] = "main"
  /\ Forming(S.d[p]) /\ Home(S.d[p]) = e /\ e \in End /\ S.n.hold[e] = {p}
  /\ S.d[p].wait.on = "no" /\ S.d[p].mode = "loop" /\ S.n.box[e] # <<>>

LEMMA RequestedFacts ==
  ASSUME NEW S, NEW p, NEW e, Requested(S, p, e), NEW T, T = Consume(S, e)
  PROVE  /\ S \in Situation /\ p \in Daemons /\ p[2] = "main" /\ e \in End
         /\ T \in Situation /\ T.d = S.d /\ T.n \in NetType /\ T.n.hold = S.n.hold
         /\ T.n.box[e] = Tail(S.n.box[e])
         /\ \A x \in End : x # e => T.n.box[x] = S.n.box[x]
         /\ Other(e) \in End /\ Other(e) # e /\ Other(Other(e)) = e
<1>1. S \in Situation /\ e \in End /\ S.n.box[e] # <<>> /\ S.n \in NetType
  BY Components DEF Requested
<1>2. T \in Situation /\ T.d = S.d /\ T.n = Receive(S.n, e)
  BY <1>1, ConsumeType DEF Consume, Situation
<1> QED BY <1>1, <1>2, ReadNet, OtherIsEnd, Components DEF Requested

(* An answer is one move, and an exception ends the service.                *)
LEMMA AnswerConverse ==
  ASSUME NEW S, NEW p, NEW e, Requested(S, p, e), NEW T, T = Consume(S, e),
         NEW code \in {"OK", "Refuse"}, NEW d \in DaemonType, d.wait.on = "no",
         Forming(d) => Home(d) = e,
         Forming(d) => \/ /\ code = "OK" /\ Head(S.n.box[e]).tag = "Peers"
                          /\ S.d[p].state = "Enslaved" /\ d.state = "FormingGroup"
                       \/ /\ code = "Refuse" /\ d.state = S.d[p].state
                          /\ S.d[p].state = "FormingGroup" \/ Head(S.n.box[e]).tag \notin {"Peers", "Disconnect"},
         NEW R, R = Answer(T, p, e, code, d)
  PROVE  Converse(S.n, S.d[p], R.n, R.d[p])
<1>1. /\ S \in Situation /\ p \in Daemons /\ p[2] = "main" /\ e \in End
      /\ T \in Situation /\ T.d = S.d /\ T.n \in NetType /\ T.n.hold = S.n.hold
      /\ T.n.box[e] = Tail(S.n.box[e])
      /\ \A x \in End : x # e => T.n.box[x] = S.n.box[x]
      /\ Other(e) \in End /\ Other(e) # e /\ Other(Other(e)) = e
  BY RequestedFacts
<1>2. /\ Forming(S.d[p]) /\ Home(S.d[p]) = e /\ S.d[p].wait.on = "no" /\ S.d[p].mode = "loop"
      /\ S.n.box[e] # <<>>
  BY DEF Requested
<1>3. CASE Broken(T.n, e)
  <2>1. R = Raise(T, p)
    BY <1>3 DEF Answer
  <2> QED BY <1>1, <1>2, <2>1, RaiseOff, OffConverse
<1>4. CASE ~Broken(T.n, e) /\ Forming(d)
  <2>1. R.d[p] = d /\ R.n = Send(T.n, e, Msg(code))
    BY <1>1, <1>4, Components DEF Answer
  <2>2. ASSUME S.n.hold[Other(e)] # {}
        PROVE  Moves(View(S.n, S.d[p]), View(R.n, d))
    <3> DEFINE v == View(S.n, S.d[p])
               w == View(R.n, d)
    <3>1. Msg(code) \in Message
      BY MsgIsMessage, CodeFacts
    <3>2. /\ R.n.box[Other(e)] = Append(S.n.box[Other(e)], Msg(code))
          /\ R.n.box[e] = Tail(S.n.box[e])
      <4>1. T.n \in NetType /\ T.n.hold[Other(e)] # {} /\ R.n = Send(T.n, e, Msg(code)) /\ e \in End
        BY <1>1, <2>1, <2>2
      <4>2. /\ R.n.box[Other(e)] = Append(T.n.box[Other(e)], Msg(code))
            /\ \A x \in End : x # Other(e) => R.n.box[x] = T.n.box[x]
        BY <3>1, <4>1, WriteNet
      <4> QED BY <1>1, <4>2
    <3>3. /\ v.a = S.n.box[Other(e)] /\ v.b = S.n.box[e] /\ ~v.blocked
          /\ v.formed = (S.d[p].state = "FormingGroup")
      BY <1>2 DEF View
    <3>4. /\ w.a = R.n.box[Other(e)] /\ w.b = R.n.box[e] /\ ~w.blocked
          /\ w.formed = (d.state = "FormingGroup")
      BY <1>4 DEF View
    <3>5. S.d[p].state \in {"Enslaved", "FormingGroup"}
      BY <1>2 DEF Forming
    <3> HIDE DEF v, w
    <3>6. Agrees(v, w) \/ Declines(v, w)
      BY <1>2, <1>4, <3>2, <3>3, <3>4, <3>5 DEF Agrees, Declines
    <3> QED BY <3>6 DEF Moves, v, w
  <2> QED BY <1>2, <1>4, <2>1, <2>2 DEF Converse
<1>5. CASE ~Broken(T.n, e) /\ ~Forming(d)
  <2>1. R.d[p] = d
    BY <1>1, <1>5, Components DEF Answer
  <2> QED BY <1>5, <2>1, OffConverse
<1> QED BY <1>3, <1>4, <1>5

(* A connection that is opened touches no line in use.                      *)
LEMMA ConnectBox ==
  ASSUME NEW n \in NetType, NEW l \in FreeLines(n), NEW who, NEW h \in Hosts, NEW m,
         NEW e \in End, n.hold[e] # {}, NEW o, o = Connect(n, l, who, h, m)
  PROVE  o.box[e] = n.box[e] /\ o.box[Other(e)] = n.box[Other(e)]
<1>1. l \in Lines /\ n.hold[<<l, "near">>] = {} /\ n.hold[<<l, "far">>] = {}
  BY DEF FreeLines
<1>2. e[2] \in {"near", "far"} /\ e = <<e[1], e[2]>>
  BY DEF End
<1>3. e[1] # l
  BY <1>1, <1>2
<1>4. e # <<l, "far">> /\ Other(e) # <<l, "far">>
  BY <1>3 DEF Other
<1>5. o.box = [n.box EXCEPT ![<<l, "far">>] = <<m>>]
  BY DEF Connect, NetType
<1>6. n.box \in [End -> Seq(Message)] /\ Other(e) \in End
  BY OtherIsEnd DEF NetType
<1> QED BY <1>4, <1>5, <1>6

(* p goes on waiting for a peer, or ends its service.                       *)
Blocks(c, n, d, o) ==
  Forming(d) =>
    LET e == Home(c)
    IN /\ d.state = c.state /\ Home(d) = e /\ d.wait.on = "line"
       /\ o.box[e] = n.box[e] /\ o.box[Other(e)] = n.box[Other(e)]

LEMMA ConnectLineBlocks ==
  ASSUME NEW T \in Situation, NEW p \in Daemons, p[2] = "main", FreeLines(T.n) # {},
         T.d[p].mode \in {"dead", "loop"}, Home(T.d[p]) \in End, T.n.hold[Home(T.d[p])] # {},
         NEW k, NEW w \in WaitType, NEW R, R = ConnectLine(T, p, k, w)
  PROVE  Blocks(T.d[p], T.n, R.d[p], R.n)
<1> DEFINE l == NewLine(T.n)
           m == [MsgArg(IF k = Master THEN "Join" ELSE "DataLine", T.d[p].rank) EXCEPT !.chan = k]
           v == [w EXCEPT !.on = "line", !.chan = k, !.end = <<l, "near">>]
           n == Connect(T.n, l, {p}, w.host, m)
           d == [T.d[p] EXCEPT !.wait = v]
<1>1. T.n \in NetType /\ T.d \in [Daemons -> DaemonType] /\ T.d[p] \in DaemonType
  BY Components
<1>2. l \in FreeLines(T.n)
  BY DEF NewLine
<1>3. CASE w.host \notin T.n.listen
  <2>1. R = Raise(T, p)
    BY <1>3 DEF ConnectLine
  <2> QED BY <2>1, RaiseOff DEF Blocks
<1>4. CASE w.host \in T.n.listen
  <2>1. R.d[p] = d /\ R.n = n
    BY <1>1, <1>4 DEF ConnectLine
  <2>2. w.host \in Hosts
    BY <1>1, <1>4 DEF NetType
  <2>3. v.on = "line"
    BY DEF WaitType
  <2> HIDE DEF v
  <2>4. d.wait = v /\ d.state = T.d[p].state /\ d.line = T.d[p].line
    BY <1>1 DEF DaemonType
  <2> HIDE DEF d, m, l
  <2>5. n.box[Home(T.d[p])] = T.n.box[Home(T.d[p])] /\ n.box[Other(Home(T.d[p]))] = T.n.box[Other(Home(T.d[p]))]
    BY <1>1, <1>2, <2>2, ConnectBox
  <2> HIDE DEF n
  <2> QED BY <2>1, <2>3, <2>4, <2>5 DEF Blocks, Home
<1> QED BY <1>3, <1>4

LEMMA ConnectingConverse ==
  ASSUME NEW S, NEW p, NEW e, Requested(S, p, e), Head(S.n.box[e]).tag = "ConnectTo",
         FreeLines(S.n) # {}, NEW m \in Message, NEW R, R = Connecting(S, p, e, m)
  PROVE  Converse(S.n, S.d[p], R.n, R.d[p])
<1> DEFINE T == Consume(S, e)
           w == [NoWait EXCEPT !.reply = e, !.host = m.host, !.arg = m.arg]
<1>1. /\ S \in Situation /\ p \in Daemons /\ p[2] = "main" /\ e \in End
      /\ T \in Situation /\ T.d = S.d /\ T.n \in NetType /\ T.n.hold = S.n.hold
      /\ T.n.box[e] = Tail(S.n.box[e])
      /\ \A x \in End : x # e => T.n.box[x] = S.n.box[x]
      /\ Other(e) \in End /\ Other(e) # e
  BY RequestedFacts
<1>2. /\ Forming(S.d[p]) /\ Home(S.d[p]) = e /\ S.d[p].wait.on = "no" /\ S.d[p].mode = "loop"
      /\ S.n.box[e] # <<>> /\ S.n.hold[e] = {p} /\ S.d[p] \in DaemonType
  BY <1>1, Components DEF Requested
<1>3. w \in WaitType
  <2>1. m.host \in Hosts \cup {NoHost} /\ m.arg \in Nat /\ e \in Ends0
    BY <1>1, MessageWith DEF Ends0
  <2>2. NoWait \in WaitType
    BY ConstantsType
  <2> QED BY <2>1, <2>2 DEF WaitType
<1>4. R = IF S.d[p].state # "FormingGroup" THEN Answer(T, p, e, "Refuse", T.d[p])
          ELSE ConnectLine(T, p, Master, w)
  BY <1>1 DEF Connecting, Refuse
<1> HIDE DEF T, w
<1>5. CASE S.d[p].state # "FormingGroup"
  BY <1>1, <1>2, <1>4, <1>5, AnswerConverse DEF T
<1>6. CASE S.d[p].state = "FormingGroup"
  <2>1. FreeLines(T.n) # {}
    BY <1>1, FreeLinesByHold
  <2>2. T.d[p].mode \in {"dead", "loop"} /\ Home(T.d[p]) = e /\ T.n.hold[Home(T.d[p])] # {}
    BY <1>1, <1>2
  <2>3. R = ConnectLine(T, p, Master, w)
    BY <1>4, <1>6
  <2>4. Blocks(T.d[p], T.n, R.d[p], R.n)
    BY <1>1, <1>3, <2>1, <2>2, <2>3, ConnectLineBlocks
  <2> DEFINE v == View(S.n, S.d[p])
             x == View(R.n, R.d[p])
  <2>5. CASE Forming(R.d[p])
    <3>1. /\ R.d[p].state = "FormingGroup" /\ Home(R.d[p]) = e /\ R.d[p].wait.on = "line"
          /\ R.n.box[e] = Tail(S.n.box[e]) /\ R.n.box[Other(e)] = S.n.box[Other(e)]
      BY <1>1, <1>6, <2>2, <2>4, <2>5 DEF Blocks
    <3>2. v.a = S.n.box[Other(e)] /\ v.b = S.n.box[e] /\ ~v.blocked /\ v.formed
      BY <1>2, <1>6 DEF View
    <3>3. x.a = R.n.box[Other(e)] /\ x.b = R.n.box[e] /\ x.blocked /\ x.formed
      BY <3>1 DEF View
    <3> HIDE DEF v, x
    <3>4. TakesUp(v, x)
      BY <1>2, <3>1, <3>2, <3>3 DEF TakesUp
    <3> QED BY <1>2, <3>1, <3>4 DEF Converse, Moves, v, x
  <2> QED BY <2>5, OffConverse
<1> QED BY <1>5, <1>6

LEMMA RefuseConverse ==
  ASSUME NEW S, NEW p, NEW e, Requested(S, p, e),
         S.d[p].state = "FormingGroup" \/ Head(S.n.box[e]).tag \notin {"Peers", "Disconnect"},
         NEW R, R = Refuse(Consume(S, e), p, e)
  PROVE  Converse(S.n, S.d[p], R.n, R.d[p])
<1> DEFINE T == Consume(S, e)
<1>1. S \in Situation /\ p \in Daemons /\ T.d = S.d /\ S.d[p] \in DaemonType
  BY RequestedFacts, Components
<1>2. S.d[p].wait.on = "no" /\ Home(S.d[p]) = e
  BY DEF Requested
<1>3. R = Answer(T, p, e, "Refuse", S.d[p])
  BY <1>1 DEF Refuse
<1> QED BY <1>1, <1>2, <1>3, AnswerConverse

LEMMA GroupedOff ==
  ASSUME NEW S, NEW p, NEW e, Requested(S, p, e), S.d[p].state = "FormingGroup",
         NEW R, R = Grouped(S, p, e)
  PROVE  ~Forming(R.d[p])
<1> DEFINE T == Consume(S, e)
           l == NewLine(S.n)
           c == T.d[p]
           Q == Exec(p[1])
<1>1. S \in Situation /\ p \in Daemons /\ p[2] = "main" /\ T \in Situation /\ T.d = S.d
  BY RequestedFacts
<1>2. S.d[p].mode = "loop"
  BY DEF Requested
<1>3. CASE Broken(T.n, e)
  <2>1. R = Raise(T, p)
    BY <1>1, <1>3 DEF Grouped
  <2> HIDE DEF T
  <2> QED BY <1>1, <1>2, <2>1, RaiseOff
<1>4. CASE ~Broken(T.n, e)
  <2>1. R.d = [T.d EXCEPT ![p] = Parent(c, l), ![Q] = Child(c, l)]
    BY <1>1, <1>4, GroupedParts
  <2>2. Q # p /\ Q \in Daemons /\ T.d \in [Daemons -> DaemonType] /\ c \in DaemonType
    BY <1>1, MainOrExec, ProcsFacts, Components
  <2> HIDE DEF T, Q, l
  <2>3. R.d[p] = Parent(c, l)
    BY <1>1, <2>1, <2>2
  <2>4. Parent(c, l).state = "Supervising"
    BY <2>2 DEF Parent, DaemonType
  <2> QED BY <2>3, <2>4 DEF Forming
<1> QED BY <1>3, <1>4

LEMMA ReleaseConverse ==
  ASSUME NEW S, NEW p, NEW e, Requested(S, p, e), NEW R, R = Release(S, p, e)
  PROVE  Converse(S.n, S.d[p], R.n, R.d[p])
<1> DEFINE T == Consume(S, e)
           U == Answer(T, p, e, "OK", T.d[p])
<1>1. S \in Situation /\ p \in Daemons /\ p[2] = "main" /\ T \in Situation /\ T.d = S.d
  BY RequestedFacts
<1>2. S.d[p].mode = "loop" /\ Forming(S.d[p])
  BY DEF Requested
<1>3. R = IF S.d[p].state # "Enslaved" THEN Refuse(T, p, e)
          ELSE IF Broken(T.n, e) THEN Raise(T, p) ELSE SetDefault(U, p, FALSE)
  BY DEF Release
<1>4. CASE S.d[p].state # "Enslaved"
  <2>1. S.d[p].state = "FormingGroup"
    BY <1>2, <1>4 DEF Forming
  <2> QED BY <1>3, <1>4, <2>1, RefuseConverse
<1>5. CASE S.d[p].state = "Enslaved" /\ Broken(T.n, e)
  <2> HIDE DEF T
  <2> QED BY <1>1, <1>2, <1>3, <1>5, RaiseOff, OffConverse
<1>6. CASE S.d[p].state = "Enslaved" /\ ~Broken(T.n, e)
  <2>1. U \in Situation
    BY <1>1, AnswerType, CodeFacts, Components
  <2>2. R = SetDefault(U, p, FALSE)
    BY <1>3, <1>6
  <2> HIDE DEF U
  <2> QED BY <1>1, <2>1, <2>2, SetDefaultOff, OffConverse
<1> QED BY <1>4, <1>5, <1>6

LEMMA StartGroupingConverse ==
  ASSUME NEW S, NEW p, NEW e, Requested(S, p, e), Head(S.n.box[e]).tag = "Peers",
         NEW m \in Message, NEW R, R = StartGrouping(S, p, e, m)
  PROVE  Converse(S.n, S.d[p], R.n, R.d[p])
<1> DEFINE T == Consume(S, e)
           d == [S.d[p] EXCEPT !.state = "FormingGroup", !.world = m.arg]
<1>1. S \in Situation /\ p \in Daemons /\ T.d = S.d /\ S.d[p] \in DaemonType
  BY RequestedFacts, Components
<1>2. S.d[p].wait.on = "no" /\ Home(S.d[p]) = e /\ Forming(S.d[p])
  BY DEF Requested
<1>3. R = IF S.d[p].state # "Enslaved" THEN Refuse(T, p, e) ELSE Answer(T, p, e, "OK", d)
  BY <1>1 DEF StartGrouping
<1>4. CASE S.d[p].state # "Enslaved"
  <2>1. S.d[p].state = "FormingGroup"
    BY <1>2, <1>4 DEF Forming
  <2> QED BY <1>3, <1>4, <2>1, RefuseConverse
<1>5. CASE S.d[p].state = "Enslaved"
  <2>1. m.arg \in Nat
    BY MessageWith
  <2>2. /\ d \in DaemonType /\ d.state = "FormingGroup" /\ d.wait = S.d[p].wait /\ d.line = S.d[p].line
    BY <1>1, <2>1 DEF DaemonType, State
  <2> HIDE DEF d, T
  <2>3. d.wait.on = "no" /\ Home(d) = e
    BY <1>2, <2>2 DEF Home
  <2> QED BY <1>3, <1>5, <2>2, <2>3, AnswerConverse DEF T
<1> QED BY <1>4, <1>5

LEMMA ControlConverse ==
  ASSUME NEW S, NEW p, NEW e, Requested(S, p, e), FreeLines(S.n) # {}, NEW late,
         Head(S.n.box[e]).tag \in {"Peers", "ConnectTo", "Grouped", "Disconnect"},
         NEW R, R = ProcessControl(S, p, e, late)
  PROVE  Converse(S.n, S.d[p], R.n, R.d[p])
<1> DEFINE m == Peek(S.n, e)
<1>1. m = Head(S.n.box[e]) /\ m \in Message
  <2>1. e \in End /\ S.n.box[e] # <<>> /\ S.n \in NetType
    BY Components DEF Requested
  <2> QED BY <2>1, PeekType DEF Peek
<1> HIDE DEF m
<1>2. CASE m.tag = "Peers"
  <2>1. R = StartGrouping(S, p, e, m)
    BY <1>2 DEF ProcessControl, m
  <2> QED BY <1>1, <1>2, <2>1, StartGroupingConverse
<1>3. CASE m.tag = "ConnectTo"
  <2>1. R = Connecting(S, p, e, m)
    BY <1>3 DEF ProcessControl, m
  <2> QED BY <1>1, <1>3, <2>1, ConnectingConverse
<1>4. CASE m.tag = "Disconnect"
  <2>1. R = Release(S, p, e)
    BY <1>4 DEF ProcessControl, m
  <2> QED BY <2>1, ReleaseConverse
<1>5. CASE m.tag = "Grouped"
  <2>1. R = Grouped(S, p, e)
    BY <1>5 DEF ProcessControl, m
  <2>2. CASE S.d[p].state = "FormingGroup"
    BY <2>1, <2>2, GroupedOff, OffConverse
  <2>3. CASE S.d[p].state # "FormingGroup"
    <3>1. Consume(S, e).d = S.d
      BY RequestedFacts
    <3>2. R = Refuse(Consume(S, e), p, e)
      BY <2>1, <2>3, <3>1 DEF Grouped
    <3> QED BY <1>1, <1>5, <3>2, RefuseConverse
  <2> QED BY <2>2, <2>3
<1> QED BY <1>1, <1>2, <1>3, <1>4, <1>5

LEMMA HomeConverse ==
  ASSUME NEW S, NEW p, NEW e, NEW K, NEW F, NEW V, Asked(S, p, e, {}, K, F, V),
         p[2] = "main", Forming(S.d[p]), e = Home(S.d[p]), FreeLines(S.n) # {}, NEW late,
         NEW R, R = Process(S, p, e, late)
  PROVE  Converse(S.n, S.d[p], R.n, R.d[p])
<1> DEFINE T == ProcessControl(S, p, e, late)
           U == StopRound(T, p)
<1> DEFINE A == {}
<1> HIDE DEF A
<1>0. Asked(S, p, e, A, K, F, V)
  BY DEF A
<1>1. /\ S \in Situation /\ p \in Daemons /\ e \in End /\ Records(S) /\ S.n \in NetType
      /\ Wired(S, p, {e}, A, K, F, V)
  <2>1. /\ S \in Situation /\ p \in Daemons /\ Wired(S, p, {e}, A, K, F, V)
    BY <1>0, Zenon DEF Asked
  <2>2. S.n \in NetType /\ e \in End
    BY <2>1, WiredOwned, Components DEF Owned
  <2>3. Records(S)
    BY <2>1, WiredOwned
  <2> QED BY <2>1, <2>2, <2>3
<1>2. p[1] \in Hosts /\ p = Main(p[1])
  BY <1>1, ProcsFacts, MainOrExec
<1>3. S.d[p].mode = "loop" /\ S.d[p].wait.on = "no"
  BY <1>1, <1>2 DEF Records, MainRec, Asked
<1>4. /\ S.n.hold[e] = {p}
      /\ \A m \in Msgs(S.n, e) : m.tag \in {"Peers", "ConnectTo", "Grouped", "Disconnect"}
  <2>1. FormOk(S.n, S.d[p], p, {e})
    BY <1>1, <1>2, WiredOwned DEF Formed
  <2> QED BY <2>1 DEF FormOk
<1>5. T \in Situation /\ e # Ear
  BY <1>1, ProcessControlType, WireAssumption DEF Ends0, Ear, End
<1>6. R = IF Closed(S.n, e) THEN ProcessDisconnected(S, p)
          ELSE IF Peek(S.n, e).tag \in {"Disconnect", "ForceReset"} THEN U ELSE T
  BY <1>5 DEF Process
<1>7. CASE Closed(S.n, e)
  <2>1. ProcessDisconnected(S, p) = SetDefault(S, p, FALSE)
    BY DEF ProcessDisconnected, Forming
  <2> QED BY <1>1, <1>6, <1>7, <2>1, SetDefaultOff, OffConverse
<1>8. CASE ~Closed(S.n, e) /\ S.n.box[e] = <<>>
  <2>1. Peek(S.n, e).tag = "None"
    BY <1>8 DEF Peek, Nothing, Msg
  <2>2. R = Raise(Consume(S, e), p)
    BY <1>6, <1>8, <2>1 DEF ProcessControl
  <2>3. Consume(S, e) \in Situation /\ Consume(S, e).d = S.d
    BY <1>1, ConsumeType
  <2> QED BY <1>1, <1>3, <2>2, <2>3, RaiseOff, OffConverse
<1>9. CASE ~Closed(S.n, e) /\ S.n.box[e] # <<>>
  <2>1. Requested(S, p, e)
    BY <1>1, <1>3, <1>4, <1>9 DEF Requested
  <2>2. Head(S.n.box[e]).tag \in {"Peers", "ConnectTo", "Grouped", "Disconnect"}
    <3>1. \A s \in Seq(Message) : s # <<>> => 1 \in DOMAIN s /\ Head(s) = s[1]
      OBVIOUS
    <3>2. S.n.box[e] \in Seq(Message)
      BY <1>1 DEF NetType
    <3> QED BY <1>4, <1>9, <3>1, <3>2 DEF Msgs
  <2>3. Converse(S.n, S.d[p], T.n, T.d[p])
    BY <2>1, <2>2, ControlConverse
  <2> HIDE DEF T
  <2>4. /\ U.n = T.n /\ U.d[p].state = T.d[p].state /\ U.d[p].mode = T.d[p].mode
        /\ U.d[p].line = T.d[p].line /\ U.d[p].wait = T.d[p].wait
    <3>1. T.d \in [Daemons -> DaemonType] /\ T.d[p] \in DaemonType
      BY <1>1, <1>5, Components
    <3>2. U.n = T.n /\ U.d[p] = [T.d[p] EXCEPT !.todo = Idle]
      BY <1>1, <1>5, <3>1 DEF StopRound, Situation
    <3> QED BY <3>1, <3>2 DEF DaemonType
  <2> HIDE DEF U
  <2>5. Converse(S.n, S.d[p], U.n, U.d[p])
    <3>1. View(U.n, U.d[p]) = View(T.n, T.d[p])
      BY <2>4 DEF View, Home
    <3>2. Forming(U.d[p]) = Forming(T.d[p]) /\ Home(U.d[p]) = Home(T.d[p])
      BY <2>4 DEF Forming, Home
    <3> QED BY <2>3, <3>1, <3>2 DEF Converse
  <2> QED BY <1>6, <1>9, <2>3, <2>5
<1> QED BY <1>7, <1>8, <1>9

(* The same for the handler that waits for a peer.                          *)
LEMMA ReplyConverse ==
  ASSUME NEW n, NEW c, Forming(c), c.wait.on = "line", NEW e, e = Home(c), e \in End,
         NEW U \in Situation, NEW p \in Daemons, p[2] = "main", U.d[p].mode \in {"dead", "loop"},
         U.n.hold = n.hold, U.n.box[e] = n.box[e], U.n.box[Other(e)] = n.box[Other(e)],
         NEW d \in DaemonType, d.wait.on = "no", d.state = c.state, Home(d) = e,
         NEW code \in {"OK", "Refuse"}, NEW R, R = Answer(U, p, e, code, d)
  PROVE  Converse(n, c, R.n, R.d[p])
<1>1. CASE Broken(U.n, e)
  <2>1. R = Raise(U, p)
    BY <1>1 DEF Answer
  <2> QED BY <2>1, RaiseOff, OffConverse
<1>2. CASE ~Broken(U.n, e)
  <2>1. R.d[p] = d /\ R.n = Send(U.n, e, Msg(code))
    BY <1>2, Components DEF Answer
  <2>2. ASSUME n.hold[Other(e)] # {} PROVE Replies(View(n, c), View(R.n, d))
    <3> DEFINE v == View(n, c)
               w == View(R.n, d)
    <3>1. Msg(code) \in Message /\ Other(e) # e
      BY MsgIsMessage, CodeFacts, OtherIsEnd
    <3>2. /\ R.n.box[Other(e)] = Append(U.n.box[Other(e)], Msg(code))
          /\ R.n.box[e] = U.n.box[e]
      <4>1. U.n \in NetType /\ U.n.hold[Other(e)] # {}
        BY <2>2, Components
      <4> QED BY <2>1, <3>1, <4>1, WriteNet
    <3>3. /\ v.a = n.box[Other(e)] /\ v.b = n.box[e] /\ v.blocked
          /\ v.formed = (c.state = "FormingGroup")
      BY DEF View
    <3>4. /\ w.a = R.n.box[Other(e)] /\ w.b = R.n.box[e] /\ ~w.blocked
          /\ w.formed = (d.state = "FormingGroup")
      BY DEF View
    <3> HIDE DEF v, w
    <3>5. Replies(v, w)
      BY <3>2, <3>3, <3>4 DEF Replies
    <3> QED BY <3>5 DEF v, w
  <2> QED BY <2>1, <2>2 DEF Converse, Moves
<1> QED BY <1>1, <1>2

LEMMA BlockedConverse ==
  ASSUME NEW n, NEW c, Forming(c), c.wait.on = "line", NEW t, NEW b,
         Home(b) = Home(c), b.state = c.state, t.box[Home(c)] = n.box[Home(c)],
         t.box[Other(Home(c))] = n.box[Other(Home(c))],
         NEW o, NEW d, Blocks(b, t, d, o)
  PROVE  Converse(n, c, o, d)
<1> SUFFICES ASSUME Forming(d) PROVE Home(d) = Home(c) /\ View(o, d) = View(n, c)
  BY DEF Converse, Moves
<1> QED BY DEF Blocks, View

LEMMA ConnectedConverse ==
  ASSUME NEW S, NEW p, NEW A, NEW K, NEW F, NEW V, Woken(S, p, A, K, F, V), p[2] = "main",
         FreeLines(S.n) # {}, S.d[p].wait.on = "line", Forming(S.d[p]),
         NEW R, R = Connected(S, p)
  PROVE  Converse(S.n, S.d[p], R.n, R.d[p])
<1> DEFINE c == S.d[p]
           w == c.wait
           d == Awake(c)
           T == Wake(S, p)
           lines == [w.lines EXCEPT ![w.chan] = w.end]
           i == Insert(d, w.arg, lines)
           U == [T EXCEPT !.d[p] = i]
           v == [w EXCEPT !.lines = lines]
           e == Home(c)
<1>1. /\ S \in Situation /\ p \in Daemons /\ Rec(p, c) /\ c \in DaemonType
      /\ w \in WaitType /\ w.end \in End /\ S.n \in NetType /\ S.d \in [Daemons -> DaemonType]
  BY WokenFacts
<1>2. e \in End /\ w.reply = e /\ w.end # e /\ Other(e) # w.end /\ S.n.hold[e] = {p}
  <2>1. e \in End /\ w.reply = e /\ w.end # e /\ Other(e) \notin Waits(c)
    BY WokenHome
  <2>2. w.end \in Waits(c)
    BY <1>1, NoEndIsNoEnd DEF Waits
  <2>3. Wired(S, p, {}, A, K, F, V) /\ p = Main(p[1]) /\ p[1] \in Hosts
    BY <1>1, ProcsFacts, MainOrExec DEF Woken
  <2>4. FormOk(S.n, c, p, {})
    BY <2>3, WiredOwned DEF Formed
  <2> QED BY <2>1, <2>2, <2>4 DEF FormOk
<1>3. c.mode = "loop"
  BY <1>1 DEF Rec, MainRec, Forming
<1>4. /\ d.wait = NoWait /\ d.state = c.state /\ d.mode = c.mode /\ d.line = c.line
      /\ Home(d) = e /\ d \in DaemonType
  BY <1>1, ConstantsType, WaitFields, FieldTypes DEF Awake
<1>5. /\ T \in Situation /\ T.d[p] = d /\ T.n.hold = S.n.hold
      /\ T.n.box[e] = S.n.box[e] /\ T.n.box[Other(e)] = S.n.box[Other(e)]
  <2> DEFINE W == Consume(S, w.end)
  <2>1. W \in Situation /\ W.d = S.d /\ W.n.hold = S.n.hold /\ W.n = Receive(S.n, w.end)
    BY <1>1, ConsumeType DEF Consume, Situation
  <2>2. \A x \in End : x # w.end => W.n.box[x] = S.n.box[x]
    BY <1>1, <2>1 DEF Receive, NetType
  <2>3. T = [W EXCEPT !.d[p].wait = NoWait]
    BY DEF Wake
  <2> HIDE DEF W
  <2>4. T \in Situation /\ T.n = W.n /\ T.d[p] = [c EXCEPT !.wait = NoWait]
    <3>1. T \in Situation
      <4>1. {} \subseteq Said
        OBVIOUS
      <4> QED BY <4>1, WakeWent
    <3>2. T.n = W.n /\ T.d = [W.d EXCEPT ![p] = [W.d[p] EXCEPT !.wait = NoWait]]
      BY <2>1, <2>3 DEF Situation
    <3>3. p \in DOMAIN W.d /\ W.d[p] = c
      BY <1>1, <2>1
    <3> QED BY <3>1, <3>2, <3>3
  <2> HIDE DEF T
  <2> QED BY <1>2, <2>1, <2>2, <2>4, OtherIsEnd DEF Awake
<1>6. /\ lines \in [Chan -> Ends0] /\ v \in WaitType
  BY <1>1 DEF WaitType, Ends0
<1>7. \/ R = ConnectLine(T, p, w.chan + 1, v)
      \/ R = Answer(U, p, w.reply, "OK", U.d[p])
      \/ R = Refuse(T, p, w.reply)
      \/ R = Raise(T, p)
  <2>1. \/ R = ConnectLine(T, p, w.chan + 1, v)
        \/ R = Answer([T EXCEPT !.d[p] = Insert(T.d[p], w.arg, lines)], p, w.reply, "OK",
                      [T EXCEPT !.d[p] = Insert(T.d[p], w.arg, lines)].d[p])
        \/ R = Refuse(T, p, w.reply)
        \/ R = Raise(T, p)
    BY Zenon DEF Connected, Wake
  <2> QED BY <1>5, <2>1
<1>8. d.wait.on = "no" /\ c.wait.on = "line"
  BY <1>4 DEF NoWait
<1> HIDE DEF T, d, lines, v
<1>9. CASE R = Raise(T, p)
  BY <1>1, <1>3, <1>4, <1>5, <1>9, RaiseOff, OffConverse
<1>10. CASE R = Refuse(T, p, w.reply)
  <2>1. R = Answer(T, p, e, "Refuse", d)
    BY <1>2, <1>5, <1>10 DEF Refuse
  <2> HIDE DEF c
  <2>2. /\ Forming(c) /\ c.wait.on = "line" /\ e = Home(c) /\ e \in End /\ p \in Daemons
        /\ T \in Situation /\ T.d[p].mode \in {"dead", "loop"} /\ T.n.hold = S.n.hold
        /\ T.n.box[e] = S.n.box[e] /\ T.n.box[Other(e)] = S.n.box[Other(e)]
        /\ d \in DaemonType /\ d.wait.on = "no" /\ d.state = c.state /\ Home(d) = e
    BY <1>1, <1>2, <1>3, <1>4, <1>5, <1>8 DEF c
  <2> HIDE DEF e
  <2> QED BY <2>1, <2>2, ReplyConverse DEF c
<1>11. CASE R = Answer(U, p, w.reply, "OK", U.d[p])
  <2>1. /\ i \in DaemonType /\ i.mode = d.mode /\ i.wait = d.wait /\ i.state = d.state
        /\ (Home(d) # NoEnd => Home(i) = Home(d))
    BY <1>4, <1>6, InsertFields, InsertUses
  <2> HIDE DEF i
  <2>2. Home(i) = e
    BY <1>2, <1>4, <2>1, NoEndIsNoEnd
  <2>3. U \in Situation /\ U.d[p] = i /\ U.n = T.n
    BY <1>1, <1>5, <2>1, SetProc, Components DEF Situation
  <2> HIDE DEF U
  <2>4. R = Answer(U, p, e, "OK", i)
    BY <1>2, <1>11, <2>3
  <2>5. /\ Forming(c) /\ c.wait.on = "line" /\ e = Home(c) /\ e \in End /\ p \in Daemons
        /\ U \in Situation /\ U.d[p].mode \in {"dead", "loop"} /\ U.n.hold = S.n.hold
        /\ U.n.box[e] = S.n.box[e] /\ U.n.box[Other(e)] = S.n.box[Other(e)]
        /\ i \in DaemonType /\ i.wait.on = "no" /\ i.state = c.state /\ Home(i) = e
    BY <1>1, <1>2, <1>3, <1>4, <1>5, <1>8, <2>1, <2>2, <2>3
  <2> HIDE DEF c, e
  <2> QED BY <2>4, <2>5, ReplyConverse DEF c
<1>12. CASE R = ConnectLine(T, p, w.chan + 1, v)
  <2>1. FreeLines(T.n) # {}
    BY <1>5, FreeLinesByHold
  <2>2. Blocks(d, T.n, R.d[p], R.n)
    BY <1>1, <1>2, <1>3, <1>4, <1>5, <1>6, <1>12, <2>1, ConnectLineBlocks
  <2> QED BY <1>4, <1>5, <1>8, <2>2, BlockedConverse
<1> QED BY <1>7, <1>9, <1>10, <1>11, <1>12

-----------------------------------------------------------------------------
(* The invariant between two steps, with the conversations as they are: a   *)
(* main process that forms no group has none.                               *)
Glance(n, d) == IF Forming(d) THEN View(n, d) ELSE [View(n, d) EXCEPT !.home = NoEnd]
Sight(S) == [view |-> [h \in Hosts |-> Glance(S.n, S.d[Main(h)])], hold |-> S.n.hold]
Orderly(S, K) == Wired(S, NoHost, {}, {}, K, {}, Sight(S))

LEMMA OrderlyOf ==
  ASSUME NEW S, NEW p, NEW K, NEW F, NEW V, Wired(S, p, {}, {}, K, F, V)
  PROVE  Orderly(S, K)
<1>1. /\ Owned(S, p, {}) /\ Queued(S, {}, K) /\ Enslaving(S, p, {}) /\ Emptied(S)
      /\ Joining(S) /\ Formed(S, p, {}) /\ Records(S)
  BY WiredOwned
<1>2. Owned(S, NoHost, {})
  BY <1>1 DEF Owned
<1>3. Enslaving(S, NoHost, {})
  BY <1>1 DEF Enslaving
<1>4. Formed(S, NoHost, {})
  BY <1>1 DEF Formed
<1>5. Frozen(S, {}, Sight(S))
  BY DEF Frozen, Seen, Lent, Sight
<1> QED BY <1>1, <1>2, <1>3, <1>4, <1>5 DEF Orderly, Wired

LEMMA OrderlySight ==
  ASSUME NEW S, NEW K, Orderly(S, K), NEW p, NEW F \in SUBSET Hosts
  PROVE  Wired(S, p, {}, {}, K, F, Sight(S))
<1>1. /\ Owned(S, NoHost, {}) /\ Queued(S, {}, K) /\ Enslaving(S, NoHost, {}) /\ Emptied(S)
      /\ Joining(S) /\ Formed(S, NoHost, {}) /\ Records(S)
  BY WiredOwned DEF Orderly
<1>2. Owned(S, p, {})
  BY <1>1 DEF Owned
<1>3. Enslaving(S, p, {})
  BY <1>1 DEF Enslaving
<1>4. Formed(S, p, {})
  BY <1>1 DEF Formed
<1>5. Frozen(S, F, Sight(S))
  BY DEF Frozen, Seen, Lent, Sight, Glance
<1> QED BY <1>1, <1>2, <1>3, <1>4, <1>5 DEF Wired

LEMMA SightKept ==
  ASSUME NEW S, NEW T, NEW p, NEW A, NEW K, NEW F \in SUBSET Hosts, Kept(T, p, A, K, F, Sight(S)),
         NEW h \in F, Forming(T.d[Main(h)])
  PROVE  Forming(S.d[Main(h)]) /\ View(T.n, T.d[Main(h)]) = View(S.n, S.d[Main(h)])
<1> DEFINE c == S.d[Main(h)]
           d == T.d[Main(h)]
<1>1. Wired(T, p, {}, A, K, F, Sight(S)) /\ h \in Hosts
  BY DEF Kept
<1>2. Formed(T, p, {}) /\ Frozen(T, F, Sight(S))
  BY <1>1, WiredOwned
<1>3. Home(d) \in End
  BY <1>1, <1>2 DEF Formed, FormOk
<1>4. View(T.n, d) = Glance(S.n, c)
  BY <1>1, <1>2 DEF Frozen, Seen, Sight
<1> HIDE DEF c, d
<1>5. View(T.n, d).home = Home(d)
  BY DEF View
<1>6. ~Forming(c) => Glance(S.n, c).home = NoEnd
  BY DEF Glance, View
<1>7. Forming(c)
  BY <1>3, <1>4, <1>5, <1>6, NoEndIsNoEnd
<1>8. View(T.n, d) = View(S.n, c)
  BY <1>4, <1>7 DEF Glance
<1> QED BY <1>7, <1>8 DEF c, d

(* A main process serves a new client, to which it said OK.                 *)
Enters(n, o, d, e) ==
  /\ Forming(d) /\ Home(d) = e /\ d.state = "Enslaved" /\ d.wait.on # "line"
  /\ o.box[e] = <<>>
  /\ n.hold[Other(e)] # {} /\ n.hold[Other(e)] \cap Daemons = {} => o.box[Other(e)] = <<Msg("OK")>>
Goeson(n, c, o, d, h) == Converse(n, c, o, d) \/ \E e \in Queue(n, h) : Enters(n, o, d, e)

(* A step of a daemon as the clients see it.                                *)
Advance(S, T, K) ==
  /\ T \in Situation /\ Orderly(T, K) /\ Lent(T.n, Sight(S))
  /\ \A h \in Hosts : Forming(T.d[Main(h)]) =>
       Goeson(S.n, S.d[Main(h)], T.n, T.d[Main(h)], h)

LEMMA SameView ==
  ASSUME NEW o, NEW d, NEW q, NEW b, Forming(b), Forming(d), View(q, b) = View(o, d), NEW n, NEW h
  PROVE  /\ \A c : Converse(n, c, o, d) => Converse(n, c, q, b)
         /\ \A e : Enters(n, o, d, e) => Enters(n, q, b, e)
         /\ Converse(o, d, q, b)
<1>1. /\ Home(b) = Home(d) /\ q.box[Home(d)] = o.box[Home(d)] /\ q.box[Other(Home(d))] = o.box[Other(Home(d))]
      /\ b.wait.on = "line" <=> d.wait.on = "line"
      /\ b.state = "FormingGroup" <=> d.state = "FormingGroup"
  <2> DEFINE v == View(o, d)
             w == View(q, b)
  <2>1. /\ v.home = Home(d) /\ v.a = o.box[Other(Home(d))] /\ v.b = o.box[Home(d)]
        /\ v.blocked = (d.wait.on = "line") /\ v.formed = (d.state = "FormingGroup")
    BY DEF View
  <2>2. /\ w.home = Home(b) /\ w.a = q.box[Other(Home(b))] /\ w.b = q.box[Home(b)]
        /\ w.blocked = (b.wait.on = "line") /\ w.formed = (b.state = "FormingGroup")
    BY DEF View
  <2> HIDE DEF v, w
  <2>3. v = w
    BY DEF v, w
  <2> QED BY <2>1, <2>2, <2>3
<1>2. \A c : Converse(n, c, o, d) => Converse(n, c, q, b)
  BY <1>1 DEF Converse
<1>3. b.state = "Enslaved" <=> d.state = "Enslaved"
  BY <1>1 DEF Forming
<1>4. \A e : Enters(n, o, d, e) => Enters(n, q, b, e)
  BY <1>1, <1>3 DEF Enters
<1>5. Converse(o, d, q, b)
  BY <1>1 DEF Converse, Moves
<1> QED BY <1>2, <1>4, <1>5

LEMMA KeptAdvance ==
  ASSUME NEW S, NEW T, NEW p, NEW K, Kept(T, p, {}, K, Hosts, Sight(S))
  PROVE  Advance(S, T, K)
<1>1. T \in Situation /\ Wired(T, p, {}, {}, K, Hosts, Sight(S))
  BY DEF Kept
<1>2. Orderly(T, K)
  BY <1>1, OrderlyOf
<1>3. Lent(T.n, Sight(S))
  BY <1>1, WiredOwned DEF Frozen
<1>4. ASSUME NEW h \in Hosts, Forming(T.d[Main(h)])
      PROVE  Goeson(S.n, S.d[Main(h)], T.n, T.d[Main(h)], h)
  <2>1. Hosts \in SUBSET Hosts
    OBVIOUS
  <2>2. Forming(S.d[Main(h)]) /\ View(T.n, T.d[Main(h)]) = View(S.n, S.d[Main(h)])
    BY <1>4, <2>1, SightKept
  <2> QED BY <1>4, <2>2, SameView DEF Goeson
<1> QED BY <1>1, <1>2, <1>3, <1>4 DEF Advance

(* The end of a round changes nothing for the clients.                      *)
LEMMA SettleAdvance ==
  ASSUME NEW S, NEW R, NEW p \in Daemons, NEW K, NEW F \in {Hosts, Hosts \ {p[1]}},
         Kept(R, p, {}, K, F, Sight(S)),
         p[2] = "main" => ~R.d[p].runMain /\ ~R.d[p].quit,
         F # Hosts => /\ p[2] = "main"
                      /\ Forming(R.d[p]) => Goeson(S.n, S.d[p], R.n, R.d[p], p[1]),
         NEW T, T = Settle(R, p)
  PROVE  Advance(S, T, K)
<1>1. p[1] \in Hosts /\ F \in SUBSET Hosts /\ Hosts \in SUBSET Hosts
  BY ProcsFacts
<1>2. Kept(T, p, {}, K, F, Sight(S))
  BY <1>1, SettleKept
<1>3. CASE F = Hosts
  BY <1>2, <1>3, KeptAdvance
<1>4. CASE F # Hosts
  <2>1. Kept(R, p, {}, K, Hosts, Sight(R))
    <3>1. R \in Situation /\ Orderly(R, K)
      BY OrderlyOf DEF Kept
    <3> QED BY <1>1, <3>1, OrderlySight DEF Kept
  <2>2. Kept(T, p, {}, K, Hosts, Sight(R))
    BY <1>1, <2>1, SettleKept
  <2>3. T \in Situation /\ Wired(T, p, {}, {}, K, F, Sight(S))
    BY <1>2 DEF Kept
  <2>4. Orderly(T, K) /\ Lent(T.n, Sight(S))
    <3>1. Orderly(T, K)
      BY <2>3, OrderlyOf
    <3>2. Frozen(T, F, Sight(S))
      BY <2>3, WiredOwned
    <3> QED BY <3>1, <3>2 DEF Frozen
  <2>5. ASSUME NEW h \in Hosts, Forming(T.d[Main(h)])
        PROVE  Goeson(S.n, S.d[Main(h)], T.n, T.d[Main(h)], h)
    <3>1. CASE h \in F
      <4>1. Forming(S.d[Main(h)]) /\ View(T.n, T.d[Main(h)]) = View(S.n, S.d[Main(h)])
        BY <1>1, <1>2, <2>5, <3>1, SightKept
      <4> QED BY <2>5, <4>1, SameView DEF Goeson
    <3>2. CASE h \notin F
      <4>1. h = p[1]
        BY <1>4, <3>2
      <4>2. Forming(R.d[Main(h)]) /\ View(T.n, T.d[Main(h)]) = View(R.n, R.d[Main(h)])
        BY <1>1, <2>2, <2>5, SightKept
      <4>3. p = Main(h)
        <5>1. p[2] = "main"
          BY <1>4
        <5> QED BY <4>1, <5>1, MainOrExec
      <4>4. Goeson(S.n, S.d[p], R.n, R.d[p], p[1])
        BY <1>4, <4>2, <4>3
      <4> DEFINE b == T.d[p]
                 d == R.d[p]
                 c == S.d[p]
      <4>5. Forming(b) /\ Forming(d) /\ View(T.n, b) = View(R.n, d)
        BY <2>5, <4>2, <4>3
      <4>6. Converse(S.n, c, R.n, d) \/ \E e \in Queue(S.n, h) : Enters(S.n, R.n, d, e)
        BY <4>1, <4>4 DEF Goeson
      <4>7. Goeson(S.n, S.d[p], T.n, T.d[p], h)
        <5> HIDE DEF b, d, c
        <5>1. Converse(S.n, c, T.n, b) \/ \E e \in Queue(S.n, h) : Enters(S.n, T.n, b, e)
          BY <4>5, <4>6, SameView
        <5> QED BY <5>1 DEF Goeson, b, c
      <4> QED BY <4>3, <4>7
    <3> QED BY <3>1, <3>2
  <2> QED BY <2>3, <2>4, <2>5 DEF Advance
<1> QED BY <1>3, <1>4

-----------------------------------------------------------------------------
(* The steps of the daemons, one lemma for each.                            *)
LEMMA BuriedKept ==
  ASSUME NEW S, NEW p \in Daemons, NEW A, NEW K, NEW F \in SUBSET Hosts, NEW V, Kept(S, p, A, K, F, V),
         S.d[p].wait.on # "line"
  PROVE  Kept(Buried(S, p), p, A, K, F, V)
<1> DEFINE c == S.d[p]
           d == [c EXCEPT !.child = FALSE, !.wait = NoWait]
           T == [S EXCEPT !.d[p] = d]
<1>1. S \in Situation /\ Wired(S, p, {}, A, K, F, V) /\ c \in DaemonType /\ S.d \in [Daemons -> DaemonType]
  BY Components DEF Kept
<1>2. Records(S)
  BY <1>1, WiredOwned
<1>3. Went(S, S, p, {}, c, {}, {})
  BY <1>1, <1>2, WentStart
<1>4. Rec(p, c)
  BY <1>3 DEF Went
<1>5. /\ d \in DaemonType /\ d.wait = NoWait /\ d.state = c.state /\ d.mode = c.mode
      /\ d.line = c.line /\ d.cache = c.cache /\ d.quit = c.quit
  BY <1>1, ConstantsType DEF DaemonType
<1>6. Uses(d) \subseteq Uses(c)
  <2> DEFINE b == [c EXCEPT !.wait = NoWait]
  <2>1. Uses(b) \subseteq Uses(c)
    BY <1>1, FieldUses
  <2>2. b \in DaemonType /\ d = [b EXCEPT !.child = FALSE]
    BY <1>1, ConstantsType DEF DaemonType
  <2> HIDE DEF b
  <2>3. Uses([b EXCEPT !.child = FALSE]) = Uses(b)
    BY <2>2, FieldUses
  <2> QED BY <2>1, <2>2, <2>3
<1>7. Buried(S, p) = T
  BY <1>1 DEF Buried, Situation
<1>8. NoWait.on = "no"
  BY DEF NoWait
<1> HIDE DEF c, d
<1>9. Rec(p, d)
  BY <1>4, <1>5, <1>8 DEF Rec, MainRec, ExecRec
<1>10. Went(S, T, p, {}, d, {}, {})
  BY <1>1, <1>3, <1>5, <1>6, <1>9, WentSet DEF Mine, c
<1>11. Goes(S, p, {}, d, {}, {}, F)
  <2> SUFFICES ASSUME p[2] = "main", Forming(d)
               PROVE  /\ Serves(S.n, c, {}, d, {}, {}, {})
                      /\ p[1] \in F => /\ Home(d) \notin {}
                                       /\ d.wait.on = "line" <=> c.wait.on = "line"
                                       /\ d.state = c.state
    BY DEF Goes, c
  <2>1. Forming(c) /\ Home(d) = Home(c)
    BY <1>5 DEF Forming, Home
  <2>2. p = Main(p[1]) /\ p[1] \in Hosts /\ Formed(S, p, {})
    BY <1>1, MainOrExec, ProcsFacts, WiredOwned
  <2>3. FormOk(S.n, c, p, {})
    BY <2>2 DEF Formed, c
  <2>4. \A x \in Uses(c) \ {Home(c)} : Peer(S.n, x)
    BY <2>1, <2>3 DEF FormOk
  <2>5. Uses(c) \subseteq End
    BY <1>1, UsesType DEF c
  <2>6. c.wait.on # "line" /\ d.wait.on # "line"
    BY <1>5, <1>8 DEF c
  <2>7. Serves(S.n, c, {}, d, {}, {}, {})
    BY <1>6, <2>1, <2>4, <2>5, <2>6 DEF Serves
  <2> QED BY <1>5, <2>6, <2>7
<1> HIDE DEF T
<1>12. T \in Situation /\ Wired(T, p, {}, A, K, F, V)
  BY <1>1, <1>10, <1>11, WentWired, WentRecord
<1> QED BY <1>7, <1>12 DEF Kept

(* Everything but the ends of K that the clients hold is in order.          *)
Ordered(K) == Tied /\ Orderly(Now, K) /\ \A x \in K : net.hold[x] # {}
Onward(K) == Advance(Now, [d |-> daemon', n |-> net'], K)

LEMMA OrderedFacts ==
  ASSUME NEW K, Ordered(K), NEW p, NEW F \in SUBSET Hosts
  PROVE  /\ Bonded(Now) /\ Now.d = daemon /\ Now.n = net /\ Now \in Situation
         /\ daemon \in [Daemons -> DaemonType] /\ net \in NetType
         /\ NoMainLeaves /\ Records(Now)
         /\ Wired(Now, p, {}, {}, K, F, Sight(Now))
         /\ Kept(Now, p, {}, K, F, Sight(Now))
<1>1. Bonded(Now) /\ Now.d = daemon /\ Now.n = net
  BY NowBond DEF Ordered
<1>2. Now \in Situation /\ daemon \in [Daemons -> DaemonType] /\ net \in NetType
  BY <1>1, Components DEF Bonded
<1>3. Wired(Now, p, {}, {}, K, F, Sight(Now))
  BY OrderlySight DEF Ordered
<1>4. Records(Now)
  BY <1>3, WiredOwned
<1>5. NoMainLeaves
  BY <1>1, <1>4 DEF Records, MainRec, NoMainLeaves
<1> QED BY <1>1, <1>2, <1>3, <1>4, <1>5 DEF Kept

LEMMA BecomeOnward ==
  ASSUME NEW K, NEW T \in Situation, Become(T), Advance(Now, T, K) PROVE Onward(K)
<1>1. T = [d |-> T.d, n |-> T.n]
  BY DEF Situation
<1>2. daemon' = T.d /\ net' = T.n
  BY DEF Become
<1> QED BY <1>1, <1>2 DEF Onward

LEMMA SettleOnward ==
  ASSUME NEW R, NEW p \in Daemons, NEW K, Bonded(R), NEW F \in {Hosts, Hosts \ {p[1]}},
         Kept(R, p, {}, K, F, Sight(Now)), Become(Settle(R, p)),
         F # Hosts => /\ p[2] = "main"
                      /\ Forming(R.d[p]) => Goeson(net, daemon[p], R.n, R.d[p], p[1])
  PROVE  Onward(K)
<1> DEFINE T == Settle(R, p)
<1>1. p[2] = "main" => ~R.d[p].runMain /\ ~R.d[p].quit
  BY BondParts DEF MainOk
<1>2. Now.d = daemon /\ Now.n = net
  BY DEF Now
<1>3. Advance(Now, T, K)
  BY <1>1, <1>2, SettleAdvance
<1>4. T \in Situation
  BY <1>3 DEF Advance
<1> QED BY <1>3, <1>4, BecomeOnward

LEMMA BuryOnward ==
  ASSUME NEW K, Ordered(K), NEW p \in Daemons, Bury(p) PROVE Onward(K)
<1> DEFINE R == Buried(Now, p)
<1>1. Hosts \in SUBSET Hosts /\ Hosts \in {Hosts, Hosts \ {p[1]}}
  OBVIOUS
<1>2. Bonded(Now) /\ Now.d = daemon /\ Kept(Now, p, {}, K, Hosts, Sight(Now))
  BY <1>1, OrderedFacts
<1>3. daemon[p].wait.on = "bury" /\ daemon[Exec(p[1])].mode = "dead" /\ Become(Settle(R, p))
  BY DEF Bury
<1>4. daemon[p].mode # "dead"
  BY <1>2, <1>3, BondParts DEF MainOk, ExecOk
<1>5. Bonded(R)
  BY <1>2, <1>3, <1>4, BuriedBond
<1>6. Kept(R, p, {}, K, Hosts, Sight(Now))
  BY <1>1, <1>2, <1>3, BuriedKept
<1> HIDE DEF R
<1> QED BY <1>1, <1>3, <1>5, <1>6, SettleOnward

LEMMA FinishMainOnward ==
  ASSUME NEW K, Ordered(K), NEW p \in Daemons, FinishMain(p) PROVE Onward(K)
<1> DEFINE R == Finish(Now, p)
<1>1. Hosts \in SUBSET Hosts /\ Hosts \in {Hosts, Hosts \ {p[1]}}
  OBVIOUS
<1>2. /\ Bonded(Now) /\ Now.d = daemon /\ Now \in Situation /\ Records(Now)
      /\ Wired(Now, p, {}, {}, K, Hosts, Sight(Now))
  BY <1>1, OrderedFacts
<1>3. daemon[p].mode = "main" /\ Become(Settle(R, p))
  BY DEF FinishMain
<1>4. p[2] # "main"
  BY <1>2, <1>3, BondParts DEF MainOk
<1>5. Bonded(R)
  BY <1>2, <1>3, <1>4, FinishBond
<1>6. Went(Now, Now, p, {}, daemon[p], {}, {})
  BY <1>2, WentStart
<1>7. Kept(R, p, {}, K, Hosts, Sight(Now))
  BY <1>1, <1>2, <1>3, <1>4, <1>6, FinishWired DEF Kept
<1> HIDE DEF R
<1> QED BY <1>1, <1>3, <1>5, <1>7, SettleOnward

LEMMA TimeOutOnward ==
  ASSUME NEW K, Ordered(K), NEW p \in Daemons, TimeOut(p) PROVE Onward(K)
<1> DEFINE R == Raise(Now, p)
<1>1. Hosts \in SUBSET Hosts /\ Hosts \in {Hosts, Hosts \ {p[1]}}
  OBVIOUS
<1>2. /\ Bonded(Now) /\ Now.d = daemon /\ Now \in Situation /\ Records(Now) /\ NoMainLeaves
      /\ Wired(Now, p, {}, {}, K, Hosts, Sight(Now))
  BY <1>1, OrderedFacts
<1>3. daemon[p].wait.on \in {"line", "start"} /\ Become(Settle(R, p))
  BY DEF TimeOut
<1>4. daemon[p].mode # "dead"
  BY <1>2, <1>3, BondParts DEF MainOk, ExecOk
<1>5. Bonded(R)
  BY <1>2, <1>3, <1>4, ReadyFits, RaiseBond DEF Ordered
<1>6. Went(Now, Now, p, {}, daemon[p], {}, {})
  BY <1>2, WentStart
<1>7. Kept(R, p, {}, K, Hosts, Sight(Now))
  BY <1>1, <1>2, <1>6, RaiseWired DEF Kept
<1> HIDE DEF R
<1> QED BY <1>1, <1>3, <1>5, <1>7, SettleOnward

LEMMA BuriedDead == [Dead EXCEPT !.child = FALSE, !.wait = NoWait] = Dead
<1>1. Dead \in DaemonType /\ Dead.child = FALSE /\ Dead.wait = NoWait
  BY ConstantsType DEF Dead
<1>2. ASSUME NEW d \in DaemonType, d.child = FALSE, d.wait = NoWait
      PROVE  [d EXCEPT !.child = FALSE, !.wait = NoWait] = d
  BY <1>2 DEF DaemonType
<1> QED BY <1>1, <1>2, Zenon

LEMMA BuryLateOnward ==
  ASSUME NEW K, Ordered(K), NEW p \in Daemons, BuryLate(p) PROVE Onward(K)
<1> DEFINE E == Exec(p[1])
           Q == Die(Now, E)
           R == Buried(Q, p)
<1>1. Hosts \in SUBSET Hosts /\ Hosts \in {Hosts, Hosts \ {p[1]}}
  OBVIOUS
<1>2. /\ Bonded(Now) /\ Now.d = daemon /\ Now \in Situation /\ daemon \in [Daemons -> DaemonType]
      /\ Wired(Now, p, {}, {}, K, Hosts, Sight(Now))
  BY <1>1, OrderedFacts
<1>3. daemon[p].wait.on = "bury" /\ Become(Settle(R, p))
  BY DEF BuryLate
<1>4. E \in Daemons /\ E[2] # "main"
  BY ProcsFacts, MainOrExec
<1>5. Kept(Q, p, {}, K, Hosts, Sight(Now))
  BY <1>1, <1>2, <1>4, DieWired DEF Kept
<1>6. Bonded(Q) /\ Q.d = [daemon EXCEPT ![E] = Dead]
  BY <1>2, <1>4, DieBond
<1> HIDE DEF Q
<1>7. Q.d[p].wait.on # "line" /\ Q.d[p].wait.on \in {"bury", "no"}
  <2>1. CASE p = E
    <3>1. Q.d[p] = Dead
      BY <1>2, <1>4, <1>6, <2>1
    <3> QED BY <3>1, DeadFacts
  <2>2. CASE p # E
    <3>1. Q.d[p] = daemon[p]
      BY <1>2, <1>6, <2>2
    <3> QED BY <1>3, <3>1
  <2> QED BY <2>1, <2>2
<1>8. Kept(R, p, {}, K, Hosts, Sight(Now))
  BY <1>1, <1>5, <1>7, BuriedKept
<1>9. Bonded(R)
  <2>1. CASE p[2] = "main"
    <3>1. p # E
      BY <1>4, <2>1
    <3>2. Q.d[p] = daemon[p] /\ Q.d[E].mode = "dead"
      BY <1>2, <1>4, <1>6, <3>1, DeadFacts
    <3>3. daemon[p].mode # "dead"
      BY <1>2, <1>3, <2>1, BondParts DEF MainOk
    <3> QED BY <1>3, <1>6, <3>2, <3>3, BuriedBond
  <2>2. CASE p[2] # "main"
    <3>1. p = E
      BY <2>2, MainOrExec
    <3>2. Q.d[p] = Dead /\ Q \in Situation /\ Q.d \in [Daemons -> DaemonType]
      BY <1>2, <1>6, <3>1, BondParts
    <3>3. [Dead EXCEPT !.child = FALSE, !.wait = NoWait] = Dead
      BY BuriedDead
    <3>4. R.d = [Q.d EXCEPT ![p] = [Q.d[p] EXCEPT !.child = FALSE, !.wait = NoWait]]
      BY <3>2 DEF Buried, Situation
    <3>5. R.d = Q.d
      BY <3>2, <3>3, <3>4
    <3> QED BY <1>6, <3>2, <3>5, BuriedType, SameBond
  <2> QED BY <2>1, <2>2
<1> HIDE DEF R
<1> QED BY <1>1, <1>3, <1>8, <1>9, SettleOnward

LEMMA ExecCrashOnward ==
  ASSUME NEW K, Ordered(K), NEW h \in Hosts, ExecCrash(h) PROVE Onward(K)
<1> DEFINE E == Exec(h)
           T == Die(Now, E)
<1>1. E \in Daemons /\ Hosts \in SUBSET Hosts
  BY ProcsFacts
<1>2. Now \in Situation /\ Wired(Now, E, {}, {}, K, Hosts, Sight(Now))
  BY <1>1, OrderedFacts
<1>3. Kept(T, E, {}, K, Hosts, Sight(Now)) /\ T \in Situation
  BY <1>1, <1>2, DieWired DEF Kept
<1>4. Become(T)
  BY DEF ExecCrash
<1> HIDE DEF T
<1> QED BY <1>3, <1>4, KeptAdvance, BecomeOnward

LEMMA ResumeOnward ==
  ASSUME NEW K, Ordered(K), NEW p \in Daemons, Resume(p) PROVE Onward(K)
<1> DEFINE F == IF p[2] = "main" THEN Hosts \ {p[1]} ELSE Hosts
           c == daemon[p]
<1>1. F \in SUBSET Hosts /\ F \in {Hosts, Hosts \ {p[1]}}
  OBVIOUS
<1>2. /\ Bonded(Now) /\ Now.d = daemon /\ Now.n = net /\ Now \in Situation /\ NoMainLeaves
      /\ Records(Now) /\ Wired(Now, p, {}, {}, K, F, Sight(Now))
  BY <1>1, OrderedFacts
<1>3. FreeLines(net) # {} /\ \A x \in K : net.hold[x] # {}
  BY DEF Resume, Room, Ordered
<1>4. c.wait.on \in {"line", "start", "ack"} /\ c.wait.end \in End
  BY DEF Resume, Readable
<1>5. c.mode # "dead" /\ Fit(Now, p)
  <2>1. c.mode # "dead"
    BY <1>2, <1>4, BondParts DEF MainOk, ExecOk
  <2> QED BY <1>2, <1>4, <2>1, ReadyFits DEF Ordered
<1>6. p[2] = "main" => c.wait.on = "line" /\ Forming(c)
  <2> SUFFICES ASSUME p[2] = "main" PROVE c.wait.on = "line" /\ Forming(c)
    OBVIOUS
  <2>1. c.wait.on = "line"
    BY <1>2, <1>4, BondParts DEF MainOk
  <2>2. MainRec(c)
    BY <1>2, MainOrExec, ProcsFacts DEF Records
  <2> QED BY <1>5, <2>1, <2>2 DEF MainRec, Forming
<1> HIDE DEF F
<1>7. Woken(Now, p, {}, K, F, Sight(Now))
  <2>1. p[2] = "main" => p[1] \notin F
    BY DEF F
  <2> QED BY <1>1, <1>2, <1>4, <1>5, <1>6, <2>1 DEF Woken, c
<1>8. CASE c.wait.on = "line"
  <2> DEFINE R == Connected(Now, p)
  <2>1. Become(Settle(R, p))
    BY <1>8 DEF Resume
  <2>2. Kept(R, p, {}, K, F, Sight(Now))
    BY <1>2, <1>3, <1>7, <1>8, ConnectedKept
  <2>3. Bonded(R)
    BY <1>2, <1>3, <1>5, ConnectedBond
  <2>4. F # Hosts => p[2] = "main"
    BY DEF F
  <2>5. p[2] = "main" => Converse(net, c, R.n, R.d[p])
    BY <1>2, <1>3, <1>6, <1>7, <1>8, ConnectedConverse
  <2> HIDE DEF R
  <2>6. F # Hosts => /\ p[2] = "main"
                     /\ Forming(R.d[p]) => Goeson(net, daemon[p], R.n, R.d[p], p[1])
    BY <2>4, <2>5 DEF Goeson, c
  <2> QED BY <1>1, <2>1, <2>2, <2>3, <2>6, SettleOnward
<1>9. CASE c.wait.on # "line"
  <2>1. p[2] # "main" /\ F = Hosts
    BY <1>6, <1>9 DEF F
  <2>2. CASE c.wait.on = "start"
    <3> DEFINE R == Started(Now, p)
    <3>1. Become(Settle(R, p))
      BY <2>2 DEF Resume
    <3>2. Kept(R, p, {}, K, F, Sight(Now)) /\ Bonded(R)
      BY <1>2, <1>5, <1>7, <2>1, <2>2, StartedKept, StartedBond
    <3> HIDE DEF R
    <3> QED BY <1>1, <2>1, <3>1, <3>2, SettleOnward
  <2>3. CASE c.wait.on = "ack"
    <3> DEFINE R == Acknowledged(Now, p)
    <3>1. Become(Settle(R, p))
      BY <2>3 DEF Resume
    <3>2. Kept(R, p, {}, K, F, Sight(Now)) /\ Bonded(R)
      BY <1>2, <1>5, <1>7, <2>1, <2>3, AcknowledgedKept, AcknowledgedBond
    <3> HIDE DEF R
    <3> QED BY <1>1, <2>1, <3>1, <3>2, SettleOnward
  <2> QED BY <1>4, <1>9, <2>2, <2>3
<1> QED BY <1>8, <1>9

(* One turn of a round: the channel e is processed, t is what is left.      *)
Turn(p, t, e, late) ==
  /\ t \in [Slot -> Ends0] /\ t[EarSlot] = NoEnd
  /\ \A s \in Slot : t[s] # NoEnd => t[s] \in Uses(daemon[p])
  /\ e # Ear => e \in Uses(daemon[p])
  /\ e = Ear => p[2] = "main" /\ net.ear[p[1]] # <<>> /\ daemon[p].todo = Idle
  /\ Become(Settle(Process([Now EXCEPT !.d[p].todo = t], p, e, late), p))

LEMMA PolledUses ==
  ASSUME NEW p, NEW k, NEW s \in Slot, NEW e, e = Polled(p, k)[s], e # NoEnd
  PROVE  \/ e = Ear /\ p[2] = "main" /\ net.ear[p[1]] # <<>>
         \/ e \in Uses(daemon[p])
<1> DEFINE d == daemon[p]
           Ready(x) == IF Readable(net, x) THEN x ELSE NoEnd
<1>1. \/ e = Ear /\ p[2] = "main" /\ net.ear[p[1]] # <<>>
      \/ e = d.rope
      \/ s \in Spot /\ (e = d.line[s] \/ e = d.cache[s])
  <2>1. s \in Spot \/ s = EarSlot \/ s = RopeSlot
    BY DEF Slot
  <2>2. Ear # NoEnd /\ \A x : Ready(x) \in {x, NoEnd}
    BY DEF Ear, NoEnd
  <2>3. e = IF d.mode = "loop"
            THEN IF s = EarSlot THEN IF p[2] = "main" /\ net.ear[p[1]] # <<>> THEN Ear ELSE NoEnd
                 ELSE IF s = RopeSlot THEN IF d.child THEN Ready(d.rope) ELSE NoEnd
                 ELSE IF s[2] = Master THEN Ready(d.line[s]) ELSE NoEnd
            ELSE IF s \in Spot /\ (d.mode = "exit" \/ s[2] = k) THEN Ready(d.cache[s]) ELSE NoEnd
    BY DEF Polled
  <2> HIDE DEF Ready
  <2> QED BY <2>1, <2>2, <2>3
<1>2. e = d.rope \/ (s \in Spot /\ (e = d.line[s] \/ e = d.cache[s])) => e \in Uses(d)
  BY DEF Uses, Refs
<1> HIDE DEF d
<1> QED BY <1>1, <1>2 DEF d

LEMMA PollTurn ==
  ASSUME Tied, NEW p \in Daemons, Poll(p)
  PROVE  \E t, e, late : Turn(p, t, e, late)
<1> DEFINE round(k) == IF daemon[p].todo # Idle THEN daemon[p].todo ELSE Polled(p, k)
           Left(k, s) == [round(k) EXCEPT ![s] = NoEnd]
<1>0. PICK k \in IF daemon[p].mode = "main" THEN Chan ELSE {Master}, late \in BOOLEAN :
        \E s \in Slot :
          /\ round(k)[s] # NoEnd
          /\ \A t \in Slot : Before(t, s) => round(k)[t] = NoEnd
          /\ Become(Settle(Process([Now EXCEPT !.d[p].todo = Left(k, s)], p, round(k)[s], late), p))
  BY Zenon DEF Poll
<1>1. PICK s \in Slot :
        /\ round(k)[s] # NoEnd
        /\ \A t \in Slot : Before(t, s) => round(k)[t] = NoEnd
        /\ Become(Settle(Process([Now EXCEPT !.d[p].todo = Left(k, s)], p, round(k)[s], late), p))
  BY <1>0
<1>2. Typed /\ daemon[p].todo \in [Slot -> Ends0] /\ daemon[p] \in DaemonType
  BY DEF Tied, Typed, DaemonTypeOK, DaemonType
<1>3. /\ round(k) \in [Slot -> Ends0 \cup {Ear}]
      /\ \A t \in Slot \ {EarSlot} : round(k)[t] \in Ends0
  <2>1. CASE daemon[p].todo # Idle
    BY <2>1, <1>2, SlotFacts, NoEndIsNoEnd
  <2>2. CASE daemon[p].todo = Idle
    BY <1>2, <2>2, PolledType
  <2> QED BY <2>1, <2>2
<1>4. \A t \in Slot : round(k)[t] # NoEnd =>
        \/ round(k)[t] = Ear /\ p[2] = "main" /\ net.ear[p[1]] # <<>> /\ daemon[p].todo = Idle
        \/ round(k)[t] \in Uses(daemon[p])
  <2>1. CASE daemon[p].todo # Idle
    BY <2>1 DEF Uses
  <2>2. CASE daemon[p].todo = Idle
    BY <2>2, PolledUses
  <2> QED BY <2>1, <2>2
<1> HIDE DEF round
<1>5. Left(k, s) \in [Slot -> Ends0] /\ Left(k, s)[EarSlot] = NoEnd
  <2>0. EarSlot \in Slot
    BY DEF Slot
  <2>1. CASE s = EarSlot
    BY <2>0, <2>1, <1>3, ConstantsType
  <2>2. CASE s # EarSlot
    <3>1. round(k)[EarSlot] = NoEnd
      BY <2>2, <1>1, SlotFacts
    <3> QED BY <2>0, <3>1, <1>3, ConstantsType
  <2> QED BY <2>1, <2>2
<1>6. \A t \in Slot : Left(k, s)[t] # NoEnd => Left(k, s)[t] \in Uses(daemon[p])
  <2>1. \A t \in Slot : Left(k, s)[t] \in Ends0 /\ Left(k, s)[t] \in {round(k)[t], NoEnd}
    BY <1>3, <1>5
  <2> QED BY <1>4, <2>1, NoEndIsNoEnd
<1>7. Uses(daemon[p]) \subseteq End
  BY <1>2, UsesType
<1> HIDE DEF Left
<1>8. Turn(p, Left(k, s), round(k)[s], late)
  BY <1>1, <1>4, <1>5, <1>6, <1>7, NoEndIsNoEnd DEF Turn
<1> QED BY <1>8

(* What a turn starts from.                                                 *)
LEMMA TurnStart ==
  ASSUME NEW K, Ordered(K), NEW p \in Daemons, daemon[p].mode # "dead", daemon[p].wait.on = "no",
         NEW t, NEW e, NEW late, Turn(p, t, e, late), NEW S, S = [Now EXCEPT !.d[p].todo = t],
         NEW F \in SUBSET Hosts
  PROVE  /\ Bonded(S) /\ Fit(S, p) /\ S.n = net /\ S.d[p] = [daemon[p] EXCEPT !.todo = t]
         /\ Kept(S, p, {}, K, F, Sight(Now))
<1> DEFINE c == daemon[p]
           d == [c EXCEPT !.todo = t]
<1>1. /\ Bonded(Now) /\ Now.d = daemon /\ Now.n = net /\ Now \in Situation /\ NoMainLeaves
      /\ Wired(Now, p, {}, {}, K, F, Sight(Now))
  BY OrderedFacts
<1>2. daemon \in [Daemons -> DaemonType] /\ c \in DaemonType /\ c = Now.d[p] /\ Fit(Now, p)
  BY <1>1, BondParts, ReadyFits DEF Ordered
<1>3. t \in [Slot -> Ends0] /\ \A s \in Slot : t[s] # NoEnd => t[s] \in Uses(c)
  BY DEF Turn
<1>4. /\ S \in Situation /\ S.d = [Now.d EXCEPT ![p] = d] /\ S.n = Now.n
  BY <1>1, <1>2, <1>3, SituationWith DEF Situation
<1>5. Kept(S, p, {}, K, F, Sight(Now))
  BY <1>1, <1>2, <1>3, TodoKept
<1> HIDE DEF c
<1>6. /\ d \in DaemonType /\ d.mode = c.mode /\ d.child = c.child
      /\ d.rope = c.rope /\ d.wait = c.wait /\ d.quit = c.quit
      /\ d.runMain = c.runMain /\ d.state = c.state
  BY <1>2, <1>3 DEF DaemonType
<1>7. S.d[p] = [c EXCEPT !.todo = t]
  BY <1>1, <1>2, <1>4
<1> HIDE DEF d
<1>8. Follows(Now, p, d)
  BY <1>1, <1>2, <1>6, AlikeFollows
<1>9. Bonded(S)
  <2>1. Now.d[p].mode # "dead"
    BY <1>2 DEF Fit
  <2> QED BY <1>1, <1>4, <1>8, <2>1, FollowBond, ZenonT(60)
<1>10. S.d[p] = d
  BY <1>7 DEF d
<1>11. Fit(S, p)
  BY <1>2, <1>6, <1>10 DEF Fit
<1> QED BY <1>1, <1>4, <1>5, <1>7, <1>9, <1>11 DEF c

LEMMA FreeUses ==
  ASSUME Tied, NEW p \in Daemons, p[2] = "main", MainRec(daemon[p]), daemon[p].mode # "dead",
         daemon[p].state = "Free", daemon[p].wait.on = "no", daemon[p].todo = Idle
  PROVE  Uses(daemon[p]) = {}
<1> DEFINE d == daemon[p]
<1>1. MainOk(d)
  BY NowBond, BondParts
<1>2. d.line = NoLines /\ d.cache = NoLines /\ d.wait = NoWait /\ d.rope = NoEnd
  BY <1>1 DEF MainRec, MainOk
<1>3. /\ \A s \in Spot : NoLines[s] = NoEnd
      /\ \A s \in Slot : Idle[s] = NoEnd
      /\ NoWait.end = NoEnd /\ NoWait.reply = NoEnd /\ \A k \in Chan : NoWait.lines[k] = NoEnd
  BY DEF NoLines, Idle, NoWait
<1>4. d.todo = Idle
  OBVIOUS
<1> HIDE DEF d
<1>5. Uses(d) = {}
  BY <1>2, <1>3, <1>4 DEF Uses, Refs
<1> QED BY <1>5 DEF d

LEMMA IncomingOnward ==
  ASSUME NEW K, Ordered(K), NEW p \in Daemons, daemon[p].mode # "dead", daemon[p].wait.on = "no",
         FreeLines(net) # {}, NEW t, NEW e, NEW late, Turn(p, t, e, late), e = Ear
  PROVE  Onward(K)
<1> DEFINE c == daemon[p]
           S == [Now EXCEPT !.d[p].todo = t]
           x == Head(net.ear[p[1]])
           new == Says(net, x, {"Enslave"}) /\ c.state = "Free"
           F == IF new THEN Hosts \ {p[1]} ELSE Hosts
           R == ProcessIncoming(S, p, late)
<1>1. F \in SUBSET Hosts /\ F \in {Hosts, Hosts \ {p[1]}}
  OBVIOUS
<1>2. /\ p[2] = "main" /\ net.ear[p[1]] # <<>> /\ c.todo = Idle
      /\ t \in [Slot -> Ends0] /\ \A s \in Slot : t[s] # NoEnd => t[s] \in Uses(c)
  BY DEF Turn
<1>3. Become(Settle(R, p))
  BY DEF Turn, Process
<1>4. new => p[1] \notin F
  BY DEF F
<1>5. ~new => F = Hosts
  BY DEF F
<1>6. c.state = "Free" => Uses(c) = {}
  <2>1. MainRec(c)
    BY <1>1, <1>2, OrderedFacts, MainOrExec, ProcsFacts DEF Records
  <2> QED BY <1>2, <2>1, FreeUses DEF Ordered
<1> HIDE DEF F
<1>7. /\ Bonded(S) /\ Fit(S, p) /\ S.n = net /\ S.d[p] = [c EXCEPT !.todo = t]
      /\ Kept(S, p, {}, K, F, Sight(Now))
  BY <1>1, TurnStart
<1>8. daemon \in [Daemons -> DaemonType] /\ c \in DaemonType /\ net \in NetType
  BY <1>1, OrderedFacts
<1>9. /\ S.d[p].mode = c.mode /\ S.d[p].wait = c.wait /\ S.d[p].state = c.state
      /\ Uses(S.d[p]) \subseteq Uses(c)
  <2>1. [c EXCEPT !.todo = t].todo = t /\ Refs([c EXCEPT !.todo = t]) = Refs(c)
    BY <1>8 DEF DaemonType, Refs
  <2>2. Uses([c EXCEPT !.todo = t]) \subseteq Uses(c)
    <3> DEFINE d == [c EXCEPT !.todo = t]
    <3>1. d.todo = t /\ Refs(d) = Refs(c)
      BY <2>1
    <3> HIDE DEF d
    <3> QED BY <1>2, <3>1 DEF Uses, d
  <2> HIDE DEF S, c
  <2> QED BY <1>7, <1>8, <2>2 DEF DaemonType
<1>10. FreeLines(S.n) # {} /\ (\A y \in K : S.n.hold[y] # {}) /\ S.n.ear[p[1]] # <<>>
       /\ x = Head(S.n.ear[p[1]]) /\ S \in Situation /\ Wired(S, p, {}, {}, K, F, Sight(Now))
  BY <1>2, <1>7 DEF Ordered, Kept
<1>11. Bonded(R)
  BY <1>7, <1>10, ProcessIncomingBond
<1> HIDE DEF S, R
<1>12. IncomingDone(S, R, p, x, K, F, Sight(Now))
  <2>1. S.d[p].mode # "dead" /\ S.d[p].wait.on = "no" /\ (S.d[p].state = "Free" => Uses(S.d[p]) = {})
    BY <1>6, <1>9
  <2>2. Says(S.n, x, {"Enslave"}) /\ S.d[p].state = "Free" => p[1] \notin F
    BY <1>4, <1>7, <1>9
  <2> HIDE DEF x
  <2> QED BY <1>1, <1>2, <1>10, <2>1, <2>2, ProcessIncomingKept DEF R
<1>13. Kept(R, p, {}, K, F, Sight(Now))
  BY <1>12 DEF IncomingDone
<1>14. F # Hosts => /\ p[2] = "main"
                    /\ Forming(R.d[p]) => Goeson(net, daemon[p], R.n, R.d[p], p[1])
  <2> SUFFICES ASSUME F # Hosts, Forming(R.d[p]) PROVE Goeson(net, daemon[p], R.n, R.d[p], p[1])
    BY <1>2
  <2>1. new
    BY <1>5
  <2>2. Fresher(R.n, R.d[p], x)
    BY <1>7, <1>9, <1>12, <2>1 DEF IncomingDone
  <2>3. x \in Queue(net, p[1])
    <3>1. p[1] \in Hosts /\ net.ear[p[1]] \in Seq(End)
      BY <1>8, ProcsFacts DEF NetType
    <3>2. \A s \in Seq(End) : s # <<>> => 1 \in DOMAIN s /\ Head(s) = s[1]
      OBVIOUS
    <3> QED BY <1>2, <3>1, <3>2 DEF Queue
  <2>4. Lent(R.n, Sight(Now)) /\ Sight(Now).hold = net.hold
    <3>1. Wired(R, p, {}, {}, K, F, Sight(Now))
      BY <1>13 DEF Kept
    <3>2. Frozen(R, F, Sight(Now))
      BY <3>1, WiredOwned
    <3> QED BY <3>2 DEF Frozen, Sight, Now
  <2>5. Other(x) \in End
    <3>1. p[1] \in Hosts /\ net.ear[p[1]] \in Seq(End)
      BY <1>8, ProcsFacts DEF NetType
    <3>2. \A s \in Seq(End) : s # <<>> => Head(s) \in End
      OBVIOUS
    <3> QED BY <1>2, <3>1, <3>2, OtherIsEnd
  <2>6. net.hold[Other(x)] # {} /\ net.hold[Other(x)] \cap Daemons = {} => R.n.hold[Other(x)] # {}
    BY <2>4, <2>5 DEF Lent
  <2> HIDE DEF x
  <2>7. Enters(net, R.n, R.d[p], x)
    BY <2>2, <2>6 DEF Enters, Fresher
  <2> QED BY <2>3, <2>7 DEF Goeson
<1> QED BY <1>1, <1>3, <1>11, <1>13, <1>14, SettleOnward

LEMMA LineOnward ==
  ASSUME NEW K, Ordered(K), NEW p \in Daemons, daemon[p].mode # "dead", daemon[p].wait.on = "no",
         FreeLines(net) # {}, NEW t, NEW e, NEW late, Turn(p, t, e, late), e # Ear
  PROVE  Onward(K)
<1> DEFINE c == daemon[p]
           S == [Now EXCEPT !.d[p].todo = t]
           home == p[2] = "main" /\ Forming(c) /\ e = Home(c)
           F == IF home THEN Hosts \ {p[1]} ELSE Hosts
           R == Process(S, p, e, late)
<1>1. F \in SUBSET Hosts /\ F \in {Hosts, Hosts \ {p[1]}}
  OBVIOUS
<1>2. t \in [Slot -> Ends0] /\ e \in Uses(c) /\ Become(Settle(R, p))
  BY DEF Turn
<1>3. home => p[1] \notin F
  BY DEF F
<1>4. ~home => F = Hosts
  BY DEF F
<1> HIDE DEF F
<1>5. /\ Bonded(S) /\ Fit(S, p) /\ S.n = net /\ S.d[p] = [c EXCEPT !.todo = t]
      /\ Kept(S, p, {}, K, F, Sight(Now))
  BY <1>1, TurnStart
<1>6. /\ daemon \in [Daemons -> DaemonType] /\ c \in DaemonType /\ net \in NetType
      /\ Wired(Now, p, {}, {}, K, F, Sight(Now)) /\ Now.n = net /\ Now.d = daemon
  BY <1>1, OrderedFacts
<1>7. /\ S.d[p].mode = c.mode /\ S.d[p].wait = c.wait /\ S.d[p].state = c.state
      /\ S.d[p].line = c.line
  BY <1>5, <1>6 DEF DaemonType
<1>8. Forming(S.d[p]) = Forming(c) /\ Home(S.d[p]) = Home(c) /\ View(S.n, S.d[p]) = View(net, c)
  BY <1>5, <1>7 DEF Forming, Home, View
<1>9. /\ Owned(Now, p, {}) /\ Queued(Now, {}, K) /\ Formed(Now, p, {})
  BY <1>6, WiredOwned
<1>10. e \in End /\ p \in net.hold[e] /\ \A h \in Hosts : e \notin Queue(net, h)
  <2>1. e \in End
    BY <1>2, <1>6, UsesType
  <2>2. p \in net.hold[e]
    BY <1>2, <1>6, <1>9 DEF Owned
  <2>3. ASSUME NEW h \in Hosts, e \in Queue(net, h) PROVE FALSE
    <3>1. net.hold[e] = {Main(h)} /\ e \notin Uses(daemon[Main(h)])
      BY <1>6, <1>9, <2>3 DEF Queued
    <3> QED BY <1>2, <2>2, <3>1
  <2> QED BY <2>1, <2>2, <2>3
<1>11. p[2] = "main" /\ Forming(c) => e = Home(c) \/ ~Says(net, e, ClientCode)
  <2> SUFFICES ASSUME p[2] = "main", Forming(c) PROVE e = Home(c) \/ ~Says(net, e, ClientCode)
    OBVIOUS
  <2>1. FormOk(net, c, p, {})
    BY <1>6, <1>9, MainOrExec, ProcsFacts DEF Formed
  <2> QED BY <1>2, <2>1 DEF FormOk, Peer
<1>12. FreeLines(S.n) # {} /\ \A y \in K : S.n.hold[y] # {}
  BY <1>5 DEF Ordered
<1>13. Bonded(R)
  BY <1>5, <1>10, <1>12, ProcessBond DEF Ends0
<1> HIDE DEF S, R
<1>14. Asked(S, p, e, {}, K, F, Sight(Now))
  <2>1. S \in Situation /\ Wired(S, p, {}, {}, K, F, Sight(Now))
    BY <1>5 DEF Kept
  <2>2. Wired(S, p, {e}, {}, K, F, Sight(Now))
    BY <1>5, <1>8, <1>10, <1>11, <2>1, AlsoHolds
  <2>3. S.d[p].mode # "dead" /\ S.d[p].wait.on = "no"
    BY <1>7
  <2>4. p[2] = "main" /\ Forming(S.d[p]) /\ e = Home(S.d[p]) => p[1] \notin F
    BY <1>3, <1>8
  <2> QED BY <1>1, <2>1, <2>2, <2>3, <2>4 DEF Asked
<1>15. Kept(R, p, {}, K, F, Sight(Now))
  BY <1>12, <1>14, ProcessKept DEF R
<1>16. home => Converse(net, c, R.n, R.d[p])
  <2> SUFFICES ASSUME home PROVE Converse(net, c, R.n, R.d[p])
    OBVIOUS
  <2>1. Converse(S.n, S.d[p], R.n, R.d[p])
    BY <1>8, <1>12, <1>14, HomeConverse DEF R
  <2> QED BY <1>5, <1>8, <2>1 DEF Converse
<1>17. F # Hosts => /\ p[2] = "main"
                    /\ Forming(R.d[p]) => Goeson(net, daemon[p], R.n, R.d[p], p[1])
  BY <1>4, <1>16 DEF Goeson
<1> QED BY <1>1, <1>2, <1>13, <1>15, <1>17, SettleOnward DEF R

LEMMA PollOnward ==
  ASSUME NEW K, Ordered(K), NEW p \in Daemons, Poll(p) PROVE Onward(K)
<1>1. daemon[p].mode # "dead" /\ daemon[p].wait.on = "no" /\ FreeLines(net) # {}
  BY DEF Poll, Room
<1>2. PICK t, e, late : Turn(p, t, e, late)
  BY PollTurn DEF Ordered
<1> QED BY <1>1, <1>2, IncomingOnward, LineOnward
============================================================================
