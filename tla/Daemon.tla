------------------------------- MODULE Daemon -------------------------------
(***************************************************************************)
(* The daemon of every machine: its main process and the executive it      *)
(* forks when a group is formed (daemon.cpp, communicator.h).  A handler   *)
(* maps a situation S == [d |-> daemon, n |-> net] to the situation it     *)
(* leaves behind; an action applies the handler of one ready channel.      *)
(* Where the code blocks (waiting for a peer, for the Start command, for   *)
(* the parent, for the death of the child) the handler stops and another   *)
(* action continues it.                                                    *)
(***************************************************************************)
EXTENDS Wire

VARIABLE daemon

State == {"Free", "Enslaved", "FormingGroup", "Grouped", "Supervising", "Running", "Leaving"}

(* loop: Daemon::loop, main: the program's main inside runMain, exit: the   *)
(* probing loop of Daemon::exit                                             *)
Mode == {"dead", "loop", "main", "exit"}

RopeSlot == <<-1, Master>>
EarSlot == <<-2, Master>>
Slot == Spot \cup {RopeSlot, EarSlot}
Before(s, t) == s[1] < t[1] \/ (s[1] = t[1] /\ s[2] < t[2])
Idle == [s \in Slot |-> NoEnd]

(* What a blocked handler waits for on end: the answer to Join or DataLine  *)
(* (line), the Start command, the acknowledgement of the parent (ack); or   *)
(* the child's death (bury).  The other fields are its local variables.     *)
WaitType == [on: {"no", "line", "start", "ack", "bury"},
             end: Ends0, reply: Ends0, host: Hosts \cup {NoHost},
             arg: Nat, chan: Chan, lines: [Chan -> Ends0]]
NoWait == [on |-> "no", end |-> NoEnd, reply |-> NoEnd, host |-> NoHost,
           arg |-> 0, chan |-> Master, lines |-> [k \in Chan |-> NoEnd]]

DaemonType == [mode: Mode, state: State, line: [Spot -> Ends0], rope: Ends0,
               child: BOOLEAN, rank: Nat, world: Nat, quit: BOOLEAN,
               runMain: BOOLEAN, cache: [Spot -> Ends0],
               todo: [Slot -> Ends0], wait: WaitType]

NoLines == [s \in Spot |-> NoEnd]
Dead == [mode |-> "dead", state |-> "Free", line |-> NoLines, rope |-> NoEnd,
         child |-> FALSE, rank |-> 0, world |-> 0, quit |-> FALSE,
         runMain |-> FALSE, cache |-> NoLines, todo |-> Idle, wait |-> NoWait]
Fresh == [Dead EXCEPT !.mode = "loop"]

DaemonInit == daemon = [p \in Daemons |-> IF p[2] = "main" THEN Fresh ELSE Dead]

(* Every Channel the process still refers to.                               *)
Refs(d) == {d.line[s] : s \in Spot} \cup {d.cache[s] : s \in Spot}
           \cup {d.wait.lines[k] : k \in Chan} \cup {d.rope, d.wait.end, d.wait.reply}
Backlog(n, p) == IF p[2] = "main" THEN {n.ear[p[1]][i] : i \in DOMAIN n.ear[p[1]]} ELSE {}

-----------------------------------------------------------------------------
(* The process ends and the kernel closes what it held.                     *)
Die(S, p) ==
  LET n == Keep(S.n, p, {})
  IN [d |-> [S.d EXCEPT ![p] = Dead],
      n |-> IF p[2] = "main" THEN Unlisten(n, p[1]) ELSE n]

(* The child is killed; with wait it has the time to finish by itself, and  *)
(* the caller blocks for it.                                                *)
NoWaitForChild(S, p, wait) == [S EXCEPT !.d[p].child = FALSE]   \* mutant: nobody is buried
WaitForChild(S, p, wait) ==
  IF ~S.d[p].child THEN S
  ELSE IF wait THEN [S EXCEPT !.d[p].wait = [NoWait EXCEPT !.on = "bury"]]
  ELSE Die([S EXCEPT !.d[p].child = FALSE], Exec(p[1]))

LeavingOnly == {"Leaving"}               \* mutant: a reset of a Grouped process goes on
Quitting == {"Grouped", "Leaving"}       \* states of a process that quits when it is reset
BlankRank(d) == [d EXCEPT !.rank = -1]   \* mutant: no rank instead of rank 0
Blank(d) == [d EXCEPT !.line = NoLines, !.rope = NoEnd, !.state = "Free", !.rank = 0, !.world = 0,
                      !.quit = @ \/ d.state \in Quitting]
SetDefault(S, p, wait) == WaitForChild([S EXCEPT !.d[p] = Blank(@)], p, wait)

(* Communicator::sendAll over the master lines leaves out the client.       *)
PeerLines(d) == {d.line[<<r, Master>>] : r \in Ranks \ {0, d.rank}} \ {NoEnd}
Reset(S, p, code) ==
  SetDefault([S EXCEPT !.n = SendEach(@, PeerLines(S.d[p]), Msg(code))], p, FALSE)

(* Daemon::exit, up to its loop.                                            *)
Finish(S, p) ==
  LET e == S.d[p].line[<<0, Master>>]
  IN IF e = NoEnd \/ Broken(S.n, e) THEN Die(S, p)
     ELSE [d |-> [S.d EXCEPT ![p].mode = "exit", ![p].todo = Idle, ![p].wait = NoWait],
           n |-> Send(S.n, e, Msg("Done"))]

(* An exception leaves a handler: loop() resets the daemon, runMain() ends  *)
(* the program's main, nothing catches it in exit().                        *)
Raise(S, p) ==
  LET T == [S EXCEPT !.d[p].wait = NoWait, !.d[p].todo = Idle]
  IN CASE S.d[p].mode = "loop" -> Reset(T, p, "Error")
       [] S.d[p].mode = "main" -> Finish(T, p)
       [] OTHER -> Die(S, p)

ConsumeNothing(S, e) == S                \* mutant: the message is only peeked at
Consume(S, e) == [S EXCEPT !.n = Receive(@, e)]
StopRound(S, p) == [S EXCEPT !.d[p].todo = Idle]

(* The handler's answer c on channel e, from which it goes on to d.         *)
Answer(S, p, e, c, d) ==
  IF Broken(S.n, e) THEN Raise(S, p)
  ELSE [d |-> [S.d EXCEPT ![p] = d], n |-> Send(S.n, e, Msg(c))]
Refuse(S, p, e) == Answer(S, p, e, "Refuse", S.d[p])

(* Connections::insert keeps what is already there.                         *)
InsertMaster(d, r, lines) ==             \* mutant: the data lines are lost
  IF d.line[<<r, Master>>] # NoEnd THEN d ELSE [d EXCEPT !.line[<<r, Master>>] = lines[Master]]
Insert(d, r, lines) ==
  IF d.line[<<r, Master>>] # NoEnd THEN d
  ELSE [d EXCEPT !.line = [s \in Spot |-> IF s[1] = r THEN lines[s[2]] ELSE @[s]]]
OneLine(e) == [k \in Chan |-> IF k = Master THEN e ELSE NoEnd]

-----------------------------------------------------------------------------
(* Handlers of processControl: process p, channel e, message m still unread *)
(* except where the handler is reached after cleanup().                     *)

Enslave(S, p, e, m, late) ==
  IF S.d[p].state # "Free" THEN Refuse(S, p, e)
  ELSE IF late /\ Hung(S.n, e) THEN Raise(Consume(S, e), p)
  ELSE Answer(Consume(S, e), p, e, "OK",
              [Insert(S.d[p], 0, OneLine(e)) EXCEPT !.rank = m.arg, !.state = "Enslaved"])

Release(S, p, e) ==
  LET T == Consume(S, e)
  IN IF S.d[p].state # "Enslaved" THEN Refuse(T, p, e)
     ELSE IF Broken(T.n, e) THEN Raise(T, p)
     ELSE SetDefault(Answer(T, p, e, "OK", T.d[p]), p, FALSE)

ForgetWorld(S, p, e, m) ==               \* mutant: the size of the world is not stored
  Answer(Consume(S, e), p, e, "OK", [S.d[p] EXCEPT !.state = "FormingGroup"])
StartGrouping(S, p, e, m) ==
  LET T == Consume(S, e)
  IN IF S.d[p].state # "Enslaved" THEN Refuse(T, p, e)
     ELSE Answer(T, p, e, "OK",
                 [T.d[p] EXCEPT !.state = "FormingGroup", !.world = m.arg])

(* connectLine: Join opens the master line, DataLine number k a data line;  *)
(* w is what the handler will wait with.                                    *)
ConnectLine(S, p, k, w) ==
  LET l == NewLine(S.n)
      m == [MsgArg(IF k = Master THEN "Join" ELSE "DataLine", S.d[p].rank) EXCEPT !.chan = k]
  IN IF w.host \notin S.n.listen THEN Raise(S, p)
     ELSE [d |-> [S.d EXCEPT ![p].wait =
                    [w EXCEPT !.on = "line", !.chan = k, !.end = <<l, "near">>]],
           n |-> Connect(S.n, l, {p}, w.host, m)]

Connecting(S, p, e, m) ==
  LET T == Consume(S, e)
  IN IF S.d[p].state # "FormingGroup" THEN Refuse(T, p, e)
     ELSE ConnectLine(T, p, Master, [NoWait EXCEPT !.reply = e, !.host = m.host, !.arg = m.arg])

(* The answer of the peer: the next data line, or the end of connecting.    *)
Connected(S, p) ==
  LET w == S.d[p].wait
      answer == Peek(S.n, w.end).tag
      lines == [w.lines EXCEPT ![w.chan] = w.end]
      T == [Consume(S, w.end) EXCEPT !.d[p].wait = NoWait]
      U == [T EXCEPT !.d[p] = Insert(@, w.arg, lines)]
  IN CASE answer = "OK" /\ w.chan + 1 \in Chan ->
            ConnectLine(T, p, w.chan + 1, [w EXCEPT !.lines = lines])
       [] answer = "OK" /\ w.chan + 1 \notin Chan ->
            Answer(U, p, w.reply, "OK", U.d[p])
       [] answer = "Refuse" -> Refuse(T, p, w.reply)
       [] OTHER -> Raise(T, p)

(* After the answer the address of the peer is asked for, which may fail    *)
(* when the peer is gone already: late.                                     *)
Join(S, p, e, m, late) ==
  LET T == Consume(S, e)
  IN IF S.d[p].state # "FormingGroup" THEN Refuse(T, p, e)
     ELSE IF late /\ Hung(T.n, e) THEN Raise(T, p)
     ELSE Answer(T, p, e, "OK", Insert(T.d[p], m.arg, OneLine(e)))

AddDataLine(S, p, e, m) ==
  LET T == Consume(S, e)
      d == T.d[p]
  IN IF d.state = "FormingGroup" /\ d.line[<<m.arg, Master>>] # NoEnd
     THEN Answer(T, p, e, "OK", [d EXCEPT !.line[<<m.arg, m.chan>>] = e])
     ELSE Refuse(T, p, e)

(* fork: becomeParent and becomeChild with buildCache.                      *)
Grouped(S, p, e) ==
  LET T == Consume(S, e)
      l == NewLine(S.n)
      d == T.d[p]
      n == SocketPair(Fork(Send(T.n, e, Msg("OK")), p, Exec(p[1]), Backlog(T.n, p)),
                      l, p, Exec(p[1]))
      parent == [d EXCEPT !.line = NoLines, !.state = "Supervising",
                          !.rope = <<l, "near">>, !.child = TRUE]
      child == [d EXCEPT !.state = "Grouped", !.rope = <<l, "far">>, !.cache = d.line]
  IN IF d.state # "FormingGroup" THEN Refuse(T, p, e)
     ELSE IF Broken(T.n, e) THEN Raise(T, p)
     ELSE [d |-> [T.d EXCEPT ![p] = parent, ![Exec(p[1])] = child], n |-> n]

InitData(S, p, e) == IF S.d[p].state # "Grouped" THEN S ELSE Consume(S, e)

RunAtOnce(S, p, e) ==                    \* mutant: Start is not awaited
  Answer(Consume(S, e), p, e, "OK", [S.d[p] EXCEPT !.runMain = TRUE])
Run(S, p, e) ==
  IF S.d[p].state # "Grouped" THEN Refuse(S, p, e)
  ELSE Answer(Consume(S, e), p, e, "OK",
              [S.d[p] EXCEPT !.wait = [NoWait EXCEPT !.on = "start", !.end = e]])

Started(S, p) ==
  LET e == S.d[p].wait.end
      T == [Consume(S, e) EXCEPT !.d[p].wait = NoWait]
  IN IF Peek(S.n, e).tag = "Start" THEN [T EXCEPT !.d[p].runMain = TRUE] ELSE Raise(T, p)

Prepare(S, p, e) ==
  LET T == Consume(S, e)
  IN IF S.d[p].state \notin {"Grouped", "FormingGroup"} THEN Refuse(T, p, e)
     ELSE Answer(T, p, e, "OK", [T.d[p] EXCEPT !.state = "Leaving"])

LeaveAtOnce(S, p, e) ==                  \* mutant: the acknowledgement is not awaited
  LET T == Answer(Consume(S, e), p, S.d[p].rope, "CutRope", S.d[p])
  IN Answer(T, p, e, "OK", [T.d[p] EXCEPT !.quit = TRUE])
Leave(S, p, e) ==
  LET T == Consume(S, e)
      d == T.d[p]
  IN IF d.state # "Leaving" THEN Refuse(T, p, e)
     ELSE IF d.rope = NoEnd THEN Die(T, p)   \* dereferences an empty Channel
     ELSE Answer(T, p, d.rope, "CutRope",
                 [d EXCEPT !.wait = [NoWait EXCEPT !.on = "ack", !.end = d.rope, !.reply = e]])

StayAfterLeave(S, p) ==                  \* mutant: nothing tells the executive to quit
  LET w == S.d[p].wait
      T == [Consume(S, w.end) EXCEPT !.d[p].wait = NoWait]
  IN Answer(T, p, w.reply, "OK", [T.d[p] EXCEPT !.world = 0])
Acknowledged(S, p) ==
  LET w == S.d[p].wait
      T == [Consume(S, w.end) EXCEPT !.d[p].wait = NoWait]
  IN Answer(T, p, w.reply, "OK", [T.d[p] EXCEPT !.world = 0, !.quit = TRUE])

CutRope(S, p, e) ==
  LET T == Consume(S, e)
  IN IF S.d[p].state # "Supervising" \/ e # S.d[p].rope THEN Refuse(T, p, e)
     ELSE IF Broken(T.n, e) THEN Raise(T, p)
     ELSE SetDefault(Answer(T, p, e, "OK", T.d[p]), p, TRUE)

(* error and renegade: the peers are told, then everything is forgotten.    *)
(* They are told Renegade, which a daemon handles like Error.               *)
Error(S, p, e) == Reset(Consume(S, e), p, "Renegade")

StatusReply(S, p, e) == Answer(Consume(S, e), p, e, "Status", S.d[p])

Shutdown(S, p, e) ==
  LET T == Consume(S, e)
  IN IF S.d[p].state # "Free" THEN Refuse(T, p, e)
     ELSE IF Broken(T.n, e) THEN Raise(T, p)
     ELSE Die(SetDefault(Answer(T, p, e, "OK", T.d[p]), p, FALSE), p)

ForceShutdown(S, p, e) == Die(SetDefault(Consume(S, e), p, FALSE), p)

ForceReset(S, p, e) ==
  LET T == Consume(S, e)
  IN IF S.d[p].state = "Free" THEN T ELSE Reset(T, p, "Error")

ProcessControl(S, p, e, late) ==
  LET m == Peek(S.n, e)
  IN CASE m.tag = "Enslave" -> Enslave(S, p, e, m, late)
       [] m.tag = "Disconnect" -> Release(S, p, e)
       [] m.tag = "Peers" -> StartGrouping(S, p, e, m)
       [] m.tag = "ConnectTo" -> Connecting(S, p, e, m)
       [] m.tag = "Join" -> Join(S, p, e, m, late)
       [] m.tag = "DataLine" -> AddDataLine(S, p, e, m)
       [] m.tag = "Grouped" -> Grouped(S, p, e)
       [] m.tag = "InitialData" -> InitData(S, p, e)
       [] m.tag = "Run" -> Run(S, p, e)
       [] m.tag = "PrepareToLeave" -> Prepare(S, p, e)
       [] m.tag = "Leave" -> Leave(S, p, e)
       [] m.tag = "CutRope" -> CutRope(S, p, e)
       [] m.tag \in {"Error", "Renegade"} -> Error(S, p, e)
       [] m.tag = "Status" -> StatusReply(S, p, e)
       [] m.tag = "Shutdown" -> Shutdown(S, p, e)
       [] m.tag = "ForceShutdown" -> ForceShutdown(S, p, e)
       [] m.tag = "ForceReset" -> ForceReset(S, p, e)
       [] OTHER -> Raise(Consume(S, e), p)

(* A closed channel, by the state of the process that polls it.             *)
DieLeaving(S, p) == IF p[2] = "main" THEN SetDefault(S, p, FALSE) ELSE Die(S, p)
                                         \* mutant: a leaving executive ends early
StayGrouped(S, p) == IF p[2] = "main" THEN SetDefault(S, p, FALSE) ELSE S
                                         \* mutant: an executive never gives up
ProcessDisconnected(S, p) ==
  CASE S.d[p].state = "Leaving" -> S
    [] S.d[p].state \in {"Supervising", "Free", "Enslaved", "FormingGroup"} ->
         SetDefault(S, p, FALSE)
    [] OTHER -> Die(S, p)

-----------------------------------------------------------------------------
(* One accepted connection: a single message is processed; the channel      *)
(* survives when the handler stored it.                                     *)
ProcessIncoming(S, p, late) ==
  LET e == Head(S.n.ear[p[1]])
      T == ProcessControl([S EXCEPT !.n = Accept(@, p[1])], p, e, late)
  IN IF e \in Refs(T.d[p]) THEN T ELSE [T EXCEPT !.n = Keep(@, p, End \ {e})]

(* Disconnect and ForceReset end the round, but not when they arrive on a   *)
(* new connection, where the result of processControl is dropped.           *)
Process(S, p, e, late) ==
  LET T == ProcessControl(S, p, e, late)
  IN IF e = Ear THEN ProcessIncoming(S, p, late)
     ELSE IF Closed(S.n, e) THEN ProcessDisconnected(S, p)
     ELSE IF Peek(S.n, e).tag \in {"Disconnect", "ForceReset"} THEN StopRound(T, p)
     ELSE T

(* The end of a round of poll: the channels that were polled are let go and *)
(* the condition of the loop is tested.                                     *)
Settle(S, p) ==
  LET d == S.d[p]
      T == [S EXCEPT !.n = Keep(@, p, Refs(d) \cup Backlog(@, p))]
  IN IF d.mode = "dead" \/ d.wait.on # "no" \/ d.todo # Idle THEN S
     ELSE IF d.mode = "loop" /\ d.runMain THEN [T EXCEPT !.d[p].mode = "main"]
     ELSE IF d.mode \in {"loop", "exit"} /\ d.quit THEN Die(S, p)
     ELSE T

(* The channels a round polls that are ready: loop() listens to the ear,    *)
(* the rope and the master lines, exit() to every cached line, the          *)
(* program's main to the cached lines of the channel k it asks for.         *)
Polled(p, k) ==
  LET d == daemon[p]
      Ready(e) == IF Readable(net, e) THEN e ELSE NoEnd
  IN [s \in Slot |->
        IF d.mode = "loop"
        THEN IF s = EarSlot
             THEN IF p[2] = "main" /\ net.ear[p[1]] # <<>> THEN Ear ELSE NoEnd
             ELSE IF s = RopeSlot THEN IF d.child THEN Ready(d.rope) ELSE NoEnd
             ELSE IF s[2] = Master THEN Ready(d.line[s]) ELSE NoEnd
        ELSE IF s \in Spot /\ (d.mode = "exit" \/ s[2] = k) THEN Ready(d.cache[s])
        ELSE NoEnd]

Become(S) == daemon' = S.d /\ net' = S.n
Room == FreeLines(net) # {}   \* bound: a handler that connects finds a free line
Now == [d |-> daemon, n |-> net]

(* A step of a round: the first ready channel not processed yet.            *)
Poll(p) ==
  /\ Room
  /\ daemon[p].mode # "dead"
  /\ daemon[p].wait.on = "no"
  /\ \E k \in IF daemon[p].mode = "main" THEN Chan ELSE {Master}, late \in BOOLEAN :
       LET round == IF daemon[p].todo # Idle THEN daemon[p].todo ELSE Polled(p, k)
       IN \E s \in Slot :
            /\ round[s] # NoEnd
            /\ \A t \in Slot : Before(t, s) => round[t] = NoEnd
            /\ LET S == [Now EXCEPT !.d[p].todo = [round EXCEPT ![s] = NoEnd]]
               IN Become(Settle(Process(S, p, round[s], late), p))

(* The message a blocked handler waits for has arrived, or its line closed. *)
Resume(p) ==
  LET on == daemon[p].wait.on
  IN /\ Room
     /\ Readable(net, daemon[p].wait.end)
     /\ \/ on = "line" /\ Become(Settle(Connected(Now, p), p))
        \/ on = "start" /\ Become(Settle(Started(Now, p), p))
        \/ on = "ack" /\ Become(Settle(Acknowledged(Now, p), p))

Buried(S, p) == [S EXCEPT !.d[p].child = FALSE, !.d[p].wait = NoWait]

(* waitForChild: the child finished in time.                                *)
Bury(p) ==
  /\ daemon[p].wait.on = "bury"
  /\ daemon[Exec(p[1])].mode = "dead"
  /\ Become(Settle(Buried(Now, p), p))

(* The program's main returns: the user's algorithm, not the daemon,        *)
(* decides when.                                                            *)
FinishMain(p) ==
  /\ daemon[p].mode = "main"
  /\ daemon[p].wait.on = "no"
  /\ daemon[p].todo = Idle
  /\ Become(Settle(Finish(Now, p), p))

DaemonStep(p) == Poll(p) \/ Resume(p) \/ Bury(p) \/ FinishMain(p)

-----------------------------------------------------------------------------
(* What may go wrong on a machine.                                          *)

(* Five seconds pass before the awaited message.                            *)
TimeOut(p) ==
  /\ daemon[p].wait.on \in {"line", "start"}
  /\ ~Readable(net, daemon[p].wait.end)
  /\ Become(Settle(Raise(Now, p), p))

(* The child does not finish within 100 ms and is killed.                   *)
BuryLate(p) ==
  /\ daemon[p].wait.on = "bury"
  /\ daemon[Exec(p[1])].mode # "dead"
  /\ Become(Settle(Buried(Die(Now, Exec(p[1])), p), p))

(* The executive crashes, for instance in the program's main.               *)
ExecCrash(h) ==
  /\ daemon[Exec(h)].mode # "dead"
  /\ Become(Die(Now, Exec(h)))

DaemonTypeOK == daemon \in [Daemons -> DaemonType]
=============================================================================
