-------------------------------- MODULE Ping --------------------------------
(***************************************************************************)
(* The ping benchmark (workerPing.hpp on worker.hpp): every worker asks    *)
(* other machines WorkLoad questions, one after the other, and gets its    *)
(* number back with the opposite sign.  A computation is over when every   *)
(* machine said Done on the master line, which the dispatchers count.      *)
(*                                                                         *)
(* Kind "Shared": the dispatcher answers requests and passes responses to  *)
(* the waiting worker through its Box.  Kind "Dedicated": worker w asks    *)
(* and answers on data line w until the workers w of all machines are done *)
(***************************************************************************)
EXTENDS Integers, Sequences, FiniteSets, FiniteSetsExt, SequencesExt

CONSTANTS Kind, Size, Workers, WorkLoad,
          Next2,    \* selection 2: the next machine is asked, not any other
          Capacity  \* bound: messages a line holds before a send blocks

PingConstants == /\ Kind \in {"Shared", "Dedicated"} /\ Next2 \in BOOLEAN
                 /\ Size \in Nat /\ Size > 1 /\ WorkLoad \in Nat \ {0}
                 /\ Workers \subseteq Nat /\ Capacity \in Nat \ {0}

Machines == 1 .. Size
Master == -1
Lines == IF Kind = "Shared" THEN {Master} ELSE Workers \cup {Master}
Tags == {"Request", "Response", "Done"}
Package == [tag: Tags, first: -WorkLoad .. WorkLoad, second: Workers \cup {0}, from: Machines]
Done(m) == [tag |-> "Done", first |-> 0, second |-> 0, from |-> m]

VARIABLES worker, \* pc, the question it is at, Done counted, lines left in its round
          box,    \* [ready, value] of a Shared worker
          hand,   \* what a thread has yet to send: a set of [to, line, msg]
          count,  \* _processed of a machine
          round,  \* lines left in the round of the dispatcher
          main,   \* Workers::run
          wire

vars == <<worker, box, hand, count, round, main, wire>>

Main == -2
Threads == Workers \cup {Master, Main}   \* Master: the dispatcher, Main: Workers::run
Over == {0}
Outgoing == [to: Machines, line: Lines, msg: Package]

TypeOK ==
  /\ \A m \in Machines, w \in Workers:
       /\ worker[m][w].pc \in {"ask", "wait", "over"}
       /\ worker[m][w].at \in 0 .. WorkLoad /\ worker[m][w].finished \in 0 .. Size
       /\ worker[m][w].round \subseteq Machines
       /\ box[m][w].ready \in BOOLEAN /\ box[m][w].value \in -WorkLoad .. 0
  /\ \A m \in Machines: /\ \A t \in Threads: hand[m][t] \subseteq Outgoing
                        /\ round[m] = Over \/ round[m] \subseteq Machines
                        /\ count[m] \in 0 .. Size /\ main[m] \in {"work", "notify", "join", "over"}
  /\ \A m, n \in Machines, l \in Lines: /\ wire[m][n][l] \in Seq(Package)
                                        /\ Len(wire[m][n][l]) <= Capacity

Init ==
  /\ worker = [m \in Machines |-> [w \in Workers |->
                 [pc |-> "ask", at |-> 0, finished |-> 0, round |-> {}]]]
  /\ box = [m \in Machines |-> [w \in Workers |-> [ready |-> FALSE, value |-> 0]]]
  /\ hand = [m \in Machines |-> [t \in Threads |-> {}]]
  /\ count = [m \in Machines |-> 0] /\ round = [m \in Machines |-> {}]
  /\ main = [m \in Machines |-> "work"]
  /\ wire = [m \in Machines |-> [n \in Machines |-> [l \in Lines |-> << >>]]]

-----------------------------------------------------------------------------
(* sendTo and sendAll: a thread goes on when everything it has in hand is  *)
(* sent; a full line makes it wait.                                        *)
Free(m, t) == hand[m][t] = {}
Deliver(m, t) ==
  /\ \E x \in hand[m][t]:
       /\ Len(wire[m][x.to][x.line]) < Capacity
       /\ wire' = [wire EXCEPT ![m][x.to][x.line] = Append(@, x.msg)]
       /\ hand' = [hand EXCEPT ![m][t] = @ \ {x}]
  /\ UNCHANGED <<worker, box, count, round, main>>

ToAll(m, l) == [to: Machines \ {m}, line: {l}, msg: {Done(m)}]

(* owner(): any other machine (the hash and the random selections), or the *)
(* next one.                                                               *)
Targets(m) == IF Next2 THEN {(m % Size) + 1} ELSE Machines \ {m}
LineOf(w) == IF Kind = "Shared" THEN Master ELSE w

(* The body of the loop in Shared::main, ask() of Dedicated.               *)
Ask(m, w) ==
  /\ Free(m, w) /\ worker[m][w].pc = "ask"
  /\ Kind = "Shared" => worker[m][w].at < WorkLoad
  /\ worker' = [worker EXCEPT ![m][w].pc = "wait", ![m][w].at = @ + 1]
  /\ \E n \in Targets(m):
       hand' = [hand EXCEPT ![m][w] =
         {[to |-> n, line |-> LineOf(w),
           msg |-> [tag |-> "Request", first |-> worker[m][w].at + 1,
                   second |-> IF Kind = "Shared" THEN w ELSE 0, from |-> m]]}]
  /\ UNCHANGED <<box, count, round, main, wire>>

(* request() and response(): the number goes back with the opposite sign.  *)
Answer(m, msg, l) == {[to |-> msg.from, line |-> l,
                       msg |-> [msg EXCEPT !.tag = "Response", !.first = -@, !.from = m]]}

-----------------------------------------------------------------------------
(* Shared: the worker sleeps on its box until the dispatcher signals it.   *)
Wake(m, w) ==
  /\ Kind = "Shared" /\ Free(m, w) /\ worker[m][w].pc = "wait" /\ box[m][w].ready
  /\ box' = [box EXCEPT ![m][w].ready = FALSE]
  /\ worker' = [worker EXCEPT ![m][w].pc = "ask"]
  /\ UNCHANGED <<hand, count, round, main, wire>>

SharedOver(m, w) ==
  /\ Kind = "Shared" /\ worker[m][w].pc = "ask" /\ worker[m][w].at = WorkLoad
  /\ worker' = [worker EXCEPT ![m][w].pc = "over"]
  /\ UNCHANGED <<box, hand, count, round, main, wire>>

(* Dedicated: rounds of probe on line w while not everybody is finished.   *)
Finished(m, w) == worker[m][w].finished = Size

Readable(m, l) == {n \in Machines: wire[n][m][l] # << >>}

WorkerRound(m, w) ==
  /\ Kind = "Dedicated" /\ Free(m, w) /\ worker[m][w].pc = "wait" /\ worker[m][w].round = {}
  /\ \/ /\ ~Finished(m, w) /\ Readable(m, w) # {}
        /\ worker' = [worker EXCEPT ![m][w].round = Readable(m, w)]
     \/ /\ Finished(m, w)
        /\ worker' = [worker EXCEPT ![m][w].pc = "over"]
  /\ UNCHANGED <<box, hand, count, round, main, wire>>

(* processMessage(): the last response finishes the worker.                *)
ProcessMessage(m, w, n) ==
  /\ Kind = "Dedicated" /\ Free(m, w) /\ n \in worker[m][w].round /\ worker[m][w].pc = "wait"
  /\ LET msg == Head(wire[n][m][w])
         here == [worker[m][w] EXCEPT !.round = @ \ {n}]
     IN CASE msg.tag = "Request" ->
               /\ worker' = [worker EXCEPT ![m][w] = here]
               /\ hand' = [hand EXCEPT ![m][w] = Answer(m, [msg EXCEPT !.from = n], w)]
          [] msg.tag = "Response" /\ -msg.first = WorkLoad ->
               /\ worker' = [worker EXCEPT ![m][w] = [here EXCEPT !.finished = @ + 1]]
               /\ hand' = [hand EXCEPT ![m][w] = ToAll(m, w)]
          [] msg.tag = "Response" /\ -msg.first # WorkLoad ->
               /\ worker' = [worker EXCEPT ![m][w] = [here EXCEPT !.pc = "ask"]]
               /\ UNCHANGED hand
          [] msg.tag = "Done" ->
               /\ worker' = [worker EXCEPT ![m][w] = [here EXCEPT !.finished = @ + 1]]
               /\ UNCHANGED hand
  /\ wire' = [wire EXCEPT ![n][m][w] = Tail(@)]
  /\ UNCHANGED <<box, count, round, main>>

Worker(m, w) == Deliver(m, w) \/ Ask(m, w) \/ Wake(m, w) \/ SharedOver(m, w) \/ WorkerRound(m, w)
                \/ \E n \in Machines: ProcessMessage(m, w, n)

-----------------------------------------------------------------------------
(* dispatcher(): rounds of probe until every machine is processed.         *)
\* mutant: the dispatcher stops when the workers of its own machine are done
EnoughHere(m) == count[m] > 0
Enough(m) == count[m] >= Size

DispatcherRound(m) ==
  /\ Free(m, Master) /\ round[m] = {}
  /\ \/ ~Enough(m) /\ Readable(m, Master) # {} /\ round' = [round EXCEPT ![m] = Readable(m, Master)]
     \/ Enough(m) /\ round' = [round EXCEPT ![m] = Over]
  /\ UNCHANGED <<worker, box, hand, count, main, wire>>

(* The response is passed to the worker that is named in it.               *)
BoxOf(msg) == msg.second

ProcessDispatch(m, n) ==
  /\ Free(m, Master) /\ round[m] # Over /\ n \in round[m]
  /\ LET msg == Head(wire[n][m][Master])
     IN CASE msg.tag = "Request" ->
               /\ hand' = [hand EXCEPT ![m][Master] = Answer(m, msg, LineOf(msg.second))]
               /\ UNCHANGED <<box, count>>
          [] msg.tag = "Response" ->
               /\ box' = [box EXCEPT ![m][BoxOf(msg)] = [ready |-> TRUE, value |-> msg.first]]
               /\ UNCHANGED <<hand, count>>
          [] msg.tag = "Done" ->
               /\ count' = [count EXCEPT ![m] = @ + 1]
               /\ UNCHANGED <<hand, box>>
  /\ wire' = [wire EXCEPT ![n][m][Master] = Tail(@)]
  /\ round' = [round EXCEPT ![m] = @ \ {n}]
  /\ UNCHANGED <<worker, main>>

Dispatcher(m) == Deliver(m, Master) \/ DispatcherRound(m) \/ \E n \in Machines: ProcessDispatch(m, n)

(* Workers::run: wait for the workers, notifyAll, wait for the dispatcher. *)
NotifyAll(m) ==
  /\ main[m] = "work" /\ \A w \in Workers: worker[m][w].pc = "over"
  /\ count' = [count EXCEPT ![m] = @ + 1]
  /\ hand' = [hand EXCEPT ![m][Main] = ToAll(m, Master)]
  /\ main' = [main EXCEPT ![m] = "notify"]
  /\ UNCHANGED <<worker, box, round, wire>>

Join(m) ==
  /\ \/ main[m] = "notify" /\ Free(m, Main) /\ main' = [main EXCEPT ![m] = "join"]
     \/ main[m] = "join" /\ round[m] = Over /\ main' = [main EXCEPT ![m] = "over"]
  /\ UNCHANGED <<worker, box, hand, count, round, wire>>

Run(m) == Deliver(m, Main) \/ NotifyAll(m) \/ Join(m)

(* Daemon::exit reads and forgets whatever still comes: here nothing can,  *)
(* because every thread counts all messages that are sent to it.           *)
Next == \E m \in Machines: \/ \E w \in Workers: Worker(m, w)
                           \/ Dispatcher(m) \/ Run(m)

Spec == Init /\ [][Next]_vars
FairSpec == Spec /\ \A m \in Machines: /\ \A w \in Workers: WF_vars(Worker(m, w))
                                       /\ WF_vars(Dispatcher(m)) /\ WF_vars(Run(m))

-----------------------------------------------------------------------------
(* The places that hold an answer, or the question for it, of worker w:    *)
(* the hands of threads, the lines and the box.                            *)
About(msg, l, m, w) == /\ IF Kind = "Shared" THEN msg.second = w ELSE l = w
                       /\ \/ msg.tag = "Request" /\ msg.from = m /\ msg.first = worker[m][w].at
                          \/ msg.tag = "Response" /\ msg.first = -worker[m][w].at
Traces(m, w) ==
  LET own(msg, n, o) == IF msg.tag = "Request" THEN n = m ELSE o = m
      inHand(n, t, x) == /\ x \in hand[n][t] /\ About(x.msg, x.line, m, w)
                         /\ own(x.msg, n, x.to)
      onLine(n, o, l, i) == /\ i \in DOMAIN wire[n][o][l] /\ About(wire[n][o][l][i], l, m, w)
                            /\ own(wire[n][o][l][i], n, o)
      things == UNION {hand[n][t]: n \in Machines, t \in Threads}
  IN Cardinality({y \in Machines \X Threads \X things: inHand(y[1], y[2], y[3])})
     + Cardinality({y \in Machines \X Machines \X Lines \X (1 .. Capacity):
                      onLine(y[1], y[2], y[3], y[4])})
     + (IF box[m][w].ready /\ box[m][w].value = -worker[m][w].at THEN 1 ELSE 0)

(* The answer a worker waits for is in exactly one place, with the right   *)
(* number and on its way to the right worker, through dispatchers, boxes   *)
(* and lines; for a worker that does not wait nothing is under way.  A     *)
(* Dedicated worker that got its last answer only waits for the others.    *)
OneAnswer == \A m \in Machines, w \in Workers:
  IF worker[m][w].pc # "wait" THEN Traces(m, w) = 0
  ELSE \/ Traces(m, w) = 1
       \/ Traces(m, w) = 0 /\ Kind = "Dedicated" /\ worker[m][w].at = WorkLoad

(* A thread that returned had nothing left to answer: no question and no   *)
(* response is on a line whose reader is over.                             *)
NothingLeft == \A m, n \in Machines, l \in Lines:
  (IF l = Master THEN round[m] = Over ELSE worker[m][l].pc = "over") =>
     \A i \in DOMAIN wire[n][m][l]: wire[n][m][l][i].tag = "Done"

(* Everybody returns: the counts of Done reach the size of the world on    *)
(* every machine and in every worker.                                      *)
AllOver == \A m \in Machines: main[m] = "over"
Ends == <>AllOver
=============================================================================
