-------------------------------- MODULE Load --------------------------------
(***************************************************************************)
(* The load benchmark (workerLoad.hpp on worker.hpp): machines explore a   *)
(* grid of packages together.  Every package belongs to the machine its    *)
(* hash names; a worker that meets it there for the first time queues it,  *)
(* another one sends it to its owner.  The worker that generates the last  *)
(* package ends the computation.                                           *)
(*                                                                         *)
(* Kind "Shared": all workers of a machine send on the master line and     *)
(* the dispatcher receives.  Kind "Dedicated": worker w sends and receives *)
(* on data line w, the dispatcher waits for the end.                       *)
(***************************************************************************)
EXTENDS Integers, Sequences, FiniteSets, FiniteSetsExt, SequencesExt

CONSTANTS FirstChunk, MaxChunk,   \* _chunkSize at first, _maxChunkSize
          Kind,
          Size,        \* worldSize: the machines have the ranks 1 .. Size
          Workers,     \* the ids of the workers of one machine
          WorkLoad,
          Capacity,    \* bound: messages a line holds before a send blocks
          FlushAfter   \* empty probes of the dispatcher before it flushes

LoadConstants == /\ FirstChunk \in Nat \ {0} /\ MaxChunk \in Nat
                 /\ FirstChunk <= MaxChunk
                 /\ Kind \in {"Shared", "Dedicated"} /\ Size \in Nat \ {0}
                 /\ Workers \subseteq Nat /\ WorkLoad \in Nat \ {0}
                 /\ Capacity \in Nat \ {0} /\ FlushAfter \in Nat \ {0}

Machines == 1 .. Size
MainSlave == 1
Packages == (0 .. WorkLoad) \X (0 .. WorkLoad)
Initial == <<0, 0>>
Final == <<WorkLoad, WorkLoad>>
Dispatcher == -1
Threads == Workers \cup {Dispatcher}
Master == -1
Lines == IF Kind = "Shared" THEN {Master} ELSE Workers \cup {Master}
LineOf(w) == IF Kind = "Shared" THEN Master ELSE w
Done == [tag |-> "Done"]
Data(p) == [tag |-> "Data", package |-> p]
Messages == {Done} \cup {Data(p): p \in Packages}

VARIABLES seen,   \* _set of a machine
          queue,  \* _queue
          acc,    \* the accessors of the threads
          done,   \* _done
          pc, todo,   \* a worker: its place in main, packages it has in hand
          round, probes, \* the dispatcher: lines left in its round, empty probes
          main, unsent,  \* Workers::run, and the peers notifyAll has not reached
          wire,   \* messages under way
          popped  \* history: packages that some worker took to expand them

vars == <<seen, queue, acc, done, pc, todo, round, probes, main, unsent, wire, popped>>

TypeOK ==
  /\ seen \in [Machines -> SUBSET Packages] /\ popped \in [Machines -> SUBSET Packages]
  /\ \A m \in Machines:
       /\ queue[m] \in Seq(Seq(Packages))
       /\ \A t \in Threads: /\ acc[m][t].in \in Seq(Packages)
                            /\ acc[m][t].out \in Seq(Packages)
                            /\ Len(acc[m][t].out) < acc[m][t].size
                            /\ acc[m][t].size \in FirstChunk .. MaxChunk
       /\ \A w \in Workers: /\ pc[m][w] \in {"loop", "flush", "yield", "probe", "expand", "over"}
                            /\ todo[m][w] \in Seq(Packages)
       /\ \A n \in Machines, l \in Lines: /\ wire[m][n][l] \in Seq(Messages)
                                          /\ Len(wire[m][n][l]) <= Capacity
  /\ done \in [Machines -> BOOLEAN] /\ round \in [Machines -> (SUBSET Machines) \cup {{0}}]
  /\ probes \in [Machines -> 0 .. FlushAfter - 1]
  /\ main \in [Machines -> {"work", "notify", "join", "over"}]
  /\ unsent \in [Machines -> SUBSET Machines]

Over == {0}   \* the round of a dispatcher that returned

-----------------------------------------------------------------------------
(* The QueueAccessor of worker.hpp: every thread collects the packages it   *)
(* produces in a private chunk and hands it to the common queue when the    *)
(* chunk is full, and takes a whole chunk when it has nothing left.  The    *)
(* operators map S == [acc |-> accessor, queue |-> chunks in the queue];    *)
(* each of them uses the queue at most once, by one push or one pop of      *)
(* LockedQueue.                                                             *)
NewAccessor == [in |-> << >>, out |-> << >>, size |-> FirstChunk]

Double(n) == IF 2 * n < MaxChunk THEN 2 * n ELSE MaxChunk

Flush(S) ==
  IF S.acc.out = << >> THEN S
  ELSE [acc |-> [S.acc EXCEPT !.out = << >>, !.size = Double(@)],
        queue |-> Append(S.queue, S.acc.out)]

Push(S, p) ==
  LET T == [S EXCEPT !.acc.out = Append(@, p)]
  IN IF Len(T.acc.out) >= T.acc.size THEN Flush(T) ELSE T

(* empty(): the next chunk is taken only when the old one is used up.      *)
Refill(S) ==
  IF S.acc.in # << >> \/ S.queue = << >> THEN S
  ELSE [acc |-> [S.acc EXCEPT !.in = Head(S.queue)], queue |-> Tail(S.queue)]

-----------------------------------------------------------------------------
Init ==
  /\ seen = [m \in Machines |-> {}] /\ popped = [m \in Machines |-> {}]
  /\ queue = [m \in Machines |-> IF m = MainSlave THEN << <<Initial>> >> ELSE << >>]
  /\ acc = [m \in Machines |-> [t \in Threads |-> NewAccessor]]
  /\ done = [m \in Machines |-> FALSE]
  /\ pc = [m \in Machines |-> [w \in Workers |-> "loop"]]
  /\ todo = [m \in Machines |-> [w \in Workers |-> << >>]]
  /\ round = [m \in Machines |-> {}] /\ probes = [m \in Machines |-> 0]
  /\ main = [m \in Machines |-> "work"] /\ unsent = [m \in Machines |-> {}]
  /\ wire = [m \in Machines |-> [n \in Machines |-> [l \in Lines |-> << >>]]]

-----------------------------------------------------------------------------
Hash(p) == (p[1] + 7) * (p[2] + 13)
Owner(p) == (Hash(p) % Size) + 1

Successors(p) ==
  (IF p[1] < WorkLoad THEN << <<p[1] + 1, p[2]>> >> ELSE << >>)
  \o (IF p[2] < WorkLoad THEN << <<p[1], p[2] + 1>> >> ELSE << >>)

Store(m, t, S) == /\ acc' = [acc EXCEPT ![m][t] = S.acc]
                  /\ queue' = [queue EXCEPT ![m] = S.queue]
View(m, t) == [acc |-> acc[m][t], queue |-> queue[m]]

(* A package its owner sees for the first time is queued.                  *)
\* mutant: a package is queued whether or not it is new
MeetAgain(m, t, p) == /\ seen' = [seen EXCEPT ![m] = @ \cup {p}]
                      /\ Store(m, t, Push(View(m, t), p))
Meet(m, t, p) == /\ seen' = [seen EXCEPT ![m] = @ \cup {p}]
                 /\ IF p \in seen[m] THEN UNCHANGED <<acc, queue>>
                    ELSE Store(m, t, Push(View(m, t), p))

(* sendTo: the write blocks while the line is full.                        *)
Send(m, n, l, msg) == /\ Len(wire[m][n][l]) < Capacity
                      /\ wire' = [wire EXCEPT ![m][n][l] = Append(@, msg)]

(* process() and expand(): the worker deals with the first package it has  *)
(* in hand; one that came from another machine is only expanded.           *)
Finishes(m, w) == pc[m][w] = "yield" /\ Head(todo[m][w]) = Final

(* Where main() goes on when the successors of a package are dealt with.   *)
AfterPop == IF Kind = "Shared" THEN "loop" ELSE "probe"

Handle(m, w) ==
  /\ pc[m][w] \in {"yield", "expand"}
  /\ LET p == Head(todo[m][w])
     IN \/ /\ Finishes(m, w)
           /\ done' = [done EXCEPT ![m] = TRUE]
           /\ UNCHANGED <<seen, acc, queue, wire>>
        \/ /\ ~Finishes(m, w) /\ Owner(p) = m
           /\ Meet(m, w, p)
           /\ UNCHANGED <<done, wire>>
        \/ /\ ~Finishes(m, w) /\ Owner(p) # m
           /\ Send(m, Owner(p), LineOf(w), Data(p))
           /\ UNCHANGED <<done, seen, acc, queue>>
  /\ todo' = [todo EXCEPT ![m][w] = Tail(@)]
  /\ pc' = [pc EXCEPT ![m][w] = IF Len(todo[m][w]) > 1 THEN @
                                ELSE IF @ = "yield" THEN AfterPop ELSE "loop"]
  /\ UNCHANGED <<round, probes, main, unsent, popped>>

(* The worker waits in a send, because the line is full.                   *)
Blocked(m, w) ==
  /\ pc[m][w] \in {"yield", "expand"} /\ ~Finishes(m, w)
  /\ LET o == Owner(Head(todo[m][w]))
     IN o # m /\ Len(wire[m][o][LineOf(w)]) = Capacity

(* Nobody reads line l of machine n: its reader returned, or waits itself. *)
Deaf(n, l) ==
  /\ main[n] # "over"
  /\ IF l = Master THEN round[n] = Over ELSE pc[n][l] = "over" \/ Blocked(n, l)

(* A send to such a machine throws after the five seconds the socket       *)
(* allows; start() catches the exception and the worker is over.           *)
Expire(m, w) ==
  /\ Blocked(m, w) /\ Deaf(Owner(Head(todo[m][w])), LineOf(w))
  /\ pc' = [pc EXCEPT ![m][w] = "over"]
  /\ todo' = [todo EXCEPT ![m][w] = << >>]
  /\ UNCHANGED <<seen, queue, acc, done, round, probes, main, unsent, wire, popped>>

-----------------------------------------------------------------------------
(* main() of a worker.                                                     *)
Quit(m, w) == /\ pc[m][w] = "loop" /\ done[m]
              /\ pc' = [pc EXCEPT ![m][w] = "over"]
              /\ UNCHANGED <<seen, queue, acc, done, todo, round, probes, main, unsent, wire, popped>>

Pop(m, w) ==
  /\ pc[m][w] = "loop" /\ ~done[m]
  /\ LET S == Refill(View(m, w))
         p == Head(S.acc.in)
     IN IF S.acc.in = << >>
        THEN /\ pc' = [pc EXCEPT ![m][w] = IF acc[m][w].out = << >> THEN AfterPop ELSE "flush"]
             /\ UNCHANGED <<acc, queue, todo, popped>>
        ELSE /\ Store(m, w, [S EXCEPT !.acc.in = Tail(@)])
             /\ todo' = [todo EXCEPT ![m][w] = Successors(p)]
             /\ pc' = [pc EXCEPT ![m][w] = "yield"]
             /\ popped' = [popped EXCEPT ![m] = @ \cup {p}]
  /\ UNCHANGED <<seen, done, round, probes, main, unsent, wire>>

(* Nothing to do: the worker gives away what it kept for itself.           *)
FlushIdle(m, w) ==
  /\ pc[m][w] = "flush"
  /\ Store(m, w, Flush(View(m, w)))
  /\ pc' = [pc EXCEPT ![m][w] = AfterPop]
  /\ UNCHANGED <<seen, done, todo, round, probes, main, unsent, wire, popped>>

(* A dedicated worker takes one message from each of its lines, in the     *)
(* order of the ranks.                                                     *)
Rising(s) == \A i, j \in DOMAIN s: i < j => s[i] < s[j]
Probe(m, w) ==
  /\ pc[m][w] = "probe"
  /\ LET S == {n \in Machines: wire[n][m][w] # << >>}
     IN \E from \in [1 .. Cardinality(S) -> S]:
          /\ Rising(from)
          /\ todo' = [todo EXCEPT ![m][w] = [i \in DOMAIN from |-> Head(wire[from[i]][m][w]).package]]
          /\ wire' = [n \in Machines |-> IF wire[n][m][w] = << >> THEN wire[n]
                                         ELSE [wire[n] EXCEPT ![m][w] = Tail(@)]]
          /\ pc' = [pc EXCEPT ![m][w] = IF S = {} THEN "loop" ELSE "expand"]
  /\ UNCHANGED <<seen, queue, acc, done, round, probes, main, unsent, popped>>

Worker(m, w) == Quit(m, w) \/ Pop(m, w) \/ FlushIdle(m, w) \/ Probe(m, w)
                \/ Handle(m, w)

-----------------------------------------------------------------------------
(* dispatcher(): rounds of probe on the master lines until the end.        *)
Readable(m) == {n \in Machines: wire[n][m][Master] # << >>}

StartRound(m) ==
  /\ round[m] = {} /\ ~done[m] /\ Readable(m) # {}
  /\ round' = [round EXCEPT ![m] = Readable(m)]
  /\ UNCHANGED <<seen, queue, acc, done, pc, todo, probes, main, unsent, wire, popped>>

Receive(m, n) ==
  /\ n \in round[m] /\ round[m] # Over
  /\ LET msg == Head(wire[n][m][Master])
     IN \/ /\ msg = Done
           /\ done' = [done EXCEPT ![m] = TRUE]
           /\ UNCHANGED <<seen, acc, queue>>
        \/ /\ msg # Done
           /\ Meet(m, Dispatcher, msg.package)
           /\ UNCHANGED done
  /\ wire' = [wire EXCEPT ![n][m][Master] = Tail(@)]
  /\ round' = [round EXCEPT ![m] = @ \ {n}]
  /\ UNCHANGED <<pc, todo, probes, main, unsent, popped>>

(* The probe times out; after FlushAfter of them the accessor is flushed.  *)
EmptyProbe(m) ==
  /\ Kind = "Shared" /\ round[m] = {} /\ ~done[m] /\ Readable(m) = {}
  /\ probes' = [probes EXCEPT ![m] = (@ + 1) % FlushAfter]
  /\ IF probes'[m] = 0 THEN Store(m, Dispatcher, Flush(View(m, Dispatcher)))
     ELSE UNCHANGED <<acc, queue>>
  /\ UNCHANGED <<seen, done, pc, todo, round, main, unsent, wire, popped>>

EndDispatcher(m) ==
  /\ round[m] = {} /\ done[m]
  /\ round' = [round EXCEPT ![m] = Over]
  /\ UNCHANGED <<seen, queue, acc, done, pc, todo, probes, main, unsent, wire, popped>>

DispatcherStep(m) == StartRound(m) \/ (\E n \in Machines: Receive(m, n)) \/ EmptyProbe(m)
                     \/ EndDispatcher(m)

-----------------------------------------------------------------------------
(* Workers::run after the workers were started: wait for them, tell the    *)
(* peers (sendAll sends to all of them at once), wait for the dispatcher.  *)
WorkersOver(m) ==
  /\ main[m] = "work" /\ \A w \in Workers: pc[m][w] = "over"
  /\ main' = [main EXCEPT ![m] = "notify"]
  /\ unsent' = [unsent EXCEPT ![m] = Machines \ {m}]
  /\ UNCHANGED <<seen, queue, acc, done, pc, todo, round, probes, wire, popped>>

NotifyAll(m, n) ==
  /\ main[m] = "notify" /\ n \in unsent[m]
  /\ \/ Send(m, n, Master, Done)
     \/ Len(wire[m][n][Master]) = Capacity /\ Deaf(n, Master) /\ UNCHANGED wire
  /\ unsent' = [unsent EXCEPT ![m] = @ \ {n}]
  /\ UNCHANGED <<seen, queue, acc, done, pc, todo, round, probes, main, popped>>

Join(m) ==
  /\ \/ main[m] = "notify" /\ unsent[m] = {} /\ main' = [main EXCEPT ![m] = "join"]
     \/ main[m] = "join" /\ round[m] = Over /\ main' = [main EXCEPT ![m] = "over"]
  /\ UNCHANGED <<seen, queue, acc, done, pc, todo, round, probes, unsent, wire, popped>>

(* Daemon::exit reads and forgets whatever still comes.                    *)
Consume(m, n, l) ==
  /\ main[m] = "over" /\ wire[n][m][l] # << >>
  /\ wire' = [wire EXCEPT ![n][m][l] = Tail(@)]
  /\ UNCHANGED <<seen, queue, acc, done, pc, todo, round, probes, main, unsent, popped>>

Main(m) == WorkersOver(m) \/ Join(m) \/ \E n \in Machines: NotifyAll(m, n)

Next == \E m \in Machines:
          \/ \E w \in Workers: Worker(m, w) \/ Expire(m, w)
          \/ DispatcherStep(m) \/ Main(m)
          \/ \E n \in Machines, l \in Lines: Consume(m, n, l)

Spec == Init /\ [][Next]_vars

(* Threads are scheduled by the system; sends that block end in a timeout.   *)
Fairness == \A m \in Machines:
              /\ \A w \in Workers: WF_vars(Worker(m, w)) /\ WF_vars(Expire(m, w))
              /\ WF_vars(DispatcherStep(m)) /\ WF_vars(Main(m))
              /\ \A n \in Machines, l \in Lines: WF_vars(Consume(m, n, l))
FairSpec == Spec /\ Fairness

-----------------------------------------------------------------------------
(* Where packages wait at a machine: in a chunk of the queue, or in one of *)
(* the two chunks of an accessor.                                          *)
Places(m) ==
  (UNION {{<<"queue", i, j>>: j \in DOMAIN queue[m][i]}: i \in DOMAIN queue[m]})
  \cup (UNION {{<<"in", t, j>>: j \in DOMAIN acc[m][t].in}: t \in Threads})
  \cup (UNION {{<<"out", t, j>>: j \in DOMAIN acc[m][t].out}: t \in Threads})
Waits(m, x) == IF x[1] = "queue" THEN queue[m][x[2]][x[3]]
               ELSE IF x[1] = "in" THEN acc[m][x[2]].in[x[3]] ELSE acc[m][x[2]].out[x[3]]

(* No package is worked on twice (hash set, chunks and accessors): one     *)
(* that waits waits once, was not taken before, and waits at its owner.    *)
WorkedOnce == \A m \in Machines: \A x \in Places(m):
  /\ \A y \in Places(m): Waits(m, x) = Waits(m, y) => x = y
  /\ Waits(m, x) \notin popped[m] /\ (Waits(m, x) = Initial \/ Owner(Waits(m, x)) = m)

(* No package gets lost between the threads: one a machine has seen waits  *)
(* there or was taken by a worker.                                         *)
NoneLost == \A m \in Machines:
  seen[m] \subseteq popped[m] \cup {Waits(m, x): x \in Places(m)}

(* text.md:1082: the end is reached by the package with the highest value  *)
(* of both numbers, and no machine stops before it was generated.          *)
NotEarly == \A m \in Machines:
  done[m] => \E n \in Machines: \E p \in popped[n]: Final \in ToSet(Successors(p))

(* Every machine returns from Workers::run: no package and no Done is left *)
(* where nobody looks, no thread waits for one that returned.              *)
AllOver == \A m \in Machines: main[m] = "over"
Ends == <>AllOver
=============================================================================
