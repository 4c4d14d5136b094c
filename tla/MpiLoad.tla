------------------------------ MODULE MpiLoad -------------------------------
(***************************************************************************)
(* The load benchmark over MPI (LoadWorker of mpi.cpp), which the program  *)
(* is compared with.  Workers and queues are those of the Shared variant;  *)
(* every call of MPI is made under one mutex of the process, and MPI_Send  *)
(* keeps it while it waits for room.  The dispatcher looks at one message  *)
(* at a time and leaves the first Done where it is.                        *)
(***************************************************************************)
EXTENDS Load

VARIABLE mutex   \* MPI_Mutex of a process: the thread that waits in MPI_Send

mpivars == <<vars, mutex>>

NoThread == -2
MainThread == -3

MpiTypeOK == TypeOK /\ mutex \in [Machines -> Threads \cup {NoThread, MainThread}]
MpiInit == Init /\ mutex = [m \in Machines |-> NoThread]

Sends(m, w) == /\ pc[m][w] = "yield" /\ ~Finishes(m, w) /\ Owner(Head(todo[m][w])) # m

(* A worker locks the mutex and is in MPI_Send until there is room.        *)
Locks(m, w) == mutex[m] = NoThread /\ mutex' = [mutex EXCEPT ![m] = w]

MpiSend(m, w) ==
  \/ Sends(m, w) /\ Locks(m, w) /\ UNCHANGED vars
  \/ /\ Sends(m, w) /\ mutex[m] = w
     /\ Handle(m, w)
     /\ mutex' = [mutex EXCEPT ![m] = NoThread]

MpiWorker(m, w) ==
  \/ MpiSend(m, w)
  \/ UNCHANGED mutex /\ (Quit(m, w) \/ Pop(m, w) \/ FlushIdle(m, w) \/ (~Sends(m, w) /\ Handle(m, w)))

(* One look of the dispatcher under the mutex: any message, or none.       *)
Leave(m) == round' = [round EXCEPT ![m] = Over]

Look(m) == Readable(m)

MpiDispatcher(m) ==
  /\ round[m] # Over /\ mutex[m] = NoThread /\ UNCHANGED mutex
  /\ \/ done[m] /\ Leave(m)
        /\ UNCHANGED <<seen, queue, acc, done, pc, todo, probes, main, unsent, wire, popped>>
     \/ /\ ~done[m]
        /\ \E n \in Look(m):
             LET msg == Head(wire[n][m][Master])
             IN IF msg = Done
                THEN /\ done' = [done EXCEPT ![m] = TRUE] /\ Leave(m)
                     /\ UNCHANGED <<seen, acc, queue, wire>>
                ELSE /\ Meet(m, Dispatcher, msg.package)
                     /\ wire' = [wire EXCEPT ![n][m][Master] = Tail(@)]
                     /\ UNCHANGED <<done, round>>
        /\ UNCHANGED <<pc, todo, probes, main, unsent, popped>>
     \/ EmptyProbe(m)

(* notifyAll sends to one process after the other, each under the mutex.   *)
MpiNotify(m) ==
  /\ main[m] = "notify" /\ unsent[m] # {}
  /\ LET n == Min(unsent[m])
     IN \/ /\ mutex[m] = NoThread /\ mutex' = [mutex EXCEPT ![m] = MainThread]
           /\ UNCHANGED <<wire, unsent>>
        \/ /\ mutex[m] = MainThread /\ Send(m, n, Master, Done)
           /\ unsent' = [unsent EXCEPT ![m] = @ \ {n}]
           /\ mutex' = [mutex EXCEPT ![m] = NoThread]
  /\ UNCHANGED <<seen, queue, acc, done, pc, todo, round, probes, main, popped>>

MpiMain(m) == (UNCHANGED mutex /\ (WorkersOver(m) \/ Join(m))) \/ MpiNotify(m)

MpiNext == \E m \in Machines: \/ \E w \in Workers: MpiWorker(m, w)
                              \/ MpiDispatcher(m) \/ MpiMain(m)

MpiSpec == MpiInit /\ [][MpiNext]_mpivars
(* Threads are scheduled; the mutex need not be fair, because every         *)
(* computation sends a bounded number of messages.                          *)
MpiFairSpec == MpiSpec /\ \A m \in Machines: /\ \A w \in Workers: WF_mpivars(MpiWorker(m, w))
                                             /\ WF_mpivars(MpiDispatcher(m)) /\ WF_mpivars(MpiMain(m))
=============================================================================
