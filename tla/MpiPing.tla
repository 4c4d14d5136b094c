------------------------------ MODULE MpiPing -------------------------------
(***************************************************************************)
(* The ping benchmark over MPI (PingWorker of mpi.cpp).  Workers ask and   *)
(* sleep on their boxes as in the Shared variant.  Questions and Done are  *)
(* sent by MPI_Send under the mutex of the process; the dispatcher looks   *)
(* for one message at a time under the same mutex and answers by           *)
(* MPI_Isend, which only queues the answer.                                *)
(***************************************************************************)
EXTENDS Ping

VARIABLES mutex,  \* MPI_Mutex of a process: the thread that waits in MPI_Send
          queued  \* the requests of Dispatch: answers that are not yet sent

mpivars == <<vars, mutex, queued>>

NoThread == -3
Sending == Workers \cup {Main}

MpiTypeOK == /\ TypeOK /\ mutex \in [Machines -> Sending \cup {NoThread}]
             /\ queued \in [Machines -> Seq(Outgoing)]

MpiInit == /\ Init /\ mutex = [m \in Machines |-> NoThread]
           /\ queued = [m \in Machines |-> << >>]

(* MPI_Send of what a thread has in hand, in the order of the ranks: it    *)
(* locks the mutex, waits for room, unlocks it.                            *)
Next1(m, t) == CHOOSE x \in hand[m][t]: \A y \in hand[m][t]: x.to <= y.to
MpiSend(m, t) ==
  /\ ~Free(m, t)
  /\ \/ /\ mutex[m] = NoThread /\ mutex' = [mutex EXCEPT ![m] = t]
        /\ UNCHANGED vars
     \/ /\ mutex[m] = t /\ mutex' = [mutex EXCEPT ![m] = NoThread]
        /\ LET x == Next1(m, t)
           IN /\ Len(wire[m][x.to][x.line]) < Capacity
              /\ wire' = [wire EXCEPT ![m][x.to][x.line] = Append(@, x.msg)]
              /\ hand' = [hand EXCEPT ![m][t] = @ \ {x}]
        /\ UNCHANGED <<worker, box, count, round, main>>
  /\ UNCHANGED queued

(* A look under the mutex: Done is counted, another message is dealt with, *)
(* an answer is queued; then finished answers are forgotten.               *)
ClearQueue(q, n) == SubSeq(q, n + 1, Len(q))

MpiDispatch(m, n) ==
  /\ round[m] = {} /\ ~Enough(m) /\ mutex[m] = NoThread /\ wire[n][m][Master] # << >>
  /\ LET msg == Head(wire[n][m][Master])
     IN CASE msg.tag = "Request" ->
               /\ queued' = [queued EXCEPT ![m] = @ \o SetToSeq(Answer(m, msg, Master))]
               /\ UNCHANGED <<box, count>>
          [] msg.tag = "Response" ->
               /\ box' = [box EXCEPT ![m][BoxOf(msg)] = [ready |-> TRUE, value |-> msg.first]]
               /\ UNCHANGED <<queued, count>>
          [] msg.tag = "Done" ->
               /\ count' = [count EXCEPT ![m] = @ + 1]
               /\ UNCHANGED <<queued, box>>
  /\ wire' = [wire EXCEPT ![n][m][Master] = Tail(@)]
  /\ UNCHANGED <<worker, hand, round, main, mutex>>

(* MPI moves a queued answer when there is room; the dispatcher returns    *)
(* when it has counted enough and every answer is sent.                    *)
Progress(m) ==
  /\ queued[m] # << >>
  /\ LET x == Head(queued[m])
     IN /\ Len(wire[m][x.to][x.line]) < Capacity
        /\ wire' = [wire EXCEPT ![m][x.to][x.line] = Append(@, x.msg)]
  /\ queued' = [queued EXCEPT ![m] = ClearQueue(@, 1)]
  /\ UNCHANGED <<worker, box, hand, count, round, main, mutex>>

MpiLeave(m) ==
  /\ Enough(m) /\ round[m] = {} /\ queued[m] = << >>
  /\ round' = [round EXCEPT ![m] = Over]
  /\ UNCHANGED <<worker, box, hand, count, main, wire, mutex, queued>>

MpiWorker(m, w) == \/ MpiSend(m, w)
                   \/ (Ask(m, w) \/ Wake(m, w) \/ SharedOver(m, w)) /\ UNCHANGED <<mutex, queued>>
MpiDispatcher(m) == MpiLeave(m) \/ \E n \in Machines: MpiDispatch(m, n)
MpiMain(m) == MpiSend(m, Main) \/ ((NotifyAll(m) \/ Join(m)) /\ UNCHANGED <<mutex, queued>>)

MpiNext == \E m \in Machines: \/ \E w \in Workers: MpiWorker(m, w)
                              \/ MpiDispatcher(m) \/ Progress(m) \/ MpiMain(m)

MpiSpec == MpiInit /\ [][MpiNext]_mpivars
(* Threads are scheduled; the mutex need not be fair, because every         *)
(* computation sends a bounded number of messages.                          *)
MpiFairSpec == MpiSpec /\ \A m \in Machines:
  /\ \A w \in Workers: WF_mpivars(MpiWorker(m, w))
  /\ WF_mpivars(MpiDispatcher(m)) /\ WF_mpivars(Progress(m)) /\ WF_mpivars(MpiMain(m))

(* A question on a line, or an answer in hand, queued or on a line, is one *)
(* a worker waits for: no answer comes twice or to the wrong question.     *)
Asked(msg, m) == /\ worker[m][msg.second].pc = "wait"
                 /\ msg.first \in {worker[m][msg.second].at, -worker[m][msg.second].at}
                 /\ ~box[m][msg.second].ready
Expected ==
  /\ \A m \in Machines: \A i \in DOMAIN queued[m]: Asked(queued[m][i].msg, queued[m][i].to)
  /\ \A m, n \in Machines: \A i \in DOMAIN wire[m][n][Master]:
       LET msg == wire[m][n][Master][i]
       IN /\ msg.tag = "Request" => Asked(msg, m)
          /\ msg.tag = "Response" => Asked(msg, n)
=============================================================================
