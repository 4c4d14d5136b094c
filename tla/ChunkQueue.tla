----------------------------- MODULE ChunkQueue -----------------------------
(***************************************************************************)
(* What the queue between the threads of a computation promises: every     *)
(* operation takes effect at one moment between its call and its return,   *)
(* push appends a chunk, pop takes the oldest one and returns no chunk     *)
(* only when there was none, clear forgets everything.                     *)
(***************************************************************************)
EXTENDS Sequences

CONSTANTS Threads, Chunks, NoChunk

VARIABLES content, \* the chunks in the queue, the oldest first
          phase,   \* what a thread is doing
          item     \* the chunk a thread pushes, or what its pop returned

qvars == <<content, phase, item>>

QInit == /\ content = << >>
         /\ phase = [t \in Threads |-> "idle"]
         /\ item = [t \in Threads |-> NoChunk]

Call(t) == /\ phase[t] = "idle"
           /\ \E op \in {"push", "pop", "clear"}: phase' = [phase EXCEPT ![t] = op]
           /\ \E c \in Chunks \cup {NoChunk}: item' = [item EXCEPT ![t] = c]
           /\ UNCHANGED content

Pushed(t) == /\ phase[t] = "push"
             /\ content' = Append(content, item[t])
             /\ phase' = [phase EXCEPT ![t] = "done"]
             /\ UNCHANGED item

Popped(t) == /\ phase[t] = "pop"
             /\ IF content = << >> THEN item' = [item EXCEPT ![t] = NoChunk] /\ UNCHANGED content
                ELSE item' = [item EXCEPT ![t] = Head(content)] /\ content' = Tail(content)
             /\ phase' = [phase EXCEPT ![t] = "done"]

Cleared(t) == /\ phase[t] = "clear"
              /\ content' = << >>
              /\ phase' = [phase EXCEPT ![t] = "done"]
              /\ UNCHANGED item

Return(t) == /\ phase[t] = "done"
             /\ phase' = [phase EXCEPT ![t] = "idle"]
             /\ UNCHANGED <<content, item>>

QNext == \E t \in Threads: Call(t) \/ Pushed(t) \/ Popped(t) \/ Cleared(t) \/ Return(t)

QSpec == QInit /\ [][QNext]_qvars
=============================================================================
