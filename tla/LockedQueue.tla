---------------------------- MODULE LockedQueue -----------------------------
(***************************************************************************)
(* The LockedQueue of brick-shmem.h with its SpinLock: threads push and    *)
(* pop whole chunks.  pop looks at the flag _empty before it locks, so     *)
(* the flag may only say "empty" while nothing in the queue is visible.    *)
(* pc is the position of a thread inside push, pop or clear.               *)
(***************************************************************************)
EXTENDS Naturals, Sequences, FiniteSets

CONSTANTS Threads, Chunks, NoThread, NoChunk,
          MaxCalls   \* bound: calls of one thread

QueueConstants == /\ NoThread \notin Threads /\ NoChunk \notin Chunks
                  /\ MaxCalls \in Nat

VARIABLES q, empty,  \* the deque and the flag _empty
          lock,      \* the SpinLock: its holder
          pc, held,  \* held: the argument of push, the result of pop
          calls,     \* calls made
          fresh      \* chunks that nobody pushed yet

vars == <<q, empty, lock, pc, held, calls, fresh>>

Pc == {"idle", "lockPush", "insert", "mark", "look", "lockPop", "take", "flag",
       "lockClear", "clear", "clearFlag", "unlock", "return"}

TypeOK == /\ q \in Seq(Chunks) /\ empty \in BOOLEAN /\ lock \in Threads \cup {NoThread}
          /\ pc \in [Threads -> Pc] /\ held \in [Threads -> Chunks \cup {NoChunk}]
          /\ calls \in [Threads -> Nat] /\ fresh \subseteq Chunks

Init == /\ q = << >> /\ empty = TRUE /\ lock = NoThread
        /\ pc = [t \in Threads |-> "idle"] /\ held = [t \in Threads |-> NoChunk]
        /\ calls = [t \in Threads |-> 0] /\ fresh = Chunks

Go(t, from, to) == pc[t] = from /\ pc' = [pc EXCEPT ![t] = to]

CallPush(t) == /\ Go(t, "idle", "lockPush") /\ calls[t] < MaxCalls
               /\ \E c \in fresh: /\ held' = [held EXCEPT ![t] = c]
                                  /\ fresh' = fresh \ {c}
               /\ calls' = [calls EXCEPT ![t] = @ + 1]
               /\ UNCHANGED <<q, empty, lock>>

CallPop(t) == /\ Go(t, "idle", "look") /\ calls[t] < MaxCalls
              /\ held' = [held EXCEPT ![t] = NoChunk]
              /\ calls' = [calls EXCEPT ![t] = @ + 1]
              /\ UNCHANGED <<q, empty, lock, fresh>>

CallClear(t) == /\ Go(t, "idle", "lockClear") /\ calls[t] < MaxCalls
                /\ held' = [held EXCEPT ![t] = NoChunk]
                /\ calls' = [calls EXCEPT ![t] = @ + 1]
                /\ UNCHANGED <<q, empty, lock, fresh>>

(* The thread that finds the flag of the SpinLock clear has the lock; the   *)
(* others spin.                                                            *)
Lock(t) == /\ \/ Go(t, "lockPush", "insert") \/ Go(t, "lockPop", "take")
              \/ Go(t, "lockClear", "clear")
           /\ lock = NoThread /\ lock' = t
           /\ UNCHANGED <<q, empty, held, calls, fresh>>

Insert(t) == /\ Go(t, "insert", "mark")
             /\ q' = Append(q, held[t])
             /\ UNCHANGED <<empty, lock, held, calls, fresh>>

Mark(t) == /\ Go(t, "mark", "unlock")
           /\ empty' = FALSE
           /\ UNCHANGED <<q, lock, held, calls, fresh>>

(* pop without the lock: an empty queue is not worth contending for.       *)
Look(t) == /\ \/ empty /\ Go(t, "look", "return")
              \/ ~empty /\ Go(t, "look", "lockPop")
           /\ UNCHANGED <<q, empty, lock, held, calls, fresh>>

\* mutant: the chunk is moved out of the deque and its place is kept
TakeMoved(t) == /\ \/ q = << >> /\ Go(t, "take", "unlock") /\ UNCHANGED <<q, held>>
                   \/ /\ q # << >> /\ Go(t, "take", "flag")
                      /\ held' = [held EXCEPT ![t] = Head(q)]
                      /\ q' = <<NoChunk>> \o Tail(q)
                /\ UNCHANGED <<empty, lock, calls, fresh>>
Take(t) == /\ \/ q = << >> /\ Go(t, "take", "unlock") /\ UNCHANGED <<q, held>>
              \/ /\ q # << >> /\ Go(t, "take", "flag")
                 /\ held' = [held EXCEPT ![t] = Head(q)]
                 /\ q' = Tail(q)
           /\ UNCHANGED <<empty, lock, calls, fresh>>

\* mutant: the flag is set whenever something was popped
FlagAlways(t) == /\ Go(t, "flag", "unlock")
                 /\ empty' = TRUE
                 /\ UNCHANGED <<q, lock, held, calls, fresh>>
Flag(t) == /\ Go(t, "flag", "unlock")
           /\ empty' = (empty \/ q = << >>)
           /\ UNCHANGED <<q, lock, held, calls, fresh>>

Clear(t) == /\ \/ Go(t, "clear", "clearFlag") /\ q' = << >> /\ UNCHANGED empty
               \/ Go(t, "clearFlag", "unlock") /\ empty' = TRUE /\ UNCHANGED q
            /\ UNCHANGED <<lock, held, calls, fresh>>

\* mutant: the lock is kept when pop found the queue empty
KeepLock(t) == /\ Go(t, "unlock", "return")
               /\ lock' = IF held[t] = NoChunk THEN lock ELSE NoThread
               /\ UNCHANGED <<q, empty, held, calls, fresh>>
Unlock(t) == /\ Go(t, "unlock", "return")
             /\ lock' = NoThread
             /\ UNCHANGED <<q, empty, held, calls, fresh>>

Back(t) == /\ Go(t, "return", "idle")
           /\ UNCHANGED <<q, empty, lock, held, calls, fresh>>

Operate(t) == Lock(t) \/ Insert(t) \/ Mark(t) \/ Look(t) \/ Take(t) \/ Flag(t)
              \/ Clear(t) \/ Unlock(t) \/ Back(t)
Next == \E t \in Threads: CallPush(t) \/ CallPop(t) \/ CallClear(t) \/ Operate(t)

(* Every thread is scheduled again and again; the lock need not be fair,   *)
(* because the calls of the others come to an end.                         *)
Spec == Init /\ [][Next]_vars
FairSpec == Spec /\ \A t \in Threads: WF_vars(Operate(t))

-----------------------------------------------------------------------------
(* The refinement: a chunk is in the queue from the moment the flag says   *)
(* so; the chunk that was appended but not announced is still the          *)
(* pusher's.                                                               *)
Announcing == lock # NoThread /\ pc[lock] = "mark"
Content == IF Announcing THEN SubSeq(q, 1, Len(q) - 1) ELSE q
Phase == [t \in Threads |->
            CASE pc[t] = "idle" -> "idle"
              [] pc[t] \in {"lockPush", "insert", "mark"} -> "push"
              [] pc[t] \in {"look", "lockPop", "take"} -> "pop"
              [] pc[t] \in {"lockClear", "clear"} -> "clear"
              [] OTHER -> "done"]
Abstract == INSTANCE ChunkQueue WITH content <- Content, phase <- Phase, item <- held

(* push, pop and clear of brick-shmem.h behave as if each happened at one  *)
(* moment, although pop reads the flag without the lock.                   *)
Atomic == Abstract!QSpec

(* Every call of push, pop and clear returns.                              *)
Called(t) == pc[t] # "idle"
=============================================================================
