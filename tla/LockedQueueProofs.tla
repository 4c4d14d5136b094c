------------------------- MODULE LockedQueueProofs --------------------------
(***************************************************************************)
(* What is proved of the queue between the threads for every number of     *)
(* threads, chunks and calls: the SpinLock excludes, the flag that pop     *)
(* reads without it says "empty" only when nothing in the queue is         *)
(* visible, and therefore the queue implements ChunkQueue.                 *)
(***************************************************************************)
EXTENDS LockedQueue, SequenceTheorems, TLAPS

(* The positions between lock() and unlock().                               *)
Critical == {"insert", "mark", "take", "flag", "clear", "clearFlag", "unlock"}

(* The thread in the critical section is the holder of the lock.            *)
Excluded ==
  /\ \A t \in Threads: pc[t] \in Critical => lock = t
  /\ lock # NoThread => lock \in Threads /\ pc[lock] \in Critical

(* The flag may be read at any time, so it is set only while nothing can be *)
(* popped; the chunk that a push appended stays the last one until it is    *)
(* announced, and clear sets the flag of an empty deque.                    *)
FlagOK ==
  /\ empty => Content = << >>
  /\ \A t \in Threads: /\ pc[t] = "mark" => q # << >> /\ q[Len(q)] = held[t]
                       /\ pc[t] = "clearFlag" => q = << >>

(* push holds the chunk it was given, pop none until it took one.           *)
HeldOK ==
  \A t \in Threads: /\ pc[t] \in {"lockPush", "insert", "mark"} => held[t] \in Chunks
                    /\ pc[t] \in {"look", "lockPop", "take"} => held[t] = NoChunk

QueueInv == TypeOK /\ Excluded /\ FlagOK /\ HeldOK

-----------------------------------------------------------------------------
(* What is added at the end of a sequence is its last element, and what is  *)
(* before it the rest.                                                      *)
LEMMA LastAppended ==
  ASSUME NEW S, NEW s \in Seq(S), NEW x \in S
  PROVE  /\ Append(s, x) \in Seq(S) /\ Append(s, x) # << >>
         /\ Append(s, x)[Len(Append(s, x))] = x
         /\ SubSeq(Append(s, x), 1, Len(Append(s, x)) - 1) = s
<1>1. Len(Append(s, x)) = Len(s) + 1 /\ Len(s) \in Nat
  OBVIOUS
<1>2. SubSeq(Append(s, x), 1, Len(s)) = s
  BY AppendProperties, SubSeqProperties
<1> QED BY <1>1, <1>2

LEMMA LastSplit ==
  ASSUME NEW S, NEW s \in Seq(S), s # << >>
  PROVE  /\ SubSeq(s, 1, Len(s) - 1) \in Seq(S)
         /\ s = Append(SubSeq(s, 1, Len(s) - 1), s[Len(s)])
<1>1. Len(s) \in Nat \ {0}
  BY EmptySeq
<1>2. SubSeq(s, 1, Len(s) - 1) \in Seq(S)
  BY <1>1, SubSeqProperties
<1> QED BY <1>1, <1>2

(* A step of one thread from one position to another.                       *)
LEMMA GoFacts ==
  ASSUME TypeOK, NEW t \in Threads, NEW from, NEW to, Go(t, from, to)
  PROVE  /\ pc[t] = from /\ pc'[t] = to
         /\ \A u \in Threads \ {t}: pc'[u] = pc[u]
BY DEF TypeOK, Go

LEMMA HeldFacts ==
  ASSUME TypeOK, NEW t \in Threads, NEW x, held' = [held EXCEPT ![t] = x]
  PROVE  held'[t] = x /\ \A u \in Threads \ {t}: held'[u] = held[u]
BY DEF TypeOK

LEMMA InitQueue == QueueConstants /\ Init => QueueInv
<1> SUFFICES ASSUME QueueConstants, Init PROVE QueueInv
  OBVIOUS
<1>1. TypeOK
  BY DEF Init, TypeOK, Pc
<1>2. Content = << >>
  BY DEF Init, Content, Announcing
<1> QED BY <1>1, <1>2 DEF Init, QueueInv, Excluded, Critical, FlagOK, HeldOK

-----------------------------------------------------------------------------
(* Where the thread t is seen from outside.                                 *)
LEMMA PhaseFacts ==
  /\ \A t \in Threads:
       /\ pc[t] = "idle" => Phase[t] = "idle"
       /\ pc[t] \in {"lockPush", "insert", "mark"} => Phase[t] = "push"
       /\ pc[t] \in {"look", "lockPop", "take"} => Phase[t] = "pop"
       /\ pc[t] \in {"lockClear", "clear"} => Phase[t] = "clear"
       /\ pc[t] \in {"flag", "clearFlag", "unlock", "return"} => Phase[t] = "done"
  /\ Phase = [t \in Threads |-> Phase[t]]
BY DEF Phase

(* A thread that moves moves its phase, and no other.                       *)
LEMMA PhaseMoves ==
  ASSUME TypeOK, NEW t \in Threads, NEW from \in Pc, NEW to \in Pc, Go(t, from, to)
  PROVE  Phase' = [Phase EXCEPT ![t] = Phase'[t]]
<1>1. \A u \in Threads \ {t}: Phase'[u] = Phase[u]
  BY GoFacts DEF Phase
<1>2. Phase' = [u \in Threads |-> Phase'[u]] /\ Phase = [u \in Threads |-> Phase[u]]
  BY DEF Phase
<1> HIDE DEF Phase
<1>3. [Phase EXCEPT ![t] = Phase'[t]] = [u \in Threads |-> IF u = t THEN Phase'[t] ELSE Phase[u]]
  BY <1>2
<1> QED BY <1>1, <1>2, <1>3

(* A thread outside the critical section announces nothing; what it does    *)
(* leaves the content alone as long as it does not touch the deque.         *)
LEMMA ContentSame ==
  ASSUME QueueInv, QueueConstants, NEW t \in Threads, NEW from \in Pc, NEW to \in Pc,
         Go(t, from, to), q' = q, from # "mark", to # "mark",
         lock' = lock \/ (lock = NoThread /\ lock' = t) \/ (lock = t /\ lock' = NoThread)
  PROVE  Content' = Content
<1>1. pc[t] # "mark" /\ pc'[t] # "mark" /\ \A u \in Threads \ {t}: pc'[u] = pc[u]
  BY GoFacts DEF QueueInv
<1>2. lock # NoThread => lock \in Threads
  BY DEF QueueInv, Excluded
<1>3. Announcing' <=> Announcing
  BY <1>1, <1>2 DEF Announcing, QueueConstants
<1> QED BY <1>3 DEF Content

LEMMA CallStep ==
  ASSUME QueueConstants, QueueInv, NEW t \in Threads, CallPush(t) \/ CallPop(t) \/ CallClear(t)
  PROVE  QueueInv' /\ Abstract!Call(t)
<1>1. TypeOK /\ pc[t] = "idle"
  BY DEF QueueInv, CallPush, CallPop, CallClear, Go
<1>2. /\ UNCHANGED <<q, empty, lock>>
      /\ calls' \in [Threads -> Nat] /\ fresh' \subseteq Chunks
  BY <1>1 DEF TypeOK, CallPush, CallPop, CallClear
<1>3. \E to \in {"lockPush", "look", "lockClear"}, c \in Chunks \cup {NoChunk}:
        /\ Go(t, "idle", to)
        /\ held' = [held EXCEPT ![t] = c]
        /\ to = "lockPush" => c \in Chunks
        /\ to = "look" => c = NoChunk
  <2>1. CASE CallPush(t)
    <3>1. PICK c \in fresh: held' = [held EXCEPT ![t] = c]
      BY <2>1 DEF CallPush
    <3>2. c \in Chunks
      BY <1>1 DEF TypeOK
    <3> QED BY <2>1, <3>1, <3>2 DEF CallPush
  <2>2. CASE CallPop(t)
    BY <2>2 DEF CallPop
  <2>3. CASE CallClear(t)
    BY <2>3 DEF CallClear
  <2> QED BY <2>1, <2>2, <2>3
<1>4. PICK to \in {"lockPush", "look", "lockClear"}, c \in Chunks \cup {NoChunk}:
        /\ Go(t, "idle", to)
        /\ held' = [held EXCEPT ![t] = c]
        /\ to = "lockPush" => c \in Chunks
        /\ to = "look" => c = NoChunk
  BY <1>3
<1>5. pc'[t] = to /\ \A u \in Threads \ {t}: pc'[u] = pc[u]
  BY <1>1, <1>4, GoFacts
<1>6. held'[t] = c /\ \A u \in Threads \ {t}: held'[u] = held[u]
  BY <1>1, <1>4, HeldFacts
<1>7. Content' = Content
  BY <1>2, <1>4, ContentSame DEF Pc
<1>8. TypeOK'
  <2>1. pc' \in [Threads -> Pc] /\ held' \in [Threads -> Chunks \cup {NoChunk}]
    BY <1>1, <1>4 DEF TypeOK, Go, Pc
  <2> QED BY <1>1, <1>2, <2>1 DEF TypeOK
<1>9. Excluded'
  <2>1. lock # t
    BY <1>1 DEF QueueInv, Excluded, Critical, QueueConstants
  <2> QED BY <1>1, <1>2, <1>5, <2>1 DEF QueueInv, Excluded, Critical
<1>10. FlagOK' /\ HeldOK'
  BY <1>1, <1>2, <1>4, <1>5, <1>6, <1>7 DEF QueueInv, FlagOK, HeldOK
<1>11. Abstract!Call(t)
  <2>1. Phase[t] = "idle" /\ Phase'[t] \in {"push", "pop", "clear"}
    BY <1>1, <1>5 DEF Phase
  <2>2. Phase' = [Phase EXCEPT ![t] = Phase'[t]]
    BY <1>1, <1>4, PhaseMoves DEF Pc
  <2> QED BY <1>4, <1>7, <2>1, <2>2 DEF Abstract!Call
<1> QED BY <1>8, <1>9, <1>10, <1>11 DEF QueueInv

(* Lock, Flag, the second half of Clear, Unlock and a look that finds       *)
(* something are not seen from outside.                                     *)
Unseen == UNCHANGED <<Content, Phase, held>>

LEMMA LockStep ==
  ASSUME QueueConstants, QueueInv, NEW t \in Threads, Lock(t)
  PROVE  QueueInv' /\ Unseen
<1>1. PICK from \in {"lockPush", "lockPop", "lockClear"}, to \in {"insert", "take", "clear"}:
        /\ Go(t, from, to)
        /\ from = "lockPush" <=> to = "insert"
        /\ from = "lockPop" <=> to = "take"
  BY DEF Lock
<1>2. TypeOK /\ lock = NoThread /\ lock' = t /\ UNCHANGED <<q, empty, held, calls, fresh>>
  BY DEF Lock, QueueInv
<1>3. pc[t] = from /\ pc'[t] = to /\ \A u \in Threads \ {t}: pc'[u] = pc[u]
  BY <1>1, <1>2, GoFacts
<1>4. Content' = Content
  BY <1>1, <1>2, ContentSame DEF Pc
<1>5. TypeOK'
  BY <1>1, <1>2 DEF TypeOK, Go, Pc
<1>6. Excluded'
  <2>1. \A u \in Threads: pc[u] \notin Critical
    BY <1>2 DEF QueueInv, Excluded, QueueConstants
  <2> QED BY <1>1, <1>2, <1>3, <2>1 DEF Excluded, Critical
<1>7. FlagOK' /\ HeldOK'
  BY <1>1, <1>2, <1>3, <1>4 DEF QueueInv, FlagOK, HeldOK
<1>8. Phase' = Phase
  <2>1. \A u \in Threads: Phase'[u] = Phase[u]
    BY <1>1, <1>3 DEF Phase
  <2> QED BY <2>1 DEF Phase
<1> QED BY <1>2, <1>4, <1>5, <1>6, <1>7, <1>8 DEF QueueInv, Unseen

(* The holder of the lock moves on inside the critical section.             *)
LEMMA InsideExcluded ==
  ASSUME QueueConstants, QueueInv, NEW t \in Threads, NEW from \in Critical, NEW to \in Critical,
         Go(t, from, to), UNCHANGED lock
  PROVE  Excluded' /\ lock = t /\ pc[t] = from /\ pc'[t] = to
         /\ \A u \in Threads \ {t}: pc'[u] = pc[u] /\ pc[u] \notin Critical
<1>1. pc[t] = from /\ pc'[t] = to /\ \A u \in Threads \ {t}: pc'[u] = pc[u]
  BY GoFacts DEF QueueInv
<1> QED BY <1>1 DEF QueueInv, Excluded

LEMMA InsertStep ==
  ASSUME QueueConstants, QueueInv, NEW t \in Threads, Insert(t)
  PROVE  QueueInv' /\ Unseen
<1>1. /\ TypeOK /\ Go(t, "insert", "mark") /\ q' = Append(q, held[t])
      /\ UNCHANGED <<empty, lock, held, calls, fresh>>
  BY DEF Insert, QueueInv
<1>2. /\ Excluded' /\ lock = t /\ pc[t] = "insert" /\ pc'[t] = "mark"
      /\ \A u \in Threads \ {t}: pc'[u] = pc[u] /\ pc[u] \notin Critical
  BY <1>1, InsideExcluded DEF Critical
<1>3. held[t] \in Chunks /\ q \in Seq(Chunks)
  BY <1>1, <1>2 DEF QueueInv, HeldOK, TypeOK
<1>4. /\ q' \in Seq(Chunks) /\ q' # << >> /\ q'[Len(q')] = held[t]
      /\ SubSeq(q', 1, Len(q') - 1) = q
  BY <1>1, <1>3, LastAppended
<1>5. Content' = Content
  <2>1. Content = q
    BY <1>2 DEF Content, Announcing
  <2>2. Content' = SubSeq(q', 1, Len(q') - 1)
    BY <1>1, <1>2 DEF Content, Announcing, QueueConstants
  <2> QED BY <1>4, <2>1, <2>2
<1>6. TypeOK'
  BY <1>1, <1>4 DEF TypeOK, Go, Pc
<1>7. FlagOK' /\ HeldOK'
  <2>1. \A u \in Threads \ {t}: pc'[u] # "mark" /\ pc'[u] # "clearFlag"
    BY <1>2 DEF Critical
  <2>2. FlagOK'
    BY <1>1, <1>2, <1>4, <1>5, <2>1 DEF QueueInv, FlagOK
  <2>3. HeldOK'
    BY <1>1, <1>2, <1>3 DEF QueueInv, HeldOK
  <2> QED BY <2>2, <2>3
<1>8. Phase' = Phase
  <2>1. \A u \in Threads: Phase'[u] = Phase[u]
    BY <1>2 DEF Phase
  <2> QED BY <2>1 DEF Phase
<1> QED BY <1>1, <1>2, <1>5, <1>6, <1>7, <1>8 DEF QueueInv, Unseen

LEMMA MarkStep ==
  ASSUME QueueConstants, QueueInv, NEW t \in Threads, Mark(t)
  PROVE  QueueInv' /\ Abstract!Pushed(t)
<1>1. /\ TypeOK /\ Go(t, "mark", "unlock") /\ empty' = FALSE
      /\ UNCHANGED <<q, lock, held, calls, fresh>>
  BY DEF Mark, QueueInv
<1>2. /\ Excluded' /\ lock = t /\ pc[t] = "mark" /\ pc'[t] = "unlock"
      /\ \A u \in Threads \ {t}: pc'[u] = pc[u] /\ pc[u] \notin Critical
  BY <1>1, InsideExcluded DEF Critical
<1>3. Content = SubSeq(q, 1, Len(q) - 1) /\ Content' = q
  BY <1>1, <1>2 DEF Content, Announcing, QueueConstants
<1>4. Content' = Append(Content, held[t])
  <2>1. q \in Seq(Chunks) /\ q # << >> /\ q[Len(q)] = held[t]
    BY <1>2 DEF QueueInv, TypeOK, FlagOK
  <2> QED BY <1>3, <2>1, LastSplit
<1>5. TypeOK'
  BY <1>1 DEF TypeOK, Go, Pc
<1>6. FlagOK' /\ HeldOK'
  BY <1>1, <1>2 DEF QueueInv, FlagOK, HeldOK, Critical
<1>7. Phase[t] = "push" /\ Phase' = [Phase EXCEPT ![t] = "done"]
  <2>1. Phase[t] = "push" /\ Phase'[t] = "done"
    BY <1>2 DEF Phase
  <2>2. Phase' = [Phase EXCEPT ![t] = Phase'[t]]
    BY <1>1, PhaseMoves DEF Pc
  <2> QED BY <2>1, <2>2
<1> QED BY <1>1, <1>2, <1>4, <1>5, <1>6, <1>7 DEF QueueInv, Abstract!Pushed

(* A pop that finds the flag set takes effect when it reads it, although it *)
(* does so without the lock: nothing is visible in the queue.               *)
LEMMA LookStep ==
  ASSUME QueueConstants, QueueInv, NEW t \in Threads, Look(t)
  PROVE  QueueInv' /\ (Abstract!Popped(t) \/ Unseen)
<1>1. PICK to \in {"return", "lockPop"}: Go(t, "look", to) /\ (empty <=> to = "return")
  BY DEF Look, QueueInv, TypeOK
<1>2. TypeOK /\ UNCHANGED <<q, empty, lock, held, calls, fresh>>
  BY DEF Look, QueueInv
<1>3. pc[t] = "look" /\ pc'[t] = to /\ \A u \in Threads \ {t}: pc'[u] = pc[u]
  BY <1>1, <1>2, GoFacts
<1>4. Content' = Content
  BY <1>1, <1>2, ContentSame DEF Pc
<1>5. TypeOK'
  BY <1>1, <1>2 DEF TypeOK, Go, Pc
<1>6. Excluded'
  <2>1. lock # t
    BY <1>3 DEF QueueInv, Excluded, Critical, QueueConstants
  <2> QED BY <1>2, <1>3, <2>1 DEF QueueInv, Excluded, Critical
<1>7. FlagOK' /\ HeldOK'
  BY <1>2, <1>3, <1>4 DEF QueueInv, FlagOK, HeldOK
<1>8. CASE to = "lockPop"
  <2>1. \A u \in Threads: Phase'[u] = Phase[u]
    BY <1>3, <1>8 DEF Phase
  <2>2. Phase' = Phase
    BY <2>1 DEF Phase
  <2> QED BY <1>2, <1>4, <1>5, <1>6, <1>7, <2>2 DEF QueueInv, Unseen
<1>9. CASE to = "return"
  <2>1. Phase[t] = "pop" /\ Phase'[t] = "done"
    BY <1>3, <1>9 DEF Phase
  <2>2. Phase' = [Phase EXCEPT ![t] = Phase'[t]]
    BY <1>1, <1>2, PhaseMoves DEF Pc
  <2>3. Content = << >>
    BY <1>1, <1>9 DEF QueueInv, FlagOK
  <2>4. held[t] = NoChunk /\ held = [held EXCEPT ![t] = NoChunk]
    BY <1>2, <1>3 DEF QueueInv, HeldOK, TypeOK
  <2>5. Abstract!Popped(t)
    BY <1>2, <1>4, <2>1, <2>2, <2>3, <2>4 DEF Abstract!Popped
  <2> QED BY <1>5, <1>6, <1>7, <2>5 DEF QueueInv
<1> QED BY <1>8, <1>9

(* With the lock, pop takes what is visible: nobody else is in the middle   *)
(* of a push.                                                               *)
LEMMA TakeStep ==
  ASSUME QueueConstants, QueueInv, NEW t \in Threads, Take(t)
  PROVE  QueueInv' /\ Abstract!Popped(t)
<1>1. PICK to \in {"unlock", "flag"}: Go(t, "take", to) /\ (q = << >> <=> to = "unlock")
  BY DEF Take
<1>2. TypeOK /\ UNCHANGED <<empty, lock, calls, fresh>>
  BY DEF Take, QueueInv
<1>3. /\ Excluded' /\ lock = t /\ pc[t] = "take" /\ pc'[t] = to
      /\ \A u \in Threads \ {t}: pc'[u] = pc[u] /\ pc[u] \notin Critical
  BY <1>1, <1>2, InsideExcluded DEF Critical
<1>4. Content = q /\ Content' = q'
  BY <1>1, <1>2, <1>3 DEF Content, Announcing
<1>5. held[t] = NoChunk /\ held \in [Threads -> Chunks \cup {NoChunk}] /\ q \in Seq(Chunks)
  BY <1>3 DEF QueueInv, HeldOK, TypeOK
<1>6. IF q = << >> THEN q' = q /\ held' = [held EXCEPT ![t] = NoChunk]
      ELSE q' = Tail(q) /\ held' = [held EXCEPT ![t] = Head(q)]
  BY <1>1, <1>5 DEF Take
<1>7. PICK c \in Chunks \cup {NoChunk}: held' = [held EXCEPT ![t] = c]
  BY <1>5, <1>6
<1>8. TypeOK'
  <2>1. q # << >> => Tail(q) \in Seq(Chunks)
    BY <1>5
  <2>2. q' \in Seq(Chunks)
    BY <1>5, <1>6, <2>1
  <2>3. pc' \in [Threads -> Pc]
    BY <1>1, <1>2 DEF TypeOK, Go, Pc
  <2> QED BY <1>2, <1>5, <1>7, <2>2, <2>3 DEF TypeOK
<1>9. \A u \in Threads \ {t}: held'[u] = held[u]
  BY <1>2, <1>7, HeldFacts
<1>10. FlagOK'
  <2>1. empty => q' = << >>
    BY <1>4, <1>6 DEF QueueInv, FlagOK
  <2> QED BY <1>1, <1>2, <1>3, <1>4, <2>1 DEF FlagOK, Critical
<1>11. HeldOK'
  BY <1>1, <1>3, <1>9 DEF QueueInv, HeldOK
<1>12. Phase[t] = "pop" /\ Phase' = [Phase EXCEPT ![t] = "done"]
  <2>1. Phase[t] = "pop" /\ Phase'[t] = "done"
    BY <1>1, <1>3 DEF Phase
  <2>2. Phase' = [Phase EXCEPT ![t] = Phase'[t]]
    BY <1>1, <1>2, PhaseMoves DEF Pc
  <2> QED BY <2>1, <2>2
<1>13. Abstract!Popped(t)
  BY <1>4, <1>6, <1>12 DEF Abstract!Popped
<1> QED BY <1>3, <1>8, <1>10, <1>11, <1>13 DEF QueueInv

LEMMA FlagStep ==
  ASSUME QueueConstants, QueueInv, NEW t \in Threads, Flag(t)
  PROVE  QueueInv' /\ Unseen
<1>1. /\ TypeOK /\ Go(t, "flag", "unlock") /\ empty' = (empty \/ q = << >>)
      /\ UNCHANGED <<q, lock, held, calls, fresh>>
  BY DEF Flag, QueueInv
<1>2. /\ Excluded' /\ lock = t /\ pc[t] = "flag" /\ pc'[t] = "unlock"
      /\ \A u \in Threads \ {t}: pc'[u] = pc[u] /\ pc[u] \notin Critical
  BY <1>1, InsideExcluded DEF Critical
<1>3. Content = q /\ Content' = q
  BY <1>1, <1>2 DEF Content, Announcing
<1>4. TypeOK'
  BY <1>1 DEF TypeOK, Go, Pc
<1>5. FlagOK' /\ HeldOK'
  BY <1>1, <1>2, <1>3 DEF QueueInv, FlagOK, HeldOK, Critical
<1>6. Phase' = Phase
  <2>1. \A u \in Threads: Phase'[u] = Phase[u]
    BY <1>2 DEF Phase
  <2> QED BY <2>1 DEF Phase
<1> QED BY <1>1, <1>2, <1>3, <1>4, <1>5, <1>6 DEF QueueInv, Unseen

LEMMA ClearStep ==
  ASSUME QueueConstants, QueueInv, NEW t \in Threads, Clear(t)
  PROVE  QueueInv' /\ (Abstract!Cleared(t) \/ Unseen)
<1>1. PICK from \in {"clear", "clearFlag"}, to \in {"clearFlag", "unlock"}:
        /\ Go(t, from, to)
        /\ from = "clear" => to = "clearFlag" /\ q' = << >> /\ UNCHANGED empty
        /\ from = "clearFlag" => to = "unlock" /\ empty' = TRUE /\ UNCHANGED q
  BY DEF Clear
<1>2. TypeOK /\ UNCHANGED <<lock, held, calls, fresh>>
  BY DEF Clear, QueueInv
<1>3. /\ Excluded' /\ lock = t /\ pc[t] = from /\ pc'[t] = to
      /\ \A u \in Threads \ {t}: pc'[u] = pc[u] /\ pc[u] \notin Critical
  BY <1>1, <1>2, InsideExcluded DEF Critical
<1>4. Content = q /\ Content' = q' /\ q' = << >>
  BY <1>1, <1>2, <1>3 DEF Content, Announcing, QueueInv, FlagOK
<1>5. TypeOK'
  <2>1. q' \in Seq(Chunks)
    BY <1>4
  <2> QED BY <1>1, <1>2, <2>1 DEF TypeOK, Go, Pc
<1>6. FlagOK' /\ HeldOK'
  BY <1>1, <1>2, <1>3, <1>4 DEF QueueInv, FlagOK, HeldOK, Critical
<1>7. CASE from = "clear"
  <2>1. Phase[t] = "clear" /\ Phase'[t] = "done"
    BY <1>1, <1>3, <1>7 DEF Phase
  <2>2. Phase' = [Phase EXCEPT ![t] = Phase'[t]]
    BY <1>1, <1>2, PhaseMoves DEF Pc
  <2>3. Abstract!Cleared(t)
    BY <1>2, <1>4, <2>1, <2>2 DEF Abstract!Cleared
  <2> QED BY <1>3, <1>5, <1>6, <2>3 DEF QueueInv
<1>8. CASE from = "clearFlag"
  <2>1. \A u \in Threads: Phase'[u] = Phase[u]
    BY <1>1, <1>3, <1>8 DEF Phase
  <2>2. Phase' = Phase
    BY <2>1 DEF Phase
  <2> QED BY <1>1, <1>2, <1>3, <1>4, <1>5, <1>6, <1>8, <2>2 DEF QueueInv, Unseen
<1> QED BY <1>7, <1>8

LEMMA UnlockStep ==
  ASSUME QueueConstants, QueueInv, NEW t \in Threads, Unlock(t)
  PROVE  QueueInv' /\ Unseen
<1>1. /\ TypeOK /\ Go(t, "unlock", "return") /\ lock' = NoThread
      /\ UNCHANGED <<q, empty, held, calls, fresh>>
  BY DEF Unlock, QueueInv
<1>2. pc[t] = "unlock" /\ pc'[t] = "return" /\ \A u \in Threads \ {t}: pc'[u] = pc[u]
  BY <1>1, GoFacts
<1>3. lock = t /\ \A u \in Threads \ {t}: pc[u] \notin Critical
  BY <1>2 DEF QueueInv, Excluded, Critical
<1>4. Content' = Content
  BY <1>1, <1>3, ContentSame DEF Pc
<1>5. TypeOK'
  BY <1>1 DEF TypeOK, Go, Pc
<1>6. Excluded'
  BY <1>1, <1>2, <1>3 DEF Excluded, Critical
<1>7. FlagOK' /\ HeldOK'
  BY <1>1, <1>2, <1>4 DEF QueueInv, FlagOK, HeldOK
<1>8. Phase' = Phase
  <2>1. \A u \in Threads: Phase'[u] = Phase[u]
    BY <1>2 DEF Phase
  <2> QED BY <2>1 DEF Phase
<1> QED BY <1>1, <1>4, <1>5, <1>6, <1>7, <1>8 DEF QueueInv, Unseen

LEMMA BackStep ==
  ASSUME QueueConstants, QueueInv, NEW t \in Threads, Back(t)
  PROVE  QueueInv' /\ Abstract!Return(t)
<1>1. TypeOK /\ Go(t, "return", "idle") /\ UNCHANGED <<q, empty, lock, held, calls, fresh>>
  BY DEF Back, QueueInv
<1>2. pc[t] = "return" /\ pc'[t] = "idle" /\ \A u \in Threads \ {t}: pc'[u] = pc[u]
  BY <1>1, GoFacts
<1>3. Content' = Content
  BY <1>1, ContentSame DEF Pc
<1>4. TypeOK'
  BY <1>1 DEF TypeOK, Go, Pc
<1>5. Excluded'
  <2>1. lock # t
    BY <1>2 DEF QueueInv, Excluded, Critical, QueueConstants
  <2> QED BY <1>1, <1>2, <2>1 DEF QueueInv, Excluded, Critical
<1>6. FlagOK' /\ HeldOK'
  BY <1>1, <1>2, <1>3 DEF QueueInv, FlagOK, HeldOK
<1>7. Phase[t] = "done" /\ Phase' = [Phase EXCEPT ![t] = "idle"]
  <2>1. Phase[t] = "done" /\ Phase'[t] = "idle"
    BY <1>2 DEF Phase
  <2>2. Phase' = [Phase EXCEPT ![t] = Phase'[t]]
    BY <1>1, PhaseMoves DEF Pc
  <2> QED BY <2>1, <2>2
<1> QED BY <1>1, <1>3, <1>4, <1>5, <1>6, <1>7 DEF QueueInv, Abstract!Return

-----------------------------------------------------------------------------
(* Every step keeps the invariant and maps to a step of ChunkQueue or to    *)
(* none.                                                                    *)
LEMMA QueueStep ==
  ASSUME QueueConstants, QueueInv, [Next]_vars
  PROVE  QueueInv' /\ [Abstract!QNext]_(Abstract!qvars)
<1>1. CASE UNCHANGED vars
  <2>1. UNCHANGED <<Content, Phase, held>>
    BY <1>1 DEF vars, Content, Announcing, Phase
  <2>2. TypeOK' /\ Excluded' /\ HeldOK'
    BY <1>1 DEF vars, QueueInv, TypeOK, Excluded, HeldOK
  <2>3. FlagOK'
    BY <1>1, <2>1 DEF vars, QueueInv, FlagOK
  <2> QED BY <2>1, <2>2, <2>3 DEF QueueInv, Abstract!qvars
<1>2. CASE Next
  <2>1. PICK t \in Threads: CallPush(t) \/ CallPop(t) \/ CallClear(t) \/ Operate(t)
    BY <1>2 DEF Next
  <2>2. \/ QueueInv' /\ Abstract!Call(t)
        \/ QueueInv' /\ Abstract!Pushed(t)
        \/ QueueInv' /\ Abstract!Popped(t)
        \/ QueueInv' /\ Abstract!Cleared(t)
        \/ QueueInv' /\ Abstract!Return(t)
        \/ QueueInv' /\ Unseen
    BY <2>1, CallStep, LockStep, InsertStep, MarkStep, LookStep, TakeStep, FlagStep,
       ClearStep, UnlockStep, BackStep DEF Operate
  <2> QED BY <2>2 DEF Abstract!QNext, Abstract!qvars, Unseen
<1> QED BY <1>1, <1>2

(* The state of the queue has its type, whatever the threads do             *)
(* (LockedQueue of brick-shmem.h).                                          *)
THEOREM QueueTyped == QueueConstants => (Spec => []TypeOK)
<1> SUFFICES ASSUME QueueConstants PROVE Spec => []TypeOK
  OBVIOUS
<1>1. Init => QueueInv
  BY InitQueue
<1>2. QueueInv /\ [Next]_vars => QueueInv'
  BY QueueStep
<1>3. QueueInv => TypeOK
  BY DEF QueueInv
<1> QED BY <1>1, <1>2, <1>3, PTL DEF Spec

(* push, pop and clear behave as if each happened at one moment between its *)
(* call and its return, although pop reads the flag without the lock        *)
(* (LockedQueue of brick-shmem.h), for any number of threads and chunks.    *)
THEOREM QueueAtomic == QueueConstants => (Spec => Atomic)
<1> SUFFICES ASSUME QueueConstants PROVE Spec => Atomic
  OBVIOUS
<1>1. Init => QueueInv
  BY InitQueue
<1>2. QueueInv /\ [Next]_vars => QueueInv'
  BY QueueStep
<1>3. Init => Abstract!QInit
  <2> SUFFICES ASSUME Init PROVE Abstract!QInit
    OBVIOUS
  <2>1. Content = << >> /\ Phase = [t \in Threads |-> "idle"]
    BY DEF Init, Content, Announcing, Phase
  <2> QED BY <2>1 DEF Init, Abstract!QInit
<1>4. QueueInv /\ [Next]_vars => [Abstract!QNext]_(Abstract!qvars)
  BY QueueStep
<1> QED BY <1>1, <1>2, <1>3, <1>4, PTL DEF Spec, Atomic, Abstract!QSpec
=============================================================================
