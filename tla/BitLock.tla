------------------------------ MODULE BitLock -------------------------------
(***************************************************************************)
(* Threads that guard the fields of a word with a lock that is a bit of    *)
(* the same word (bitlevel::BitLock): lock() is a loop of compare and      *)
(* exchange, unlock() and the fields read the word and write it back.      *)
(***************************************************************************)
EXTENDS Integers, FiniteSets, FiniteSetsExt

CONSTANTS Threads, Fields,
          Rounds    \* bound: rounds of a thread

BitLockConstants == IsFiniteSet(Threads) /\ IsFiniteSet(Fields) /\ Rounds \in Nat

VARIABLES word,    \* the bit of the lock and the fields
          pc,      \* "idle", "read", "exchange", "inside", "get", "change", "write", "unlock", "release"
          l,       \* each thread's copy of the word
          value,   \* the field it changes, and its value
          rounds,
          added    \* history: increments of each field that were finished

vars == <<word, pc, l, value, rounds, added>>

Init ==
  /\ word = [lock |-> FALSE, fields |-> [f \in Fields |-> 0]]
  /\ pc = [t \in Threads |-> "idle"] /\ l = [t \in Threads |-> word]
  /\ value = [t \in Threads |-> [field |-> CHOOSE f \in Fields : TRUE, number |-> 0]]
  /\ rounds = [t \in Threads |-> 0] /\ added = [f \in Fields |-> 0]

Goto(t, from, to) == pc[t] = from /\ pc' = [pc EXCEPT ![t] = to]

-----------------------------------------------------------------------------
Begin(t) ==
  /\ rounds[t] < Rounds /\ Goto(t, "idle", "read")
  /\ rounds' = [rounds EXCEPT ![t] = @ + 1]
  /\ UNCHANGED <<word, l, value, added>>
Read(t) ==
  /\ Goto(t, "read", "exchange")
  /\ l' = [l EXCEPT ![t] = word]
  /\ UNCHANGED <<word, value, rounds, added>>

(* The bit is taken from what was read, so a held lock is never exchanged;  *)
(* the exchange may also fail by itself.                                    *)
Free(t) == [l[t] EXCEPT !.lock = FALSE]
Locks(t) ==
  /\ word = Free(t) /\ Goto(t, "exchange", "inside")
  /\ word' = [word EXCEPT !.lock = TRUE] /\ UNCHANGED l
Fails(t) == Goto(t, "exchange", "exchange") /\ l' = [l EXCEPT ![t] = word] /\ UNCHANGED word
lock(t) == (Locks(t) \/ Fails(t)) /\ UNCHANGED <<value, rounds, added>>
Locking(t) == Locks(t) /\ UNCHANGED <<value, rounds, added>>

(* ++ of a field: get(), and a set() that reads the word once more.         *)
get(t, f) ==
  /\ Goto(t, "inside", "change")
  /\ value' = [value EXCEPT ![t] = [field |-> f, number |-> word.fields[f] + 1]]
  /\ UNCHANGED <<word, l, rounds, added>>
Change(t) ==
  /\ Goto(t, "change", "write")
  /\ l' = [l EXCEPT ![t] = [word EXCEPT !.fields[value[t].field] = value[t].number]]
  /\ UNCHANGED <<word, value, rounds, added>>
set(t) ==
  /\ Goto(t, "write", "unlock")
  /\ word' = l[t]
  /\ added' = [added EXCEPT ![value[t].field] = @ + 1]
  /\ UNCHANGED <<l, value, rounds>>

Mask(t) ==
  /\ Goto(t, "unlock", "release")
  /\ l' = [l EXCEPT ![t] = [word EXCEPT !.lock = FALSE]]
  /\ UNCHANGED <<word, value, rounds, added>>
exchange(t) ==
  /\ Goto(t, "release", "idle")
  /\ word' = l[t]
  /\ UNCHANGED <<l, value, rounds, added>>

Step(t) == Read(t) \/ lock(t) \/ (\E f \in Fields : get(t, f)) \/ Change(t) \/ set(t) \/ Mask(t) \/ exchange(t)
Next == \E t \in Threads : Begin(t) \/ Step(t)
Spec == Init /\ [][Next]_vars
FairSpec == Spec /\ \A t \in Threads : WF_vars(Step(t)) /\ WF_vars(Locking(t))

-----------------------------------------------------------------------------
Inside == {t \in Threads : pc[t] \in {"inside", "change", "write", "unlock", "release"}}

TypeOK ==
  /\ word \in [lock : BOOLEAN, fields : [Fields -> 0..(Rounds * Cardinality(Threads))]]
  /\ l \in [Threads -> [lock : BOOLEAN, fields : [Fields -> 0..(Rounds * Cardinality(Threads))]]]
  /\ \A t \in Threads : rounds[t] \in 0..Rounds

(* One thread is inside, and the bit says whether there is one.             *)
Exclusive == Cardinality(Inside) <= 1 /\ (word.lock <=> Inside # {})

(* No increment is lost, neither to another thread's nor to the lock's.     *)
NothingLost == word.fields = added

(* Every thread that asks for the lock gets it when the others have had     *)
(* their rounds, if its exchange does not fail by itself for ever.          *)
Asks(t) == pc[t] \in {"read", "exchange"}
=============================================================================
