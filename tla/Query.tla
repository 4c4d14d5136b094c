-------------------------------- MODULE Query -------------------------------
(***************************************************************************)
(* The lazy collections of brick-query.h: Flatten over Filter over Map     *)
(* over a range.  The function of Map makes a collection for every place   *)
(* of the range; the copies of an iterator share the collection it made    *)
(* (_current), and the iterator of Flatten points into it (_sub).          *)
(***************************************************************************)
EXTENDS Integers, Sequences, FiniteSets, FiniteSetsExt, SequencesExt

CONSTANTS Iterators, \* variables of the program
          MaxPlaces, \* bound: places of the range
          MaxLength  \* bound: elements of a collection

QueryConstants == MaxPlaces \in Nat /\ MaxLength \in Nat

VARIABLES lengths, \* of the collection the function makes for each place
          kept,    \* the places whose collection satisfies the predicate
          it,      \* iterator |-> [set, place, current, sub]
          made,    \* instance |-> the place it was made for
          shown,   \* history: elements an iterator has passed
          family   \* history: iterators with equal values are copies of the same begin()

vars == <<lengths, kept, it, made, shown, family>>

None == 0
Instances == 1..(2 * Cardinality(Iterators) + 1)
NoSub == [in |-> None, at |-> 1]
Unset == [set |-> FALSE, place |-> 1, current |-> None, sub |-> NoSub]

Init ==
  /\ lengths \in BoundedSeq(0..MaxLength, MaxPlaces)
  /\ kept \in SUBSET DOMAIN lengths
  /\ it = [i \in Iterators |-> Unset] /\ made = [n \in Instances |-> 1]
  /\ shown = [i \in Iterators |-> 0] /\ family = [i \in Iterators |-> 0]

End == Len(lengths) + 1
AtEnd(r) == r.place = End
Alive(n) == \E i \in Iterators : it[i].set /\ it[i].current = n

(* Filter::_bump passes the places whose collection does not satisfy the    *)
(* predicate, Flatten::_bump those whose collection is empty.               *)
Bump(from) == Min({p \in from..Len(lengths) : p \in kept /\ lengths[p] > 0} \cup {End})

(* An iterator at a place: its predicate had the collection made.           *)
FreeInstance == CHOOSE n \in Instances : ~Alive(n) /\ \A m \in 1..(n - 1) : Alive(m)
Becomes(i, r) == it' = [it EXCEPT ![i] = r]
Arrives(i, p) ==
  IF p = End
    THEN Becomes(i, [it[i] EXCEPT !.set = TRUE, !.place = End, !.current = None]) /\ UNCHANGED made
    ELSE /\ Becomes(i, [set |-> TRUE, place |-> p, current |-> FreeInstance,
                        sub |-> [in |-> FreeInstance, at |-> 1]])
         /\ made' = [made EXCEPT ![FreeInstance] = p]

Begin(i) ==
  /\ ~it[i].set
  /\ Arrives(i, Bump(1))
  /\ shown' = [shown EXCEPT ![i] = 0]
  /\ family' = [family EXCEPT ![i] = Min((1..Cardinality(Iterators)) \ {family[j] : j \in Iterators \ {i}})]
  /\ UNCHANGED <<lengths, kept>>

Increment(i) ==
  /\ it[i].set /\ ~AtEnd(it[i])
  /\ IF it[i].sub.at < lengths[made[it[i].sub.in]]
       THEN Becomes(i, [it[i] EXCEPT !.sub.at = @ + 1]) /\ UNCHANGED made
       ELSE Arrives(i, Bump(it[i].place + 1))
  /\ shown' = [shown EXCEPT ![i] = @ + 1]
  /\ UNCHANGED <<lengths, kept, family>>

(* The post-increment is a copy and an increment.                           *)
Copy(i, j) ==
  /\ it[i].set /\ i # j
  /\ Becomes(j, it[i])
  /\ shown' = [shown EXCEPT ![j] = shown[i]] /\ family' = [family EXCEPT ![j] = family[i]]
  /\ UNCHANGED <<lengths, kept, made>>

Destroy(i) ==
  /\ it[i].set /\ Becomes(i, Unset)
  /\ shown' = [shown EXCEPT ![i] = 0] /\ family' = [family EXCEPT ![i] = 0]
  /\ UNCHANGED <<lengths, kept, made>>

Next == \E i \in Iterators : \/ Begin(i) \/ Increment(i) \/ Destroy(i)
                             \/ \E j \in Iterators : Copy(i, j)

Spec == Init /\ [][Next]_vars

-----------------------------------------------------------------------------
TypeOK ==
  /\ kept \subseteq DOMAIN lengths /\ made \in [Instances -> 1..Max({MaxPlaces, 1})]
  /\ \A i \in Iterators : /\ it[i].place \in 1..End /\ it[i].current \in Instances \cup {None}
                          /\ it[i].sub.at \in 1..Max({MaxLength, 1})
                          /\ shown[i] \in 0..(MaxPlaces * MaxLength)

(* What _sub points into is kept by the iterator itself: no copy that moves *)
(* on or goes away takes the collection from under another one.             *)
NoDangling ==
  \A i \in Iterators : it[i].set /\ ~AtEnd(it[i]) =>
    it[i].sub.in = it[i].current /\ made[it[i].current] = it[i].place

(* Every iterator, copied or begun anew, goes through the elements of the   *)
(* collections that satisfy the predicate, in their order, and is at the    *)
(* end after the last one.                                                  *)
Elements ==
  FlattenSeq([p \in DOMAIN lengths |->
                IF p \in kept THEN [k \in 1..lengths[p] |-> <<p, k>>] ELSE <<>>])
InOrder ==
  \A i \in Iterators : it[i].set =>
    IF shown[i] < Len(Elements) THEN Elements[shown[i] + 1] = <<it[i].place, it[i].sub.at>>
                                ELSE AtEnd(it[i])
=============================================================================
