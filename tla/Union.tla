-------------------------------- MODULE Union -------------------------------
(***************************************************************************)
(* Unions that know the type of what they hold (Union of brick-types.h): a *)
(* discriminator and storage for one object.  Constructors may fail, and   *)
(* the union has no destructor: an object it lets go of is not destroyed.  *)
(***************************************************************************)
EXTENDS Integers, FiniteSets, FiniteSetsExt

CONSTANTS Unions, \* the variables of this type
          Types,  \* their number: the discriminators 1 .. Types
          Values  \* what an object of any of them may be

UnionConstants == Types \in Nat \ {0} /\ Values \subseteq Nat

VARIABLES discriminator, \* union |-> the type of what it holds, or 0
          storage,       \* union |-> the object in its storage, or None
          object,        \* object |-> its type and value, if it is alive
          last           \* history: the last operation and how it ended

vars == <<discriminator, storage, object, last>>

(* Every object that is made is a new one: the number of those that are     *)
(* used up again here, as soon as no union has them.                        *)
Objects == 1..(Cardinality(Unions) + 1)
None == 0
Dead == [type |-> 0, value |-> 0]
New == Min({o \in Objects : object[o] = Dead /\ \A u \in Unions : storage[u] # o})
Object(t, x) == [type |-> t, value |-> x]
DiscriminatorOf(t) == t

Init == /\ discriminator = [u \in Unions |-> 0] /\ storage = [u \in Unions |-> None]
        /\ object = [o \in Objects |-> Dead]
        /\ last = [operation |-> "none", union |-> CHOOSE u \in Unions : TRUE, ended |-> "done"]

Ended(operation, u, how) == last' = [operation |-> operation, union |-> u, ended |-> how]
Nothing == UNCHANGED <<discriminator, storage, object>>

(* Only what some union has is kept here.                                   *)
Kept(objects, stores) ==
  [o \in Objects |-> IF \E u \in Unions : stores[u] = o THEN objects[o] ELSE Dead]

-----------------------------------------------------------------------------
(* A value is assigned: to the object, if it is of this type; else the      *)
(* object is destroyed, between the two the union is empty, and one is made *)
(* in its place.                                                            *)
AssignSame(u, t, x) ==
  /\ discriminator[u] = t
  /\ \/ /\ object' = [object EXCEPT ![storage[u]].value = x] /\ Ended("value", u, "done")
        /\ UNCHANGED <<discriminator, storage>>
     \/ Nothing /\ Ended("value", u, "failed")
Destroyed(u) == IF discriminator[u] = 0 THEN object ELSE [object EXCEPT ![storage[u]] = Dead]
AssignDifferent(u, t, x) ==
  /\ discriminator[u] # t
  /\ \/ /\ storage' = [storage EXCEPT ![u] = New]
        /\ object' = Kept([Destroyed(u) EXCEPT ![New] = Object(t, x)], storage')
        /\ discriminator' = [discriminator EXCEPT ![u] = DiscriminatorOf(t)] /\ Ended("value", u, "done")
     \/ Nothing /\ Ended("value", u, "failed")   \* the temporary union could not be made
     \/ /\ object' = Destroyed(u) /\ discriminator' = [discriminator EXCEPT ![u] = 0]
        /\ Ended("value", u, "emptied") /\ UNCHANGED storage

(* A union is assigned, or swapped with: the parameter is a copy of the     *)
(* other, swap takes it by value, so its copy is what goes into the         *)
(* storage; what was there goes away with the parameter.                    *)
CopyOf(u, v) ==
  IF discriminator[v] = 0
  THEN /\ storage' = [storage EXCEPT ![u] = None] /\ object' = Kept(object, storage')
       /\ discriminator' = [discriminator EXCEPT ![u] = 0]
  ELSE /\ storage' = [storage EXCEPT ![u] = New]
       /\ object' = Kept([object EXCEPT ![New] = object[storage[v]]], storage')
       /\ discriminator' = [discriminator EXCEPT ![u] = discriminator[v]]
Assign(u, v) ==
  \/ CopyOf(u, v) /\ Ended("assign", u, "done")
  \/ discriminator[v] # 0 /\ Nothing /\ Ended("assign", u, "failed")

(* The parameter is made by moving from the other, which is empty from then *)
(* on, whether or not the rest succeeds.                                    *)
Move(u, v) ==
  IF discriminator[v] = 0 THEN CopyOf(u, v) /\ Ended("move", u, "done")
  ELSE \/ /\ storage' = [storage EXCEPT ![v] = None, ![u] = New]
          /\ object' = Kept([object EXCEPT ![New] = object[storage[v]]], storage')
          /\ discriminator' = [discriminator EXCEPT ![v] = 0, ![u] = discriminator[v]]
          /\ Ended("move", u, "done")
       \/ /\ storage' = [storage EXCEPT ![v] = None] /\ object' = Kept(object, storage')
          /\ discriminator' = [discriminator EXCEPT ![v] = 0]
          /\ Ended("move", u, "failed")

-----------------------------------------------------------------------------
(* The comparisons: by the discriminator, then by the objects.  That of two *)
(* empty unions looks for the discriminator 0 among the types.              *)
Value(u) == object[storage[u]].value
Unreachable(u, v) == discriminator[u] = 0 /\ discriminator[v] = 0
Equal(u, v) == discriminator[u] = discriminator[v] /\ Value(u) = Value(v)
Less(u, v) == \/ discriminator[u] < discriminator[v]
              \/ discriminator[u] = discriminator[v] /\ Value(u) < Value(v)
EqualValue(u, t, x) == discriminator[u] = t /\ Value(u) = x
LessValue(u, t, x) == discriminator[u] < t \/ (discriminator[u] = t /\ Value(u) < x)
ValueLess(t, x, u) == t < discriminator[u] \/ (discriminator[u] = t /\ x < Value(u))

Compare(u, v) == Nothing /\ Ended("compare", u, IF Unreachable(u, v) THEN "unreachable" ELSE "done")

Next == \E u, v \in Unions : \/ \E t \in 1..Types, x \in Values : AssignSame(u, t, x) \/ AssignDifferent(u, t, x)
                             \/ Assign(u, v) \/ Move(u, v) \/ Compare(u, v)
Spec == Init /\ [][Next]_vars

-----------------------------------------------------------------------------
TypeOK == /\ discriminator \in [Unions -> 0..Types] /\ storage \in [Unions -> Objects \cup {None}]
          /\ DOMAIN object = Objects

(* A union that says it holds something holds an object of that type that   *)
(* is alive, also after an operation that failed.                           *)
Agrees == \A u \in Unions : discriminator[u] # 0 => /\ storage[u] # None
                                                    /\ object[storage[u]].type = discriminator[u]

(* No two unions have the same object.                                      *)
Alone == \A u, v \in Unions : u # v /\ discriminator[u] # 0 /\ discriminator[v] # 0 => storage[u] # storage[v]

(* An assignment of a union that fails leaves all of them as they were      *)
(* (operator= with copy and swap), and one of a value leaves the others.    *)
Content(u) == IF discriminator[u] = 0 THEN Dead ELSE object[storage[u]]
CopyAndSwapStep ==
  last'.operation \in {"assign", "value"} /\ last'.ended # "done" =>
    \A u \in Unions : u # last'.union \/ last'.operation = "assign" => Content(u)' = Content(u)
CopyAndSwap == [][CopyAndSwapStep]_vars

(* Two unions that are not both empty are in one of three orders, and so    *)
(* are a union and a value.                                                 *)
OneOf(a, b, c) == Cardinality({i \in 1..3 : <<a, b, c>>[i]}) = 1
Ordered == \A u, v \in Unions : ~Unreachable(u, v) =>
             OneOf(Less(u, v), discriminator[u] = discriminator[v] /\ Equal(u, v), Less(v, u))
OrderedValues == \A u \in Unions, t \in 1..Types, x \in Values :
                   OneOf(LessValue(u, t, x), discriminator[u] # 0 /\ EqualValue(u, t, x), ValueLess(t, x, u))
=============================================================================
