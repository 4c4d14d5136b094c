------------------------------- MODULE HashSet ------------------------------
(***************************************************************************)
(* The hash table for one thread (brick-hashset.h, _HashSet): open         *)
(* addressing in lines and hops, and a table of twice the size when it is  *)
(* loaded or a chain is too long.                                          *)
(***************************************************************************)
EXTENDS Integers, Sequences, FiniteSets, FiniteSetsExt, SequencesExt

CONSTANTS Values, HashRange, Offset, \* the hash of a value: v % HashRange + Offset
          thresh,                    \* cells of a cache line
          maxcollisions,
          Initial,                   \* the initial size
          Hundred, Percent,          \* 100 and 75 in the code
          MaxSize                    \* bound: no insertion into a larger table

HashSetConstants ==
  /\ {HashRange, thresh, maxcollisions, Initial, Hundred} \subseteq Nat \ {0}
  /\ Values \subseteq Nat \ {0} /\ {Offset, Percent, MaxSize} \subseteq Nat

VARIABLES table,  \* the cells
          used, bits,
          call,   \* the insertion in progress
          set     \* the abstract state: what was inserted

vars == <<table, used, bits, call, set>>

None == 0
Hash(v) == (v % HashRange) + Offset
Cell(v) == [value |-> v, hash |-> IF v = None THEN 0 ELSE Hash(v)]
empty(c) == c.hash = 0
is(c, v) == c.hash = Hash(v) /\ c.value = v

(* setSize: one less than the power of two that is not above s.             *)
PowersTo(s) == {p \in 1..s : \E n \in 0..10 : p = 2^n}
BitsOf(s) == Max(PowersTo(s)) - 1
Blank(size) == [n \in 1..size |-> Cell(None)]

Init ==
  /\ bits = BitsOf(Initial) /\ table = Blank(BitsOf(Initial) + 1) /\ used = 0
  /\ call = [pc |-> "idle", item |-> None, new |-> FALSE] /\ set = {}

-----------------------------------------------------------------------------
(* Line by line with Q = R = 1 for the hops, under a mask of low bits.      *)
index(h, i, mask) ==
  LET n == i \div thresh
  IN (((h \div thresh) * thresh) + (i % thresh) + (3 * n + 2 * n * n) * thresh) % (mask + 1)

(* Where the chain of v stops: at v or at an empty cell; 0 if nowhere.      *)
Place(t, mask, v) ==
  LET at(i) == 1 + index(Hash(v), i, mask)
      stops == {i \in 0..(maxcollisions - 1) : empty(t[at(i)]) \/ is(t[at(i)], v)}
  IN IF stops = {} THEN 0 ELSE at(Min(stops))
find(v) == LET n == Place(table, bits, v) IN n # 0 /\ is(table[n], v)

(* grow puts the values in a new table in the order of their cells; <<>>    *)
(* when one finds no place, which is an assertion.                          *)
Put(t, mask, v) ==
  LET n == IF t = <<>> THEN 0 ELSE Place(t, mask, v)
  IN IF n = 0 THEN <<>> ELSE [t EXCEPT ![n] = Cell(v)]
Rehashed(mask) ==
  FoldLeft(LAMBDA t, c : Put(t, mask, c.value), Blank(2 * Len(table)),
           SelectSeq(table, LAMBDA c : ~empty(c)))

Grow(then) ==
  LET mask == 2 * bits + 1
      new == Rehashed(mask)
  IN /\ bits' = mask
     /\ table' = IF new = <<>> THEN table ELSE new
     /\ call' = [call EXCEPT !.pc = IF new = <<>> THEN "assert" ELSE then]
     /\ UNCHANGED <<used, set>>

Insert(v) ==
  /\ call.pc = "idle" /\ Len(table) <= MaxSize
  /\ call' = [pc |-> "insert", item |-> v, new |-> FALSE]
  /\ UNCHANGED <<table, used, bits, set>>

(* insertHinted: the size is divided by 100 before it is multiplied by 75.  *)
Loaded == used > (Len(table) \div Hundred) * Percent
GrowLoaded == call.pc = "insert" /\ Loaded /\ Grow("probe")
NotLoaded ==
  /\ call.pc = "insert" /\ ~Loaded
  /\ call' = [call EXCEPT !.pc = "probe"]
  /\ UNCHANGED <<table, used, bits, set>>

Store(n, v) ==
  IF empty(table[n]) THEN table' = [table EXCEPT ![n] = Cell(v)] /\ used' = used + 1
  ELSE UNCHANGED <<table, used>>

Probe ==
  LET n == Place(table, bits, call.item)
  IN /\ call.pc = "probe" /\ n # 0
     /\ Store(n, call.item)
     /\ call' = [call EXCEPT !.pc = "idle", !.new = empty(table[n])]
     /\ set' = set \cup {call.item}
     /\ UNCHANGED bits

(* No place in the chain: the table grows and the insertion starts again.   *)
GrowCollided ==
  call.pc = "probe" /\ Place(table, bits, call.item) = 0 /\ Grow("insert")

Next == (\E v \in Values : Insert(v)) \/ GrowLoaded \/ NotLoaded \/ Probe \/ GrowCollided

Spec == Init /\ [][Next]_vars

-----------------------------------------------------------------------------
TypeOK ==
  /\ Len(table) = bits + 1 /\ used \in 0..Len(table)
  /\ call.pc \in {"idle", "insert", "probe", "assert"}

(* However the table grew, a search finds what was inserted and nothing     *)
(* else, and every value has one cell (find, insert, grow).                 *)
IsSet ==
  call.pc # "assert" =>
    /\ \A v \in Values : find(v) <=> v \in set
    /\ used = Cardinality(set)
    /\ Cardinality({n \in DOMAIN table : ~empty(table[n])}) = used

(* grow finds room in the new table for all values (its assertions).        *)
NoAssertion == call.pc # "assert"
=============================================================================
