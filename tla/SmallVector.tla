----------------------------- MODULE SmallVector ----------------------------
(***************************************************************************)
(* Vectors that keep a few elements in themselves and more of them on the  *)
(* heap (SmallVector of brick-data.h).  An allocation, and every copy of   *)
(* an element, may fail.                                                   *)
(***************************************************************************)
EXTENDS Integers, Sequences, FiniteSets, FiniteSetsExt, SequencesExt

CONSTANTS Vectors,
          Values,        \* what an element may be
          Default,       \* what its default constructor makes
          StackCapacity, \* stackCapacity
          MaxSize        \* bound: elements in a vector

SmallVectorConstants == StackCapacity \in Nat \ {0} /\ MaxSize \in Nat /\ Default \in Values

VARIABLES size, onstack, capacity, \* the members of a vector; the last two say which cells it has
          block,   \* vector |-> the block of memory on the heap, or NoBlock
          stack,   \* vector |-> its own cells
          heap,    \* block that is allocated |-> its cells
          leaked,  \* history: elements that are alive in memory that was given back
          broken,  \* history: a constructor failed after the size had been set
          content  \* history: the sequence the vector stands for

vars == <<size, onstack, capacity, block, stack, heap, leaked, broken, content>>

NoBlock == 0
Blocks == 1..(Cardinality(Vectors) + 1)
Raw == 0   \* a cell without an element
Cells(n) == [i \in 1..n |-> Raw]
Begin(v) == IF onstack[v] THEN stack[v] ELSE heap[block[v]]

Empty(v) == [size |-> 0, onstack |-> TRUE, capacity |-> StackCapacity, block |-> NoBlock,
             stack |-> Cells(StackCapacity), heap |-> heap]
Init == /\ size = [v \in Vectors |-> 0] /\ onstack = [v \in Vectors |-> TRUE]
        /\ capacity = [v \in Vectors |-> StackCapacity] /\ block = [v \in Vectors |-> NoBlock]
        /\ stack = [v \in Vectors |-> Cells(StackCapacity)] /\ heap = <<>>
        /\ leaked = 0 /\ broken = [v \in Vectors |-> FALSE] /\ content = [v \in Vectors |-> <<>>]

(* An operation changes one vector, which is a record here while it runs.   *)
This(v) == [size |-> size[v], onstack |-> onstack[v], capacity |-> capacity[v], block |-> block[v],
            stack |-> stack[v], heap |-> heap]
CellsOf(r) == IF r.onstack THEN r.stack ELSE r.heap[r.block]
WithCells(r, cells) == IF r.onstack THEN [r EXCEPT !.stack = cells] ELSE [r EXCEPT !.heap[r.block] = cells]
Becomes(v, r) ==
  /\ size' = [size EXCEPT ![v] = r.size] /\ onstack' = [onstack EXCEPT ![v] = r.onstack]
  /\ capacity' = [capacity EXCEPT ![v] = r.capacity] /\ block' = [block EXCEPT ![v] = r.block]
  /\ stack' = [stack EXCEPT ![v] = r.stack] /\ heap' = r.heap
Holds(v, s) == content' = [content EXCEPT ![v] = s]
Breaks(v) == broken' = [broken EXCEPT ![v] = TRUE]

-----------------------------------------------------------------------------
Drop(r, from) ==   \* from the element after from on
  WithCells(r, [i \in DOMAIN CellsOf(r) |-> IF i > from THEN Raw ELSE CellsOf(r)[i]])
Alive(cells) == Cardinality({i \in DOMAIN cells : cells[i] # Raw})
Delete(r) == IF r.onstack THEN r
             ELSE [r EXCEPT !.heap = [b \in DOMAIN r.heap \ {r.block} |-> r.heap[b]], !.block = NoBlock]

RECURSIVE PowerOf2(_, _)
PowerOf2(p, n) == IF p >= n THEN p ELSE PowerOf2(2 * p, n)

(* _reserve, that shrinks or moves to a larger block, with all of its       *)
(* outcomes: when the allocation or a copy fails the copies are destroyed   *)
(* and the vector is what it was.                                           *)
Outcome(r, ok, left) == [vector |-> r, ok |-> ok, leaked |-> left]
MovedTo(r, n) ==
  LET free == Min(Blocks \ DOMAIN r.heap)
      cap == PowerOf2(1, n)
      new == [i \in 1..cap |-> IF i <= r.size THEN CellsOf(r)[i] ELSE Raw]
      old == Delete(Drop(r, 0))
  IN [old EXCEPT !.heap = [b \in DOMAIN old.heap \cup {free} |-> IF b = free THEN new ELSE old.heap[b]],
                 !.block = free, !.capacity = cap, !.onstack = FALSE]
MoveFails(r) == {Outcome(r, FALSE, 0)}
Reserve(r, n) ==
  IF n < r.size THEN {Outcome(Drop(r, n), TRUE, 0)}
  ELSE IF n <= r.capacity THEN {Outcome(r, TRUE, 0)}
  ELSE {Outcome(MovedTo(r, n), TRUE, 0)} \cup MoveFails(r)

(* _resize, then the new elements, the last of which may not come to be.    *)
Resize(v, r, n, Fill(_), s) ==
  \E o \in Reserve(r, n) :
    /\ leaked' = leaked + o.leaked
    /\ IF ~o.ok THEN Becomes(v, o.vector) /\ UNCHANGED broken
                     /\ Holds(v, SubSeq(content[v], 1, r.size))
       ELSE LET sized == [o.vector EXCEPT !.size = n]
                cells == CellsOf(sized)
            IN \/ /\ Becomes(v, WithCells(sized, [i \in DOMAIN cells |->
                               IF i > r.size /\ i <= n THEN Fill(i) ELSE cells[i]]))
                  /\ UNCHANGED broken /\ Holds(v, s)
               \/ n > r.size /\ Becomes(v, sized) /\ Breaks(v) /\ UNCHANGED content

(* The value is not an element of the vector itself: push_back(v[ 0 ]) on a *)
(* full vector would copy from the block that _resize() freed.              *)
push_back(v, x) == /\ size[v] < MaxSize
                   /\ Resize(v, This(v), size[v] + 1, LAMBDA i : x, Append(content[v], x))
pop_back(v) == /\ size[v] > 0
               /\ Resize(v, This(v), size[v] - 1, LAMBDA i : Raw, Front(content[v]))
resize(v, n, x) ==
  Resize(v, This(v), n, LAMBDA i : x,
         IF n <= size[v] THEN SubSeq(content[v], 1, n) ELSE content[v] \o [i \in 1..(n - size[v]) |-> x])
reserve(v, n) == /\ n > capacity[v]
                 /\ \E o \in Reserve(This(v), n) : Becomes(v, o.vector) /\ leaked' = leaked + o.leaked
                 /\ UNCHANGED <<broken, content>>
clear_and_drop_memory(v) ==
  /\ Becomes(v, [Delete(Drop(This(v), 0)) EXCEPT !.onstack = TRUE, !.capacity = StackCapacity, !.size = 0])
  /\ Holds(v, <<>>) /\ UNCHANGED <<leaked, broken>>

(* A vector is destroyed and another made in its place, from one that       *)
(* stays, or that is empty afterwards.                                      *)
Fresh(v) == [Empty(v) EXCEPT !.heap = Delete(Drop(This(v), 0)).heap]
Copy(v, w) == /\ v # w
              /\ Resize(v, Fresh(v), size[w], LAMBDA i : Begin(w)[i], content[w])
Move(v, w) ==
  /\ v # w
  /\ \E o \in Reserve(Fresh(v), size[w]) :
       IF ~o.ok THEN Becomes(v, o.vector) /\ Holds(v, <<>>) /\ UNCHANGED broken
       ELSE LET sized == [o.vector EXCEPT !.size = size[w]]
                full == WithCells(sized, [i \in DOMAIN CellsOf(sized) |->
                                            IF i <= size[w] THEN Begin(w)[i] ELSE Raw])
                emptied == Drop([This(w) EXCEPT !.heap = full.heap], 0)
            IN \/ /\ size' = [size EXCEPT ![v] = size[w], ![w] = 0]
                  /\ onstack' = [onstack EXCEPT ![v] = full.onstack]
                  /\ capacity' = [capacity EXCEPT ![v] = full.capacity]
                  /\ block' = [block EXCEPT ![v] = full.block]
                  /\ stack' = [stack EXCEPT ![v] = full.stack, ![w] = emptied.stack]
                  /\ heap' = emptied.heap /\ UNCHANGED broken
                  /\ content' = [content EXCEPT ![v] = content[w], ![w] = <<>>]
               \/ size[w] > 0 /\ Becomes(v, sized) /\ Breaks(v) /\ UNCHANGED content
  /\ UNCHANGED leaked

(* Nothing is defined for a vector that counts an element it does not have. *)
Next == /\ \A v \in Vectors : ~broken[v]
        /\ \E v, w \in Vectors :
             \/ \E x \in Values : push_back(v, x)
             \/ pop_back(v)
             \/ \E n \in 0..MaxSize, x \in {Default} : resize(v, n, x)
             \/ \E n \in 0..MaxSize : reserve(v, n)
             \/ clear_and_drop_memory(v)
             \/ Copy(v, w) \/ Move(v, w)
Spec == Init /\ [][Next]_vars

-----------------------------------------------------------------------------
TypeOK == /\ \A v \in Vectors : /\ size[v] \in 0..capacity[v]
                                /\ onstack[v] <=> block[v] = NoBlock
                                /\ ~onstack[v] => block[v] \in DOMAIN heap
          /\ \A v \in Vectors : Len(Begin(v)) = capacity[v]

(* The elements of a vector are those of the sequence it stands for, in     *)
(* their order, whatever failed: only a constructor that fails after the    *)
(* size was set leaves a vector that counts what is not there.              *)
Same == \A v \in Vectors : ~broken[v] => SubSeq(Begin(v), 1, size[v]) = content[v]

(* No element is alive but those that are counted.                          *)
NoneElse == /\ leaked = 0
            /\ \A v \in Vectors : /\ \A i \in DOMAIN Begin(v) : i > size[v] => Begin(v)[i] = Raw
                                  /\ ~onstack[v] => Alive(stack[v]) = 0

(* Every block of memory belongs to one vector.                             *)
BlocksOwned == /\ DOMAIN heap = {block[v] : v \in {w \in Vectors : ~onstack[w]}}
               /\ \A v, w \in Vectors : ~onstack[v] /\ block[v] = block[w] => v = w
=============================================================================
