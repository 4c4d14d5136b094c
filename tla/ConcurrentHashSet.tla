-------------------------- MODULE ConcurrentHashSet -------------------------
(***************************************************************************)
(* The concurrent hash set of brick-hashset.h with FastAtomicCell.         *)
(* Threads insert and find values in the current row of cells.  When the   *)
(* row is full one thread allocates a larger one, and everybody who        *)
(* notices helps: a segment at a time, every cell of the old row is        *)
(* invalidated and its value is inserted in the new row.  An old row is    *)
(* freed by the last thread that leaves it.                                *)
(*                                                                         *)
(* th[t] is what a thread knows: its ThreadData (row, inserts) and the     *)
(* local variables of the calls it is in.                                  *)
(***************************************************************************)
EXTENDS Integers, Sequences, FiniteSets, FiniteSetsExt, TLC

CONSTANTS Threads, Values,
          HashRange,     \* values of the hasher
          thresh,        \* cells of a cache line
          maxcollisions, segmentSize, syncPoint,
          Growth,        \* nextSize of a row by its size, over the size
          MaxGrows,      \* rows of the table
          MaxCalls       \* bound: calls of all threads

HashSetConstants ==
  /\ {thresh, maxcollisions, segmentSize, syncPoint, Growth, MaxGrows} \subseteq Nat \ {0}
  /\ HashRange \in Nat \ {0} /\ Values \subseteq Nat \ {0}

VARIABLES table,        \* the rows: sequences of cells; << >> has no memory
          tableWorkers, currentRow, availableSegments, doneSegments, used, growing,
          th,
          absent        \* history: the value of a call was not in the set meanwhile

shared == <<table, tableWorkers, currentRow, availableSegments, doneSegments, used, growing>>
vars == <<shared, th, absent>>

NoValue == 0
Hash(x) == x % HashRange
Empty == [state |-> "empty", value |-> NoValue]     \* hashLock == 0
Invalid(c) == [c EXCEPT !.state = "invalid"]        \* hashLock == 3
Rows == 0 .. MaxGrows - 1
Fake == 1                                           \* the size of row 0, without cells

TypeOK ==
  /\ table \in Seq(Seq([state: {"empty", "busy", "full", "invalid"}, value: Values \cup {NoValue}]))
  /\ \A r \in DOMAIN table: tableWorkers[r - 1] \in 0 .. Cardinality(Threads) + 1
  /\ currentRow \in Rows /\ growing \in BOOLEAN /\ used <= Cardinality(Values)
  /\ \A t \in Threads: th[t].row \in 0 .. currentRow /\ th[t].i \in 0 .. maxcollisions

NoLocals == [in |-> 0, i |-> 0, go |-> "none", ret |-> "none", seg |-> 0, at |-> 0, moved |-> NoValue]
Idle == NoLocals @@ [pc |-> "idle", op |-> "find", x |-> NoValue, res |-> "none",
                     calls |-> 0, row |-> 0, inserts |-> 0]

Init == /\ table = << << >> >> /\ tableWorkers = [r \in Rows |-> 0]
        /\ currentRow = 0 /\ availableSegments = 0 /\ doneSegments = 0 /\ used = 0
        /\ growing = FALSE /\ th = [t \in Threads |-> Idle]
        /\ absent = [t \in Threads |-> FALSE]

-----------------------------------------------------------------------------
Cells(r) == table[r + 1]
Size(r) == IF r = 0 THEN Fake ELSE Len(Cells(r))
Segments(r) == Max({Size(r) \div segmentSize, 1})

(* Line by line, then hops of (2Q + 1) n + 2R n^2 lines, Q = R = 1.        *)
index(h, i, size) ==
  LET n == i \div thresh
  IN (((h \div thresh) * thresh) + (i % thresh) + (3 * n + 2 * n * n) * thresh) % size

Rehashing(t) == th[t].moved # NoValue                   \* insertCell< true >
Item(t) == IF Rehashing(t) THEN th[t].moved ELSE th[t].x
Place(t) == 1 + index(Hash(Item(t)), th[t].i, Size(th[t].in))
Cell(t) == Cells(th[t].in)[Place(t)]

At(t, pc) == th[t].pc = pc
Goto(t, pc) == th' = [th EXCEPT ![t].pc = pc]
Leave(t, pc) == th' = [th EXCEPT ![t] = [(NoLocals @@ @) EXCEPT !.pc = pc]]
SetCell(r, n, c) == table' = [table EXCEPT ![r + 1][n] = c]
Retry(op) == IF op = "insert" THEN "insert" ELSE "find"
\* mutant: a value that was found is counted once more
FinishCounted(t, res) == th' = [th EXCEPT ![t] = [(NoLocals @@ @) EXCEPT
                           !.pc = IF th[t].op = "insert" THEN "usage" ELSE "return", !.res = res]]
Finish(t, res) == th' = [th EXCEPT ![t] = [(NoLocals @@ @) EXCEPT !.pc = "return", !.res = res]]

Call(t) == /\ At(t, "idle") /\ MapThenSumSet(LAMBDA u: th[u].calls, Threads) < MaxCalls
           /\ \E op \in {"insert", "find"}, x \in Values:
                th' = [th EXCEPT ![t] = [@ EXCEPT !.pc = Retry(op), !.op = op, !.x = x,
                                                  !.calls = @ + 1]]
           /\ UNCHANGED shared

Return(t) == /\ At(t, "return")
             /\ th' = [th EXCEPT ![t] = [Idle EXCEPT !.calls = th[t].calls, !.row = th[t].row,
                                                     !.inserts = th[t].inserts]]
             /\ UNCHANGED shared

(* changed(): the number of the current row and growing are two reads.     *)
Check(t, go) == th' = [th EXCEPT ![t].pc = "changed", ![t].go = go]
\* mutant: a row that is still being filled is taken for complete
ChangedRow(t) ==
  /\ At(t, "changed")
  /\ IF th[t].row < currentRow THEN Leave(t, "help")
     ELSE th' = [th EXCEPT ![t].pc = th[t].go, ![t].go = "none"]
  /\ UNCHANGED shared
Changed(t) ==
  /\ \/ /\ At(t, "changed")
        /\ IF th[t].row < currentRow THEN Leave(t, "help") ELSE Goto(t, "changed2")
     \/ /\ At(t, "changed2")
        /\ IF growing THEN Leave(t, "help")
           ELSE th' = [th EXCEPT ![t].pc = th[t].go, ![t].go = "none"]
  /\ UNCHANGED shared

(* The beginning of insertCell< false > and of findCell.                   *)
Full(t) == Cells(th[t].row) = << >> \/ 3 * Size(th[t].row) <= 4 * used
Begin(t) ==
  /\ \/ At(t, "insert") /\ IF Full(t) THEN Goto(t, "grow") ELSE Check(t, "start")
     \/ At(t, "find") /\ Check(t, "start")
     \/ /\ At(t, "start")
        /\ IF Cells(th[t].row) = << >> THEN Finish(t, "absent")
           ELSE LET s == [th[t] EXCEPT !.i = 0, !.in = th[t].row]
                IN th' = [th EXCEPT ![t] = IF th[t].op = "insert" THEN [s EXCEPT !.pc = "probe"]
                                           ELSE [s EXCEPT !.pc = "changed", !.go = "probe"]]
  /\ UNCHANGED shared

(* One cell of the chain: an empty one ends a search and is taken by an    *)
(* insertion, unless another thread takes it first.                        *)
Searching(t) == th[t].op = "find" /\ ~Rehashing(t)
Probe(t) ==
  /\ At(t, "probe")
  /\ IF Cell(t).state # "empty" THEN Goto(t, "is")
     ELSE IF Searching(t) THEN Finish(t, "absent") ELSE Goto(t, "store")
  /\ UNCHANGED shared

Store(t) ==
  /\ At(t, "store")
  /\ IF Cell(t).state = "empty"
     THEN /\ SetCell(th[t].in, Place(t), [state |-> "busy", value |-> Item(t)])
          /\ Goto(t, "publish")
     ELSE /\ IF Rehashing(t) THEN Goto(t, "is") ELSE Check(t, "is")
          /\ UNCHANGED table
  /\ UNCHANGED <<tableWorkers, currentRow, availableSegments, doneSegments, used, growing>>

(* The value is there: an insertion counts it, a rehash goes to the next   *)
(* cell of its segment.                                                    *)
Publish(t) ==
  /\ At(t, "publish") /\ SetCell(th[t].in, Place(t), [Cell(t) EXCEPT !.state = "full"])
  /\ th' = [th EXCEPT ![t] = IF Rehashing(t)
              THEN [@ EXCEPT !.pc = "cells", !.at = @ + 1, !.moved = NoValue, !.in = 0, !.i = 0]
              ELSE [@ EXCEPT !.pc = "usage"]]
  /\ UNCHANGED <<tableWorkers, currentRow, availableSegments, doneSegments, used, growing>>

Usage(t) == /\ At(t, "usage")
            /\ th' = [th EXCEPT ![t] = [(NoLocals @@ @) EXCEPT !.pc = "return", !.res = "new",
                                                 !.inserts = (@ + 1) % syncPoint]]
            /\ used' = IF th[t].inserts + 1 = syncPoint THEN used + syncPoint ELSE used
            /\ UNCHANGED <<table, tableWorkers, currentRow, availableSegments, doneSegments, growing>>

(* is(): a cell with the same hash that is being written is waited for.    *)
(* The chain goes on after another value; an invalid cell ends a search,   *)
(* and an insertion when it asks whether the row changed.                  *)
Same(t) == Cell(t).value # NoValue /\ Hash(Cell(t).value) = Hash(Item(t))
Outgrown(t) == Searching(t) /\ Cell(t).state = "invalid"
Advance(t) == [th[t] EXCEPT !.i = @ + 1]
Is(t) ==
  /\ At(t, "is") /\ ~(Cell(t).state = "busy" /\ Same(t))
  /\ CASE Cell(t).state = "full" /\ Cell(t).value = Item(t) ->
            IF Rehashing(t) THEN Goto(t, "error") ELSE Finish(t, "found")
       [] Outgrown(t) -> Leave(t, "help")
       [] OTHER ->
            LET last == th[t].i + 1 = maxcollisions
            IN th' = [th EXCEPT ![t] =
                 IF Rehashing(t) THEN [Advance(t) EXCEPT !.pc = IF last THEN "error" ELSE "probe"]
                 ELSE IF Searching(t) /\ last THEN [(NoLocals @@ @) EXCEPT !.pc = "return", !.res = "absent"]
                 ELSE [Advance(t) EXCEPT !.pc = "changed", !.go = IF last THEN "grow" ELSE "probe"]]
  /\ UNCHANGED shared

-----------------------------------------------------------------------------
(* grow: one thread gets the lock growing; the others help it.  A row that *)
(* is already there is not made again.                                     *)
Stale(t) == currentRow >= th[t].row + 1
LockGrowth(t) ==
  /\ \/ /\ At(t, "grow") /\ UNCHANGED growing
        /\ Leave(t, IF th[t].row + 1 = MaxGrows THEN "error" ELSE IF Stale(t) THEN "help" ELSE "lock")
     \/ At(t, "lock") /\ growing' = TRUE /\ Goto(t, IF growing THEN "lockHelp" ELSE "recheck")
     \/ /\ At(t, "recheck") /\ Goto(t, IF Stale(t) THEN "help" ELSE "allocate")
        /\ growing' = (growing /\ ~Stale(t))
  /\ UNCHANGED <<table, tableWorkers, currentRow, availableSegments, doneSegments, used>>

(* The new row is the current one before anybody can hold it.              *)
Allocate(t) ==
  /\ At(t, "allocate") /\ Goto(t, "hold")
  /\ table' = Append(table, [n \in 1 .. Growth * Size(th[t].row) |-> Empty])
  /\ currentRow' = th[t].row + 1
  /\ UNCHANGED <<tableWorkers, availableSegments, doneSegments, used, growing>>
Hold(t) ==
  /\ At(t, "hold") /\ Goto(t, "open")
  /\ tableWorkers' = [tableWorkers EXCEPT ![th[t].row + 1] = 1] /\ doneSegments' = 0
  /\ UNCHANGED <<table, currentRow, availableSegments, used, growing>>
\* mutant: the lock is kept when there is nothing to rehash
OpenKeep(t) ==
  /\ At(t, "open")
  /\ IF Cells(th[t].row) = << >>
     THEN Goto(t, "grown") /\ UNCHANGED availableSegments
     ELSE /\ availableSegments' = Segments(th[t].row)
          /\ th' = [th EXCEPT ![t].pc = "segment", ![t].ret = "grown"]
  /\ UNCHANGED <<table, tableWorkers, currentRow, doneSegments, used, growing>>
Open(t) ==
  /\ At(t, "open")
  /\ IF Cells(th[t].row) = << >>
     THEN growing' = FALSE /\ Goto(t, "grown") /\ UNCHANGED availableSegments
     ELSE /\ availableSegments' = Segments(th[t].row) /\ UNCHANGED growing
          /\ th' = [th EXCEPT ![t].pc = "segment", ![t].ret = "grown"]
  /\ UNCHANGED <<table, tableWorkers, currentRow, doneSegments, used>>
Grown(t) == /\ At(t, "grown") /\ th' = [th EXCEPT ![t] = [(NoLocals @@ @) EXCEPT !.pc = "insert", !.row = @ + 1]]
            /\ UNCHANGED shared

(* helpWithRehashing, and what comes after it.                             *)
Help(t) ==
  /\ \/ /\ At(t, "help")
        /\ th' = [th EXCEPT ![t] = IF growing THEN [@ EXCEPT !.pc = "segment", !.ret = "help"]
                                   ELSE [(NoLocals @@ @) EXCEPT !.pc = "update"]]
     \/ /\ At(t, "lockHelp")
        /\ th' = [th EXCEPT ![t] = IF growing THEN [@ EXCEPT !.pc = "segment", !.ret = "lockHelp"]
                                   ELSE [(NoLocals @@ @) EXCEPT !.pc = "lock"]]
  /\ UNCHANGED shared

(* rehashSegment: segments are taken from the last to the first.           *)
Old == currentRow - 1
After(t) == IF th[t].seg > 0 THEN "segment" ELSE th[t].ret
TakeSegment(t) ==
  \/ /\ At(t, "segment") /\ Goto(t, IF availableSegments <= 0 THEN th[t].ret ELSE "take")
     /\ UNCHANGED shared
  \/ /\ At(t, "take") /\ availableSegments' = availableSegments - 1
     /\ th' = [th EXCEPT ![t] = IF availableSegments <= 0 THEN [@ EXCEPT !.pc = th[t].ret]
                                ELSE [@ EXCEPT !.pc = "cells", !.seg = availableSegments - 1,
                                               !.at = segmentSize * (availableSegments - 1)]]
     /\ UNCHANGED <<table, tableWorkers, currentRow, doneSegments, used, growing>>

(* Every cell is invalidated when its writer is through, and what it held  *)
(* goes to the new row.                                                    *)
End(t) == Min({segmentSize * (th[t].seg + 1), Size(Old)})
\* mutant: the value a writer is about to publish is overlooked
InvalidateNow(t) ==
  LET c == Cells(Old)[th[t].at + 1]
  IN /\ At(t, "cells") /\ th[t].at < End(t)
     /\ SetCell(Old, th[t].at + 1, Invalid(c))
     /\ th' = [th EXCEPT ![t] = IF c.state # "full" THEN [@ EXCEPT !.at = @ + 1]
                 ELSE [@ EXCEPT !.pc = "probe", !.moved = c.value, !.i = 0, !.in = currentRow]]
     /\ UNCHANGED <<tableWorkers, currentRow, availableSegments, doneSegments, used, growing>>
Invalidate(t) ==
  LET c == Cells(Old)[th[t].at + 1]
  IN /\ At(t, "cells") /\ th[t].at < End(t) /\ c.state # "busy"
     /\ SetCell(Old, th[t].at + 1, Invalid(c))
     /\ th' = [th EXCEPT ![t] = IF c.state # "full" THEN [@ EXCEPT !.at = @ + 1]
                 ELSE [@ EXCEPT !.pc = "probe", !.moved = c.value, !.i = 0, !.in = currentRow]]
     /\ UNCHANGED <<tableWorkers, currentRow, availableSegments, doneSegments, used, growing>>

(* releaseRow: the last thread that leaves a row frees it; row 0 is never  *)
(* counted.                                                                *)
releaseRow(r) == /\ tableWorkers' = [tableWorkers EXCEPT ![r] = Max({@ - 1, 0})]
                 /\ table' = IF tableWorkers[r] = 1 THEN [table EXCEPT ![r + 1] = << >>] ELSE table

(* The thread that does the last segment ends the growth.                  *)
SegmentDone(t) ==
  /\ At(t, "cells") /\ th[t].at = End(t) /\ doneSegments' = doneSegments + 1
  /\ Goto(t, IF doneSegments + 1 = Segments(Old) THEN "done" ELSE After(t))
  /\ UNCHANGED <<table, tableWorkers, currentRow, availableSegments, used, growing>>
rehashingDone(t) ==
  /\ At(t, "done") /\ releaseRow(Old) /\ growing' = FALSE /\ Goto(t, After(t))
  /\ UNCHANGED <<currentRow, availableSegments, doneSegments, used>>

(* updateIndex: a thread leaves its row and holds the current one; a row   *)
(* that nobody holds is not entered, it may be freed.                      *)
UpdateIndex(t) ==
  /\ At(t, "update")
  /\ IF th[t].row = currentRow THEN Goto(t, Retry(th[t].op)) /\ UNCHANGED <<table, tableWorkers>>
     ELSE /\ releaseRow(th[t].row)
          /\ th' = [th EXCEPT ![t].pc = "acquire", ![t].in = currentRow]
  /\ UNCHANGED <<currentRow, availableSegments, doneSegments, used, growing>>
Acquirable(t) == tableWorkers[th[t].in] > 0
AcquireRow(t) ==
  /\ At(t, "acquire")
  /\ IF Acquirable(t)
     THEN /\ tableWorkers' = [tableWorkers EXCEPT ![th[t].in] = @ + 1]
          /\ th' = [th EXCEPT ![t] = [(NoLocals @@ @) EXCEPT !.pc = Retry(th[t].op), !.row = th[t].in]]
     ELSE th' = [th EXCEPT ![t].in = currentRow] /\ UNCHANGED tableWorkers
  /\ UNCHANGED <<table, currentRow, availableSegments, doneSegments, used, growing>>

-----------------------------------------------------------------------------
(* What is in the set: what a cell holds, is about to hold, or what is on  *)
(* its way to the new row.                                                 *)
Holding(c) == c.state \in {"busy", "full"}
Held(r) == {Cells(r)[n].value: n \in {k \in DOMAIN Cells(r): Holding(Cells(r)[k])}}
Content == UNION {Held(r): r \in 0 .. Len(table) - 1}
           \cup ({th[t].moved: t \in Threads} \ {NoValue})

Step(t) == Return(t) \/ Changed(t) \/ Begin(t) \/ Probe(t) \/ Store(t) \/ Publish(t) \/ Usage(t)
           \/ Is(t) \/ LockGrowth(t) \/ Allocate(t) \/ Hold(t) \/ Open(t) \/ Grown(t) \/ Help(t)
           \/ TakeSegment(t) \/ Invalidate(t) \/ SegmentDone(t) \/ rehashingDone(t)
           \/ UpdateIndex(t) \/ AcquireRow(t)
Observe == absent' = [t \in Threads |-> th'[t].pc # "idle" /\ (absent[t] \/ th'[t].x \notin Content')]
Next == \E t \in Threads: (Call(t) \/ Step(t)) /\ Observe

Spec == Init /\ [][Next]_vars
FairSpec == Spec /\ \A t \in Threads: WF_vars(Step(t) /\ Observe)

-----------------------------------------------------------------------------
(* The set only grows, by one value that was not in it, when an insertion  *)
(* that will say "new" takes a cell: however often the rows are rehashed   *)
(* meanwhile, no value is lost and no value is new twice.                  *)
Inserting(t) == At(t, "store") /\ th'[t].pc = "publish" /\ ~Rehashing(t)
GrowsStep ==
  \/ Content' = Content /\ \A t \in Threads: ~Inserting(t)
  \/ \E t \in Threads: /\ Inserting(t) /\ th[t].x \notin Content
                       /\ Content' = Content \cup {th[t].x}
Grows == [][GrowsStep]_vars

(* What a call returns was true at some moment of the call: a value that   *)
(* is found is in the set, one that is not was out of it.                  *)
Truthful == \A t \in Threads: At(t, "return") =>
              /\ th[t].res \in {"new", "absent"} => absent[t]
              /\ th[t].res \in {"new", "found"} => th[t].x \in Content

(* A row is in memory while a thread looks at its cells.                   *)
Alive == \A t \in Threads:
  /\ th[t].pc \in {"probe", "store", "publish", "is"} => Cells(th[t].in) # << >>
  /\ th[t].pc = "cells" => Cells(Old) # << >>

(* No assertion fails: a rehash finds room for every value, once, and an   *)
(* insertion finds a cell in its chain before the table runs out of rows.  *)
NoError == \A t \in Threads: ~At(t, "error")

(* Rows that were outgrown and left are freed.  Who makes a row holds it   *)
(* before it enters it.                                                    *)
Holds(t, r) == \/ th[t].row = r
               \/ th[t].row + 1 = r /\ "grown" \in {th[t].pc, th[t].ret}
NoLeak == ~growing => \A r \in 0 .. currentRow - 1:
            (\A t \in Threads: ~Holds(t, r)) => Cells(r) = << >>

(* Every insert and every find returns.                                    *)
Calling(t) == ~At(t, "idle")
=============================================================================
