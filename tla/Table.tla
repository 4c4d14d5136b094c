-------------------------------- MODULE Table -------------------------------
(***************************************************************************)
(* A table of the database (Database::Table of brick-db.h): a list of rows *)
(* and, for each indexed column, a map from its values to the rows, which  *)
(* every operation has to keep in step, whichever of its parts fails.      *)
(***************************************************************************)
EXTENDS Integers, Sequences, FiniteSets, FiniteSetsExt, SequencesExt, Functions

CONSTANTS Keys,  \* what the first column holds
          Names, \* what the second one holds, when it is not null
          Notes, \* what the other column holds
          Places \* bound: where rows are stored, the nodes of the list

VARIABLES rows,   \* xData: the nodes in their order
          row,    \* node |-> its values
          index,  \* xIndexesTables: column |-> value |-> node
          last    \* history: the last operation and what it returned

vars == <<rows, row, index, last>>

(* Three columns: one is indexed and never null, one is indexed and may be  *)
(* null, one is not indexed.                                                *)
Null == "null"
Unchanged == "unchanged"
Indexed == {"id", "name"}
Row == [id : Keys, name : Names \cup {Null}, note : Notes]
Change == [id : Keys \cup {Unchanged}, name : Names \cup {Null, Unchanged}, note : Notes \cup {Unchanged}]
NoRow == [id |-> Null, name |-> Null, note |-> Null]
Values == [i \in DOMAIN rows |-> row[rows[i]]]

-----------------------------------------------------------------------------
(* FindIndexes and FindRelevantIndexes, InsertIndexes, EraseIndexes: for    *)
(* every indexed column that is not null.                                   *)
Find(ix, r) == \E c \in Indexed : r[c] # Null /\ r[c] \in DOMAIN ix[c]
FindRelevant(ix, ch) == \E c \in Indexed : /\ ch[c] \notin {Unchanged, Null}
                                           /\ ch[c] \in DOMAIN ix[c]
Insert(ix, r, n) == [c \in Indexed |-> IF r[c] = Null THEN ix[c] ELSE ix[c] @@ (r[c] :> n)]
Erase(ix, r) == [c \in Indexed |-> Restrict(ix[c], DOMAIN ix[c] \ {r[c]})]

Init == /\ rows = <<>> /\ row = [n \in Places |-> NoRow]
        /\ index = [c \in Indexed |-> <<>>]
        /\ last = <<"none", TRUE>>

Done(operation, value) == last' = <<operation, value>>

(* insert: the row is stored first, and taken back when a value of it is    *)
(* there already.                                                           *)
InsertRow(r) ==
  \E n \in Places \ ToSet(rows) :
    /\ n = CHOOSE m \in Places \ ToSet(rows) : TRUE
    /\ IF Find(index, r) THEN UNCHANGED <<rows, row, index>> /\ Done("insert", FALSE)
       ELSE /\ rows' = Append(rows, n) /\ row' = [row EXCEPT ![n] = r]
            /\ index' = Insert(index, r, n) /\ Done("insert", TRUE)

(* update with a row: it is taken out of the indexes, changed if nothing    *)
(* stands against it, and put back.                                         *)
\* mutant: it is put back as it should have been
UpdateRowAnyway(c, key, r) ==
  /\ key \in DOMAIN index[c]
  /\ LET n == index[c][key]
         without == Erase(index, row[n])
         fails == Find(without, r)
     IN /\ row' = IF fails THEN row ELSE [row EXCEPT ![n] = r]
        /\ index' = Insert(without, r, n)
        /\ Done("update", ~fails)
  /\ UNCHANGED rows
UpdateRow(c, key, r) ==
  /\ key \in DOMAIN index[c]
  /\ LET n == index[c][key]
         without == Erase(index, row[n])
         fails == Find(without, r)
     IN /\ row' = IF fails THEN row ELSE [row EXCEPT ![n] = r]
        /\ index' = Insert(without, row'[n], n)
        /\ Done("update", ~fails)
  /\ UNCHANGED rows

(* update with changes returns false whether or not it changed the row.     *)
Changed(r, ch) == [c \in DOMAIN r |-> IF ch[c] = Unchanged THEN r[c] ELSE ch[c]]
UpdateChanges(c, key, ch) ==
  /\ key \in DOMAIN index[c]
  /\ LET n == index[c][key]
         without == Erase(index, row[n])
     IN /\ row' = IF FindRelevant(without, ch) THEN row
                  ELSE [row EXCEPT ![n] = Changed(@, ch)]
        /\ index' = Insert(without, row'[n], n)
        /\ Done("changes", FALSE)
  /\ UNCHANGED rows
NotFound(c, key) == /\ key \notin DOMAIN index[c] /\ Done("find", FALSE)
                    /\ UNCHANGED <<rows, row, index>>

EraseKey(c, key) ==
  /\ key \in DOMAIN index[c]
  /\ LET n == index[c][key]
     IN /\ index' = Erase(index, row[n])
        /\ rows' = SelectSeq(rows, LAMBDA m : m # n)
        /\ row' = [row EXCEPT ![n] = NoRow]
  /\ Done("erase", TRUE)

(* eraseIf: row by row, from the first to the last.                         *)
EraseIf(note) ==
  /\ LET step(t, n) == IF row[n].note = note
                       THEN [rows |-> SelectSeq(t.rows, LAMBDA m : m # n),
                             row |-> [t.row EXCEPT ![n] = NoRow],
                             index |-> Erase(t.index, t.row[n])] ELSE t
         t == FoldLeft(step, [rows |-> rows, row |-> row, index |-> index], rows)
     IN rows' = t.rows /\ row' = t.row /\ index' = t.index
  /\ Done("erase", TRUE)

Clear == /\ rows' = <<>> /\ row' = [n \in Places |-> NoRow]
         /\ index' = IF rows = <<>> THEN index ELSE [c \in Indexed |-> <<>>]
         /\ Done("erase", TRUE)

Next ==
  \/ \E r \in Row : InsertRow(r) \/ \E c \in Indexed, k \in Keys \cup Names : UpdateRow(c, k, r)
  \/ \E c \in Indexed, k \in Keys \cup Names :
       NotFound(c, k) \/ EraseKey(c, k) \/ \E ch \in Change : UpdateChanges(c, k, ch)
  \/ \E note \in Notes : EraseIf(note)
  \/ Clear
Spec == Init /\ [][Next]_vars

-----------------------------------------------------------------------------
(* The iterators of where(): begin stands on the first row of the table     *)
(* whatever the condition says; the first row that meets it is looked for   *)
(* when the iterator is dereferenced, and after every step.                 *)
First(p, note) == Min({Len(rows) + 1} \cup {j \in p..Len(rows) : row[rows[j]].note = note})
RECURSIVE Walk(_, _)
Walk(p, note) == IF p > Len(rows) THEN <<>>
                 ELSE LET q == First(p, note) IN <<rows[q]>> \o Walk(First(q + 1, note), note)
Matches(note) == SelectSeq(rows, LAMBDA n : row[n].note = note)

TypeOK == /\ IsInjective(rows) /\ \A n \in ToSet(rows) : row[n] \in Row
          /\ \A c \in Indexed : Null \notin DOMAIN index[c]

(* The indexes know every row by each of its values that is not null, and   *)
(* nothing else: after each operation, also one that failed half-way.       *)
InStep == \A c \in Indexed :
            /\ DOMAIN index[c] = {row[n][c] : n \in ToSet(rows)} \ {Null}
            /\ \A k \in DOMAIN index[c] : index[c][k] \in ToSet(rows) /\ row[index[c][k]][c] = k

(* Two rows never have the same value in an indexed column.                 *)
UniqueKeys == \A c \in Indexed, m, n \in ToSet(rows) : row[m][c] = row[n][c] /\ row[m][c] # Null => m = n

(* Who is told that an insert or an update with a row failed finds the      *)
(* table as it was.                                                         *)
AllOrNothingStep ==
  last'[1] # "changes" /\ ~last'[2] => Values' = Values
AllOrNothing == [][AllOrNothingStep]_vars

(* A walk over the rows that meet a condition, of which there is one, meets *)
(* all of them in their order (where, select).                              *)
Selected == \A note \in Notes : Matches(note) # <<>> => Walk(1, note) = Matches(note)
=============================================================================
