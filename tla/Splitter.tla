------------------------------ MODULE Splitter ------------------------------
(***************************************************************************)
(* Iterations of a Splitter of the string brick: each iterator cuts tokens *)
(* off the rest of its own text, and all of them use the one Regexp of the *)
(* splitter and the place in it where a match is left.  A comment in the   *)
(* code allows one iteration of a splitter at a time (brick-string.h:428), *)
(* for that reason; here the program makes several by turns, one call of   *)
(* an iterator after the other, to see what the code itself needs.         *)
(***************************************************************************)
EXTENDS Integers, Sequences, FiniteSets, FiniteSetsExt, SequencesExt

CONSTANTS Iterators, \* iterations that the program makes by turns
          MaxText    \* bound: characters of a text

SplitterConstants == MaxText \in Nat

VARIABLES pattern, \* of the Regexp
          pmatch,  \* where it matched last
          text,    \* what each iterator splits
          rest,    \* first character of its next
          cur,     \* its current token: first and last character
          matched, \* does its match() say that there is a match
          pc,      \* "begin", "match", "cut", "test", "ended"
          taken    \* history: the tokens it gave

vars == <<pattern, pmatch, text, rest, cur, matched, pc, taken>>

Letter == "a"
Comma == ","
\* of a comma, of some, of any number of them
Patterns == {"one", "some", "any"}
Nowhere == [start |-> 0, length |-> 0]
Empty == [first |-> 1, last |-> 0]

Init ==
  /\ pattern \in Patterns /\ pmatch = Nowhere
  /\ text \in [Iterators -> BoundedSeq({Letter, Comma}, MaxText)]
  /\ rest = [i \in Iterators |-> 1] /\ cur = [i \in Iterators |-> Empty]
  /\ matched = [i \in Iterators |-> FALSE]
  /\ pc = [i \in Iterators |-> "begin"] /\ taken = [i \in Iterators |-> <<>>]

-----------------------------------------------------------------------------
(* The leftmost match of the pattern, and there the longest.                *)
CommasAt(t, p) == Min({j \in p..Len(t) : t[j] # Comma} \cup {Len(t) + 1}) - p
Commas(t, p) == {j \in p..Len(t) : t[j] = Comma}
Match(t, p) ==
  CASE pattern = "any" -> [start |-> p, length |-> CommasAt(t, p)]
    [] pattern = "one" -> [start |-> Min(Commas(t, p)), length |-> 1]
    [] pattern = "some" -> [start |-> Min(Commas(t, p)), length |-> CommasAt(t, Min(Commas(t, p)))]

(* The program runs one operation of an iterator at a time.                 *)
Turn(i) == \A j \in Iterators \ {i} : pc[j] # "cut"

Begin(i) ==
  /\ Turn(i) /\ pc[i] = "begin"
  /\ pc' = [pc EXCEPT ![i] = "match"]
  /\ UNCHANGED <<pattern, pmatch, text, rest, cur, matched, taken>>

\* mutant: what was matched last time is not looked for again
matchOnce(i) ==
  /\ Turn(i) /\ pc[i] = "match"
  /\ matched' = [matched EXCEPT ![i] = pattern = "any" \/ Commas(text[i], rest[i]) # {}]
  /\ pmatch' = IF ~matched'[i] \/ (pmatch # Nowhere /\ pmatch.start >= rest[i]) THEN pmatch
               ELSE Match(text[i], rest[i])
  /\ pc' = [pc EXCEPT ![i] = "cut"]
  /\ UNCHANGED <<pattern, text, rest, cur, taken>>
match(i) ==
  /\ Turn(i) /\ pc[i] = "match"
  /\ matched' = [matched EXCEPT ![i] = pattern = "any" \/ Commas(text[i], rest[i]) # {}]
  /\ pmatch' = IF matched'[i] THEN Match(text[i], rest[i]) ELSE pmatch
  /\ pc' = [pc EXCEPT ![i] = "cut"]
  /\ UNCHANGED <<pattern, text, rest, cur, taken>>

(* The three ways of operator++: a separator, a match of nothing, which     *)
(* splits off one character, and no match.                                  *)
More(i) == rest[i] <= Len(text[i])
Token(first, last) == IF last < first THEN Empty ELSE [first |-> first, last |-> last]
Cut(i) == /\ cur' = [cur EXCEPT ![i] = Token(rest[i], pmatch.start - 1)]
          /\ rest' = [rest EXCEPT ![i] = pmatch.start + pmatch.length]
One(i) == IF More(i) THEN /\ cur' = [cur EXCEPT ![i] = Token(rest[i], rest[i])]
                          /\ rest' = [rest EXCEPT ![i] = @ + 1]
          ELSE cur' = [cur EXCEPT ![i] = Empty] /\ UNCHANGED rest
All(i) == /\ cur' = [cur EXCEPT ![i] = Token(rest[i], Len(text[i]))]
          /\ rest' = [rest EXCEPT ![i] = Len(text[i]) + 1]
increment(i) ==
  /\ pc[i] = "cut"
  /\ \/ matched[i] /\ pmatch.length > 0 /\ Cut(i)
     \/ matched[i] /\ pmatch.length = 0 /\ One(i)
     \/ ~matched[i] /\ All(i)
  /\ pc' = [pc EXCEPT ![i] = "test"]
  /\ UNCHANGED <<pattern, pmatch, text, matched, taken>>

(* It is compared with end(), both of whose strings are empty.              *)
AtEnd(i) == cur[i] = Empty /\ ~More(i)
Take(i) ==
  /\ Turn(i) /\ pc[i] = "test" /\ ~AtEnd(i)
  /\ taken' = [taken EXCEPT ![i] = Append(@, [token |-> cur[i], rest |-> rest[i]])]
  /\ Len(taken[i]) <= MaxText
  /\ pc' = [pc EXCEPT ![i] = "match"]
  /\ UNCHANGED <<pattern, pmatch, text, rest, cur, matched>>
End(i) ==
  /\ Turn(i) /\ pc[i] = "test" /\ AtEnd(i)
  /\ pc' = [pc EXCEPT ![i] = "ended"]
  /\ UNCHANGED <<pattern, pmatch, text, rest, cur, matched, taken>>

Next == \E i \in Iterators : Begin(i) \/ match(i) \/ increment(i) \/ Take(i) \/ End(i)
Spec == Init /\ [][Next]_vars
             /\ \A i \in Iterators : WF_vars(Begin(i) \/ match(i) \/ increment(i) \/ Take(i) \/ End(i))

-----------------------------------------------------------------------------
(* Tokens and rests lie within the text of their iterator.                  *)
TypeOK ==
  \A i \in Iterators :
    /\ rest[i] \in 1..(Len(text[i]) + 1)
    /\ cur[i] = Empty \/ (1 <= cur[i].first /\ cur[i].first <= cur[i].last /\ cur[i].last < rest[i])

(* What lies between two tokens, and before the rest, is one separator; a   *)
(* token has none. The match of the other iterator is never taken for it.   *)
Is(i, j, x) == j <= Len(text[i]) /\ text[i][j] = x
Before(i, n) == IF n = 1 THEN 1 ELSE taken[i][n - 1].rest
Separated ==
  \A i \in Iterators : \A n \in DOMAIN taken[i] :
    LET t == taken[i][n].token
        from == IF t = Empty THEN Before(i, n) ELSE t.last + 1
        sep == from..(taken[i][n].rest - 1)
    IN /\ t # Empty => t.first = Before(i, n)
       /\ \A j \in sep : Is(i, j, Comma)
       /\ pattern # "any" => \A j \in t.first..t.last : Is(i, j, Letter)
       /\ pattern = "any" => t.first >= t.last /\ (t = Empty \/ sep = {})
       /\ pattern = "one" => Cardinality(sep) = (IF from <= Len(text[i]) THEN 1 ELSE 0)
       /\ pattern = "some" /\ taken[i][n].rest <= Len(text[i]) => sep # {} /\ text[i][taken[i][n].rest] = Letter

(* An iteration that ended gave every letter.                               *)
Complete ==
  \A i \in Iterators : pc[i] = "ended" =>
    \A j \in 1..Len(text[i]) : text[i][j] = Letter =>
      \E n \in DOMAIN taken[i] : taken[i][n].token.first <= j /\ j <= taken[i][n].token.last

(* Every iteration ends.                                                    *)
AllEnded == \A i \in Iterators : pc[i] = "ended"
Ends == <>AllEnded
=============================================================================
