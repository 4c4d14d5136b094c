------------------------------- MODULE Lexing -------------------------------
(***************************************************************************)
(* Text to tokens (Lexer of brick-parse.h): a window over a stream that is *)
(* read in blocks, patterns that are tried one after the other, the        *)
(* longest match of all, and where in the text it stands.  The search for  *)
(* an end keeps an iterator while the window grows, which the standard     *)
(* does not allow: what it compares from then on is left open here.        *)
(***************************************************************************)
EXTENDS Integers, Sequences, FiniteSetsExt, SequencesExt

CONSTANTS MaxText, \* bound: characters of the text
          Blocks   \* how many characters a stream delivers at a time

LexingConstants == MaxText \in Nat /\ Blocks \subseteq Nat \ {0}

VARIABLES text, block, \* what there is to read, and in which pieces
          rest, ended, \* the stream: what is left, and whether it knows that it is at its end
          window, current, match, \* the lexer
          pc, tokens   \* the user's lexer, and what it found

vars == <<text, block, rest, ended, window, current, match, pc, tokens>>

Chars == {"a", "1", "/", " ", "newline"}
Space(c) == c \in {" ", "newline"}
Digit(c) == c = "1"
NoMatch == [id |-> "invalid", data |-> <<>>, valid |-> TRUE, line |-> 0, column |-> 0]
Start == [line |-> 1, column |-> 1]

(* What remove() of a lexer tries, in its order.                            *)
Patterns == <<[id |-> "pair", kind |-> "word", from |-> <<"1", "1">>, to |-> <<>>],
              [id |-> "number", kind |-> "class", from |-> <<>>, to |-> <<>>],
              [id |-> "comment", kind |-> "between", from |-> <<"/">>, to |-> <<"/", "a">>]>>

-----------------------------------------------------------------------------
(* ensure_window: whole blocks until there are n characters, or the stream  *)
(* delivered less than a block, which is when it knows that it ended.       *)
Missing(n) == IF ended \/ n <= Len(window) THEN 0
              ELSE block * ((n - Len(window) + block - 1) \div block)
Filled(n) == window \o SubSeq(rest, 1, Min({Missing(n), Len(rest)}))
Fill(n) == /\ window' = Filled(n)
           /\ rest' = SubSeq(rest, Missing(n) + 1, Len(rest))
           /\ ended' = (ended \/ Missing(n) > Len(rest))

(* consume: the place moves with every character.                           *)
Step(place, c) == IF c = "newline" THEN [line |-> place.line + 1, column |-> 1]
                  ELSE [place EXCEPT !.column = @ + 1]
Consume(n) == /\ current' = FoldLeft(Step, current, SubSeq(window, 1, n))
              /\ window' = SubSeq(window, n + 1, Len(window))

(* keep: a later pattern must match more than an earlier one.  valid is     *)
(* history: FALSE if it was found with an iterator that was invalid.        *)
Keep(id, data, valid) ==
  match' = IF Len(data) > Len(match.data)
           THEN [id |-> id, data |-> data, valid |-> valid] @@ current ELSE match

Init == /\ text \in BoundedSeq(Chars, MaxText) /\ block \in Blocks
        /\ rest = text /\ ended = FALSE
        /\ window = <<>> /\ current = Start /\ match = NoMatch
        /\ pc = 0 /\ tokens = <<>>

-----------------------------------------------------------------------------
(* skipWhile asks for a character when the window or the stream has one, as *)
(* far as the stream knows; window() asserts that it came.                  *)
SkipSpace ==
  /\ pc = 0 /\ ~(window = <<>> /\ ended)
  /\ \/ /\ window = <<>> /\ Fill(1)
        /\ pc' = IF window' = <<>> THEN Len(Patterns) + 2 ELSE 0
        /\ UNCHANGED current
     \/ /\ window # <<>> /\ Space(Head(window)) /\ Consume(1)
        /\ UNCHANGED <<pc, rest, ended>>
     \/ /\ window # <<>> /\ ~Space(Head(window)) /\ pc' = 1
        /\ UNCHANGED <<window, current, rest, ended>>
  /\ UNCHANGED <<text, block, match, tokens>>
NothingLeft == /\ pc = 0 /\ window = <<>> /\ ended /\ pc' = 1
               /\ UNCHANGED <<text, block, rest, ended, window, current, match, tokens>>

(* The three kinds of match(); the window grows by what is looked at.       *)
All == window \o rest
MatchWord(p) ==
  /\ Fill(Len(p.from))
  /\ IF IsPrefix(p.from, window') THEN Keep(p.id, p.from, TRUE) ELSE UNCHANGED match

RunOf(s) == Max({n \in 0..Len(s) : \A i \in 1..n : Digit(s[i])})
MatchClass(p) ==
  LET n == RunOf(All)
  IN /\ Fill(n + 1)
     /\ IF n > 0 THEN Keep(p.id, SubSeq(window', 1, n), TRUE) ELSE UNCHANGED match

(* The iterator `where` is good for the window as it is when `from` has     *)
(* matched.  The first shift() of the loop invalidates it (push_back of a   *)
(* deque), and each comparison after that may come out either way: the end  *)
(* is found at any place not compared before, or nowhere.  (With libstdc++  *)
(* it comes out right until the deque moves its table of blocks.)           *)
Compared(p, s) == Len(p.from)..Len(s) - Len(p.to)
Closings(p, s) == {n \in Compared(p, s) : SubSeq(s, n + 1, n + Len(p.to)) = p.to}
Ends(p, n, valid) ==
  /\ Fill(n + Len(p.to)) /\ Keep(p.id, SubSeq(All, 1, n + Len(p.to)), valid)
NoEnd == Fill(Len(All) + 1) /\ UNCHANGED match
MatchBetween(p) ==
  LET seen == Filled(Len(p.from))
      late == Compared(p, All) \ Compared(p, seen)
  IN \/ /\ ~IsPrefix(p.from, seen)
        /\ Fill(Len(p.from)) /\ UNCHANGED match
     \/ /\ IsPrefix(p.from, seen)
        /\ IF Closings(p, seen) # {} THEN Ends(p, Min(Closings(p, seen)), TRUE)
           ELSE NoEnd \/ \E n \in late : Ends(p, n, FALSE)

Match ==
  /\ pc \in 1..Len(Patterns)
  /\ LET p == Patterns[pc]
     IN \/ p.kind = "word" /\ MatchWord(p)
        \/ p.kind = "class" /\ MatchClass(p)
        \/ p.kind = "between" /\ MatchBetween(p)
  /\ pc' = pc + 1
  /\ UNCHANGED <<text, block, current, tokens>>

(* decide takes the match out of the window and forgets it; the user stops  *)
(* at the first token that is not valid.                                    *)
Decide ==
  /\ pc = Len(Patterns) + 1 /\ Consume(Len(match.data))
  /\ tokens' = Append(tokens, match) /\ match' = NoMatch
  /\ pc' = IF match = NoMatch THEN Len(Patterns) + 3 ELSE 0
  /\ UNCHANGED <<text, block, rest, ended>>

Next == SkipSpace \/ NothingLeft \/ Match \/ Decide
Spec == Init /\ [][Next]_vars

-----------------------------------------------------------------------------
(* The window and the stream are what is left of the text, and the place is *)
(* where it begins.                                                         *)
Found == SelectSeq(tokens, LAMBDA t : t # NoMatch)
Place(t) == [line |-> 1 + Len(SelectSeq(t, LAMBDA c : c = "newline")),
             column |-> 1 + Len(t) - Max({0} \cup {i \in DOMAIN t : t[i] = "newline"})]
Where(t) == CHOOSE i \in 0..Len(text) :
              Place(SubSeq(text, 1, i)) = [line |-> t.line, column |-> t.column]
TypeOK == /\ IsSuffix(window \o rest, text)
          /\ Place(SubSeq(text, 1, Len(text) - Len(All))) = current
          /\ match.id \in {"invalid", "pair", "number", "comment"}

(* Every token stands in the text where it says, and between one and the    *)
(* next there is nothing but space (consume, skipWhile, decide): also when  *)
(* the end of one was found in the wrong place.                             *)
Split ==
  \A i \in DOMAIN Found :
    LET t == Found[i]
        from == IF i = 1 THEN 0 ELSE Where(Found[i - 1]) + Len(Found[i - 1].data)
    IN /\ from <= Where(t) /\ Where(t) + Len(t.data) <= Len(text)
       /\ SubSeq(text, Where(t) + 1, Where(t) + Len(t.data)) = t.data
       /\ \A j \in from + 1..Where(t) : Space(text[j])

(* A token is the longest that any pattern matches there, of the first of   *)
(* the patterns that match as much, wherever the blocks of the stream end:  *)
(* but for one that the search for an end came upon with an iterator that   *)
(* the growing window had invalidated (match, ensure_window).               *)
Longest(s) == Max({0, RunOf(s)} \cup (IF IsPrefix(<<"1", "1">>, s) THEN {2} ELSE {})
                    \cup (IF IsPrefix(<<"/">>, s)
                          THEN {n \in 3..Len(s) : SubSeq(s, n - 1, n) = <<"/", "a">> /\
                                  \A k \in 3..n - 1 : SubSeq(s, k - 1, k) # <<"/", "a">>}
                          ELSE {}))
Munched ==
  \A i \in DOMAIN Found : Found[i].valid =>
    LET t == Found[i]
    IN /\ Len(t.data) = Longest(SubSeq(text, Where(t) + 1, Len(text)))
       /\ t.data = <<"1", "1">> => t.id = "pair"
=============================================================================
