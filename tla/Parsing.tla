------------------------------- MODULE Parsing ------------------------------
(***************************************************************************)
(* Parsers of tokens (ParseContext and Parser of brick-parse.h): parts     *)
(* that eat tokens or fail, what is built of them, where the context goes  *)
(* back to, and the failures it keeps for its report.                      *)
(***************************************************************************)
EXTENDS Integers, Sequences, FiniteSets, FiniteSetsExt, SequencesExt

CONSTANTS MaxTokens,  \* bound: tokens of a text
          MaxAttempts \* bound: parsers that run on one context

ParsingConstants == MaxTokens \in Nat /\ MaxAttempts \in Nat

VARIABLES tokens,   \* what the stream of tokens will deliver
          position, \* of the context; its window keeps all it took
          failures, \* the queue of the failures
          parsed,   \* history: what was accepted
          asked,    \* history: what was run
          failed    \* the failure left the parser

vars == <<tokens, position, failures, parsed, asked, failed>>

Ids == {"a", "b", "comma"}
Part(op, x, y) == [op |-> op, x |-> x, y |-> y]
Token(id) == [op |-> "token", id |-> id]
Tokens == {Token("a"), Token("b")}
Small == Tokens \cup {Part(op, Token("a"), Token("b")) : op \in {"sequence", "either"}}
(* many() of a parser that may accept nothing would not end.                *)
Eats == Small
Parts == Small \cup [op : {"sequence", "either", "arbitrary"}, x : Small, y : Small]
           \cup [op : {"maybe", "many", "list", "listWith"}, x : Eats, y : {Token("comma")}]

-----------------------------------------------------------------------------
(* fail(): of the failures the queue has on top the leftmost; those before  *)
(* the new one are dropped.                                                 *)
Fails(s) == [s EXCEPT !.ok = FALSE,
                      !.failures = Append(SelectSeq(@, LAMBDA p : p >= s.position), s.position)]
Succeeds(s) == [s EXCEPT !.ok = TRUE]
\* mutant: the context stays where the failure was
StayBack(s, position0) == Succeeds(s)
Back(s, position0) == [Succeeds(s) EXCEPT !.position = position0]

(* eat(): the next token, which is given back if it is another one.         *)
Seen(s, id) == s.position < Len(tokens) /\ tokens[s.position + 1] = id
Eat(id, s) == IF Seen(s, id) THEN [Succeeds(s) EXCEPT !.position = @ + 1] ELSE Fails(s)
NextToken(id, s) == IF Seen(s, id) THEN [Succeeds(s) EXCEPT !.position = @ + 1]
                    ELSE [s EXCEPT !.ok = FALSE]

(* What the parsers are built with; a failure is an exception, which maybe, *)
(* many and the list with a parser between its elements catch.              *)
RECURSIVE Run(_, _), Many(_, _), List(_, _, _), ListWith(_, _, _)
Maybe(g, s) == LET r == Run(g, s) IN [accepted |-> r.ok, to |-> IF r.ok THEN r ELSE Back(r, s.position)]
Many(g, s) == LET r == Run(g, s) IN IF r.ok THEN Many(g, r) ELSE Back(r, s.position)
List(g, sep, s) ==
  LET r == Run(g, s)
      n == NextToken(sep.id, r)
  IN IF ~r.ok THEN r ELSE IF n.ok THEN List(g, sep, n) ELSE Succeeds(n)
ListWith(g, sep, s) ==
  LET r == Run(g, s)
      n == Run(sep, r)
      more == ListWith(g, sep, n)
  IN IF ~r.ok THEN Back(r, s.position)
     ELSE IF ~n.ok \/ more.position = n.position THEN
            Back(IF n.ok THEN more ELSE n, r.position)
     ELSE more
Arbitrary(f, g, s) == Maybe(g, Maybe(f, Maybe(g, s).to).to).to
Run(g, s) ==
  CASE g.op = "token" -> Eat(g.id, s)
    [] g.op = "sequence" -> LET r == Run(g.x, s) IN IF r.ok THEN Run(g.y, r) ELSE r
    [] g.op = "either" -> LET m == Maybe(g.x, s) IN IF m.accepted THEN m.to ELSE Run(g.y, m.to)
    [] g.op = "maybe" -> Maybe(g.x, s).to
    [] g.op = "many" -> Many(g.x, s)
    [] g.op = "list" -> List(g.x, g.y, s)
    [] g.op = "listWith" -> ListWith(g.x, g.y, s)
    [] g.op = "arbitrary" -> Arbitrary(g.x, g.y, s)

-----------------------------------------------------------------------------
Init == /\ tokens \in BoundedSeq(Ids, MaxTokens)
        /\ position = 0 /\ failures = <<>> /\ parsed = <<>> /\ asked = <<>> /\ failed = FALSE

Parse(g) ==
  /\ ~failed /\ Len(asked) < MaxAttempts
  /\ LET r == Run(g, [ok |-> TRUE, position |-> position, failures |-> failures])
     IN /\ position' = r.position /\ failures' = r.failures /\ failed' = ~r.ok
        /\ parsed' = IF r.ok THEN Append(parsed, SubSeq(tokens, position + 1, r.position))
                     ELSE parsed
  /\ asked' = Append(asked, g)
  /\ UNCHANGED tokens

(* The user forgets the failures of what was parsed in the end.             *)
ClearErrors == /\ failures # <<>> /\ ~failed /\ failures' = <<>>
               /\ UNCHANGED <<tokens, position, parsed, asked, failed>>

Next == (\E g \in Parts : Parse(g)) \/ ClearErrors
Spec == Init /\ [][Next]_vars

-----------------------------------------------------------------------------
(* The words of the grammar that the parts stand for, whatever the order in *)
(* which the parser tries them.                                             *)
RECURSIVE Word(_, _)
Splits(w) == {<<SubSeq(w, 1, n), SubSeq(w, n + 1, Len(w))>> : n \in 0..Len(w)}
Word(g, w) ==
  CASE g.op = "token" -> w = <<g.id>>
    [] g.op = "sequence" -> \E p \in Splits(w) : Word(g.x, p[1]) /\ Word(g.y, p[2])
    [] g.op = "either" -> Word(g.x, w) \/ Word(g.y, w)
    [] g.op = "maybe" -> w = <<>> \/ Word(g.x, w)
    [] g.op = "many" -> w = <<>> \/ \E p \in Splits(w) :
                          p[1] # <<>> /\ Word(g.x, p[1]) /\ Word(g, p[2])
    [] g.op = "list" -> Word(g.x, w) \/ \E p \in Splits(w), q \in Splits(w) :
                          /\ Len(q[1]) = Len(p[1]) + 1 /\ Word(g.x, p[1])
                          /\ w[Len(q[1])] = g.y.id /\ Word(g, q[2])
    [] g.op = "listWith" -> w = <<>> \/ Word([g EXCEPT !.op = "list"], w)
    [] g.op = "arbitrary" -> \E p \in Splits(w) : \E q \in Splits(p[2]) :
                               /\ p[1] = <<>> \/ Word(g.y, p[1])
                               /\ q[1] = <<>> \/ Word(g.x, q[1])
                               /\ q[2] = <<>> \/ Word(g.y, q[2])

(* The context stands within what was taken, and the failures it keeps are  *)
(* at tokens it has seen (rewind, error).                                   *)
TypeOK == /\ position \in 0..Len(tokens)
          /\ \A i \in DOMAIN failures : failures[i] \in 0..Len(tokens)

(* What a parser accepts is a word of its grammar, and what one that failed *)
(* took on its way is given back (maybe, many, list).                       *)
Sound == /\ \A i \in DOMAIN parsed : Word(asked[i], parsed[i])
         /\ ~failed => FlattenSeq(parsed) = SubSeq(tokens, 1, position)

(* A parser that fails reports the place it did not get beyond: no failure  *)
(* that is left of the last one stays (fail, errors).                       *)
Reported == failed => /\ failures # <<>>
                      /\ \A i \in DOMAIN failures : failures[i] >= failures[Len(failures)]

(* brick-parse.h:522: any ordering of the parsers is accepted.              *)
AnyOrder ==
  \A i \in DOMAIN parsed : asked[i].op = "arbitrary" /\ {asked[i].x, asked[i].y} = Tokens =>
    LET from == Len(FlattenSeq(SubSeq(parsed, 1, i - 1)))
        w == SubSeq(tokens, from + 1, Min({from + 2, Len(tokens)}))
    IN Len(w) = 2 /\ ToSet(w) = {"a", "b"} => Len(parsed[i]) >= 2
=============================================================================
