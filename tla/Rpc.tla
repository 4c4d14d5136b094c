--------------------------------- MODULE Rpc --------------------------------
(***************************************************************************)
(* Calls of methods written to a stream of words and carried out at its    *)
(* other end (brick-rpc.h): the bitblock, how values become words, the     *)
(* numbers of the methods, and the arguments between stream and call.      *)
(***************************************************************************)
EXTENDS Integers, Sequences, SequencesExt

CONSTANTS Binary,  \* whether there are methods with two arguments
          MaxCalls \* bound: calls that are made

RpcConstants == Binary \in BOOLEAN /\ MaxCalls \in Nat

VARIABLES bits, offset, \* the block of the calls
          answers,      \* the deque of the results
          sent,         \* history: the calls that were written
          invoked,      \* history: the calls that were carried out
          received      \* history: the results that were read

vars == <<bits, offset, answers, sent, invoked, received>>

(* Methods of a class and of one derived from it: the list of the class     *)
(* comes before the list of the derived one, so that its numbers stay.      *)
Method(name, args, result) == [name |-> name, args |-> args, result |-> result]
BaseMethods == <<Method("reset", <<>>, "void"), Method("put", <<"int">>, "int")>>
              \o (IF Binary THEN <<Method("move", <<"int", "vector">>, "int")>> ELSE <<>>)
OwnMethods == <<Method("seek", <<"long">>, "long"), Method("load", <<"vector">>, "vector")>>
Derived == BaseMethods \o OwnMethods

Word == 1..2
Value(type) == CASE type = "int" -> Word
                 [] type = "long" -> Word \X Word  \* its lower and its higher half
                 [] type = "vector" -> BoundedSeq(Word, 2)
Lists(types) ==
  CASE Len(types) = 0 -> {<<>>}
    [] Len(types) = 1 -> {<<v>> : v \in Value(types[1])}
    [] Len(types) = 2 -> {<<v, w>> : v \in Value(types[1]), w \in Value(types[2])}

-----------------------------------------------------------------------------
(* operator <<: an integer of 64 bits is two words; the size of a container *)
(* is one.                                                                  *)
Size(n) == <<n, 0>>
Write(type, v) == CASE type = "int" -> <<v>>
                    [] type = "long" -> v
                    [] type = "vector" -> Size(Len(v)) \o v
WriteAll(types, args) == FlattenSeq([i \in DOMAIN types |-> Write(types[i], args[i])])

(* operator >>: how many words a value takes from the stream, and what it   *)
(* is.                                                                      *)
Takes(type, words) == CASE type = "int" -> 1 [] type = "long" -> 2
                        [] type = "vector" -> 2 + words[1]
\* mutant: what is read is put in front
ReadInFront(type, words) ==
  CASE type = "int" -> words[1]
    [] type = "long" -> <<words[1], words[2]>>
    [] type = "vector" -> Reverse(SubSeq(words, 3, 2 + words[1]))
Read(type, words) == CASE type = "int" -> words[1]
                       [] type = "long" -> <<words[1], words[2]>>
                       [] type = "vector" -> SubSeq(words, 3, 2 + words[1])
From(s, n) == SubSeq(s, n + 1, Len(s))
Readable(type, words) ==
  /\ words # <<>>
  /\ type # "int" => Len(words) > 1 /\ Len(words) >= Takes(type, words)

(* read_and_invoke puts what it reads in front of what it read before.      *)
ReadNext(state, type) ==
  [rest |-> From(state.rest, Takes(type, state.rest)),
   args |-> <<Read(type, state.rest)>> \o state.args]
ReadAll(types, words) == FoldLeft(ReadNext, [rest |-> words, args |-> <<>>], types)

-----------------------------------------------------------------------------
(* The block is a vector and the place of its first word; it is emptied     *)
(* when everything was taken.                                               *)
Content == From(bits, offset)
Shift(n) == IF offset + n = Len(bits) THEN bits' = <<>> /\ offset' = 0
            ELSE bits' = bits /\ offset' = offset + n

Init == /\ bits = <<>> /\ offset = 0 /\ answers = <<>>
        /\ sent = <<>> /\ invoked = <<>> /\ received = <<>>

(* marshall: the number of the method in the list of the class the caller   *)
(* knows, and the arguments.                                                *)
Lookup(name, list) == CHOOSE i \in DOMAIN list : list[i].name = name
Marshall(list, m) ==
  /\ Len(sent) < MaxCalls
  /\ \E args \in Lists(m.args) :
       /\ bits' = bits \o <<Lookup(m.name, list)>> \o WriteAll(m.args, args)
       /\ sent' = Append(sent, [name |-> m.name, args |-> args])
  /\ UNCHANGED <<offset, answers, invoked, received>>

(* demarshall: the derived class carries the call out and writes what it    *)
(* returns; here a method returns its argument.  The arguments are passed   *)
(* on in the order of the list: two of them, of types that do not convert   *)
(* into each other, fit no method, and invoke_with_list has nothing to call.*)
Result(m, args) == IF m.result = "void" THEN <<>> ELSE Write(m.result, args[1])
Matched(args) == Len(args) < 2
Invoke(m, args) ==
  /\ invoked' = Append(invoked, [name |-> IF Matched(args) THEN m.name ELSE "failed to match",
                                 args |-> args])
  /\ answers' = answers \o (IF Matched(args) THEN Result(m, args) ELSE <<>>)
Demarshall ==
  /\ Content # <<>>
  /\ LET m == Derived[Head(Content)]
         done == ReadAll(m.args, Tail(Content))
     IN /\ Shift(Len(Content) - Len(done.rest))
        /\ Invoke(m, done.args)
  /\ UNCHANGED <<sent, received>>

(* The caller reads the results of its calls, in their order, once they     *)
(* have come.                                                               *)
MethodOf(call) == Derived[Lookup(call.name, Derived)]
Asked == SelectSeq(sent, LAMBDA c : MethodOf(c).result # "void")
Receive ==
  /\ Len(received) < Len(Asked)
  /\ LET type == MethodOf(Asked[Len(received) + 1]).result
     IN /\ Readable(type, answers)
        /\ received' = Append(received, Read(type, answers))
        /\ answers' = From(answers, Takes(type, answers))
  /\ UNCHANGED <<bits, offset, sent, invoked>>

Next ==
  \/ \E i \in DOMAIN BaseMethods : Marshall(BaseMethods, BaseMethods[i])
  \/ \E i \in DOMAIN OwnMethods : Marshall(Derived, OwnMethods[i])
  \/ Demarshall \/ Receive
Spec == Init /\ [][Next]_vars

-----------------------------------------------------------------------------
(* The block is empty, or the place is within it.                           *)
TypeOK == /\ offset <= Len(bits) /\ (offset = Len(bits) => bits = <<>>)
          /\ Len(invoked) <= Len(sent) /\ Len(received) <= Len(invoked)

(* The calls are carried out as they were made, in their order, also those  *)
(* of a caller who knows only the base class (marshall, demarshall).        *)
Faithful == invoked = SubSeq(sent, 1, Len(invoked))

(* The caller reads of each call what it returned (operator << and >>).     *)
OwnResults == \A i \in DOMAIN received : received[i] = Asked[i].args[1]
=============================================================================
