------------------------------ MODULE Settings ------------------------------
(***************************************************************************)
(* Meta::block writes the settings of a run into a block of memory and     *)
(* Meta( block, size ) reads them back, both through a View, which keeps a *)
(* place and how much is left.  Bytes are modelled by the value they       *)
(* belong to; a size_t holds a size.  The block is too small: its size     *)
(* leaves out sizeof( detach ), and the end of the last value is written   *)
(* behind it.  Nothing calls block() yet (demo.cpp:58 is a comment).       *)
(***************************************************************************)
EXTENDS Integers, Sequences, SequencesExt, FiniteSetsExt

CONSTANTS Enum, Num, Bool, SizeT, \* sizes of the types: 4, 4, 1 and 8 in the code
          MaxLength,              \* bound: of a string
          MaxHosts                \* bound: hosts

SettingsConstants ==
  /\ {Enum, Num, Bool, SizeT} \subseteq Nat \ {0} /\ {MaxLength, MaxHosts} \subseteq Nat

VARIABLES meta,   \* the settings
          memory, \* what was written, and where, in its order
          view,   \* the View, and whether what is behind the block is still there
          todo,   \* the values that have yet to be written or read
          back    \* the settings that were read

vars == <<meta, memory, view, todo, back>>

(* A string is its length; a vector of strings is a sequence of lengths.    *)
Lengths == 0..MaxLength
Fields == [port : Lengths, logFile : Lengths,
           hosts : UNION {[1..n -> Lengths] : n \in 0..MaxHosts}]

(* The values of fixed size, in the order of the chain of set and get.      *)
Scalars == <<<<"command", Enum>>, <<"algorithm", Enum>>, <<"threads", Num>>,
             <<"workLoad", Num>>, <<"selection", Num>>, <<"detach", Bool>>>>

(* The size of the block: block adds up all of them but detach.             *)
Total(m) ==
  2 * Enum + 3 * Num + SizeT + m.port + SizeT + m.logFile
  + SizeT + FoldSeq(LAMBDA l, n : n + SizeT + l, 0, m.hosts)

(* The calls of set and get: a scalar, a string, the size of the vector.    *)
String(l) == [kind |-> "string", value |-> l, size |-> SizeT]
Scalar(v, n) == [kind |-> "scalar", value |-> v, size |-> n]
Calls(m) ==
  [i \in 1..Len(Scalars) |-> Scalar(Scalars[i][1], Scalars[i][2])]
  \o <<String(m.port), String(m.logFile), Scalar(Len(m.hosts), SizeT)>>
  \o [i \in 1..Len(m.hosts) |-> String(m.hosts[i])]

Init ==
  /\ meta \in Fields /\ meta.port > 0
  /\ memory = <<>> /\ back = <<>>
  /\ view = [pc |-> "set", place |-> 0, limit |-> Total(meta), kept |-> TRUE]
  /\ todo = Calls(meta)

Default == -1    \* a string that was not read
Next1(v) == /\ todo' = Tail(todo) /\ view' = v

-----------------------------------------------------------------------------
(* set: what does not fit is left out.  The characters of a string are not  *)
(* counted.                                                                 *)
Text(c) == IF c.kind = "string" THEN c.value ELSE 0
Set(c) ==
  /\ memory' = IF c.size <= view.limit THEN Append(memory, [call |-> c, at |-> view.place])
               ELSE memory
  /\ Next1(IF c.size <= view.limit
           THEN [view EXCEPT !.place = @ + c.size + Text(c), !.limit = @ - c.size] ELSE view)

(* What lies behind the block is somebody else's, who may have written to   *)
(* it when the block is read, or it was not sent along with the block.      *)
Turn ==
  /\ view.pc = "set" /\ todo = <<>>
  /\ \E kept \in BOOLEAN :
       view' = [pc |-> "get", place |-> 0, limit |-> Total(meta), kept |-> kept]
  /\ todo' = Calls(meta)
  /\ UNCHANGED <<meta, memory, back>>

Place(e) == e.at + e.call.size
End(e) == Place(e) + Text(e.call)

(* get: here the sizes are not counted, but the characters are, and they    *)
(* are compared with what is left.  A number with a strange last byte is    *)
(* larger than that.                                                        *)
Garbled == -2
Found(e) ==
  CASE view.kept \/ End(e) <= Total(meta) -> e.call
    [] ~view.kept /\ Place(e) > Total(meta) -> [e.call EXCEPT !.value = Default]
    [] OTHER -> [e.call EXCEPT !.value = Garbled]
Get(c) ==
  LET e == memory[Len(back) + 1]
      found == e.call
      fits == found.size <= view.limit /\ Text(found) <= view.limit
  IN /\ back' = Append(back, IF fits THEN Found(e) ELSE [found EXCEPT !.value = Default])
     /\ Next1([view EXCEPT !.place = @ + found.size + (IF fits THEN Text(found) ELSE 0),
                           !.limit = @ - (IF fits THEN Text(found) ELSE 0)])

Next ==
  \/ view.pc = "set" /\ todo # <<>> /\ Set(Head(todo)) /\ UNCHANGED <<meta, back>>
  \/ Turn
  \/ view.pc = "get" /\ todo # <<>> /\ Get(Head(todo)) /\ UNCHANGED <<meta, memory>>
Spec == Init /\ [][Next]_vars

-----------------------------------------------------------------------------
TypeOK ==
  /\ meta \in Fields /\ view.limit \in 0..Total(meta) /\ Len(back) <= Len(memory)
  /\ view.pc = "get" => Len(memory) = Len(Calls(meta))

(* What is read from the block is what was written into it, although        *)
(* neither way keeps an exact account of what is left (View::set, get): all *)
(* of it when nobody touched the bytes behind the block, and else all but   *)
(* the last value, whose end lies there.                                    *)
ReadBack ==
  view.pc = "get" /\ todo = <<>> =>
    /\ Len(back) = Len(Calls(meta))
    /\ \A i \in DOMAIN back : back[i] = Calls(meta)[i] \/ (~view.kept /\ i = Len(back))

(* Writing goes beyond the block, by as much as its size leaves out and no  *)
(* further, and that is the end of the last value alone (Meta::block).      *)
Overrun ==
  view.pc = "set" =>
    /\ view.place <= Total(meta) + Bool
    /\ todo = <<>> => view.place = Total(meta) + Bool
    /\ \A i \in 1..(Len(memory) - 1) : End(memory[i]) <= Total(meta)
=============================================================================
