------------------------------- MODULE Storage ------------------------------
(***************************************************************************)
(* The memory of messages (brick::net::OutputMessage, InputMessage).  A    *)
(* message owns its header only: its places point to variables of the      *)
(* program, to copies the output message made of constants, or to blocks   *)
(* that an allocator gave for what arrived.  One message at a time is on   *)
(* the line; that it arrives as a whole, or not, is Framing's business.    *)
(***************************************************************************)
EXTENDS Integers, Sequences, FiniteSets, FiniteSetsExt, SequencesExt

CONSTANTS Data,     \* variables of the sender, named by their size
          Strings,  \* strings of the receiver; its other variables are as the sender's
          Segments, \* SEGMENTS
          MaxBlocks \* bound: blocks of the allocator, those that are lost included

StorageConstants ==
  Data \subseteq Nat \ {0} /\ Segments \in Nat \ {0} /\ MaxBlocks \in Nat

VARIABLES value,  \* sender: variable |-> what it holds
          out,    \* places of the output message, without the header's
          wire,   \* the message on the line, or NoMessage
          count, sizes, places, \* the input message: header and places
          held,   \* receiver: destination |-> what it holds
          block,  \* block |-> [state, size, value]
          call,   \* what the receiver does: [pc, op]
          \* history
          meant,  \* what the message that is being received should carry
          applied,\* what the applicator was given
          fresh,  \* the input message was not used since it was made or cleared
          misused \* written to or freed what was not there

vars == <<value, out, wire, count, sizes, places, held, block, call, meant, applied, fresh, misused>>
sender == <<value, out>>
message == <<count, sizes, places>>

NoMessage == [on |-> FALSE, segments |-> <<>>]
Rest == [pc |-> "rest", op |-> "none"]
Piece(size, v) == [size |-> size, value |-> v]
Nothing == Piece(0, 0)
Unused == [state |-> "free", size |-> 0, value |-> 0]
Variable(d) == [kind |-> "variable", n |-> d]
String(s) == [kind |-> "string", n |-> s]
Text(s) == [kind |-> "text", n |-> s]  \* the characters of a string
Block(b) == [kind |-> "block", n |-> b]
Destinations == {Variable(d) : d \in Data} \cup {Text(s) : s \in Strings}

Init ==
  /\ value = [d \in Data |-> 0] /\ out = <<>> /\ wire = NoMessage
  /\ count = 0 /\ sizes = <<>> /\ places = <<>>
  /\ held = [d \in Destinations |-> Nothing] /\ block = [b \in 1..MaxBlocks |-> Unused]
  /\ call = Rest /\ meant = <<>> /\ applied = <<>> /\ fresh = TRUE /\ misused = FALSE

-----------------------------------------------------------------------------
(* The sender.  << of a variable keeps its address, << of a constant copies *)
(* it; neither looks whether there was a place.  What the sender does while *)
(* a message is on its way concerns later messages only, and comes then.    *)
Turn == ~wire.on /\ call = Rest
Change(d) ==
  /\ Turn /\ out # <<>>
  /\ value' = [value EXCEPT ![d] = 1 - @]
  /\ UNCHANGED <<out, wire, message, held, block, call, meant, applied, fresh, misused>>

\* mutant: constants are not copied either
AddShared(d, constant) ==
  /\ Turn /\ Len(out) < Segments
  /\ out' = Append(out, [datum |-> d, copied |-> FALSE, copy |-> 0, constant |-> constant, added |-> value[d]])
  /\ UNCHANGED <<value, wire, message, held, block, call, meant, applied, fresh, misused>>
Add(d, constant) ==
  /\ Turn /\ Len(out) < Segments
  /\ out' = Append(out, [datum |-> d, copied |-> constant, copy |-> IF constant THEN value[d] ELSE 0,
                         constant |-> constant, added |-> IF constant THEN value[d] ELSE 0])
  /\ UNCHANGED <<value, wire, message, held, block, call, meant, applied, fresh, misused>>

ClearOut ==
  /\ Turn /\ out # <<>> /\ out' = <<>>
  /\ UNCHANGED <<value, wire, message, held, block, call, meant, applied, fresh, misused>>

Carries(p) == Piece(p.datum, IF p.copied THEN p.copy ELSE value[p.datum])
Means(p) == Piece(p.datum, IF p.constant THEN p.added ELSE value[p.datum])
Send ==
  /\ Turn
  /\ wire' = [on |-> TRUE, segments |-> [i \in DOMAIN out |-> Carries(out[i])]]
  /\ meant' = [i \in DOMAIN out |-> Means(out[i])]
  /\ applied' = <<>> /\ held' = [d \in Destinations |-> Nothing]
  /\ UNCHANGED <<value, out, message, block, call, fresh, misused>>

-----------------------------------------------------------------------------
(* The receiver prepares its message, new or cleared, with >>; a peek has   *)
(* set the count by then, and a place is counted when it is beyond that.    *)
Renew ==
  /\ call = Rest /\ (count > 0 \/ places # <<>> \/ ~fresh) /\ fresh' = TRUE
  /\ count' = 0 /\ sizes' = <<>> /\ places' = <<>>
  /\ UNCHANGED <<sender, wire, held, block, call, meant, applied, misused>>

Full == count = Segments /\ Len(places) = Segments
Prepare(at, size) ==
  /\ call = Rest /\ wire.on /\ fresh /\ ~Full
  /\ at \notin {places[i].at : i \in DOMAIN places}
  /\ places' = Append(places, [at |-> at, size |-> size])
  /\ count' = Max({count, Len(places')})
  /\ sizes' = [i \in 1..Max({Len(sizes), Len(places')}) |-> IF i = Len(places') THEN size ELSE
                                                            IF i <= Len(sizes) THEN sizes[i] ELSE 0]
  /\ UNCHANGED <<sender, wire, held, block, call, meant, applied, fresh, misused>>

Peek ==
  /\ call = Rest /\ wire.on /\ fresh /\ places = <<>> /\ count = 0
  /\ count' = Len(wire.segments)   \* the sizes are not asked for: the count was 0
  /\ UNCHANGED <<sender, wire, sizes, places, held, block, call, meant, applied, fresh, misused>>

-----------------------------------------------------------------------------
(* receive(): the header comes first and replaces what >> counted.  The     *)
(* exceptions end the connection and the message.                           *)
Raise ==
  /\ wire' = NoMessage /\ call' = Rest /\ meant' = <<>> /\ fresh' = TRUE
  /\ count' = 0 /\ sizes' = <<>> /\ places' = <<>>

SizesOf(w) == [i \in DOMAIN w |-> w[i].size]
Fits(p, size) == p.size = 0 \/ size <= p.size

(* allocateData of prepared places: strings get the size that comes, and a  *)
(* larger place is made smaller.                                            *)
\* mutant: a smaller place is taken too
PreparedSmall(w, op) ==
  IF Len(places) = Len(w)
    THEN /\ places' = [i \in DOMAIN w |-> [at |-> IF places[i].at.kind = "string" THEN Text(places[i].at.n)
                                                  ELSE places[i].at, size |-> w[i].size]]
         /\ call' = [pc |-> "data", op |-> op] /\ fresh' = FALSE
         /\ count' = Len(w) /\ sizes' = SizesOf(w) /\ UNCHANGED <<wire, meant>>
    ELSE Raise
Prepared(w, op) ==
  IF Len(places) = Len(w) /\ \A i \in DOMAIN w : Fits(places[i], w[i].size)
    THEN /\ places' = [i \in DOMAIN w |-> [at |-> IF places[i].at.kind = "string" THEN Text(places[i].at.n)
                                                  ELSE places[i].at, size |-> w[i].size]]
         /\ call' = [pc |-> "data", op |-> op] /\ fresh' = FALSE
         /\ count' = Len(w) /\ sizes' = SizesOf(w) /\ UNCHANGED <<wire, meant>>
    ELSE Raise

FreeBlocks == SetToSortSeq({b \in DOMAIN block : block[b].state = "free"}, <)
Allocated(w) ==
  /\ Len(FreeBlocks) >= Len(w)
  /\ places' = [i \in DOMAIN w |-> [at |-> Block(FreeBlocks[i]), size |-> w[i].size]]
  /\ block' = [b \in DOMAIN block |->
                 IF \E i \in DOMAIN w : FreeBlocks[i] = b
                   THEN [state |-> "live", size |-> w[CHOOSE i \in DOMAIN w : FreeBlocks[i] = b].size, value |-> 0]
                   ELSE block[b]]
  /\ count' = Len(w) /\ sizes' = SizesOf(w) /\ fresh' = FALSE /\ UNCHANGED <<wire, meant>>

(* op: receive() with prepared places, receiveHeader(), or the daemon's     *)
(* receive() with an allocator, whose message is its own.                   *)
MayCall(op) ==
  /\ fresh
  /\ (op = "prepared") <=> \E i \in DOMAIN places : places[i].at.kind # "block"
  /\ op = "handles" => count = 0
Header(op) ==
  /\ call = Rest /\ wire.on /\ MayCall(op)
  /\ IF wire.segments = <<>>
       THEN /\ wire' = NoMessage /\ count' = 0 /\ fresh' = FALSE
            /\ UNCHANGED <<sizes, places, block, call, meant>>
     ELSE IF places # <<>>
       THEN Prepared(wire.segments, op) /\ UNCHANGED block
     ELSE Allocated(wire.segments) /\ call' = [pc |-> "data", op |-> op]
  /\ UNCHANGED <<sender, held, applied, misused>>

Lost(bs) == [b \in DOMAIN bs |-> IF bs[b].state = "live" THEN [bs[b] EXCEPT !.state = "lost"] ELSE bs[b]]
Room(at) == IF at.kind = "block" THEN block[at.n].size ELSE IF at.kind = "variable" THEN at.n ELSE 0

(* recvmsg() scatters the segments over the places.                         *)
Segment(at) == wire.segments[CHOOSE i \in DOMAIN places : places[i].at = at]
At == {places[i].at : i \in DOMAIN places}
Scatter ==
  /\ call.pc = "data"
  /\ held' = [d \in Destinations |-> IF d \in At THEN Segment(d) ELSE held[d]]
  /\ block' = [b \in DOMAIN block |->
                 IF Block(b) \in At THEN [block[b] EXCEPT !.value = Segment(Block(b)).value] ELSE block[b]]
  /\ misused' = (misused \/ \E a \in At : a.kind = "block" /\ block[a.n].state # "live")
  /\ call' = IF call.op \in {"header", "handles"} THEN [call EXCEPT !.pc = "apply"] ELSE Rest
  /\ wire' = NoMessage
  /\ UNCHANGED <<sender, message, meant, applied, fresh>>

Cut ==
  /\ call.pc = "data" /\ Raise /\ block' = Lost(block)
  /\ UNCHANGED <<sender, held, applied, misused>>

(* The applicator gets one handle after the other; then the deallocator, or *)
(* delete[], gets all the places.                                           *)
Apply ==
  LET i == Len(applied) + 1
  IN /\ call = [pc |-> "apply", op |-> "handles"] /\ i <= Len(places)
     /\ applied' = Append(applied, Piece(block[places[i].at.n].size, block[places[i].at.n].value))
     /\ UNCHANGED <<sender, wire, message, held, block, call, meant, fresh, misused>>

Leaves(op) ==   \* the message of the daemon's receive() goes with it
  IF op = "handles" THEN count' = 0 /\ sizes' = <<>> /\ places' = <<>> /\ fresh' = TRUE
                    ELSE UNCHANGED <<message, fresh>>
Cleanup ==
  /\ call.pc = "apply" /\ (call.op = "handles" => Len(applied) = Len(places))
  /\ block' = [b \in DOMAIN block |-> IF Block(b) \in At THEN Unused ELSE block[b]]
  /\ misused' = (misused \/ \E a \in At : a.kind # "block" \/ block[a.n].state # "live")
  /\ call' = Rest /\ Leaves(call.op)
  /\ UNCHANGED <<sender, wire, held, meant, applied>>

Next ==
  \/ \E d \in Data : \/ Change(d) \/ Prepare(Variable(d), d)
                     \/ \E constant \in BOOLEAN : Add(d, constant)
  \/ \E s \in Strings : Prepare(String(s), 0)
  \/ ClearOut \/ Send \/ Renew \/ Peek
  \/ \E op \in {"prepared", "header", "handles"} : Header(op)
  \/ Scatter \/ Cut \/ Apply \/ Cleanup

Spec == Init /\ [][Next]_vars

-----------------------------------------------------------------------------
TypeOK ==
  /\ value \in [Data -> 0..1] /\ count \in 0..Segments /\ Len(out) <= Segments
  /\ Len(places) <= Segments /\ Len(sizes) <= Segments
  /\ call.pc \in {"rest", "data", "apply"} /\ fresh \in BOOLEAN /\ misused \in BOOLEAN
  /\ \A b \in 1..MaxBlocks : block[b].state \in {"free", "live", "lost"}

(* When recvmsg() is called there is a place for every segment, as large as *)
(* the segment, in a variable or block that has room for it.                *)
RoomForAll ==
  call.pc = "data" =>
    /\ Len(places) = Len(wire.segments)
    /\ \A i \in DOMAIN places : /\ places[i].size = wire.segments[i].size
                                /\ places[i].at.kind # "text" => places[i].size <= Room(places[i].at)

(* A message that is made or cleared before it is used writes to no memory  *)
(* that is gone, and no block is given back twice, nor what is no block.    *)
NoMisuse == ~misused

(* What the receiver's variables, strings or blocks get is what the sender  *)
(* meant: a constant as it was when it was added, a variable as it is when  *)
(* the message is sent.                                                     *)
Holds(at) == IF at.kind = "block" THEN Piece(block[at.n].size, block[at.n].value) ELSE held[at]
CarriedStep ==
  Scatter => /\ Len(places) = Len(meant)
             /\ \A i \in DOMAIN places : Holds(places[i].at)' = meant[i]
Carried == [][CarriedStep]_vars

(* The applicator gets the segments in their order.                         *)
AppliedInOrder == IsPrefix(applied, meant)

(* Between the calls no block is out: those of a call that returned were    *)
(* given back.  (Those of one that raised are lost.)                        *)
GivenBack == call = Rest => \A b \in DOMAIN block : block[b].state # "live"
=============================================================================
