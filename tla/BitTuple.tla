------------------------------ MODULE BitTuple ------------------------------
(***************************************************************************)
(* Fields of any width packed in words without gaps (bitlevel::BitTuple):  *)
(* a field is set, read and assigned with bitcopy(), which goes through    *)
(* words and pairs of words by masks and shifts. Bits are numbers that say *)
(* which bit of which value they came from.                                *)
(***************************************************************************)
EXTENDS Integers, Sequences, FiniteSets, FiniteSetsExt, Folds, Functions

CONSTANTS storageBits, \* of a word
          Fields,      \* bound: fields of the tuple
          Widths,      \* bound: their widths; at most two words
          Stamps       \* bound: values that are set

BitTupleConstants ==
  storageBits \in Nat \ {0} /\ Fields \in Nat \ {0} /\ Widths \subseteq 1..(2 * storageBits) /\ Stamps \subseteq Nat \ {0}

VARIABLES bitwidth, \* of each field
          storage,  \* the words of the tuple, bit by bit
          value,    \* the variable that is copied from or to
          op,       \* the running operation, and its fields
          from, to, \* bit pointers: word and bit
          bitcount, \* left to be copied
          last      \* history: what each field was set to

vars == <<bitwidth, storage, value, op, from, to, bitcount, last>>

Zero == 0
Mixed == 1      \* a one-bit over a bit that was not cleared
Bit(stamp, n) == 100 * stamp + n
dword == 2 * storageBits
Field == 1..Fields

offset(f) == FoldFunctionOnSet(LAMBDA x, y : x + y, 0, bitwidth, 1..(f - 1))
total == offset(Fields + 1)
align(n) == ((n + storageBits - 1) \div storageBits) * storageBits
Pointer(n) == [word |-> n \div storageBits, bit |-> n % storageBits]
Clear(size) == [n \in 0..(size - 1) |-> Zero]
Idle == [name |-> "none", target |-> 0, source |-> 0]

Init ==
  /\ bitwidth \in [Field -> Widths]
  /\ storage = Clear(align(total)) /\ value = Clear(dword)
  /\ op = Idle /\ from = Pointer(0) /\ to = Pointer(0) /\ bitcount = 0
  /\ last = [f \in Field |-> Clear(bitwidth[f])]

-----------------------------------------------------------------------------
(* A word of size bits is loaded at p: shifted, masked and combined.        *)
Load(memory, p, size) == [n \in 0..(size - 1) |-> memory[p.word * storageBits + n]]
Shifted(w, by) == [n \in DOMAIN w |-> IF n + by \in DOMAIN w THEN w[n + by] ELSE Zero]
Masked(w, first, count) == [n \in DOMAIN w |-> IF n \in first..(first + count - 1) THEN w[n] ELSE Zero]
Without(w, first, count) == [n \in DOMAIN w |-> IF n \in first..(first + count - 1) THEN Zero ELSE w[n]]
Or(x, y) == [n \in DOMAIN x |-> IF x[n] = Zero THEN y[n] ELSE IF y[n] = Zero THEN x[n] ELSE Mixed]

_get(memory, p, bits) == Masked(Shifted(Load(memory, p, storageBits), p.bit), 0, bits)

Size(p, bits) == IF bits + p.bit <= storageBits THEN storageBits ELSE dword

_set(memory, p, bits, val) ==
  LET size == Size(p, bits)
      put == [n \in 0..(size - 1) |-> IF n - p.bit \in DOMAIN val THEN val[n - p.bit] ELSE Zero]
      new == Or(Without(Load(memory, p, size), p.bit, bits), put)
  IN [n \in DOMAIN memory |-> IF n - p.word * storageBits \in DOMAIN new THEN new[n - p.word * storageBits] ELSE memory[n]]

shift(p, bits) == Pointer(p.word * storageBits + p.bit + bits)

-----------------------------------------------------------------------------
(* get() copies to a cleared variable of two words, set() from a variable;  *)
(* an assignment of a field to a field is both, and so are the operators    *)
(* that change a field, with a value of their own between.  The variable is *)
(* wide enough for what is loaded from it: set() loads a word of 32 bits    *)
(* from its argument of any type T (brick-bitlevel.h:246), which for a      *)
(* narrower T also reads what lies behind it and masks it off.              *)
Copy(name, target, source) == op' = [name |-> name, target |-> target, source |-> source]
getField(f) == Pointer(offset(f))
get(f, name, target) ==
  /\ value' = Clear(dword)
  /\ from' = getField(f) /\ to' = Pointer(0) /\ bitcount' = bitwidth[f]
  /\ Copy(name, target, f)
  /\ UNCHANGED <<bitwidth, storage, last>>
Get(f) == op = Idle /\ get(f, "get", 0)
Assign(f, g) == op = Idle /\ get(g, "assign", f)
Set(f, stamp) ==
  /\ op = Idle
  /\ value' = [n \in 0..(dword - 1) |-> Bit(stamp, n)]
  /\ from' = Pointer(0) /\ to' = getField(f) /\ bitcount' = bitwidth[f]
  /\ Copy("set", f, 0)
  /\ UNCHANGED <<bitwidth, storage, last>>

Source == IF op.name = "set" THEN value ELSE storage
Target(memory) ==
  IF op.name = "set" THEN storage' = memory /\ UNCHANGED value ELSE value' = memory /\ UNCHANGED storage
Slide(n) ==
  /\ from' = shift(from, n) /\ to' = shift(to, n) /\ bitcount' = bitcount - n
  /\ UNCHANGED <<bitwidth, op, last>>

Whole == from.bit = 0 /\ to.bit = 0 /\ bitcount >= storageBits
Words ==
  /\ bitcount > 0 /\ Whole
  /\ LET cnt == bitcount \div storageBits
         memory == IF op.name = "set" THEN storage ELSE value
         at == to.word * storageBits
     IN /\ Target([n \in DOMAIN memory |-> IF n - at \in 0..(cnt * storageBits - 1)
                     THEN Source[n - at + from.word * storageBits] ELSE memory[n]])
        /\ Slide(cnt * storageBits)
Piece ==
  /\ bitcount > 0 /\ ~Whole
  /\ LET w == Min({storageBits - from.bit, bitcount})
     IN /\ Target(_set(IF op.name = "set" THEN storage ELSE value, to, w, _get(Source, from, w)))
        /\ Slide(w)

(* The end: an assignment that has read its source sets its target.         *)
Bits(f) == [n \in 0..(bitwidth[f] - 1) |-> storage[offset(f) + n]]
Return ==
  /\ op # Idle /\ bitcount = 0 /\ op.name # "assign"
  /\ last' = IF op.target = 0 THEN last
             ELSE [last EXCEPT ![op.target] = [n \in DOMAIN @ |-> value[n]]]
  /\ op' = Idle /\ value' = Clear(dword) /\ from' = Pointer(0) /\ to' = Pointer(0)
  /\ UNCHANGED <<bitwidth, storage, bitcount>>
Turn ==
  /\ op.name = "assign" /\ bitcount = 0
  /\ from' = Pointer(0) /\ to' = getField(op.target) /\ bitcount' = bitwidth[op.target]
  /\ op' = [op EXCEPT !.name = "set"]
  /\ UNCHANGED <<bitwidth, storage, value, last>>

Next == \/ \E f \in Field : Get(f) \/ (\E s \in Stamps : Set(f, s)) \/ (\E g \in Field : Assign(f, g))
        \/ Words \/ Piece \/ Return \/ Turn
Spec == Init /\ [][Next]_vars /\ WF_vars(Words \/ Piece \/ Return \/ Turn)

-----------------------------------------------------------------------------
(* Pointers are normalized, and what is loaded and stored through them lies *)
(* within the tuple or the variable.                                        *)
Within(memory, p, bits) == (p.word * storageBits) + Size(p, bits) - 1 \in DOMAIN memory
TypeOK ==
  /\ from.bit \in 0..(storageBits - 1) /\ to.bit \in 0..(storageBits - 1)
  /\ bitcount > 0 /\ ~Whole =>
       LET w == Min({storageBits - from.bit, bitcount})
       IN Within(Source, from, w) /\ Within(IF op.name = "set" THEN storage ELSE value, to, w)

(* A field keeps the low bits of what it was set to, whatever is done to    *)
(* the others, at every step of what is done.                               *)
Kept == \A f \in Field : ~(op.name = "set" /\ op.target = f) => Bits(f) = last[f]

(* What get() returns is what the field was set to, and no bit more.        *)
Read ==
  op.name \in {"get", "assign"} /\ bitcount = 0 =>
    \A n \in DOMAIN value : value[n] = IF n < bitwidth[op.source] THEN last[op.source][n] ELSE Zero

(* Every copy comes to its end.                                             *)
Copying == op # Idle
Ends == Copying ~> ~Copying
=============================================================================
