---------------------------- MODULE MutexesProofs ----------------------------
(***************************************************************************)
(* What is proved of the mutexes of the channels, for every number of      *)
(* threads, peers, calls and messages: threads wait for each other in no   *)
(* circle, nobody takes a message that another thread peeked at, and the   *)
(* messages that are sent do not mix and keep their order everywhere.      *)
(***************************************************************************)
EXTENDS Mutexes, WellFoundedInduction, TLAPS

(* Where a thread is: with the read mutexes of a probe, with a message in   *)
(* its applicator, and with a message it sends from there.                  *)
Pc == {"idle", "lockRead", "poll", "round", "apply", "lockOne", "receive", "lockWrite",
       "send", "output"}
Inside(d) == d.pc \in {"lockWrite", "send"} /\ d.chans # <<>>
Probing(d) == d.pc \in {"poll", "round", "apply"} \/ Inside(d)
Applying(d) == d.pc = "apply" \/ Inside(d)

Activity == [pc : Pc, chans : Seq(Channel), pos : Nat, left : SUBSET Channel,
             half : SUBSET Channel, full : SUBSET Channel, head : Nat, at : Channel,
             out : Seq(Channel), calls : Nat]
Parts == [by : Threads, call : Nat, all : BOOLEAN, last : BOOLEAN]

Typed ==
  /\ read \in [Channel -> Threads \cup {None}]
  /\ write \in [Channel -> Threads \cup {None}]
  /\ mail \in [Channel -> Seq(Nat)] /\ came \in [Channel -> Nat]
  /\ wire \in [Channel -> Seq(Parts)]
  /\ thread \in [Threads -> Activity]

(* The channels of a cache are in the order of their numbers.               *)
Number(c) == 2 * c[1] + c[2]
Sorted(s) == \A i, j \in 1..Len(s) : i < j => Number(s[i]) < Number(s[j])

(* What thread t has of the mutexes its call takes, and no others: only     *)
(* a program that calls exit within a probe takes more.                     *)
Reads(t) ==
  LET d == thread[t]
  IN /\ Sorted(d.chans)
     /\ d.pc = "lockRead" => /\ d.pos \in 1..Len(d.chans)
                             /\ \A i \in 1..(d.pos - 1) : read[d.chans[i]] = t
     /\ Probing(d) => \A i \in 1..Len(d.chans) : read[d.chans[i]] = t
     /\ d.pc = "receive" => read[d.at] = t
ReadsOnly(t) ==
  LET d == thread[t]
  IN \A c \in Channel : read[c] = t =>
       \/ Probing(d)
       \/ d.pc = "receive" /\ c = d.at
       \/ d.pc = "lockRead" /\ \E i \in 1..(d.pos - 1) : c = d.chans[i]
Writes(t) ==
  LET d == thread[t]
  IN /\ Sorted(d.out)
     /\ d.pc = "lockWrite" => /\ d.pos \in 1..Len(d.out)
                              /\ \A i \in 1..(d.pos - 1) : write[d.out[i]] = t
     /\ d.pc = "send" => \A i \in 1..Len(d.out) : write[d.out[i]] = t
     /\ d.pc = "output" => /\ "output" \in Ops /\ Len(d.out) = 1 /\ d.chans = <<>>
                           /\ d.out[1] = <<0, Master>>
WritesOnly(t) ==
  LET d == thread[t]
  IN \A c \in Channel : write[c] = t =>
       \/ d.pc = "send"
       \/ d.pc = "lockWrite" /\ \E i \in 1..(d.pos - 1) : c = d.out[i]

(* The message of an applicator is the first one of a channel of the probe. *)
Handed(t) ==
  LET d == thread[t]
  IN /\ d.pc \in {"round", "apply"} \/ Inside(d) => d.left \subseteq ToSet(d.chans)
     /\ Applying(d) => /\ d.at \in ToSet(d.chans) /\ mail[d.at] # <<>>
                       /\ Head(mail[d.at]) = d.head

(* A message of which a thread sent the first part ends the line, where     *)
(* everybody takes the mutex.                                               *)
Sending(t) ==
  LET d == thread[t]
  IN IF d.pc \in {"send", "output"} THEN d.full \subseteq d.half /\ d.half \subseteq ToSet(d.out)
     ELSE d.half = {} /\ d.full = {}
LastHalf(t) ==
  LET d == thread[t]
  IN d.pc = "send" => \A c \in (d.half \ d.full) \cap Exclusive :
       /\ wire[c] # <<>>
       /\ wire[c][Len(wire[c])] = [by |-> t, call |-> d.calls, all |-> Len(d.out) > 1,
                                   last |-> FALSE]

(* The messages of thread t carry the numbers of the calls it made, and     *)
(* after those of the call it is in nobody sent one to all.                 *)
Numbered(t) ==
  LET d == thread[t]
  IN \A c \in Channel : \A i \in 1..Len(wire[c]) : wire[c][i].by = t =>
       /\ wire[c][i].call <= d.calls
       /\ wire[c][i].all /\ wire[c][i].call = d.calls =>
            /\ d.pc # "lockWrite"
            /\ d.pc = "send" => /\ c \in ToSet(d.out)
                                /\ \A j \in 1..Len(wire[c]) :
                                     i < j /\ wire[c][j].all => wire[c][j].by = t

Sound(t) ==
  /\ Reads(t) /\ Writes(t) /\ WritesOnly(t) /\ Handed(t) /\ Sending(t) /\ Numbered(t)
  /\ LastHalf(t)
  /\ "exitInside" \notin Ops => ReadsOnly(t)

Ordered ==
  \A t, u \in Threads, m, n \in Nat : t # u =>
    \A c, d \in Channel :
      ~ /\ \E i \in At(c, t, m), j \in At(c, u, n) : i < j
        /\ \E i \in At(d, t, m), j \in At(d, u, n) : i > j

MutexInv == Typed /\ Ordered /\ Contiguous /\ (\A t \in Threads : Sound(t))

-----------------------------------------------------------------------------
(* The smallest of some natural numbers.                                    *)
Less == {q \in Nat \X Nat : q[1] < q[2]}
LEMMA Smallest ==
  ASSUME NEW T \in SUBSET Nat, T # {}
  PROVE  \E x \in T : \A y \in T : x <= y
<1>1. IsWellFoundedOn(Less, Nat)
  BY NatLessThanWellFounded DEF OpToRel, Less
<1>2. PICK x \in T : \A y \in T : <<y, x>> \notin Less
  BY <1>1, WFMin
<1>3. ASSUME NEW y \in T PROVE x <= y
  <2>1. x \in Nat /\ y \in Nat /\ <<y, x>> \in Nat \X Nat
    OBVIOUS
  <2>2. ~(y < x)
    BY <1>2, <1>3, <2>1 DEF Less
  <2> QED BY <2>1, <2>2
<1> QED BY <1>3

(* The caches hold channels in the order of their numbers.                  *)
LEMMA PlaceNumber ==
  ASSUME MutexesConstants, NEW i \in 1..(2 * Peers + 1)
  PROVE  Place(i) \in Channel /\ Number(Place(i)) = i + (IF i = 1 THEN 0 ELSE 1)
<1>1. Peers \in Nat
  BY DEF MutexesConstants
<1>2. CASE i = 1
  BY <1>2 DEF Place, Number, Channel, Master, Data
<1>3. CASE i # 1 /\ i % 2 = 0
  <2>1. i \div 2 \in 1..Peers /\ i = 2 * (i \div 2)
    BY <1>1, <1>3
  <2> QED BY <1>3, <2>1 DEF Place, Number, Channel, Master, Data
<1>4. CASE i # 1 /\ i % 2 # 0
  <2>1. i \div 2 \in 1..Peers /\ i = 2 * (i \div 2) + 1
    BY <1>1, <1>4
  <2> QED BY <1>4, <2>1 DEF Place, Number, Channel, Master, Data
<1> QED BY <1>2, <1>3, <1>4

LEMMA CacheSorted ==
  ASSUME MutexesConstants, NEW k \in {All, Master, Data}
  PROVE  Cache(k) \in Seq(Channel) /\ Sorted(Cache(k))
<1>1. Peers \in Nat
  BY DEF MutexesConstants
<1>2. CASE k = All
  <2>1. Cache(k) = [i \in 1..(2 * Peers + 1) |-> Place(i)]
    BY <1>2 DEF Cache
  <2>2. \A i \in 1..(2 * Peers + 1) : Place(i) \in Channel
    BY PlaceNumber
  <2>3. Cache(k) \in Seq(Channel) /\ Len(Cache(k)) = 2 * Peers + 1
    BY <1>1, <2>1, <2>2
  <2>4. ASSUME NEW i \in 1..(2 * Peers + 1), NEW j \in 1..(2 * Peers + 1), i < j
        PROVE  Number(Place(i)) < Number(Place(j))
    BY <1>1, <2>4, PlaceNumber
  <2> QED BY <2>1, <2>3, <2>4 DEF Sorted
<1>3. CASE k = Master
  <2>1. Cache(k) = [i \in 1..(Peers + 1) |-> <<i - 1, Master>>]
    BY <1>3 DEF Cache, All, Master, Data
  <2>2. \A i \in 1..(Peers + 1) : <<i - 1, Master>> \in Channel
    BY <1>1 DEF Channel
  <2>3. Cache(k) \in Seq(Channel) /\ Len(Cache(k)) = Peers + 1
    BY <1>1, <2>1, <2>2
  <2> QED BY <1>1, <2>1, <2>3 DEF Sorted, Number, Master
<1>4. CASE k = Data
  <2>1. Cache(k) = [i \in 1..Peers |-> <<i, Data>>]
    BY <1>4 DEF Cache, All, Master, Data
  <2>2. \A i \in 1..Peers : <<i, Data>> \in Channel
    BY <1>1 DEF Channel
  <2>3. Cache(k) \in Seq(Channel) /\ Len(Cache(k)) = Peers
    BY <1>1, <2>1, <2>2
  <2> QED BY <1>1, <2>1, <2>3 DEF Sorted, Number, Data
<1> QED BY <1>2, <1>3, <1>4

-----------------------------------------------------------------------------
(* What a step of one thread leaves to the others, and to the invariant.    *)
LEMMA MutexesKept ==
  ASSUME Typed, NEW u \in Threads, Sound(u), thread'[u] = thread[u],
         \A c \in Channel : /\ read'[c] = u <=> read[c] = u
                            /\ write'[c] = u <=> write[c] = u
                            /\ read[c] = u /\ mail[c] # <<>> =>
                                 mail'[c] # <<>> /\ Head(mail'[c]) = Head(mail[c])
  PROVE  /\ Reads(u)' /\ Writes(u)' /\ WritesOnly(u)' /\ Handed(u)' /\ Sending(u)'
         /\ ReadsOnly(u) => ReadsOnly(u)'
<1> DEFINE d == thread[u]
<1>1. /\ d.chans \in Seq(Channel) /\ d.out \in Seq(Channel) /\ d.at \in Channel
      /\ d.pos \in Nat
  BY DEF Typed, Activity
<1>2. Reads(u)'
  BY <1>1 DEF Sound, Reads, Probing, Inside
<1>3. Writes(u)'
  BY <1>1 DEF Sound, Writes
<1>4. WritesOnly(u)'
  BY <1>1 DEF Sound, WritesOnly
<1>5. ReadsOnly(u) => ReadsOnly(u)'
  BY <1>1 DEF ReadsOnly, Probing, Inside
<1>6. Handed(u)'
  <2>1. Applying(d) => Probing(d)
    BY DEF Applying, Probing
  <2>2. Reads(u) /\ Handed(u)
    BY DEF Sound
  <2>3. Applying(d) => read[d.at] = u
    BY <2>1, <2>2 DEF Reads, Handed, ToSet
  <2> QED BY <1>1, <2>2, <2>3 DEF Handed, Applying, Inside
<1>7. Sending(u)'
  BY DEF Sound, Sending
<1> QED BY <1>2, <1>3, <1>4, <1>5, <1>6, <1>7

LEMMA OtherKept ==
  ASSUME Typed, NEW u \in Threads, Sound(u), thread'[u] = thread[u], wire' = wire,
         \A c \in Channel : /\ read'[c] = u <=> read[c] = u
                            /\ write'[c] = u <=> write[c] = u
                            /\ read[c] = u /\ mail[c] # <<>> =>
                                 mail'[c] # <<>> /\ Head(mail'[c]) = Head(mail[c])
  PROVE  Sound(u)'
<1>1. Numbered(u)'
  BY DEF Sound, Numbered
<1>2. LastHalf(u) => LastHalf(u)'
  BY DEF LastHalf
<1> QED BY <1>1, <1>2, MutexesKept DEF Sound

LEMMA Quiet ==
  ASSUME MutexInv, Typed', wire' = wire, \A t \in Threads : Sound(t)'
  PROVE  MutexInv'
<1>1. Ordered' /\ (Contiguous => Contiguous')
  BY DEF MutexInv, Ordered, At, Contiguous, Whole
<1> QED BY <1>1 DEF MutexInv

LEMMA Becomes ==
  ASSUME thread \in [Threads -> Activity], NEW t \in Threads, NEW r \in Activity, Become(t, r)
  PROVE  /\ thread' \in [Threads -> Activity] /\ thread'[t] = r
         /\ \A u \in Threads \ {t} : thread'[u] = thread[u]
BY DEF Become

(* A step of thread t that gives and takes only what it has or nobody has.  *)
LEMMA Moving ==
  ASSUME MutexInv, NEW t \in Threads, NEW r \in Activity, Become(t, r),
         read' \in [Channel -> Threads \cup {None}], write' \in [Channel -> Threads \cup {None}],
         mail' \in [Channel -> Seq(Nat)], UNCHANGED <<came, wire>>,
         \A c \in Channel, u \in Threads \ {t} :
           /\ read'[c] = u <=> read[c] = u
           /\ write'[c] = u <=> write[c] = u
           /\ read[c] = u /\ mail[c] # <<>> =>
                mail'[c] # <<>> /\ Head(mail'[c]) = Head(mail[c]),
         Sound(t)'
  PROVE  MutexInv'
<1>1. /\ thread' \in [Threads -> Activity]
      /\ \A u \in Threads \ {t} : thread'[u] = thread[u]
  BY Becomes DEF MutexInv, Typed
<1>2. Typed'
  BY <1>1 DEF MutexInv, Typed
<1>3. \A u \in Threads \ {t} : Sound(u)'
  BY <1>1, OtherKept DEF MutexInv
<1> QED BY <1>2, <1>3, Quiet

LEMMA Alone ==
  ASSUME MutexInv, NEW t \in Threads, NEW r \in Activity, Become(t, r),
         UNCHANGED <<read, write, mail, came, wire>>, Sound(t)'
  PROVE  MutexInv'
<1>1. Typed
  BY DEF MutexInv
<1> QED BY <1>1, Moving DEF Typed

LEMMA FreshNumbered ==
  ASSUME MutexInv, NEW t \in Threads, wire' = wire, thread'[t].calls = thread[t].calls + 1
  PROVE  Numbered(t)'
<1>1. thread[t].calls \in Nat
  BY DEF MutexInv, Typed, Activity
<1>2. ASSUME NEW c \in Channel, NEW i \in 1..Len(wire[c]), wire[c][i].by = t
      PROVE  wire[c][i].call <= thread[t].calls /\ wire[c][i].call \in Nat
  <2>1. wire[c] \in Seq(Parts)
    BY DEF MutexInv, Typed
  <2>2. wire[c][i] \in Parts
    BY <2>1
  <2> QED BY <1>2, <2>2 DEF MutexInv, Sound, Numbered, Parts
<1> QED BY <1>1, <1>2 DEF Numbered

LEMMA SameNumbered ==
  ASSUME MutexInv, NEW t \in Threads, wire' = wire, thread'[t].calls = thread[t].calls,
         thread'[t].pc \notin {"lockWrite", "send"}
  PROVE  Numbered(t)'
BY DEF MutexInv, Sound, Numbered

LEMMA ActivityFacts ==
  ASSUME MutexInv, NEW t \in Threads
  PROVE  /\ thread[t] \in Activity
         /\ thread[t].pc \in Pc /\ thread[t].chans \in Seq(Channel)
         /\ thread[t].out \in Seq(Channel) /\ thread[t].pos \in Nat
         /\ thread[t].at \in Channel /\ thread[t].calls \in Nat
         /\ thread[t].left \subseteq Channel /\ thread[t].half \subseteq Channel
         /\ thread[t].full \subseteq Channel /\ thread[t].head \in Nat
         /\ Sound(t)
BY DEF MutexInv, Typed, Activity

LEMMA IdleFacts ==
  ASSUME MutexInv, NEW t \in Threads
  PROVE  /\ Next1(t) \in Activity /\ Rest(t) \in Activity
         /\ Sorted(<<>>)
<1>1. <<0, Master>> \in Channel /\ <<>> \in Seq(Channel)
  BY DEF Channel
<1>2. thread[t].calls \in Nat /\ thread[t].calls + 1 \in Nat
  BY ActivityFacts
<1>3. Idle \in Activity
  BY <1>1 DEF Idle, Activity, Pc
<1>4. Next1(t) \in Activity /\ Rest(t) \in Activity
  BY <1>2, <1>3 DEF Next1, Rest, Activity
<1> QED BY <1>4 DEF Sorted

LEMMA NotSending ==
  ASSUME MutexInv, NEW t \in Threads, write' = write,
         thread[t].pc \notin {"lockWrite", "send", "output"},
         thread'[t].pc \notin {"lockWrite", "send", "output"},
         thread'[t].out \in {<<>>, thread[t].out},
         thread'[t].half = {}, thread'[t].full = {}
  PROVE  Writes(t)' /\ WritesOnly(t)' /\ Sending(t)' /\ LastHalf(t)'
<1>1. Sorted(thread[t].out) /\ Sorted(<<>>) /\ WritesOnly(t)
  BY ActivityFacts, IdleFacts DEF Sound, Writes
<1>2. Writes(t)'
  BY <1>1 DEF Writes
<1>3. WritesOnly(t)'
  BY <1>1 DEF WritesOnly
<1>4. Sending(t)' /\ LastHalf(t)'
  BY DEF Sending, LastHalf
<1> QED BY <1>2, <1>3, <1>4

LEMMA HalfEmpty ==
  ASSUME MutexInv, NEW t \in Threads, thread[t].pc \notin {"send", "output"}
  PROVE  thread[t].half = {} /\ thread[t].full = {}
BY DEF MutexInv, Sound, Sending

LEMMA ProbeStep ==
  ASSUME MutexesConstants, MutexInv, NEW t \in Threads, Probe(t)
  PROVE  MutexInv'
<1>1. PICK k \in ProbeOn :
        Become(t, [Next1(t) EXCEPT !.pc = IF Cache(k) = <<>> THEN "poll" ELSE "lockRead",
                                   !.chans = Cache(k)])
  BY DEF Probe
<1> DEFINE r == [Next1(t) EXCEPT !.pc = IF Cache(k) = <<>> THEN "poll" ELSE "lockRead",
                                 !.chans = Cache(k)]
<1>2. Cache(k) \in Seq(Channel) /\ Sorted(Cache(k))
  BY CacheSorted DEF MutexesConstants, All, Master, Data
<1>3. r \in Activity
  BY <1>2, IdleFacts DEF Activity, Pc
<1>4. thread'[t] = r
  BY <1>1, <1>3, Becomes DEF MutexInv, Typed
<1>5. /\ r.pc = IF Cache(k) = <<>> THEN "poll" ELSE "lockRead"
      /\ r.chans = Cache(k) /\ r.pos = 1 /\ r.left = {} /\ r.half = {} /\ r.full = {}
      /\ r.out = <<>> /\ r.calls = thread[t].calls + 1
  BY DEF Next1, Idle
<1>6. thread[t].pc = "idle" /\ UNCHANGED <<read, write, mail, came, wire>>
  BY DEF Probe, Start
<1> HIDE DEF r
<1>7. Reads(t)' /\ (ReadsOnly(t) => ReadsOnly(t)') /\ Handed(t)'
  BY <1>2, <1>4, <1>5, <1>6
     DEF Reads, ReadsOnly, Handed, Probing, Applying, Inside
<1>8. Writes(t)' /\ WritesOnly(t)' /\ Sending(t)' /\ LastHalf(t)'
  BY <1>4, <1>5, <1>6, NotSending
<1>9. Numbered(t)'
  BY <1>4, <1>5, <1>6, FreshNumbered
<1>10. Sound(t)'
  BY <1>7, <1>8, <1>9, ActivityFacts DEF Sound
<1> QED BY <1>1, <1>3, <1>6, <1>10, Alone DEF r

LEMMA ArriveStep ==
  ASSUME MutexInv, NEW c \in Channel, Arrive(c)
  PROVE  MutexInv'
<1>1. UNCHANGED <<read, write, wire, thread>> /\ mail' = [mail EXCEPT ![c] = Append(@, came[c] + 1)]
      /\ came' = [came EXCEPT ![c] = @ + 1]
  BY DEF Arrive
<1>2. Typed
  BY DEF MutexInv
<1>3. came[c] + 1 \in Nat /\ mail[c] \in Seq(Nat)
  BY <1>2 DEF Typed
<1>4. Typed'
  BY <1>1, <1>2, <1>3 DEF Typed
<1>5. ASSUME NEW e \in Channel, mail[e] # <<>>
      PROVE  mail'[e] # <<>> /\ Head(mail'[e]) = Head(mail[e])
  <2>1. mail'[e] = IF e = c THEN Append(mail[c], came[c] + 1) ELSE mail[e]
    BY <1>1, <1>2 DEF Typed
  <2>2. mail[c] # <<>> => /\ Append(mail[c], came[c] + 1) # <<>>
                        /\ Head(Append(mail[c], came[c] + 1)) = Head(mail[c])
    BY <1>3
  <2> QED BY <1>5, <2>1, <2>2
<1>6. \A u \in Threads : Sound(u)'
  BY <1>1, <1>2, <1>5, OtherKept DEF MutexInv
<1> QED BY <1>1, <1>4, <1>6, Quiet

LEMMA LockReadStep ==
  ASSUME MutexesConstants, MutexInv, NEW t \in Threads, LockRead(t)
  PROVE  MutexInv'
<1> DEFINE d == thread[t]
           c == d.chans[d.pos]
           r == IF d.pos < Len(d.chans) THEN [d EXCEPT !.pos = @ + 1] ELSE [d EXCEPT !.pc = "poll"]
<1>1. /\ d.pc = "lockRead" /\ read[c] = None /\ read' = [read EXCEPT ![c] = t] /\ Become(t, r)
      /\ UNCHANGED <<write, mail, came, wire>>
  BY DEF LockRead
<1>2. d.pos \in 1..Len(d.chans) /\ c \in Channel
  BY <1>1, ActivityFacts DEF Sound, Reads
<1>3. r \in Activity
  <2>1. [d EXCEPT !.pos = @ + 1] \in Activity
    BY ActivityFacts DEF Activity
  <2>2. [d EXCEPT !.pc = "poll"] \in Activity
    BY ActivityFacts DEF Activity, Pc
  <2> QED BY <2>1, <2>2
<1>4. thread'[t] = r
  BY <1>1, <1>3, Becomes DEF MutexInv, Typed
<1>5. /\ r.chans = d.chans /\ r.left = d.left /\ r.half = d.half /\ r.full = d.full
      /\ r.out = d.out /\ r.calls = d.calls /\ r.pc \in {"lockRead", "poll"}
      /\ r.pc = "lockRead" => r.pos = d.pos + 1 /\ d.pos < Len(d.chans)
      /\ r.pc = "poll" => d.pos = Len(d.chans)
  BY <1>1, <1>2, ActivityFacts DEF Activity
<1>6. \A e \in Channel : read'[e] = IF e = c THEN t ELSE read[e]
  BY <1>1, <1>2 DEF MutexInv, Typed
<1>7. read' \in [Channel -> Threads \cup {None}]
  BY <1>1 DEF MutexInv, Typed
<1> HIDE DEF r
<1>8. \A i \in 1..d.pos : read'[d.chans[i]] = t
  BY <1>1, <1>2, <1>6, ActivityFacts DEF Sound, Reads
<1>9. Reads(t)' /\ Handed(t)'
  <2>1. Reads(t) /\ Handed(t)
    BY ActivityFacts DEF Sound
  <2> QED BY <1>1, <1>2, <1>4, <1>5, <1>8, <2>1, ActivityFacts
          DEF Reads, Handed, Probing, Applying, Inside
<1>10. ReadsOnly(t) => ReadsOnly(t)'
  BY <1>1, <1>2, <1>4, <1>5, <1>6, ActivityFacts DEF ReadsOnly, Probing, Inside
<1>11. Writes(t)' /\ WritesOnly(t)' /\ Sending(t)' /\ LastHalf(t)'
  BY <1>1, <1>4, <1>5, HalfEmpty, NotSending
<1>12. Numbered(t)'
  BY <1>1, <1>4, <1>5, SameNumbered
<1>13. Sound(t)'
  BY <1>9, <1>10, <1>11, <1>12, ActivityFacts DEF Sound
<1>14. \A e \in Channel, u \in Threads \ {t} : read'[e] = u <=> read[e] = u
  BY <1>1, <1>6 DEF MutexesConstants, None
<1>15. Typed
  BY DEF MutexInv
<1> QED BY <1>1, <1>3, <1>7, <1>13, <1>14, <1>15, Moving DEF Typed

LEMMA PollStep ==
  ASSUME MutexInv, NEW t \in Threads, Poll(t)
  PROVE  MutexInv'
<1> DEFINE d == thread[t]
           r == [d EXCEPT !.pc = "round", !.left = {c \in ToSet(d.chans) : mail[c] # <<>>}]
<1>1. d.pc = "poll" /\ Become(t, r) /\ UNCHANGED <<read, write, mail, came, wire>>
  BY DEF Poll
<1>2. ToSet(d.chans) \subseteq Channel
  BY ActivityFacts DEF ToSet
<1>3. r \in Activity
  BY <1>2, ActivityFacts DEF Activity, Pc
<1>4. thread'[t] = r
  BY <1>1, <1>3, Becomes DEF MutexInv, Typed
<1>5. /\ r.pc = "round" /\ r.chans = d.chans /\ r.left \subseteq ToSet(d.chans)
      /\ r.half = d.half /\ r.full = d.full /\ r.out = d.out /\ r.calls = d.calls
  BY ActivityFacts DEF Activity
<1> HIDE DEF r
<1>6. Reads(t)' /\ (ReadsOnly(t) => ReadsOnly(t)') /\ Handed(t)'
  BY <1>1, <1>4, <1>5, ActivityFacts
     DEF Sound, Reads, ReadsOnly, Handed, Probing, Applying, Inside
<1>7. Writes(t)' /\ WritesOnly(t)' /\ Sending(t)' /\ LastHalf(t)'
  BY <1>1, <1>4, <1>5, HalfEmpty, NotSending
<1>8. Numbered(t)'
  BY <1>1, <1>4, <1>5, SameNumbered
<1>9. Sound(t)'
  BY <1>6, <1>7, <1>8, ActivityFacts DEF Sound
<1> QED BY <1>1, <1>3, <1>9, Alone

LEMMA ProcessStep ==
  ASSUME MutexInv, NEW t \in Threads, Process(t)
  PROVE  MutexInv'
<1> DEFINE d == thread[t]
<1>1. PICK c \in d.left : mail[c] # <<>> /\
        Become(t, [d EXCEPT !.pc = "apply", !.left = @ \ {c}, !.at = c, !.head = Head(mail[c])])
  BY DEF Process
<1> DEFINE r == [d EXCEPT !.pc = "apply", !.left = @ \ {c}, !.at = c, !.head = Head(mail[c])]
<1>2. d.pc = "round" /\ UNCHANGED <<read, write, mail, came, wire>>
  BY DEF Process
<1>3. c \in Channel /\ Head(mail[c]) \in Nat
  BY <1>1, ActivityFacts DEF MutexInv, Typed
<1>4. r \in Activity
  BY <1>3, ActivityFacts DEF Activity, Pc
<1>5. thread'[t] = r
  BY <1>1, <1>4, Becomes DEF MutexInv, Typed
<1>6. /\ r.pc = "apply" /\ r.chans = d.chans /\ r.left = d.left \ {c}
      /\ r.at = c /\ r.head = Head(mail[c])
      /\ r.half = d.half /\ r.full = d.full /\ r.out = d.out /\ r.calls = d.calls
  BY ActivityFacts DEF Activity
<1> HIDE DEF r
<1>7. Reads(t)' /\ (ReadsOnly(t) => ReadsOnly(t)') /\ Handed(t)'
  BY <1>1, <1>2, <1>5, <1>6, ActivityFacts
     DEF Sound, Reads, ReadsOnly, Handed, Probing, Applying, Inside
<1>8. Writes(t)' /\ WritesOnly(t)' /\ Sending(t)' /\ LastHalf(t)'
  BY <1>2, <1>5, <1>6, HalfEmpty, NotSending
<1>9. Numbered(t)'
  BY <1>2, <1>5, <1>6, SameNumbered
<1>10. Sound(t)'
  BY <1>7, <1>8, <1>9, ActivityFacts DEF Sound
<1> QED BY <1>1, <1>2, <1>4, <1>10, Alone DEF r

LEMMA ApplyStep ==
  ASSUME MutexInv, NEW t \in Threads, Apply(t)
  PROVE  MutexInv'
<1> DEFINE d == thread[t]
           r == [d EXCEPT !.pc = "round"]
<1>1. /\ d.pc = "apply" /\ mail[d.at] # <<>> /\ mail' = [mail EXCEPT ![d.at] = Tail(@)]
      /\ Become(t, r) /\ UNCHANGED <<read, write, came, wire>>
  BY DEF Apply
<1>2. r \in Activity
  BY ActivityFacts DEF Activity, Pc
<1>3. thread'[t] = r
  BY <1>1, <1>2, Becomes DEF MutexInv, Typed
<1>4. /\ r.pc = "round" /\ r.chans = d.chans /\ r.left = d.left
      /\ r.half = d.half /\ r.full = d.full /\ r.out = d.out /\ r.calls = d.calls
  BY ActivityFacts DEF Activity
<1> HIDE DEF r
<1>5. d.at \in Channel /\ read[d.at] = t /\ mail[d.at] \in Seq(Nat)
  <2>1. Reads(t) /\ Handed(t)
    BY ActivityFacts DEF Sound
  <2>2. d.at \in ToSet(d.chans) /\ \A i \in 1..Len(d.chans) : read[d.chans[i]] = t
    BY <1>1, <2>1 DEF Reads, Handed, Probing, Applying
  <2>3. read[d.at] = t
    <3>1. d.chans \in Seq(Channel)
      BY ActivityFacts
    <3>2. PICK i \in 1..Len(d.chans) : d.at = d.chans[i]
      BY <2>2, <3>1 DEF ToSet
    <3> QED BY <2>2, <3>2
  <2>4. d.at \in Channel /\ mail \in [Channel -> Seq(Nat)]
    BY ActivityFacts DEF MutexInv, Typed
  <2> QED BY <2>3, <2>4
<1>6. mail' \in [Channel -> Seq(Nat)] /\ \A c \in Channel \ {d.at} : mail'[c] = mail[c]
  BY <1>1, <1>5 DEF MutexInv, Typed
<1>7. Reads(t)' /\ (ReadsOnly(t) => ReadsOnly(t)') /\ Handed(t)'
  BY <1>1, <1>3, <1>4, ActivityFacts
     DEF Sound, Reads, ReadsOnly, Handed, Probing, Applying, Inside
<1>8. Writes(t)' /\ WritesOnly(t)' /\ Sending(t)' /\ LastHalf(t)'
  BY <1>1, <1>3, <1>4, HalfEmpty, NotSending
<1>9. Numbered(t)'
  BY <1>1, <1>3, <1>4, SameNumbered
<1>10. Sound(t)'
  BY <1>7, <1>8, <1>9, ActivityFacts DEF Sound
<1>11. Typed
  BY DEF MutexInv
<1> QED BY <1>1, <1>2, <1>5, <1>6, <1>10, <1>11, Moving DEF Typed

LEMMA EndProbeStep ==
  ASSUME MutexesConstants, MutexInv, NEW t \in Threads, EndProbe(t)
  PROVE  MutexInv'
<1>1. /\ thread[t].pc = "round" /\ Become(t, Rest(t)) /\ UNCHANGED <<write, mail, came, wire>>
      /\ read' = [c \in Channel |-> IF read[c] = t THEN None ELSE read[c]]
  BY DEF EndProbe
<1>2. thread'[t] = Rest(t) /\ Rest(t) \in Activity
  BY <1>1, IdleFacts, Becomes DEF MutexInv, Typed
<1>3. /\ Rest(t).pc = "idle" /\ Rest(t).chans = <<>> /\ Rest(t).half = {} /\ Rest(t).full = {}
      /\ Rest(t).out = <<>> /\ Rest(t).calls = thread[t].calls
  BY DEF Rest, Idle
<1>4. read' \in [Channel -> Threads \cup {None}]
      /\ \A c \in Channel : read'[c] # t
                            /\ \A u \in Threads \ {t} : read'[c] = u <=> read[c] = u
  BY <1>1 DEF MutexInv, Typed, MutexesConstants, None
<1>5. Reads(t)' /\ ReadsOnly(t)' /\ Handed(t)'
  BY <1>2, <1>3, <1>4, IdleFacts DEF Reads, ReadsOnly, Handed, Probing, Applying, Inside
<1>6. Writes(t)' /\ WritesOnly(t)' /\ Sending(t)' /\ LastHalf(t)'
  BY <1>1, <1>2, <1>3, NotSending
<1>7. Numbered(t)'
  BY <1>1, <1>2, <1>3, SameNumbered
<1>8. Sound(t)'
  BY <1>5, <1>6, <1>7 DEF Sound
<1>9. Typed
  BY DEF MutexInv
<1> QED BY <1>1, <1>2, <1>4, <1>8, <1>9, Moving DEF Typed

LEMMA ReceiveStep ==
  ASSUME MutexInv, NEW t \in Threads, Receive(t)
  PROVE  MutexInv'
<1>1. PICK c \in Channel : Become(t, [Next1(t) EXCEPT !.pc = "lockOne", !.at = c])
  BY DEF Receive
<1> DEFINE r == [Next1(t) EXCEPT !.pc = "lockOne", !.at = c]
<1>2. r \in Activity
  BY IdleFacts DEF Activity, Pc
<1>3. thread'[t] = r
  BY <1>1, <1>2, Becomes DEF MutexInv, Typed
<1>4. /\ r.pc = "lockOne" /\ r.chans = <<>> /\ r.half = {} /\ r.full = {}
      /\ r.out = <<>> /\ r.calls = thread[t].calls + 1
  BY DEF Next1, Idle
<1>5. thread[t].pc = "idle" /\ UNCHANGED <<read, write, mail, came, wire>>
  BY DEF Receive, Start
<1> HIDE DEF r
<1>6. Reads(t)' /\ (ReadsOnly(t) => ReadsOnly(t)') /\ Handed(t)'
  BY <1>3, <1>4, <1>5, IdleFacts DEF Reads, ReadsOnly, Handed, Probing, Applying, Inside
<1>7. Writes(t)' /\ WritesOnly(t)' /\ Sending(t)' /\ LastHalf(t)'
  BY <1>3, <1>4, <1>5, NotSending
<1>8. Numbered(t)'
  BY <1>3, <1>4, <1>5, FreshNumbered
<1>9. Sound(t)'
  BY <1>6, <1>7, <1>8, ActivityFacts DEF Sound
<1> QED BY <1>1, <1>2, <1>5, <1>9, Alone DEF r

LEMMA LockOneStep ==
  ASSUME MutexesConstants, MutexInv, NEW t \in Threads, LockOne(t)
  PROVE  MutexInv'
<1> DEFINE d == thread[t]
           r == [d EXCEPT !.pc = "receive"]
<1>1. /\ d.pc = "lockOne" /\ read[d.at] = None /\ read' = [read EXCEPT ![d.at] = t]
      /\ Become(t, r) /\ UNCHANGED <<write, mail, came, wire>>
  BY DEF LockOne, Go, Become
<1>2. r \in Activity /\ d.at \in Channel
  BY ActivityFacts DEF Activity, Pc
<1>3. thread'[t] = r
  BY <1>1, <1>2, Becomes DEF MutexInv, Typed
<1>4. /\ r.pc = "receive" /\ r.chans = d.chans /\ r.at = d.at
      /\ r.half = d.half /\ r.full = d.full /\ r.out = d.out /\ r.calls = d.calls
  BY ActivityFacts DEF Activity
<1>5. /\ read' \in [Channel -> Threads \cup {None}]
      /\ \A e \in Channel : read'[e] = IF e = d.at THEN t ELSE read[e]
  BY <1>1, <1>2 DEF MutexInv, Typed
<1> HIDE DEF r
<1>6. Reads(t)' /\ (ReadsOnly(t) => ReadsOnly(t)') /\ Handed(t)'
  BY <1>1, <1>2, <1>3, <1>4, <1>5, ActivityFacts
     DEF Sound, Reads, ReadsOnly, Handed, Probing, Applying, Inside
<1>7. Writes(t)' /\ WritesOnly(t)' /\ Sending(t)' /\ LastHalf(t)'
  BY <1>1, <1>3, <1>4, HalfEmpty, NotSending
<1>8. Numbered(t)'
  BY <1>1, <1>3, <1>4, SameNumbered
<1>9. Sound(t)'
  BY <1>6, <1>7, <1>8, ActivityFacts DEF Sound
<1>10. \A e \in Channel, u \in Threads \ {t} : read'[e] = u <=> read[e] = u
  BY <1>1, <1>5 DEF MutexesConstants, None
<1>11. Typed
  BY DEF MutexInv
<1> QED BY <1>1, <1>2, <1>5, <1>9, <1>10, <1>11, Moving DEF Typed

LEMMA ReceivedStep ==
  ASSUME MutexesConstants, MutexInv, NEW t \in Threads, Received(t)
  PROVE  MutexInv'
<1> DEFINE c == thread[t].at
<1>1. /\ thread[t].pc = "receive" /\ mail' = [mail EXCEPT ![c] = Tail(@)]
      /\ mail[c] # <<>> /\ read' = [read EXCEPT ![c] = None] /\ Become(t, Rest(t))
      /\ UNCHANGED <<write, came, wire>>
  BY DEF Received
<1>2. thread'[t] = Rest(t) /\ Rest(t) \in Activity
  BY <1>1, IdleFacts, Becomes DEF MutexInv, Typed
<1>3. /\ Rest(t).pc = "idle" /\ Rest(t).chans = <<>> /\ Rest(t).half = {} /\ Rest(t).full = {}
      /\ Rest(t).out = <<>> /\ Rest(t).calls = thread[t].calls
  BY DEF Rest, Idle
<1>4. c \in Channel /\ read[c] = t /\ mail[c] \in Seq(Nat)
  BY <1>1, ActivityFacts DEF Sound, Reads, MutexInv, Typed
<1>5. /\ read' \in [Channel -> Threads \cup {None}]
      /\ \A e \in Channel : read'[e] = IF e = c THEN None ELSE read[e]
  BY <1>1, <1>4 DEF MutexInv, Typed
<1>6. mail' \in [Channel -> Seq(Nat)] /\ \A e \in Channel \ {c} : mail'[e] = mail[e]
  BY <1>1, <1>4 DEF MutexInv, Typed
<1>7. Reads(t)' /\ Handed(t)'
  BY <1>2, <1>3, IdleFacts DEF Reads, Handed, Probing, Applying, Inside
<1>8. ReadsOnly(t) => ReadsOnly(t)'
  BY <1>1, <1>5 DEF ReadsOnly, Probing, Inside, MutexesConstants, None
<1>9. Writes(t)' /\ WritesOnly(t)' /\ Sending(t)' /\ LastHalf(t)'
  BY <1>1, <1>2, <1>3, NotSending
<1>10. Numbered(t)'
  BY <1>1, <1>2, <1>3, SameNumbered
<1>11. Sound(t)'
  BY <1>7, <1>8, <1>9, <1>10, ActivityFacts DEF Sound
<1>12. \A e \in Channel, u \in Threads \ {t} : read'[e] = u <=> read[e] = u
  BY <1>4, <1>5 DEF MutexesConstants, None
<1>13. /\ write \in [Channel -> Threads \cup {None}]
       /\ UNCHANGED <<came, wire, write>> /\ Become(t, Rest(t))
  BY <1>1 DEF MutexInv, Typed
<1>14. \A e \in Channel, u \in Threads \ {t} :
         /\ read'[e] = u <=> read[e] = u
         /\ write'[e] = u <=> write[e] = u
         /\ read[e] = u /\ mail[e] # <<>> =>
              mail'[e] # <<>> /\ Head(mail'[e]) = Head(mail[e])
  BY <1>4, <1>6, <1>12, <1>13
<1> QED BY <1>2, <1>5, <1>6, <1>11, <1>13, <1>14, Moving

(* Messages: what is sent, and the channels it goes to.                     *)
LEMMA SendsSorted ==
  ASSUME MutexesConstants, NEW s \in Sends
  PROVE  s \in Seq(Channel) /\ Sorted(s)
<1>1. CASE \E c \in Channel : s = <<c>>
  BY <1>1 DEF Sorted
<1>2. CASE \E k \in {Master, Data} : s = Cache(k)
  BY <1>2, CacheSorted
<1> QED BY <1>1, <1>2 DEF Sends

LEMMA SendOnStep ==
  ASSUME MutexInv, NEW t \in Threads, NEW d \in Activity, NEW s \in Seq(Channel), Sorted(s),
         NEW then, SendOn(t, d, s, then), d.calls = thread[t].calls + 1,
         d.half = {}, d.full = {},
         \/ thread[t].pc = "idle" /\ then # "apply"
         \/ /\ thread[t].pc = "apply" /\ then = "apply"
            /\ d.left = thread[t].left /\ d.chans = thread[t].chans
            /\ d.at = thread[t].at /\ d.head = thread[t].head
  PROVE  MutexInv'
<1> DEFINE r == [d EXCEPT !.pc = IF s = <<>> THEN "send" ELSE "lockWrite", !.out = s, !.pos = 1,
                          !.chans = IF then = "apply" THEN d.chans ELSE <<>>]
<1>1. Become(t, r) /\ UNCHANGED <<read, write, mail, came, wire>>
  BY DEF SendOn
<1>2. r \in Activity
  <2>1. <<>> \in Seq(Channel)
    OBVIOUS
  <2> QED BY <2>1 DEF Activity, Pc
<1>3. thread'[t] = r
  BY <1>1, <1>2, Becomes DEF MutexInv, Typed
<1>4. /\ r.pc = (IF s = <<>> THEN "send" ELSE "lockWrite") /\ r.out = s /\ r.pos = 1
      /\ r.chans = (IF then = "apply" THEN thread[t].chans ELSE <<>>)
      /\ then = "apply" => /\ r.left = thread[t].left /\ r.at = thread[t].at
                           /\ r.head = thread[t].head
      /\ r.half = {} /\ r.full = {} /\ r.calls = thread[t].calls + 1
  BY DEF Activity
<1> HIDE DEF r
<1>5. Reads(t)' /\ (ReadsOnly(t) => ReadsOnly(t)')
  <2>1. Sorted(r.chans)
    BY <1>4, IdleFacts, ActivityFacts DEF Sound, Reads
  <2>2. thread[t].pc = "apply" => thread[t].chans # <<>>
    BY ActivityFacts DEF Sound, Handed, Applying, ToSet
  <2> QED BY <1>1, <1>3, <1>4, <2>1, <2>2, ActivityFacts
             DEF Sound, Reads, ReadsOnly, Probing, Inside
<1>6. Handed(t)'
  BY <1>1, <1>3, <1>4, ActivityFacts DEF Sound, Handed, Applying, Inside
<1>7. Writes(t)' /\ WritesOnly(t)'
  BY <1>1, <1>3, <1>4, ActivityFacts DEF Sound, Writes, WritesOnly
<1>8. Sending(t)' /\ LastHalf(t)'
  BY <1>3, <1>4 DEF Sending, LastHalf
<1>9. Numbered(t)'
  BY <1>1, <1>3, <1>4, FreshNumbered
<1>10. Sound(t)'
  BY <1>5, <1>6, <1>7, <1>8, <1>9, ActivityFacts DEF Sound
<1> QED BY <1>1, <1>2, <1>10, Alone

LEMMA SendStep ==
  ASSUME MutexesConstants, MutexInv, NEW t \in Threads, Send(t)
  PROVE  MutexInv'
<1>1. PICK s \in Sends : SendOn(t, Next1(t), s, "idle")
  BY DEF Send
<1>2. thread[t].pc = "idle"
  BY DEF Send
<1>3. /\ Next1(t) \in Activity /\ Next1(t).calls = thread[t].calls + 1
      /\ Next1(t).half = {} /\ Next1(t).full = {}
  BY IdleFacts DEF Next1, Idle
<1> DEFINE d == Next1(t)
<1> HIDE DEF d
<1>4. SendOn(t, d, s, "idle") /\ d \in Activity /\ d.calls = thread[t].calls + 1
      /\ d.half = {} /\ d.full = {} /\ s \in Seq(Channel) /\ Sorted(s)
  BY <1>1, <1>3, SendsSorted DEF d
<1> QED BY <1>2, <1>4, SendOnStep

LEMMA SendInsideStep ==
  ASSUME MutexesConstants, MutexInv, NEW t \in Threads, SendInside(t)
  PROVE  MutexInv'
<1> DEFINE d == [thread[t] EXCEPT !.calls = @ + 1]
<1>1. PICK s \in Sends : SendOn(t, d, s, "apply")
  BY DEF SendInside
<1>2. thread[t].pc = "apply"
  BY DEF SendInside
<1>3. /\ d \in Activity /\ d.calls = thread[t].calls + 1
      /\ d.half = thread[t].half /\ d.full = thread[t].full /\ d.left = thread[t].left
      /\ d.chans = thread[t].chans /\ d.at = thread[t].at /\ d.head = thread[t].head
  BY ActivityFacts DEF Activity
<1> HIDE DEF d
<1> QED BY <1>1, <1>2, <1>3, HalfEmpty, SendsSorted, SendOnStep

LEMMA LockWriteStep ==
  ASSUME MutexesConstants, MutexInv, NEW t \in Threads, LockWrite(t)
  PROVE  MutexInv'
<1> DEFINE d == thread[t]
           c == d.out[d.pos]
           r == IF d.pos < Len(d.out) THEN [d EXCEPT !.pos = @ + 1] ELSE [d EXCEPT !.pc = "send"]
<1>1. /\ d.pc = "lockWrite" /\ write[c] = None /\ write' = [write EXCEPT ![c] = t]
      /\ Become(t, r) /\ UNCHANGED <<read, mail, came, wire>>
  BY DEF LockWrite
<1>2. d.pos \in 1..Len(d.out) /\ c \in Channel
  BY <1>1, ActivityFacts DEF Sound, Writes
<1>3. r \in Activity
  <2>1. [d EXCEPT !.pos = @ + 1] \in Activity
    BY ActivityFacts DEF Activity
  <2>2. [d EXCEPT !.pc = "send"] \in Activity
    BY ActivityFacts DEF Activity, Pc
  <2> QED BY <2>1, <2>2
<1>4. thread'[t] = r
  BY <1>1, <1>3, Becomes DEF MutexInv, Typed
<1>5. /\ r.chans = d.chans /\ r.left = d.left /\ r.half = d.half /\ r.full = d.full
      /\ r.at = d.at /\ r.head = d.head
      /\ r.out = d.out /\ r.calls = d.calls /\ r.pc \in {"lockWrite", "send"}
      /\ r.pc = "lockWrite" => r.pos = d.pos + 1 /\ d.pos < Len(d.out)
      /\ r.pc = "send" => d.pos = Len(d.out)
  BY <1>1, <1>2, ActivityFacts DEF Activity
<1>6. \A e \in Channel : write'[e] = IF e = c THEN t ELSE write[e]
  BY <1>1, <1>2 DEF MutexInv, Typed
<1>7. write' \in [Channel -> Threads \cup {None}]
  BY <1>1 DEF MutexInv, Typed
<1> HIDE DEF r
<1>8. \A i \in 1..d.pos : write'[d.out[i]] = t
  BY <1>1, <1>2, <1>6, ActivityFacts DEF Sound, Writes
<1>9. Reads(t)' /\ Handed(t)' /\ (ReadsOnly(t) => ReadsOnly(t)')
  BY <1>1, <1>4, <1>5, ActivityFacts
     DEF Sound, Reads, ReadsOnly, Handed, Probing, Applying, Inside
<1>10. Writes(t)' /\ WritesOnly(t)'
  BY <1>1, <1>2, <1>4, <1>5, <1>6, <1>8, ActivityFacts DEF Sound, Writes, WritesOnly
<1>11. Sending(t)' /\ LastHalf(t)'
  BY <1>1, <1>4, <1>5, HalfEmpty DEF Sending, LastHalf
<1>12. Numbered(t)'
  <2>1. Numbered(t)
    BY ActivityFacts DEF Sound
  <2> QED BY <1>1, <1>4, <1>5, <2>1 DEF Numbered
<1>13. Sound(t)'
  BY <1>9, <1>10, <1>11, <1>12, ActivityFacts DEF Sound
<1>14. \A e \in Channel, u \in Threads \ {t} : write'[e] = u <=> write[e] = u
  BY <1>1, <1>6 DEF MutexesConstants, None
<1>15. Typed
  BY DEF MutexInv
<1> QED BY <1>1, <1>3, <1>7, <1>13, <1>14, <1>15, Moving DEF Typed

LEMMA EndSendStep ==
  ASSUME MutexesConstants, MutexInv, NEW t \in Threads, EndSend(t)
  PROVE  MutexInv'
<1> DEFINE d == thread[t]
           back == [d EXCEPT !.pc = "apply", !.out = <<>>, !.pos = 1, !.half = {}, !.full = {}]
           r == IF d.chans # <<>> THEN back ELSE Rest(t)
<1>1. /\ d.pc \in {"send", "output"} /\ Become(t, r) /\ UNCHANGED <<read, mail, came, wire>>
      /\ write' = [c \in Channel |-> IF write[c] = t THEN None ELSE write[c]]
  BY DEF EndSend
<1>2. r \in Activity
  <2>1. <<>> \in Seq(Channel)
    OBVIOUS
  <2>2. back \in Activity
    BY <2>1, ActivityFacts DEF Activity, Pc
  <2> QED BY <2>2, IdleFacts
<1>3. thread'[t] = r
  BY <1>1, <1>2, Becomes DEF MutexInv, Typed
<1>4. /\ r.half = {} /\ r.full = {} /\ r.out = <<>> /\ r.calls = d.calls
      /\ d.chans = <<>> => r.pc = "idle" /\ r.chans = <<>>
      /\ d.chans # <<>> => /\ r.pc = "apply" /\ r.chans = d.chans /\ r.at = d.at
                           /\ r.left = d.left /\ r.head = d.head
  <2>1. CASE d.chans = <<>>
    BY <2>1 DEF Rest, Idle
  <2>2. CASE d.chans # <<>>
    BY <2>2, ActivityFacts DEF Activity
  <2> QED BY <2>1, <2>2
<1>5. d.chans # <<>> => d.pc = "send"
  BY <1>1, ActivityFacts DEF Sound, Writes
<1> HIDE DEF r
<1>6. write' \in [Channel -> Threads \cup {None}]
      /\ \A c \in Channel : write'[c] # t
                            /\ \A u \in Threads \ {t} : write'[c] = u <=> write[c] = u
  BY <1>1 DEF MutexInv, Typed, MutexesConstants, None
<1>7. Reads(t)'
  BY <1>1, <1>3, <1>4, <1>5, IdleFacts, ActivityFacts DEF Sound, Reads, Probing, Inside
<1>8. ReadsOnly(t) => ReadsOnly(t)'
  BY <1>1, <1>3, <1>4, <1>5 DEF ReadsOnly, Probing, Inside
<1>9. Handed(t)'
  BY <1>1, <1>3, <1>4, <1>5, ActivityFacts DEF Sound, Handed, Applying, Inside
<1>10. Writes(t)' /\ WritesOnly(t)' /\ Sending(t)' /\ LastHalf(t)'
  BY <1>3, <1>4, <1>6, IdleFacts DEF Writes, WritesOnly, Sending, LastHalf
<1>11. Numbered(t)'
  BY <1>1, <1>3, <1>4, SameNumbered
<1>12. Sound(t)'
  BY <1>7, <1>8, <1>9, <1>10, <1>11, ActivityFacts DEF Sound
<1>13. Typed
  BY DEF MutexInv
<1> QED BY <1>1, <1>2, <1>6, <1>12, <1>13, Moving DEF Typed

LEMMA OutputStep ==
  ASSUME MutexInv, NEW t \in Threads, Output(t)
  PROVE  MutexInv'
<1> DEFINE r == [Next1(t) EXCEPT !.pc = "output", !.out = <<<<0, Master>>>>]
<1>1. /\ Become(t, r) /\ thread[t].pc = "idle" /\ "output" \in Ops
      /\ UNCHANGED <<read, write, mail, came, wire>>
  BY DEF Output, Start
<1>2. r \in Activity /\ Sorted(<<<<0, Master>>>>)
  <2>1. <<<<0, Master>>>> \in Seq(Channel)
    BY DEF Channel
  <2>2. r \in Activity
    BY <2>1, IdleFacts DEF Activity, Pc
  <2> QED BY <2>2 DEF Sorted
<1>3. thread'[t] = r
  BY <1>1, <1>2, Becomes DEF MutexInv, Typed
<1>4. /\ r.pc = "output" /\ r.chans = <<>> /\ r.half = {} /\ r.full = {}
      /\ r.out = <<<<0, Master>>>> /\ r.calls = thread[t].calls + 1
  BY DEF Next1, Idle
<1> HIDE DEF r
<1>5. Reads(t)' /\ (ReadsOnly(t) => ReadsOnly(t)') /\ Handed(t)'
  BY <1>1, <1>3, <1>4, IdleFacts DEF Reads, ReadsOnly, Handed, Probing, Applying, Inside
<1>6. Writes(t)' /\ WritesOnly(t)'
  BY <1>1, <1>2, <1>3, <1>4, ActivityFacts DEF Sound, Writes, WritesOnly
<1>7. Sending(t)' /\ LastHalf(t)'
  BY <1>3, <1>4 DEF Sending, LastHalf
<1>8. Numbered(t)'
  BY <1>1, <1>3, <1>4, FreshNumbered
<1>9. Sound(t)'
  BY <1>5, <1>6, <1>7, <1>8, ActivityFacts DEF Sound
<1> QED BY <1>1, <1>2, <1>9, Alone

LEMMA ExitStep ==
  ASSUME MutexesConstants, MutexInv, NEW t \in Threads, Exit(t)
  PROVE  MutexInv'
<1> DEFINE d == thread[t]
           r == [d EXCEPT !.pc = "lockRead", !.chans = Cache(All), !.pos = 1]
<1>1. /\ d.pc = "apply" /\ "exitInside" \in Ops /\ Become(t, r)
      /\ UNCHANGED <<read, write, mail, came, wire>>
  BY DEF Exit
<1>2. Cache(All) \in Seq(Channel) /\ Sorted(Cache(All)) /\ Len(Cache(All)) >= 1
  <2>1. Peers \in Nat /\ Cache(All) = [i \in 1..(2 * Peers + 1) |-> Place(i)]
    BY DEF MutexesConstants, Cache
  <2>2. Cache(All) \in Seq(Channel) /\ Sorted(Cache(All))
    BY CacheSorted
  <2>3. Len(Cache(All)) = 2 * Peers + 1
    BY <2>1, PlaceNumber
  <2> QED BY <2>1, <2>2, <2>3
<1>3. r \in Activity
  BY <1>2, ActivityFacts DEF Activity, Pc
<1>4. thread'[t] = r
  BY <1>1, <1>3, Becomes DEF MutexInv, Typed
<1>5. /\ r.pc = "lockRead" /\ r.chans = Cache(All) /\ r.pos = 1 /\ r.half = d.half
      /\ r.full = d.full /\ r.out = d.out /\ r.calls = d.calls
  BY ActivityFacts DEF Activity
<1> HIDE DEF r
<1>6. Reads(t)' /\ Handed(t)'
  BY <1>1, <1>2, <1>4, <1>5 DEF Reads, Handed, Probing, Applying, Inside
<1>7. Writes(t)' /\ WritesOnly(t)' /\ Sending(t)' /\ LastHalf(t)'
  BY <1>1, <1>4, <1>5, HalfEmpty, NotSending
<1>8. Numbered(t)'
  BY <1>1, <1>4, <1>5, SameNumbered
<1>9. Sound(t)'
  BY <1>1, <1>6, <1>7, <1>8 DEF Sound
<1> QED BY <1>1, <1>3, <1>9, Alone

(* Sending: a part of a message goes to the end of the line of c.           *)
PutOn(t, c) ==
  LET d == thread[t]
      x == Part(t, d, c)
      n == Len(wire[c])
  IN /\ d.pc \in {"send", "output"} /\ c \in ToSet(d.out) \ d.full
     /\ x \in Parts /\ x.by = t /\ x.call = d.calls /\ x.all = (Len(d.out) > 1)
     /\ x.last = (c \in d.half)
     /\ d.pc = "send" => write[c] = t
     /\ d.pc = "output" => ~x.all /\ c \notin Exclusive
     /\ wire' \in [Channel -> Seq(Parts)] /\ n \in Nat /\ Len(wire'[c]) = n + 1
     /\ wire'[c][n + 1] = x
     /\ \A i \in 1..n : wire'[c][i] = wire[c][i]
     /\ \A e \in Channel \ {c} : wire'[e] = wire[e]
     /\ thread' \in [Threads -> Activity]
     /\ \A u \in Threads \ {t} : thread'[u] = thread[u]
     /\ thread'[t].pc = d.pc /\ thread'[t].chans = d.chans
     /\ thread'[t].pos = d.pos /\ thread'[t].left = d.left
     /\ thread'[t].at = d.at /\ thread'[t].head = d.head
     /\ thread'[t].out = d.out /\ thread'[t].calls = d.calls
     /\ thread'[t].half = d.half \cup {c}
     /\ thread'[t].full = d.full \cup (d.half \cap {c})
     /\ UNCHANGED <<read, write, mail, came>>

LEMMA PutFacts ==
  ASSUME MutexInv, NEW t \in Threads, Put(t)
  PROVE  \E c \in Channel : PutOn(t, c)
<1> DEFINE d == thread[t]
<1>1. PICK c \in ToSet(d.out) \ d.full :
        /\ wire' = [wire EXCEPT ![c] = Append(@, Part(t, d, c))]
        /\ Become(t, [d EXCEPT !.half = @ \cup {c}, !.full = @ \cup (d.half \cap {c})])
  BY DEF Put
<1>2. d.pc \in {"send", "output"} /\ UNCHANGED <<read, write, mail, came>>
  BY DEF Put
<1> DEFINE x == Part(t, d, c)
           r == [d EXCEPT !.half = @ \cup {c}, !.full = @ \cup (d.half \cap {c})]
<1>3. PICK k \in 1..Len(d.out) : c = d.out[k]
  BY <1>1, ActivityFacts DEF ToSet
<1>4. c \in Channel
  BY <1>3, ActivityFacts
<1>5. /\ x \in Parts /\ x.by = t /\ x.call = d.calls /\ x.all = (Len(d.out) > 1)
      /\ x.last = (c \in d.half)
  BY ActivityFacts DEF Part, Parts
<1>6. /\ d.pc = "send" => write[c] = t
      /\ d.pc = "output" => ~x.all /\ c \notin Exclusive
  <2>1. Writes(t)
    BY ActivityFacts DEF Sound
  <2>2. d.pc = "output" => Len(d.out) = 1 /\ "output" \in Ops /\ d.out[1] = <<0, Master>>
    BY <2>1 DEF Writes
  <2>3. ASSUME d.pc = "output" PROVE c \notin Exclusive
    <3>1. k = 1
      BY <1>3, <2>2, <2>3
    <3>2. c = <<0, Master>>
      BY <1>3, <2>2, <2>3, <3>1
    <3> QED BY <2>2, <2>3, <3>2 DEF Exclusive
  <2>4. ASSUME d.pc = "output" PROVE ~x.all
    <3>1. Len(d.out) = 1
      BY <2>2, <2>4
    <3>2. ~(1 > 1)
      OBVIOUS
    <3>3. ~(Len(d.out) > 1)
      BY ONLY <3>1, <3>2
    <3> QED BY <3>3 DEF Part
  <2> QED BY <1>3, <2>1, <2>3, <2>4 DEF Writes
<1>7. wire \in [Channel -> Seq(Parts)]
  BY DEF MutexInv, Typed
<1> HIDE DEF x
<1>8. /\ wire' \in [Channel -> Seq(Parts)] /\ wire'[c] = Append(wire[c], x)
      /\ \A e \in Channel \ {c} : wire'[e] = wire[e]
  BY <1>1, <1>4, <1>5, <1>7 DEF x
<1>9. /\ Len(wire[c]) \in Nat /\ Len(wire'[c]) = Len(wire[c]) + 1
      /\ wire'[c][Len(wire[c]) + 1] = x
      /\ \A i \in 1..Len(wire[c]) : wire'[c][i] = wire[c][i]
  BY <1>4, <1>5, <1>7, <1>8
<1>10. r \in Activity
  BY <1>4, ActivityFacts DEF Activity
<1>11. /\ thread' \in [Threads -> Activity] /\ thread'[t] = r
       /\ \A u \in Threads \ {t} : thread'[u] = thread[u]
  BY <1>1, <1>10, Becomes DEF MutexInv, Typed
<1>12. /\ r.pc = d.pc /\ r.chans = d.chans /\ r.pos = d.pos /\ r.left = d.left
       /\ r.at = d.at /\ r.head = d.head /\ r.out = d.out /\ r.calls = d.calls
       /\ r.half = d.half \cup {c} /\ r.full = d.full \cup (d.half \cap {c})
  BY ActivityFacts DEF Activity
<1> HIDE DEF r
<1>13. PutOn(t, c)
  BY <1>1, <1>2, <1>5, <1>6, <1>8, <1>9, <1>11, <1>12 DEF PutOn, x
<1> QED BY <1>4, <1>13

LEMMA PutOrder ==
  ASSUME MutexInv, NEW t \in Threads, Put(t)
  PROVE  Ordered'
<1> DEFINE d == thread[t]
<1>0. PICK c \in Channel : PutOn(t, c)
  BY PutFacts
<1>1. LET x == Part(t, d, c)
          n == Len(wire[c])
      IN /\ d.pc \in {"send", "output"} /\ x.by = t /\ x.call = d.calls
         /\ d.pc = "output" => ~x.all
         /\ n \in Nat /\ Len(wire'[c]) = n + 1 /\ wire'[c][n + 1] = x
         /\ \A i \in 1..n : wire'[c][i] = wire[c][i]
         /\ \A e \in Channel \ {c} : wire'[e] = wire[e]
  BY <1>0 DEF PutOn
<1> DEFINE x == Part(t, d, c)
           last == Len(wire[c]) + 1
<1>2. Ordered /\ Numbered(t) /\ \A e \in Channel : Len(wire[e]) \in Nat
  <2>1. \A e \in Channel : wire[e] \in Seq(Parts)
    BY DEF MutexInv, Typed
  <2>2. \A e \in Channel : Len(wire[e]) \in Nat
    BY <2>1
  <2> QED BY <2>2, ActivityFacts DEF MutexInv, Sound
<1>3. ASSUME NEW e \in Channel, NEW v \in Threads, NEW k \in Nat, NEW i \in At(e, v, k)'
      PROVE  \/ i \in At(e, v, k)
             \/ e = c /\ i = last /\ v = t /\ k = d.calls /\ d.pc = "send"
  <2>1. i \in 1..Len(wire'[e]) /\ wire'[e][i].by = v /\ wire'[e][i].call = k /\ wire'[e][i].all
    BY <1>3 DEF At
  <2>2. CASE e # c
    BY <1>1, <2>1, <2>2 DEF At
  <2>3. CASE e = c /\ i # last
    BY <1>1, <2>1, <2>3 DEF At
  <2>4. CASE e = c /\ i = last
    BY <1>1, <2>1, <2>4
  <2> QED BY <2>2, <2>3, <2>4
<1>4. ASSUME NEW e \in Channel, NEW v \in Threads, v # t, NEW k \in Nat, d.pc = "send",
             NEW i \in At(e, t, d.calls), NEW j \in At(e, v, k), i < j
      PROVE  FALSE
  <2>1. i \in 1..Len(wire[e]) /\ wire[e][i].by = t /\ wire[e][i].call = d.calls /\ wire[e][i].all
    BY <1>4 DEF At
  <2>2. j \in 1..Len(wire[e]) /\ wire[e][j].by = v /\ wire[e][j].all
    BY <1>4 DEF At
  <2> QED BY <1>2, <1>4, <2>1, <2>2 DEF Numbered
<1>5. ASSUME NEW e \in Channel, NEW v \in Threads, NEW k \in Nat, NEW i \in At(e, v, k)
      PROVE  i \in Nat /\ (e = c => i < last)
  BY <1>1, <1>2, <1>5 DEF At
<1> SUFFICES ASSUME NEW v \in Threads, NEW u \in Threads, NEW m \in Nat, NEW n \in Nat, v # u,
                    NEW a \in Channel, NEW b \in Channel,
                    NEW i \in At(a, v, m)', NEW j \in At(a, u, n)', i < j,
                    NEW i2 \in At(b, v, m)', NEW j2 \in At(b, u, n)', i2 > j2
             PROVE  FALSE
  BY DEF Ordered
<1> HIDE DEF d, last
<1>6. i \in At(a, v, m)
  <2>1. i \in At(a, v, m) \/ (a = c /\ i = last /\ v = t)
    BY <1>3
  <2>2. j \in At(a, u, n) \/ u = t
    BY <1>3
  <2>3. j \in At(a, u, n) /\ a = c => j \in Nat /\ j < last
    BY <1>5
  <2>4. last \in Nat
    BY <1>2 DEF last
  <2> QED BY <2>1, <2>2, <2>3, <2>4
<1>7. j2 \in At(b, u, n)
  <2>1. j2 \in At(b, u, n) \/ (b = c /\ j2 = last /\ u = t)
    BY <1>3
  <2>2. i2 \in At(b, v, m) \/ v = t
    BY <1>3
  <2>3. i2 \in At(b, v, m) /\ b = c => i2 \in Nat /\ i2 < last
    BY <1>5
  <2>4. last \in Nat
    BY <1>2 DEF last
  <2> QED BY <2>1, <2>2, <2>3, <2>4
<1>8. CASE j \notin At(a, u, n)
  <2>1. u = t /\ n = d.calls /\ d.pc = "send"
    BY <1>3, <1>8
  <2>2. i2 \in At(b, v, m)
    BY <1>3, <2>1
  <2> QED BY <1>4, <1>7, <2>1, <2>2
<1>9. CASE i2 \notin At(b, v, m)
  <2>1. v = t /\ m = d.calls /\ d.pc = "send"
    BY <1>3, <1>9
  <2>2. j \in At(a, u, n)
    BY <1>3, <2>1
  <2> QED BY <1>4, <1>6, <2>1, <2>2
<1>10. CASE j \in At(a, u, n) /\ i2 \in At(b, v, m)
  BY <1>2, <1>6, <1>7, <1>10 DEF Ordered
<1> QED BY <1>8, <1>9, <1>10

(* The others: a part goes only to a channel whose write mutex they do not  *)
(* hold, unless it is output.                                               *)
LEMMA PutOthers ==
  ASSUME MutexInv, NEW t \in Threads, Put(t), NEW u \in Threads \ {t}
  PROVE  Sound(u)'
<1> DEFINE d == thread[t]
           e == thread[u]
<1>0. PICK c \in Channel : PutOn(t, c)
  BY PutFacts
<1>1. LET x == Part(t, d, c)
          n == Len(wire[c])
      IN /\ d.pc \in {"send", "output"} /\ x.by = t
         /\ d.pc = "send" => write[c] = t
         /\ d.pc = "output" => ~x.all /\ c \notin Exclusive
         /\ n \in Nat /\ Len(wire'[c]) = n + 1 /\ wire'[c][n + 1] = x
         /\ \A i \in 1..n : wire'[c][i] = wire[c][i]
         /\ \A b \in Channel \ {c} : wire'[b] = wire[b]
         /\ thread'[u] = thread[u]
         /\ UNCHANGED <<read, write, mail>>
  BY <1>0 DEF PutOn
<1> DEFINE x == Part(t, d, c)
           n == Len(wire[c])
<1>2. Typed /\ Sound(u) /\ e \in Activity /\ e.pc \in Pc /\ e.out \in Seq(Channel)
      /\ wire[c] \in Seq(Parts)
  BY ActivityFacts DEF MutexInv, Typed
<1>3. /\ Reads(u)' /\ Writes(u)' /\ WritesOnly(u)' /\ Handed(u)' /\ Sending(u)'
      /\ ReadsOnly(u) => ReadsOnly(u)'
  BY <1>1, <1>2, MutexesKept
<1> HIDE DEF x, n, d
<1>4. ASSUME e.pc = "send", c \in ToSet(e.out) PROVE d.pc = "output"
  <2>1. PICK k \in 1..Len(e.out) : c = e.out[k]
    BY <1>2, <1>4 DEF ToSet
  <2>2. write[c] = u
    BY <1>2, <1>4, <2>1 DEF Sound, Writes
  <2> QED BY <1>1, <2>2 DEF d
<1>5. Numbered(u)'
  <2> SUFFICES ASSUME NEW b \in Channel, NEW i \in 1..Len(wire'[b]), wire'[b][i].by = u
               PROVE /\ wire'[b][i].call <= e.calls
                     /\ wire'[b][i].all /\ wire'[b][i].call = e.calls =>
                          /\ e.pc # "lockWrite"
                          /\ e.pc = "send" => /\ b \in ToSet(e.out)
                                              /\ \A j \in 1..Len(wire'[b]) :
                                                   i < j /\ wire'[b][j].all => wire'[b][j].by = u
    BY <1>1 DEF Numbered
  <2>1. Numbered(u)
    BY <1>2 DEF Sound
  <2>2. CASE b # c
    BY <1>1, <2>1, <2>2 DEF Numbered
  <2>3. CASE b = c
    <3>1. i \in 1..n /\ wire[c][i].by = u /\ wire'[c][i] = wire[c][i]
      BY <1>1, <2>3 DEF x, n, d
    <3>2. /\ wire[c][i].call <= e.calls
          /\ wire[c][i].all /\ wire[c][i].call = e.calls =>
               /\ e.pc # "lockWrite"
               /\ e.pc = "send" => /\ c \in ToSet(e.out)
                                   /\ \A j \in 1..n : i < j /\ wire[c][j].all => wire[c][j].by = u
      BY <2>1, <3>1 DEF Numbered, n
    <3>3. ASSUME wire[c][i].all, wire[c][i].call = e.calls, e.pc = "send",
                 NEW j \in 1..Len(wire'[c]), i < j, wire'[c][j].all
          PROVE  wire'[c][j].by = u
      <4>1. c \in ToSet(e.out)
        BY <3>2, <3>3
      <4>2. d.pc = "output"
        BY <1>4, <3>3, <4>1
      <4>3. ~x.all
        BY <1>1, <4>2 DEF x, d
      <4>4. j \in 1..n
        <5>1. n \in Nat /\ Len(wire'[c]) = n + 1 /\ wire'[c][n + 1] = x
          BY <1>1 DEF x, n, d
        <5>2. j # n + 1
          BY <3>3, <4>3, <5>1
        <5> QED BY <5>1, <5>2
      <4>5. wire'[c][j] = wire[c][j]
        BY <1>1, <4>4 DEF n
      <4> QED BY <3>2, <3>3, <4>4, <4>5
    <3> QED BY <2>3, <3>1, <3>2, <3>3
  <2> QED BY <2>2, <2>3
<1>6. LastHalf(u)'
  <2>1. LastHalf(u) /\ Sending(u)
    BY <1>2 DEF Sound
  <2>2. d.pc = "output" => c \notin Exclusive
    BY <1>1 DEF d
  <2> SUFFICES ASSUME e.pc = "send", NEW b \in (e.half \ e.full) \cap Exclusive
               PROVE  /\ wire'[b] # <<>>
                      /\ wire'[b][Len(wire'[b])] = [by |-> u, call |-> e.calls,
                                                    all |-> Len(e.out) > 1, last |-> FALSE]
    BY <1>1 DEF LastHalf
  <2>3. b \in ToSet(e.out) /\ b \in Channel
    BY <2>1, ActivityFacts DEF Sending
  <2>4. b # c
    BY <1>4, <2>2, <2>3
  <2>5. wire'[b] = wire[b]
    BY <1>1, <2>3, <2>4
  <2> QED BY <2>1, <2>5 DEF LastHalf
<1> QED BY <1>2, <1>3, <1>5, <1>6 DEF Sound

(* The thread that sends, and the lines.                                    *)
LEMMA PutOwn ==
  ASSUME MutexInv, NEW t \in Threads, Put(t)
  PROVE  Sound(t)' /\ Typed' /\ Contiguous'
<1> DEFINE d == thread[t]
           g == thread'[t]
<1>0. PICK c \in Channel : PutOn(t, c)
  BY PutFacts
<1>1. LET x == Part(t, d, c)
          n == Len(wire[c])
      IN /\ d.pc \in {"send", "output"} /\ c \in ToSet(d.out) \ d.full
         /\ x.by = t /\ x.call = d.calls
         /\ d.pc = "output" => ~x.all /\ c \notin Exclusive
         /\ wire' \in [Channel -> Seq(Parts)] /\ n \in Nat /\ Len(wire'[c]) = n + 1
         /\ wire'[c][n + 1] = x
         /\ \A i \in 1..n : wire'[c][i] = wire[c][i]
         /\ \A b \in Channel \ {c} : wire'[b] = wire[b]
         /\ thread' \in [Threads -> Activity]
         /\ g.pc = d.pc /\ g.chans = d.chans /\ g.pos = d.pos /\ g.left = d.left
         /\ g.at = d.at /\ g.head = d.head /\ g.out = d.out /\ g.calls = d.calls
         /\ g.half = d.half \cup {c} /\ g.full = d.full \cup (d.half \cap {c})
         /\ UNCHANGED <<read, write, mail, came>>
  BY <1>0 DEF PutOn
<1> DEFINE x == Part(t, d, c)
           n == Len(wire[c])
<1>2. /\ Sound(t) /\ Typed /\ wire[c] \in Seq(Parts) /\ d.calls \in Nat
      /\ \A b \in Channel : Len(wire[b]) \in Nat
  <2>1. \A b \in Channel : wire[b] \in Seq(Parts)
    BY DEF MutexInv, Typed
  <2>2. \A b \in Channel : Len(wire[b]) \in Nat
    BY <2>1
  <2> QED BY <2>1, <2>2, ActivityFacts DEF MutexInv
<1>3. Typed'
  BY <1>1, <1>2 DEF Typed
<1> DEFINE many == Len(d.out) > 1
           second == c \in d.half
           first == [by |-> t, call |-> d.calls, all |-> many, last |-> FALSE]
<1>4. x = [by |-> t, call |-> d.calls, all |-> many, last |-> second]
  BY DEF Part
<1> HIDE DEF x, n, d, g, many, second
<1>5. [x EXCEPT !.last = FALSE] = first
  <2> DEFINE no == FALSE
  <2> HIDE DEF no
  <2>1. [x EXCEPT !.last = no] = [by |-> t, call |-> d.calls, all |-> many, last |-> no]
    BY <1>4
  <2> QED BY <2>1 DEF no
<1>6. ASSUME c \notin d.half PROVE x = first
  <2>1. (c \in d.half) = FALSE
    BY <1>6
  <2>2. second = FALSE
    BY <2>1 DEF second
  <2> QED BY <1>4, <2>2
<1>7. x.last = second
  BY <1>4
<1> HIDE DEF first
<1>8. Reads(t)' /\ (ReadsOnly(t) => ReadsOnly(t)')
  BY <1>1, <1>2 DEF Sound, Reads, ReadsOnly, Probing, Inside, d, g
<1>9. Writes(t)' /\ WritesOnly(t)'
  BY <1>1, <1>2 DEF Sound, Writes, WritesOnly, d, g
<1>10. Handed(t)'
  BY <1>1, <1>2 DEF Sound, Handed, Applying, Inside, d, g
<1>11. Sending(t)'
  BY <1>1, <1>2 DEF Sound, Sending, d, g
<1>12. Numbered(t)'
  <2>1. Numbered(t)
    BY <1>2 DEF Sound
  <2>0. d.pc # "lockWrite" /\ g.pc = d.pc /\ g.out = d.out /\ g.calls = d.calls
    BY <1>1 DEF d, g
  <2> SUFFICES ASSUME NEW b \in Channel, NEW i \in 1..Len(wire'[b]), wire'[b][i].by = t
               PROVE /\ wire'[b][i].call <= g.calls
                     /\ wire'[b][i].all /\ wire'[b][i].call = g.calls =>
                          /\ g.pc # "lockWrite"
                          /\ g.pc = "send" => /\ b \in ToSet(g.out)
                                              /\ \A j \in 1..Len(wire'[b]) :
                                                   i < j /\ wire'[b][j].all => wire'[b][j].by = t
    BY DEF Numbered, g
  <2> SUFFICES /\ wire'[b][i].call <= d.calls
               /\ wire'[b][i].all /\ wire'[b][i].call = d.calls /\ d.pc = "send" =>
                    /\ b \in ToSet(d.out)
                    /\ \A j \in 1..Len(wire'[b]) :
                         i < j /\ wire'[b][j].all => wire'[b][j].by = t
    BY <2>0
  <2>2. CASE b # c
    BY <1>1, <2>1, <2>2 DEF Numbered, d
  <2>3. CASE b = c /\ i # n + 1
    <3>1. i \in 1..n /\ wire'[c][i] = wire[c][i] /\ wire[c][i].by = t
      BY <1>1, <2>3 DEF n, d, g
    <3>2. /\ wire[c][i].call <= d.calls
          /\ wire[c][i].all /\ wire[c][i].call = d.calls /\ d.pc = "send" =>
               \A j \in 1..n : i < j /\ wire[c][j].all => wire[c][j].by = t
      BY <2>1, <3>1 DEF Numbered, n, d
    <3>3. \A j \in 1..Len(wire'[c]) : \/ j \in 1..n /\ wire'[c][j] = wire[c][j]
                                      \/ wire'[c][j] = x
      BY <1>1 DEF n, d, g, x
    <3>4. x.by = t /\ c \in ToSet(d.out)
      BY <1>1 DEF x, d
    <3> QED BY <2>3, <3>1, <3>2, <3>3, <3>4
  <2>4. CASE b = c /\ i = n + 1
    <3>1. /\ wire'[c][i] = x /\ x.call = d.calls /\ c \in ToSet(d.out)
          /\ Len(wire'[c]) = n + 1 /\ n \in Nat
      BY <1>1, <2>4 DEF x, n, d, g
    <3> QED BY <1>2, <2>4, <3>1 DEF d
  <2> QED BY <2>2, <2>3, <2>4
<1>13. LastHalf(t)'
  <2>1. LastHalf(t)
    BY <1>2 DEF Sound
  <2> SUFFICES ASSUME d.pc = "send", NEW b \in (g.half \ g.full) \cap Exclusive
               PROVE  wire'[b] # <<>> /\ wire'[b][Len(wire'[b])] = first
    BY <1>1 DEF LastHalf, first, many, d, g
  <2>2. CASE b = c
    <3>1. c \notin d.half
      BY <1>1, <2>2 DEF d, g
    <3>2. x = first
      BY <1>6, <3>1
    <3>3. n \in Nat /\ Len(wire'[c]) = n + 1 /\ wire'[c][n + 1] = x
      BY <1>1 DEF n, x, d
    <3>4. wire'[c] # <<>>
      BY <3>3
    <3> QED BY <2>2, <3>2, <3>3, <3>4
  <2>3. CASE b # c
    <3>1. b \in (d.half \ d.full) \cap Exclusive /\ b \in Channel /\ wire'[b] = wire[b]
      BY <1>1, <2>3, ActivityFacts DEF d, g
    <3> QED BY <2>1, <3>1 DEF LastHalf, first, many, d
  <2> QED BY <2>2, <2>3
<1>14. CASE c \in Exclusive
  <2>1. LastHalf(t) /\ Contiguous /\ d.pc = "send"
    BY <1>1, <1>2, <1>14 DEF Sound, MutexInv, d
  <2>2. ASSUME NEW b \in Exclusive \ {c} PROVE Whole(wire'[b])
    BY <1>1, <2>1 DEF Contiguous, Exclusive
  <2>3. /\ Len(wire'[c]) = n + 1 /\ n \in Nat /\ wire'[c][n + 1] = x
        /\ \A i \in 1..n : wire'[c][i] = wire[c][i]
    BY <1>1 DEF n, x, d
  <2>4. ASSUME x.last PROVE n >= 1 /\ wire[c][n] = [x EXCEPT !.last = FALSE]
    <3>1. c \in (d.half \ d.full) \cap Exclusive
      BY <1>1, <1>7, <1>14, <2>4 DEF second, d
    <3>2. wire[c] # <<>> /\ wire[c][n] = first
      BY <2>1, <3>1 DEF LastHalf, first, many, d, n
    <3>3. [x EXCEPT !.last = FALSE] = first
      BY <1>5
    <3>4. n # 0
      BY <1>2, <3>2 DEF n
    <3> QED BY <2>3, <3>2, <3>3, <3>4
  <2>5. Whole(wire[c])
    BY <1>14, <2>1 DEF Contiguous
  <2>6. ASSUME NEW i \in 1..(n + 1), wire'[c][i].last
        PROVE  i > 1 /\ wire'[c][i - 1] = [wire'[c][i] EXCEPT !.last = FALSE]
    <3>1. CASE i = n + 1
      <4>1. x.last
        BY <2>3, <2>6, <3>1
      <4>2. n >= 1 /\ wire[c][n] = [x EXCEPT !.last = FALSE]
        BY <2>4, <4>1
      <4>3. i - 1 = n /\ n \in 1..n /\ i > 1
        BY <2>3, <3>1, <4>2
      <4>4. wire'[c][i - 1] = wire[c][n] /\ wire'[c][i] = x
        BY <2>3, <3>1, <4>3
      <4> QED BY <4>2, <4>3, <4>4
    <3>2. CASE i # n + 1
      <4>1. i \in 1..n /\ wire[c][i].last
        BY <2>3, <2>6, <3>2
      <4>2. i > 1 /\ wire[c][i - 1] = [wire[c][i] EXCEPT !.last = FALSE]
        BY <2>5, <4>1 DEF Whole, n
      <4>3. i - 1 \in 1..n
        BY <2>3, <4>1, <4>2
      <4> QED BY <2>3, <4>1, <4>2, <4>3
    <3> QED BY <3>1, <3>2
  <2>7. Whole(wire'[c])
    BY <2>3, <2>6 DEF Whole
  <2>8. Contiguous'
    BY <2>2, <2>7 DEF Contiguous
  <2> QED BY <1>2, <1>3, <1>8, <1>9, <1>10, <1>11, <1>12, <1>13, <2>8 DEF Sound
<1>15. CASE c \notin Exclusive
  <2>1. Contiguous
    BY DEF MutexInv
  <2>2. ASSUME NEW b \in Exclusive PROVE Whole(wire'[b])
    BY <1>1, <1>15, <2>1 DEF Contiguous, Exclusive
  <2>3. Contiguous'
    BY <2>2 DEF Contiguous
  <2> QED BY <1>2, <1>3, <1>8, <1>9, <1>10, <1>11, <1>12, <1>13, <2>3 DEF Sound
<1> QED BY <1>14, <1>15

LEMMA PutStep ==
  ASSUME MutexInv, NEW t \in Threads, Put(t)
  PROVE  MutexInv'
<1>1. \A u \in Threads : Sound(u)'
  BY PutOthers, PutOwn
<1> QED BY <1>1, PutOrder, PutOwn DEF MutexInv

-----------------------------------------------------------------------------
(* The invariant holds at the beginning, and every step keeps it.           *)
LEMMA MutexInit ==
  ASSUME MutexesConstants, Init
  PROVE  MutexInv
<1>1. /\ read = [c \in Channel |-> None] /\ write = [c \in Channel |-> None]
      /\ mail = [c \in Channel |-> <<>>] /\ came = [c \in Channel |-> 0]
      /\ wire = [c \in Channel |-> <<>>] /\ thread = [t \in Threads |-> Idle]
  BY DEF Init
<1>2. Idle \in Activity
  <2>1. <<0, Master>> \in Channel /\ <<>> \in Seq(Channel)
    BY DEF Channel
  <2> QED BY <2>1 DEF Idle, Activity, Pc
<1>3. Typed
  BY <1>1, <1>2 DEF Typed
<1>4. \A c \in Channel : read[c] = None /\ write[c] = None /\ wire[c] = <<>> /\ Len(wire[c]) = 0
  BY <1>1
<1>5. Ordered
  BY <1>4 DEF Ordered, At
<1>6. Contiguous
  BY <1>4 DEF Contiguous, Whole, Exclusive
<1>7. ASSUME NEW t \in Threads PROVE Sound(t)
  <2>1. thread[t] = Idle
    BY <1>1
  <2>2. /\ thread[t].pc = "idle" /\ thread[t].chans = <<>> /\ thread[t].out = <<>>
        /\ thread[t].half = {} /\ thread[t].full = {}
    BY <2>1 DEF Idle
  <2>3. Reads(t) /\ Writes(t)
    BY <2>2 DEF Reads, Writes, Sorted, Probing, Inside
  <2>4. ReadsOnly(t) /\ WritesOnly(t)
    BY <1>4 DEF ReadsOnly, WritesOnly, MutexesConstants, None
  <2>5. Handed(t) /\ Sending(t) /\ LastHalf(t)
    BY <2>2 DEF Handed, Sending, LastHalf, Applying, Inside
  <2>6. Numbered(t)
    BY <1>4 DEF Numbered
  <2> QED BY <2>3, <2>4, <2>5, <2>6 DEF Sound
<1> QED BY <1>3, <1>5, <1>6, <1>7 DEF MutexInv

LEMMA MutexNext ==
  ASSUME MutexesConstants, MutexInv, Next
  PROVE  MutexInv'
<1>1. CASE \E c \in Channel : Arrive(c)
  BY <1>1, ArriveStep
<1>2. CASE \E t \in Threads : Probe(t) \/ LockRead(t) \/ Poll(t) \/ Process(t) \/ Apply(t)
                              \/ EndProbe(t)
  BY <1>2, ProbeStep, LockReadStep, PollStep, ProcessStep, ApplyStep, EndProbeStep
<1>3. CASE \E t \in Threads : Receive(t) \/ LockOne(t) \/ Received(t)
  BY <1>3, ReceiveStep, LockOneStep, ReceivedStep
<1>4. CASE \E t \in Threads : Send(t) \/ SendInside(t) \/ LockWrite(t) \/ Put(t) \/ EndSend(t)
  BY <1>4, SendStep, SendInsideStep, LockWriteStep, PutStep, EndSendStep
<1>5. CASE \E t \in Threads : Output(t) \/ Exit(t)
  BY <1>5, OutputStep, ExitStep
<1> QED BY <1>1, <1>2, <1>3, <1>4, <1>5 DEF Next

LEMMA MutexStutter ==
  ASSUME MutexInv, UNCHANGED vars
  PROVE  MutexInv'
<1>1. /\ read' = read /\ write' = write /\ mail' = mail /\ came' = came /\ wire' = wire
      /\ thread' = thread
  BY DEF vars
<1>2. Typed /\ Typed'
  BY <1>1 DEF MutexInv, Typed
<1>3. \A t \in Threads : Sound(t)'
  BY <1>1, <1>2, OtherKept DEF MutexInv
<1> QED BY <1>1, <1>2, <1>3, Quiet

LEMMA MutexAlways == MutexesConstants => (Spec => []MutexInv)
<1> SUFFICES ASSUME MutexesConstants PROVE Spec => []MutexInv
  OBVIOUS
<1>1. Init => MutexInv
  BY MutexInit
<1>2. MutexInv /\ [Next]_vars => MutexInv'
  BY MutexNext, MutexStutter
<1> QED BY <1>1, <1>2, PTL DEF Spec

(* Who waits for a mutex waits for one beyond those it holds: the reading   *)
(* mutexes in the order of the numbers, then the writing ones.              *)
Top == 2 * Peers + 3
Rank(t) == LET d == thread[t]
           IN IF d.pc = "lockRead" THEN Number(d.chans[d.pos])
              ELSE IF d.pc = "lockOne" THEN Number(d.at)
              ELSE Top + Number(d.out[d.pos])
Waits(t) == thread[t].pc \in {"lockRead", "lockOne", "lockWrite"}

LEMMA NumberFacts ==
  ASSUME MutexesConstants, NEW c \in Channel
  PROVE  Number(c) \in Nat /\ Number(c) < Top /\ Top \in Nat
BY DEF MutexesConstants, Number, Top, Channel, Master, Data

LEMMA RankFacts ==
  ASSUME MutexesConstants, MutexInv, NEW t \in Threads, Waits(t)
  PROVE  Rank(t) \in Nat /\ Rank(t) < 2 * Top
<1> DEFINE d == thread[t]
<1>1. /\ d.pc = "lockRead" => d.chans[d.pos] \in Channel
      /\ d.pc = "lockWrite" => d.out[d.pos] \in Channel
      /\ d.at \in Channel
  BY ActivityFacts DEF Sound, Reads, Writes
<1>2. \A c \in Channel : Number(c) \in Nat /\ Number(c) < Top /\ Top \in Nat
  BY NumberFacts
<1> HIDE DEF d
<1>3. CASE d.pc = "lockRead"
  BY <1>1, <1>2, <1>3 DEF Rank, d
<1>4. CASE d.pc = "lockOne"
  BY <1>1, <1>2, <1>4 DEF Rank, d
<1>5. CASE d.pc = "lockWrite"
  BY <1>1, <1>2, <1>5 DEF Rank, d
<1> QED BY <1>3, <1>4, <1>5 DEF Waits, d

LEMMA RankGrows ==
  ASSUME MutexesConstants, MutexInv, "exitInside" \notin Ops, NEW t \in Threads,
         NEW u \in Threads, Wants(t, u), Waits(u)
  PROVE  Rank(t) < Rank(u)
<1> DEFINE d == thread[t]
           e == thread[u]
<1>1. /\ d.chans \in Seq(Channel) /\ d.out \in Seq(Channel) /\ d.at \in Channel
      /\ e.chans \in Seq(Channel) /\ e.out \in Seq(Channel) /\ e.at \in Channel
      /\ d.pc = "lockRead" => d.pos \in 1..Len(d.chans)
      /\ d.pc = "lockWrite" => d.pos \in 1..Len(d.out)
      /\ e.pc = "lockRead" => e.pos \in 1..Len(e.chans)
      /\ e.pc = "lockWrite" => e.pos \in 1..Len(e.out)
      /\ Sorted(e.chans) /\ Sorted(e.out) /\ ReadsOnly(u) /\ WritesOnly(u)
  BY ActivityFacts DEF Sound, Reads, Writes
<1>2. \A c \in Channel : Number(c) \in Nat /\ Number(c) < Top /\ Top \in Nat
  BY NumberFacts
<1>3. ASSUME NEW c \in Channel, read[c] = u PROVE Number(c) < Rank(u)
  <2>1. \/ e.pc = "lockWrite"
        \/ e.pc = "lockRead" /\ \E i \in 1..(e.pos - 1) : c = e.chans[i]
    BY <1>1, <1>3 DEF ReadsOnly, Probing, Inside, Waits
  <2>2. CASE e.pc = "lockWrite"
    <3>1. e.out[e.pos] \in Channel /\ Rank(u) = Top + Number(e.out[e.pos])
      BY <1>1, <2>2 DEF Rank
    <3> QED BY <1>2, <3>1
  <2>3. CASE e.pc = "lockRead" /\ \E i \in 1..(e.pos - 1) : c = e.chans[i]
    <3>1. PICK i \in 1..(e.pos - 1) : c = e.chans[i]
      BY <2>3
    <3>2. i \in 1..Len(e.chans) /\ i < e.pos
      BY <1>1, <2>3
    <3>3. Rank(u) = Number(e.chans[e.pos])
      BY <2>3 DEF Rank
    <3> QED BY <1>1, <2>3, <3>1, <3>2, <3>3 DEF Sorted
  <2> QED BY <2>1, <2>2, <2>3
<1>4. ASSUME NEW c \in Channel, write[c] = u PROVE Top + Number(c) < Rank(u)
  <2>1. e.pc = "lockWrite" /\ \E i \in 1..(e.pos - 1) : c = e.out[i]
    BY <1>1, <1>4 DEF WritesOnly, Waits
  <2>2. PICK i \in 1..(e.pos - 1) : c = e.out[i]
    BY <2>1
  <2>3. i \in 1..Len(e.out) /\ i < e.pos /\ e.out[e.pos] \in Channel
    BY <1>1, <2>1
  <2>4. Rank(u) = Top + Number(e.out[e.pos])
    BY <2>1 DEF Rank
  <2>5. Number(c) < Number(e.out[e.pos])
    BY <1>1, <2>1, <2>2, <2>3 DEF Sorted
  <2> QED BY <1>2, <2>3, <2>4, <2>5
<1>5. CASE d.pc = "lockRead" /\ read[d.chans[d.pos]] = u
  <2>1. d.chans[d.pos] \in Channel /\ Rank(t) = Number(d.chans[d.pos])
    BY <1>1, <1>5 DEF Rank
  <2> QED BY <1>3, <1>5, <2>1
<1>6. CASE d.pc = "lockOne" /\ read[d.at] = u
  <2>1. Rank(t) = Number(d.at)
    BY <1>6 DEF Rank
  <2> QED BY <1>1, <1>3, <1>6, <2>1
<1>7. CASE d.pc = "lockWrite" /\ write[d.out[d.pos]] = u
  <2>1. d.out[d.pos] \in Channel /\ Rank(t) = Top + Number(d.out[d.pos])
    BY <1>1, <1>7 DEF Rank
  <2> QED BY <1>4, <1>7, <2>1
<1> QED BY <1>5, <1>6, <1>7 DEF Wants

LEMMA NobodyInCircle ==
  ASSUME MutexesConstants, MutexInv, "exitInside" \notin Ops
  PROVE  NoCircle
<1> SUFFICES ASSUME NEW S \in SUBSET Threads, S # {}, \A t \in S : \E u \in S : Wants(t, u)
             PROVE  FALSE
  BY DEF NoCircle
<1>1. \A t \in S : Waits(t)
  BY DEF Wants, Waits
<1>2. \A t \in S : Rank(t) \in Nat /\ Rank(t) < 2 * Top /\ Top \in Nat
  <2>1. Top \in Nat
    BY DEF MutexesConstants, Top
  <2> QED BY <1>1, <2>1, RankFacts
<1> DEFINE T == {2 * Top - Rank(t) : t \in S}
<1>3. T \in SUBSET Nat /\ T # {}
  BY <1>2
<1>4. PICK x \in T : \A y \in T : x <= y
  BY <1>3, Smallest
<1>5. PICK t \in S : x = 2 * Top - Rank(t)
  BY <1>4
<1>6. PICK u \in S : Wants(t, u)
  OBVIOUS
<1>7. Rank(t) < Rank(u)
  BY <1>1, <1>6, RankGrows
<1>8. x <= 2 * Top - Rank(u)
  BY <1>4
<1> QED BY <1>2, <1>5, <1>7, <1>8

LEMMA HeldAsPeeked ==
  ASSUME MutexInv
  PROVE  Peeked
BY DEF MutexInv, Sound, Handed, Applying, Peeked

LEMMA OrderedEverywhere ==
  ASSUME MutexesConstants, MutexInv
  PROVE  SameOrder
<1>1. 1..MaxCalls \subseteq Nat
  BY DEF MutexesConstants
<1>2. Ordered
  BY DEF MutexInv
<1> QED BY <1>1, <1>2 DEF Ordered, SameOrder

LEMMA MutexParts ==
  ASSUME MutexesConstants, MutexInv
  PROVE  /\ Peeked /\ SameOrder /\ Contiguous
         /\ "exitInside" \notin Ops => NoCircle
BY HeldAsPeeked, OrderedEverywhere, NobodyInCircle DEF MutexInv

(* Threads that probe, receive and send, also from within their             *)
(* applicators, wait for the mutexes of the channels in no circle, as long  *)
(* as none of them calls Daemon::exit there (Communicator).                 *)
THEOREM NeverInCircle ==
  MutexesConstants /\ "exitInside" \notin Ops => (Spec => []NoCircle)
<1> SUFFICES ASSUME MutexesConstants, "exitInside" \notin Ops PROVE Spec => []NoCircle
  OBVIOUS
<1>1. MutexInv => NoCircle
  BY MutexParts
<1> QED BY <1>1, MutexAlways, PTL

(* What an applicator receives is the message that probe peeked at, even    *)
(* when it sent messages before; messages to all arrive in one order.       *)
THEOREM NeverTaken == MutexesConstants => (Spec => [](Peeked /\ SameOrder))
<1> SUFFICES ASSUME MutexesConstants PROVE Spec => [](Peeked /\ SameOrder)
  OBVIOUS
<1>1. MutexInv => Peeked /\ SameOrder
  BY MutexParts
<1> QED BY <1>1, MutexAlways, PTL

(* The parts of two messages never mix on a line to another executive, also *)
(* while redirected output goes to the client without a mutex; on the line  *)
(* to the client they do not as long as all of its writers take the mutex   *)
(* (sendTo, sendAll).  runMain redirects the output of every executive, so  *)
(* of a running one it is the lines between executives this is about.       *)
THEOREM NeverMixed == MutexesConstants => (Spec => []Contiguous)
<1> SUFFICES ASSUME MutexesConstants PROVE Spec => []Contiguous
  OBVIOUS
<1>1. MutexInv => Contiguous
  BY MutexParts
<1> QED BY <1>1, MutexAlways, PTL
=============================================================================
