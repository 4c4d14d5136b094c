----------------------------- MODULE LoadProofs -----------------------------
(***************************************************************************)
(* What is proved of the load benchmark, over dp and over MPI, for any     *)
(* grid, machines and threads: no package is lost or worked on twice, and  *)
(* no machine ends before the last package was generated.                  *)
(***************************************************************************)
EXTENDS MpiLoad, SequenceTheorems, FiniteSetTheorems, TLAPS

-----------------------------------------------------------------------------
(* Machine m keeps the packages of queue and accessors Q and A.  What waits *)
(* waits in one chunk only, and what was seen waits or was taken.           *)
Accessors == [in : Seq(Packages), out : Seq(Packages), size : Nat]
Distinct(c) == \A i, j \in DOMAIN c : c[i] = c[j] => i = j
Own(a) == ToSet(a.in) \cup ToSet(a.out)
Queued(Q) == UNION {ToSet(Q[i]) : i \in DOMAIN Q}
All(Q, A) == Queued(Q) \cup (UNION {Own(A[t]) : t \in Threads})

Split(Q) == \A i \in DOMAIN Q :
  Distinct(Q[i]) /\ \A k \in DOMAIN Q : ToSet(Q[i]) \cap ToSet(Q[k]) # {} => i = k
Apart(a) == Distinct(a.in) /\ Distinct(a.out) /\ ToSet(a.in) \cap ToSet(a.out) = {}
Private(Q, A, t) == /\ Apart(A[t]) /\ Own(A[t]) \cap Queued(Q) = {}
                    /\ \A u \in Threads : u # t => Own(A[t]) \cap Own(A[u]) = {}

Inner == Packages \ {Initial, Final}
Keeps(m, Q, A, s, p) ==
  /\ Q \in Seq(Seq(Packages)) /\ A \in [Threads -> Accessors]
  /\ s \subseteq Inner /\ p \subseteq s \cup {Initial}
  /\ \A q \in s : Owner(q) = m
  /\ Split(Q) /\ \A t \in Threads : Private(Q, A, t)
  /\ All(Q, A) \subseteq (s \cup {Initial}) \ p
  /\ s \subseteq p \cup All(Q, A)

-----------------------------------------------------------------------------
Succ(p) == ToSet(Successors(p))
Announced == \E n \in Machines : \E p \in popped[n] : Final \in Succ(p)

(* A send of a dedicated worker does not wait when its line has room for    *)
(* all the messages there ever are, one for a step of the grid.             *)
Edges == {e \in Packages \X Packages : e[2] \in Succ(e[1])}
Roomy == Kind = "Shared" \/ Cardinality(Edges) <= Capacity

(* What a machine has on its way to the workers of the others, and, as from *)
(* 0, what its own workers have in hand after a step; its workers are where *)
(* c says, have t in hand, and W is on its lines.                           *)
Packed(s) == [i \in 1 .. Len(s) |-> s[i].package]
Cargoes(c, t, W) ==
  [n \in 0 .. Size |-> [w \in Workers |->
     IF n = 0 THEN IF c[w] = "yield" THEN t[w] ELSE << >>
     ELSE Packed(W[n][w])]]

(* Every package on its way came from a step of its own: f says from which. *)
Steps == [0 .. Size -> [Workers -> [Nat -> Packages]]]
Traces(f, C, P) ==
  /\ \A n \in 0 .. Size, w \in Workers : \A i \in DOMAIN C[n][w] :
       f[n][w][i] \in P /\ C[n][w][i] \in Succ(f[n][w][i])
  /\ \A n, k \in 0 .. Size, w, v \in Workers : \A i \in DOMAIN C[n][w], j \in DOMAIN C[k][v] :
       f[n][w][i] = f[k][v][j] /\ C[n][w][i] = C[k][v][j] => n = k /\ w = v /\ i = j
Traced(C, P) == \E f \in Steps : Traces(f, C, P)
Freight == [0 .. Size -> [Workers -> Seq(Packages)]]

Positions == {"loop", "flush", "yield", "probe", "expand", "over"}
LoadTyped ==
  /\ seen \in [Machines -> SUBSET Packages] /\ popped \in [Machines -> SUBSET Packages]
  /\ queue \in [Machines -> Seq(Seq(Packages))]
  /\ acc \in [Machines -> [Threads -> Accessors]]
  /\ pc \in [Machines -> [Workers -> Positions]]
  /\ todo \in [Machines -> [Workers -> Seq(Packages)]]
  /\ wire \in [Machines -> [Machines -> [Lines -> Seq(Messages)]]]
  /\ done \in [Machines -> BOOLEAN] /\ round \in [Machines -> (SUBSET Machines) \cup {{0}}]
  /\ main \in [Machines -> {"work", "notify", "join", "over"}]
  /\ unsent \in [Machines -> SUBSET Machines]

Hand(m, w) ==
  /\ pc[m][w] \in {"yield", "expand"} => todo[m][w] # << >>
  /\ pc[m][w] \in {"probe", "expand"} => Kind = "Dedicated"
  /\ pc[m][w] = "yield" => \E p \in popped[m] : \A i \in DOMAIN todo[m][w] : todo[m][w][i] \in Succ(p)
  /\ pc[m][w] = "expand" => \A i \in DOMAIN todo[m][w] :
                              todo[m][w][i] \in Inner /\ Owner(todo[m][w][i]) = m
Wired(s, n, l) ==
  \A i \in DOMAIN s : \/ l = Master /\ s[i] = Done
                      \/ \E p \in Inner : Owner(p) = n /\ s[i] = Data(p)
Dispatches(m) ==
  /\ main[m] = "over" => round[m] = Over
  /\ round[m] = Over => done[m]
  /\ round[m] # Over => \A n \in round[m] : wire[n][m][Master] # << >>

(* Somebody of machine m ended, or it was told to end, or tells others.     *)
Stops(m) ==
  \/ done[m] \/ main[m] # "work" \/ \E w \in Workers : pc[m][w] = "over"
  \/ \E n \in Machines : \E i \in DOMAIN wire[m][n][Master] : wire[m][n][Master][i] = Done

Kept == \A m \in Machines : Keeps(m, queue[m], acc[m], seen[m], popped[m])
Handy == \A m \in Machines, w \in Workers : Hand(m, w)
AllWired == \A m, n \in Machines, l \in Lines : Wired(wire[m][n][l], n, l)
Dispatching == \A m \in Machines : Dispatches(m)
AllTraced == Kind = "Dedicated" =>
               \A m \in Machines : Traced(Cargoes(pc[m], todo[m], wire[m]), popped[m])
InTime == Workers # {} /\ Roomy /\ (\E m \in Machines : Stops(m)) => Announced

LoadInv == LoadTyped /\ Kept /\ Handy /\ AllWired /\ Dispatching /\ AllTraced /\ InTime

LEMMA PackageFacts ==
  ASSUME LoadConstants
  PROVE  /\ Initial \in Packages /\ Final \in Packages /\ Initial # Final
         /\ Inner \subseteq Packages /\ Master \in Lines /\ Dispatcher \in Threads
         /\ Workers \subseteq Threads /\ Machines \subseteq Nat \ {0} /\ MainSlave \in Machines
         /\ Master \notin Workers /\ Over \notin SUBSET Machines
<1>1. WorkLoad \in Nat /\ WorkLoad >= 1 /\ Size \in Nat /\ Size >= 1 /\ Workers \subseteq Nat
  BY DEF LoadConstants
<1>2. Initial \in Packages /\ Final \in Packages /\ Initial # Final
  BY <1>1 DEF Initial, Final, Packages
<1>3. Machines \subseteq Nat \ {0} /\ MainSlave \in Machines
  BY <1>1 DEF Machines, MainSlave
<1>4. Over \notin SUBSET Machines
  BY <1>3 DEF Over
<1>5. Master \notin Workers
  BY <1>1 DEF Master
<1> QED BY <1>2, <1>3, <1>4, <1>5 DEF Inner, Lines, Threads

LEMMA PairFacts ==
  ASSUME NEW T, NEW a \in T, NEW b \in T
  PROVE  << a >> \o << b >> = << a, b >>
<1>1. << a >> \in Seq(T) /\ << b >> \in Seq(T) /\ << a, b >> \in Seq(T)
  OBVIOUS
<1>2. << a >> \o << b >> \in Seq(T) /\ Len(<< a >> \o << b >>) = 2
      /\ (<< a >> \o << b >>)[1] = a /\ (<< a >> \o << b >>)[2] = b
  BY <1>1
<1>3. Len(<< a, b >>) = 2 /\ << a, b >>[1] = a /\ << a, b >>[2] = b
  OBVIOUS
<1>4. \A i \in 1 .. 2 : (<< a >> \o << b >>)[i] = << a, b >>[i]
  BY <1>2, <1>3
<1> DEFINE s == << a >> \o << b >>
           t == << a, b >>
<1>5. s \in Seq(T) /\ t \in Seq(T) /\ Len(s) = Len(t) /\ \A i \in 1 .. Len(s) : s[i] = t[i]
  BY <1>1, <1>2, <1>3, <1>4
<1> HIDE DEF s, t
<1>6. s = t
  BY <1>5, SeqEqual
<1> QED BY <1>6 DEF s, t

LEMMA SuccessorFacts ==
  ASSUME LoadConstants, NEW p \in Packages
  PROVE  /\ Successors(p) \in Seq(Packages)
         /\ \A i \in DOMAIN Successors(p) : Successors(p)[i] # Initial
         /\ \A i, j \in DOMAIN Successors(p) : Successors(p)[i] = Successors(p)[j] => i = j
         /\ p # Final => Successors(p) # << >>
<1>1. WorkLoad \in Nat /\ p \in (0 .. WorkLoad) \X (0 .. WorkLoad)
  BY DEF LoadConstants, Packages
<1>2. PICK a \in 0 .. WorkLoad, b \in 0 .. WorkLoad : p = <<a, b>>
  BY <1>1
<1> DEFINE x == IF a < WorkLoad THEN << <<a + 1, b>> >> ELSE << >>
           y == IF b < WorkLoad THEN << <<a, b + 1>> >> ELSE << >>
<1>3. Successors(p) = x \o y
  BY <1>2 DEF Successors
<1>4. CASE a < WorkLoad /\ b < WorkLoad
  <2>1. Successors(p) = << <<a + 1, b>>, <<a, b + 1>> >>
    <3>1. x = << <<a + 1, b>> >> /\ y = << <<a, b + 1>> >>
      BY <1>4
    <3>2. <<a + 1, b>> \in Packages /\ <<a, b + 1>> \in Packages
      BY <1>1, <1>4 DEF Packages
    <3>3. << <<a + 1, b>> >> \o << <<a, b + 1>> >> = << <<a + 1, b>>, <<a, b + 1>> >>
      BY <3>2, PairFacts
    <3> HIDE DEF x, y
    <3> QED BY <1>3, <3>1, <3>3
  <2>2. <<a + 1, b>> \in Packages /\ <<a, b + 1>> \in Packages /\ <<a + 1, b>> # <<a, b + 1>>
        /\ <<a + 1, b>> # Initial /\ <<a, b + 1>> # Initial
    BY <1>1, <1>4 DEF Packages, Initial
  <2> QED BY <2>1, <2>2
<1>5. CASE a < WorkLoad /\ ~(b < WorkLoad)
  <2>1. Successors(p) = << <<a + 1, b>> >>
    BY <1>3, <1>5
  <2>2. <<a + 1, b>> \in Packages /\ <<a + 1, b>> # Initial
    BY <1>1, <1>5 DEF Packages, Initial
  <2> QED BY <2>1, <2>2
<1>6. CASE ~(a < WorkLoad) /\ b < WorkLoad
  <2>1. Successors(p) = << <<a, b + 1>> >>
    BY <1>3, <1>6
  <2>2. <<a, b + 1>> \in Packages /\ <<a, b + 1>> # Initial
    BY <1>1, <1>6 DEF Packages, Initial
  <2> QED BY <2>1, <2>2
<1>7. CASE ~(a < WorkLoad) /\ ~(b < WorkLoad)
  <2>1. Successors(p) = << >>
    BY <1>3, <1>7
  <2>2. p = Final
    BY <1>1, <1>2, <1>7 DEF Final
  <2> QED BY <2>1, <2>2
<1> QED BY <1>4, <1>5, <1>6, <1>7

LEMMA AppendFacts ==
  ASSUME NEW T, NEW c \in Seq(T), NEW x \in T
  PROVE  /\ Append(c, x) \in Seq(T) /\ ToSet(Append(c, x)) = ToSet(c) \cup {x}
         /\ Distinct(c) /\ x \notin ToSet(c) => Distinct(Append(c, x))
<1>1. /\ Append(c, x) \in Seq(T) /\ DOMAIN Append(c, x) = 1 .. (Len(c) + 1) /\ DOMAIN c = 1 .. Len(c)
      /\ \A i \in 1 .. Len(c) : Append(c, x)[i] = c[i]
      /\ Append(c, x)[Len(c) + 1] = x /\ Len(c) \in Nat
  OBVIOUS
<1>2. ASSUME NEW y \in ToSet(Append(c, x)) PROVE y \in ToSet(c) \cup {x}
  BY <1>1 DEF ToSet
<1>3. ASSUME NEW y \in ToSet(c) \cup {x} PROVE y \in ToSet(Append(c, x))
  BY <1>1 DEF ToSet
<1>4. ASSUME Distinct(c), x \notin ToSet(c) PROVE Distinct(Append(c, x))
  BY <1>1, <1>4 DEF Distinct, ToSet
<1> QED BY <1>1, <1>2, <1>3, <1>4

LEMMA TailFacts ==
  ASSUME NEW T, NEW c \in Seq(T), c # << >>
  PROVE  /\ Tail(c) \in Seq(T) /\ Head(c) \in T /\ Head(c) \in ToSet(c)
         /\ ToSet(c) = ToSet(Tail(c)) \cup {Head(c)}
         /\ Distinct(c) => Distinct(Tail(c)) /\ Head(c) \notin ToSet(Tail(c))
<1>1. /\ Tail(c) \in Seq(T) /\ DOMAIN Tail(c) = 1 .. (Len(c) - 1) /\ DOMAIN c = 1 .. Len(c)
      /\ \A i \in 1 .. (Len(c) - 1) : Tail(c)[i] = c[i + 1]
      /\ Head(c) = c[1] /\ Len(c) \in Nat /\ Len(c) >= 1 /\ c[1] \in T
  OBVIOUS
<1>2. ASSUME NEW y \in ToSet(c) PROVE y \in ToSet(Tail(c)) \cup {Head(c)}
  <2>1. PICK i \in 1 .. Len(c) : y = c[i]
    BY <1>1, <1>2 DEF ToSet
  <2>2. CASE i = 1
    BY <1>1, <2>1, <2>2
  <2>3. CASE i # 1
    <3>1. i - 1 \in DOMAIN Tail(c) /\ Tail(c)[i - 1] = y
      BY <1>1, <2>1, <2>3
    <3> QED BY <3>1 DEF ToSet
  <2> QED BY <2>2, <2>3
<1>3. ASSUME NEW y \in ToSet(Tail(c)) \cup {Head(c)} PROVE y \in ToSet(c)
  BY <1>1 DEF ToSet
<1>4. ASSUME Distinct(c) PROVE Distinct(Tail(c)) /\ Head(c) \notin ToSet(Tail(c))
  BY <1>1, <1>4 DEF Distinct, ToSet
<1>5. Head(c) \in ToSet(c)
  BY <1>3
<1> QED BY <1>1, <1>2, <1>3, <1>4, <1>5

LEMMA QueueAppend ==
  ASSUME NEW Q \in Seq(Seq(Packages)), Split(Q), NEW c \in Seq(Packages),
         Distinct(c), ToSet(c) \cap Queued(Q) = {}
  PROVE  /\ Append(Q, c) \in Seq(Seq(Packages)) /\ Split(Append(Q, c))
         /\ Queued(Append(Q, c)) = Queued(Q) \cup ToSet(c)
<1> DEFINE R == Append(Q, c)
<1>1. /\ R \in Seq(Seq(Packages)) /\ DOMAIN R = 1 .. (Len(Q) + 1) /\ DOMAIN Q = 1 .. Len(Q)
      /\ \A i \in 1 .. Len(Q) : R[i] = Q[i]
      /\ R[Len(Q) + 1] = c /\ Len(Q) \in Nat
  OBVIOUS
<1> HIDE DEF R
<1>2. ASSUME NEW x \in Queued(R) PROVE x \in Queued(Q) \cup ToSet(c)
  <2>1. PICK i \in 1 .. (Len(Q) + 1) : x \in ToSet(R[i])
    BY <1>1, <1>2 DEF Queued
  <2>2. CASE i = Len(Q) + 1
    BY <1>1, <2>1, <2>2
  <2>3. CASE i # Len(Q) + 1
    <3>1. i \in DOMAIN Q /\ x \in ToSet(Q[i])
      BY <1>1, <2>1, <2>3
    <3> QED BY <3>1 DEF Queued
  <2> QED BY <2>2, <2>3
<1>3. ASSUME NEW x \in Queued(Q) \cup ToSet(c) PROVE x \in Queued(R)
  <2>1. CASE x \in ToSet(c)
    <3>1. Len(Q) + 1 \in DOMAIN R /\ x \in ToSet(R[Len(Q) + 1])
      BY <1>1, <2>1
    <3> QED BY <3>1 DEF Queued
  <2>2. CASE x \in Queued(Q)
    <3>1. PICK i \in DOMAIN Q : x \in ToSet(Q[i])
      BY <2>2 DEF Queued
    <3>2. i \in DOMAIN R /\ x \in ToSet(R[i])
      BY <1>1, <3>1
    <3> QED BY <3>2 DEF Queued
  <2> QED BY <2>1, <2>2
<1>4. ASSUME NEW i \in DOMAIN R, NEW k \in DOMAIN R
      PROVE  Distinct(R[i]) /\ (ToSet(R[i]) \cap ToSet(R[k]) # {} => i = k)
  <2>1. \A l \in DOMAIN Q : l \in DOMAIN R /\ R[l] = Q[l] /\ ToSet(Q[l]) \subseteq Queued(Q)
                              /\ ToSet(Q[l]) \cap ToSet(c) = {} /\ Distinct(Q[l])
    BY <1>1 DEF Queued, Split
  <2>2. CASE i \in DOMAIN Q /\ k \in DOMAIN Q
    BY <2>1, <2>2 DEF Split
  <2>3. CASE i \in DOMAIN Q /\ k \notin DOMAIN Q
    <3>1. R[k] = c
      BY <1>1, <2>3
    <3> QED BY <2>1, <2>3, <3>1
  <2>4. CASE i \notin DOMAIN Q /\ k \in DOMAIN Q
    <3>1. R[i] = c
      BY <1>1, <2>4
    <3> QED BY <2>1, <2>4, <3>1
  <2>5. CASE i \notin DOMAIN Q /\ k \notin DOMAIN Q
    BY <1>1, <2>5
  <2> QED BY <2>2, <2>3, <2>4, <2>5
<1>5. Split(R)
  BY <1>4 DEF Split
<1> QED BY <1>1, <1>2, <1>3, <1>5 DEF R

(* A chunk of a split queue has no repetition and is apart from the others. *)
LEMMA SplitAt ==
  ASSUME NEW Q, Split(Q), NEW i \in DOMAIN Q
  PROVE  Distinct(Q[i]) /\ \A k \in DOMAIN Q : ToSet(Q[i]) \cap ToSet(Q[k]) # {} => i = k
BY DEF Split

LEMMA QueueTail ==
  ASSUME NEW Q \in Seq(Seq(Packages)), Split(Q), Q # << >>
  PROVE  /\ Tail(Q) \in Seq(Seq(Packages)) /\ Split(Tail(Q))
         /\ Head(Q) \in Seq(Packages) /\ Distinct(Head(Q))
         /\ Queued(Q) = Queued(Tail(Q)) \cup ToSet(Head(Q))
         /\ Queued(Tail(Q)) \cap ToSet(Head(Q)) = {}
<1> DEFINE R == Tail(Q)
<1>1. /\ R \in Seq(Seq(Packages)) /\ DOMAIN R = 1 .. (Len(Q) - 1) /\ DOMAIN Q = 1 .. Len(Q)
      /\ \A i \in 1 .. (Len(Q) - 1) : R[i] = Q[i + 1]
      /\ Head(Q) = Q[1] /\ Len(Q) \in Nat /\ Len(Q) >= 1 /\ Q[1] \in Seq(Packages)
  OBVIOUS
<1> HIDE DEF R
<1>2. ASSUME NEW x \in Queued(Q) PROVE x \in Queued(R) \cup ToSet(Head(Q))
  <2>1. PICK i \in 1 .. Len(Q) : x \in ToSet(Q[i])
    BY <1>1, <1>2 DEF Queued
  <2>2. CASE i = 1
    BY <1>1, <2>1, <2>2
  <2>3. CASE i # 1
    <3>1. i - 1 \in DOMAIN R /\ x \in ToSet(R[i - 1])
      BY <1>1, <2>1, <2>3
    <3> QED BY <3>1 DEF Queued
  <2> QED BY <2>2, <2>3
<1>3. ASSUME NEW x \in Queued(R) PROVE x \in Queued(Q) /\ x \notin ToSet(Head(Q))
  <2>1. PICK i \in 1 .. (Len(Q) - 1) : x \in ToSet(R[i])
    BY <1>1, <1>3 DEF Queued
  <2>2. i + 1 \in DOMAIN Q /\ x \in ToSet(Q[i + 1]) /\ i + 1 # 1 /\ 1 \in DOMAIN Q
    BY <1>1, <2>1
  <2>3. ASSUME x \in ToSet(Q[1]) PROVE FALSE
    <3>1. ToSet(Q[i + 1]) \cap ToSet(Q[1]) # {}
      BY <2>2, <2>3
    <3>2. i + 1 = 1
      BY <2>2, <3>1, SplitAt
    <3> QED BY <2>2, <3>2
  <2> QED BY <1>1, <2>2, <2>3 DEF Queued
<1>4. ToSet(Head(Q)) \subseteq Queued(Q)
  BY <1>1 DEF Queued
<1>5. ASSUME NEW i \in DOMAIN R, NEW k \in DOMAIN R
      PROVE  Distinct(R[i]) /\ (ToSet(R[i]) \cap ToSet(R[k]) # {} => i = k)
  <2>1. i + 1 \in DOMAIN Q /\ k + 1 \in DOMAIN Q /\ R[i] = Q[i + 1] /\ R[k] = Q[k + 1]
    <3>1. i \in 1 .. (Len(Q) - 1) /\ k \in 1 .. (Len(Q) - 1) /\ Len(Q) \in Nat
      BY <1>1
    <3>2. i + 1 \in 1 .. Len(Q) /\ k + 1 \in 1 .. Len(Q)
      BY <3>1
    <3> QED BY <1>1, <3>1, <3>2
  <2>2. Distinct(Q[i + 1]) /\ (ToSet(Q[i + 1]) \cap ToSet(Q[k + 1]) # {} => i + 1 = k + 1)
    <3> HIDE DEF R
    <3>1. Distinct(Q[i + 1])
      BY <2>1, SplitAt
    <3>2. ToSet(Q[i + 1]) \cap ToSet(Q[k + 1]) # {} => i + 1 = k + 1
      BY <2>1, SplitAt
    <3> QED BY <3>1, <3>2
  <2>3. i \in Nat /\ k \in Nat
    BY <1>1
  <2> HIDE DEF R
  <2> QED BY <2>1, <2>2, <2>3
<1>6. Split(R)
  BY <1>5 DEF Split
<1>7. Distinct(Head(Q))
  <2>1. Head(Q) = Q[1] /\ 1 \in DOMAIN Q
    BY <1>1
  <2>2. Distinct(Q[1])
    BY <2>1, SplitAt
  <2> QED BY <2>1, <2>2
<1> QED BY <1>1, <1>2, <1>3, <1>4, <1>6, <1>7 DEF R

-----------------------------------------------------------------------------
(* The accessor of one thread and the queue.                                *)
Fit(a, Q) == /\ a \in Accessors /\ Q \in Seq(Seq(Packages)) /\ Split(Q) /\ Apart(a)
             /\ Own(a) \cap Queued(Q) = {}
Hold(a, Q) == Own(a) \cup Queued(Q)

LEMMA EmptyFacts == ToSet(<< >>) = {} /\ Distinct(<< >>)
BY DEF ToSet, Distinct

LEMMA FlushFacts ==
  ASSUME LoadConstants, NEW a, NEW Q, Fit(a, Q)
  PROVE  LET S == Flush([acc |-> a, queue |-> Q])
         IN /\ S = [acc |-> S.acc, queue |-> S.queue]
            /\ Fit(S.acc, S.queue) /\ Hold(S.acc, S.queue) = Hold(a, Q)
<1> DEFINE S == Flush([acc |-> a, queue |-> Q])
<1>1. CASE a.out = << >>
  <2>1. S = [acc |-> a, queue |-> Q]
    BY <1>1 DEF Flush
  <2> QED BY <2>1
<1>2. CASE a.out # << >>
  <2> DEFINE b == [a EXCEPT !.out = << >>, !.size = Double(@)]
             R == Append(Q, a.out)
  <2>1. S = [acc |-> b, queue |-> R]
    BY <1>2 DEF Flush
  <2>2. a.in \in Seq(Packages) /\ a.out \in Seq(Packages) /\ a.size \in Nat /\ MaxChunk \in Nat
    BY DEF Fit, Accessors, LoadConstants
  <2>3. b \in Accessors /\ b.in = a.in /\ b.out = << >>
    <3>1. Double(a.size) \in Nat
      BY <2>2 DEF Double
    <3>2. << >> \in Seq(Packages)
      OBVIOUS
    <3> QED BY <2>2, <3>1, <3>2 DEF Fit, Accessors
  <2>4. Distinct(a.out) /\ ToSet(a.out) \cap Queued(Q) = {} /\ Split(Q) /\ Q \in Seq(Seq(Packages))
    BY DEF Fit, Apart, Own
  <2>5. /\ R \in Seq(Seq(Packages)) /\ Split(R) /\ Queued(R) = Queued(Q) \cup ToSet(a.out)
    BY <2>2, <2>4, QueueAppend
  <2> HIDE DEF b, R, S
  <2>6. Own(b) = ToSet(a.in) /\ Apart(b)
    BY <2>3, EmptyFacts DEF Own, Apart, Fit
  <2>7. Own(a) = ToSet(a.in) \cup ToSet(a.out) /\ ToSet(a.in) \cap ToSet(a.out) = {}
        /\ Own(a) \cap Queued(Q) = {}
    BY DEF Own, Fit, Apart
  <2>8. Fit(b, R) /\ Hold(b, R) = Hold(a, Q)
    BY <2>3, <2>5, <2>6, <2>7 DEF Fit, Hold
  <2> QED BY <2>1, <2>8 DEF S
<1> QED BY <1>1, <1>2

LEMMA PushFacts ==
  ASSUME LoadConstants, NEW a, NEW Q, Fit(a, Q), NEW x \in Packages, x \notin Hold(a, Q),
         NEW S, S = Push([acc |-> a, queue |-> Q], x)
  PROVE  Fit(S.acc, S.queue) /\ Hold(S.acc, S.queue) = Hold(a, Q) \cup {x}
<1> DEFINE b == [a EXCEPT !.out = Append(@, x)]
<1>1. a.in \in Seq(Packages) /\ a.out \in Seq(Packages) /\ a.size \in Nat
  BY DEF Fit, Accessors
<1>2. /\ Append(a.out, x) \in Seq(Packages) /\ ToSet(Append(a.out, x)) = ToSet(a.out) \cup {x}
      /\ Distinct(a.out) /\ x \notin ToSet(a.out) => Distinct(Append(a.out, x))
  BY <1>1, AppendFacts
<1>3. b \in Accessors /\ b.in = a.in /\ b.out = Append(a.out, x)
  BY <1>1, <1>2 DEF Fit, Accessors
<1>4. Push([acc |-> a, queue |-> Q], x) =
        IF Len(b.out) >= b.size THEN Flush([acc |-> b, queue |-> Q]) ELSE [acc |-> b, queue |-> Q]
  <2>1. [[acc |-> a, queue |-> Q] EXCEPT !.acc.out = Append(@, x)] = [acc |-> b, queue |-> Q]
    <3>1. [acc |-> a, queue |-> Q].acc = a
      OBVIOUS
    <3>2. [[acc |-> a, queue |-> Q] EXCEPT !.acc.out = Append(@, x)] = [[acc |-> a, queue |-> Q] EXCEPT !.acc = b]
      BY <3>1
    <3> HIDE DEF b
    <3>3. [[acc |-> a, queue |-> Q] EXCEPT !.acc = b] = [acc |-> b, queue |-> Q]
      OBVIOUS
    <3> QED BY <3>2, <3>3
  <2>2. [acc |-> b, queue |-> Q].acc = b
    OBVIOUS
  <2> HIDE DEF b
  <2> QED BY <2>1, <2>2 DEF Push
<1> HIDE DEF b
<1>5. Own(b) = Own(a) \cup {x} /\ Apart(b) /\ Own(a) \cap Queued(Q) = {} /\ x \notin Queued(Q)
  BY <1>2, <1>3 DEF Own, Apart, Fit, Hold
<1>6. Fit(b, Q) /\ Hold(b, Q) = Hold(a, Q) \cup {x}
  BY <1>3, <1>5 DEF Fit, Hold
<1>7. CASE Len(b.out) >= b.size
  <2>1. S = Flush([acc |-> b, queue |-> Q])
    BY <1>4, <1>7
  <2>2. LET T == Flush([acc |-> b, queue |-> Q])
        IN Fit(T.acc, T.queue) /\ Hold(T.acc, T.queue) = Hold(b, Q)
    BY <1>6, FlushFacts
  <2>3. Fit(S.acc, S.queue) /\ Hold(S.acc, S.queue) = Hold(b, Q)
    BY <2>1, <2>2
  <2> QED BY <1>6, <2>3
<1>8. CASE ~(Len(b.out) >= b.size)
  BY <1>4, <1>6, <1>8
<1> QED BY <1>7, <1>8

LEMMA RefillFacts ==
  ASSUME LoadConstants, NEW a, NEW Q, Fit(a, Q)
  PROVE  LET S == Refill([acc |-> a, queue |-> Q])
         IN /\ S = [acc |-> S.acc, queue |-> S.queue]
            /\ Fit(S.acc, S.queue) /\ Hold(S.acc, S.queue) = Hold(a, Q)
<1> DEFINE S == Refill([acc |-> a, queue |-> Q])
<1>1. CASE a.in # << >> \/ Q = << >>
  <2>1. S = [acc |-> a, queue |-> Q]
    BY <1>1 DEF Refill
  <2> QED BY <2>1
<1>2. CASE a.in = << >> /\ Q # << >>
  <2> DEFINE b == [a EXCEPT !.in = Head(Q)]
             R == Tail(Q)
  <2>1. S = [acc |-> b, queue |-> R]
    BY <1>2 DEF Refill
  <2>2. /\ R \in Seq(Seq(Packages)) /\ Split(R) /\ Head(Q) \in Seq(Packages) /\ Distinct(Head(Q))
        /\ Queued(Q) = Queued(R) \cup ToSet(Head(Q)) /\ Queued(R) \cap ToSet(Head(Q)) = {}
    BY <1>2, QueueTail DEF Fit
  <2>3. b \in Accessors /\ b.in = Head(Q) /\ b.out = a.out
    BY <2>2 DEF Fit, Accessors
  <2> HIDE DEF b, R, S
  <2>4. Own(a) = ToSet(a.out) /\ Distinct(a.out) /\ Own(a) \cap Queued(Q) = {}
    BY <1>2, EmptyFacts DEF Fit, Apart, Own
  <2>5. Own(b) = ToSet(Head(Q)) \cup ToSet(a.out)
    BY <2>3 DEF Own
  <2>6. Apart(b)
    BY <2>2, <2>3, <2>4 DEF Apart
  <2>7. Fit(b, R) /\ Hold(b, R) = Hold(a, Q)
    BY <2>2, <2>3, <2>4, <2>5, <2>6 DEF Fit, Hold
  <2> QED BY <2>1, <2>7 DEF S
<1> QED BY <1>1, <1>2

LEMMA ExceptIn ==
  ASSUME NEW c, NEW R
  PROVE  [[acc |-> c, queue |-> R] EXCEPT !.acc.in = Tail(@)] = [acc |-> [c EXCEPT !.in = Tail(@)], queue |-> R]
<1> DEFINE z == Tail(c.in)
<1>1. [acc |-> c, queue |-> R].acc = c
  OBVIOUS
<1> HIDE DEF z
<1>2. [[acc |-> c, queue |-> R] EXCEPT !.acc.in = z] = [acc |-> [c EXCEPT !.in = z], queue |-> R]
  OBVIOUS
<1> QED BY <1>1, <1>2 DEF z

LEMMA TakeFacts ==
  ASSUME NEW a, NEW Q, Fit(a, Q), a.in # << >>
  PROVE  LET b == [a EXCEPT !.in = Tail(@)]
         IN /\ Head(a.in) \in Hold(a, Q) /\ Head(a.in) \in Packages
            /\ Fit(b, Q) /\ Hold(b, Q) = Hold(a, Q) \ {Head(a.in)}
<1> DEFINE b == [a EXCEPT !.in = Tail(@)]
           h == Head(a.in)
<1>1. /\ Tail(a.in) \in Seq(Packages) /\ h \in Packages
      /\ ToSet(a.in) = ToSet(Tail(a.in)) \cup {h}
      /\ Distinct(Tail(a.in)) /\ h \notin ToSet(Tail(a.in))
  BY TailFacts DEF Fit, Accessors, Apart
<1>2. b \in Accessors /\ b.in = Tail(a.in) /\ b.out = a.out
  BY <1>1 DEF Fit, Accessors
<1> HIDE DEF b, h
<1>3. Own(a) = ToSet(a.in) \cup ToSet(a.out) /\ ToSet(a.in) \cap ToSet(a.out) = {}
      /\ Distinct(a.out) /\ Own(a) \cap Queued(Q) = {}
  BY DEF Fit, Apart, Own
<1>4. Own(b) = Own(a) \ {h} /\ Apart(b) /\ h \in Own(a)
  BY <1>1, <1>2, <1>3 DEF Own, Apart
<1>5. Fit(b, Q) /\ Hold(b, Q) = Hold(a, Q) \ {h} /\ h \in Hold(a, Q)
  BY <1>2, <1>3, <1>4 DEF Fit, Hold
<1> QED BY <1>1, <1>5 DEF b, h

LEMMA Exchange ==
  ASSUME NEW m, NEW Q, NEW A, NEW s, NEW p, Keeps(m, Q, A, s, p),
         NEW t \in Threads, NEW b, NEW R, Fit(b, R),
         NEW X, X \subseteq Inner \ s, \A x \in X : Owner(x) = m,
         NEW Y, Y \subseteq Hold(A[t], Q),
         Hold(b, R) = (Hold(A[t], Q) \cup X) \ Y
  PROVE  Keeps(m, R, [A EXCEPT ![t] = b], s \cup X, p \cup Y)
<1> DEFINE B == [A EXCEPT ![t] = b]
<1>1. A \in [Threads -> Accessors] /\ b \in Accessors /\ R \in Seq(Seq(Packages))
  BY DEF Keeps, Fit
<1>2. B \in [Threads -> Accessors] /\ B[t] = b /\ \A u \in Threads \ {t} : B[u] = A[u]
  BY <1>1
<1> HIDE DEF B
<1> DEFINE L == Hold(A[t], Q)
           N == Hold(b, R)
<1>3. L \subseteq All(Q, A) /\ \A u \in Threads \ {t} : Own(A[u]) \subseteq All(Q, A)
  BY DEF Hold, All
<1>4. All(Q, A) \subseteq (s \cup {Initial}) \ p
  BY DEF Keeps
<1>5. ASSUME NEW u \in Threads \ {t}
      PROVE  Own(A[u]) \cap N = {} /\ Own(A[u]) \cap Queued(R) = {} /\ Own(A[u]) \cap Own(b) = {}
  <2>1. Own(A[u]) \cap L = {}
    BY DEF Keeps, Private, Hold
  <2>2. Own(A[u]) \cap X = {}
    BY <1>3, <1>4 DEF Inner
  <2>3. Own(A[u]) \cap N = {}
    BY <2>1, <2>2
  <2> QED BY <2>3 DEF Hold
<1>6. ASSUME NEW u \in Threads PROVE Private(R, B, u)
  <2>1. CASE u = t
    <3>1. Apart(b) /\ Own(b) \cap Queued(R) = {}
      BY DEF Fit
    <3> QED BY <1>2, <1>5, <2>1, <3>1 DEF Private
  <2>2. CASE u # t
    <3>1. Apart(A[u]) /\ \A v \in Threads : v # u => Own(A[u]) \cap Own(A[v]) = {}
      BY DEF Keeps, Private
    <3>2. ASSUME NEW v \in Threads, v # u PROVE Own(A[u]) \cap Own(B[v]) = {}
      BY <1>2, <1>5, <2>2, <3>1, <3>2
    <3> QED BY <1>2, <1>5, <2>2, <3>1, <3>2 DEF Private
  <2> QED BY <2>1, <2>2
<1>7. All(R, B) = (All(Q, A) \cup X) \ Y
  <2>1. ASSUME NEW x PROVE x \in All(R, B) <=> x \in N \/ \E u \in Threads \ {t} : x \in Own(A[u])
    BY <1>2 DEF All, Hold
  <2>2. ASSUME NEW x PROVE x \in All(Q, A) <=> x \in L \/ \E u \in Threads \ {t} : x \in Own(A[u])
    BY DEF All, Hold
  <2>3. \A u \in Threads \ {t} : Own(A[u]) \cap Y = {}
    BY DEF Keeps, Private, Hold
  <2> HIDE DEF L, N
  <2>4. N = (L \cup X) \ Y
    BY DEF L, N
  <2> QED BY <2>1, <2>2, <2>3, <2>4
<1>8. s \subseteq Inner /\ p \subseteq s \cup {Initial} /\ (\A q \in s : Owner(q) = m) /\ s \subseteq p \cup All(Q, A)
  BY DEF Keeps
<1>9. Y \subseteq All(Q, A)
  BY <1>3
<1>10. /\ s \cup X \subseteq Inner /\ p \cup Y \subseteq (s \cup X) \cup {Initial}
       /\ \A q \in s \cup X : Owner(q) = m
  BY <1>4, <1>8, <1>9
<1>11. All(R, B) \subseteq ((s \cup X) \cup {Initial}) \ (p \cup Y)
  BY <1>4, <1>7, <1>8 DEF Inner
<1>12. s \cup X \subseteq (p \cup Y) \cup All(R, B)
  BY <1>7, <1>8
<1>13. Split(R)
  BY DEF Fit
<1> QED BY <1>1, <1>2, <1>6, <1>10, <1>11, <1>12, <1>13 DEF Keeps, B

-----------------------------------------------------------------------------
(* Packages on their way stay those of different steps.                     *)
LEMMA TraceOf ==
  ASSUME NEW f, NEW C, NEW P, Traces(f, C, P),
         NEW n \in 0 .. Size, NEW w \in Workers, NEW i \in DOMAIN C[n][w]
  PROVE  f[n][w][i] \in P /\ C[n][w][i] \in Succ(f[n][w][i])
BY DEF Traces

LEMMA TraceSame ==
  ASSUME NEW f, NEW C, NEW P, Traces(f, C, P),
         NEW n \in 0 .. Size, NEW w \in Workers, NEW i \in DOMAIN C[n][w],
         NEW k \in 0 .. Size, NEW v \in Workers, NEW j \in DOMAIN C[k][v],
         f[n][w][i] = f[k][v][j], C[n][w][i] = C[k][v][j]
  PROVE  n = k /\ w = v /\ i = j
BY DEF Traces

LEMMA TraceShift ==
  ASSUME NEW C \in Freight, NEW P, NEW n \in 0 .. Size, NEW w \in Workers, C[n][w] # << >>,
         Traced(C, P), NEW D \in Freight, D[n][w] = Tail(C[n][w]),
         \A k \in 0 .. Size, v \in Workers : k # n \/ v # w => D[k][v] = C[k][v]
  PROVE  Traced(D, P)
<1>1. PICK f \in Steps : Traces(f, C, P)
  BY DEF Traced
<1> DEFINE g == [k \in 0 .. Size |-> [v \in Workers |-> [i \in Nat |->
                   IF k = n /\ v = w THEN f[k][v][i + 1] ELSE f[k][v][i]]]]
           Old(k, v, i) == IF k = n /\ v = w THEN i + 1 ELSE i
<1>2. g \in Steps
  BY DEF Steps
<1>3. ASSUME NEW k \in 0 .. Size, NEW v \in Workers, NEW i \in DOMAIN D[k][v]
      PROVE  /\ i \in Nat /\ Old(k, v, i) \in DOMAIN C[k][v] /\ D[k][v][i] = C[k][v][Old(k, v, i)]
             /\ g[k][v][i] = f[k][v][Old(k, v, i)]
  <2>1. C[k][v] \in Seq(Packages) /\ D[k][v] \in Seq(Packages)
    BY DEF Freight
  <2>2. i \in Nat
    BY <2>1
  <2>3. g[k][v][i] = f[k][v][Old(k, v, i)]
    BY <2>2
  <2>4. CASE k = n /\ v = w
    <3>1. D[k][v] = Tail(C[k][v]) /\ C[k][v] # << >>
      BY <2>4
    <3>2. i + 1 \in DOMAIN C[k][v] /\ D[k][v][i] = C[k][v][i + 1]
      BY <2>1, <3>1
    <3> QED BY <2>2, <2>3, <2>4, <3>2
  <2>5. CASE ~(k = n /\ v = w)
    BY <2>2, <2>3, <2>5
  <2> QED BY <2>4, <2>5
<1> HIDE DEF g
<1>4. Traces(g, D, P)
  <2>1. ASSUME NEW k \in 0 .. Size, NEW v \in Workers, NEW i \in DOMAIN D[k][v]
        PROVE  g[k][v][i] \in P /\ D[k][v][i] \in Succ(g[k][v][i])
    BY <1>1, <1>3 DEF Traces
  <2>2. ASSUME NEW k \in 0 .. Size, NEW l \in 0 .. Size, NEW v \in Workers, NEW u \in Workers,
               NEW i \in DOMAIN D[k][v], NEW j \in DOMAIN D[l][u],
               g[k][v][i] = g[l][u][j], D[k][v][i] = D[l][u][j]
        PROVE  k = l /\ v = u /\ i = j
    <3>1. /\ i \in Nat /\ Old(k, v, i) \in DOMAIN C[k][v] /\ D[k][v][i] = C[k][v][Old(k, v, i)]
          /\ g[k][v][i] = f[k][v][Old(k, v, i)]
      BY <1>3
    <3>2. /\ j \in Nat /\ Old(l, u, j) \in DOMAIN C[l][u] /\ D[l][u][j] = C[l][u][Old(l, u, j)]
          /\ g[l][u][j] = f[l][u][Old(l, u, j)]
      BY <1>3
    <3> HIDE DEF Old
    <3>3. k = l /\ v = u /\ Old(k, v, i) = Old(l, u, j)
      <4>1. /\ f[k][v][Old(k, v, i)] = f[l][u][Old(l, u, j)]
            /\ C[k][v][Old(k, v, i)] = C[l][u][Old(l, u, j)]
        BY <2>2, <3>1, <3>2
      <4> QED BY <1>1, <3>1, <3>2, <4>1, TraceSame
    <3> QED BY <3>1, <3>2, <3>3 DEF Old
  <2> QED BY <2>1, <2>2 DEF Traces
<1> QED BY <1>2, <1>4 DEF Traced

LEMMA TraceFewer ==
  ASSUME NEW C \in Freight, NEW P, Traced(C, P), NEW D \in Freight,
         \A k \in 0 .. Size, v \in Workers : D[k][v] = C[k][v] \/ D[k][v] = << >>
  PROVE  Traced(D, P)
<1>1. PICK f \in Steps : Traces(f, C, P)
  BY DEF Traced
<1>2. \A k \in 0 .. Size, v \in Workers : \A i \in DOMAIN D[k][v] : D[k][v] = C[k][v]
  OBVIOUS
<1>3. Traces(f, D, P)
  BY <1>1, <1>2 DEF Traces
<1> QED BY <1>3 DEF Traced

LEMMA TraceSend ==
  ASSUME LoadConstants, NEW C \in Freight, NEW P, NEW n \in 1 .. Size, NEW w \in Workers, C[0][w] # << >>,
         Traced(C, P), NEW D \in Freight, D[0][w] = Tail(C[0][w]),
         D[n][w] = Append(C[n][w], Head(C[0][w])),
         \A k \in 0 .. Size, v \in Workers : k \notin {0, n} \/ v # w => D[k][v] = C[k][v]
  PROVE  Traced(D, P)
<1>1. PICK f \in Steps : Traces(f, C, P)
  BY DEF Traced
<1>2. Size \in Nat /\ 0 \in 0 .. Size /\ n \in 0 .. Size /\ n # 0
  BY DEF LoadConstants
<1> DEFINE New(k, v, i) == k = n /\ v = w /\ i = Len(C[n][w]) + 1
           Line(k, v, i) == IF New(k, v, i) THEN 0 ELSE k
           Old(k, v, i) == IF New(k, v, i) THEN 1 ELSE IF k = 0 /\ v = w THEN i + 1 ELSE i
           g == [k \in 0 .. Size |-> [v \in Workers |-> [i \in Nat |->
                   f[Line(k, v, i)][v][Old(k, v, i)]]]]
<1>3. g \in Steps
  BY <1>2 DEF Steps
<1>4. ASSUME NEW k \in 0 .. Size, NEW v \in Workers, NEW i \in DOMAIN D[k][v]
      PROVE  /\ i \in Nat \ {0} /\ Line(k, v, i) \in 0 .. Size
             /\ Old(k, v, i) \in DOMAIN C[Line(k, v, i)][v]
             /\ D[k][v][i] = C[Line(k, v, i)][v][Old(k, v, i)]
             /\ g[k][v][i] = f[Line(k, v, i)][v][Old(k, v, i)]
  <2>1. C[k][v] \in Seq(Packages) /\ D[k][v] \in Seq(Packages) /\ C[0][w] \in Seq(Packages)
    BY <1>2 DEF Freight
  <2>2. i \in Nat \ {0}
    BY <2>1
  <2>3. g[k][v][i] = f[Line(k, v, i)][v][Old(k, v, i)]
    BY <2>2
  <2>4. CASE New(k, v, i)
    <3>1. D[k][v][i] = Head(C[0][w]) /\ 1 \in DOMAIN C[0][w] /\ Head(C[0][w]) = C[0][w][1]
      BY <2>1, <2>4
    <3> QED BY <1>2, <2>2, <2>3, <2>4, <3>1
  <2>5. CASE k = n /\ v = w /\ ~New(k, v, i)
    <3>1. i \in DOMAIN C[k][v] /\ D[k][v][i] = C[k][v][i]
      BY <2>1, <2>2, <2>5
    <3> QED BY <1>2, <2>2, <2>3, <2>5, <3>1
  <2>6. CASE k = 0 /\ v = w
    <3>1. D[0][w] = Tail(C[0][w]) /\ C[0][w] # << >> /\ i \in DOMAIN D[0][w]
      BY <2>6
    <3>2. i + 1 \in DOMAIN C[0][w] /\ D[0][w][i] = C[0][w][i + 1]
      BY <2>1, <2>2, <3>1
    <3> QED BY <1>2, <2>2, <2>3, <2>6, <3>2
  <2>7. CASE k \notin {0, n} \/ v # w
    BY <1>2, <2>2, <2>3, <2>7
  <2> QED BY <2>4, <2>5, <2>6, <2>7
<1> HIDE DEF g
<1>5. Traces(g, D, P)
  <2>1. ASSUME NEW k \in 0 .. Size, NEW v \in Workers, NEW i \in DOMAIN D[k][v]
        PROVE  g[k][v][i] \in P /\ D[k][v][i] \in Succ(g[k][v][i])
    <3> HIDE DEF Line, Old
    <3>1. /\ Line(k, v, i) \in 0 .. Size /\ Old(k, v, i) \in DOMAIN C[Line(k, v, i)][v]
          /\ D[k][v][i] = C[Line(k, v, i)][v][Old(k, v, i)]
          /\ g[k][v][i] = f[Line(k, v, i)][v][Old(k, v, i)]
      BY <1>4
    <3>2. /\ f[Line(k, v, i)][v][Old(k, v, i)] \in P
          /\ C[Line(k, v, i)][v][Old(k, v, i)] \in Succ(f[Line(k, v, i)][v][Old(k, v, i)])
      BY <1>1, <3>1, TraceOf
    <3> QED BY <3>1, <3>2
  <2>2. ASSUME NEW k \in 0 .. Size, NEW l \in 0 .. Size, NEW v \in Workers, NEW u \in Workers,
               NEW i \in DOMAIN D[k][v], NEW j \in DOMAIN D[l][u],
               g[k][v][i] = g[l][u][j], D[k][v][i] = D[l][u][j]
        PROVE  k = l /\ v = u /\ i = j
    <3> HIDE DEF Line, Old
    <3>1. /\ i \in Nat \ {0} /\ Line(k, v, i) \in 0 .. Size /\ Old(k, v, i) \in DOMAIN C[Line(k, v, i)][v]
          /\ D[k][v][i] = C[Line(k, v, i)][v][Old(k, v, i)]
          /\ g[k][v][i] = f[Line(k, v, i)][v][Old(k, v, i)]
      BY <1>4
    <3>2. /\ j \in Nat \ {0} /\ Line(l, u, j) \in 0 .. Size /\ Old(l, u, j) \in DOMAIN C[Line(l, u, j)][u]
          /\ D[l][u][j] = C[Line(l, u, j)][u][Old(l, u, j)]
          /\ g[l][u][j] = f[Line(l, u, j)][u][Old(l, u, j)]
      BY <1>4
    <3>3. Line(k, v, i) = Line(l, u, j) /\ v = u /\ Old(k, v, i) = Old(l, u, j)
      <4>1. /\ f[Line(k, v, i)][v][Old(k, v, i)] = f[Line(l, u, j)][u][Old(l, u, j)]
            /\ C[Line(k, v, i)][v][Old(k, v, i)] = C[Line(l, u, j)][u][Old(l, u, j)]
        BY <2>2, <3>1, <3>2
      <4>2. /\ Line(k, v, i) \in 0 .. Size /\ Old(k, v, i) \in DOMAIN C[Line(k, v, i)][v]
            /\ Line(l, u, j) \in 0 .. Size /\ Old(l, u, j) \in DOMAIN C[Line(l, u, j)][u]
        BY <3>1, <3>2
      <4> QED BY <1>1, <4>1, <4>2, TraceSame
    <3>4. Len(C[n][w]) \in Nat
      BY <1>2 DEF Freight
    <3> QED BY <1>2, <3>1, <3>2, <3>3, <3>4 DEF Line, Old
  <2> QED BY <2>1, <2>2 DEF Traces
<1> QED BY <1>3, <1>5 DEF Traced

LEMMA TraceStep ==
  ASSUME LoadConstants, NEW C \in Freight, NEW P, NEW w \in Workers, C[0][w] = << >>,
         Traced(C, P), NEW p \in Packages \ P, NEW D \in Freight, D[0][w] = Successors(p),
         \A k \in 0 .. Size, v \in Workers : k # 0 \/ v # w => D[k][v] = C[k][v]
  PROVE  Traced(D, P \cup {p})
<1>1. PICK f \in Steps : Traces(f, C, P)
  BY DEF Traced
<1> DEFINE g == [k \in 0 .. Size |-> [v \in Workers |-> [i \in Nat |->
                   IF k = 0 /\ v = w THEN p ELSE f[k][v][i]]]]
<1>2. g \in Steps
  BY DEF Steps
<1>3. ASSUME NEW k \in 0 .. Size, NEW v \in Workers, NEW i \in DOMAIN D[k][v]
      PROVE  IF k = 0 /\ v = w
             THEN g[k][v][i] = p /\ D[k][v][i] = Successors(p)[i] /\ i \in DOMAIN Successors(p)
             ELSE g[k][v][i] = f[k][v][i] /\ D[k][v] = C[k][v]
  <2>1. D[k][v] \in Seq(Packages)
    BY DEF Freight
  <2>2. i \in Nat
    BY <2>1
  <2> QED BY <2>2
<1> HIDE DEF g
<1>4. /\ \A i, j \in DOMAIN Successors(p) : Successors(p)[i] = Successors(p)[j] => i = j
      /\ \A i \in DOMAIN Successors(p) : Successors(p)[i] \in Succ(p)
  BY SuccessorFacts DEF Succ, ToSet
<1>5. ASSUME NEW k \in 0 .. Size, NEW v \in Workers, NEW i \in DOMAIN D[k][v]
      PROVE  /\ g[k][v][i] \in P \cup {p} /\ D[k][v][i] \in Succ(g[k][v][i])
             /\ g[k][v][i] = p <=> k = 0 /\ v = w
  <2>1. CASE k = 0 /\ v = w
    BY <1>3, <1>4, <2>1
  <2>2. CASE ~(k = 0 /\ v = w)
    <3>1. f[k][v][i] \in P /\ C[k][v][i] \in Succ(f[k][v][i])
      BY <1>1, <1>3, <2>2 DEF Traces
    <3> QED BY <1>3, <2>2, <3>1
  <2> QED BY <2>1, <2>2
<1>6. ASSUME NEW k \in 0 .. Size, NEW l \in 0 .. Size, NEW v \in Workers, NEW u \in Workers,
             NEW i \in DOMAIN D[k][v], NEW j \in DOMAIN D[l][u],
             g[k][v][i] = g[l][u][j], D[k][v][i] = D[l][u][j]
      PROVE  k = l /\ v = u /\ i = j
  <2>1. CASE k = 0 /\ v = w
    <3>1. l = 0 /\ u = w
      BY <1>5, <1>6, <2>1
    <3>2. /\ D[k][v][i] = Successors(p)[i] /\ i \in DOMAIN Successors(p)
          /\ D[l][u][j] = Successors(p)[j] /\ j \in DOMAIN Successors(p)
      BY <1>3, <2>1, <3>1
    <3> QED BY <1>4, <1>6, <2>1, <3>1, <3>2
  <2>2. CASE ~(k = 0 /\ v = w)
    <3>1. ~(l = 0 /\ u = w)
      BY <1>5, <1>6, <2>2
    <3>2. /\ g[k][v][i] = f[k][v][i] /\ D[k][v] = C[k][v]
          /\ g[l][u][j] = f[l][u][j] /\ D[l][u] = C[l][u]
      BY <1>3, <2>2, <3>1
    <3>3. /\ i \in DOMAIN C[k][v] /\ j \in DOMAIN C[l][u]
          /\ f[k][v][i] = f[l][u][j] /\ C[k][v][i] = C[l][u][j]
      BY <1>6, <3>2
    <3> QED BY <1>1, <3>3, TraceSame
  <2> QED BY <2>1, <2>2
<1>7. Traces(g, D, P \cup {p})
  BY <1>5, <1>6 DEF Traces
<1> QED BY <1>2, <1>7 DEF Traced

LEMMA CardinalityEdges ==
  ASSUME LoadConstants
  PROVE  IsFiniteSet(Edges) /\ Cardinality(Edges) \in Nat
<1>1. WorkLoad \in Nat
  BY DEF LoadConstants
<1>2. IsFiniteSet(0 .. WorkLoad)
  BY <1>1, FS_Interval
<1>3. IsFiniteSet(Packages)
  BY <1>2, FS_Product DEF Packages
<1>4. IsFiniteSet(Packages \X Packages)
  BY <1>3, FS_Product
<1>5. IsFiniteSet(Edges)
  BY <1>4, FS_Subset DEF Edges
<1> QED BY <1>5, FS_CardinalityType

LEMMA OwnerType ==
  ASSUME LoadConstants, NEW p \in Packages
  PROVE  Owner(p) \in Machines
<1>1. WorkLoad \in Nat /\ Size \in Nat /\ Size >= 1
  BY DEF LoadConstants
<1>2. PICK a \in Nat, b \in Nat : p = <<a, b>>
  BY <1>1 DEF Packages
<1>3. p[1] + 7 \in Nat /\ p[2] + 13 \in Nat
  BY <1>2
<1>4. Hash(p) \in Nat
  BY <1>3 DEF Hash
<1>5. Hash(p) % Size \in 0 .. (Size - 1)
  BY <1>1, <1>4
<1> QED BY <1>1, <1>5 DEF Owner, Machines

(* So one that is sent meets a line with room.                              *)
LEMMA TraceRoom ==
  ASSUME LoadConstants, NEW C \in Freight, NEW P \in SUBSET Packages, Traced(C, P),
         NEW n \in 1 .. Size, NEW w \in Workers, C[0][w] # << >>
  PROVE  Len(C[n][w]) < Cardinality(Edges)
<1>1. PICK f \in Steps : Traces(f, C, P)
  BY DEF Traced
<1>2. Size \in Nat /\ 0 \in 0 .. Size /\ n \in 0 .. Size /\ n # 0 /\ WorkLoad \in Nat
  BY DEF LoadConstants
<1> DEFINE N == Len(C[n][w])
           e == [i \in 0 .. N |-> IF i = 0 THEN <<f[0][w][1], C[0][w][1]>>
                                  ELSE <<f[n][w][i], C[n][w][i]>>]
<1>3. C[n][w] \in Seq(Packages) /\ C[0][w] \in Seq(Packages)
  BY <1>2 DEF Freight
<1>4. N \in Nat /\ 1 \in DOMAIN C[0][w] /\ DOMAIN C[n][w] = 1 .. N
  BY <1>3
<1>5. ASSUME NEW i \in 0 .. N PROVE e[i] \in Edges
  <2>1. CASE i = 0
    <3>1. f[0][w][1] \in Packages /\ C[0][w][1] \in Packages /\ C[0][w][1] \in Succ(f[0][w][1])
      BY <1>1, <1>2, <1>3, <1>4 DEF Traces
    <3> QED BY <2>1, <3>1 DEF Edges
  <2>2. CASE i # 0
    <3>1. i \in DOMAIN C[n][w]
      BY <1>4, <2>2
    <3>2. f[n][w][i] \in Packages /\ C[n][w][i] \in Packages /\ C[n][w][i] \in Succ(f[n][w][i])
      BY <1>1, <1>2, <1>3, <3>1 DEF Traces
    <3> QED BY <2>2, <3>2 DEF Edges
  <2> QED BY <2>1, <2>2
<1>6. ASSUME NEW i \in 0 .. N, NEW j \in 0 .. N, e[i] = e[j] PROVE i = j
  <2>1. CASE i = 0 /\ j # 0
    <3>1. j \in DOMAIN C[n][w] /\ f[0][w][1] = f[n][w][j] /\ C[0][w][1] = C[n][w][j]
      BY <1>4, <1>6, <2>1
    <3> QED BY <1>1, <1>2, <1>4, <3>1 DEF Traces
  <2>2. CASE i # 0 /\ j = 0
    <3>1. i \in DOMAIN C[n][w] /\ f[0][w][1] = f[n][w][i] /\ C[0][w][1] = C[n][w][i]
      BY <1>4, <1>6, <2>2
    <3> QED BY <1>1, <1>2, <1>4, <3>1 DEF Traces
  <2>3. CASE i # 0 /\ j # 0
    <3>1. i \in DOMAIN C[n][w] /\ j \in DOMAIN C[n][w] /\ f[n][w][j] = f[n][w][i] /\ C[n][w][j] = C[n][w][i]
      BY <1>4, <1>6, <2>3
    <3> QED BY <1>1, <1>2, <1>4, <3>1 DEF Traces
  <2> QED BY <2>1, <2>2, <2>3
<1>7. IsFiniteSet(Edges)
  BY CardinalityEdges
<1>8. e \in Injection(0 .. N, Edges)
  <2>1. e \in [0 .. N -> Edges]
    BY <1>5
  <2> HIDE DEF e
  <2> QED BY <1>6, <2>1 DEF Injection, IsInjective
<1> HIDE DEF e
<1>9. Cardinality(0 .. N) <= Cardinality(Edges)
  BY <1>7, <1>8, FS_Injection
<1>10. Cardinality(0 .. N) = N + 1
  BY <1>4, FS_Interval
<1>11. Cardinality(Edges) \in Nat
  BY <1>7, FS_CardinalityType
<1> QED BY <1>4, <1>9, <1>10, <1>11

-----------------------------------------------------------------------------
(* What the operations do to the packages of a machine.                     *)
LEMMA KeepsFit ==
  ASSUME NEW m, NEW Q, NEW A, NEW s, NEW p, Keeps(m, Q, A, s, p), NEW t \in Threads
  PROVE  /\ Fit(A[t], Q) /\ Hold(A[t], Q) \subseteq (s \cup {Initial}) \ p
         /\ s \subseteq Inner /\ p \subseteq s \cup {Initial}
<1>1. A \in [Threads -> Accessors] /\ Q \in Seq(Seq(Packages)) /\ Split(Q) /\ Private(Q, A, t)
  BY DEF Keeps
<1>2. Fit(A[t], Q)
  BY <1>1 DEF Fit, Private
<1>3. Hold(A[t], Q) \subseteq All(Q, A)
  BY DEF Hold, All
<1> QED BY <1>2, <1>3 DEF Keeps

LEMMA StoreFacts ==
  ASSUME LoadTyped, Kept, NEW m \in Machines, NEW t \in Threads, NEW b, NEW R, Fit(b, R),
         NEW X, X \subseteq Inner \ seen[m], \A x \in X : Owner(x) = m,
         NEW Y, Y \subseteq Hold(acc[m][t], queue[m]),
         Hold(b, R) = (Hold(acc[m][t], queue[m]) \cup X) \ Y,
         acc' = [acc EXCEPT ![m][t] = b], queue' = [queue EXCEPT ![m] = R],
         seen' = [seen EXCEPT ![m] = @ \cup X], popped' = [popped EXCEPT ![m] = @ \cup Y]
  PROVE  /\ seen' \in [Machines -> SUBSET Packages] /\ popped' \in [Machines -> SUBSET Packages]
         /\ queue' \in [Machines -> Seq(Seq(Packages))]
         /\ acc' \in [Machines -> [Threads -> Accessors]] /\ Kept'
<1>1. /\ seen \in [Machines -> SUBSET Packages] /\ popped \in [Machines -> SUBSET Packages]
      /\ queue \in [Machines -> Seq(Seq(Packages))] /\ acc \in [Machines -> [Threads -> Accessors]]
  BY DEF LoadTyped
<1>2. /\ acc'[m] = [acc[m] EXCEPT ![t] = b] /\ queue'[m] = R
      /\ seen'[m] = seen[m] \cup X /\ popped'[m] = popped[m] \cup Y
      /\ \A k \in Machines \ {m} : /\ acc'[k] = acc[k] /\ queue'[k] = queue[k]
                                   /\ seen'[k] = seen[k] /\ popped'[k] = popped[k]
  BY <1>1
<1>3. Keeps(m, queue[m], acc[m], seen[m], popped[m])
  BY DEF Kept
<1>4. Keeps(m, queue'[m], acc'[m], seen'[m], popped'[m])
  <2> DEFINE A == acc[m]
             Q == queue[m]
             z == seen[m]
             p == popped[m]
  <2>1. /\ Keeps(m, Q, A, z, p) /\ X \subseteq Inner \ z /\ Y \subseteq Hold(A[t], Q)
        /\ Hold(b, R) = (Hold(A[t], Q) \cup X) \ Y
    BY <1>3
  <2>2. /\ acc'[m] = [A EXCEPT ![t] = b] /\ queue'[m] = R
        /\ seen'[m] = z \cup X /\ popped'[m] = p \cup Y
    BY <1>2
  <2> HIDE DEF A, Q, z, p
  <2>3. Keeps(m, R, [A EXCEPT ![t] = b], z \cup X, p \cup Y)
    BY <2>1, Exchange
  <2> QED BY <2>2, <2>3
<1>5. Kept'
  BY <1>2, <1>4 DEF Kept
<1>6. Y \subseteq Packages /\ X \subseteq Packages
  <2>1. Hold(acc[m][t], queue[m]) \subseteq (seen[m] \cup {Initial}) \ popped[m]
    BY <1>3, KeepsFit
  <2>2. popped'[m] \subseteq seen'[m] \cup {Initial} /\ seen'[m] \subseteq Inner
    BY <1>4 DEF Keeps
  <2>3. All(queue[m], acc[m]) \subseteq Packages
    <3>1. \A i \in DOMAIN queue[m] : ToSet(queue[m][i]) \subseteq Packages
      BY <1>1 DEF ToSet
    <3>2. \A u \in Threads : Own(acc[m][u]) \subseteq Packages
      BY <1>1 DEF Own, ToSet, Accessors
    <3> QED BY <3>1, <3>2 DEF All, Queued
  <2>4. Hold(acc[m][t], queue[m]) \subseteq All(queue[m], acc[m])
    BY DEF Hold, All
  <2> QED BY <2>3, <2>4 DEF Inner
<1>7. R \in Seq(Seq(Packages)) /\ b \in Accessors
  BY DEF Fit
<1> QED BY <1>1, <1>5, <1>6, <1>7

LEMMA MeetFacts ==
  ASSUME LoadConstants, LoadTyped, Kept, NEW m \in Machines, NEW t \in Threads,
         NEW p \in Inner, Owner(p) = m, Meet(m, t, p), popped' = popped
  PROVE  /\ seen' \in [Machines -> SUBSET Packages] /\ popped' \in [Machines -> SUBSET Packages]
         /\ queue' \in [Machines -> Seq(Seq(Packages))]
         /\ acc' \in [Machines -> [Threads -> Accessors]] /\ Kept'
<1>1. /\ seen \in [Machines -> SUBSET Packages] /\ popped \in [Machines -> SUBSET Packages]
      /\ queue \in [Machines -> Seq(Seq(Packages))] /\ acc \in [Machines -> [Threads -> Accessors]]
  BY DEF LoadTyped
<1>2. CASE p \in seen[m]
  <2>1. seen' = seen /\ acc' = acc /\ queue' = queue
    <3>1. seen' = [seen EXCEPT ![m] = @ \cup {p}] /\ acc' = acc /\ queue' = queue
      BY <1>2 DEF Meet
    <3>2. seen[m] \cup {p} = seen[m]
      BY <1>2
    <3> QED BY <1>1, <3>1, <3>2
  <2> QED BY <1>1, <2>1 DEF Kept
<1>3. CASE p \notin seen[m]
  <2> DEFINE a == acc[m][t]
             Q == queue[m]
             S == Push([acc |-> a, queue |-> Q], p)
  <2>1. /\ seen' = [seen EXCEPT ![m] = @ \cup {p}]
        /\ acc' = [acc EXCEPT ![m][t] = S.acc] /\ queue' = [queue EXCEPT ![m] = S.queue]
    BY <1>3 DEF Meet, Store, View
  <2>2. Keeps(m, Q, acc[m], seen[m], popped[m])
    BY DEF Kept
  <2>3. Fit(a, Q) /\ Hold(a, Q) \subseteq seen[m] \cup {Initial}
    BY <2>2, KeepsFit
  <2>4. p \in Packages /\ p \notin Hold(a, Q)
    BY <1>3, <2>3 DEF Inner
  <2> HIDE DEF a, Q
  <2>5. Fit(S.acc, S.queue) /\ Hold(S.acc, S.queue) = Hold(a, Q) \cup {p}
    <3>1. Fit(a, Q) /\ S = Push([acc |-> a, queue |-> Q], p)
      BY <2>3
    <3> HIDE DEF S
    <3> QED BY <2>4, <3>1, PushFacts
  <2> HIDE DEF S
  <2>6. popped' = [popped EXCEPT ![m] = @ \cup {}]
    BY <1>1
  <2>7. Hold(S.acc, S.queue) = (Hold(a, Q) \cup {p}) \ {}
    BY <2>5
  <2>8. {p} \subseteq Inner \ seen[m] /\ (\A x \in {p} : Owner(x) = m) /\ {} \subseteq Hold(a, Q)
    BY <1>3
  <2> QED BY <2>1, <2>5, <2>6, <2>7, <2>8, StoreFacts DEF a, Q
<1> QED BY <1>2, <1>3

LEMMA FlushKeeps ==
  ASSUME LoadConstants, LoadTyped, Kept, NEW m \in Machines, NEW t \in Threads,
         Store(m, t, Flush(View(m, t))), popped' = popped, seen' = seen
  PROVE  /\ seen' \in [Machines -> SUBSET Packages] /\ popped' \in [Machines -> SUBSET Packages]
         /\ queue' \in [Machines -> Seq(Seq(Packages))]
         /\ acc' \in [Machines -> [Threads -> Accessors]] /\ Kept'
<1>1. seen \in [Machines -> SUBSET Packages] /\ popped \in [Machines -> SUBSET Packages]
  BY DEF LoadTyped
<1> DEFINE a == acc[m][t]
           Q == queue[m]
           S == Flush([acc |-> a, queue |-> Q])
<1>2. acc' = [acc EXCEPT ![m][t] = S.acc] /\ queue' = [queue EXCEPT ![m] = S.queue]
  BY DEF Store, View
<1>3. Keeps(m, Q, acc[m], seen[m], popped[m])
  BY DEF Kept
<1>4. Fit(a, Q)
  BY <1>3, KeepsFit
<1> HIDE DEF a, Q
<1>5. Fit(S.acc, S.queue) /\ Hold(S.acc, S.queue) = Hold(a, Q)
  BY <1>4, FlushFacts
<1> HIDE DEF S
<1>6. popped' = [popped EXCEPT ![m] = @ \cup {}] /\ seen' = [seen EXCEPT ![m] = @ \cup {}]
  BY <1>1
<1>7. Hold(S.acc, S.queue) = (Hold(a, Q) \cup {}) \ {}
  BY <1>5
<1>8. {} \subseteq Inner \ seen[m] /\ (\A x \in {} : Owner(x) = m) /\ {} \subseteq Hold(a, Q)
  OBVIOUS
<1> QED BY <1>2, <1>5, <1>6, <1>7, <1>8, StoreFacts DEF a, Q

(* A package that a worker takes was seen by its machine, and only now it   *)
(* is taken.                                                                *)
LEMMA PopKeeps ==
  ASSUME LoadConstants, LoadTyped, Kept, NEW m \in Machines, NEW w \in Workers, Pop(m, w),
         Refill(View(m, w)).acc.in # << >>
  PROVE  LET p == Head(Refill(View(m, w)).acc.in)
         IN /\ p \in Packages \ popped[m] /\ p # Final
            /\ popped' = [popped EXCEPT ![m] = @ \cup {p}]
            /\ todo' = [todo EXCEPT ![m][w] = Successors(p)]
            /\ pc' = [pc EXCEPT ![m][w] = "yield"]
            /\ seen' \in [Machines -> SUBSET Packages] /\ popped' \in [Machines -> SUBSET Packages]
            /\ queue' \in [Machines -> Seq(Seq(Packages))]
            /\ acc' \in [Machines -> [Threads -> Accessors]] /\ Kept'
<1>1. seen \in [Machines -> SUBSET Packages] /\ popped \in [Machines -> SUBSET Packages] /\ w \in Threads
  BY DEF LoadTyped, Threads
<1> DEFINE a == acc[m][w]
           Q == queue[m]
           S == Refill([acc |-> a, queue |-> Q])
           p == Head(S.acc.in)
           b == [S.acc EXCEPT !.in = Tail(@)]
<1>2. View(m, w) = [acc |-> a, queue |-> Q]
  BY DEF View
<1>3. Keeps(m, Q, acc[m], seen[m], popped[m])
  BY DEF Kept
<1>4. Fit(a, Q) /\ Hold(a, Q) \subseteq (seen[m] \cup {Initial}) \ popped[m] /\ seen[m] \subseteq Inner
  BY <1>1, <1>3, KeepsFit
<1> HIDE DEF a, Q
<1>5. /\ S = [acc |-> S.acc, queue |-> S.queue]
      /\ Fit(S.acc, S.queue) /\ Hold(S.acc, S.queue) = Hold(a, Q)
  BY <1>4, RefillFacts
<1>6. S.acc.in # << >>
  BY <1>2
<1>7. /\ popped' = [popped EXCEPT ![m] = @ \cup {p}] /\ todo' = [todo EXCEPT ![m][w] = Successors(p)]
      /\ pc' = [pc EXCEPT ![m][w] = "yield"]
      /\ Store(m, w, [S EXCEPT !.acc.in = Tail(@)]) /\ seen' = seen
  BY <1>2, <1>6 DEF Pop
<1>8. [S EXCEPT !.acc.in = Tail(@)] = [acc |-> b, queue |-> S.queue]
  <2> DEFINE c == S.acc
             R == S.queue
  <2>1. S = [acc |-> c, queue |-> R]
    BY <1>5
  <2> HIDE DEF c, R, S
  <2>2. S.acc = c /\ S.queue = R
    BY <2>1
  <2>3. [[acc |-> c, queue |-> R] EXCEPT !.acc.in = Tail(@)] = [acc |-> [c EXCEPT !.in = Tail(@)], queue |-> R]
    BY ExceptIn
  <2> QED BY <2>1, <2>2, <2>3
<1>9. acc' = [acc EXCEPT ![m][w] = b] /\ queue' = [queue EXCEPT ![m] = S.queue]
  BY <1>7, <1>8 DEF Store
<1>10. /\ p \in Hold(a, Q) /\ p \in Packages
       /\ Fit(b, S.queue) /\ Hold(b, S.queue) = Hold(a, Q) \ {p}
  <2> HIDE DEF S
  <2> QED BY <1>5, <1>6, TakeFacts
<1> HIDE DEF S, p, b
<1>11. p \notin popped[m] /\ p # Final
  BY <1>4, <1>10, PackageFacts DEF Inner
<1>12. seen' = [seen EXCEPT ![m] = @ \cup {}]
  BY <1>1, <1>7
<1>13. Hold(b, S.queue) = (Hold(a, Q) \cup {}) \ {p}
  BY <1>10
<1>14. {} \subseteq Inner \ seen[m] /\ (\A x \in {} : Owner(x) = m) /\ {p} \subseteq Hold(a, Q)
  BY <1>10
<1>15. /\ seen' \in [Machines -> SUBSET Packages] /\ popped' \in [Machines -> SUBSET Packages]
       /\ queue' \in [Machines -> Seq(Seq(Packages))]
       /\ acc' \in [Machines -> [Threads -> Accessors]] /\ Kept'
  BY <1>1, <1>7, <1>9, <1>10, <1>12, <1>13, <1>14, StoreFacts DEF a, Q
<1> QED BY <1>2, <1>7, <1>10, <1>11, <1>15 DEF p, S

-----------------------------------------------------------------------------
(* What is on the lines.                                                    *)
LEMMA DataFacts ==
  ASSUME NEW p \in Packages
  PROVE  /\ Data(p) # Done /\ Data(p).package = p /\ Data(p) \in Messages /\ Done \in Messages
BY DEF Data, Done, Messages

LEMMA WireAppend ==
  ASSUME NEW s \in Seq(Messages), NEW n, NEW l, Wired(s, n, l), NEW x \in Messages,
         \/ l = Master /\ x = Done
         \/ \E p \in Inner : Owner(p) = n /\ x = Data(p)
  PROVE  /\ Append(s, x) \in Seq(Messages) /\ Wired(Append(s, x), n, l) /\ Append(s, x) # << >>
         /\ (\E i \in DOMAIN Append(s, x) : Append(s, x)[i] = Done) =>
              x = Done \/ \E i \in DOMAIN s : s[i] = Done
<1>1. /\ Append(s, x) \in Seq(Messages) /\ DOMAIN Append(s, x) = 1 .. (Len(s) + 1) /\ DOMAIN s = 1 .. Len(s)
      /\ \A i \in 1 .. Len(s) : Append(s, x)[i] = s[i]
      /\ Append(s, x)[Len(s) + 1] = x /\ Len(s) \in Nat
  OBVIOUS
<1>2. ASSUME NEW i \in DOMAIN Append(s, x) PROVE (i \in DOMAIN s /\ Append(s, x)[i] = s[i]) \/ Append(s, x)[i] = x
  BY <1>1
<1>3. Append(s, x) # << >>
  BY <1>1
<1> QED BY <1>1, <1>2, <1>3 DEF Wired

LEMMA WireTail ==
  ASSUME NEW s \in Seq(Messages), s # << >>, NEW n, NEW l, Wired(s, n, l)
  PROVE  /\ Tail(s) \in Seq(Messages) /\ Wired(Tail(s), n, l)
         /\ (\E i \in DOMAIN Tail(s) : Tail(s)[i] = Done) => \E i \in DOMAIN s : s[i] = Done
         /\ 1 \in DOMAIN s /\ Head(s) = s[1]
         /\ \/ l = Master /\ Head(s) = Done
            \/ \E p \in Inner : Owner(p) = n /\ Head(s) = Data(p)
<1>1. /\ Tail(s) \in Seq(Messages) /\ DOMAIN Tail(s) = 1 .. (Len(s) - 1) /\ DOMAIN s = 1 .. Len(s)
      /\ \A i \in 1 .. (Len(s) - 1) : Tail(s)[i] = s[i + 1]
      /\ Head(s) = s[1] /\ Len(s) \in Nat /\ Len(s) >= 1
  OBVIOUS
<1>2. ASSUME NEW i \in DOMAIN Tail(s) PROVE i + 1 \in DOMAIN s /\ Tail(s)[i] = s[i + 1]
  BY <1>1
<1>3. 1 \in DOMAIN s
  BY <1>1
<1> QED BY <1>1, <1>2, <1>3 DEF Wired

LEMMA PackedFacts ==
  ASSUME NEW s \in Seq(Messages), NEW n, NEW l, l # Master, Wired(s, n, l)
  PROVE  /\ Packed(s) \in Seq(Packages) /\ Len(Packed(s)) = Len(s)
         /\ s # << >> => Packed(Tail(s)) = Tail(Packed(s)) /\ Packed(s) # << >>
         /\ \A p \in Packages : Packed(Append(s, Data(p))) = Append(Packed(s), p)
<1>1. \A i \in DOMAIN s : s[i].package \in Packages
  BY DataFacts DEF Wired, Inner
<1>2. DOMAIN s = 1 .. Len(s) /\ Len(s) \in Nat
  OBVIOUS
<1>3. Packed(s) \in Seq(Packages) /\ Len(Packed(s)) = Len(s)
  BY <1>1, <1>2 DEF Packed
<1>4. ASSUME s # << >> PROVE Packed(Tail(s)) = Tail(Packed(s)) /\ Packed(s) # << >>
  <2>1. /\ Len(Tail(s)) = Len(s) - 1 /\ Len(s) >= 1
        /\ \A i \in 1 .. (Len(s) - 1) : Tail(s)[i] = s[i + 1] /\ i + 1 \in 1 .. Len(s)
    BY <1>2, <1>4
  <2>2. Packed(s) # << >>
    BY <1>3, <2>1
  <2>3. /\ Tail(Packed(s)) \in Seq(Packages) /\ Len(Tail(Packed(s))) = Len(s) - 1
        /\ \A i \in 1 .. (Len(s) - 1) : Tail(Packed(s))[i] = Packed(s)[i + 1]
    BY <1>3, <2>1, <2>2
  <2>4. \A i \in 1 .. (Len(s) - 1) : Packed(s)[i + 1] = s[i + 1].package /\ Packed(Tail(s))[i] = s[i + 1].package
    BY <2>1 DEF Packed
  <2>5. Packed(Tail(s)) = [i \in 1 .. (Len(s) - 1) |-> Packed(Tail(s))[i]]
    BY <2>1 DEF Packed
  <2>6. Tail(Packed(s)) = [i \in 1 .. (Len(s) - 1) |-> Tail(Packed(s))[i]]
    <3> DEFINE u == Tail(Packed(s))
    <3>1. u \in Seq(Packages) /\ Len(u) = Len(s) - 1
      BY <2>3
    <3> HIDE DEF u
    <3>2. u = [i \in 1 .. (Len(s) - 1) |-> u[i]]
      BY <3>1
    <3> QED BY <3>2 DEF u
  <2> QED BY <2>2, <2>3, <2>4, <2>5, <2>6
<1>5. ASSUME NEW p \in Packages PROVE Packed(Append(s, Data(p))) = Append(Packed(s), p)
  <2> DEFINE t == Append(s, Data(p))
             u == Append(Packed(s), p)
  <2>1. /\ Len(t) = Len(s) + 1 /\ t[Len(s) + 1] = Data(p)
        /\ \A i \in 1 .. Len(s) : t[i] = s[i]
    BY DataFacts
  <2>2. /\ u \in Seq(Packages) /\ Len(u) = Len(s) + 1 /\ u[Len(s) + 1] = p
        /\ \A i \in 1 .. Len(s) : u[i] = Packed(s)[i]
    BY <1>3
  <2> HIDE DEF t, u
  <2>3. \A i \in 1 .. Len(s) : Packed(s)[i] = s[i].package
    BY DEF Packed
  <2>4. /\ Packed(t) = [i \in 1 .. (Len(s) + 1) |-> Packed(t)[i]]
        /\ \A i \in 1 .. (Len(s) + 1) : Packed(t)[i] = t[i].package
    BY <2>1 DEF Packed
  <2>5. u = [i \in 1 .. (Len(s) + 1) |-> u[i]]
    BY <1>2, <2>2
  <2>6. \A i \in 1 .. (Len(s) + 1) : Packed(t)[i] = u[i]
    BY <1>2, <2>1, <2>2, <2>3, <2>4, DataFacts
  <2>7. Packed(t) = u
    BY <2>4, <2>5, <2>6
  <2> QED BY <2>7 DEF t, u
<1> QED BY <1>3, <1>4, <1>5

Laden(C, c, t, W) ==
  /\ C \in Freight
  /\ \A w \in Workers : c[w] = "yield" => C[0][w] = t[w]
  /\ \A w \in Workers : c[w] # "yield" => C[0][w] = << >>
  /\ \A n \in Machines, w \in Workers : C[n][w] = Packed(W[n][w])
WiredOut(W) == \A n \in Machines, l \in Lines : Wired(W[n][l], n, l)
LEMMA CargoType ==
  ASSUME LoadConstants, Kind = "Dedicated", NEW c, NEW t \in [Workers -> Seq(Packages)],
         NEW W \in [Machines -> [Lines -> Seq(Messages)]],
         WiredOut(W),
         NEW C, C = Cargoes(c, t, W)
  PROVE  Laden(C, c, t, W)
<1>1. Size \in Nat /\ Lines = Workers \cup {Master} /\ Master \notin Workers
  BY PackageFacts DEF LoadConstants, Lines
<1>2. \A n \in 0 .. Size : n # 0 => n \in Machines
  BY <1>1 DEF Machines
<1>3. \A n \in Machines : n \in 0 .. Size /\ n # 0
  BY <1>1 DEF Machines
<1>4. \A n \in Machines, w \in Workers : Packed(W[n][w]) \in Seq(Packages)
  <2>1. ASSUME NEW n \in Machines, NEW w \in Workers PROVE Packed(W[n][w]) \in Seq(Packages)
    <3>1. W[n][w] \in Seq(Messages) /\ Wired(W[n][w], n, w) /\ w # Master
      BY <1>1 DEF WiredOut
    <3> QED BY <3>1, PackedFacts
  <2> QED BY <2>1
<1>5. ASSUME NEW n \in 0 .. Size, NEW w \in Workers
      PROVE  (IF n = 0 THEN IF c[w] = "yield" THEN t[w] ELSE << >> ELSE Packed(W[n][w])) \in Seq(Packages)
  BY <1>2, <1>4
<1>6. 0 \in 0 .. Size
  BY <1>1
<1> QED BY <1>3, <1>5, <1>6 DEF Cargoes, Freight, Laden

LEMMA TracedSame ==
  ASSUME LoadConstants, AllTraced, popped' = popped,
         \A m \in Machines, w \in Workers :
           /\ pc[m][w] = "yield" <=> pc'[m][w] = "yield"
           /\ pc[m][w] = "yield" => todo'[m][w] = todo[m][w],
         \A m, n \in Machines, w \in Workers : Kind = "Dedicated" => wire'[m][n][w] = wire[m][n][w]
  PROVE  AllTraced'
<1> SUFFICES ASSUME Kind = "Dedicated", NEW m \in Machines
             PROVE  Traced(Cargoes(pc'[m], todo'[m], wire'[m]), popped'[m])
  BY DEF AllTraced
<1>1. \A n \in 0 .. Size : n # 0 => n \in Machines
  BY DEF Machines, LoadConstants
<1>2. Cargoes(pc'[m], todo'[m], wire'[m]) = Cargoes(pc[m], todo[m], wire[m])
  BY <1>1 DEF Cargoes
<1> QED BY <1>2 DEF AllTraced

LEMMA InTimeStep ==
  ASSUME InTime, \A m \in Machines : popped[m] \subseteq popped'[m],
         Workers # {} /\ Roomy /\ (\E m \in Machines : Stops(m)') =>
           Announced \/ \E m \in Machines : Stops(m)
  PROVE  InTime'
<1>1. Announced => Announced'
  BY DEF Announced
<1> QED BY <1>1 DEF InTime, Roomy, Edges

-----------------------------------------------------------------------------
(* Every action keeps the invariant.                                        *)
LEMMA KeptSame ==
  ASSUME Kept, UNCHANGED <<seen, queue, acc, popped>>
  PROVE  Kept'
<1>1. seen' = seen /\ queue' = queue /\ acc' = acc /\ popped' = popped
  OBVIOUS
<1> QED BY <1>1 DEF Kept

LEMMA QuitLoad ==
  ASSUME LoadConstants, LoadInv, NEW m \in Machines, NEW w \in Workers, Quit(m, w)
  PROVE  LoadInv'
<1>1. /\ pc[m][w] = "loop" /\ done[m] /\ pc' = [pc EXCEPT ![m][w] = "over"]
      /\ seen' = seen /\ queue' = queue /\ acc' = acc /\ done' = done /\ todo' = todo /\ round' = round
      /\ main' = main /\ unsent' = unsent /\ wire' = wire /\ popped' = popped
  BY DEF Quit
<1>2. pc \in [Machines -> [Workers -> Positions]]
  BY DEF LoadInv, LoadTyped
<1>3. /\ pc' \in [Machines -> [Workers -> Positions]] /\ pc'[m][w] = "over"
      /\ \A k \in Machines, v \in Workers : k # m \/ v # w => pc'[k][v] = pc[k][v]
  BY <1>1, <1>2 DEF Positions
<1>4. LoadTyped'
  BY <1>1, <1>3 DEF LoadInv, LoadTyped
<1>5. Kept'
  BY <1>1, KeptSame DEF LoadInv
<1>6. Handy'
  BY <1>1, <1>3 DEF LoadInv, Handy, Hand
<1>7. AllWired' /\ Dispatching'
  BY <1>1 DEF LoadInv, AllWired, Dispatching, Dispatches
<1>8. AllTraced'
  BY <1>1, <1>3, TracedSame DEF LoadInv
<1>9. InTime'
  <2>1. \A k \in Machines : Stops(k)' => Stops(k) \/ Stops(m)
    BY <1>1, <1>3 DEF Stops
  <2> QED BY <1>1, <2>1, InTimeStep DEF LoadInv
<1> QED BY <1>4, <1>5, <1>6, <1>7, <1>8, <1>9 DEF LoadInv

LEMMA PopLoad ==
  ASSUME LoadConstants, LoadInv, NEW m \in Machines, NEW w \in Workers, Pop(m, w)
  PROVE  LoadInv'
<1>1. /\ pc[m][w] = "loop" /\ seen' = seen /\ done' = done /\ round' = round
      /\ main' = main /\ unsent' = unsent /\ wire' = wire
  BY DEF Pop
<1>2. /\ pc \in [Machines -> [Workers -> Positions]] /\ todo \in [Machines -> [Workers -> Seq(Packages)]]
      /\ popped \in [Machines -> SUBSET Packages]
  BY DEF LoadInv, LoadTyped
<1>3. AllWired' /\ Dispatching'
  BY <1>1 DEF LoadInv, AllWired, Dispatching, Dispatches
<1>4. CASE Refill(View(m, w)).acc.in = << >>
  <2> DEFINE x == IF acc[m][w].out = << >> THEN AfterPop ELSE "flush"
  <2>1. /\ pc' = [pc EXCEPT ![m][w] = x] /\ queue' = queue /\ acc' = acc /\ todo' = todo /\ popped' = popped
    BY <1>4 DEF Pop
  <2>2. x \in {"loop", "probe", "flush"} /\ (x = "probe" => Kind = "Dedicated")
    BY DEF AfterPop, LoadConstants
  <2> HIDE DEF x
  <2>3. /\ pc' \in [Machines -> [Workers -> Positions]] /\ pc'[m][w] = x
        /\ \A k \in Machines, v \in Workers : k # m \/ v # w => pc'[k][v] = pc[k][v]
    BY <1>2, <2>1, <2>2 DEF Positions
  <2>4. LoadTyped'
    BY <1>1, <2>1, <2>3 DEF LoadInv, LoadTyped
  <2>5. Kept'
    BY <1>1, <2>1, KeptSame DEF LoadInv
  <2>6. Handy'
    BY <1>1, <2>1, <2>2, <2>3 DEF LoadInv, Handy, Hand
  <2>7. AllTraced'
    BY <1>1, <2>1, <2>2, <2>3, TracedSame DEF LoadInv
  <2>8. InTime'
    <3>1. \A k \in Machines : Stops(k)' => Stops(k)
      BY <1>1, <2>1, <2>2, <2>3 DEF Stops
    <3> QED BY <2>1, <3>1, InTimeStep DEF LoadInv
  <2> QED BY <1>3, <2>4, <2>5, <2>6, <2>7, <2>8 DEF LoadInv
<1>5. CASE Refill(View(m, w)).acc.in # << >>
  <2> DEFINE p == Head(Refill(View(m, w)).acc.in)
  <2>1. /\ p \in Packages \ popped[m] /\ p # Final
        /\ popped' = [popped EXCEPT ![m] = @ \cup {p}]
        /\ todo' = [todo EXCEPT ![m][w] = Successors(p)]
        /\ pc' = [pc EXCEPT ![m][w] = "yield"]
        /\ seen' \in [Machines -> SUBSET Packages] /\ popped' \in [Machines -> SUBSET Packages]
        /\ queue' \in [Machines -> Seq(Seq(Packages))]
        /\ acc' \in [Machines -> [Threads -> Accessors]] /\ Kept'
    BY <1>5, PopKeeps DEF LoadInv
  <2> HIDE DEF p
  <2>2. Successors(p) \in Seq(Packages) /\ Successors(p) # << >>
        /\ \A i \in DOMAIN Successors(p) : Successors(p)[i] \in Succ(p)
    BY <2>1, SuccessorFacts DEF Succ, ToSet
  <2>3. /\ pc' \in [Machines -> [Workers -> Positions]] /\ pc'[m][w] = "yield"
        /\ todo' \in [Machines -> [Workers -> Seq(Packages)]] /\ todo'[m][w] = Successors(p)
        /\ \A k \in Machines, v \in Workers : k # m \/ v # w =>
             pc'[k][v] = pc[k][v] /\ todo'[k][v] = todo[k][v]
    BY <1>2, <2>1, <2>2 DEF Positions
  <2>4. /\ popped'[m] = popped[m] \cup {p} /\ \A k \in Machines : popped[k] \subseteq popped'[k]
        /\ \A k \in Machines \ {m} : popped'[k] = popped[k]
    BY <1>2, <2>1
  <2>5. LoadTyped'
    BY <1>1, <2>1, <2>3 DEF LoadInv, LoadTyped
  <2>6. Handy'
    <3>1. Hand(m, w)'
      BY <2>2, <2>3, <2>4 DEF Hand
    <3>2. ASSUME NEW k \in Machines, NEW v \in Workers, k # m \/ v # w PROVE Hand(k, v)'
      <4>1. Hand(k, v) /\ popped[k] \subseteq popped'[k] /\ pc'[k][v] = pc[k][v] /\ todo'[k][v] = todo[k][v]
        BY <2>3, <2>4, <3>2 DEF LoadInv, Handy
      <4> QED BY <4>1 DEF Hand
    <3> QED BY <3>1, <3>2 DEF Handy
  <2>7. AllTraced'
    <3> SUFFICES ASSUME Kind = "Dedicated", NEW k \in Machines
                 PROVE  Traced(Cargoes(pc'[k], todo'[k], wire'[k]), popped'[k])
      BY DEF AllTraced
    <3>1. \A n \in 0 .. Size : n # 0 => n \in Machines
      BY DEF Machines, LoadConstants
    <3>2. CASE k # m
      <4>1. Cargoes(pc'[k], todo'[k], wire'[k]) = Cargoes(pc[k], todo[k], wire[k]) /\ popped'[k] = popped[k]
        BY <1>1, <2>3, <2>4, <3>1, <3>2 DEF Cargoes
      <4> QED BY <4>1 DEF LoadInv, AllTraced
    <3>3. CASE k = m
      <4> DEFINE C == Cargoes(pc[m], todo[m], wire[m])
                 D == Cargoes(pc'[m], todo'[m], wire'[m])
                 c == pc[m]
                 d == pc'[m]
                 t == todo[m]
                 u == todo'[m]
                 W == wire[m]
      <4>6. Traced(C, popped[m])
        BY DEF LoadInv, AllTraced
      <4>1. /\ t \in [Workers -> Seq(Packages)] /\ u \in [Workers -> Seq(Packages)]
            /\ W \in [Machines -> [Lines -> Seq(Messages)]]
            /\ WiredOut(W)
        BY <2>3 DEF LoadInv, LoadTyped, AllWired, WiredOut
      <4>0. C = Cargoes(c, t, W) /\ D = Cargoes(d, u, W)
        BY <1>1
      <4>8. /\ c[w] = "loop" /\ d[w] = "yield" /\ u[w] = Successors(p)
            /\ \A v \in Workers : v # w => c[v] = d[v] /\ t[v] = u[v]
        BY <1>1, <2>3
      <4> HIDE DEF C, D, c, d, t, u, W
      <4>2. Laden(C, c, t, W)
        BY <4>0, <4>1, CargoType
      <4>3. Laden(D, d, u, W)
        BY <4>0, <4>1, CargoType
      <4>4. C[0][w] = << >> /\ D[0][w] = Successors(p)
        BY <4>2, <4>3, <4>8 DEF Laden
      <4>5. \A n \in 0 .. Size, v \in Workers : n # 0 \/ v # w => D[n][v] = C[n][v]
        BY <3>1, <4>2, <4>3, <4>8 DEF Laden
      <4>7. Traced(D, popped[m] \cup {p})
        BY <2>1, <4>2, <4>3, <4>4, <4>5, <4>6, TraceStep DEF Laden
      <4> QED BY <2>4, <3>3, <4>7 DEF D
    <3> QED BY <3>2, <3>3
  <2>8. InTime'
    <3>1. \A k \in Machines : Stops(k)' => Stops(k)
      BY <1>1, <2>3 DEF Stops
    <3> QED BY <2>4, <3>1, InTimeStep DEF LoadInv
  <2> QED BY <1>3, <2>1, <2>5, <2>6, <2>7, <2>8 DEF LoadInv
<1> QED BY <1>4, <1>5

(* What is left of a chunk without its first package.                       *)
LEMMA RestFacts ==
  ASSUME NEW d \in Seq(Packages), d # << >>
  PROVE  /\ Tail(d) \in Seq(Packages)
         /\ Len(d) > 1 => Tail(d) # << >>
         /\ ~(Len(d) > 1) => Tail(d) = << >>
         /\ \A i \in DOMAIN Tail(d) : Tail(d)[i] = d[i + 1] /\ i + 1 \in DOMAIN d
<1> DEFINE e == Tail(d)
           n == Len(d)
<1>1. /\ e \in Seq(Packages) /\ Len(e) = n - 1 /\ n \in Nat /\ n >= 1
      /\ DOMAIN e = 1 .. (n - 1) /\ DOMAIN d = 1 .. n
      /\ \A i \in 1 .. (n - 1) : e[i] = d[i + 1]
  OBVIOUS
<1> HIDE DEF e, n
<1>2. ASSUME NEW i \in DOMAIN e PROVE e[i] = d[i + 1] /\ i + 1 \in DOMAIN d
  BY <1>1
<1>3. ASSUME n > 1 PROVE e # << >>
  <2>1. Len(e) # 0
    BY <1>1, <1>3
  <2> QED BY <1>1, <2>1, EmptySeq
<1>4. ASSUME ~(n > 1) PROVE e = << >>
  <2>1. Len(e) = 0
    BY <1>1, <1>4
  <2> QED BY <1>1, <2>1, EmptySeq
<1>5. /\ e \in Seq(Packages) /\ (n > 1 => e # << >>) /\ (~(n > 1) => e = << >>)
      /\ \A i \in DOMAIN e : e[i] = d[i + 1] /\ i + 1 \in DOMAIN d
  BY <1>1, <1>2, <1>3, <1>4
<1> QED BY <1>5 DEF e, n

LEMMA FlushLoad ==
  ASSUME LoadConstants, LoadInv, NEW m \in Machines, NEW w \in Workers, FlushIdle(m, w)
  PROVE  LoadInv'
<1>1. /\ pc[m][w] = "flush" /\ seen' = seen /\ done' = done /\ round' = round /\ todo' = todo
      /\ main' = main /\ unsent' = unsent /\ wire' = wire /\ popped' = popped
      /\ Store(m, w, Flush(View(m, w))) /\ pc' = [pc EXCEPT ![m][w] = AfterPop]
  BY DEF FlushIdle
<1>2. pc \in [Machines -> [Workers -> Positions]] /\ w \in Threads
  BY DEF LoadInv, LoadTyped, Threads
<1>3. AfterPop \in {"loop", "probe"} /\ (AfterPop = "probe" => Kind = "Dedicated")
  BY DEF AfterPop, LoadConstants
<1>4. /\ pc' \in [Machines -> [Workers -> Positions]] /\ pc'[m][w] = AfterPop
      /\ \A k \in Machines, v \in Workers : k # m \/ v # w => pc'[k][v] = pc[k][v]
  BY <1>1, <1>2, <1>3 DEF Positions
<1>5. /\ seen' \in [Machines -> SUBSET Packages] /\ popped' \in [Machines -> SUBSET Packages]
      /\ queue' \in [Machines -> Seq(Seq(Packages))]
      /\ acc' \in [Machines -> [Threads -> Accessors]] /\ Kept'
  BY <1>1, <1>2, FlushKeeps DEF LoadInv
<1>6. LoadTyped'
  BY <1>1, <1>4, <1>5 DEF LoadInv, LoadTyped
<1>7. Handy'
  BY <1>1, <1>3, <1>4 DEF LoadInv, Handy, Hand
<1>8. AllWired' /\ Dispatching'
  BY <1>1 DEF LoadInv, AllWired, Dispatching, Dispatches
<1>9. AllTraced'
  BY <1>1, <1>3, <1>4, TracedSame DEF LoadInv
<1>10. InTime'
  <2>1. \A k \in Machines : Stops(k)' => Stops(k)
    BY <1>1, <1>3, <1>4 DEF Stops
  <2> QED BY <1>1, <2>1, InTimeStep DEF LoadInv
<1> QED BY <1>5, <1>6, <1>7, <1>8, <1>9, <1>10 DEF LoadInv

LEMMA HandleFrame ==
  ASSUME LoadConstants, LoadTyped, Handy, NEW m \in Machines, NEW w \in Workers, Handle(m, w)
  PROVE  /\ todo[m][w] # << >> /\ todo[m][w] \in Seq(Packages) /\ pc[m][w] \in {"yield", "expand"}
         /\ pc' \in [Machines -> [Workers -> Positions]]
         /\ todo' \in [Machines -> [Workers -> Seq(Packages)]]
         /\ \A k \in Machines, v \in Workers : k # m \/ v # w =>
              pc'[k][v] = pc[k][v] /\ todo'[k][v] = todo[k][v]
         /\ todo'[m][w] = Tail(todo[m][w]) /\ pc'[m][w] # "over"
         /\ pc'[m][w] = "yield" => pc[m][w] = "yield"
         /\ pc'[m][w] # "yield" /\ pc[m][w] = "yield" => Tail(todo[m][w]) = << >>
         /\ round' = round /\ main' = main /\ unsent' = unsent /\ popped' = popped /\ Handy'
<1> DEFINE d == todo[m][w]
           x == IF Len(d) > 1 THEN pc[m][w] ELSE IF pc[m][w] = "yield" THEN AfterPop ELSE "loop"
<1>1. /\ pc[m][w] \in {"yield", "expand"}
      /\ todo' = [todo EXCEPT ![m][w] = Tail(@)] /\ pc' = [pc EXCEPT ![m][w] = x]
      /\ round' = round /\ main' = main /\ unsent' = unsent /\ popped' = popped
  BY DEF Handle
<1>2. pc \in [Machines -> [Workers -> Positions]] /\ todo \in [Machines -> [Workers -> Seq(Packages)]]
  BY DEF LoadTyped
<1>3. d # << >> /\ d \in Seq(Packages)
  BY <1>1, <1>2 DEF Handy, Hand
<1>4. /\ Tail(d) \in Seq(Packages)
      /\ Len(d) > 1 => Tail(d) # << >>
      /\ ~(Len(d) > 1) => Tail(d) = << >>
      /\ \A i \in DOMAIN Tail(d) : Tail(d)[i] = d[i + 1] /\ i + 1 \in DOMAIN d
  <2> HIDE DEF d
  <2> QED BY <1>3, RestFacts
<1>5. AfterPop \in {"loop", "probe"} /\ (AfterPop = "probe" => Kind = "Dedicated")
  BY DEF AfterPop, LoadConstants
<1>6. /\ x \in {"yield", "expand", "loop", "probe"} /\ (x = "probe" => Kind = "Dedicated")
      /\ x \in {"yield", "expand"} => x = pc[m][w] /\ Len(d) > 1
      /\ Len(d) > 1 => x = pc[m][w]
  BY <1>1, <1>5
<1> HIDE DEF d, x
<1>7. /\ pc' \in [Machines -> [Workers -> Positions]] /\ pc'[m][w] = x
      /\ todo' \in [Machines -> [Workers -> Seq(Packages)]] /\ todo'[m][w] = Tail(d)
      /\ \A k \in Machines, v \in Workers : k # m \/ v # w =>
           pc'[k][v] = pc[k][v] /\ todo'[k][v] = todo[k][v]
  BY <1>1, <1>2, <1>4, <1>6 DEF Positions, d
<1>8. Handy'
  <2>1. Hand(m, w)
    BY DEF Handy
  <2>2. Hand(m, w)'
    <3>1. pc'[m][w] \in {"yield", "expand"} => todo'[m][w] # << >>
      BY <1>4, <1>6, <1>7
    <3>2. pc'[m][w] \in {"probe", "expand"} => Kind = "Dedicated"
      BY <1>6, <1>7, <2>1 DEF Hand
    <3>3. pc'[m][w] = "yield" =>
            \E p \in popped'[m] : \A i \in DOMAIN todo'[m][w] : todo'[m][w][i] \in Succ(p)
      <4> SUFFICES ASSUME pc'[m][w] = "yield"
                   PROVE  \E p \in popped[m] : \A i \in DOMAIN Tail(d) : Tail(d)[i] \in Succ(p)
        BY <1>1, <1>7
      <4>1. PICK p \in popped[m] : \A i \in DOMAIN d : d[i] \in Succ(p)
        BY <1>6, <1>7, <2>1 DEF Hand, d
      <4> QED BY <1>4, <4>1
    <3>4. pc'[m][w] = "expand" => \A i \in DOMAIN todo'[m][w] :
                                    todo'[m][w][i] \in Inner /\ Owner(todo'[m][w][i]) = m
      <4> SUFFICES ASSUME pc'[m][w] = "expand", NEW i \in DOMAIN Tail(d)
                   PROVE  Tail(d)[i] \in Inner /\ Owner(Tail(d)[i]) = m
        BY <1>7
      <4>1. \A j \in DOMAIN d : d[j] \in Inner /\ Owner(d[j]) = m
        BY <1>6, <1>7, <2>1 DEF Hand, d
      <4> QED BY <1>4, <4>1
    <3> QED BY <3>1, <3>2, <3>3, <3>4 DEF Hand
  <2>3. ASSUME NEW k \in Machines, NEW v \in Workers, k # m \/ v # w PROVE Hand(k, v)'
    <3>1. Hand(k, v) /\ popped' = popped /\ pc'[k][v] = pc[k][v] /\ todo'[k][v] = todo[k][v]
      BY <1>1, <1>7, <2>3 DEF Handy
    <3> QED BY <3>1 DEF Hand
  <2> QED BY <2>2, <2>3 DEF Handy
<1> QED BY <1>1, <1>3, <1>4, <1>6, <1>7, <1>8 DEF d

(* What a worker has in hand and does not keep for itself.                  *)
LEMMA HandFacts ==
  ASSUME LoadConstants, LoadTyped, Handy, NEW m \in Machines, NEW w \in Workers,
         todo[m][w] # << >>, pc[m][w] \in {"yield", "expand"}, ~Finishes(m, w)
  PROVE  /\ Head(todo[m][w]) \in Inner /\ Owner(Head(todo[m][w])) \in Machines
         /\ Owner(Head(todo[m][w])) # m => pc[m][w] = "yield"
<1> DEFINE d == todo[m][w]
           p == Head(d)
<1>1. d \in Seq(Packages) /\ d # << >>
  BY DEF LoadTyped
<1>2. p = d[1] /\ 1 \in DOMAIN d /\ p \in Packages
  BY <1>1
<1>3. CASE pc[m][w] = "yield"
  <2>1. p # Final
    BY <1>3 DEF Finishes
  <2>2. PICK r \in popped[m] : p \in Succ(r)
    BY <1>2, <1>3 DEF Handy, Hand
  <2>3. r \in Packages
    BY DEF LoadTyped
  <2>4. p # Initial
    BY <2>2, <2>3, SuccessorFacts DEF Succ, ToSet
  <2>5. p \in Inner
    BY <1>2, <2>1, <2>4 DEF Inner
  <2>6. Owner(p) \in Machines
    BY <1>2, OwnerType
  <2> QED BY <1>3, <2>5, <2>6
<1>4. CASE pc[m][w] = "expand"
  <2>1. p \in Inner /\ Owner(p) = m
    BY <1>2, <1>4 DEF Handy, Hand
  <2> QED BY <2>1
<1> QED BY <1>3, <1>4

(* A dedicated worker finds room on its lines.                              *)
LEMMA NeverBlocked ==
  ASSUME LoadConstants, LoadInv, Roomy, Kind = "Dedicated",
         NEW m \in Machines, NEW w \in Workers
  PROVE  ~Blocked(m, w)
<1> SUFFICES ASSUME Blocked(m, w) PROVE FALSE
  OBVIOUS
<1> DEFINE C == Cargoes(pc[m], todo[m], wire[m])
           c == pc[m]
           t == todo[m]
           W == wire[m]
           o == Owner(Head(t[w]))
<1>1. /\ pc[m][w] \in {"yield", "expand"} /\ ~Finishes(m, w) /\ o # m /\ Len(W[o][w]) = Capacity
  BY PackageFacts DEF Blocked, LineOf
<1>2. todo[m][w] # << >>
  BY <1>1 DEF LoadInv, Handy, Hand
<1>3. o \in Machines /\ c[w] = "yield" /\ t[w] # << >>
  BY <1>1, <1>2, HandFacts DEF LoadInv
<1>4. Traced(C, popped[m]) /\ popped[m] \in SUBSET Packages
  BY DEF LoadInv, AllTraced, LoadTyped
<1>5. /\ t \in [Workers -> Seq(Packages)] /\ W \in [Machines -> [Lines -> Seq(Messages)]] /\ WiredOut(W)
  BY DEF LoadInv, LoadTyped, AllWired, WiredOut
<1>6. C = Cargoes(c, t, W)
  OBVIOUS
<1>7. w \in Lines /\ w # Master /\ o \in 1 .. Size
  BY <1>3, PackageFacts DEF Lines, Machines
<1>8. Cardinality(Edges) <= Capacity /\ Capacity \in Nat
  BY DEF Roomy, LoadConstants
<1> HIDE DEF C, c, t, W, o
<1>9. Laden(C, c, t, W)
  BY <1>5, <1>6, CargoType
<1>10. C \in Freight /\ C[0][w] = t[w] /\ C[o][w] = Packed(W[o][w])
  BY <1>3, <1>9 DEF Laden
<1>11. Len(C[o][w]) < Cardinality(Edges)
  BY <1>3, <1>4, <1>7, <1>10, TraceRoom
<1>12. W[o][w] \in Seq(Messages) /\ Wired(W[o][w], o, w)
  BY <1>3, <1>5, <1>7 DEF WiredOut
<1>13. Len(C[o][w]) = Capacity
  BY <1>1, <1>7, <1>10, <1>12, PackedFacts
<1> QED BY <1>8, <1>11, <1>13, CardinalityEdges

-----------------------------------------------------------------------------
(* A message is put on a line, or taken from it.                            *)
Changed(m, n, l, s) ==
  /\ wire' \in [Machines -> [Machines -> [Lines -> Seq(Messages)]]]
  /\ wire'[m][n][l] = s
  /\ \A k, j \in Machines, g \in Lines : k # m \/ j # n \/ g # l => wire'[k][j][g] = wire[k][j][g]

LEMMA WirePut ==
  ASSUME LoadTyped, NEW m \in Machines, NEW n \in Machines, NEW l \in Lines,
         NEW s \in Seq(Messages), wire' = [wire EXCEPT ![m][n][l] = s]
  PROVE  Changed(m, n, l, s)
<1> DEFINE T == [Lines -> Seq(Messages)]
           f == [wire[m][n] EXCEPT ![l] = s]
           g == [wire[m] EXCEPT ![n] = f]
<1>1. wire \in [Machines -> [Machines -> T]]
  BY DEF LoadTyped
<1>2. wire[m] \in [Machines -> T] /\ wire[m][n] \in T
  BY <1>1
<1>3. f \in T /\ f[l] = s /\ \A h \in Lines : h # l => f[h] = wire[m][n][h]
  BY <1>2
<1>4. wire' = [wire EXCEPT ![m] = g]
  BY <1>1, <1>2
<1> HIDE DEF f, T
<1>5. g \in [Machines -> T] /\ g[n] = f /\ \A j \in Machines : j # n => g[j] = wire[m][j]
  BY <1>2, <1>3
<1> HIDE DEF g
<1>6. wire' \in [Machines -> [Machines -> T]] /\ wire'[m] = g /\ \A k \in Machines : k # m => wire'[k] = wire[k]
  BY <1>1, <1>4, <1>5
<1>7. wire' \in [Machines -> [Machines -> [Lines -> Seq(Messages)]]]
  BY <1>6 DEF T
<1> QED BY <1>3, <1>5, <1>6, <1>7 DEF Changed

LEMMA SendFacts ==
  ASSUME LoadConstants, LoadTyped, AllWired, NEW m \in Machines, NEW n \in Machines, NEW l \in Lines,
         NEW x \in Messages, Send(m, n, l, x),
         \/ l = Master /\ x = Done
         \/ \E p \in Inner : Owner(p) = n /\ x = Data(p)
  PROVE  /\ Changed(m, n, l, Append(wire[m][n][l], x)) /\ AllWired' /\ wire'[m][n][l] # << >>
         /\ (\E i \in DOMAIN wire'[m][n][l] : wire'[m][n][l][i] = Done) =>
              x = Done \/ \E i \in DOMAIN wire[m][n][l] : wire[m][n][l][i] = Done
<1> DEFINE s == wire[m][n][l]
<1>1. s \in Seq(Messages) /\ Wired(s, n, l)
  BY DEF LoadTyped, AllWired
<1>2. wire' = [wire EXCEPT ![m][n][l] = Append(s, x)]
  BY DEF Send
<1> HIDE DEF s
<1>3. /\ Append(s, x) \in Seq(Messages) /\ Wired(Append(s, x), n, l) /\ Append(s, x) # << >>
      /\ (\E i \in DOMAIN Append(s, x) : Append(s, x)[i] = Done) =>
           x = Done \/ \E i \in DOMAIN s : s[i] = Done
  BY <1>1, WireAppend
<1>4. Changed(m, n, l, Append(s, x))
  BY <1>2, <1>3, WirePut
<1>5. wire'[m][n][l] = Append(s, x)
  BY <1>4 DEF Changed
<1>6. AllWired'
  <2> SUFFICES ASSUME NEW k \in Machines, NEW j \in Machines, NEW g \in Lines PROVE Wired(wire'[k][j][g], j, g)
    BY DEF AllWired
  <2>1. CASE k = m /\ j = n /\ g = l
    BY <1>3, <1>5, <2>1
  <2>2. CASE ~(k = m /\ j = n /\ g = l)
    <3>1. wire'[k][j][g] = wire[k][j][g]
      BY <1>4, <2>2 DEF Changed
    <3> QED BY <3>1 DEF AllWired
  <2> QED BY <2>1, <2>2
<1> QED BY <1>3, <1>4, <1>5, <1>6 DEF s

LEMMA ReadFacts ==
  ASSUME LoadConstants, LoadTyped, AllWired, NEW m \in Machines, NEW n \in Machines, NEW l \in Lines,
         wire[m][n][l] # << >>, wire' = [wire EXCEPT ![m][n][l] = Tail(@)]
  PROVE  /\ Changed(m, n, l, Tail(wire[m][n][l])) /\ AllWired'
         /\ \/ l = Master /\ Head(wire[m][n][l]) = Done
            \/ \E p \in Inner : Owner(p) = n /\ Head(wire[m][n][l]) = Data(p)
         /\ Head(wire[m][n][l]) = Done => \E i \in DOMAIN wire[m][n][l] : wire[m][n][l][i] = Done
         /\ (\E i \in DOMAIN wire'[m][n][l] : wire'[m][n][l][i] = Done) =>
              \E i \in DOMAIN wire[m][n][l] : wire[m][n][l][i] = Done
<1> DEFINE s == wire[m][n][l]
<1>1. s \in Seq(Messages) /\ Wired(s, n, l) /\ s # << >>
  BY DEF LoadTyped, AllWired
<1>2. wire' = [wire EXCEPT ![m][n][l] = Tail(s)]
  OBVIOUS
<1> HIDE DEF s
<1>3. /\ Tail(s) \in Seq(Messages) /\ Wired(Tail(s), n, l)
      /\ (\E i \in DOMAIN Tail(s) : Tail(s)[i] = Done) => \E i \in DOMAIN s : s[i] = Done
      /\ 1 \in DOMAIN s /\ Head(s) = s[1]
      /\ \/ l = Master /\ Head(s) = Done
         \/ \E p \in Inner : Owner(p) = n /\ Head(s) = Data(p)
  BY <1>1, WireTail
<1>4. Changed(m, n, l, Tail(s))
  BY <1>2, <1>3, WirePut
<1>5. wire'[m][n][l] = Tail(s)
  BY <1>4 DEF Changed
<1>6. AllWired'
  <2> SUFFICES ASSUME NEW k \in Machines, NEW j \in Machines, NEW g \in Lines PROVE Wired(wire'[k][j][g], j, g)
    BY DEF AllWired
  <2>1. CASE k = m /\ j = n /\ g = l
    BY <1>3, <1>5, <2>1
  <2>2. CASE ~(k = m /\ j = n /\ g = l)
    <3>1. wire'[k][j][g] = wire[k][j][g]
      BY <1>4, <2>2 DEF Changed
    <3> QED BY <3>1 DEF AllWired
  <2> QED BY <2>1, <2>2
<1> QED BY <1>3, <1>4, <1>5, <1>6 DEF s

(* Only the cargo of one machine changes.                                   *)
LEMMA TracedOne ==
  ASSUME LoadConstants, AllTraced, NEW m \in Machines,
         \A k \in Machines \ {m} : popped'[k] = popped[k],
         \A k \in Machines \ {m}, v \in Workers : pc'[k][v] = pc[k][v] /\ todo'[k][v] = todo[k][v],
         \A k \in Machines \ {m}, n \in Machines, v \in Workers :
           Kind = "Dedicated" => wire'[k][n][v] = wire[k][n][v],
         Kind = "Dedicated" => Traced(Cargoes(pc'[m], todo'[m], wire'[m]), popped'[m])
  PROVE  AllTraced'
<1> SUFFICES ASSUME Kind = "Dedicated", NEW k \in Machines
             PROVE  Traced(Cargoes(pc'[k], todo'[k], wire'[k]), popped'[k])
  BY DEF AllTraced
<1>1. \A n \in 0 .. Size : n # 0 => n \in Machines
  BY DEF Machines, LoadConstants
<1>2. CASE k = m
  BY <1>2
<1>3. CASE k # m
  <2>1. Cargoes(pc'[k], todo'[k], wire'[k]) = Cargoes(pc[k], todo[k], wire[k]) /\ popped'[k] = popped[k]
    BY <1>1, <1>3 DEF Cargoes
  <2> QED BY <2>1 DEF AllTraced
<1> QED BY <1>2, <1>3

(* What of the cargo of a machine is where, before and after.               *)
LEMMA CargoStep ==
  ASSUME LoadConstants, LoadTyped, AllWired, LoadTyped', AllWired', Kind = "Dedicated",
         NEW m \in Machines, NEW C, NEW D,
         C = Cargoes(pc[m], todo[m], wire[m]), D = Cargoes(pc'[m], todo'[m], wire'[m])
  PROVE  Laden(C, pc[m], todo[m], wire[m]) /\ Laden(D, pc'[m], todo'[m], wire'[m])
<1>1. /\ todo[m] \in [Workers -> Seq(Packages)] /\ todo'[m] \in [Workers -> Seq(Packages)]
      /\ wire[m] \in [Machines -> [Lines -> Seq(Messages)]]
      /\ wire'[m] \in [Machines -> [Lines -> Seq(Messages)]]
      /\ WiredOut(wire[m]) /\ WiredOut(wire'[m])
  BY DEF LoadTyped, AllWired, WiredOut
<1>2. Laden(C, pc[m], todo[m], wire[m])
  BY <1>1, CargoType
<1>3. Laden(D, pc'[m], todo'[m], wire'[m])
  BY <1>1, CargoType
<1> QED BY <1>2, <1>3

(* A package in hand is kept, or goes on a line.                            *)
LEMMA HandTraced ==
  ASSUME LoadConstants, LoadInv, NEW m \in Machines, NEW w \in Workers, Handle(m, w),
         LoadTyped', AllWired', wire' = wire
  PROVE  AllTraced'
<1>1. /\ todo[m][w] # << >> /\ pc[m][w] \in {"yield", "expand"}
      /\ \A k \in Machines, v \in Workers : k # m \/ v # w =>
           pc'[k][v] = pc[k][v] /\ todo'[k][v] = todo[k][v]
      /\ todo'[m][w] = Tail(todo[m][w])
      /\ pc'[m][w] = "yield" => pc[m][w] = "yield"
      /\ pc'[m][w] # "yield" /\ pc[m][w] = "yield" => Tail(todo[m][w]) = << >>
      /\ popped' = popped
  BY HandleFrame DEF LoadInv
<1>2. ASSUME Kind = "Dedicated" PROVE Traced(Cargoes(pc'[m], todo'[m], wire'[m]), popped'[m])
  <2> DEFINE C == Cargoes(pc[m], todo[m], wire[m])
             D == Cargoes(pc'[m], todo'[m], wire'[m])
  <2>1. Traced(C, popped[m])
    BY <1>2 DEF LoadInv, AllTraced
  <2>2. C = Cargoes(pc[m], todo[m], wire[m]) /\ D = Cargoes(pc'[m], todo'[m], wire'[m])
    OBVIOUS
  <2> HIDE DEF C, D
  <2>3. Laden(C, pc[m], todo[m], wire[m]) /\ Laden(D, pc'[m], todo'[m], wire'[m])
    BY <1>2, <2>2, CargoStep DEF LoadInv
  <2>4. \A n \in 0 .. Size : n # 0 => n \in Machines
    BY DEF Machines, LoadConstants
  <2>5. \A n \in 0 .. Size, v \in Workers : n # 0 \/ v # w => D[n][v] = C[n][v]
    BY <1>1, <2>3, <2>4 DEF Laden
  <2>6. C \in Freight /\ D \in Freight /\ 0 \in 0 .. Size
    BY <2>3 DEF Laden, LoadConstants
  <2>7. CASE pc[m][w] = "yield"
    <3>1. C[0][w] = todo[m][w] /\ D[0][w] = Tail(todo[m][w])
      <4>1. C[0][w] = todo[m][w]
        BY <2>3, <2>7 DEF Laden
      <4>2. CASE pc'[m][w] = "yield"
        BY <1>1, <2>3, <4>1, <4>2 DEF Laden
      <4>3. CASE pc'[m][w] # "yield"
        BY <1>1, <2>3, <2>7, <4>1, <4>3 DEF Laden
      <4> QED BY <4>1, <4>2, <4>3
    <3>2. Traced(D, popped[m])
      BY <1>1, <2>1, <2>5, <2>6, <3>1, TraceShift
    <3> QED BY <1>1, <3>2 DEF D
  <2>8. CASE pc[m][w] # "yield"
    <3>1. C[0][w] = << >> /\ D[0][w] = << >>
      BY <1>1, <2>3, <2>8 DEF Laden
    <3>2. \A n \in 0 .. Size, v \in Workers : D[n][v] = C[n][v]
      BY <2>5, <3>1
    <3>3. Traced(D, popped[m])
      BY <2>1, <2>6, <3>2, TraceFewer
    <3> QED BY <1>1, <3>3 DEF D
  <2> QED BY <2>7, <2>8
<1> QED BY <1>1, <1>2, TracedOne DEF LoadInv

LEMMA SendTraced ==
  ASSUME LoadConstants, LoadInv, NEW m \in Machines, NEW w \in Workers, Handle(m, w),
         LoadTyped', AllWired', pc[m][w] = "yield", NEW o \in Machines,
         Head(todo[m][w]) \in Packages,
         Changed(m, o, LineOf(w), Append(wire[m][o][LineOf(w)], Data(Head(todo[m][w]))))
  PROVE  AllTraced'
<1> DEFINE p == Head(todo[m][w])
<1>1. /\ todo[m][w] # << >>
      /\ \A k \in Machines, v \in Workers : k # m \/ v # w =>
           pc'[k][v] = pc[k][v] /\ todo'[k][v] = todo[k][v]
      /\ todo'[m][w] = Tail(todo[m][w])
      /\ pc'[m][w] # "yield" => Tail(todo[m][w]) = << >>
      /\ popped' = popped
  BY HandleFrame DEF LoadInv
<1>2. ASSUME Kind = "Dedicated"
      PROVE  /\ w \in Lines /\ w # Master /\ LineOf(w) = w /\ Workers \subseteq Lines
             /\ wire'[m][o][w] = Append(wire[m][o][w], Data(p))
             /\ \A k, j \in Machines, g \in Lines : k # m \/ j # o \/ g # w => wire'[k][j][g] = wire[k][j][g]
  <2>1. w \in Lines /\ w # Master /\ LineOf(w) = w /\ Workers \subseteq Lines
    BY <1>2, PackageFacts DEF Lines, LineOf
  <2> QED BY <2>1 DEF Changed
<1>3. ASSUME Kind = "Dedicated" PROVE Traced(Cargoes(pc'[m], todo'[m], wire'[m]), popped'[m])
  <2> DEFINE C == Cargoes(pc[m], todo[m], wire[m])
             D == Cargoes(pc'[m], todo'[m], wire'[m])
             W == wire[m]
             X == wire'[m]
  <2>1. Traced(C, popped[m])
    BY <1>3 DEF LoadInv, AllTraced
  <2>2. C = Cargoes(pc[m], todo[m], wire[m]) /\ D = Cargoes(pc'[m], todo'[m], wire'[m])
    OBVIOUS
  <2>3. /\ X[o][w] = Append(W[o][w], Data(p))
        /\ \A n \in Machines, v \in Workers : n # o \/ v # w => X[n][v] = W[n][v]
    BY <1>2, <1>3
  <2>4. W[o][w] \in Seq(Messages) /\ Wired(W[o][w], o, w) /\ w # Master
    BY <1>2, <1>3 DEF LoadInv, LoadTyped, AllWired
  <2> HIDE DEF C, D
  <2>5. Laden(C, pc[m], todo[m], W) /\ Laden(D, pc'[m], todo'[m], X)
    BY <1>3, <2>2, CargoStep DEF LoadInv
  <2> HIDE DEF W, X, p
  <2>6. \A n \in 0 .. Size : n # 0 => n \in Machines
    BY DEF Machines, LoadConstants
  <2>7. o \in 1 .. Size /\ o \in 0 .. Size /\ o # 0 /\ 0 \in 0 .. Size
    BY DEF Machines, LoadConstants
  <2>8. C \in Freight /\ D \in Freight
    BY <2>5 DEF Laden
  <2>9. C[0][w] = todo[m][w] /\ D[0][w] = Tail(todo[m][w])
    <3>1. C[0][w] = todo[m][w]
      BY <2>5 DEF Laden
    <3>2. CASE pc'[m][w] = "yield"
      BY <1>1, <2>5, <3>1, <3>2 DEF Laden
    <3>3. CASE pc'[m][w] # "yield"
      BY <1>1, <2>5, <3>1, <3>3 DEF Laden
    <3> QED BY <3>1, <3>2, <3>3
  <2>10. D[o][w] = Append(C[o][w], p)
    <3>1. Packed(Append(W[o][w], Data(p))) = Append(Packed(W[o][w]), p)
      BY <2>4, PackedFacts DEF p
    <3>2. C[o][w] = Packed(W[o][w]) /\ D[o][w] = Packed(X[o][w])
      BY <2>5 DEF Laden
    <3>3. X[o][w] = Append(W[o][w], Data(p))
      BY <2>3
    <3> HIDE DEF Laden
    <3> QED BY <3>1, <3>2, <3>3
  <2>11. ASSUME NEW n \in 0 .. Size, NEW v \in Workers, n \notin {0, o} \/ v # w PROVE D[n][v] = C[n][v]
    <3>1. CASE n = 0
      <4>1. v # w /\ pc'[m][v] = pc[m][v] /\ todo'[m][v] = todo[m][v]
        BY <1>1, <2>11, <3>1
      <4>2. CASE pc[m][v] = "yield"
        <5>1. C[0][v] = todo[m][v] /\ D[0][v] = todo'[m][v]
          BY <2>5, <4>1, <4>2 DEF Laden
        <5> QED BY <3>1, <4>1, <5>1
      <4>3. CASE pc[m][v] # "yield"
        <5>1. C[0][v] = << >> /\ D[0][v] = << >>
          BY <2>5, <4>1, <4>3 DEF Laden
        <5> QED BY <3>1, <5>1
      <4> QED BY <4>2, <4>3
    <3>2. CASE n # 0
      <4>1. n \in Machines /\ X[n][v] = W[n][v]
        BY <2>3, <2>6, <2>11, <3>2
      <4>2. C[n][v] = Packed(W[n][v]) /\ D[n][v] = Packed(X[n][v])
        BY <2>5, <4>1 DEF Laden
      <4> QED BY <4>1, <4>2
    <3> QED BY <3>1, <3>2
  <2>12. p = Head(C[0][w]) /\ C[0][w] # << >> /\ D[0][w] = Tail(C[0][w])
    BY <1>1, <2>9 DEF p
  <2>13. Traced(D, popped[m])
    <3>1. D[o][w] = Append(C[o][w], Head(C[0][w]))
      BY <2>10, <2>12
    <3>2. \A n \in 0 .. Size, v \in Workers : n \notin {0, o} \/ v # w => D[n][v] = C[n][v]
      BY <2>11
    <3> HIDE DEF Freight, Traced
    <3> QED BY <2>1, <2>7, <2>8, <2>12, <3>1, <3>2, TraceSend, SMTT(60)
  <2> QED BY <1>1, <2>13 DEF D
<1>4. \A k \in Machines \ {m}, n \in Machines, v \in Workers :
        Kind = "Dedicated" => wire'[k][n][v] = wire[k][n][v]
  BY <1>2
<1> QED BY <1>1, <1>3, <1>4, TracedOne DEF LoadInv

(* The dispatcher finds what it saw at the start of its round.             *)
LEMMA RoundFacts ==
  ASSUME LoadConstants, LoadInv, NEW m \in Machines, round[m] # Over
  PROVE  /\ round[m] \subseteq Machines /\ main[m] # "over"
         /\ \A n \in round[m] : n \in Machines /\ wire[n][m][Master] # << >>
<1>1. round[m] \in (SUBSET Machines) \cup {{0}}
  BY DEF LoadInv, LoadTyped
<1>2. round[m] \subseteq Machines
  BY <1>1 DEF Over
<1> QED BY <1>2 DEF LoadInv, Dispatching, Dispatches

LEMMA SameRounds ==
  ASSUME LoadConstants, LoadInv, round' = round, main' = main,
         \A k \in Machines : done[k] => done'[k],
         \A j, k \in Machines : wire[j][k][Master] # << >> => wire'[j][k][Master] # << >>
  PROVE  Dispatching'
<1> SUFFICES ASSUME NEW k \in Machines PROVE Dispatches(k)'
  BY DEF Dispatching
<1>1. Dispatches(k)
  BY DEF LoadInv, Dispatching
<1>2. round[k] # Over => \A j \in round[k] : wire'[j][k][Master] # << >>
  BY RoundFacts
<1> QED BY <1>1, <1>2 DEF Dispatches

LEMMA HandleLoad ==
  ASSUME LoadConstants, LoadInv, NEW m \in Machines, NEW w \in Workers, Handle(m, w)
  PROVE  LoadInv'
<1> DEFINE p == Head(todo[m][w])
<1>1. /\ todo[m][w] # << >> /\ todo[m][w] \in Seq(Packages) /\ pc[m][w] \in {"yield", "expand"}
      /\ pc' \in [Machines -> [Workers -> Positions]]
      /\ todo' \in [Machines -> [Workers -> Seq(Packages)]]
      /\ \A k \in Machines, v \in Workers : k # m \/ v # w => pc'[k][v] = pc[k][v]
      /\ pc'[m][w] # "over"
      /\ round' = round /\ main' = main /\ unsent' = unsent /\ popped' = popped /\ Handy'
  BY HandleFrame DEF LoadInv
<1>2. LineOf(w) \in Lines /\ w \in Threads /\ Master \in Lines
  BY DEF LineOf, Lines, Threads
<1>3. CASE Finishes(m, w) /\ done' = [done EXCEPT ![m] = TRUE] /\ UNCHANGED <<seen, acc, queue, wire>>
  <2>1. seen' = seen /\ acc' = acc /\ queue' = queue /\ wire' = wire
    BY <1>3
  <2>2. done' \in [Machines -> BOOLEAN] /\ \A k \in Machines : done[k] => done'[k]
    BY <1>3 DEF LoadInv, LoadTyped
  <2>3. LoadTyped'
    BY <1>1, <2>1, <2>2 DEF LoadInv, LoadTyped
  <2>4. Kept'
    BY <1>1, <2>1, KeptSame DEF LoadInv
  <2>5. AllWired' /\ Dispatching'
    BY <1>1, <2>1, <2>2 DEF LoadInv, AllWired, Dispatching, Dispatches
  <2>6. AllTraced'
    BY <2>1, <2>3, <2>5, HandTraced
  <2>7. Announced
    <3>1. pc[m][w] = "yield" /\ p = Final
      BY <1>3 DEF Finishes
    <3>2. p = todo[m][w][1] /\ 1 \in DOMAIN todo[m][w]
      BY <1>1
    <3>3. \E q \in popped[m] : Final \in Succ(q)
      BY <3>1, <3>2 DEF LoadInv, Handy, Hand
    <3> QED BY <3>3 DEF Announced
  <2>8. InTime'
    BY <1>1, <2>7, InTimeStep DEF LoadInv
  <2> QED BY <1>1, <2>3, <2>4, <2>5, <2>6, <2>8 DEF LoadInv
<1>4. CASE ~Finishes(m, w) /\ Owner(p) = m /\ Meet(m, w, p) /\ UNCHANGED <<done, wire>>
  <2>1. done' = done /\ wire' = wire
    BY <1>4
  <2>2. p \in Inner
    BY <1>1, <1>4, HandFacts DEF LoadInv
  <2>3. /\ seen' \in [Machines -> SUBSET Packages] /\ popped' \in [Machines -> SUBSET Packages]
        /\ queue' \in [Machines -> Seq(Seq(Packages))]
        /\ acc' \in [Machines -> [Threads -> Accessors]] /\ Kept'
    BY <1>1, <1>2, <1>4, <2>2, MeetFacts DEF LoadInv
  <2>4. LoadTyped'
    BY <1>1, <2>1, <2>3 DEF LoadInv, LoadTyped
  <2>5. AllWired' /\ Dispatching'
    BY <1>1, <2>1 DEF LoadInv, AllWired, Dispatching, Dispatches
  <2>6. AllTraced'
    BY <2>1, <2>4, <2>5, HandTraced
  <2>7. InTime'
    <3>1. \A k \in Machines : Stops(k)' => Stops(k)
      BY <1>1, <2>1 DEF Stops
    <3> QED BY <1>1, <3>1, InTimeStep DEF LoadInv
  <2> QED BY <1>1, <2>3, <2>4, <2>5, <2>6, <2>7 DEF LoadInv
<1>5. CASE /\ ~Finishes(m, w) /\ Owner(p) # m
           /\ Send(m, Owner(p), LineOf(w), Data(p)) /\ UNCHANGED <<done, seen, acc, queue>>
  <2> DEFINE o == Owner(p)
             l == LineOf(w)
  <2>1. done' = done /\ seen' = seen /\ acc' = acc /\ queue' = queue
    BY <1>5
  <2>2. p \in Inner /\ p \in Packages /\ o \in Machines /\ pc[m][w] = "yield"
    BY <1>1, <1>5, HandFacts DEF LoadInv, Inner
  <2>3. Data(p) \in Messages /\ Data(p) # Done /\ \E q \in Inner : Owner(q) = o /\ Data(p) = Data(q)
    BY <2>2, DataFacts
  <2>4. Send(m, o, l, Data(p))
    BY <1>5
  <2> HIDE DEF o, l
  <2>5. /\ Changed(m, o, l, Append(wire[m][o][l], Data(p))) /\ AllWired' /\ wire'[m][o][l] # << >>
        /\ (\E i \in DOMAIN wire'[m][o][l] : wire'[m][o][l][i] = Done) =>
             Data(p) = Done \/ \E i \in DOMAIN wire[m][o][l] : wire[m][o][l][i] = Done
    BY <1>2, <2>2, <2>3, <2>4, SendFacts DEF LoadInv, l
  <2>6. LoadTyped'
    BY <1>1, <2>1, <2>5 DEF LoadInv, LoadTyped, Changed
  <2>7. Kept'
    BY <1>1, <2>1, KeptSame DEF LoadInv
  <2>8. \A k, n \in Machines : wire[k][n][Master] # << >> => wire'[k][n][Master] # << >>
    BY <1>2, <2>5 DEF Changed
  <2>9. Dispatching'
    BY <1>1, <2>1, <2>8, SameRounds
  <2>10. AllTraced'
    BY <2>2, <2>5, <2>6, SendTraced DEF l
  <2>11. InTime'
    <3>1. ASSUME NEW k \in Machines, NEW n \in Machines, NEW i \in DOMAIN wire'[k][n][Master],
                 wire'[k][n][Master][i] = Done
          PROVE  \E j \in DOMAIN wire[k][n][Master] : wire[k][n][Master][j] = Done
      <4>1. CASE k = m /\ n = o /\ l = Master
        BY <2>3, <2>5, <3>1, <4>1
      <4>2. CASE ~(k = m /\ n = o /\ l = Master)
        <5>1. wire'[k][n][Master] = wire[k][n][Master]
          BY <1>2, <2>5, <4>2 DEF Changed
        <5> QED BY <3>1, <5>1
      <4> QED BY <4>1, <4>2
    <3>2. \A k \in Machines : Stops(k)' => Stops(k)
      BY <1>1, <2>1, <3>1 DEF Stops
    <3> QED BY <1>1, <3>2, InTimeStep DEF LoadInv
  <2> QED BY <1>1, <2>5, <2>6, <2>7, <2>9, <2>10, <2>11 DEF LoadInv
<1> QED BY <1>3, <1>4, <1>5 DEF Handle

LEMMA ExpireLoad ==
  ASSUME LoadConstants, LoadInv, NEW m \in Machines, NEW w \in Workers, Expire(m, w)
  PROVE  LoadInv'
<1> DEFINE o == Owner(Head(todo[m][w]))
<1>1. /\ Blocked(m, w) /\ Deaf(o, LineOf(w))
      /\ pc' = [pc EXCEPT ![m][w] = "over"] /\ todo' = [todo EXCEPT ![m][w] = << >>]
      /\ seen' = seen /\ queue' = queue /\ acc' = acc /\ done' = done /\ round' = round
      /\ main' = main /\ unsent' = unsent /\ wire' = wire /\ popped' = popped
  BY DEF Expire
<1>2. pc \in [Machines -> [Workers -> Positions]] /\ todo \in [Machines -> [Workers -> Seq(Packages)]]
  BY DEF LoadInv, LoadTyped
<1>3. /\ pc' \in [Machines -> [Workers -> Positions]] /\ pc'[m][w] = "over"
      /\ todo' \in [Machines -> [Workers -> Seq(Packages)]]
      /\ \A k \in Machines, v \in Workers : k # m \/ v # w =>
           pc'[k][v] = pc[k][v] /\ todo'[k][v] = todo[k][v]
  BY <1>1, <1>2 DEF Positions
<1>4. LoadTyped'
  BY <1>1, <1>3 DEF LoadInv, LoadTyped
<1>5. Kept'
  BY <1>1, KeptSame DEF LoadInv
<1>6. Handy'
  BY <1>1, <1>3 DEF LoadInv, Handy, Hand
<1>7. AllWired' /\ Dispatching'
  BY <1>1 DEF LoadInv, AllWired, Dispatching, Dispatches
<1>8. AllTraced'
  <2>1. ASSUME Kind = "Dedicated" PROVE Traced(Cargoes(pc'[m], todo'[m], wire'[m]), popped'[m])
    <3> DEFINE C == Cargoes(pc[m], todo[m], wire[m])
               D == Cargoes(pc'[m], todo'[m], wire'[m])
    <3>1. Traced(C, popped[m])
      BY <2>1 DEF LoadInv, AllTraced
    <3>2. C = Cargoes(pc[m], todo[m], wire[m]) /\ D = Cargoes(pc'[m], todo'[m], wire'[m])
      OBVIOUS
    <3> HIDE DEF C, D
    <3>3. Laden(C, pc[m], todo[m], wire[m]) /\ Laden(D, pc'[m], todo'[m], wire'[m])
      BY <1>4, <1>7, <2>1, <3>2, CargoStep DEF LoadInv
    <3>4. \A n \in 0 .. Size : n # 0 => n \in Machines
      BY DEF Machines, LoadConstants
    <3>5. C \in Freight /\ D \in Freight
      BY <3>3 DEF Laden
    <3>6. \A n \in 0 .. Size, v \in Workers : D[n][v] = C[n][v] \/ D[n][v] = << >>
      BY <1>1, <1>3, <3>3, <3>4 DEF Laden
    <3>7. Traced(D, popped[m])
      BY <3>1, <3>5, <3>6, TraceFewer
    <3> QED BY <1>1, <3>7 DEF D
  <2> QED BY <1>1, <1>3, <2>1, TracedOne DEF LoadInv
<1>9. InTime'
  <2>1. Workers # {} /\ Roomy => Stops(o) /\ o \in Machines
    <3> SUFFICES ASSUME Roomy PROVE Stops(o) /\ o \in Machines
      OBVIOUS
    <3>1. pc[m][w] \in {"yield", "expand"} /\ ~Finishes(m, w)
      BY <1>1 DEF Blocked
    <3>2. o \in Machines
      BY <3>1, HandFacts DEF LoadInv, Handy, Hand
    <3>3. Kind = "Shared"
      BY <1>1, NeverBlocked DEF LoadConstants
    <3>4. round[o] = Over
      BY <1>1, <3>3 DEF Deaf, LineOf
    <3>5. done[o]
      BY <3>2, <3>4 DEF LoadInv, Dispatching, Dispatches
    <3> QED BY <3>2, <3>5 DEF Stops
  <2> QED BY <1>1, <2>1, InTimeStep DEF LoadInv
<1> QED BY <1>4, <1>5, <1>6, <1>7, <1>8, <1>9 DEF LoadInv

LEMMA ProbeLoad ==
  ASSUME LoadConstants, LoadInv, NEW m \in Machines, NEW w \in Workers, Probe(m, w)
  PROVE  LoadInv'
<1> DEFINE S == {n \in Machines : wire[n][m][w] # << >>}
<1>1. /\ pc[m][w] = "probe" /\ seen' = seen /\ queue' = queue /\ acc' = acc /\ done' = done
      /\ round' = round /\ main' = main /\ unsent' = unsent /\ popped' = popped
  BY DEF Probe
<1>2. PICK from \in [1 .. Cardinality(S) -> S] :
        /\ todo' = [todo EXCEPT ![m][w] = [i \in DOMAIN from |-> Head(wire[from[i]][m][w]).package]]
        /\ wire' = [n \in Machines |-> IF wire[n][m][w] = << >> THEN wire[n]
                                       ELSE [wire[n] EXCEPT ![m][w] = Tail(@)]]
        /\ pc' = [pc EXCEPT ![m][w] = IF S = {} THEN "loop" ELSE "expand"]
  BY DEF Probe
<1>3. Kind = "Dedicated" /\ w \in Lines /\ w # Master /\ Workers \subseteq Lines /\ Master \in Lines
  BY <1>1, PackageFacts DEF LoadInv, Handy, Hand, Lines
<1>4. Cardinality(S) \in Nat /\ (S # {} => Cardinality(S) # 0)
  <2>1. IsFiniteSet(Machines)
    BY FS_Interval DEF Machines, LoadConstants
  <2>2. IsFiniteSet(S)
    BY <2>1, FS_Subset
  <2> QED BY <2>2, FS_CardinalityType, FS_EmptySet
<1> DEFINE f == [i \in DOMAIN from |-> Head(wire[from[i]][m][w]).package]
           x == IF S = {} THEN "loop" ELSE "expand"
<1>5. ASSUME NEW n \in Machines
      PROVE  wire[n][m][w] \in Seq(Messages) /\ Wired(wire[n][m][w], m, w)
  BY <1>3 DEF LoadInv, LoadTyped, AllWired
<1>6. ASSUME NEW n \in S
      PROVE  Head(wire[n][m][w]).package \in Inner /\ Owner(Head(wire[n][m][w]).package) = m
  <2>1. \E p \in Inner : Owner(p) = m /\ Head(wire[n][m][w]) = Data(p)
    BY <1>3, <1>5, WireTail
  <2> QED BY <2>1, DataFacts DEF Inner
<1>7. /\ f \in Seq(Packages) /\ DOMAIN f = 1 .. Cardinality(S)
      /\ \A i \in DOMAIN f : f[i] \in Inner /\ Owner(f[i]) = m
  <2>1. \A i \in 1 .. Cardinality(S) : f[i] \in Inner /\ Owner(f[i]) = m
    BY <1>6
  <2>2. f \in [1 .. Cardinality(S) -> Packages]
    BY <2>1 DEF Inner
  <2> DEFINE N == Cardinality(S)
  <2>3. N \in Nat /\ f \in [1 .. N -> Packages]
    BY <1>4, <2>2
  <2> HIDE DEF f, N
  <2>4. DOMAIN f = 1 .. N /\ f \in Seq(Packages)
    BY <2>3
  <2> QED BY <2>1, <2>4 DEF N
<1>8. S # {} => f # << >>
  <2> DEFINE N == Cardinality(S)
  <2>1. S # {} => N # 0
    BY <1>4
  <2>2. N \in Nat /\ DOMAIN f = 1 .. N
    BY <1>4, <1>7
  <2> HIDE DEF f, N
  <2>3. N # 0 => f # << >>
    <3>1. DOMAIN << >> = {}
      OBVIOUS
    <3>2. N # 0 => 1 \in DOMAIN f
      BY <2>2
    <3> QED BY <3>1, <3>2
  <2> QED BY <2>1, <2>3
<1>9. /\ pc \in [Machines -> [Workers -> Positions]] /\ todo \in [Machines -> [Workers -> Seq(Packages)]]
      /\ wire \in [Machines -> [Machines -> [Lines -> Seq(Messages)]]]
  BY DEF LoadInv, LoadTyped
<1>10. pc' = [pc EXCEPT ![m][w] = x] /\ todo' = [todo EXCEPT ![m][w] = f] /\ x \in {"loop", "expand"}
       /\ (x = "expand" => S # {})
  BY <1>2
<1> HIDE DEF f, x
<1>11. /\ pc' \in [Machines -> [Workers -> Positions]] /\ pc'[m][w] = x
       /\ todo' \in [Machines -> [Workers -> Seq(Packages)]] /\ todo'[m][w] = f
       /\ \A k \in Machines, v \in Workers : k # m \/ v # w =>
            pc'[k][v] = pc[k][v] /\ todo'[k][v] = todo[k][v]
  BY <1>7, <1>9, <1>10 DEF Positions
<1>12. ASSUME NEW n \in Machines
       PROVE  /\ wire'[n] \in [Machines -> [Lines -> Seq(Messages)]]
              /\ IF wire[n][m][w] = << >> THEN wire'[n] = wire[n] ELSE wire'[n][m][w] = Tail(wire[n][m][w])
              /\ \A k \in Machines, g \in Lines : k # m \/ g # w => wire'[n][k][g] = wire[n][k][g]
  <2> DEFINE h == Tail(wire[n][m][w])
  <2>1. wire[n] \in [Machines -> [Lines -> Seq(Messages)]]
    BY <1>9
  <2>2. CASE wire[n][m][w] = << >>
    <3>1. wire'[n] = wire[n]
      BY <1>2, <2>2
    <3> QED BY <2>1, <2>2, <3>1
  <2>3. CASE wire[n][m][w] # << >>
    <3>1. wire'[n] = [wire[n] EXCEPT ![m][w] = h]
      BY <1>2, <2>3
    <3>2. h \in Seq(Messages)
      BY <1>5, <2>3
    <3> HIDE DEF h
    <3>3. /\ wire'[n] \in [Machines -> [Lines -> Seq(Messages)]] /\ wire'[n][m][w] = h
          /\ \A k \in Machines, g \in Lines : k # m \/ g # w => wire'[n][k][g] = wire[n][k][g]
      BY <1>3, <2>1, <3>1, <3>2
    <3> QED BY <2>3, <3>3 DEF h
  <2> QED BY <2>2, <2>3
<1>13. wire' \in [Machines -> [Machines -> [Lines -> Seq(Messages)]]]
  <2>1. wire' = [n \in Machines |-> wire'[n]]
    BY <1>2
  <2> QED BY <1>12, <2>1
<1>14. LoadTyped'
  BY <1>1, <1>11, <1>13 DEF LoadInv, LoadTyped
<1>15. Kept'
  BY <1>1, KeptSame DEF LoadInv
<1>16. Handy'
  <2>1. Hand(m, w)'
    <3>1. /\ pc'[m][w] \in {"loop", "expand"} /\ Kind = "Dedicated"
          /\ pc'[m][w] = "expand" => todo'[m][w] # << >>
          /\ \A i \in DOMAIN todo'[m][w] : todo'[m][w][i] \in Inner /\ Owner(todo'[m][w][i]) = m
      BY <1>3, <1>7, <1>8, <1>10, <1>11
    <3> QED BY <3>1 DEF Hand
  <2>2. ASSUME NEW k \in Machines, NEW v \in Workers, k # m \/ v # w PROVE Hand(k, v)'
    <3>1. Hand(k, v) /\ popped' = popped /\ pc'[k][v] = pc[k][v] /\ todo'[k][v] = todo[k][v]
      BY <1>1, <1>11, <2>2 DEF LoadInv, Handy
    <3> QED BY <3>1 DEF Hand
  <2> QED BY <2>1, <2>2 DEF Handy
<1>17. AllWired'
  <2> SUFFICES ASSUME NEW n \in Machines, NEW k \in Machines, NEW g \in Lines PROVE Wired(wire'[n][k][g], k, g)
    BY DEF AllWired
  <2>1. Wired(wire[n][k][g], k, g)
    BY DEF LoadInv, AllWired
  <2>2. CASE wire'[n][k][g] = wire[n][k][g]
    BY <2>1, <2>2
  <2>3. CASE wire'[n][k][g] # wire[n][k][g]
    <3>1. k = m /\ g = w /\ wire[n][m][w] # << >> /\ wire'[n][m][w] = Tail(wire[n][m][w])
      BY <1>12, <2>3
    <3>2. Wired(Tail(wire[n][m][w]), m, w)
      BY <1>5, <3>1, WireTail
    <3> QED BY <3>1, <3>2
  <2> QED BY <2>2, <2>3
<1>18. \A n, k \in Machines : wire'[n][k][Master] = wire[n][k][Master]
  BY <1>3, <1>12
<1>19. Dispatching'
  BY <1>1, <1>18, SameRounds
<1>20. AllTraced'
  <2> SUFFICES ASSUME NEW k \in Machines
               PROVE  Traced(Cargoes(pc'[k], todo'[k], wire'[k]), popped'[k])
    BY DEF AllTraced
  <2> DEFINE C == Cargoes(pc[k], todo[k], wire[k])
             D == Cargoes(pc'[k], todo'[k], wire'[k])
             s == wire[k][m][w]
  <2>1. Traced(C, popped[k])
    BY <1>3 DEF LoadInv, AllTraced
  <2>2. C = Cargoes(pc[k], todo[k], wire[k]) /\ D = Cargoes(pc'[k], todo'[k], wire'[k])
    OBVIOUS
  <2> HIDE DEF C, D
  <2>3. Laden(C, pc[k], todo[k], wire[k]) /\ Laden(D, pc'[k], todo'[k], wire'[k])
    BY <1>3, <1>14, <1>17, <2>2, CargoStep DEF LoadInv
  <2>4. \A n \in 0 .. Size : n # 0 => n \in Machines
    BY DEF Machines, LoadConstants
  <2>5. m \in 0 .. Size /\ m # 0
    BY DEF Machines, LoadConstants
  <2>6. C \in Freight /\ D \in Freight
    BY <2>3 DEF Laden
  <2>7. \A v \in Workers : D[0][v] = C[0][v]
    <3> SUFFICES ASSUME NEW v \in Workers PROVE D[0][v] = C[0][v]
      OBVIOUS
    <3>1. CASE k = m /\ v = w
      <4>1. pc[k][v] # "yield" /\ pc'[k][v] # "yield"
        BY <1>1, <1>10, <1>11, <3>1
      <4> QED BY <2>3, <4>1 DEF Laden
    <3>2. CASE ~(k = m /\ v = w)
      <4>1. pc'[k][v] = pc[k][v] /\ todo'[k][v] = todo[k][v]
        BY <1>11, <3>2
      <4> QED BY <2>3, <4>1 DEF Laden
    <3> QED BY <3>1, <3>2
  <2>8. \A n \in Machines, v \in Workers : n # m \/ v # w => D[n][v] = C[n][v]
    <3>1. \A n \in Machines, v \in Workers : n # m \/ v # w => wire'[k][n][v] = wire[k][n][v]
      BY <1>3, <1>12
    <3> QED BY <2>3, <3>1 DEF Laden
  <2>9. \A n \in 0 .. Size, v \in Workers : n # m \/ v # w => D[n][v] = C[n][v]
    BY <2>4, <2>5, <2>7, <2>8
  <2>10. CASE s = << >>
    <3>1. D[m][w] = C[m][w]
      BY <1>12, <2>3, <2>10 DEF Laden
    <3>2. \A n \in 0 .. Size, v \in Workers : D[n][v] = C[n][v]
      BY <2>9, <3>1
    <3>3. Traced(D, popped[k])
      BY <2>1, <2>6, <3>2, TraceFewer
    <3> QED BY <1>1, <3>3 DEF D
  <2>11. CASE s # << >>
    <3>1. wire'[k][m][w] = Tail(s)
      BY <1>12, <2>11
    <3>2. s \in Seq(Messages) /\ Wired(s, m, w)
      BY <1>5
    <3>3. C[m][w] = Packed(s) /\ D[m][w] = Packed(Tail(s))
      BY <2>3, <3>1 DEF Laden
    <3> HIDE DEF s
    <3>4. Packed(Tail(s)) = Tail(Packed(s)) /\ Packed(s) # << >>
      BY <1>3, <2>11, <3>2, PackedFacts
    <3>5. C[m][w] # << >> /\ D[m][w] = Tail(C[m][w])
      BY <3>3, <3>4
    <3>6. Traced(D, popped[k])
      BY <2>1, <2>5, <2>6, <2>9, <3>5, TraceShift
    <3> QED BY <1>1, <3>6 DEF D
  <2> QED BY <2>10, <2>11
<1>21. InTime'
  <2>1. \A k \in Machines : Stops(k)' => Stops(k)
    <3>1. \A k \in Machines, v \in Workers : pc'[k][v] = "over" => pc[k][v] = "over"
      BY <1>10, <1>11
    <3> QED BY <1>1, <1>18, <3>1 DEF Stops
  <2> QED BY <1>1, <2>1, InTimeStep DEF LoadInv
<1> QED BY <1>14, <1>15, <1>16, <1>17, <1>19, <1>20, <1>21 DEF LoadInv

-----------------------------------------------------------------------------
(* The dispatcher.                                                          *)
LEMMA StartLoad ==
  ASSUME LoadConstants, LoadInv, NEW m \in Machines, StartRound(m)
  PROVE  LoadInv'
<1>1. /\ round[m] = {} /\ round' = [round EXCEPT ![m] = Readable(m)]
      /\ seen' = seen /\ queue' = queue /\ acc' = acc /\ done' = done /\ pc' = pc /\ todo' = todo
      /\ main' = main /\ unsent' = unsent /\ wire' = wire /\ popped' = popped
  BY DEF StartRound
<1>2. Readable(m) \in SUBSET Machines /\ \A n \in Readable(m) : wire[n][m][Master] # << >>
  BY DEF Readable
<1>3. round[m] # Over /\ Readable(m) # Over
  BY <1>1, <1>2, PackageFacts DEF Over
<1>4. main[m] # "over"
  BY <1>3, RoundFacts
<1>5. /\ round' \in [Machines -> (SUBSET Machines) \cup {{0}}] /\ round'[m] = Readable(m)
      /\ \A k \in Machines : k # m => round'[k] = round[k]
  BY <1>1, <1>2 DEF LoadInv, LoadTyped
<1>6. LoadTyped'
  BY <1>1, <1>5 DEF LoadInv, LoadTyped
<1>7. Kept'
  BY <1>1, KeptSame DEF LoadInv
<1>8. Handy' /\ AllWired'
  BY <1>1 DEF LoadInv, Handy, Hand, AllWired
<1>9. Dispatching'
  BY <1>1, <1>2, <1>3, <1>4, <1>5 DEF LoadInv, Dispatching, Dispatches
<1>10. AllTraced'
  BY <1>1, TracedSame DEF LoadInv
<1>11. InTime'
  <2>1. \A k \in Machines : Stops(k)' => Stops(k)
    BY <1>1 DEF Stops
  <2> QED BY <1>1, <2>1, InTimeStep DEF LoadInv
<1> QED BY <1>6, <1>7, <1>8, <1>9, <1>10, <1>11 DEF LoadInv

LEMMA EndLoad ==
  ASSUME LoadConstants, LoadInv, NEW m \in Machines, done[m],
         round' = [round EXCEPT ![m] = Over],
         UNCHANGED <<seen, queue, acc, done, pc, todo, main, unsent, wire, popped>>
  PROVE  LoadInv'
<1>1. /\ seen' = seen /\ queue' = queue /\ acc' = acc /\ done' = done /\ pc' = pc /\ todo' = todo
      /\ main' = main /\ unsent' = unsent /\ wire' = wire /\ popped' = popped
  OBVIOUS
<1>2. /\ round' \in [Machines -> (SUBSET Machines) \cup {{0}}] /\ round'[m] = Over
      /\ \A k \in Machines : k # m => round'[k] = round[k]
  BY DEF LoadInv, LoadTyped, Over
<1>3. LoadTyped'
  BY <1>1, <1>2 DEF LoadInv, LoadTyped
<1>4. Kept'
  BY <1>1, KeptSame DEF LoadInv
<1>5. Handy' /\ AllWired'
  BY <1>1 DEF LoadInv, Handy, Hand, AllWired
<1>6. Dispatching'
  BY <1>1, <1>2 DEF LoadInv, Dispatching, Dispatches
<1>7. AllTraced'
  BY <1>1, TracedSame DEF LoadInv
<1>8. InTime'
  <2>1. \A k \in Machines : Stops(k)' => Stops(k)
    BY <1>1 DEF Stops
  <2> QED BY <1>1, <2>1, InTimeStep DEF LoadInv
<1> QED BY <1>3, <1>4, <1>5, <1>6, <1>7, <1>8 DEF LoadInv

LEMMA EmptyLoad ==
  ASSUME LoadConstants, LoadInv, NEW m \in Machines, EmptyProbe(m)
  PROVE  LoadInv'
<1>1. /\ seen' = seen /\ done' = done /\ pc' = pc /\ todo' = todo /\ round' = round
      /\ main' = main /\ unsent' = unsent /\ wire' = wire /\ popped' = popped
  BY DEF EmptyProbe
<1>2. Dispatcher \in Threads
  BY DEF Threads
<1>3. /\ seen' \in [Machines -> SUBSET Packages] /\ popped' \in [Machines -> SUBSET Packages]
      /\ queue' \in [Machines -> Seq(Seq(Packages))]
      /\ acc' \in [Machines -> [Threads -> Accessors]] /\ Kept'
  <2>1. CASE Store(m, Dispatcher, Flush(View(m, Dispatcher)))
    BY <1>1, <1>2, <2>1, FlushKeeps DEF LoadInv
  <2>2. CASE acc' = acc /\ queue' = queue
    <3>1. Kept'
      BY <1>1, <2>2, KeptSame DEF LoadInv
    <3> QED BY <1>1, <2>2, <3>1 DEF LoadInv, LoadTyped
  <2> QED BY <2>1, <2>2 DEF EmptyProbe
<1>4. LoadTyped'
  BY <1>1, <1>3 DEF LoadInv, LoadTyped
<1>5. Handy' /\ AllWired' /\ Dispatching'
  BY <1>1 DEF LoadInv, Handy, Hand, AllWired, Dispatching, Dispatches
<1>6. AllTraced'
  BY <1>1, TracedSame DEF LoadInv
<1>7. InTime'
  <2>1. \A k \in Machines : Stops(k)' => Stops(k)
    BY <1>1 DEF Stops
  <2> QED BY <1>1, <2>1, InTimeStep DEF LoadInv
<1> QED BY <1>3, <1>4, <1>5, <1>6, <1>7 DEF LoadInv

(* A message for the dispatcher, read in a round or, over MPI, on its own.  *)
LEMMA ReceiveLoad ==
  ASSUME LoadConstants, LoadInv, NEW m \in Machines, NEW n \in Machines,
         round[m] # Over, wire[n][m][Master] # << >>,
         wire' = [wire EXCEPT ![n][m][Master] = Tail(@)],
         \/ /\ Head(wire[n][m][Master]) = Done
            /\ done' = [done EXCEPT ![m] = TRUE] /\ UNCHANGED <<seen, acc, queue>>
         \/ /\ Head(wire[n][m][Master]) # Done
            /\ Meet(m, Dispatcher, Head(wire[n][m][Master]).package) /\ UNCHANGED done,
         round' = [round EXCEPT ![m] = @ \ {n}],
         UNCHANGED <<pc, todo, main, unsent, popped>>
  PROVE  LoadInv'
<1> DEFINE s == wire[n][m][Master]
<1>1. pc' = pc /\ todo' = todo /\ main' = main /\ unsent' = unsent /\ popped' = popped
  OBVIOUS
<1>2. Master \in Lines /\ Dispatcher \in Threads
  BY DEF Lines, Threads
<1>3. /\ Changed(n, m, Master, Tail(s)) /\ AllWired'
      /\ \/ Head(s) = Done
         \/ \E p \in Inner : Owner(p) = m /\ Head(s) = Data(p)
      /\ Head(s) = Done => \E i \in DOMAIN s : s[i] = Done
      /\ (\E i \in DOMAIN wire'[n][m][Master] : wire'[n][m][Master][i] = Done) =>
           \E i \in DOMAIN s : s[i] = Done
  <2>1. LoadTyped /\ AllWired
    BY DEF LoadInv
  <2>2. /\ Changed(n, m, Master, Tail(s)) /\ AllWired'
        /\ \/ Master = Master /\ Head(s) = Done
           \/ \E p \in Inner : Owner(p) = m /\ Head(s) = Data(p)
        /\ Head(s) = Done => \E i \in DOMAIN s : s[i] = Done
        /\ (\E i \in DOMAIN wire'[n][m][Master] : wire'[n][m][Master][i] = Done) =>
             \E i \in DOMAIN s : s[i] = Done
    BY <1>2, <2>1, ReadFacts
  <2> QED BY <2>2
<1>4. /\ round' \in [Machines -> (SUBSET Machines) \cup {{0}}] /\ round'[m] = round[m] \ {n}
      /\ round'[m] # Over /\ main[m] # "over"
      /\ \A k \in Machines : k # m => round'[k] = round[k]
  <2>1. round[m] \subseteq Machines /\ main[m] # "over"
    BY RoundFacts
  <2>2. round[m] \ {n} # Over
    BY <2>1, PackageFacts
  <2> QED BY <2>1, <2>2 DEF LoadInv, LoadTyped
<1>5. /\ seen' \in [Machines -> SUBSET Packages] /\ popped' \in [Machines -> SUBSET Packages]
      /\ queue' \in [Machines -> Seq(Seq(Packages))]
      /\ acc' \in [Machines -> [Threads -> Accessors]] /\ Kept'
      /\ done' \in [Machines -> BOOLEAN] /\ \A k \in Machines : done[k] => done'[k]
      /\ \A k \in Machines : done'[k] => done[k] \/ Head(s) = Done
  <2>1. CASE Head(s) = Done /\ done' = [done EXCEPT ![m] = TRUE] /\ UNCHANGED <<seen, acc, queue>>
    <3>1. seen' = seen /\ acc' = acc /\ queue' = queue
      BY <2>1
    <3>2. Kept'
      BY <1>1, <3>1, KeptSame DEF LoadInv
    <3> QED BY <1>1, <2>1, <3>1, <3>2 DEF LoadInv, LoadTyped
  <2>2. CASE Head(s) # Done /\ Meet(m, Dispatcher, Head(s).package) /\ UNCHANGED done
    <3>1. PICK p \in Inner : Owner(p) = m /\ Head(s) = Data(p)
      BY <1>3, <2>2
    <3>2. Head(s).package = p
      BY <3>1, DataFacts DEF Inner
    <3>3. Meet(m, Dispatcher, p) /\ done' = done
      BY <2>2, <3>2
    <3> HIDE DEF s
    <3> QED BY <1>1, <1>2, <3>1, <3>3, MeetFacts DEF LoadInv, LoadTyped
  <2> QED BY <2>1, <2>2
<1>6. LoadTyped'
  BY <1>1, <1>3, <1>4, <1>5 DEF LoadInv, LoadTyped, Changed
<1>7. Handy'
  BY <1>1 DEF LoadInv, Handy, Hand
<1>8. Dispatching'
  <2> SUFFICES ASSUME NEW k \in Machines PROVE Dispatches(k)'
    BY DEF Dispatching
  <2>1. Dispatches(k)
    BY DEF LoadInv, Dispatching
  <2>2. \A j \in Machines : k # m \/ j # n => wire'[j][k][Master] = wire[j][k][Master]
    BY <1>2, <1>3 DEF Changed
  <2>3. CASE k = m
    <3>1. \A j \in round'[m] : j \in Machines /\ j # n /\ wire[j][m][Master] # << >>
      BY <1>4, RoundFacts
    <3>2. \A j \in round'[m] : wire'[j][m][Master] # << >>
      BY <2>2, <2>3, <3>1
    <3> QED BY <1>1, <1>4, <2>3, <3>2 DEF Dispatches
  <2>4. CASE k # m
    <3>1. round'[k] = round[k] /\ main'[k] = main[k] /\ (done[k] => done'[k])
      BY <1>1, <1>4, <1>5, <2>4
    <3>2. round[k] # Over => \A j \in round[k] : wire'[j][k][Master] # << >>
      BY <2>2, <2>4, RoundFacts
    <3> QED BY <2>1, <3>1, <3>2 DEF Dispatches
  <2> QED BY <2>3, <2>4
<1>9. AllTraced'
  <2>1. \A k, j \in Machines, v \in Workers : Kind = "Dedicated" => wire'[k][j][v] = wire[k][j][v]
    BY <1>3, PackageFacts DEF Changed, Lines
  <2> QED BY <1>1, <2>1, TracedSame DEF LoadInv
<1>10. InTime'
  <2>1. Head(s) = Done => Stops(n)
    BY <1>3 DEF Stops
  <2>2. ASSUME NEW k \in Machines, NEW j \in Machines, NEW i \in DOMAIN wire'[k][j][Master],
               wire'[k][j][Master][i] = Done
        PROVE  \E h \in DOMAIN wire[k][j][Master] : wire[k][j][Master][h] = Done
    <3>1. CASE k = n /\ j = m
      BY <1>3, <2>2, <3>1
    <3>2. CASE ~(k = n /\ j = m)
      <4>1. wire'[k][j][Master] = wire[k][j][Master]
        BY <1>2, <1>3, <3>2 DEF Changed
      <4> QED BY <2>2, <4>1
    <3> QED BY <3>1, <3>2
  <2>3. \A k \in Machines : Stops(k)' => Stops(k) \/ Stops(n)
    BY <1>1, <1>5, <2>1, <2>2 DEF Stops
  <2> QED BY <1>1, <2>3, InTimeStep DEF LoadInv
<1> QED BY <1>3, <1>5, <1>6, <1>7, <1>8, <1>9, <1>10 DEF LoadInv

-----------------------------------------------------------------------------
(* Workers::run, and what reads the rest.                                   *)
LEMMA OverLoad ==
  ASSUME LoadConstants, LoadInv, NEW m \in Machines, WorkersOver(m)
  PROVE  LoadInv'
<1>1. /\ main[m] = "work" /\ \A w \in Workers : pc[m][w] = "over"
      /\ main' = [main EXCEPT ![m] = "notify"] /\ unsent' = [unsent EXCEPT ![m] = Machines \ {m}]
      /\ seen' = seen /\ queue' = queue /\ acc' = acc /\ done' = done /\ pc' = pc /\ todo' = todo
      /\ round' = round /\ wire' = wire /\ popped' = popped
  BY DEF WorkersOver
<1>2. /\ main' \in [Machines -> {"work", "notify", "join", "over"}] /\ main'[m] = "notify"
      /\ unsent' \in [Machines -> SUBSET Machines]
      /\ \A k \in Machines : k # m => main'[k] = main[k]
  BY <1>1 DEF LoadInv, LoadTyped
<1>3. LoadTyped'
  BY <1>1, <1>2 DEF LoadInv, LoadTyped
<1>4. Kept'
  BY <1>1, KeptSame DEF LoadInv
<1>5. Handy' /\ AllWired'
  BY <1>1 DEF LoadInv, Handy, Hand, AllWired
<1>6. Dispatching'
  BY <1>1, <1>2 DEF LoadInv, Dispatching, Dispatches
<1>7. AllTraced'
  BY <1>1, TracedSame DEF LoadInv
<1>8. InTime'
  <2>1. Workers # {} => Stops(m)
    BY <1>1 DEF Stops
  <2>2. \A k \in Machines \ {m} : Stops(k)' => Stops(k)
    BY <1>1, <1>2 DEF Stops
  <2> QED BY <1>1, <2>1, <2>2, InTimeStep DEF LoadInv
<1> QED BY <1>3, <1>4, <1>5, <1>6, <1>7, <1>8 DEF LoadInv

LEMMA JoinLoad ==
  ASSUME LoadConstants, LoadInv, NEW m \in Machines, Join(m)
  PROVE  LoadInv'
<1>1. /\ main[m] # "work" /\ unsent' = unsent
      /\ seen' = seen /\ queue' = queue /\ acc' = acc /\ done' = done /\ pc' = pc /\ todo' = todo
      /\ round' = round /\ wire' = wire /\ popped' = popped
  BY DEF Join
<1>2. PICK x \in {"join", "over"} : main' = [main EXCEPT ![m] = x] /\ (x = "over" => round[m] = Over)
  BY DEF Join
<1>3. /\ main' \in [Machines -> {"work", "notify", "join", "over"}] /\ main'[m] = x
      /\ \A k \in Machines : k # m => main'[k] = main[k]
  BY <1>2 DEF LoadInv, LoadTyped
<1>4. LoadTyped'
  BY <1>1, <1>3 DEF LoadInv, LoadTyped
<1>5. Kept'
  BY <1>1, KeptSame DEF LoadInv
<1>6. Handy' /\ AllWired'
  BY <1>1 DEF LoadInv, Handy, Hand, AllWired
<1>7. Dispatching'
  BY <1>1, <1>2, <1>3 DEF LoadInv, Dispatching, Dispatches
<1>8. AllTraced'
  BY <1>1, TracedSame DEF LoadInv
<1>9. InTime'
  <2>1. Stops(m)
    BY <1>1 DEF Stops
  <2> QED BY <1>1, <2>1, InTimeStep DEF LoadInv
<1> QED BY <1>4, <1>5, <1>6, <1>7, <1>8, <1>9 DEF LoadInv

(* The main thread tells machine n the end, or gives up.                    *)
LEMMA NotifyLoad ==
  ASSUME LoadConstants, LoadInv, NEW m \in Machines, NEW n \in Machines, main[m] = "notify",
         Send(m, n, Master, Done) \/ UNCHANGED wire,
         unsent' \in [Machines -> SUBSET Machines],
         UNCHANGED <<seen, queue, acc, done, pc, todo, round, main, popped>>
  PROVE  LoadInv'
<1>1. /\ seen' = seen /\ queue' = queue /\ acc' = acc /\ done' = done /\ pc' = pc /\ todo' = todo
      /\ round' = round /\ main' = main /\ popped' = popped
  OBVIOUS
<1>2. Master \in Lines
  BY DEF Lines
<1>3. /\ wire' \in [Machines -> [Machines -> [Lines -> Seq(Messages)]]] /\ AllWired'
      /\ \A k, j \in Machines : wire[k][j][Master] # << >> => wire'[k][j][Master] # << >>
      /\ \A k, j \in Machines, g \in Lines : k # m \/ g # Master => wire'[k][j][g] = wire[k][j][g]
  <2>1. CASE Send(m, n, Master, Done)
    <3>1. Done \in Messages
      BY DEF Messages
    <3>2. Changed(m, n, Master, Append(wire[m][n][Master], Done)) /\ AllWired' /\ wire'[m][n][Master] # << >>
      BY <1>2, <2>1, <3>1, SendFacts DEF LoadInv
    <3>3. /\ wire' \in [Machines -> [Machines -> [Lines -> Seq(Messages)]]]
          /\ \A k, j \in Machines, g \in Lines : k # m \/ j # n \/ g # Master => wire'[k][j][g] = wire[k][j][g]
      BY <3>2 DEF Changed
    <3>4. \A k, j \in Machines : wire[k][j][Master] # << >> => wire'[k][j][Master] # << >>
      BY <1>2, <3>2, <3>3
    <3>5. \A k, j \in Machines, g \in Lines : k # m \/ g # Master => wire'[k][j][g] = wire[k][j][g]
      BY <3>3
    <3> QED BY <3>2, <3>3, <3>4, <3>5
  <2>2. CASE wire' = wire
    BY <2>2 DEF LoadInv, LoadTyped, AllWired
  <2> QED BY <2>1, <2>2
<1>4. LoadTyped'
  BY <1>1, <1>3 DEF LoadInv, LoadTyped
<1>5. Kept'
  BY <1>1, KeptSame DEF LoadInv
<1>6. Handy'
  BY <1>1 DEF LoadInv, Handy, Hand
<1>7. Dispatching'
  <2> SUFFICES ASSUME NEW k \in Machines PROVE Dispatches(k)'
    BY DEF Dispatching
  <2>1. Dispatches(k)
    BY DEF LoadInv, Dispatching
  <2>2. round[k] # Over => \A j \in round[k] : wire'[j][k][Master] # << >>
    BY <1>3, RoundFacts
  <2> QED BY <1>1, <2>1, <2>2 DEF Dispatches
<1>8. AllTraced'
  <2>1. \A k, j \in Machines, v \in Workers : Kind = "Dedicated" => wire'[k][j][v] = wire[k][j][v]
    BY <1>3, PackageFacts DEF Lines
  <2> QED BY <1>1, <2>1, TracedSame DEF LoadInv
<1>9. InTime'
  <2>1. Stops(m)
    BY DEF Stops
  <2> QED BY <1>1, <2>1, InTimeStep DEF LoadInv
<1> QED BY <1>3, <1>4, <1>5, <1>6, <1>7, <1>8, <1>9 DEF LoadInv

LEMMA ConsumeLoad ==
  ASSUME LoadConstants, LoadInv, NEW m \in Machines, NEW n \in Machines, NEW l \in Lines, Consume(m, n, l)
  PROVE  LoadInv'
<1> DEFINE s == wire[n][m][l]
<1>1. /\ main[m] = "over" /\ s # << >> /\ wire' = [wire EXCEPT ![n][m][l] = Tail(@)]
      /\ seen' = seen /\ queue' = queue /\ acc' = acc /\ done' = done /\ pc' = pc /\ todo' = todo
      /\ round' = round /\ main' = main /\ unsent' = unsent /\ popped' = popped
  BY DEF Consume
<1>2. /\ Changed(n, m, l, Tail(s)) /\ AllWired'
      /\ (\E i \in DOMAIN wire'[n][m][l] : wire'[n][m][l][i] = Done) =>
           \E i \in DOMAIN s : s[i] = Done
  BY <1>1, ReadFacts DEF LoadInv
<1>3. Master \in Lines
  BY DEF Lines
<1>4. LoadTyped'
  BY <1>1, <1>2 DEF LoadInv, LoadTyped, Changed
<1>5. Kept'
  BY <1>1, KeptSame DEF LoadInv
<1>6. Handy'
  BY <1>1 DEF LoadInv, Handy, Hand
<1>7. Dispatching'
  <2> SUFFICES ASSUME NEW k \in Machines PROVE Dispatches(k)'
    BY DEF Dispatching
  <2>1. Dispatches(k)
    BY DEF LoadInv, Dispatching
  <2>2. round[k] # Over => \A j \in round[k] : wire'[j][k][Master] # << >>
    <3> SUFFICES ASSUME round[k] # Over, NEW j \in round[k] PROVE wire'[j][k][Master] # << >>
      OBVIOUS
    <3>1. k # m /\ j \in Machines /\ wire[j][k][Master] # << >>
      BY <1>1, RoundFacts
    <3>2. wire'[j][k][Master] = wire[j][k][Master]
      BY <1>2, <1>3, <3>1 DEF Changed
    <3> QED BY <3>1, <3>2
  <2> QED BY <1>1, <2>1, <2>2 DEF Dispatches
<1>8. AllTraced'
  <2>1. ASSUME Kind = "Dedicated" PROVE Workers \subseteq Lines /\ Master \notin Workers
    BY <2>1, PackageFacts DEF Lines
  <2>2. CASE l = Master
    <3>1. \A k, j \in Machines, v \in Workers : Kind = "Dedicated" => wire'[k][j][v] = wire[k][j][v]
      BY <1>2, <2>1, <2>2 DEF Changed
    <3> QED BY <1>1, <3>1, TracedSame DEF LoadInv
  <2>3. CASE l # Master
    <3>1. \A k \in Machines \ {n}, j \in Machines, v \in Workers :
            Kind = "Dedicated" => wire'[k][j][v] = wire[k][j][v]
      BY <1>2, <2>1 DEF Changed
    <3>2. ASSUME Kind = "Dedicated" PROVE Traced(Cargoes(pc'[n], todo'[n], wire'[n]), popped'[n])
      <4> DEFINE C == Cargoes(pc[n], todo[n], wire[n])
                 D == Cargoes(pc'[n], todo'[n], wire'[n])
      <4>1. Traced(C, popped[n])
        BY <3>2 DEF LoadInv, AllTraced
      <4>2. C = Cargoes(pc[n], todo[n], wire[n]) /\ D = Cargoes(pc'[n], todo'[n], wire'[n])
        OBVIOUS
      <4> HIDE DEF C, D
      <4>3. Laden(C, pc[n], todo[n], wire[n]) /\ Laden(D, pc'[n], todo'[n], wire'[n])
        BY <1>2, <1>4, <3>2, <4>2, CargoStep DEF LoadInv
      <4>4. l \in Workers /\ m \in 0 .. Size /\ m # 0
        BY <2>3, <3>2 DEF Lines, Machines, LoadConstants
      <4>5. \A k \in 0 .. Size : k # 0 => k \in Machines
        BY DEF Machines, LoadConstants
      <4>6. C \in Freight /\ D \in Freight
        BY <4>3 DEF Laden
      <4>7. \A v \in Workers : D[0][v] = C[0][v]
        BY <1>1, <4>3 DEF Laden
      <4>8. \A k \in Machines, v \in Workers : k # m \/ v # l => D[k][v] = C[k][v]
        <5>1. \A k \in Machines, v \in Workers : k # m \/ v # l => wire'[n][k][v] = wire[n][k][v]
          BY <1>2, <2>1, <3>2 DEF Changed
        <5> QED BY <4>3, <5>1 DEF Laden
      <4>9. \A k \in 0 .. Size, v \in Workers : k # m \/ v # l => D[k][v] = C[k][v]
        BY <4>4, <4>5, <4>7, <4>8
      <4>10. wire'[n][m][l] = Tail(s) /\ s \in Seq(Messages) /\ Wired(s, m, l)
        BY <1>2 DEF Changed, LoadInv, LoadTyped, AllWired
      <4>11. C[m][l] = Packed(s) /\ D[m][l] = Packed(Tail(s))
        BY <4>3, <4>4, <4>10 DEF Laden
      <4>12. s # << >>
        BY <1>1
      <4> HIDE DEF s
      <4>13. Packed(Tail(s)) = Tail(Packed(s)) /\ Packed(s) # << >>
        BY <2>3, <4>10, <4>12, PackedFacts
      <4>14. C[m][l] # << >> /\ D[m][l] = Tail(C[m][l])
        BY <4>11, <4>13
      <4>15. Traced(D, popped[n])
        BY <4>1, <4>4, <4>6, <4>9, <4>14, TraceShift
      <4> QED BY <1>1, <4>15 DEF D
    <3> QED BY <1>1, <3>1, <3>2, TracedOne DEF LoadInv
  <2> QED BY <2>2, <2>3
<1>9. InTime'
  <2>1. ASSUME NEW k \in Machines, NEW j \in Machines, NEW i \in DOMAIN wire'[k][j][Master],
               wire'[k][j][Master][i] = Done
        PROVE  \E h \in DOMAIN wire[k][j][Master] : wire[k][j][Master][h] = Done
    <3>1. CASE k = n /\ j = m /\ l = Master
      BY <1>2, <2>1, <3>1
    <3>2. CASE ~(k = n /\ j = m /\ l = Master)
      <4>1. wire'[k][j][Master] = wire[k][j][Master]
        BY <1>2, <1>3, <3>2 DEF Changed
      <4> QED BY <2>1, <4>1
    <3> QED BY <3>1, <3>2
  <2>2. \A k \in Machines : Stops(k)' => Stops(k)
    BY <1>1, <2>1 DEF Stops
  <2> QED BY <1>1, <2>2, InTimeStep DEF LoadInv
<1> QED BY <1>2, <1>4, <1>5, <1>6, <1>7, <1>8, <1>9 DEF LoadInv

-----------------------------------------------------------------------------
LEMMA StutterLoad ==
  ASSUME LoadInv, UNCHANGED vars
  PROVE  LoadInv'
<1>1. /\ seen' = seen /\ queue' = queue /\ acc' = acc /\ done' = done /\ pc' = pc /\ todo' = todo
      /\ round' = round /\ main' = main /\ unsent' = unsent /\ wire' = wire /\ popped' = popped
  BY DEF vars
<1>2. LoadTyped' /\ Kept' /\ Handy'
  BY <1>1 DEF LoadInv, LoadTyped, Kept, Handy, Hand
<1>3. AllWired' /\ Dispatching'
  BY <1>1 DEF LoadInv, AllWired, Dispatching, Dispatches
<1>4. AllTraced'
  BY <1>1 DEF LoadInv, AllTraced
<1>5. InTime'
  <2>1. \A k \in Machines : Stops(k)' => Stops(k)
    BY <1>1 DEF Stops
  <2> QED BY <1>1, <2>1, InTimeStep DEF LoadInv
<1> QED BY <1>2, <1>3, <1>4, <1>5 DEF LoadInv

LEMMA InitLoad ==
  ASSUME LoadConstants, Init
  PROVE  LoadInv
<1>1. /\ seen = [m \in Machines |-> {}] /\ popped = [m \in Machines |-> {}]
      /\ queue = [m \in Machines |-> IF m = MainSlave THEN << <<Initial>> >> ELSE << >>]
      /\ acc = [m \in Machines |-> [t \in Threads |-> NewAccessor]]
      /\ done = [m \in Machines |-> FALSE]
      /\ pc = [m \in Machines |-> [w \in Workers |-> "loop"]]
      /\ todo = [m \in Machines |-> [w \in Workers |-> << >>]]
      /\ round = [m \in Machines |-> {}]
      /\ main = [m \in Machines |-> "work"] /\ unsent = [m \in Machines |-> {}]
      /\ wire = [m \in Machines |-> [n \in Machines |-> [l \in Lines |-> << >>]]]
  BY DEF Init
<1>2. Initial \in Packages /\ Master \in Lines /\ Over # {} /\ FirstChunk \in Nat
  BY PackageFacts DEF Over, LoadConstants
<1>3. << >> \in Seq(Packages) /\ << >> \in Seq(Messages) /\ << >> \in Seq(Seq(Packages))
      /\ <<Initial>> \in Seq(Packages) /\ << <<Initial>> >> \in Seq(Seq(Packages))
  BY <1>2
<1>4. NewAccessor \in Accessors /\ NewAccessor.in = << >> /\ NewAccessor.out = << >>
  BY <1>2, <1>3 DEF NewAccessor, Accessors
<1>5. LoadTyped
  <2>1. queue \in [Machines -> Seq(Seq(Packages))] /\ acc \in [Machines -> [Threads -> Accessors]]
    BY <1>1, <1>3, <1>4
  <2>2. todo \in [Machines -> [Workers -> Seq(Packages)]]
        /\ wire \in [Machines -> [Machines -> [Lines -> Seq(Messages)]]]
    BY <1>1, <1>3
  <2>3. /\ pc \in [Machines -> [Workers -> Positions]]
        /\ seen \in [Machines -> SUBSET Packages] /\ popped \in [Machines -> SUBSET Packages]
        /\ done \in [Machines -> BOOLEAN] /\ round \in [Machines -> (SUBSET Machines) \cup {{0}}]
        /\ main \in [Machines -> {"work", "notify", "join", "over"}]
        /\ unsent \in [Machines -> SUBSET Machines]
    BY <1>1 DEF Positions
  <2> QED BY <2>1, <2>2, <2>3 DEF LoadTyped
<1>6. Kept
  <2> SUFFICES ASSUME NEW m \in Machines PROVE Keeps(m, queue[m], acc[m], {}, {})
    BY <1>1 DEF Kept
  <2> DEFINE Q == queue[m]
             A == acc[m]
  <2>1. Q = << <<Initial>> >> \/ Q = << >>
    BY <1>1
  <2>2. A \in [Threads -> Accessors] /\ \A t \in Threads : A[t] = NewAccessor
    BY <1>1, <1>4
  <2>3. Own(NewAccessor) = {} /\ Apart(NewAccessor)
    BY <1>4, EmptyFacts DEF Own, Apart
  <2>4. Q \in Seq(Seq(Packages)) /\ Split(Q) /\ Queued(Q) \subseteq {Initial}
    <3>1. CASE Q = << >>
      BY <1>3, <3>1 DEF Split, Queued
    <3>2. CASE Q = << <<Initial>> >>
      <4>1. DOMAIN Q = {1} /\ Q[1] = <<Initial>>
        BY <3>2
      <4>2. ToSet(<<Initial>>) = {Initial} /\ Distinct(<<Initial>>)
        BY DEF ToSet, Distinct
      <4> HIDE DEF Q
      <4> QED BY <1>3, <3>2, <4>1, <4>2 DEF Split, Queued
    <3> QED BY <2>1, <3>1, <3>2
  <2> HIDE DEF A, Q
  <2>5. All(Q, A) \subseteq {Initial}
    BY <2>2, <2>3, <2>4 DEF All
  <2>6. \A t \in Threads : Private(Q, A, t)
    BY <2>2, <2>3 DEF Private
  <2>7. Keeps(m, Q, A, {}, {})
    BY <2>2, <2>4, <2>5, <2>6 DEF Keeps
  <2> QED BY <2>7 DEF A, Q
<1>7. Handy
  BY <1>1 DEF Handy, Hand
<1>8. AllWired
  BY <1>1 DEF AllWired, Wired
<1>9. Dispatching
  BY <1>1, <1>2 DEF Dispatching, Dispatches
<1>10. AllTraced
  <2> SUFFICES ASSUME Kind = "Dedicated", NEW m \in Machines
               PROVE  Traced(Cargoes(pc[m], todo[m], wire[m]), popped[m])
    BY DEF AllTraced
  <2> DEFINE C == Cargoes(pc[m], todo[m], wire[m])
             f == [n \in 0 .. Size |-> [w \in Workers |-> [i \in Nat |-> Initial]]]
  <2>1. f \in Steps
    BY <1>2 DEF Steps
  <2>2. \A n \in 0 .. Size, w \in Workers : DOMAIN C[n][w] = {}
    <3> SUFFICES ASSUME NEW n \in 0 .. Size, NEW w \in Workers PROVE DOMAIN C[n][w] = {}
      OBVIOUS
    <3>1. n # 0 => n \in Machines /\ w \in Lines
      BY DEF Machines, Lines, LoadConstants
    <3>2. Packed(<< >>) = << >>
      BY DEF Packed
    <3>3. C[n][w] = << >>
      BY <1>1, <3>1, <3>2 DEF Cargoes
    <3> QED BY <3>3
  <2> HIDE DEF C, f
  <2>3. Traces(f, C, popped[m])
    BY <2>2 DEF Traces
  <2>4. Traced(C, popped[m])
    BY <2>1, <2>3 DEF Traced
  <2> QED BY <2>4 DEF C
<1>11. InTime
  <2>1. \A m \in Machines : ~Stops(m)
    BY <1>1, <1>2 DEF Stops
  <2> QED BY <2>1 DEF InTime
<1> QED BY <1>5, <1>6, <1>7, <1>8, <1>9, <1>10, <1>11 DEF LoadInv

LEMMA DispatcherLoad ==
  ASSUME LoadConstants, LoadInv, NEW m \in Machines, DispatcherStep(m)
  PROVE  LoadInv'
<1>1. CASE StartRound(m)
  BY <1>1, StartLoad
<1>2. ASSUME NEW n \in Machines, Receive(m, n) PROVE LoadInv'
  <2>1. /\ n \in round[m] /\ round[m] # Over
        /\ wire' = [wire EXCEPT ![n][m][Master] = Tail(@)]
        /\ \/ /\ Head(wire[n][m][Master]) = Done
              /\ done' = [done EXCEPT ![m] = TRUE] /\ UNCHANGED <<seen, acc, queue>>
           \/ /\ Head(wire[n][m][Master]) # Done
              /\ Meet(m, Dispatcher, Head(wire[n][m][Master]).package) /\ UNCHANGED done
        /\ round' = [round EXCEPT ![m] = @ \ {n}]
        /\ UNCHANGED <<pc, todo, main, unsent, popped>>
    BY <1>2 DEF Receive
  <2>2. wire[n][m][Master] # << >>
    BY <2>1, RoundFacts
  <2> QED BY <2>1, <2>2, ReceiveLoad
<1>3. CASE EmptyProbe(m)
  BY <1>3, EmptyLoad
<1>4. CASE EndDispatcher(m)
  <2>1. /\ done[m] /\ round' = [round EXCEPT ![m] = Over]
        /\ UNCHANGED <<seen, queue, acc, done, pc, todo, main, unsent, wire, popped>>
    BY <1>4 DEF EndDispatcher
  <2> QED BY <2>1, EndLoad
<1> QED BY <1>1, <1>2, <1>3, <1>4 DEF DispatcherStep

LEMMA MainLoad ==
  ASSUME LoadConstants, LoadInv, NEW m \in Machines, Main(m)
  PROVE  LoadInv'
<1>1. CASE WorkersOver(m)
  BY <1>1, OverLoad
<1>2. CASE Join(m)
  BY <1>2, JoinLoad
<1>3. ASSUME NEW n \in Machines, NotifyAll(m, n) PROVE LoadInv'
  <2>1. UNCHANGED <<seen, queue, acc, done, pc, todo, round, main, popped>>
    BY <1>3 DEF NotifyAll
  <2>2. main[m] = "notify" /\ (Send(m, n, Master, Done) \/ UNCHANGED wire)
    BY <1>3 DEF NotifyAll
  <2>3. unsent' \in [Machines -> SUBSET Machines]
    BY <1>3 DEF NotifyAll, LoadInv, LoadTyped
  <2> QED BY <2>1, <2>2, <2>3, NotifyLoad
<1> QED BY <1>1, <1>2, <1>3 DEF Main

LEMMA LoadNext ==
  ASSUME LoadConstants, LoadInv, Next
  PROVE  LoadInv'
<1>1. PICK m \in Machines :
        \/ \E w \in Workers : Worker(m, w) \/ Expire(m, w)
        \/ DispatcherStep(m) \/ Main(m)
        \/ \E n \in Machines, l \in Lines : Consume(m, n, l)
  BY DEF Next
<1>2. ASSUME NEW w \in Workers, Worker(m, w) PROVE LoadInv'
  BY <1>2, QuitLoad, PopLoad, FlushLoad, ProbeLoad, HandleLoad DEF Worker
<1>3. ASSUME NEW w \in Workers, Expire(m, w) PROVE LoadInv'
  BY <1>3, ExpireLoad
<1>4. CASE DispatcherStep(m)
  BY <1>4, DispatcherLoad
<1>5. CASE Main(m)
  BY <1>5, MainLoad
<1>6. ASSUME NEW n \in Machines, NEW l \in Lines, Consume(m, n, l) PROVE LoadInv'
  BY <1>6, ConsumeLoad
<1> QED BY <1>1, <1>2, <1>3, <1>4, <1>5, <1>6

-----------------------------------------------------------------------------
(* The same over MPI, where the dispatcher has no rounds.                   *)
MpiLoadInv == LoadInv /\ \A m \in Machines : round[m] \in {{}, Over}

LEMMA MpiInitLoad ==
  ASSUME LoadConstants, MpiInit
  PROVE  MpiLoadInv
<1>1. Init
  BY DEF MpiInit
<1>2. \A m \in Machines : round[m] = {}
  BY <1>1 DEF Init
<1> QED BY <1>1, <1>2, InitLoad DEF MpiLoadInv

LEMMA MpiDispatcherLoad ==
  ASSUME LoadConstants, MpiLoadInv, NEW m \in Machines, MpiDispatcher(m)
  PROVE  MpiLoadInv'
<1>1. round[m] # Over /\ LoadInv /\ round[m] = {}
  BY DEF MpiDispatcher, MpiLoadInv
<1>2. CASE /\ done[m] /\ Leave(m)
           /\ UNCHANGED <<seen, queue, acc, done, pc, todo, probes, main, unsent, wire, popped>>
  <2>1. /\ round' = [round EXCEPT ![m] = Over] /\ done[m]
        /\ UNCHANGED <<seen, queue, acc, done, pc, todo, main, unsent, wire, popped>>
    BY <1>2 DEF Leave
  <2>2. LoadInv'
    BY <1>1, <2>1, EndLoad
  <2>3. \A k \in Machines : round'[k] \in {{}, Over}
    BY <2>1 DEF MpiLoadInv, LoadInv, LoadTyped
  <2> QED BY <2>2, <2>3 DEF MpiLoadInv
<1>3. ASSUME NEW n \in Look(m), Head(wire[n][m][Master]) = Done,
             done' = [done EXCEPT ![m] = TRUE], Leave(m),
             UNCHANGED <<seen, acc, queue, wire>>, UNCHANGED <<pc, todo, probes, main, unsent, popped>>
      PROVE  MpiLoadInv'
  <2> DEFINE s == wire[n][m][Master]
  <2>1. /\ seen' = seen /\ queue' = queue /\ acc' = acc /\ pc' = pc /\ todo' = todo
        /\ main' = main /\ unsent' = unsent /\ wire' = wire /\ popped' = popped
        /\ round' = [round EXCEPT ![m] = Over]
    BY <1>3 DEF Leave
  <2>2. /\ done' \in [Machines -> BOOLEAN] /\ done'[m]
        /\ \A k \in Machines : k # m => done'[k] = done[k]
        /\ round' \in [Machines -> (SUBSET Machines) \cup {{0}}] /\ round'[m] = Over
        /\ \A k \in Machines : k # m => round'[k] = round[k]
    BY <1>1, <1>3, <2>1 DEF LoadInv, LoadTyped, Over
  <2>3. LoadTyped'
    BY <1>1, <2>1, <2>2 DEF LoadInv, LoadTyped
  <2>4. Kept'
    BY <1>1, <2>1, KeptSame DEF LoadInv
  <2>5. Handy' /\ AllWired'
    BY <1>1, <2>1 DEF LoadInv, Handy, Hand, AllWired
  <2>6. Dispatching'
    BY <1>1, <2>1, <2>2 DEF LoadInv, Dispatching, Dispatches
  <2>7. AllTraced'
    BY <1>1, <2>1, TracedSame DEF LoadInv
  <2>8. InTime'
    <3>1. n \in Machines /\ s # << >> /\ Master \in Lines
      BY DEF Look, Readable, Lines
    <3>2. s \in Seq(Messages)
      BY <1>1, <3>1 DEF LoadInv, LoadTyped
    <3>3. 1 \in DOMAIN s /\ s[1] = Done
      BY <1>3, <3>1, <3>2
    <3>4. Stops(n)
      BY <3>1, <3>3 DEF Stops
    <3> QED BY <1>1, <2>1, <3>1, <3>4, InTimeStep DEF LoadInv
  <2>9. \A k \in Machines : round'[k] \in {{}, Over}
    BY <2>2 DEF MpiLoadInv
  <2> QED BY <2>3, <2>4, <2>5, <2>6, <2>7, <2>8, <2>9 DEF LoadInv, MpiLoadInv
<1>4. ASSUME NEW n \in Look(m), Head(wire[n][m][Master]) # Done,
             Meet(m, Dispatcher, Head(wire[n][m][Master]).package),
             wire' = [wire EXCEPT ![n][m][Master] = Tail(@)],
             UNCHANGED <<done, round>>, UNCHANGED <<pc, todo, probes, main, unsent, popped>>
      PROVE  MpiLoadInv'
  <2>1. n \in Machines /\ wire[n][m][Master] # << >>
    BY DEF Look, Readable
  <2>2. round' = [round EXCEPT ![m] = @ \ {n}]
    BY <1>1, <1>4 DEF LoadInv, LoadTyped
  <2>3. LoadInv'
    BY <1>1, <1>4, <2>1, <2>2, ReceiveLoad
  <2> QED BY <1>4, <2>3 DEF MpiLoadInv
<1>5. CASE EmptyProbe(m)
  <2>1. LoadInv' /\ round' = round
    BY <1>1, <1>5, EmptyLoad DEF EmptyProbe
  <2> QED BY <2>1 DEF MpiLoadInv
<1> QED BY <1>2, <1>3, <1>4, <1>5 DEF MpiDispatcher

LEMMA MpiNotifyLoad ==
  ASSUME LoadConstants, MpiLoadInv, NEW m \in Machines, MpiNotify(m)
  PROVE  MpiLoadInv'
<1> DEFINE n == Min(unsent[m])
<1>1. /\ main[m] = "notify" /\ LoadInv
      /\ UNCHANGED <<seen, queue, acc, done, pc, todo, round, probes, main, popped>>
      /\ \/ UNCHANGED <<wire, unsent>>
         \/ Send(m, n, Master, Done) /\ unsent' = [unsent EXCEPT ![m] = @ \ {n}]
  BY DEF MpiNotify, MpiLoadInv
<1> HIDE DEF n
<1>2. unsent' \in [Machines -> SUBSET Machines]
  <2>1. unsent \in [Machines -> SUBSET Machines]
    BY <1>1 DEF LoadInv, LoadTyped
  <2>2. CASE unsent' = unsent
    BY <2>1, <2>2
  <2>3. CASE unsent' = [unsent EXCEPT ![m] = @ \ {n}]
    BY <2>1, <2>3
  <2> QED BY <1>1, <2>2, <2>3
<1>3. UNCHANGED <<seen, queue, acc, done, pc, todo, round, main, popped>> /\ round' = round
  BY <1>1
<1>4. CASE n \in Machines
  <2>1. Send(m, n, Master, Done) \/ UNCHANGED wire
    BY <1>1
  <2>2. LoadInv'
    BY <1>1, <1>2, <1>3, <1>4, <2>1, NotifyLoad
  <2> QED BY <1>3, <2>2 DEF MpiLoadInv
<1>5. CASE n \notin Machines
  <2>1. UNCHANGED wire
    <3>1. CASE UNCHANGED <<wire, unsent>>
      BY <3>1
    <3>2. CASE Send(m, n, Master, Done)
      <4> DEFINE x == Append(wire[m][n][Master], Done)
                 y == [wire[m][n] EXCEPT ![Master] = x]
                 z == [wire[m] EXCEPT ![n] = y]
      <4>1. wire' = [wire EXCEPT ![m] = z]
        BY <3>2 DEF Send
      <4>2. wire \in [Machines -> [Machines -> [Lines -> Seq(Messages)]]]
        BY <1>1 DEF LoadInv, LoadTyped
      <4> HIDE DEF x, y
      <4>3. z = wire[m]
        BY <1>5, <4>2
      <4> HIDE DEF z
      <4> QED BY <4>1, <4>2, <4>3
    <3> QED BY <1>1, <3>1, <3>2
  <2>2. LoadInv'
    BY <1>1, <1>2, <1>3, <2>1, NotifyLoad
  <2> QED BY <1>3, <2>2 DEF MpiLoadInv
<1> QED BY <1>4, <1>5

LEMMA MpiLoadNext ==
  ASSUME LoadConstants, MpiLoadInv, MpiNext
  PROVE  MpiLoadInv'
<1>1. PICK m \in Machines : \/ \E w \in Workers : MpiWorker(m, w)
                            \/ MpiDispatcher(m) \/ MpiMain(m)
  BY DEF MpiNext
<1>2. LoadInv
  BY DEF MpiLoadInv
<1>3. ASSUME NEW w \in Workers, MpiWorker(m, w) PROVE MpiLoadInv'
  <2>1. CASE UNCHANGED vars
    <3>1. LoadInv' /\ round' = round
      BY <1>2, <2>1, StutterLoad DEF vars
    <3> QED BY <3>1 DEF MpiLoadInv
  <2>2. CASE Handle(m, w)
    <3>1. LoadInv' /\ round' = round
      BY <1>2, <2>2, HandleLoad DEF Handle
    <3> QED BY <3>1 DEF MpiLoadInv
  <2>3. CASE Quit(m, w)
    <3>1. LoadInv' /\ round' = round
      BY <1>2, <2>3, QuitLoad DEF Quit
    <3> QED BY <3>1 DEF MpiLoadInv
  <2>4. CASE Pop(m, w)
    <3>1. LoadInv' /\ round' = round
      BY <1>2, <2>4, PopLoad DEF Pop
    <3> QED BY <3>1 DEF MpiLoadInv
  <2>5. CASE FlushIdle(m, w)
    <3>1. LoadInv' /\ round' = round
      BY <1>2, <2>5, FlushLoad DEF FlushIdle
    <3> QED BY <3>1 DEF MpiLoadInv
  <2> QED BY <1>3, <2>1, <2>2, <2>3, <2>4, <2>5 DEF MpiWorker, MpiSend
<1>4. CASE MpiDispatcher(m)
  BY <1>4, MpiDispatcherLoad
<1>5. CASE MpiMain(m)
  <2>1. CASE WorkersOver(m)
    <3>1. LoadInv' /\ round' = round
      BY <1>2, <2>1, OverLoad DEF WorkersOver
    <3> QED BY <3>1 DEF MpiLoadInv
  <2>2. CASE Join(m)
    <3>1. LoadInv' /\ round' = round
      BY <1>2, <2>2, JoinLoad DEF Join
    <3> QED BY <3>1 DEF MpiLoadInv
  <2>3. CASE MpiNotify(m)
    BY <2>3, MpiNotifyLoad
  <2> QED BY <1>5, <2>1, <2>2, <2>3 DEF MpiMain
<1> QED BY <1>1, <1>3, <1>4, <1>5

LEMMA MpiStutterLoad ==
  ASSUME MpiLoadInv, UNCHANGED mpivars
  PROVE  MpiLoadInv'
<1>1. UNCHANGED vars /\ round' = round
  BY DEF mpivars, vars
<1> QED BY <1>1, StutterLoad DEF MpiLoadInv

-----------------------------------------------------------------------------
(* What the invariant says of packages and of the end.                      *)
LEMMA PlaceCases ==
  ASSUME NEW m \in Machines, NEW x \in Places(m)
  PROVE  \/ \E i \in DOMAIN queue[m] : \E j \in DOMAIN queue[m][i] :
              x = <<"queue", i, j>> /\ Waits(m, x) = queue[m][i][j]
         \/ \E t \in Threads : \E j \in DOMAIN acc[m][t].in :
              x = <<"in", t, j>> /\ Waits(m, x) = acc[m][t].in[j]
         \/ \E t \in Threads : \E j \in DOMAIN acc[m][t].out :
              x = <<"out", t, j>> /\ Waits(m, x) = acc[m][t].out[j]
<1>1. CASE \E i \in DOMAIN queue[m] : \E j \in DOMAIN queue[m][i] : x = <<"queue", i, j>>
  BY <1>1 DEF Waits
<1>2. CASE \E t \in Threads : \E j \in DOMAIN acc[m][t].in : x = <<"in", t, j>>
  BY <1>2 DEF Waits
<1>3. CASE \E t \in Threads : \E j \in DOMAIN acc[m][t].out : x = <<"out", t, j>>
  BY <1>3 DEF Waits
<1>4. \/ \E i \in DOMAIN queue[m] : \E j \in DOMAIN queue[m][i] : x = <<"queue", i, j>>
      \/ \E t \in Threads : \E j \in DOMAIN acc[m][t].in : x = <<"in", t, j>>
      \/ \E t \in Threads : \E j \in DOMAIN acc[m][t].out : x = <<"out", t, j>>
  BY DEF Places
<1> QED BY <1>1, <1>2, <1>3, <1>4

LEMMA WaitsOnce ==
  ASSUME Kept, NEW m \in Machines, NEW x \in Places(m), NEW y \in Places(m),
         Waits(m, x) = Waits(m, y)
  PROVE  x = y
<1> DEFINE Q == queue[m]
           A == acc[m]
           q == Waits(m, x)
<1>1. Split(Q) /\ \A t \in Threads : Private(Q, A, t)
  BY DEF Kept, Keeps
<1> DEFINE Chunk(z) == \/ \E i \in DOMAIN Q : \E j \in DOMAIN Q[i] : z = <<"queue", i, j>> /\ q = Q[i][j]
                       \/ \E t \in Threads : \E j \in DOMAIN A[t].in : z = <<"in", t, j>> /\ q = A[t].in[j]
                       \/ \E t \in Threads : \E j \in DOMAIN A[t].out : z = <<"out", t, j>> /\ q = A[t].out[j]
<1>2. Chunk(x) /\ Chunk(y)
  BY PlaceCases
<1> HIDE DEF Q, A, q
<1>3. ASSUME NEW i \in DOMAIN Q, NEW j \in DOMAIN Q[i], q = Q[i][j]
      PROVE  q \in ToSet(Q[i]) /\ q \in Queued(Q)
  BY <1>3 DEF ToSet, Queued
<1>4. ASSUME NEW t \in Threads, NEW j \in DOMAIN A[t].in, q = A[t].in[j]
      PROVE  q \in ToSet(A[t].in) /\ q \in Own(A[t])
  BY <1>4 DEF ToSet, Own
<1>5. ASSUME NEW t \in Threads, NEW j \in DOMAIN A[t].out, q = A[t].out[j]
      PROVE  q \in ToSet(A[t].out) /\ q \in Own(A[t])
  BY <1>5 DEF ToSet, Own
<1>6. \A t, u \in Threads : q \in Own(A[t]) /\ q \in Own(A[u]) => t = u
  BY <1>1 DEF Private
<1>7. \A t \in Threads : q \in Own(A[t]) => q \notin Queued(Q)
  BY <1>1 DEF Private
<1>8. CASE q \in Queued(Q)
  <2>1. PICK i \in DOMAIN Q : \E j \in DOMAIN Q[i] : x = <<"queue", i, j>> /\ q = Q[i][j]
    BY <1>2, <1>4, <1>5, <1>7, <1>8
  <2>2. PICK j \in DOMAIN Q[i] : x = <<"queue", i, j>> /\ q = Q[i][j]
    BY <2>1
  <2>3. PICK k \in DOMAIN Q : \E l \in DOMAIN Q[k] : y = <<"queue", k, l>> /\ q = Q[k][l]
    BY <1>2, <1>4, <1>5, <1>7, <1>8
  <2>4. PICK l \in DOMAIN Q[k] : y = <<"queue", k, l>> /\ q = Q[k][l]
    BY <2>3
  <2>5. i = k
    BY <1>1, <1>3, <2>2, <2>4 DEF Split
  <2>6. j = l
    BY <1>1, <2>2, <2>4, <2>5 DEF Split, Distinct
  <2> QED BY <2>2, <2>4, <2>5, <2>6
<1>9. CASE q \notin Queued(Q)
  <2>1. PICK t \in Threads : q \in Own(A[t])
    BY <1>2, <1>3, <1>4, <1>5, <1>9
  <2>2. Apart(A[t])
    BY <1>1 DEF Private
  <2>3. CASE q \in ToSet(A[t].in)
    <3>1. PICK j \in DOMAIN A[t].in : x = <<"in", t, j>> /\ q = A[t].in[j]
      BY <1>2, <1>3, <1>4, <1>5, <1>6, <1>9, <2>1, <2>2, <2>3 DEF Apart
    <3>2. PICK l \in DOMAIN A[t].in : y = <<"in", t, l>> /\ q = A[t].in[l]
      BY <1>2, <1>3, <1>4, <1>5, <1>6, <1>9, <2>1, <2>2, <2>3 DEF Apart
    <3> QED BY <2>2, <3>1, <3>2 DEF Apart, Distinct
  <2>4. CASE q \notin ToSet(A[t].in)
    <3>1. PICK j \in DOMAIN A[t].out : x = <<"out", t, j>> /\ q = A[t].out[j]
      BY <1>2, <1>3, <1>4, <1>5, <1>6, <1>9, <2>1, <2>4
    <3>2. PICK l \in DOMAIN A[t].out : y = <<"out", t, l>> /\ q = A[t].out[l]
      BY <1>2, <1>3, <1>4, <1>5, <1>6, <1>9, <2>1, <2>4
    <3> QED BY <2>2, <3>1, <3>2 DEF Apart, Distinct
  <2> QED BY <2>3, <2>4
<1> QED BY <1>8, <1>9

LEMMA Placed ==
  ASSUME NEW m \in Machines, NEW q
  PROVE  q \in All(queue[m], acc[m]) <=> \E x \in Places(m) : Waits(m, x) = q
<1>1. ASSUME NEW x \in Places(m), Waits(m, x) = q PROVE q \in All(queue[m], acc[m])
  BY <1>1, PlaceCases DEF All, Queued, Own, ToSet
<1>2. ASSUME q \in All(queue[m], acc[m]) PROVE \E x \in Places(m) : Waits(m, x) = q
  <2>1. CASE q \in Queued(queue[m])
    <3>1. PICK i \in DOMAIN queue[m] : \E j \in DOMAIN queue[m][i] : q = queue[m][i][j]
      BY <2>1 DEF Queued, ToSet
    <3>2. PICK j \in DOMAIN queue[m][i] : q = queue[m][i][j]
      BY <3>1
    <3>3. <<"queue", i, j>> \in Places(m)
      BY DEF Places
    <3>4. Waits(m, <<"queue", i, j>>) = q
      BY <3>2 DEF Waits
    <3> QED BY <3>3, <3>4
  <2>2. ASSUME NEW t \in Threads, q \in ToSet(acc[m][t].in) PROVE \E x \in Places(m) : Waits(m, x) = q
    <3>1. PICK j \in DOMAIN acc[m][t].in : q = acc[m][t].in[j]
      BY <2>2 DEF ToSet
    <3>2. <<"in", t, j>> \in Places(m)
      BY DEF Places
    <3>3. Waits(m, <<"in", t, j>>) = q
      BY <3>1 DEF Waits
    <3> QED BY <3>2, <3>3
  <2>3. ASSUME NEW t \in Threads, q \in ToSet(acc[m][t].out) PROVE \E x \in Places(m) : Waits(m, x) = q
    <3>1. PICK j \in DOMAIN acc[m][t].out : q = acc[m][t].out[j]
      BY <2>3 DEF ToSet
    <3>2. <<"out", t, j>> \in Places(m)
      BY DEF Places
    <3>3. Waits(m, <<"out", t, j>>) = q
      BY <3>1 DEF Waits
    <3> QED BY <3>2, <3>3
  <2> QED BY <1>2, <2>1, <2>2, <2>3 DEF All, Own
<1> QED BY <1>1, <1>2

LEMMA LoadParts ==
  ASSUME LoadConstants, LoadInv
  PROVE  /\ WorkedOnce /\ NoneLost
         /\ Workers # {} /\ Roomy => NotEarly
<1>1. ASSUME NEW m \in Machines
      PROVE  /\ All(queue[m], acc[m]) \subseteq (seen[m] \cup {Initial}) \ popped[m]
             /\ \A q \in seen[m] : Owner(q) = m
             /\ seen[m] \subseteq popped[m] \cup All(queue[m], acc[m])
  BY DEF LoadInv, Kept, Keeps
<1>2. WorkedOnce
  <2> SUFFICES ASSUME NEW m \in Machines, NEW x \in Places(m)
               PROVE  /\ \A y \in Places(m) : Waits(m, x) = Waits(m, y) => x = y
                      /\ Waits(m, x) \notin popped[m]
                      /\ Waits(m, x) = Initial \/ Owner(Waits(m, x)) = m
    BY DEF WorkedOnce
  <2>1. Waits(m, x) \in All(queue[m], acc[m])
    BY Placed
  <2>2. \A y \in Places(m) : Waits(m, x) = Waits(m, y) => x = y
    BY WaitsOnce DEF LoadInv
  <2> QED BY <1>1, <2>1, <2>2
<1>3. NoneLost
  <2> SUFFICES ASSUME NEW m \in Machines, NEW q \in seen[m], q \notin popped[m]
               PROVE  q \in {Waits(m, x) : x \in Places(m)}
    BY DEF NoneLost
  <2>1. q \in All(queue[m], acc[m])
    BY <1>1
  <2> QED BY <2>1, Placed
<1>4. ASSUME Workers # {}, Roomy PROVE NotEarly
  <2> SUFFICES ASSUME NEW m \in Machines, done[m]
               PROVE  \E n \in Machines : \E p \in popped[n] : Final \in ToSet(Successors(p))
    BY DEF NotEarly
  <2>1. Stops(m)
    BY DEF Stops
  <2>2. Announced
    BY <1>4, <2>1 DEF LoadInv, InTime
  <2> QED BY <2>2 DEF Announced, Succ
<1> QED BY <1>2, <1>3, <1>4

(* No package is worked on twice: one that waits, in a chunk of the queue   *)
(* or in one of an accessor, waits once, at its owner, and no worker took   *)
(* it before (process and expand of workerLoad.hpp, QueueAccessor).         *)
THEOREM OnlyOnce == ASSUME LoadConstants PROVE Spec => []WorkedOnce
<1>1. Init => LoadInv
  BY InitLoad
<1>2. LoadInv /\ [Next]_vars => LoadInv'
  BY LoadNext, StutterLoad
<1>3. LoadInv => WorkedOnce
  BY LoadParts
<1> QED BY <1>1, <1>2, <1>3, PTL DEF Spec

(* No package gets lost between the threads of a machine: one it has seen   *)
(* waits there or was taken by a worker.                                    *)
THEOREM NeverLost == ASSUME LoadConstants PROVE Spec => []NoneLost
<1>1. Init => LoadInv
  BY InitLoad
<1>2. LoadInv /\ [Next]_vars => LoadInv'
  BY LoadNext, StutterLoad
<1>3. LoadInv => NoneLost
  BY LoadParts
<1> QED BY <1>1, <1>2, <1>3, PTL DEF Spec

(* No machine ends the computation before some worker generated the last    *)
(* package (the dispatchers and Workers::run), if machines have workers     *)
(* and, when they send on lines of their own, these have room for the       *)
(* messages of one exploration: a worker whose send times out ends early.   *)
THEOREM InGoodTime ==
  ASSUME LoadConstants, Workers # {}, Roomy
  PROVE  Spec => []NotEarly
<1>1. Init => LoadInv
  BY InitLoad
<1>2. LoadInv /\ [Next]_vars => LoadInv'
  BY LoadNext, StutterLoad
<1>3. LoadInv => NotEarly
  BY LoadParts
<1> QED BY <1>1, <1>2, <1>3, PTL DEF Spec

(* The same of the benchmark over MPI (mpi.cpp): nothing is lost, nothing   *)
(* is worked on twice, and with workers nobody ends early.                  *)
THEOREM MpiInGoodTime ==
  ASSUME LoadConstants, Workers # {}, Roomy
  PROVE  MpiSpec => [](WorkedOnce /\ NoneLost /\ NotEarly)
<1>1. MpiInit => MpiLoadInv
  BY MpiInitLoad
<1>2. MpiLoadInv /\ [MpiNext]_mpivars => MpiLoadInv'
  BY MpiLoadNext, MpiStutterLoad
<1>3. MpiLoadInv => WorkedOnce /\ NoneLost /\ NotEarly
  BY LoadParts DEF MpiLoadInv
<1> QED BY <1>1, <1>2, <1>3, PTL DEF MpiSpec
=============================================================================
