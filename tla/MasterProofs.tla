---------------------------- MODULE MasterProofs ----------------------------
(***************************************************************************)
(* A machine serves one client at a time.  The ends at which a machine     *)
(* holds a line of a client are its masters; a connection that waits in    *)
(* the backlog is none yet.  A free machine has no master, because its     *)
(* main process keeps nothing but the backlog and a dead executive keeps   *)
(* nothing at all, so Enslave makes the first one; no other handler makes  *)
(* one.                                                                    *)
(***************************************************************************)
EXTENDS SessionProofs

Machine(h) == {Main(h), Exec(h)}
Masters(n, h) ==
  {e \in End : /\ n.hold[e] \cap Machine(h) # {}
               /\ e \notin Queue(n, h)
               /\ n.hold[Other(e)] \cap Clients # {}}
Bare(n, q) == \A e \in End : q \notin n.hold[e]

(* Between two rounds a main process holds what it uses and the backlog.    *)
Kempt(S, h) ==
  LET d == S.d[Main(h)]
  IN d.mode = "dead" \/ (d.wait.on = "no" /\ d.todo = Idle) =>
       \A e \in End : Main(h) \in S.n.hold[e] =>
         e \in Queue(S.n, h) \/ (d.mode # "dead" /\ e \in Uses(d))

(* A: the ends of clients with the machine each of them leads to.           *)
Leads(n, e, h) == n.hold[Other(e)] \subseteq Machine(h)
Staid(n, A) == \A a \in A : a[1] \in End /\ n.hold[a[1]] \cap Clients # {} /\ Leads(n, a[1], a[2])

(* p is in the middle of a step, in which it took the connections x; the    *)
(* masters of the machine h are among W[h].                                 *)
Mastered(S, p, x, W, A) ==
  /\ S \in Situation
  /\ \A q \in Daemons : /\ S.d[q].todo[EarSlot] = NoEnd
                        /\ (q = p \/ q[2] # "main") /\ S.d[q].mode = "dead" => Bare(S.n, q)
  /\ \A h \in Hosts : /\ Masters(S.n, h) \ x \subseteq W[h]
                      /\ \A e \in Queue(S.n, h) : Exec(h) \notin S.n.hold[e]
                      /\ Main(h) # p => Kempt(S, h)
  /\ \A e \in x : e \in End /\ S.n.hold[e] \subseteq {p}
  /\ Staid(S.n, A)

LEMMA MachineFacts ==
  ASSUME NEW p \in Daemons
  PROVE  /\ p[1] \in Hosts /\ p \in Machine(p[1]) /\ Exec(p[1]) \in Machine(p[1])
         /\ \A h \in Hosts : /\ p \in Machine(h) => h = p[1]
                             /\ Exec(p[1]) \in Machine(h) => h = p[1]
                             /\ Exec(p[1]) # Main(h) /\ Machine(h) \subseteq Daemons
                             /\ Machine(h) \cap Clients = {}
                             /\ p = Main(h) => p[2] = "main" /\ h = p[1]
<1>1. p[1] \in Hosts /\ (p = Main(p[1]) \/ p = Exec(p[1]))
  BY MainOrExec, ProcsFacts
<1>2. \A h \in Hosts : /\ Main(h) \in Daemons /\ Exec(h) \in Daemons
                       /\ Main(h)[1] = h /\ Exec(h)[1] = h /\ Main(h)[2] = "main" /\ Exec(h)[2] = "exec"
  BY DEF Daemons, Main, Exec
<1>3. Daemons \cap Clients = {}
  BY WireAssumption DEF Daemons
<1> QED BY <1>1, <1>2, <1>3 DEF Machine

(* What neither connects nor forks makes no master.                         *)
LEMMA MasteredSlim ==
  ASSUME NEW S, NEW T, NEW p \in Daemons, NEW x, NEW W, NEW A, Mastered(S, p, x, W, A), Slim(S, T, p)
  PROVE  Mastered(T, p, x, W, A)
<1>1. /\ S \in Situation /\ T \in Situation
      /\ \A q \in Daemons \ {p} : T.d[q] = S.d[q] \/ (q = Exec(p[1]) /\ T.d[q] = Dead)
      /\ T.d[p].todo \in {S.d[p].todo, Idle}
      /\ \A e \in End : T.n.hold[e] \subseteq S.n.hold[e]
  BY DEF Slim, Loses
<1>2. EarSlot \in Slot /\ Idle[EarSlot] = NoEnd /\ Dead.todo = Idle
  BY DEF Slot, Idle, Dead
<1>3. ASSUME NEW q \in Daemons PROVE T.d[q].todo[EarSlot] = NoEnd
  <2>1. S.d[q].todo[EarSlot] = NoEnd
    BY DEF Mastered
  <2>2. T.d[q].todo \in {S.d[q].todo, Idle}
    BY <1>1, <1>2
  <2> QED BY <1>2, <2>1, <2>2
<1>4. ASSUME NEW q \in Daemons, q = p \/ q[2] # "main", T.d[q].mode = "dead" PROVE Bare(T.n, q)
  <2>1. S.d[q].mode = "dead" => Bare(S.n, q)
    BY <1>4 DEF Mastered
  <2>2. q \in {p, Exec(p[1])} => S.d[q].mode = "dead" \/ Bare(T.n, q)
    BY <1>4 DEF Slim, Loses, Bare
  <2>3. q \notin {p, Exec(p[1])} => S.d[q].mode = "dead"
    BY <1>1, <1>4
  <2> QED BY <1>1, <2>1, <2>2, <2>3 DEF Bare
<1>5. ASSUME NEW h \in Hosts PROVE Queue(T.n, h) \subseteq Queue(S.n, h)
  BY QueueLess DEF Slim
<1>6. ASSUME NEW h \in Hosts PROVE Masters(T.n, h) \subseteq Masters(S.n, h)
  <2> SUFFICES ASSUME NEW e \in Masters(T.n, h) PROVE e \in Masters(S.n, h)
    OBVIOUS
  <2>1. /\ e \in End /\ T.n.hold[e] \cap Machine(h) # {} /\ e \notin Queue(T.n, h)
        /\ T.n.hold[Other(e)] \cap Clients # {}
    BY DEF Masters
  <2>2. Other(e) \in End
    BY <2>1, OtherIsEnd
  <2>3. S.n.hold[e] \cap Machine(h) # {} /\ S.n.hold[Other(e)] \cap Clients # {}
    BY <1>1, <2>1, <2>2
  <2>4. e \notin Queue(S.n, h)
    <3>1. CASE T.n.ear[h] = S.n.ear[h]
      BY <2>1, <3>1 DEF Queue
    <3>2. CASE T.n.ear[h] # S.n.ear[h]
      <4>1. p = Main(h) /\ Main(h) \notin T.n.hold[e]
        BY <2>1, <3>2 DEF Slim
      <4>2. Exec(h) \in S.n.hold[e]
        BY <1>1, <2>1, <4>1 DEF Machine
      <4> QED BY <4>2 DEF Mastered
    <3> QED BY <3>1, <3>2
  <2> QED BY <2>1, <2>3, <2>4 DEF Masters
<1>7. ASSUME NEW h \in Hosts, Main(h) # p PROVE Kempt(T, h)
  <2>1. Kempt(S, h)
    BY <1>7 DEF Mastered
  <2>2. Main(h) \in Daemons /\ Main(h) # Exec(p[1])
    BY MachineFacts DEF Machine
  <2>3. T.d[Main(h)] = S.d[Main(h)]
    BY <1>1, <1>7, <2>2
  <2>4. Queue(T.n, h) = Queue(S.n, h)
    BY <1>7 DEF Slim, Queue
  <2> QED BY <1>1, <2>1, <2>3, <2>4 DEF Kempt
<1>8. Staid(T.n, A)
  <2> SUFFICES ASSUME NEW a \in A
               PROVE  a[1] \in End /\ T.n.hold[a[1]] \cap Clients # {} /\ Leads(T.n, a[1], a[2])
    BY DEF Staid
  <2>1. a[1] \in End /\ S.n.hold[a[1]] \cap Clients # {} /\ Leads(S.n, a[1], a[2])
    BY DEF Mastered, Staid
  <2>2. Other(a[1]) \in End
    BY <2>1, OtherIsEnd
  <2>3. \A q \in Clients : q \notin {p, Exec(p[1])}
    BY MachineFacts
  <2>4. \A q \in S.n.hold[a[1]] : q \in T.n.hold[a[1]] \/ q \in {p, Exec(p[1])}
    BY <2>1 DEF Slim, Loses
  <2> QED BY <1>1, <2>1, <2>2, <2>3, <2>4 DEF Leads
<1>9. \A e \in x : e \in End /\ T.n.hold[e] \subseteq {p}
  BY <1>1 DEF Mastered
<1>10. \A h \in Hosts : /\ Masters(T.n, h) \ x \subseteq W[h]
                        /\ \A e \in Queue(T.n, h) : Exec(h) \notin T.n.hold[e]
  <2> SUFFICES ASSUME NEW h \in Hosts
               PROVE  /\ Masters(T.n, h) \ x \subseteq W[h]
                      /\ \A e \in Queue(T.n, h) : Exec(h) \notin T.n.hold[e]
    OBVIOUS
  <2>1. /\ Masters(S.n, h) \ x \subseteq W[h]
        /\ \A e \in Queue(S.n, h) : Exec(h) \notin S.n.hold[e]
    BY DEF Mastered
  <2>2. Queue(T.n, h) \subseteq End
    BY <1>1, Components, QueueEnds
  <2> QED BY <1>1, <1>5, <1>6, <2>1, <2>2
<1> QED BY <1>1, <1>3, <1>4, <1>7, <1>8, <1>9, <1>10 DEF Mastered

(* A new connection waits in a backlog, where it is no master.              *)
LEMMA MastersPlugged ==
  ASSUME NEW n \in NetType, FreeLines(n) # {}, NEW l, l = NewLine(n), NEW who \in SUBSET Procs,
         NEW g \in Hosts, NEW o \in NetType, NEW m, Plugged(n, o, l, who, g, m), NEW h \in Hosts,
         Exec(h) \notin who \/ who \cap Clients = {}, Main(h) \notin who \/ who \cap Clients = {}
  PROVE  /\ Masters(o, h) \subseteq Masters(n, h)
         /\ Queue(o, h) = Queue(n, h) \cup (IF h = g THEN {<<l, "far">>} ELSE {})
<1> DEFINE near == <<l, "near">>
           far == <<l, "far">>
<1>1. /\ near \in End /\ far \in End /\ near # far
      /\ Other(near) = far /\ Other(far) = near
      /\ \A x \in End : x # near /\ x # far => Other(x) # near /\ Other(x) # far
  BY FreeLineEnds
<1>2. /\ \A x \in End : x # near /\ x # far => o.hold[x] = n.hold[x]
      /\ o.hold[near] = who /\ o.hold[far] = {Main(g)}
      /\ o.ear[g] = Append(n.ear[g], far)
      /\ \A i \in Hosts : i # g => o.ear[i] = n.ear[i]
  BY DEF Plugged
<1> HIDE DEF near, far
<1>3. Queue(o, g) = Queue(n, g) \cup {far}
  <2> DEFINE s == n.ear[g]
             t == Append(s, far)
  <2>1. s \in Seq(End) /\ o.ear[g] = t
    BY <1>2 DEF NetType
  <2> HIDE DEF s
  <2>2. {t[i] : i \in DOMAIN t} = {s[i] : i \in DOMAIN s} \cup {far}
    BY <1>1, <2>1, QueueMore
  <2> QED BY <2>1, <2>2 DEF Queue, s
<1>4. \A i \in Hosts : i # g => Queue(o, i) = Queue(n, i)
  BY <1>2 DEF Queue
<1>5. Main(g) \notin Clients
  BY ClientsApart
<1>6. ASSUME NEW e \in Masters(o, h) PROVE e \in Masters(n, h)
  <2>1. /\ e \in End /\ o.hold[e] \cap Machine(h) # {} /\ e \notin Queue(o, h)
        /\ o.hold[Other(e)] \cap Clients # {} /\ Other(e) \in End
    BY <1>6, OtherIsEnd DEF Masters
  <2>2. e # near
    BY <1>1, <1>2, <1>5, <2>1
  <2>3. e # far
    <3> SUFFICES ASSUME e = far PROVE FALSE
      OBVIOUS
    <3>1. Main(g) \in Machine(h) /\ who \cap Clients # {}
      BY <1>1, <1>2, <2>1
    <3>2. h = g
      BY <3>1 DEF Machine, Main, Exec
    <3> QED BY <1>3, <2>1, <3>2
  <2>4. o.hold[e] = n.hold[e] /\ o.hold[Other(e)] = n.hold[Other(e)]
    BY <1>1, <1>2, <2>1, <2>2, <2>3
  <2>5. e \notin Queue(n, h)
    BY <1>3, <1>4, <2>1
  <2> QED BY <2>1, <2>4, <2>5 DEF Masters
<1> QED BY <1>3, <1>4, <1>6 DEF far

(* A handler that connects to another machine makes no master of it.        *)
LEMMA MasteredConnect ==
  ASSUME NEW S, NEW p \in Daemons, NEW W, NEW A, Mastered(S, p, {}, W, A), FreeLines(S.n) # {},
         \A i \in Hosts : \A e \in Queue(S.n, i) : e[2] = "far",
         NEW g \in Hosts, NEW m \in Message, NEW d \in DaemonType,
         d.todo = S.d[p].todo, d.mode # "dead",
         NEW T \in Situation, T.d = [S.d EXCEPT ![p] = d],
         T.n = Connect(S.n, NewLine(S.n), {p}, g, m)
  PROVE  Mastered(T, p, {}, W, A)
<1> DEFINE l == NewLine(S.n)
           near == <<l, "near">>
           far == <<l, "far">>
<1>1. /\ S \in Situation /\ S.n \in NetType /\ T.n \in NetType
  BY Components DEF Mastered
<1>2. /\ near \in End /\ far \in End /\ near # far /\ far[2] = "far" /\ near[2] = "near"
      /\ Other(near) = far /\ Other(far) = near
      /\ S.n.hold[near] = {} /\ S.n.hold[far] = {}
      /\ \A x \in End : x # near /\ x # far => Other(x) # near /\ Other(x) # far
  BY <1>1, FreeLineEnds
<1>3. {p} \in SUBSET Procs /\ {p} \cap Clients = {}
  <2>1. p \in Procs /\ p \notin Clients
    BY ClientsApart, ProcsFacts, MachineFacts
  <2> QED BY <2>1
<1>4. Plugged(S.n, T.n, l, {p}, g, m)
  BY <1>1, <1>3, ConnectFacts
<1>5. \A h \in Hosts : /\ Masters(T.n, h) \subseteq Masters(S.n, h)
                       /\ Queue(T.n, h) = Queue(S.n, h) \cup (IF h = g THEN {far} ELSE {})
  <2>1. l = NewLine(S.n)
    OBVIOUS
  <2> HIDE DEF l
  <2> SUFFICES ASSUME NEW h \in Hosts
               PROVE /\ Masters(T.n, h) \subseteq Masters(S.n, h)
                     /\ Queue(T.n, h) = Queue(S.n, h) \cup (IF h = g THEN {far} ELSE {})
    OBVIOUS
  <2> DEFINE who == {p}
             o == T.n
             n == S.n
  <2>2. /\ n \in NetType /\ o \in NetType /\ FreeLines(n) # {} /\ l = NewLine(n)
        /\ who \in SUBSET Procs /\ who \cap Clients = {} /\ Plugged(n, o, l, who, g, m)
    BY <1>1, <1>3, <1>4, <2>1
  <2> HIDE DEF who, o, n
  <2>3. /\ Masters(o, h) \subseteq Masters(n, h)
        /\ Queue(o, h) = Queue(n, h) \cup (IF h = g THEN {<<l, "far">>} ELSE {})
    BY <2>2, MastersPlugged, SMTT(60)
  <2> QED BY <2>3 DEF o, n
<1>6. /\ \A x \in End : x # near /\ x # far => T.n.hold[x] = S.n.hold[x]
      /\ T.n.hold[near] = {p} /\ T.n.hold[far] = {Main(g)}
  BY <1>4 DEF Plugged
<1> HIDE DEF l, near, far
<1>7. T.d[p] = d /\ \A q \in Daemons : q # p => T.d[q] = S.d[q]
  BY <1>1, Components DEF Mastered
<1>8. \A q \in Daemons : T.d[q].todo[EarSlot] = NoEnd
  BY <1>7 DEF Mastered
<1>9. ASSUME NEW q \in Daemons, q = p \/ q[2] # "main", T.d[q].mode = "dead" PROVE Bare(T.n, q)
  <2>1. q # p /\ S.d[q].mode = "dead"
    BY <1>7, <1>9
  <2>2. Bare(S.n, q)
    BY <1>9, <2>1 DEF Mastered
  <2>3. q # Main(g)
    BY <1>9, <2>1 DEF Main
  <2>4. ASSUME NEW e \in End PROVE q \notin T.n.hold[e]
    <3>1. CASE e = near
      BY <1>6, <2>1, <3>1
    <3>2. CASE e = far
      BY <1>6, <2>3, <3>2
    <3> QED BY <1>6, <2>2, <3>1, <3>2 DEF Bare
  <2> QED BY <2>4 DEF Bare
<1>10. ASSUME NEW h \in Hosts, NEW e \in Queue(T.n, h) PROVE Exec(h) \notin T.n.hold[e]
  <2>1. CASE e = far
    BY <1>6, <2>1 DEF Main, Exec
  <2>2. CASE e # far
    <3>1. e \in Queue(S.n, h)
      BY <1>5, <1>10, <2>2
    <3>2. e \in End /\ e # near /\ Exec(h) \notin S.n.hold[e]
      BY <1>1, <1>2, <3>1, QueueEnds DEF Mastered
    <3> QED BY <1>6, <2>2, <3>2
  <2> QED BY <2>1, <2>2
<1>11. ASSUME NEW h \in Hosts, Main(h) # p PROVE Kempt(T, h)
  <2>1. Kempt(S, h) /\ T.d[Main(h)] = S.d[Main(h)]
    BY <1>7, <1>11, MachineFacts DEF Mastered, Machine
  <2>2. ASSUME NEW e \in End, Main(h) \in T.n.hold[e]
        PROVE  Main(h) \in S.n.hold[e] \/ e \in Queue(T.n, h)
    <3>1. e # near
      BY <1>6, <1>11, <2>2
    <3>2. e = far => h = g
      <4>1. e = far => Main(h) = Main(g)
        BY <1>6, <2>2
      <4> QED BY <4>1 DEF Main
    <3> QED BY <1>5, <1>6, <2>2, <3>1, <3>2
  <2>3. Queue(S.n, h) \subseteq Queue(T.n, h)
    BY <1>5
  <2> QED BY <2>1, <2>2, <2>3 DEF Kempt
<1>12. Staid(T.n, A)
  <2> SUFFICES ASSUME NEW a \in A
               PROVE  a[1] \in End /\ T.n.hold[a[1]] \cap Clients # {} /\ Leads(T.n, a[1], a[2])
    BY DEF Staid
  <2>1. a[1] \in End /\ S.n.hold[a[1]] \cap Clients # {} /\ Leads(S.n, a[1], a[2])
    BY DEF Mastered, Staid
  <2>2. a[1] # near /\ a[1] # far /\ Other(a[1]) \in End
    BY <1>2, <2>1, OtherIsEnd
  <2>3. T.n.hold[a[1]] = S.n.hold[a[1]] /\ T.n.hold[Other(a[1])] = S.n.hold[Other(a[1])]
    BY <1>2, <1>6, <2>1, <2>2
  <2> QED BY <2>1, <2>3 DEF Leads
<1>13. \A h \in Hosts : Masters(T.n, h) \ {} \subseteq W[h]
  BY <1>5 DEF Mastered
<1> QED BY <1>8, <1>9, <1>10, <1>11, <1>12, <1>13 DEF Mastered

-----------------------------------------------------------------------------
(* What a handler of p that is alive starts from: a line is free, and what  *)
(* waits in a backlog is held by the process that listens.                  *)
Standing(S, p, W, A) ==
  /\ Mastered(S, p, {}, W, A)
  /\ FreeLines(S.n) # {}
  /\ \A h \in Hosts : \A e \in Queue(S.n, h) : e[2] = "far" /\ S.n.hold[e] = {Main(h)}
  /\ S.d[p].mode # "dead"

LEMMA StandingSlim ==
  ASSUME NEW S, NEW T, NEW p \in Daemons, NEW W, NEW A, Standing(S, p, W, A), Slim(S, T, p),
         T.n.hold = S.n.hold, T.n.ear = S.n.ear, T.d[p].mode = S.d[p].mode
  PROVE  Standing(T, p, W, A)
<1>1. Mastered(T, p, {}, W, A)
  BY MasteredSlim DEF Standing
<1>2. FreeLines(T.n) = FreeLines(S.n)
  BY FreeLinesByHold
<1>3. \A h \in Hosts : Queue(T.n, h) = Queue(S.n, h)
  BY DEF Queue
<1> QED BY <1>1, <1>2, <1>3 DEF Standing

LEMMA StandingConsume ==
  ASSUME NEW S, NEW p \in Daemons, NEW W, NEW A, Standing(S, p, W, A), NEW e, NEW T, T = Consume(S, e)
  PROVE  Standing(T, p, W, A) /\ Slim(S, T, p) /\ T.d = S.d /\ T \in Situation
<1>1. S \in Situation
  BY DEF Standing, Mastered
<1>2. Slim(S, T, p) /\ T.d = S.d /\ T \in Situation
  BY <1>1, SlimConsume, ConsumeType
<1>3. T.n.hold = S.n.hold /\ T.n.ear = S.n.ear
  <2>1. T.n = Receive(S.n, e)
    BY <1>1, Components DEF Consume, Situation
  <2> QED BY <1>1, <2>1, Components, ReceiveType
<1> QED BY <1>2, <1>3, StandingSlim

LEMMA SlimSet ==
  ASSUME NEW S \in Situation, NEW p \in Daemons, NEW d \in DaemonType,
         d.todo \in {S.d[p].todo, Idle}, d.mode = S.d[p].mode, NEW T, T = [S EXCEPT !.d[p] = d]
  PROVE  Slim(S, T, p) /\ T \in Situation /\ T.n = S.n /\ T.d[p] = d
<1>1. T \in Situation /\ T.n = S.n /\ T.d = [S.d EXCEPT ![p] = d] /\ T.d[p] = d
  BY SetProc, Components DEF Situation
<1>2. T.n.hold = S.n.hold /\ T.n.ear = S.n.ear
  BY <1>1
<1> QED BY <1>1, <1>2, SlimRecord

LEMMA WakeSet ==
  ASSUME NEW S, NEW p \in Daemons, NEW W, NEW A, Standing(S, p, W, A), NEW T, T = Wake(S, p)
  PROVE  Standing(T, p, W, A) /\ Slim(S, T, p) /\ T \in Situation /\ T.d[p] = Awake(S.d[p])
         /\ T.d[p].todo = S.d[p].todo /\ T.d[p].mode = S.d[p].mode /\ T.d[p] \in DaemonType
<1> DEFINE U == Consume(S, S.d[p].wait.end)
           d == Awake(S.d[p])
<1>1. Standing(U, p, W, A) /\ Slim(S, U, p) /\ U.d = S.d /\ U \in Situation
  BY StandingConsume
<1> HIDE DEF U
<1>2. S \in Situation /\ S.d[p] \in DaemonType /\ U.d[p] = S.d[p]
  BY <1>1, Components DEF Slim
<1>3. d \in DaemonType /\ d.todo = U.d[p].todo /\ d.mode = U.d[p].mode
  BY <1>2, FieldTypes DEF Awake, DaemonType
<1>4. T = [U EXCEPT !.d[p] = d]
  BY <1>1, <1>2 DEF Wake, Awake, U, Situation
<1> HIDE DEF d
<1>5. Slim(U, T, p) /\ T \in Situation /\ T.n = U.n /\ T.d[p] = d
  <2>1. /\ d.todo \in {U.d[p].todo, Idle} /\ (d.mode = "dead" => U.d[p].mode = "dead")
        /\ U \in Situation /\ d \in DaemonType
    BY <1>1, <1>3
  <2>2. T \in Situation
    BY <1>4, <2>1, SetProc
  <2>3. T.n = U.n /\ T.d = [U.d EXCEPT ![p] = d] /\ T.d[p] = d
    BY <1>4, <2>1, Components DEF Situation
  <2>4. T.n.hold = U.n.hold /\ T.n.ear = U.n.ear
    BY <2>3
  <2>5. Slim(U, T, p)
    BY <2>1, <2>2, <2>3, <2>4, SlimRecord
  <2> QED BY <2>2, <2>3, <2>5
<1>6. Slim(S, T, p)
  BY <1>1, <1>5, SlimTrans
<1>7. Standing(T, p, W, A)
  BY <1>1, <1>3, <1>5, StandingSlim
<1> QED BY <1>2, <1>3, <1>5, <1>6, <1>7 DEF d

-----------------------------------------------------------------------------
(* The handlers that connect.                                               *)
LEMMA ConnectLineMastered ==
  ASSUME NEW S, NEW p \in Daemons, NEW W, NEW A, Standing(S, p, W, A), NEW k \in Chan, NEW w \in WaitType
  PROVE  Mastered(ConnectLine(S, p, k, w), p, {}, W, A)
<1> DEFINE T == ConnectLine(S, p, k, w)
           l == NewLine(S.n)
           m == LinkMsg(S.d[p], k)
           v == [w EXCEPT !.on = "line", !.chan = k, !.end = <<l, "near">>]
           d == [S.d[p] EXCEPT !.wait = v]
<1>1. /\ S \in Situation /\ S.n \in NetType /\ S.d \in [Daemons -> DaemonType] /\ S.d[p] \in DaemonType
      /\ FreeLines(S.n) # {} /\ Mastered(S, p, {}, W, A) /\ S.d[p].mode # "dead"
      /\ \A i \in Hosts : \A e \in Queue(S.n, i) : e[2] = "far"
  BY Components DEF Standing, Mastered
<1>2. T \in Situation
  BY <1>1, ConnectLineType
<1>3. CASE w.host \notin S.n.listen
  <2>1. T = Raise(S, p)
    BY <1>3 DEF ConnectLine
  <2> QED BY <1>1, <2>1, SlimRaise, MasteredSlim
<1>4. CASE w.host \in S.n.listen
  <2>1. w.host \in Hosts
    BY <1>1, <1>4 DEF NetType
  <2>2. m \in Message
    BY <1>1, LinkMsgFacts
  <2>3. v \in WaitType
    <3>1. <<l, "near">> \in Ends0
      BY <1>1, FreeLineEnds DEF Ends0
    <3> HIDE DEF l
    <3> QED BY <3>1 DEF WaitType
  <2>4. T = [d |-> [S.d EXCEPT ![p].wait = v], n |-> Connect(S.n, l, {p}, w.host, m)]
    BY <1>4 DEF ConnectLine, LinkMsg
  <2>5. [S.d EXCEPT ![p].wait = v] = [S.d EXCEPT ![p] = d]
    BY <1>1
  <2> HIDE DEF v
  <2>6. d \in DaemonType /\ d.todo = S.d[p].todo /\ d.mode # "dead"
    BY <1>1, <2>3, WaitFields
  <2> HIDE DEF d, m, T
  <2>7. T.d = [S.d EXCEPT ![p] = d] /\ T.n = Connect(S.n, NewLine(S.n), {p}, w.host, m)
    BY <2>4, <2>5
  <2>8. Mastered(T, p, {}, W, A)
    BY <1>1, <1>2, <2>1, <2>2, <2>6, <2>7, MasteredConnect
  <2> QED BY <2>8 DEF T
<1> QED BY <1>3, <1>4

LEMMA ConnectingMastered ==
  ASSUME NEW S, NEW p \in Daemons, NEW W, NEW A, Standing(S, p, W, A), NEW e \in Ends0, NEW m \in Message
  PROVE  Mastered(Connecting(S, p, e, m), p, {}, W, A)
<1> DEFINE T == Consume(S, e)
           w == [NoWait EXCEPT !.reply = e, !.host = m.host, !.arg = m.arg]
<1>1. w \in WaitType
  BY ConstantsType, MessageWith DEF WaitType
<1>2. Connecting(S, p, e, m) = Refuse(T, p, e) \/ Connecting(S, p, e, m) = ConnectLine(T, p, Master, w)
  BY DEF Connecting
<1>3. Standing(T, p, W, A) /\ T \in Situation
  BY StandingConsume
<1> HIDE DEF T, w
<1>4. Mastered(ConnectLine(T, p, Master, w), p, {}, W, A)
  BY <1>1, <1>3, MasterIsChan, ConnectLineMastered
<1>5. Mastered(Refuse(T, p, e), p, {}, W, A)
  BY <1>3, SlimRefuse, MasteredSlim DEF Standing
<1> QED BY <1>2, <1>4, <1>5

LEMMA InsertSame ==
  ASSUME NEW d \in DaemonType, NEW r, NEW lines \in [Chan -> Ends0], NEW i, i = Insert(d, r, lines)
  PROVE  i \in DaemonType /\ i.todo = d.todo /\ i.mode = d.mode
<1>1. i \in DaemonType
  BY InsertType
<1>2. i = d \/ \E x : i = [d EXCEPT !.line = x]
  BY Zenon DEF Insert
<1> QED BY <1>1, <1>2 DEF DaemonType

LEMMA ConnectedMastered ==
  ASSUME NEW S, NEW p \in Daemons, NEW W, NEW A, Standing(S, p, W, A)
  PROVE  Mastered(Connected(S, p), p, {}, W, A)
<1> DEFINE w == S.d[p].wait
           answer == Peek(S.n, w.end).tag
           lines == [w.lines EXCEPT ![w.chan] = w.end]
           T == Wake(S, p)
           i == Insert(T.d[p], w.arg, lines)
           U == [T EXCEPT !.d[p] = i]
           v == [w EXCEPT !.lines = lines]
<1>1. S \in Situation /\ w \in WaitType
  BY Components DEF DaemonType, Standing, Mastered
<1>2. lines \in [Chan -> Ends0]
  <2> HIDE DEF w
  <2> QED BY <1>1 DEF WaitType
<1>3. v \in WaitType
  <2> HIDE DEF w, lines
  <2> QED BY <1>1, <1>2 DEF WaitType
<1>4. Standing(T, p, W, A) /\ T \in Situation /\ T.d[p] \in DaemonType /\ Mastered(T, p, {}, W, A)
  BY WakeSet DEF Standing
<1>5. Connected(S, p) =
        CASE answer = "OK" /\ w.chan + 1 \in Chan -> ConnectLine(T, p, w.chan + 1, v)
          [] answer = "OK" /\ w.chan + 1 \notin Chan -> Answer(U, p, w.reply, "OK", U.d[p])
          [] answer = "Refuse" -> Refuse(T, p, w.reply)
          [] OTHER -> Raise(T, p)
  BY DEF Connected, w, lines, T, U, v, Wake
<1> HIDE DEF w, lines, T, v
<1>6. i \in DaemonType /\ i.todo = T.d[p].todo /\ i.mode = T.d[p].mode
  BY <1>2, <1>4, InsertSame
<1> HIDE DEF i
<1>7. Slim(T, U, p) /\ U \in Situation /\ U.d[p] \in DaemonType
  BY <1>4, <1>6, SlimSet
<1> HIDE DEF U
<1>8. w.chan + 1 \in Chan => Mastered(ConnectLine(T, p, w.chan + 1, v), p, {}, W, A)
  BY <1>3, <1>4, ConnectLineMastered
<1>9. Slim(U, Answer(U, p, w.reply, "OK", U.d[p]), p)
  BY <1>7, SlimAnswer, CodeFacts
<1>10. Slim(T, Answer(U, p, w.reply, "OK", U.d[p]), p)
  BY <1>7, <1>9, SlimTrans
<1>11. Slim(T, Refuse(T, p, w.reply), p) /\ Slim(T, Raise(T, p), p)
  BY <1>4, SlimRefuse, SlimRaise
<1>12. /\ Mastered(Answer(U, p, w.reply, "OK", U.d[p]), p, {}, W, A)
       /\ Mastered(Refuse(T, p, w.reply), p, {}, W, A) /\ Mastered(Raise(T, p), p, {}, W, A)
  BY <1>4, <1>10, <1>11, MasteredSlim
<1> HIDE DEF answer
<1> QED BY <1>5, <1>8, <1>12

(* The fork makes no master: the executive gets a copy of what its parent   *)
(* holds but the backlog, and the ends of the rope are nobody else's.       *)
LEMMA MasteredFork ==
  ASSUME NEW S, NEW p \in Daemons, NEW W, NEW A, Standing(S, p, W, A), p = Main(p[1]),
         NEW l, l = NewLine(S.n), NEW q, q = Exec(p[1]),
         NEW U \in Situation, Forked(S.n, U.n, p, q, l, Backlog(S.n, p)),
         \A r \in {p, q} : U.d[r].todo = S.d[p].todo /\ U.d[r].mode # "dead",
         \A r \in Daemons : r # p /\ r # q => U.d[r] = S.d[r]
  PROVE  Mastered(U, p, {}, W, A)
<1> DEFINE near == <<l, "near">>
           far == <<l, "far">>
<1>1. S \in Situation /\ S.n \in NetType /\ U.n \in NetType /\ Mastered(S, p, {}, W, A)
  BY Components DEF Standing, Mastered
<1>2. /\ near \in End /\ far \in End
      /\ Other(near) = far /\ Other(far) = near
      /\ S.n.hold[near] = {} /\ S.n.hold[far] = {}
      /\ \A y \in End : y # near /\ y # far => Other(y) # near /\ Other(y) # far
  BY <1>1, FreeLineEnds DEF Standing
<1>3. Backlog(S.n, p) = Queue(S.n, p[1])
  BY MachineFacts DEF Backlog, Queue
<1>4. /\ \A y \in End : y # near /\ y # far =>
           U.n.hold[y] = IF p \in S.n.hold[y] /\ y \notin Queue(S.n, p[1])
                         THEN S.n.hold[y] \cup {q} ELSE S.n.hold[y]
      /\ U.n.hold[near] = {p} /\ U.n.hold[far] = {q}
      /\ U.n.ear = S.n.ear
  BY <1>3 DEF Forked
<1> HIDE DEF near, far
<1>5. \A h \in Hosts : Queue(U.n, h) = Queue(S.n, h) /\ Queue(S.n, h) \subseteq End
  BY <1>1, <1>4, QueueEnds DEF Queue
<1>6. /\ p[1] \in Hosts /\ q \in Daemons /\ p # q /\ p \notin Clients /\ q \notin Clients
      /\ \A h \in Hosts : /\ p \in Machine(h) => h = p[1]
                          /\ q \in Machine(h) => h = p[1]
                          /\ Main(h) # q /\ Main(h) \in Daemons
                          /\ Exec(h) = q => h = p[1]
      /\ p \in Machine(p[1]) /\ q \in Machine(p[1]) /\ p[2] = "main"
  BY MachineFacts, ClientsApart, ProcsFacts DEF Main, Exec, Machine
<1>7. ASSUME NEW h \in Hosts, NEW e \in Queue(S.n, h)
      PROVE  U.n.hold[e] = S.n.hold[e] /\ S.n.hold[e] = {Main(h)} /\ e # near /\ e # far
  <2>1. S.n.hold[e] = {Main(h)} /\ e \in End
    BY <1>5, <1>7 DEF Standing
  <2>2. e # near /\ e # far
    BY <1>2, <2>1
  <2>3. p = Main(h) => h = p[1]
    BY <1>6 DEF Machine
  <2> QED BY <1>4, <1>7, <2>1, <2>2, <2>3
<1>8. \A r \in Daemons : U.d[r].todo[EarSlot] = NoEnd
  BY <1>1 DEF Mastered
<1>9. ASSUME NEW r \in Daemons, r = p \/ r[2] # "main", U.d[r].mode = "dead" PROVE Bare(U.n, r)
  <2>1. r # p /\ r # q /\ S.d[r].mode = "dead"
    BY <1>9
  <2>2. Bare(S.n, r)
    BY <1>1, <1>9, <2>1 DEF Mastered
  <2>3. ASSUME NEW e \in End PROVE r \notin U.n.hold[e]
    <3>1. CASE e = near \/ e = far
      BY <1>4, <2>1, <3>1
    <3>2. CASE e # near /\ e # far
      BY <1>4, <2>1, <2>2, <3>2 DEF Bare
    <3> QED BY <3>1, <3>2
  <2> QED BY <2>3 DEF Bare
<1>10. ASSUME NEW h \in Hosts, NEW e \in Masters(U.n, h) PROVE e \in Masters(S.n, h)
  <2>1. /\ e \in End /\ U.n.hold[e] \cap Machine(h) # {} /\ e \notin Queue(S.n, h)
        /\ U.n.hold[Other(e)] \cap Clients # {} /\ Other(e) \in End
    BY <1>5, <1>10, OtherIsEnd DEF Masters
  <2>2. e # near /\ e # far
    BY <1>2, <1>4, <1>6, <2>1
  <2>3. S.n.hold[e] \cap Machine(h) # {}
    BY <1>4, <1>6, <2>1, <2>2
  <2>4. S.n.hold[Other(e)] \cap Clients # {}
    <3>1. Other(e) # near /\ Other(e) # far
      BY <1>2, <2>1, <2>2
    <3>2. \A c \in U.n.hold[Other(e)] : c \in S.n.hold[Other(e)] \/ c = q
      BY <1>4, <2>1, <3>1
    <3> QED BY <1>6, <2>1, <3>2
  <2> QED BY <2>1, <2>3, <2>4 DEF Masters
<1>11. ASSUME NEW h \in Hosts, Main(h) # p PROVE Kempt(U, h)
  <2>1. Kempt(S, h) /\ Main(h) \in Daemons /\ U.d[Main(h)] = S.d[Main(h)]
    BY <1>1, <1>6, <1>11 DEF Mastered
  <2>2. ASSUME NEW e \in End, Main(h) \in U.n.hold[e] PROVE Main(h) \in S.n.hold[e]
    <3>1. e # near /\ e # far
      BY <1>4, <1>6, <1>11, <2>2
    <3> QED BY <1>4, <1>6, <2>2, <3>1
  <2> QED BY <1>5, <2>1, <2>2 DEF Kempt
<1>12. Staid(U.n, A)
  <2> SUFFICES ASSUME NEW a \in A
               PROVE  a[1] \in End /\ U.n.hold[a[1]] \cap Clients # {} /\ Leads(U.n, a[1], a[2])
    BY DEF Staid
  <2>1. a[1] \in End /\ S.n.hold[a[1]] \cap Clients # {} /\ Leads(S.n, a[1], a[2])
    BY <1>1 DEF Mastered, Staid
  <2>2. a[1] # near /\ a[1] # far /\ Other(a[1]) \in End
    BY <1>2, <2>1, OtherIsEnd
  <2>3. Other(a[1]) # near /\ Other(a[1]) # far
    BY <1>2, <2>1, <2>2
  <2>4. U.n.hold[a[1]] \cap Clients # {}
    BY <1>4, <2>1, <2>2
  <2>5. p \in Machine(a[2]) => q \in Machine(a[2])
    <3>1. p = Main(p[1]) /\ q = Exec(p[1])
      OBVIOUS
    <3> QED BY <3>1 DEF Machine, Main, Exec
  <2>6. Leads(U.n, a[1], a[2])
    BY <1>4, <2>1, <2>2, <2>3, <2>5 DEF Leads
  <2> QED BY <2>1, <2>4, <2>6
<1>13. ASSUME NEW h \in Hosts
       PROVE  /\ Masters(U.n, h) \ {} \subseteq W[h]
              /\ \A e \in Queue(U.n, h) : Exec(h) \notin U.n.hold[e]
  <2>1. Masters(S.n, h) \subseteq W[h]
    BY <1>1 DEF Mastered
  <2>2. Exec(h) # Main(h)
    BY <1>6 DEF Main, Exec
  <2> QED BY <1>5, <1>7, <1>10, <2>1, <2>2
<1> QED BY <1>8, <1>9, <1>11, <1>12, <1>13 DEF Mastered

LEMMA GroupedMastered ==
  ASSUME NEW S, NEW p \in Daemons, NEW W, NEW A, Standing(S, p, W, A), NEW e \in Ends0,
         S.d[p].state = "FormingGroup" => p = Main(p[1])
  PROVE  Mastered(Grouped(S, p, e), p, {}, W, A)
<1> DEFINE T == Consume(S, e)
           c == S.d[p]
           l == NewLine(S.n)
           q == Exec(p[1])
           B == Backlog(T.n, p)
           n == Send(T.n, e, Msg("OK"))
           b == Parent(c, l)
           x == Child(c, l)
           o == Parting(T.n, p, e, l, q)
           U == [d |-> T.d, n |-> n]
           R == Grouped(S, p, e)
<1>1. /\ S \in Situation /\ FreeLines(S.n) # {} /\ c \in DaemonType /\ c.mode # "dead"
  BY Components DEF Standing, Mastered
<1>2. /\ Standing(T, p, W, A) /\ T.d = S.d /\ T \in Situation /\ T.n \in NetType
      /\ T.n.hold = S.n.hold
  <2>1. Standing(T, p, W, A) /\ T.d = S.d /\ T \in Situation
    BY StandingConsume
  <2>2. T.n = Receive(S.n, e)
    BY <1>1, Components DEF Consume, Situation
  <2> HIDE DEF T
  <2> QED BY <1>1, <2>1, <2>2, Components, ReceiveType
<1>3. CASE c.state # "FormingGroup"
  <2>1. R = Refuse(T, p, e)
    BY <1>2, <1>3 DEF Grouped
  <2> QED BY <1>2, <2>1, SlimRefuse, MasteredSlim DEF Standing
<1>4. CASE c.state = "FormingGroup" /\ Broken(T.n, e)
  <2>1. R = Raise(T, p)
    BY <1>2, <1>4 DEF Grouped
  <2> QED BY <1>2, <2>1, SlimRaise, MasteredSlim DEF Standing
<1>5. CASE c.state = "FormingGroup" /\ ~Broken(T.n, e)
  <2>1. R = [d |-> [T.d EXCEPT ![p] = b, ![q] = x], n |-> o]
    <3> HIDE DEF T
    <3>1. c = T.d[p]
      BY <1>2
    <3> HIDE DEF c
    <3>2. T = Consume(S, e)
      BY DEF T
    <3> QED BY <1>5, <3>1, <3>2, GroupedParts
  <2>2. n \in NetType /\ n.hold = T.n.hold /\ n.ear = T.n.ear
    <3>1. Msg("OK") \in Message
      BY CodeFacts, MsgIsMessage DEF Code
    <3> HIDE DEF T
    <3> QED BY <1>2, <3>1, SendType
  <2> HIDE DEF T, n
  <2>3. U \in Situation /\ U.d = T.d /\ U.n = n
    BY <1>2, <2>2, Components DEF Situation
  <2> HIDE DEF U
  <2>4. Standing(U, p, W, A)
    <3>1. Slim(T, U, p)
      BY <1>2, <2>2, <2>3, SlimNet
    <3> QED BY <1>2, <2>2, <2>3, <3>1, StandingSlim
  <2>5. l = NewLine(U.n) /\ B = Backlog(U.n, p)
    <3>1. FreeLines(U.n) = FreeLines(S.n)
      BY <1>2, <2>2, <2>3, FreeLinesByHold
    <3>2. NewLine(U.n) = l
      BY <3>1 DEF NewLine
    <3>3. U.n.ear = T.n.ear
      BY <2>2, <2>3
    <3> QED BY <3>2, <3>3 DEF Backlog
  <2>6. <<l, "near">> \in End /\ <<l, "far">> \in End /\ l \in Lines
    BY <1>1, FreeLineEnds, Components
  <2>7. R \in Situation
    BY <1>1, GroupedType
  <2> HIDE DEF l, B
  <2>8. /\ b \in DaemonType /\ x \in DaemonType
        /\ b.mode = c.mode /\ b.todo = c.todo /\ x.todo = c.todo
    <3> HIDE DEF c
    <3> QED BY <1>1, <2>6, ParentChild
  <2>9. x.mode = c.mode
    <3> HIDE DEF c
    <3> QED BY <1>1 DEF Child, DaemonType
  <2> HIDE DEF b, x, c
  <2>10. q \in Daemons /\ q # p /\ q = Exec(p[1]) /\ p = Main(p[1])
    <3>1. p = Main(p[1])
      BY <1>5 DEF c
    <3> QED BY <3>1, ProcsFacts, MachineFacts
  <2>11. /\ R.n = o /\ R.d[p] = b /\ R.d[q] = x
         /\ \A r \in Daemons : r # p /\ r # q => R.d[r] = U.d[r]
    <3>1. T.d \in [Daemons -> DaemonType]
      BY <1>2, Components
    <3> HIDE DEF R, q, o
    <3> QED BY <2>1, <2>3, <2>10, <3>1
  <2>12. Forked(U.n, R.n, p, q, l, Backlog(U.n, p))
    <3>1. R.n = SocketPair(Fork(U.n, p, q, B), l, p, q)
      BY <2>3, <2>11 DEF Parting, n, B
    <3> HIDE DEF R, q
    <3> QED BY <2>2, <2>3, <2>5, <2>6, <3>1, ForkNet
  <2>13. \A r \in {p, q} : R.d[r].todo = U.d[p].todo /\ R.d[r].mode # "dead"
    BY <1>1, <1>2, <2>3, <2>8, <2>9, <2>11 DEF c
  <2> HIDE DEF R, q
  <2>14. l = NewLine(U.n) /\ \A r \in Daemons : r # p /\ r # q => R.d[r] = U.d[r]
    BY <2>5, <2>11
  <2>15. Mastered(R, p, {}, W, A)
    BY <2>4, <2>7, <2>10, <2>12, <2>13, <2>14, MasteredFork
  <2> QED BY <2>15 DEF R
<1> QED BY <1>3, <1>4, <1>5

-----------------------------------------------------------------------------
(* The handlers of what a client sends that neither connect nor fork.       *)
LEMMA SlimReply ==
  ASSUME NEW S, NEW T, NEW p \in Daemons, Slim(S, T, p), NEW e, NEW code \in Code,
         NEW d \in DaemonType, d.todo = T.d[p].todo, d.mode = T.d[p].mode
  PROVE  Slim(S, Answer(T, p, e, code, d), p)
<1>1. T \in Situation
  BY DEF Slim
<1>2. Slim(T, Answer(T, p, e, code, d), p)
  BY <1>1, SlimAnswer
<1> QED BY <1>2, SlimTrans

LEMMA SlimOrders ==
  ASSUME NEW S \in Situation, NEW p \in Daemons, NEW e \in Ends0, NEW m \in Message
  PROVE  /\ Slim(S, Release(S, p, e), p)
         /\ Slim(S, StartGrouping(S, p, e, m), p)
         /\ Slim(S, InitData(S, p, e), p)
         /\ Slim(S, Run(S, p, e), p)
         /\ Slim(S, Prepare(S, p, e), p)
         /\ Slim(S, Leave(S, p, e), p)
<1> DEFINE T == Consume(S, e)
           c == T.d[p]
           v == [NoWait EXCEPT !.on = "start", !.end = e]
           w == [NoWait EXCEPT !.on = "ack", !.end = c.rope, !.reply = e]
           d1 == [c EXCEPT !.state = "FormingGroup", !.world = m.arg]
           d2 == [S.d[p] EXCEPT !.wait = v]
           d3 == [c EXCEPT !.state = "Leaving"]
           d4 == [c EXCEPT !.wait = w]
<1>1. T \in Situation /\ T.d = S.d /\ Slim(S, T, p) /\ c \in DaemonType /\ c = S.d[p]
  BY ConsumeType, SlimConsume, Components
<1>2. Slim(S, SetDefault(Answer(T, p, e, "OK", T.d[p]), p, FALSE), p)
  BY SlimAnswered
<1> HIDE DEF T
<1>3. Slim(S, Refuse(T, p, e), p) /\ Slim(S, Raise(T, p), p) /\ Slim(S, Die(T, p), p)
  <2>1. Slim(T, Refuse(T, p, e), p) /\ Slim(T, Raise(T, p), p) /\ Slim(T, Die(T, p), p)
    BY <1>1, SlimRefuse, SlimRaise, SlimDie
  <2> QED BY <1>1, <2>1, SlimTrans
<1> HIDE DEF c
<1>4. v \in WaitType /\ w \in WaitType
  <2>1. c.rope \in Ends0
    BY <1>1 DEF DaemonType
  <2> QED BY <2>1, ConstantsType DEF WaitType
<1>5. /\ d1 \in DaemonType /\ d1.todo = c.todo /\ d1.mode = c.mode
      /\ d3 \in DaemonType /\ d3.todo = c.todo /\ d3.mode = c.mode
  <2>1. m.arg \in Nat
    BY MessageWith
  <2> QED BY <1>1, <2>1 DEF DaemonType, State
<1> HIDE DEF v, w
<1>6. /\ d2 \in DaemonType /\ d2.todo = c.todo /\ d2.mode = c.mode
      /\ d4 \in DaemonType /\ d4.todo = c.todo /\ d4.mode = c.mode
  BY <1>1, <1>4 DEF DaemonType
<1> HIDE DEF d1, d2, d3, d4
<1>7. /\ Slim(S, Answer(T, p, e, "OK", d1), p) /\ Slim(S, Answer(T, p, e, "OK", d2), p)
      /\ Slim(S, Answer(T, p, e, "OK", d3), p) /\ Slim(S, Answer(T, p, c.rope, "CutRope", d4), p)
  BY <1>1, <1>5, <1>6, SlimReply, CodeFacts DEF c
<1>8. Slim(S, Release(S, p, e), p)
  BY <1>2, <1>3 DEF Release, T
<1>9. Slim(S, StartGrouping(S, p, e, m), p)
  BY <1>3, <1>7 DEF StartGrouping, T, d1, c
<1>10. Slim(S, InitData(S, p, e), p)
  BY <1>1, SlimSame DEF InitData, T
<1>11. Slim(S, Run(S, p, e), p)
  <2>1. Slim(S, Refuse(S, p, e), p)
    BY SlimRefuse
  <2> QED BY <2>1, <1>7 DEF Run, T, d2, v
<1>12. Slim(S, Prepare(S, p, e), p)
  BY <1>3, <1>7 DEF Prepare, T, d3, c
<1>13. Slim(S, Leave(S, p, e), p)
  BY <1>3, <1>7 DEF Leave, T, d4, w, c
<1> QED BY <1>8, <1>9, <1>10, <1>11, <1>12, <1>13

LEMMA ControlMastered ==
  ASSUME NEW S, NEW p \in Daemons, NEW W, NEW A, Standing(S, p, W, A), NEW e \in Ends0, NEW late,
         S.d[p].state = "FormingGroup" => p = Main(p[1])
  PROVE  Mastered(ProcessControl(S, p, e, late), p, {}, W, A)
<1> DEFINE m == Peek(S.n, e)
           R == ProcessControl(S, p, e, late)
<1>1. S \in Situation /\ Mastered(S, p, {}, W, A)
  BY DEF Standing, Mastered
<1>2. m \in Message
  BY <1>1, Components, PeekType
<1>3. CASE m.tag \notin ClientCode
  BY <1>1, <1>3, SlimControl, MasteredSlim
<1>4. CASE m.tag \in ClientCode
  <2>1. /\ Mastered(Grouped(S, p, e), p, {}, W, A)
        /\ Mastered(Connecting(S, p, e, m), p, {}, W, A)
    BY <1>2, GroupedMastered, ConnectingMastered
  <2> HIDE DEF m
  <2>2. /\ Slim(S, Release(S, p, e), p) /\ Slim(S, StartGrouping(S, p, e, m), p)
        /\ Slim(S, InitData(S, p, e), p) /\ Slim(S, Run(S, p, e), p)
        /\ Slim(S, Prepare(S, p, e), p) /\ Slim(S, Leave(S, p, e), p)
        /\ Slim(S, Raise(Consume(S, e), p), p)
    BY <1>1, <1>2, SlimOrders, SlimCommands
  <2>3. /\ Mastered(Release(S, p, e), p, {}, W, A)
        /\ Mastered(StartGrouping(S, p, e, m), p, {}, W, A)
        /\ Mastered(InitData(S, p, e), p, {}, W, A)
        /\ Mastered(Run(S, p, e), p, {}, W, A)
        /\ Mastered(Prepare(S, p, e), p, {}, W, A)
        /\ Mastered(Leave(S, p, e), p, {}, W, A)
        /\ Mastered(Raise(Consume(S, e), p), p, {}, W, A)
    BY <1>1, <2>2, MasteredSlim
  <2>4. R = CASE m.tag = "Disconnect" -> Release(S, p, e)
              [] m.tag = "Peers" -> StartGrouping(S, p, e, m)
              [] m.tag = "ConnectTo" -> Connecting(S, p, e, m)
              [] m.tag = "Grouped" -> Grouped(S, p, e)
              [] m.tag = "InitialData" -> InitData(S, p, e)
              [] m.tag = "Run" -> Run(S, p, e)
              [] m.tag = "PrepareToLeave" -> Prepare(S, p, e)
              [] m.tag = "Leave" -> Leave(S, p, e)
              [] OTHER -> Raise(Consume(S, e), p)
    BY <1>4 DEF ProcessControl, ClientCode, m
  <2> HIDE DEF R
  <2>5. Mastered(R, p, {}, W, A)
    BY <2>1, <2>3, <2>4
  <2> QED BY <2>5 DEF R
<1> QED BY <1>3, <1>4

-----------------------------------------------------------------------------
(* A new connection is taken from the backlog and handled.                  *)
LEMMA SlimKeep ==
  ASSUME NEW S \in Situation, NEW p \in Daemons, NEW keep,
         NEW T \in Situation, T.d = S.d, T.n = Keep(S.n, p, keep)
  PROVE  /\ Slim(S, T, p) /\ T.n.ear = S.n.ear
         /\ \A e \in End \ keep : p \notin T.n.hold[e]
<1> DEFINE n == Keep(S.n, p, keep)
<1>1. /\ n \in NetType /\ n.ear = S.n.ear
      /\ \A x \in End : /\ x \in keep => n.hold[x] = S.n.hold[x]
                        /\ x \notin keep => n.hold[x] = S.n.hold[x] \ {p}
  BY Components, KeepFacts
<1> HIDE DEF n
<1>2. T.n = n
  BY DEF n
<1>3. \A x \in End : T.n.hold[x] \subseteq S.n.hold[x] /\ \A q \in S.n.hold[x] : q \in T.n.hold[x] \/ q = p
  BY <1>1, <1>2
<1>4. Loses(S, T, p)
  <2>1. \A q \in Daemons : T.d[q] = S.d[q]
    BY <1>2
  <2>2. Exec(p[1]) \in Daemons
    BY ProcsFacts
  <2>3. \A x \in End : /\ T.n.hold[x] \subseteq S.n.hold[x]
                       /\ \A q \in S.n.hold[x] : q \in T.n.hold[x] \/ q \in {p, Exec(p[1])}
    BY <1>3
  <2> QED BY <2>1, <2>2, <2>3 DEF Loses
<1>5. Slim(S, T, p)
  BY <1>1, <1>2, <1>4 DEF Slim
<1> QED BY <1>1, <1>2, <1>5

(* Only three messages make a process use the end they came on.             *)
LEMMA LeanCommands ==
  ASSUME NEW S \in Situation, NEW p \in Daemons, NEW e
  PROVE  /\ Lean(CutRope(S, p, e).d[p], S.d[p]) /\ Lean(Error(S, p, e).d[p], S.d[p])
         /\ Lean(StatusReply(S, p, e).d[p], S.d[p]) /\ Lean(Shutdown(S, p, e).d[p], S.d[p])
         /\ Lean(ForceShutdown(S, p, e).d[p], S.d[p]) /\ Lean(ForceReset(S, p, e).d[p], S.d[p])
         /\ Lean(Raise(Consume(S, e), p).d[p], S.d[p]) /\ Lean(Refuse(S, p, e).d[p], S.d[p])
<1> DEFINE T == Consume(S, e)
           c == S.d[p]
           A == Answer(T, p, e, "OK", T.d[p])
<1>1. T \in Situation /\ T.d = S.d /\ c \in DaemonType /\ Lean(c, c) /\ T.d[p] = c
  BY ConsumeType, Components, LeanFields
<1> HIDE DEF T, c
<1>2. /\ A \in Situation /\ Lean(A.d[p], c)
      /\ Lean(Answer(T, p, e, "Status", c).d[p], c)
      /\ Lean(Refuse(T, p, e).d[p], c)
  BY <1>1, AnswerLean, CodeFacts DEF Refuse
<1>3. Lean(Refuse(S, p, e).d[p], c)
  BY <1>1, AnswerLean, CodeFacts DEF Refuse, c
<1>4. Lean(Raise(T, p).d[p], c)
  BY <1>1, RaiseLean
<1> HIDE DEF A
<1>5. /\ \A w \in BOOLEAN : SetDefault(A, p, w) \in Situation /\ Lean(SetDefault(A, p, w).d[p], c)
      /\ SetDefault(T, p, FALSE) \in Situation /\ Lean(SetDefault(T, p, FALSE).d[p], c)
  BY <1>1, <1>2, SetDefaultLean, LeanTrans
<1>6. Lean(Reset(T, p, "Error").d[p], c) /\ Lean(Reset(T, p, "Renegade").d[p], c)
  BY <1>1, ResetLean, CodeFacts
<1>7. Lean(Die(SetDefault(A, p, FALSE), p).d[p], c) /\ Lean(Die(SetDefault(T, p, FALSE), p).d[p], c)
  <2> DEFINE U == SetDefault(A, p, FALSE)
             X == SetDefault(T, p, FALSE)
  <2>1. U \in Situation /\ X \in Situation /\ Lean(U.d[p], c) /\ Lean(X.d[p], c)
    BY <1>5
  <2> HIDE DEF U, X
  <2>2. Lean(Die(U, p).d[p], U.d[p]) /\ Lean(Die(X, p).d[p], X.d[p])
    BY <2>1, DieLean
  <2>3. Lean(Die(U, p).d[p], c) /\ Lean(Die(X, p).d[p], c)
    BY <2>1, <2>2, LeanTrans
  <2> QED BY <2>3 DEF U, X
<1>8. Lean(CutRope(S, p, e).d[p], c)
  BY <1>2, <1>4, <1>5 DEF CutRope, T, A
<1>9. Lean(Error(S, p, e).d[p], c) /\ Lean(StatusReply(S, p, e).d[p], c)
  BY <1>2, <1>6 DEF Error, StatusReply, T, c
<1>10. Lean(Shutdown(S, p, e).d[p], c) /\ Lean(ForceShutdown(S, p, e).d[p], c)
  BY <1>2, <1>4, <1>7 DEF Shutdown, ForceShutdown, T, A
<1>11. Lean(ForceReset(S, p, e).d[p], c)
  BY <1>1, <1>6 DEF ForceReset, T
<1> QED BY <1>3, <1>4, <1>8, <1>9, <1>10, <1>11 DEF T, c

LEMMA ControlFiles ==
  ASSUME NEW S \in Situation, NEW p \in Daemons, NEW e \in End, NEW late,
         Peek(S.n, e).tag \notin ClientCode, e \notin Uses(S.d[p]),
         e \in Refs(ProcessControl(S, p, e, late).d[p])
  PROVE  \/ Peek(S.n, e).tag \in {"Join", "DataLine"}
         \/ Peek(S.n, e).tag = "Enslave" /\ S.d[p].state = "Free"
<1> DEFINE m == Peek(S.n, e)
           R == ProcessControl(S, p, e, late)
<1> SUFFICES ASSUME m.tag # "Join", m.tag # "DataLine", m.tag = "Enslave" => S.d[p].state # "Free"
             PROVE FALSE
  OBVIOUS
<1>1. ~Lean(R.d[p], S.d[p])
  <2>1. e \in Uses(R.d[p])
    BY NoEndIsNoEnd DEF Uses
  <2> QED BY <2>1 DEF Lean
<1>2. R \in {CutRope(S, p, e), Error(S, p, e), StatusReply(S, p, e), Shutdown(S, p, e),
             ForceShutdown(S, p, e), ForceReset(S, p, e), Raise(Consume(S, e), p), Refuse(S, p, e)}
  BY Zenon DEF ProcessControl, Enslave, ClientCode
<1> HIDE DEF R
<1> QED BY <1>1, <1>2, LeanCommands

LEMMA AcceptMastered ==
  ASSUME NEW S, NEW p \in Daemons, NEW W, NEW A, Standing(S, p, W, A), p[2] = "main",
         S.n.ear[p[1]] # <<>>, NEW N, N.d = S.d, N \in Situation, N.n = Accept(S.n, p[1]),
         NEW e \in End, S.n.hold[e] = {p}, Queue(N.n, p[1]) = Queue(S.n, p[1]) \ {e}
  PROVE  Mastered(N, p, {e}, W, A)
<1>1. S \in Situation /\ S.n \in NetType /\ Mastered(S, p, {}, W, A)
  BY Components DEF Standing, Mastered
<1>2. /\ p[1] \in Hosts /\ p = Main(p[1]) /\ \A h \in Hosts : Main(h) # p => h # p[1]
  BY ProcsFacts, MainOrExec
<1>3. N.n.hold = S.n.hold /\ \A h \in Hosts : h # p[1] => Queue(N.n, h) = Queue(S.n, h)
  BY <1>1, <1>2, AcceptFacts DEF Queue
<1>4. \A h \in Hosts : Queue(N.n, h) \subseteq Queue(S.n, h) /\ Queue(S.n, h) \subseteq Queue(N.n, h) \cup {e}
  BY <1>3
<1>5. \A h \in Hosts : Masters(N.n, h) \ {e} \subseteq Masters(S.n, h)
  BY <1>3, <1>4 DEF Masters
<1>6. \A h \in Hosts : Main(h) # p => Kempt(N, h)
  BY <1>1, <1>2, <1>3 DEF Mastered, Kempt
<1>7. Staid(N.n, A)
  BY <1>1, <1>3 DEF Mastered, Staid, Leads
<1>8. \A h \in Hosts : /\ Masters(N.n, h) \ {e} \subseteq W[h]
                       /\ \A y \in Queue(N.n, h) : Exec(h) \notin N.n.hold[y]
  BY <1>1, <1>3, <1>4, <1>5 DEF Mastered
<1>9. \A q \in Daemons : /\ N.d[q].todo[EarSlot] = NoEnd
                         /\ (q = p \/ q[2] # "main") /\ N.d[q].mode = "dead" => Bare(N.n, q)
  BY <1>1, <1>3 DEF Mastered, Bare
<1> QED BY <1>3, <1>6, <1>7, <1>8, <1>9 DEF Mastered

(* The new connection is let go unless it was filed; one that was filed     *)
(* comes from a peer, or is the first master of a free machine.             *)
Single(W) == \A h \in Hosts : \A e, f \in W[h] : e = f

LEMMA UnfiledMastered ==
  ASSUME NEW T, NEW p \in Daemons, NEW e \in End, NEW W, NEW A, Mastered(T, p, {e}, W, A)
  PROVE  Mastered(Unfiled(T, p, e), p, {}, W, A)
<1> DEFINE R == Unfiled(T, p, e)
           keep == End \ {e}
<1>1. T \in Situation /\ R \in Situation /\ R.d = T.d /\ R.n = Keep(T.n, p, keep)
  <2>1. T \in Situation /\ Keep(T.n, p, keep) \in NetType
    BY Components, KeepType DEF Mastered
  <2> QED BY <2>1, SetNet DEF Situation, Unfiled
<1> HIDE DEF keep, R
<1>2. Slim(T, R, p) /\ \A x \in End \ keep : p \notin R.n.hold[x]
  BY <1>1, SlimKeep
<1>3. Mastered(R, p, {e}, W, A)
  BY <1>2, MasteredSlim
<1>4. R.n.hold[e] = {}
  BY <1>2, <1>3 DEF Mastered, keep
<1>5. \A h \in Hosts : Masters(R.n, h) \ {} \subseteq W[h]
  BY <1>3, <1>4 DEF Mastered, Masters
<1> QED BY <1>3, <1>5 DEF Mastered, R

LEMMA FiledMastered ==
  ASSUME NEW T, NEW p \in Daemons, NEW e \in End, NEW W \in [Hosts -> SUBSET End], NEW A,
         Mastered(T, p, {e}, W, A), Single(W),
         T.n.hold[Other(e)] \cap Clients = {} \/ W[p[1]] = {}
  PROVE  \E V \in [Hosts -> SUBSET End] : Mastered(T, p, {}, V, A) /\ Single(V)
<1>1. p[1] \in Hosts
  BY ProcsFacts
<1>2. CASE T.n.hold[Other(e)] \cap Clients = {}
  <2>1. \A h \in Hosts : e \notin Masters(T.n, h)
    BY <1>2 DEF Masters
  <2>2. Mastered(T, p, {}, W, A)
    BY <2>1 DEF Mastered
  <2> QED BY <2>2
<1>3. CASE W[p[1]] = {}
  <2> DEFINE V == [W EXCEPT ![p[1]] = {e}]
  <2>1. V \in [Hosts -> SUBSET End] /\ V[p[1]] = {e} /\ \A h \in Hosts : h # p[1] => V[h] = W[h]
    BY <1>1
  <2>2. \A h \in Hosts : W[h] \subseteq V[h]
    BY <1>3, <2>1
  <2> HIDE DEF V
  <2>3. Single(V)
    BY <2>1 DEF Single
  <2>4. \A h \in Hosts : Masters(T.n, h) \ {e} \subseteq W[h]
    BY DEF Mastered
  <2>5. \A h \in Hosts : e \in Masters(T.n, h) => h = p[1]
    <3>1. T.n.hold[e] \subseteq {p}
      BY DEF Mastered
    <3> QED BY <3>1, MachineFacts DEF Masters
  <2>6. \A h \in Hosts : Masters(T.n, h) \ {} \subseteq V[h]
    BY <2>1, <2>2, <2>4, <2>5
  <2>7. Mastered(T, p, {}, V, A)
    BY <2>6 DEF Mastered
  <2> QED BY <2>1, <2>3, <2>7
<1> QED BY <1>2, <1>3

LEMMA IncomingMastered ==
  ASSUME NEW S, NEW p \in Daemons, NEW W \in [Hosts -> SUBSET End], NEW A, Standing(S, p, W, A), Single(W),
         p[2] = "main", S.n.ear[p[1]] # <<>>, NEW K, NEW F \in SUBSET Hosts, NEW V,
         Wired(S, p, {}, {}, K, F, V),
         S.d[p].state = "Free" => W[p[1]] = {}, NEW late
  PROVE  \E Y \in [Hosts -> SUBSET End] : Mastered(ProcessIncoming(S, p, late), p, {}, Y, A) /\ Single(Y)
<1> DEFINE e == Head(S.n.ear[p[1]])
           N == [S EXCEPT !.n = Accept(S.n, p[1])]
           T == ProcessControl(N, p, e, late)
           R == IF e \in Refs(T.d[p]) THEN T ELSE Unfiled(T, p, e)
<1>0. ProcessIncoming(S, p, late) = R
  BY Zenon DEF ProcessIncoming, Unfiled
<1>1. S \in Situation /\ S.n \in NetType /\ p[1] \in Hosts
  BY Components, ProcsFacts DEF Standing, Mastered
<1>2. Taken(S, N, p, e, K, F, V)
  BY <1>1, AcceptWired
<1>3. N \in Situation /\ N.d = S.d /\ N.n = Accept(S.n, p[1])
  <2>1. Accept(S.n, p[1]) \in NetType
    BY <1>1, AcceptFacts
  <2> QED BY <1>1, <2>1, SetNet DEF Situation
<1>4. /\ e \in End /\ S.n.hold[e] = {p} /\ e \notin Uses(S.d[p])
      /\ N.n.hold = S.n.hold /\ N.n.box = S.n.box /\ ~Says(S.n, e, ClientCode)
      /\ \A h \in Hosts : e \notin Queue(N.n, h)
  BY <1>2 DEF Taken
<1> HIDE DEF e, N
<1>5. Queue(N.n, p[1]) = Queue(S.n, p[1]) \ {e}
  <2> DEFINE s == S.n.ear[p[1]]
             t == Tail(s)
  <2>1. s \in Seq(End) /\ s # <<>> /\ e = Head(s) /\ N.n.ear[p[1]] = t
    BY <1>1, <1>3, AcceptFacts DEF e
  <2>2. \A i, j \in DOMAIN S.n.ear[p[1]] : S.n.ear[p[1]][i] = S.n.ear[p[1]][j] => i = j
    BY <1>1, WiredOwned DEF Queued
  <2>3. \A i, j \in DOMAIN s : s[i] = s[j] => i = j
    BY <2>2
  <2>4. t = Tail(s)
    OBVIOUS
  <2> HIDE DEF s, t
  <2>5. {t[i] : i \in DOMAIN t} = {s[i] : i \in DOMAIN s} \ {e}
    <3>1. /\ Head(s) \in {s[i] : i \in DOMAIN s}
          /\ {t[i] : i \in DOMAIN t} = {s[i] : i \in DOMAIN s} \ {Head(s)}
          /\ \A i, j \in DOMAIN t : t[i] = t[j] => i = j
      BY <2>1, <2>3, <2>4, TailOfDistinct
    <3> QED BY <2>1, <3>1
  <2> QED BY <2>1, <2>5 DEF Queue, s
<1>6. Mastered(N, p, {e}, W, A)
  BY <1>3, <1>4, <1>5, AcceptMastered
<1>7. /\ Peek(N.n, e).tag \notin ClientCode
      /\ Peek(N.n, e).tag \in {"Join", "DataLine"} => S.n.hold[Other(e)] \cap Clients = {}
  <2>1. N.n \in NetType /\ Msgs(N.n, e) = Msgs(S.n, e)
    BY <1>3, <1>4, Components, SameMsgs
  <2>2. \A D : Says(N.n, e, D) <=> Says(S.n, e, D)
    BY <2>1 DEF Says
  <2> DEFINE m == Peek(N.n, e)
  <2>3. m.tag # "None" => \A D : m.tag \in D => Says(N.n, e, D)
    BY <1>4, <2>1, Peeked
  <2> HIDE DEF m
  <2>4. m.tag \notin ClientCode
    BY <1>4, <2>2, <2>3 DEF ClientCode
  <2>5. m.tag \in {"Join", "DataLine"} => Says(S.n, e, {"Join", "DataLine"})
    BY <2>2, <2>3
  <2>6. Joining(S)
    BY WiredOwned
  <2> QED BY <1>4, <2>4, <2>5, <2>6 DEF Joining, Peer, m
<1>8. e \in Ends0
  BY <1>4 DEF Ends0
<1>9. Slim(N, T, p)
  BY <1>3, <1>7, <1>8, SlimControl
<1>10. e \in Refs(T.d[p]) => T.n.hold[Other(e)] \cap Clients = {} \/ W[p[1]] = {}
  <2> SUFFICES ASSUME e \in Refs(T.d[p]) PROVE T.n.hold[Other(e)] \cap Clients = {} \/ W[p[1]] = {}
    OBVIOUS
  <2>1. \/ Peek(N.n, e).tag \in {"Join", "DataLine"}
        \/ Peek(N.n, e).tag = "Enslave" /\ N.d[p].state = "Free"
    BY <1>3, <1>4, <1>7, ControlFiles
  <2> HIDE DEF T
  <2>2. T.n.hold[Other(e)] \subseteq S.n.hold[Other(e)]
    BY <1>4, <1>9, OtherIsEnd DEF Slim, Loses
  <2> QED BY <1>3, <1>7, <2>1, <2>2
<1> HIDE DEF T
<1>11. Mastered(T, p, {e}, W, A)
  BY <1>6, <1>9, MasteredSlim
<1>12. \E Y \in [Hosts -> SUBSET End] : Mastered(R, p, {}, Y, A) /\ Single(Y)
  BY <1>4, <1>10, <1>11, UnfiledMastered, FiledMastered
<1> QED BY <1>0, <1>12

LEMMA LineMastered ==
  ASSUME NEW S, NEW p \in Daemons, NEW W, NEW A, Standing(S, p, W, A), NEW e \in Ends0, NEW late,
         S.d[p].state = "FormingGroup" => p = Main(p[1])
  PROVE  Mastered(Process(S, p, e, late), p, {}, W, A)
<1> DEFINE T == ProcessControl(S, p, e, late)
           U == [T EXCEPT !.d[p].todo = Idle]
<1>1. S \in Situation /\ Mastered(S, p, {}, W, A) /\ e # Ear
  BY NoEndIsNoEnd DEF Standing, Mastered
<1>2. Mastered(T, p, {}, W, A)
  BY ControlMastered
<1> HIDE DEF T
<1>3. T \in Situation /\ T.d[p] \in DaemonType /\ Idle \in [Slot -> Ends0]
  BY <1>2, Components, ConstantsType DEF Mastered
<1>4. Slim(T, U, p)
  <2> DEFINE c == T.d[p]
             d == [c EXCEPT !.todo = Idle]
  <2>1. U \in Situation
    BY <1>3, SituationWith
  <2>2. U.d = [T.d EXCEPT ![p] = d] /\ U.n = T.n
    BY <1>3, Components DEF Situation
  <2>3. d.todo = Idle /\ d.mode = c.mode
    BY <1>3 DEF DaemonType
  <2> HIDE DEF U, d
  <2>4. d.todo \in {T.d[p].todo, Idle} /\ (d.mode = "dead" => T.d[p].mode = "dead")
        /\ U.n.hold = T.n.hold /\ U.n.ear = T.n.ear
    BY <2>2, <2>3
  <2> QED BY <1>3, <2>1, <2>2, <2>4, SlimRecord
<1>5. Mastered(StopRound(T, p), p, {}, W, A)
  BY <1>2, <1>4, MasteredSlim DEF StopRound
<1>6. /\ Slim(S, SetDefault(S, p, FALSE), p) /\ Slim(S, Die(S, p), p)
  BY <1>1, SlimSetDefault, SlimDie
<1>7. Mastered(ProcessDisconnected(S, p), p, {}, W, A)
  BY <1>1, <1>6, MasteredSlim DEF ProcessDisconnected
<1>8. Process(S, p, e, late) = IF Closed(S.n, e) THEN ProcessDisconnected(S, p)
                               ELSE IF Peek(S.n, e).tag \in {"Disconnect", "ForceReset"} THEN StopRound(T, p)
                               ELSE T
  BY <1>1 DEF Process, T
<1> QED BY <1>2, <1>5, <1>7, <1>8

-----------------------------------------------------------------------------
(* The step is over: every main process has let go what it does not use.    *)
Served(S, W, A) ==
  /\ S \in Situation
  /\ \A q \in Daemons : /\ S.d[q].todo[EarSlot] = NoEnd
                        /\ q[2] # "main" /\ S.d[q].mode = "dead" => Bare(S.n, q)
  /\ \A h \in Hosts : Masters(S.n, h) \subseteq W[h] /\ Kempt(S, h)
  /\ Staid(S.n, A)

LEMMA MasteredServed ==
  ASSUME NEW S, NEW p \in Daemons, NEW W, NEW A, Mastered(S, p, {}, W, A),
         \A h \in Hosts : p = Main(h) => Kempt(S, h)
  PROVE  Served(S, W, A)
<1>1. \A h \in Hosts : Masters(S.n, h) \ {} = Masters(S.n, h)
  OBVIOUS
<1> QED BY <1>1 DEF Mastered, Served

LEMMA BareKempt ==
  ASSUME NEW S, NEW h \in Hosts, Bare(S.n, Main(h)) PROVE Kempt(S, h)
BY DEF Bare, Kempt

LEMMA SettleServed ==
  ASSUME NEW S, NEW p \in Daemons, NEW W, NEW A, Mastered(S, p, {}, W, A)
  PROVE  Served(Settle(S, p), W, A)
<1> DEFINE d == S.d[p]
           keep == Refs(d) \cup Backlog(S.n, p)
           T == [S EXCEPT !.n = Keep(S.n, p, keep)]
           U == [T EXCEPT !.d[p].mode = "main"]
<1>1. S \in Situation /\ d \in DaemonType
  BY Components DEF Mastered
<1>2. CASE d.mode = "dead" \/ d.wait.on # "no" \/ d.todo # Idle
  <2>1. Settle(S, p) = S
    BY <1>2 DEF Settle
  <2>2. \A h \in Hosts : p = Main(h) => Kempt(S, h)
    <3>1. CASE d.mode = "dead"
      BY <3>1, BareKempt DEF Mastered
    <3>2. CASE d.mode # "dead"
      BY <1>2, <3>2 DEF Kempt
    <3> QED BY <3>1, <3>2
  <2> QED BY <2>1, <2>2, MasteredServed
<1>3. CASE d.mode # "dead" /\ d.wait.on = "no" /\ d.todo = Idle
  <2>0. T \in Situation /\ T.d = S.d /\ T.n = Keep(S.n, p, keep)
    <3>1. Keep(S.n, p, keep) \in NetType
      BY <1>1, Components, KeepType
    <3> QED BY <1>1, <3>1, SetNet DEF Situation
  <2>2. Settle(S, p) = IF d.mode = "loop" /\ d.runMain THEN U
                       ELSE IF d.mode \in {"loop", "exit"} /\ d.quit THEN Die(S, p)
                       ELSE T
    BY <1>3 DEF Settle, T
  <2> HIDE DEF T, keep
  <2>1. Slim(S, T, p) /\ T.d = S.d /\ T.n.ear = S.n.ear /\ \A e \in End \ keep : p \notin T.n.hold[e]
    BY <1>1, <2>0, SlimKeep
  <2>3. Mastered(T, p, {}, W, A) /\ T \in Situation /\ T.d[p] = d
    BY <2>1, MasteredSlim DEF Slim
  <2>4. \A h \in Hosts : p = Main(h) => \A e \in End : p \in T.n.hold[e] => e \in Uses(d) \cup Queue(T.n, h)
    <3> SUFFICES ASSUME NEW h \in Hosts, p = Main(h), NEW e \in End, p \in T.n.hold[e]
                 PROVE  e \in Uses(d) \cup Queue(T.n, h)
      OBVIOUS
    <3>1. e \in keep
      BY <2>1
    <3>2. e \in Refs(d) => e \in Uses(d)
      BY NoEndIsNoEnd DEF Uses
    <3>3. Backlog(S.n, p) \subseteq Queue(T.n, h)
      BY <2>1 DEF Backlog, Queue, Main
    <3> QED BY <3>1, <3>2, <3>3 DEF keep
  <2>5. Served(T, W, A)
    <3>1. \A h \in Hosts : p = Main(h) => Kempt(T, h)
      BY <1>3, <2>3, <2>4 DEF Kempt
    <3> QED BY <2>3, <3>1, MasteredServed
  <2>6. Served(Die(S, p), W, A)
    <3> DEFINE R == Die(S, p)
    <3>1. Slim(S, R, p) /\ \A e \in End : p \notin R.n.hold[e]
      <4>1. R = Die(S, p) /\ p \in {p, Exec(p[1])}
        OBVIOUS
      <4> HIDE DEF R
      <4>2. Slim(S, R, p)
        BY <1>1, <4>1, SlimDie
      <4>3. /\ R \in Situation /\ R.d = [S.d EXCEPT ![p] = Dead]
            /\ \A e \in End : R.n.hold[e] = S.n.hold[e] \ {p}
            /\ \A h \in Hosts : R.n.ear[h] = S.n.ear[h] \/ (R.n.ear[h] = <<>> /\ p = Main(h))
        BY <1>1, <4>1, DieFacts
      <4> QED BY <4>2, <4>3
    <3> HIDE DEF R
    <3>2. \A h \in Hosts : p = Main(h) => Kempt(R, h)
      BY <3>1, BareKempt DEF Bare
    <3>3. Mastered(R, p, {}, W, A)
      BY <3>1, MasteredSlim
    <3> QED BY <3>2, <3>3, MasteredServed DEF R
  <2>7. Served(U, W, A)
    <3> DEFINE b == [d EXCEPT !.mode = "main"]
    <3>1. U \in Situation
      BY <2>3, SituationWith DEF Mode
    <3>2. U.d = [T.d EXCEPT ![p] = b] /\ U.n = T.n /\ U.d[p] = b
      BY <2>3, Components DEF Situation
    <3>3. b.todo = d.todo /\ b.mode = "main" /\ Uses(b) = Uses(d)
      <4>1. Uses(b) = Uses(d)
        BY <1>1, FieldUses DEF Mode
      <4> QED BY <1>1, <4>1 DEF DaemonType
    <3> HIDE DEF U, b
    <3>4. b.todo \in {T.d[p].todo, Idle} /\ (b.mode = "dead" => T.d[p].mode = "dead")
          /\ U.n.hold = T.n.hold /\ U.n.ear = T.n.ear
      BY <2>3, <3>2, <3>3
    <3>5. Slim(T, U, p)
      BY <2>3, <3>1, <3>2, <3>4, SlimRecord
    <3>6. Mastered(U, p, {}, W, A)
      BY <2>3, <3>5, MasteredSlim
    <3>7. \A h \in Hosts : p = Main(h) => Kempt(U, h)
      BY <2>4, <3>2, <3>3 DEF Kempt
    <3> QED BY <3>6, <3>7, MasteredServed
  <2> HIDE DEF U
  <2> QED BY <2>2, <2>5, <2>6, <2>7
<1> QED BY <1>2, <1>3

-----------------------------------------------------------------------------
(* A step of a daemon makes at most one master, of its own machine when     *)
(* that is free.                                                            *)
Serving(A) ==
  \E V \in [Hosts -> SUBSET End] : Served([d |-> daemon', n |-> net'], V, A) /\ Single(V)
Ready(K, W, A) ==
  /\ Ordered(K) /\ Served(Now, W, A) /\ Single(W) /\ W \in [Hosts -> SUBSET End]
  /\ \A h \in Hosts : W[h] = Masters(net, h)

LEMMA SettleServing ==
  ASSUME NEW R, NEW p \in Daemons, NEW W \in [Hosts -> SUBSET End], NEW A, Mastered(R, p, {}, W, A),
         Single(W), Become(Settle(R, p))
  PROVE  Serving(A)
<1> DEFINE T == Settle(R, p)
<1>1. Served(T, W, A)
  BY SettleServed
<1> HIDE DEF T
<1>2. T = [d |-> daemon', n |-> net']
  BY <1>1 DEF Become, Served, Situation, T
<1> QED BY <1>1, <1>2 DEF Serving

LEMMA NowMastered ==
  ASSUME NEW K, NEW W, NEW A, Ready(K, W, A), NEW p \in Daemons, daemon[p].mode # "dead"
  PROVE  /\ Mastered(Now, p, {}, W, A)
         /\ FreeLines(net) # {} => Standing(Now, p, W, A)
<1>1. /\ Served(Now, W, A) /\ Now \in Situation /\ Now.d = daemon /\ Now.n = net
      /\ Wired(Now, p, {}, {}, K, Hosts, Sight(Now))
  BY OrderedFacts DEF Ready
<1>2. \A h \in Hosts : \A e \in Queue(Now.n, h) : e[2] = "far" /\ Now.n.hold[e] = {Main(h)}
  BY <1>1, WiredOwned DEF Queued
<1>3. \A h \in Hosts : \A e \in Queue(Now.n, h) : Exec(h) \notin Now.n.hold[e]
  BY <1>2, MainOrExec
<1>4. \A q \in Daemons : /\ Now.d[q].todo[EarSlot] = NoEnd
                         /\ (q = p \/ q[2] # "main") /\ Now.d[q].mode = "dead" => Bare(Now.n, q)
  BY <1>1 DEF Served
<1>5. Mastered(Now, p, {}, W, A)
  BY <1>1, <1>3, <1>4 DEF Mastered, Served
<1> QED BY <1>1, <1>2, <1>5 DEF Standing

(* The round that p goes on with.                                           *)
LEMMA TurnStanding ==
  ASSUME NEW K, NEW W, NEW A, Ready(K, W, A), NEW p \in Daemons, daemon[p].mode # "dead",
         FreeLines(net) # {}, NEW t \in [Slot -> Ends0], t[EarSlot] = NoEnd,
         NEW S, S = [Now EXCEPT !.d[p].todo = t]
  PROVE  /\ Standing(S, p, W, A) /\ S.n = net
         /\ S.d[p].state = daemon[p].state /\ S.d[p].wait = daemon[p].wait
<1>1. Standing(Now, p, W, A) /\ Mastered(Now, p, {}, W, A)
  BY NowMastered
<1>2. Now \in Situation /\ Now.d = daemon /\ Now.n = net
  BY OrderedFacts DEF Ready
<1> DEFINE d == [daemon[p] EXCEPT !.todo = t]
<1>3. daemon \in [Daemons -> DaemonType] /\ daemon[p] \in DaemonType
  BY <1>2, Components
<1>4. S \in Situation /\ S.d = [daemon EXCEPT ![p] = d] /\ S.n = net
  <2>1. S \in Situation
    BY <1>2, SituationWith
  <2> QED BY <1>2, <1>3, <2>1 DEF Situation
<1>5. /\ d.todo = t /\ d.mode = daemon[p].mode /\ d.state = daemon[p].state /\ d.wait = daemon[p].wait
  BY <1>3 DEF DaemonType
<1> HIDE DEF d
<1>6. S.d[p] = d /\ \A q \in Daemons : q # p => S.d[q] = daemon[q]
  BY <1>3, <1>4
<1>7. Mastered(S, p, {}, W, A)
  <2>1. \A q \in Daemons : S.d[q].todo[EarSlot] = NoEnd /\ S.d[q].mode = daemon[q].mode
    BY <1>1, <1>2, <1>5, <1>6 DEF Mastered
  <2>2. \A h \in Hosts : Main(h) # p => Kempt(S, h)
    <3> SUFFICES ASSUME NEW h \in Hosts, Main(h) # p PROVE Kempt(S, h)
      OBVIOUS
    <3>1. Kempt(Now, h) /\ S.d[Main(h)] = Now.d[Main(h)] /\ S.n = Now.n
      BY <1>1, <1>2, <1>4, <1>6, ProcsFacts DEF Mastered
    <3> QED BY <3>1 DEF Kempt
  <2> QED BY <1>1, <1>2, <1>4, <2>1, <2>2 DEF Mastered
<1> QED BY <1>1, <1>2, <1>4, <1>5, <1>6, <1>7 DEF Standing

(* A machine that is free has no master.                                    *)
LEMMA FreeMasters ==
  ASSUME NEW K, NEW W, NEW A, Ready(K, W, A), NEW p \in Daemons, p[2] = "main", daemon[p].mode # "dead",
         daemon[p].state = "Free", daemon[p].wait.on = "no", daemon[p].todo = Idle
  PROVE  Masters(net, p[1]) = {}
<1>1. p[1] \in Hosts /\ p = Main(p[1]) /\ Exec(p[1]) \in Daemons /\ Exec(p[1])[2] # "main"
  BY ProcsFacts, MainOrExec
<1>2. Bonded(Now) /\ Now.d = daemon /\ Now.n = net /\ Records(Now)
  BY OrderedFacts DEF Ready
<1>3. Uses(daemon[p]) = {}
  BY <1>1, <1>2, FreeUses DEF Ready, Ordered, Records
<1>4. daemon[Exec(p[1])].mode = "dead"
  <2>1. MainOk(daemon[p]) /\ ExecOk(daemon[p], daemon[Exec(p[1])])
    BY <1>1, <1>2, BondParts
  <2> QED BY <2>1 DEF MainOk, ExecOk
<1>5. Bare(net, Exec(p[1])) /\ Kempt(Now, p[1])
  BY <1>1, <1>2, <1>4 DEF Ready, Served
<1>6. \A e \in End : Main(p[1]) \in net.hold[e] => e \in Queue(net, p[1])
  BY <1>1, <1>2, <1>3, <1>5 DEF Kempt
<1> QED BY <1>5, <1>6 DEF Masters, Machine, Bare

LEMMA PollServing ==
  ASSUME NEW K, NEW W, NEW A, Ready(K, W, A), NEW p \in Daemons, Poll(p) PROVE Serving(A)
<1>1. daemon[p].mode # "dead" /\ daemon[p].wait.on = "no" /\ FreeLines(net) # {} /\ Ordered(K)
  BY DEF Poll, Room, Ready
<1>2. PICK t, e, late : Turn(p, t, e, late)
  BY PollTurn DEF Ready, Ordered
<1> DEFINE S == [Now EXCEPT !.d[p].todo = t]
           R == Process(S, p, e, late)
<1>3. /\ t \in [Slot -> Ends0] /\ t[EarSlot] = NoEnd
      /\ e # Ear => e \in Uses(daemon[p])
      /\ e = Ear => p[2] = "main" /\ net.ear[p[1]] # <<>> /\ daemon[p].todo = Idle
      /\ Become(Settle(R, p))
  BY <1>2 DEF Turn
<1>4. /\ Now \in Situation /\ daemon \in [Daemons -> DaemonType] /\ net \in NetType
      /\ Records(Now) /\ Now.d = daemon
  BY <1>1, OrderedFacts
<1>5. Kept(S, p, {}, K, Hosts, Sight(Now))
  BY <1>1, <1>2, TurnStart
<1> HIDE DEF R
<1>6. /\ Standing(S, p, W, A) /\ S.n = net
      /\ S.d[p].state = daemon[p].state /\ S.d[p].wait = daemon[p].wait
  <2>1. S = [Now EXCEPT !.d[p].todo = t]
    OBVIOUS
  <2> HIDE DEF S
  <2> QED BY <1>1, <1>3, <2>1, TurnStanding
<1> HIDE DEF S
<1>7. W \in [Hosts -> SUBSET End] /\ Single(W)
  BY DEF Ready
<1>8. CASE e = Ear
  <2>1. R = ProcessIncoming(S, p, late)
    BY <1>8 DEF R, Process
  <2>2. S.d[p].state = "Free" => W[p[1]] = {}
    <3>1. p[1] \in Hosts
      BY ProcsFacts
    <3> QED BY <1>1, <1>3, <1>6, <1>8, <3>1, FreeMasters DEF Ready
  <2>3. Wired(S, p, {}, {}, K, Hosts, Sight(Now))
    BY <1>5 DEF Kept
  <2>4. \E Y \in [Hosts -> SUBSET End] : Mastered(ProcessIncoming(S, p, late), p, {}, Y, A) /\ Single(Y)
    BY <1>3, <1>6, <1>7, <1>8, <2>2, <2>3, IncomingMastered
  <2>5. PICK Y \in [Hosts -> SUBSET End] : Mastered(R, p, {}, Y, A) /\ Single(Y)
    BY <2>1, <2>4
  <2> QED BY <1>3, <2>5, SettleServing
<1>9. CASE e # Ear
  <2>1. e \in Ends0
    BY <1>3, <1>4, <1>9, UsesType DEF Ends0
  <2>2. S.d[p].state = "FormingGroup" => p = Main(p[1])
    <3>1. p[2] # "main" => ExecRec(daemon[p])
      <4>1. p[1] \in Hosts /\ (p[2] # "main" => p = Exec(p[1]))
        BY ProcsFacts, MainOrExec
      <4> QED BY <1>4, <4>1 DEF Records
    <3> QED BY <1>1, <1>6, <3>1, MainOrExec DEF ExecRec
  <2>3. Mastered(R, p, {}, W, A)
    BY <1>6, <1>9, <2>1, <2>2, LineMastered DEF R
  <2> QED BY <1>3, <1>7, <2>3, SettleServing
<1> QED BY <1>8, <1>9

(* A blocked handler goes on.                                               *)
LEMMA WokenMastered ==
  ASSUME NEW S, NEW p \in Daemons, NEW W, NEW A, Standing(S, p, W, A)
  PROVE  Mastered(Started(S, p), p, {}, W, A) /\ Mastered(Acknowledged(S, p), p, {}, W, A)
<1> DEFINE w == S.d[p].wait
           T == Wake(S, p)
           d == [T.d[p] EXCEPT !.runMain = TRUE]
           U == [T EXCEPT !.d[p] = d]
           b == [T.d[p] EXCEPT !.world = 0, !.quit = TRUE]
           R == Answer(T, p, w.reply, "OK", b)
<1>1. /\ Standing(T, p, W, A) /\ T \in Situation /\ T.d[p] \in DaemonType /\ Mastered(T, p, {}, W, A)
  BY WakeSet DEF Standing
<1>2. Started(S, p) = IF Peek(S.n, w.end).tag = "Start" THEN [T EXCEPT !.d[p].runMain = TRUE] ELSE Raise(T, p)
  BY DEF Started, Wake
<1>3. Acknowledged(S, p) = R
  BY DEF Acknowledged, Wake
<1> HIDE DEF T, w
<1>4. [T EXCEPT !.d[p].runMain = TRUE] = U
  BY <1>1, Components DEF Situation
<1>5. d \in DaemonType /\ d.todo = T.d[p].todo /\ d.mode = T.d[p].mode
  BY <1>1, FieldTypes DEF DaemonType
<1>6. b \in DaemonType /\ b.todo = T.d[p].todo /\ b.mode = T.d[p].mode
  BY <1>1 DEF DaemonType
<1> HIDE DEF d, b
<1>7. Slim(T, U, p)
  BY <1>1, <1>5, SlimSet
<1>8. Slim(T, R, p) /\ Slim(T, Raise(T, p), p)
  BY <1>1, <1>6, SlimAnswer, SlimRaise, CodeFacts
<1> HIDE DEF U, R
<1>9. Mastered(U, p, {}, W, A) /\ Mastered(R, p, {}, W, A) /\ Mastered(Raise(T, p), p, {}, W, A)
  BY <1>1, <1>7, <1>8, MasteredSlim
<1> QED BY <1>2, <1>3, <1>4, <1>9

LEMMA ResumeServing ==
  ASSUME NEW K, NEW W, NEW A, Ready(K, W, A), NEW p \in Daemons, Resume(p) PROVE Serving(A)
<1>1. /\ FreeLines(net) # {} /\ daemon[p].wait.on \in {"line", "start", "ack"}
      /\ \/ Become(Settle(Connected(Now, p), p))
         \/ Become(Settle(Started(Now, p), p))
         \/ Become(Settle(Acknowledged(Now, p), p))
  BY DEF Resume, Room
<1>2. Ordered(K) /\ W \in [Hosts -> SUBSET End] /\ Single(W)
  BY DEF Ready
<1>3. Bonded(Now) /\ Now.d = daemon
  BY <1>2, OrderedFacts
<1>4. daemon[p].mode # "dead"
  BY <1>1, <1>3, BondParts DEF MainOk, ExecOk
<1>5. Standing(Now, p, W, A)
  BY <1>1, <1>4, NowMastered
<1>6. /\ Mastered(Connected(Now, p), p, {}, W, A) /\ Mastered(Started(Now, p), p, {}, W, A)
      /\ Mastered(Acknowledged(Now, p), p, {}, W, A)
  BY <1>5, ConnectedMastered, WokenMastered
<1> QED BY <1>1, <1>2, <1>6, SettleServing

LEMMA SlimBuried ==
  ASSUME NEW S \in Situation, NEW p \in Daemons PROVE Slim(S, Buried(S, p), p)
<1> DEFINE T == Buried(S, p)
           c == S.d[p]
           b == [c EXCEPT !.child = FALSE]
           d == [b EXCEPT !.wait = NoWait]
<1>1. c \in DaemonType /\ S.d \in [Daemons -> DaemonType]
  BY Components
<1>2. b \in DaemonType /\ d \in DaemonType
  BY <1>1, FieldTypes
<1>3. d.todo = c.todo /\ d.mode = c.mode
  BY <1>1 DEF DaemonType
<1>4. T.d = [S.d EXCEPT ![p] = d] /\ T.n = S.n /\ T \in Situation
  <2>1. T = [S EXCEPT !.d[p] = d]
    BY <1>1 DEF Buried, Situation
  <2>2. T \in Situation
    BY <1>2, <2>1, SetProc
  <2> QED BY <1>1, <2>1, <2>2 DEF Situation
<1> HIDE DEF T, d
<1>5. d.todo \in {S.d[p].todo, Idle} /\ (d.mode = "dead" => S.d[p].mode = "dead")
      /\ T.n.hold = S.n.hold /\ T.n.ear = S.n.ear
  BY <1>3, <1>4
<1>6. Slim(S, T, p)
  BY <1>4, <1>5, SlimRecord
<1> QED BY <1>6 DEF T
(* The other steps of a daemon.                                             *)
LEMMA SlimServing ==
  ASSUME NEW K, NEW W, NEW A, Ready(K, W, A), NEW p \in Daemons, daemon[p].mode # "dead",
         NEW R, Slim(Now, R, p), Become(Settle(R, p))
  PROVE  Serving(A)
<1>1. Mastered(Now, p, {}, W, A) /\ W \in [Hosts -> SUBSET End] /\ Single(W)
  BY NowMastered DEF Ready
<1>2. Mastered(R, p, {}, W, A)
  BY <1>1, MasteredSlim
<1> QED BY <1>1, <1>2, SettleServing

LEMMA BuryServing ==
  ASSUME NEW K, NEW W, NEW A, Ready(K, W, A), NEW p \in Daemons, Bury(p) PROVE Serving(A)
<1>1. Bonded(Now) /\ Now.d = daemon /\ Now \in Situation
  BY OrderedFacts DEF Ready
<1>2. daemon[p].wait.on = "bury" /\ Become(Settle(Buried(Now, p), p))
  BY DEF Bury
<1>3. daemon[p].mode # "dead"
  BY <1>1, <1>2, BondParts DEF MainOk, ExecOk
<1>4. Slim(Now, Buried(Now, p), p)
  BY <1>1, SlimBuried
<1> QED BY <1>2, <1>3, <1>4, SlimServing

LEMMA FinishMainServing ==
  ASSUME NEW K, NEW W, NEW A, Ready(K, W, A), NEW p \in Daemons, FinishMain(p) PROVE Serving(A)
<1>1. Now \in Situation
  BY OrderedFacts DEF Ready
<1>2. daemon[p].mode # "dead" /\ Become(Settle(Finish(Now, p), p))
  BY DEF FinishMain
<1>3. Slim(Now, Finish(Now, p), p)
  BY <1>1, SlimFinish
<1> QED BY <1>2, <1>3, SlimServing

LEMMA TimeOutServing ==
  ASSUME NEW K, NEW W, NEW A, Ready(K, W, A), NEW p \in Daemons, TimeOut(p) PROVE Serving(A)
<1>1. Bonded(Now) /\ Now.d = daemon /\ Now \in Situation
  BY OrderedFacts DEF Ready
<1>2. daemon[p].wait.on \in {"line", "start"} /\ Become(Settle(Raise(Now, p), p))
  BY DEF TimeOut
<1>3. daemon[p].mode # "dead"
  BY <1>1, <1>2, BondParts DEF MainOk, ExecOk
<1>4. Slim(Now, Raise(Now, p), p)
  BY <1>1, SlimRaise
<1> QED BY <1>2, <1>3, <1>4, SlimServing

LEMMA BuryLateServing ==
  ASSUME NEW K, NEW W, NEW A, Ready(K, W, A), NEW p \in Daemons, BuryLate(p) PROVE Serving(A)
<1> DEFINE Q == Die(Now, Exec(p[1]))
<1>1. Bonded(Now) /\ Now.d = daemon /\ Now \in Situation
  BY OrderedFacts DEF Ready
<1>2. daemon[p].wait.on = "bury" /\ Become(Settle(Buried(Q, p), p))
  BY DEF BuryLate
<1>3. daemon[p].mode # "dead"
  BY <1>1, <1>2, BondParts DEF MainOk, ExecOk
<1>4. Slim(Now, Q, p) /\ Q \in Situation
  BY <1>1, SlimDie DEF Slim
<1> HIDE DEF Q
<1>5. Slim(Q, Buried(Q, p), p)
  BY <1>4, SlimBuried
<1>6. Slim(Now, Buried(Q, p), p)
  BY <1>4, <1>5, SlimTrans
<1> QED BY <1>2, <1>3, <1>6, SlimServing

LEMMA ExecCrashServing ==
  ASSUME NEW K, NEW W, NEW A, Ready(K, W, A), NEW h \in Hosts, ExecCrash(h) PROVE Serving(A)
<1> DEFINE p == Exec(h)
           T == Die(Now, p)
<1>1. p \in Daemons /\ \A g \in Hosts : p # Main(g)
  BY MainOrExec, ProcsFacts
<1>2. Now \in Situation /\ daemon[p].mode # "dead" /\ Become(T)
  BY <1>1, OrderedFacts DEF Ready, ExecCrash
<1>3. Mastered(Now, p, {}, W, A) /\ W \in [Hosts -> SUBSET End] /\ Single(W)
  BY <1>1, <1>2, NowMastered DEF Ready
<1>4. Slim(Now, T, p)
  BY <1>1, <1>2, SlimDie
<1> HIDE DEF T, p
<1>5. Mastered(T, p, {}, W, A)
  BY <1>1, <1>3, <1>4, MasteredSlim
<1>6. Served(T, W, A)
  BY <1>1, <1>5, MasteredServed
<1>7. T = [d |-> daemon', n |-> net']
  BY <1>2, <1>6 DEF Become, Served, Situation
<1> QED BY <1>3, <1>6, <1>7 DEF Serving

-----------------------------------------------------------------------------
(* The clients.  A clue is an end of a client that leads to a machine: a    *)
(* step of a client lets go of ends and learns of no other machine.         *)
Clue(k, a) ==
  \/ \E r \in Ranks : a[1] = k.line[r] /\ a[2] = k.host[r]
  \/ a[1] = k.adding /\ a[2] = k.target
Clues(C) == {a \in End \X Hosts : \E c \in Clients : Clue(C[c], a)}
Cedes(n, o) ==
  /\ o.ear = n.ear
  /\ \A e \in End : o.hold[e] \subseteq n.hold[e] /\ o.hold[e] \cap Daemons = n.hold[e] \cap Daemons
Steady(k, w) ==
  /\ \A r \in Ranks : w.line[r] = NoEnd \/ (w.line[r] = k.line[r] /\ w.host[r] = k.host[r])
  /\ w.adding = NoEnd \/ (w.adding = k.adding /\ w.target = k.target)
Yields(S, T) ==
  /\ S \in ClientSituation /\ T \in ClientSituation
  /\ Cedes(S.n, T.n) /\ Clues(T.c) \subseteq Clues(S.c)

LEMMA YieldsTrans == ASSUME NEW S, NEW T, NEW U, Yields(S, T), Yields(T, U) PROVE Yields(S, U)
BY DEF Yields, Cedes

LEMMA YieldsSame == ASSUME NEW S \in ClientSituation PROVE Yields(S, S)
BY DEF Yields, Cedes

LEMMA YieldsNet ==
  ASSUME NEW S \in ClientSituation, NEW n \in NetType, n.hold = S.n.hold, n.ear = S.n.ear,
         NEW T, T = [S EXCEPT !.n = n]
  PROVE  Yields(S, T) /\ T \in ClientSituation /\ T.c = S.c /\ T.n = n
<1>1. T \in ClientSituation /\ T.c = S.c /\ T.n = n
  BY SetClientNet DEF ClientSituation
<1> QED BY <1>1 DEF Yields, Cedes

LEMMA YieldsKeep ==
  ASSUME NEW S \in ClientSituation, NEW c \in Clients, NEW keep, NEW T, T = [S EXCEPT !.n = Keep(S.n, c, keep)]
  PROVE  Yields(S, T) /\ T \in ClientSituation
<1> DEFINE n == Keep(S.n, c, keep)
<1>1. n \in NetType /\ n.ear = S.n.ear /\ \A x \in End : n.hold[x] \in {S.n.hold[x], S.n.hold[x] \ {c}}
  BY ClientParts, KeepFacts
<1> HIDE DEF n
<1>2. T \in ClientSituation /\ T.c = S.c /\ T.n = n
  BY <1>1, SetClientNet DEF ClientSituation, n
<1>3. c \notin Daemons
  BY ClientsApart
<1>4. Cedes(S.n, T.n)
  BY <1>1, <1>2, <1>3 DEF Cedes
<1> QED BY <1>2, <1>4 DEF Yields

LEMMA SteadyClues ==
  ASSUME NEW C, NEW c \in Clients, NEW D, NEW k, Steady(C[c], k), D[c] = k,
         \A b \in Clients : b # c => D[b] = C[b]
  PROVE  Clues(D) \subseteq Clues(C)
<1> SUFFICES ASSUME NEW a \in End \X Hosts, NEW b \in Clients, Clue(D[b], a)
             PROVE  Clue(C[b], a)
  BY DEF Clues
<1>1. a[1] # NoEnd
  BY NoEndIsNoEnd
<1>2. CASE b # c
  BY <1>2
<1>3. CASE b = c
  BY <1>1, <1>3 DEF Clue, Steady
<1> QED BY <1>2, <1>3

LEMMA YieldsSet ==
  ASSUME NEW S \in ClientSituation, NEW c \in Clients, NEW k \in Kind, Steady(S.c[c], k),
         NEW T, T = [S EXCEPT !.c[c] = k]
  PROVE  Yields(S, T) /\ T \in ClientSituation /\ T.n = S.n /\ T.c[c] = k
<1>1. T \in ClientSituation /\ T.n = S.n /\ T.c = [S.c EXCEPT ![c] = k] /\ S.c \in [Clients -> Kind]
  BY SetClient, ClientParts DEF ClientSituation
<1>2. T.c[c] = k /\ \A b \in Clients : b # c => T.c[b] = S.c[b]
  BY <1>1
<1>3. Clues(T.c) \subseteq Clues(S.c)
  BY <1>2, SteadyClues
<1> QED BY <1>1, <1>2, <1>3 DEF Yields, Cedes

(* The records a client goes on to.                                         *)
LEMMA SteadyBy ==
  ASSUME NEW k, NEW w, w.line = k.line, w.host = k.host, w.adding = k.adding, w.target = k.target
  PROVE  Steady(k, w)
BY DEF Steady

LEMMA SteadyForget ==
  ASSUME NEW k \in Kind
  PROVE  /\ Steady(k, Rest(k)) /\ Rest(k) \in Kind
         /\ Steady(k, Forget(k)) /\ Forget(k) \in Kind
         /\ Steady(k, ResetClient(k)) /\ ResetClient(k) \in Kind
         /\ Steady(k, [NewClient EXCEPT !.pc = "dead"]) /\ [NewClient EXCEPT !.pc = "dead"] \in Kind
<1>1. Rest(k).line = k.line /\ Rest(k).host = k.host /\ Rest(k).adding = NoEnd
  BY DEF Rest, Kind, ClientType
<1>2. \A r \in Ranks : NoSlaves[r] = NoEnd
  BY DEF NoSlaves
<1>3. Forget(k).line = NoSlaves /\ Forget(k).adding = k.adding /\ Forget(k).target = k.target
  BY DEF Forget, Kind, ClientType
<1>4. ResetClient(k).line = NoSlaves /\ ResetClient(k).adding = k.adding /\ ResetClient(k).target = k.target
  BY DEF ResetClient, Forget, Kind, ClientType
<1>5. [NewClient EXCEPT !.pc = "dead"].line = NoSlaves /\ [NewClient EXCEPT !.pc = "dead"].adding = NoEnd
  BY DEF NewClient
<1> QED BY <1>1, <1>2, <1>3, <1>4, <1>5, RestType, ForgetType, ResetClientType, NewClientType DEF Steady

LEMMA SteadyWith ==
  ASSUME NEW k \in Kind
  PROVE  /\ \A x \in BOOLEAN : Steady(k, [k EXCEPT !.established = x])
         /\ \A x \in BOOLEAN : Steady(k, [k EXCEPT !.final = x])
         /\ \A x \in [Ranks -> Ends0 \cup {Ear}] : Steady(k, [k EXCEPT !.todo = x])
         /\ \A x \in Nat : Steady(k, [k EXCEPT !.calls = x])
BY DEF Steady, Kind, ClientType

LEMMA ClientRecord ==
  ASSUME NEW T \in ClientSituation, NEW d, NEW n, T.c = d, T.n = n, NEW c, NEW k
  PROVE  [T EXCEPT !.c[c] = k] = [c |-> [d EXCEPT ![c] = k], n |-> n]
BY DEF ClientSituation

LEMMA GoneYields ==
  ASSUME NEW S \in ClientSituation, NEW c \in Clients, NEW U, U = Gone(S, c) PROVE Yields(S, U)
<1> DEFINE w == [NewClient EXCEPT !.pc = "dead"]
           T == [S EXCEPT !.n = Keep(S.n, c, {})]
<1>1. Yields(S, T) /\ T \in ClientSituation
  BY YieldsKeep
<1>2. S.c[c] \in Kind /\ T.c = S.c /\ T.n = Keep(S.n, c, {})
  BY ClientParts DEF ClientSituation
<1>3. U = [T EXCEPT !.c[c] = w]
  <2>1. U = [c |-> [S.c EXCEPT ![c] = w], n |-> Keep(S.n, c, {})]
    BY DEF Gone
  <2> HIDE DEF T, w
  <2> QED BY <1>1, <1>2, <2>1, ClientRecord
<1>4. w \in Kind /\ Steady(T.c[c], w)
  BY <1>2, SteadyForget
<1> HIDE DEF T, w
<1>5. Yields(T, U)
  BY <1>1, <1>3, <1>4, YieldsSet
<1> QED BY <1>1, <1>5, YieldsTrans

LEMMA ReturnYields ==
  ASSUME NEW S \in ClientSituation, NEW c \in Clients, NEW U, U = Return(S, c) PROVE Yields(S, U)
<1> DEFINE k == S.c[c]
           w == Rest(k)
           T == [S EXCEPT !.c[c] = w]
           V == [T EXCEPT !.n = Keep(T.n, c, Holds(T.c[c]))]
<1>1. k \in Kind
  BY ClientParts
<1>2. U = Gone(S, c) \/ U = V
  BY DEF Return
<1>3. w \in Kind /\ Steady(k, w)
  BY <1>1, SteadyForget
<1>4. Yields(S, T) /\ T \in ClientSituation
  BY <1>3, YieldsSet
<1> HIDE DEF T, w
<1>5. Yields(T, V)
  BY <1>4, YieldsKeep
<1> HIDE DEF V
<1>6. Yields(S, V)
  BY <1>4, <1>5, YieldsTrans
<1> QED BY <1>2, <1>6, GoneYields

LEMMA SendYields ==
  ASSUME NEW S \in ClientSituation, NEW E \in SUBSET Ends0, NEW code \in Code,
         NEW T, T = [S EXCEPT !.n = SendEach(S.n, E, Msg(code))]
  PROVE  Yields(S, T) /\ T \in ClientSituation /\ T.c = S.c
<1> DEFINE n == SendEach(S.n, E, Msg(code))
<1>1. n \in NetType /\ n.hold = S.n.hold /\ n.ear = S.n.ear
  BY ClientParts, SendEachType, MsgIsMessage
<1> HIDE DEF n
<1>2. T = [S EXCEPT !.n = n]
  BY DEF n
<1> QED BY <1>1, <1>2, YieldsNet

LEMMA ReceiveYields ==
  ASSUME NEW S \in ClientSituation, NEW e, NEW T, T = [S EXCEPT !.n = Receive(S.n, e)]
  PROVE  Yields(S, T) /\ T \in ClientSituation /\ T.c = S.c
<1> DEFINE n == Receive(S.n, e)
<1>1. n \in NetType /\ n.hold = S.n.hold /\ n.ear = S.n.ear
  BY ClientParts, ReceiveType
<1> HIDE DEF n
<1>2. T = [S EXCEPT !.n = n]
  BY DEF n
<1> QED BY <1>1, <1>2, YieldsNet

LEMMA AskYields ==
  ASSUME NEW S \in ClientSituation, NEW c \in Clients, NEW phase \in Phase \ {"add"},
         NEW q \in Ranks \X Ranks, NEW U, U = Ask(S, c, phase, q)
  PROVE  Yields(S, U)
<1> DEFINE k == S.c[c]
           e == k.line[q[1]]
           w == [k EXCEPT !.pc = phase, !.pos = q[1], !.peer = q[2]]
           n == Send(S.n, e, Request(k, phase, q))
           T == [S EXCEPT !.n = n]
           V == [T EXCEPT !.c[c] = w]
<1>1. k \in Kind /\ S.c \in [Clients -> Kind]
  BY ClientParts
<1>2. n \in NetType /\ n.hold = S.n.hold /\ n.ear = S.n.ear
  BY <1>1, ClientParts, RequestType, SendType
<1>3. w \in Kind /\ Steady(k, w)
  <2> DEFINE a == [k EXCEPT !.pc = phase]
             b == [a EXCEPT !.pos = q[1]]
  <2>1. a \in Kind
    BY <1>1, KindWith DEF ClientPc
  <2> HIDE DEF a
  <2>2. b \in Kind
    BY <2>1, KindWith
  <2> HIDE DEF b
  <2>3. [b EXCEPT !.peer = q[2]] \in Kind
    BY <2>2, KindWith
  <2>4. w = [b EXCEPT !.peer = q[2]]
    BY DEF a, b
  <2>5. w.line = k.line /\ w.host = k.host /\ w.adding = k.adding /\ w.target = k.target
    BY <1>1 DEF Kind, ClientType
  <2> QED BY <2>3, <2>4, <2>5, SteadyBy
<1>4. U = Return(S, c) \/ U = V
  <2>1. [S.c EXCEPT ![c].pc = phase, ![c].pos = q[1], ![c].peer = q[2]] = [S.c EXCEPT ![c] = w]
    BY <1>1
  <2>2. V = [c |-> [S.c EXCEPT ![c] = w], n |-> n]
    <3>1. T \in ClientSituation /\ T.c = S.c /\ T.n = n
      <4> HIDE DEF n
      <4> QED BY <1>2, YieldsNet
    <3> HIDE DEF T, n, w
    <3> QED BY <3>1, ClientRecord
  <2>3. U = Return(S, c) \/ U = [c |-> [S.c EXCEPT ![c].pc = phase, ![c].pos = q[1], ![c].peer = q[2]], n |-> n]
    BY DEF Ask
  <2> QED BY <2>1, <2>2, <2>3
<1> HIDE DEF n, w
<1>5. Yields(S, T) /\ T \in ClientSituation /\ T.c = S.c
  BY <1>2, YieldsNet
<1> HIDE DEF T
<1>6. Yields(T, V)
  BY <1>3, <1>5, YieldsSet
<1> HIDE DEF V
<1>7. Yields(S, V)
  BY <1>5, <1>6, YieldsTrans
<1> QED BY <1>4, <1>7, ReturnYields

LEMMA AskFirstYields ==
  ASSUME NEW S \in ClientSituation, NEW c \in Clients, NEW phase \in Phase \ {"add"}, NEW U, U = AskFirst(S, c, phase)
  PROVE  Yields(S, U)
<1> DEFINE q == Least(Requests(S.c[c], phase))
<1>1. q \in Ranks \X Ranks
  BY ClientParts, RequestsType, LeastType
<1>2. U = Ask(S, c, phase, q)
  BY DEF AskFirst
<1> HIDE DEF q
<1> QED BY <1>1, <1>2, AskYields

LEMMA StartRunYields ==
  ASSUME NEW S \in ClientSituation, NEW c \in Clients, NEW U, U = StartRun(S, c) PROVE Yields(S, U)
<1> DEFINE k == S.c[c]
           w == [k EXCEPT !.established = TRUE]
           lines == SlaveLines(k)
           T == [S EXCEPT !.c[c] = w]
           V == [T EXCEPT !.n = SendEach(T.n, lines, Msg("InitialData"))]
<1>1. k \in Kind /\ lines \in SUBSET Ends0
  BY SlavesType, ClientParts
<1>2. w \in Kind /\ Steady(k, w)
  BY <1>1, KindWith, SteadyWith
<1>3. U = AskFirst(T, c, "run") \/ U = Return(V, c) \/ U = AskFirst(V, c, "run")
  BY DEF StartRun
<1> HIDE DEF lines, w
<1>4. Yields(S, T) /\ T \in ClientSituation
  BY <1>2, YieldsSet
<1> HIDE DEF T
<1>5. Yields(T, V) /\ V \in ClientSituation
  BY <1>1, <1>4, SendYields, CodeFacts
<1> HIDE DEF V
<1>6. "run" \in Phase \ {"add"}
  BY DEF Phase
<1>7. Yields(T, U) \/ Yields(V, U)
  BY <1>3, <1>4, <1>5, <1>6, AskFirstYields, ReturnYields
<1> QED BY <1>4, <1>5, <1>7, YieldsTrans

LEMMA StartAllYields ==
  ASSUME NEW S \in ClientSituation, NEW c \in Clients, NEW X, X = StartAll(S, c) PROVE Yields(S, X)
<1> DEFINE k == S.c[c]
           broken == {r \in Slaves(k) : Broken(S.n, k.line[r])}
           told == {k.line[r] : r \in {q \in Slaves(k) : \A b \in broken : q < b}}
           T == [S EXCEPT !.n = SendEach(S.n, told, Msg("Start"))]
           w == [k EXCEPT !.pc = "probe", !.pos = 0, !.quit = FALSE, !.watch = "set", !.cache = k.line]
           U == [T EXCEPT !.c[c] = w]
           Y == [U EXCEPT !.n = Keep(U.n, c, Holds(U.c[c]))]
<1>1. k \in Kind /\ k.line \in [Ranks -> Ends0] /\ Slaves(k) \in SUBSET Ranks /\ S.c \in [Clients -> Kind]
  BY ClientParts, KindBools, SlavesType
<1>2. told \in SUBSET Ends0
  <2> HIDE DEF k, broken
  <2> QED BY <1>1
<1>3. w \in Kind /\ Steady(k, w)
  <2> DEFINE a == [k EXCEPT !.pc = "probe"]
             b == [a EXCEPT !.pos = 0]
             d == [b EXCEPT !.quit = FALSE]
             f == [d EXCEPT !.watch = "set"]
             g == [f EXCEPT !.cache = k.line]
  <2>0. w = g /\ w.line = k.line /\ w.host = k.host /\ w.adding = k.adding /\ w.target = k.target
    BY <1>1 DEF Kind, ClientType
  <2>1. a \in Kind
    BY <1>1, KindWith DEF ClientPc
  <2> HIDE DEF a, w, k
  <2>2. b \in Kind
    BY <2>1, KindWith, RanksFacts
  <2> HIDE DEF b
  <2>3. d \in Kind
    BY <2>2, KindWith
  <2> HIDE DEF d
  <2>4. f \in Kind
    BY <2>3, KindWith
  <2> HIDE DEF f
  <2>5. g \in Kind
    BY <1>1, <2>4, KindWith
  <2> HIDE DEF g
  <2> QED BY <2>0, <2>5, SteadyBy
<1>4. X = Return(T, c) \/ X = Y
  <2> DEFINE V == [T EXCEPT !.c[c].pc = "probe", !.c[c].pos = 0, !.c[c].quit = FALSE,
                            !.c[c].watch = "set", !.c[c].cache = k.line]
  <2>1. T \in ClientSituation /\ T.c = S.c
    <3> HIDE DEF told
    <3> QED BY <1>2, SendYields, CodeFacts
  <2>2. V = U
    <3>1. T.c[c] = k
      BY <2>1
    <3> HIDE DEF T, told, k
    <3>2. T.c \in [Clients -> Kind]
      BY <1>1, <2>1, ClientParts
    <3>3. V.n = T.n /\ U.n = T.n /\ DOMAIN V = {"c", "n"} /\ DOMAIN U = {"c", "n"}
      BY <2>1 DEF ClientSituation
    <3>4. U.c = [T.c EXCEPT ![c] = w]
      BY <2>1 DEF ClientSituation
    <3>5. V.c = [T.c EXCEPT ![c].pc = "probe", ![c].pos = 0, ![c].quit = FALSE,
                            ![c].watch = "set", ![c].cache = k.line]
      BY <2>1 DEF ClientSituation
    <3>7. V = [x \in {"c", "n"} |-> V[x]] /\ U = [x \in {"c", "n"} |-> U[x]]
      BY <2>1 DEF ClientSituation
    <3> HIDE DEF U, V
    <3>6. V.c = U.c
      BY <3>1, <3>2, <3>4, <3>5
    <3> QED BY <3>3, <3>6, <3>7
  <2>3. X = Return(T, c) \/ X = [V EXCEPT !.n = Keep(V.n, c, Holds(V.c[c]))]
    BY DEF StartAll
  <2> HIDE DEF U, V
  <2> QED BY <2>2, <2>3
<1> HIDE DEF told, w
<1>5. Yields(S, T) /\ T \in ClientSituation /\ T.c = S.c
  BY <1>2, SendYields, CodeFacts
<1> HIDE DEF T
<1>6. Yields(T, U) /\ U \in ClientSituation
  BY <1>3, <1>5, YieldsSet
<1> HIDE DEF U
<1>7. Yields(U, Y)
  BY <1>6, YieldsKeep
<1> HIDE DEF Y
<1> QED BY <1>4, <1>5, <1>6, <1>7, ReturnYields, YieldsTrans

LEMMA DissolveYields ==
  ASSUME NEW S \in ClientSituation, NEW c \in Clients, NEW U, U = Dissolve(S, c) PROVE Yields(S, U)
<1> DEFINE k == S.c[c]
           w == [k EXCEPT !.established = FALSE]
           T == [S EXCEPT !.c[c] = w]
<1>1. k \in Kind
  BY ClientParts
<1>2. w \in Kind /\ Steady(k, w)
  BY <1>1, KindWith, SteadyWith
<1>3. U = Return(S, c) \/ U = AskFirst(T, c, "prepare")
  BY DEF Dissolve
<1> HIDE DEF w
<1>4. Yields(S, T) /\ T \in ClientSituation
  BY <1>2, YieldsSet
<1> HIDE DEF T
<1>5. "prepare" \in Phase \ {"add"}
  BY DEF Phase
<1>6. Yields(S, U) \/ Yields(T, U)
  BY <1>3, <1>4, <1>5, AskFirstYields, ReturnYields
<1> QED BY <1>4, <1>6, YieldsTrans

LEMMA LetGoYields ==
  ASSUME NEW S \in ClientSituation, NEW c \in Clients, NEW w, w \in {Forget(S.c[c]), ResetClient(S.c[c])},
         NEW T, T = [S EXCEPT !.c[c] = w]
  PROVE  Yields(S, T) /\ T \in ClientSituation
<1>1. S.c[c] \in Kind
  BY ClientParts
<1>2. w \in Kind /\ Steady(S.c[c], w)
  BY <1>1, SteadyForget
<1> QED BY <1>2, YieldsSet

LEMMA DissolvedYields ==
  ASSUME NEW S \in ClientSituation, NEW c \in Clients, NEW U, U = Dissolved(S, c) PROVE Yields(S, U)
<1> DEFINE T == [S EXCEPT !.c[c] = Forget(S.c[c])]
<1>1. U = Return(T, c)
  BY DEF Dissolved
<1>2. Yields(S, T) /\ T \in ClientSituation
  BY LetGoYields
<1> HIDE DEF T
<1> QED BY <1>1, <1>2, ReturnYields, YieldsTrans

LEMMA EndPhaseYields ==
  ASSUME NEW S \in ClientSituation, NEW c \in Clients, NEW phase, NEW U, U = EndPhase(S, c, phase)
  PROVE  Yields(S, U)
<1>1. \/ \E next \in Phase \ {"add"} : U = AskFirst(S, c, next)
      \/ U = StartRun(S, c) \/ U = StartAll(S, c) \/ U = Dissolved(S, c)
  <2>1. "connect" \in Phase \ {"add"} /\ "group" \in Phase \ {"add"} /\ "leave" \in Phase \ {"add"}
    BY DEF Phase
  <2> QED BY <2>1 DEF EndPhase
<1> QED BY <1>1, AskFirstYields, StartRunYields, StartAllYields, DissolvedYields

LEMMA AgreedYields ==
  ASSUME NEW S \in ClientSituation, NEW c \in Clients, S.c[c].pc \in Phase \ {"add"}, NEW U, U = Agreed(S, c)
  PROVE  Yields(S, U)
<1> DEFINE k == S.c[c]
           q == NextRequest(k, k.pc, <<k.pos, k.peer>>)
<1>1. q \in Ranks \X Ranks
  BY ClientParts, NextRequestType
<1>2. U = Ask(S, c, S.c[c].pc, q) \/ U = EndPhase(S, c, S.c[c].pc)
  BY DEF Agreed
<1> HIDE DEF q
<1> QED BY <1>1, <1>2, AskYields, EndPhaseYields

LEMMA RefusedYields ==
  ASSUME NEW S \in ClientSituation, NEW c \in Clients, NEW U, U = Refused(S, c) PROVE Yields(S, U)
<1> DEFINE T == [S EXCEPT !.c[c] = ResetClient(S.c[c])]
<1>1. U = AskFirst(S, c, "leave") \/ U = Dissolved(S, c) \/ U = Return(T, c)
  BY DEF Refused
<1>2. Yields(S, T) /\ T \in ClientSituation /\ "leave" \in Phase \ {"add"}
  BY LetGoYields DEF Phase
<1> HIDE DEF T
<1> QED BY <1>1, <1>2, AskFirstYields, DissolvedYields, ReturnYields, YieldsTrans

LEMMA DoneYields ==
  ASSUME NEW S \in ClientSituation, NEW c \in Clients, NEW U, U = Done(S, c) PROVE Yields(S, U)
<1> DEFINE k == S.c[c]
           done == k.done + 1
           full == done >= Cardinality(Slaves(k))
           quit == k.quit \/ full
           todo == IF full THEN NoSlaves ELSE k.todo
           w == [k EXCEPT !.done = done, !.quit = quit, !.todo = todo]
<1>1. U \in ClientSituation /\ k \in Kind /\ S.c \in [Clients -> Kind]
  BY DoneType, ClientParts
<1>2. U.n = S.n /\ U.c = [S.c EXCEPT ![c] = w]
  BY <1>1 DEF Done, ClientSituation
<1>3. U.c[c] = w /\ \A b \in Clients : b # c => U.c[b] = S.c[b]
  BY <1>1, <1>2
<1>4. w.line = k.line /\ w.host = k.host /\ w.adding = k.adding /\ w.target = k.target
  BY <1>1 DEF Kind, ClientType
<1> HIDE DEF w
<1>5. Steady(k, w)
  BY <1>4, SteadyBy
<1>6. Clues(U.c) \subseteq Clues(S.c)
  BY <1>3, <1>5, SteadyClues
<1> QED BY <1>1, <1>2, <1>6 DEF Yields, Cedes

LEMMA ProcessSlaveYields ==
  ASSUME NEW S \in ClientSituation, NEW c \in Clients, NEW e, NEW U, U = ProcessSlave(S, c, e)
  PROVE  Yields(S, U)
<1> DEFINE T == [S EXCEPT !.n = Receive(S.n, e)]
           quiet == [ResetClient(T.c[c]) EXCEPT !.todo = NoSlaves]
           stopped == [T EXCEPT !.c[c] = quiet]
           told == [stopped EXCEPT !.n = SendEach(stopped.n, SlaveLines(T.c[c]), Msg("Renegade"))]
           left == [S EXCEPT !.c[c] = ResetClient(S.c[c])]
<1>1. U \in {left, Done(T, c), stopped, told, S}
  BY DEF ProcessSlave
<1>2. Yields(S, T) /\ T \in ClientSituation
  BY ReceiveYields
<1> HIDE DEF T
<1>3. quiet \in Kind /\ Steady(T.c[c], quiet)
  <2> DEFINE k == T.c[c]
             r == ResetClient(k)
  <2>1. k \in Kind
    BY <1>2, ClientParts
  <2> HIDE DEF k
  <2>2. r \in Kind /\ Steady(k, r)
    BY <2>1, SteadyForget
  <2> HIDE DEF r
  <2>3. [r EXCEPT !.todo = NoSlaves] \in Kind /\ Steady(r, [r EXCEPT !.todo = NoSlaves])
    BY <2>2, KindWith, SteadyWith, NewClientType
  <2> QED BY <2>2, <2>3 DEF Steady, k, r
<1> HIDE DEF quiet
<1>4. Yields(T, stopped) /\ stopped \in ClientSituation
  BY <1>2, <1>3, YieldsSet
<1>5. SlaveLines(T.c[c]) \in SUBSET Ends0
  BY <1>2, ClientParts, SlavesType
<1> HIDE DEF stopped
<1>6. Yields(stopped, told)
  BY <1>4, <1>5, SendYields, CodeFacts
<1>7. Yields(S, left)
  BY LetGoYields
<1>8. Yields(T, Done(T, c)) /\ Yields(S, S)
  BY <1>2, DoneYields, YieldsSame
<1> HIDE DEF told, left
<1> QED BY <1>1, <1>2, <1>4, <1>6, <1>7, <1>8, YieldsTrans

LEMMA EndRoundYields ==
  ASSUME NEW S \in ClientSituation, NEW c \in Clients, NEW U, U = EndRound(S, c) PROVE Yields(S, U)
<1>1. U = S \/ U = Dissolve(S, c) \/ U = [S EXCEPT !.n = Keep(S.n, c, Holds(S.c[c]))]
  BY DEF EndRound
<1>2. Yields(S, S)
  BY YieldsSame
<1> QED BY <1>1, <1>2, DissolveYields, YieldsKeep

LEMMA DisconnectYields ==
  ASSUME NEW S \in ClientSituation, NEW c \in Clients, NEW U, U = SendDisconnect(S, c) PROVE Yields(S, U)
<1> DEFINE lines == SlaveLines(S.c[c])
           T == [S EXCEPT !.n = SendEach(S.n, lines, Msg("Disconnect"))]
           V == [T EXCEPT !.c[c] = Forget(T.c[c])]
<1>1. U = Return(T, c) \/ U = Return(V, c)
  BY DEF SendDisconnect
<1>2. lines \in SUBSET Ends0
  BY ClientParts, SlavesType
<1> HIDE DEF lines
<1>3. Yields(S, T) /\ T \in ClientSituation
  BY <1>2, SendYields, CodeFacts
<1> HIDE DEF T
<1>4. Yields(T, V) /\ V \in ClientSituation
  BY <1>3, LetGoYields
<1> HIDE DEF V
<1>5. Yields(T, U) \/ Yields(V, U)
  BY <1>1, <1>3, <1>4, ReturnYields
<1> QED BY <1>3, <1>4, <1>5, YieldsTrans

-----------------------------------------------------------------------------
(* The invariant of a session with the machines' masters.                   *)
Manned(C, n, D) == \E V \in [Hosts -> SUBSET End] : Served(World(n, D), V, Clues(C)) /\ Single(V)
MInv == CInv /\ Manned(client, net, daemon)

LEMMA MannedReady ==
  ASSUME MInv
  PROVE  \E W : Ready(Leased(client), W, Clues(client))
<1>1. Ordered(Leased(client)) /\ Now = World(net, daemon)
  BY InvParts DEF MInv, Now, World
<1>2. PICK V \in [Hosts -> SUBSET End] : Served(Now, V, Clues(client)) /\ Single(V)
  BY <1>1 DEF MInv, Manned
<1> DEFINE W == [h \in Hosts |-> Masters(net, h)]
<1>3. Now.n = net
  BY DEF Now
<1>4. \A h \in Hosts : W[h] = Masters(net, h) /\ Masters(net, h) \subseteq V[h] /\ Masters(net, h) \subseteq End
  BY <1>2, <1>3 DEF Served, Masters
<1>5. W \in [Hosts -> SUBSET End] /\ Single(W)
  BY <1>2, <1>4 DEF Single
<1>6. Served(Now, W, Clues(client))
  BY <1>2, <1>3, <1>4 DEF Served
<1> QED BY <1>1, <1>4, <1>5, <1>6 DEF Ready

LEMMA ServingManned ==
  ASSUME Serving(Clues(client)), client' = client
  PROVE  Manned(client', net', daemon')
<1>1. World(net', daemon') = [d |-> daemon', n |-> net']
  BY DEF World
<1> QED BY <1>1 DEF Serving, Manned

(* What a client uses is its own, so a clue is an end of a client.          *)
LEMMA CluesOwned ==
  ASSUME NEW C, NEW n, NEW D, Whole(C, n, D), NEW a \in Clues(C)
  PROVE  a[1] \in End /\ n.hold[a[1]] \cap Clients # {}
<1>1. PICK c \in Clients : Clue(C[c], a)
  BY DEF Clues
<1>2. a[1] \in End /\ a[1] # NoEnd
  BY NoEndIsNoEnd DEF Clues
<1>3. Sound(C[c], c, n, D)
  BY DEF Whole
<1>4. a[1] = C[c].adding \/ \E r \in Ranks : a[1] = C[c].line[r] \/ a[1] = C[c].cache[r]
  BY <1>1 DEF Clue
<1>5. n.hold[a[1]] = {c}
  BY <1>2, <1>3, <1>4, SoundHolds
<1> QED BY <1>2, <1>5

(* A step in which a client only lets go.                                   *)
LEMMA YieldsManned ==
  ASSUME MInv, CInv', daemon' = daemon, NEW T, Yields(Here, T), Act(T)
  PROVE  Manned(client', net', daemon')
<1> DEFINE S == World(net, daemon)
           U == World(net', daemon')
<1>1. /\ net \in NetType /\ daemon \in [Daemons -> DaemonType] /\ net' \in NetType
      /\ Whole(client', net', daemon')
  <2>1. CInv /\ net' = T.n /\ T \in ClientSituation
    BY DEF MInv, Act, Yields
  <2>2. net' \in NetType
    BY <2>1 DEF ClientSituation
  <2> QED BY <2>1, <2>2, InvParts DEF Tidy, CInv
<1>2. PICK V \in [Hosts -> SUBSET End] : Served(S, V, Clues(client)) /\ Single(V)
  BY DEF MInv, Manned
<1>3. S \in Situation /\ S.n = net /\ S.d = daemon /\ U \in Situation /\ U.n = net' /\ U.d = daemon
  <2>1. daemon' = daemon
    OBVIOUS
  <2> HIDE DEF S, U
  <2> QED BY <1>1, <2>1, WorldFacts DEF S, U
<1>4. /\ net'.ear = net.ear /\ Clues(client') \subseteq Clues(client)
      /\ \A e \in End : net'.hold[e] \subseteq net.hold[e] /\ net'.hold[e] \cap Daemons = net.hold[e] \cap Daemons
  BY DEF Yields, Cedes, Act, Here
<1> HIDE DEF S, U
<1>5. \A h \in Hosts : Queue(net', h) = Queue(net, h)
  BY <1>4 DEF Queue
<1>6. ASSUME NEW q \in Daemons PROVE \A e \in End : q \in net'.hold[e] <=> q \in net.hold[e]
  BY <1>4
<1>7. ASSUME NEW h \in Hosts PROVE Masters(net', h) \subseteq V[h] /\ Kempt(U, h)
  <2>1. Masters(net, h) \subseteq V[h] /\ Kempt(S, h)
    BY <1>2, <1>3 DEF Served
  <2>2. Main(h) \in Daemons /\ Machine(h) \subseteq Daemons
    BY ProcsFacts DEF Machine
  <2>3. Masters(net', h) \subseteq Masters(net, h)
    BY <1>4, <1>5, OtherIsEnd DEF Masters
  <2>4. Kempt(U, h)
    BY <1>3, <1>5, <1>6, <2>1, <2>2 DEF Kempt
  <2> QED BY <2>1, <2>3, <2>4
<1>8. Staid(net', Clues(client'))
  <2> SUFFICES ASSUME NEW a \in Clues(client')
               PROVE  a[1] \in End /\ net'.hold[a[1]] \cap Clients # {} /\ Leads(net', a[1], a[2])
    BY DEF Staid
  <2>1. a[1] \in End /\ net'.hold[a[1]] \cap Clients # {}
    BY <1>1, CluesOwned
  <2>2. Leads(net, a[1], a[2])
    BY <1>2, <1>3, <1>4 DEF Served, Staid
  <2> QED BY <1>4, <2>1, <2>2, OtherIsEnd DEF Leads
<1>9. \A q \in Daemons : /\ U.d[q].todo[EarSlot] = NoEnd
                         /\ q[2] # "main" /\ U.d[q].mode = "dead" => Bare(U.n, q)
  BY <1>2, <1>3, <1>6 DEF Served, Bare
<1>10. Served(U, V, Clues(client'))
  BY <1>3, <1>7, <1>8, <1>9 DEF Served
<1> QED BY <1>2, <1>10 DEF Manned, U

(* A step in which somebody who is no daemon connects to the machine h: the *)
(* new clue, if there is one, is his end of the line.                       *)
LEMMA OpensManned ==
  ASSUME MInv, CInv', daemon' = daemon, NEW l, NEW who, NEW h, NEW m, Opens(net, net', l, who, h, m),
         \A a \in Clues(client') : a \in Clues(client) \/ (a[1] = <<l, "near">> /\ a[2] = h)
  PROVE  Manned(client', net', daemon')
<1> DEFINE S == World(net, daemon)
           U == World(net', daemon')
           near == <<l, "near">>
           far == <<l, "far">>
<1>1. /\ net \in NetType /\ daemon \in [Daemons -> DaemonType] /\ Whole(client', net', daemon')
      /\ Whole(client, net, daemon)
  BY InvParts DEF Tidy, CInv, MInv
<1>2. /\ FreeLines(net) # {} /\ l = NewLine(net) /\ who \in SUBSET Clients /\ who \in SUBSET Procs
      /\ h \in Hosts /\ m \in Message /\ net' = Connect(net, l, who, h, m)
  BY ClientsApart DEF Opens
<1>3. net' \in NetType /\ Plugged(net, net', l, who, h, m)
  BY <1>1, <1>2, ConnectFacts
<1>4. PICK V \in [Hosts -> SUBSET End] : Served(S, V, Clues(client)) /\ Single(V)
  BY DEF MInv, Manned
<1>5. S \in Situation /\ S.n = net /\ S.d = daemon /\ U \in Situation /\ U.n = net' /\ U.d = daemon
  <2>1. daemon' = daemon
    OBVIOUS
  <2> HIDE DEF S, U
  <2> QED BY <1>1, <1>3, <2>1, WorldFacts DEF S, U
<1>6. /\ near \in End /\ far \in End
      /\ Other(near) = far /\ Other(far) = near
      /\ net.hold[near] = {} /\ net.hold[far] = {}
      /\ \A x \in End : x # near /\ x # far => Other(x) # near /\ Other(x) # far
  BY <1>1, <1>2, FreeLineEnds
<1>7. /\ \A x \in End : x # near /\ x # far => net'.hold[x] = net.hold[x]
      /\ net'.hold[near] = who /\ net'.hold[far] = {Main(h)}
  BY <1>3 DEF Plugged
<1>8. \A g \in Hosts : Main(g) \notin who /\ Exec(g) \notin who
  <2>1. Daemons \cap Clients = {}
    BY WireAssumption DEF Daemons
  <2> QED BY <1>2, <2>1, ProcsFacts
<1>9. ASSUME NEW g \in Hosts
      PROVE  /\ Masters(net', g) \subseteq Masters(net, g)
             /\ Queue(net', g) = Queue(net, g) \cup (IF g = h THEN {far} ELSE {})
  <2> DEFINE n == net
             o == net'
  <2>1. /\ n \in NetType /\ o \in NetType /\ FreeLines(n) # {} /\ l = NewLine(n)
        /\ who \in SUBSET Procs /\ Plugged(n, o, l, who, h, m)
        /\ Exec(g) \notin who /\ Main(g) \notin who
    BY <1>1, <1>2, <1>3, <1>8
  <2> HIDE DEF n, o
  <2>2. /\ Masters(o, g) \subseteq Masters(n, g)
        /\ Queue(o, g) = Queue(n, g) \cup (IF g = h THEN {<<l, "far">>} ELSE {})
    BY <1>2, <2>1, MastersPlugged
  <2> QED BY <2>2 DEF n, o
<1> HIDE DEF S, U, near, far
<1>10. ASSUME NEW g \in Hosts PROVE Masters(net', g) \subseteq V[g] /\ Kempt(U, g)
  <2>1. Masters(net, g) \subseteq V[g] /\ Kempt(S, g)
    BY <1>4, <1>5 DEF Served
  <2>2. Queue(net, g) \subseteq Queue(net', g) /\ (g = h => far \in Queue(net', g))
    BY <1>9
  <2>3. \A e \in End : Main(g) \in net'.hold[e] => Main(g) \in net.hold[e] \/ e \in Queue(net', g)
    <3> SUFFICES ASSUME NEW e \in End, Main(g) \in net'.hold[e], Main(g) \notin net.hold[e]
                 PROVE  e \in Queue(net', g)
      OBVIOUS
    <3>1. e = far
      BY <1>7, <1>8
    <3>2. Main(g) = Main(h)
      BY <1>7, <3>1
    <3>3. g = h
      BY <3>2 DEF Main
    <3> QED BY <2>2, <3>1, <3>3
  <2>4. Kempt(U, g)
    BY <1>5, <2>1, <2>2, <2>3 DEF Kempt
  <2> QED BY <1>9, <2>1, <2>4
<1>11. Staid(net', Clues(client'))
  <2> SUFFICES ASSUME NEW a \in Clues(client')
               PROVE  a[1] \in End /\ net'.hold[a[1]] \cap Clients # {} /\ Leads(net', a[1], a[2])
    BY DEF Staid
  <2>1. a[1] \in End /\ net'.hold[a[1]] \cap Clients # {}
    BY <1>1, CluesOwned
  <2>2. CASE a \in Clues(client)
    <3>1. net.hold[a[1]] \cap Clients # {} /\ Leads(net, a[1], a[2])
      BY <1>4, <1>5, <2>2 DEF Served, Staid
    <3>2. a[1] # near /\ a[1] # far
      BY <1>6, <3>1
    <3>3. Other(a[1]) \in End /\ Other(a[1]) # near /\ Other(a[1]) # far
      BY <1>6, <2>1, <3>2, OtherIsEnd
    <3> QED BY <1>7, <2>1, <3>1, <3>3 DEF Leads
  <2>3. CASE a[1] = near /\ a[2] = h
    BY <1>6, <1>7, <2>1, <2>3 DEF Leads, Machine
  <2> QED BY <2>2, <2>3 DEF near
<1>12. ASSUME NEW q \in Daemons, q[2] # "main", U.d[q].mode = "dead" PROVE Bare(U.n, q)
  <2>1. Bare(net, q)
    BY <1>4, <1>5, <1>12 DEF Served
  <2>2. q # Main(h)
    BY <1>12 DEF Main
  <2>3. q \notin who
    BY <1>2, ClientsApart
  <2> QED BY <1>5, <1>7, <2>1, <2>2, <2>3 DEF Bare
<1>13. Served(U, V, Clues(client'))
  BY <1>4, <1>5, <1>10, <1>11, <1>12 DEF Served
<1> QED BY <1>4, <1>13 DEF Manned, U

-----------------------------------------------------------------------------
(* Every action of a client but those that connect.                         *)
Withdraws == \E T : Yields(Here, T) /\ Act(T)

LEMMA HereYields ==
  ASSUME TypedClient, NEW S, Yields(Here, S), NEW T, Yields(S, T), Act(T) PROVE Withdraws
BY YieldsTrans DEF Withdraws

LEMMA CallYields ==
  ASSUME TypedClient, NEW c \in Clients, NEW S, S = [Here EXCEPT !.c[c].calls = client[c].calls + 1]
  PROVE  Yields(Here, S) /\ S \in ClientSituation
<1>1. client[c] \in Kind /\ Here \in ClientSituation /\ Here.c = client
  BY HereType DEF TypedClient
<1> DEFINE x == client[c].calls + 1
           k == [client[c] EXCEPT !.calls = x]
<1>2. x \in Nat
  BY <1>1, KindBools
<1> HIDE DEF x
<1>3. k \in Kind /\ Steady(Here.c[c], k)
  BY <1>1, <1>2, KindWith, SteadyWith
<1>4. S = [Here EXCEPT !.c[c] = k]
  BY <1>1 DEF Here, x
<1> HIDE DEF k
<1> QED BY <1>1, <1>3, <1>4, YieldsSet

LEMMA AddedYields == ASSUME TypedClient, NEW c \in Clients, Added(c) PROVE Withdraws
<1> DEFINE k == client[c]
           S == [Here EXCEPT !.n = Receive(Here.n, k.adding)]
           w == Slave(k)
           T == [S EXCEPT !.c[c] = w]
           U == Return(IF Peek(net, k.adding).tag = "OK" THEN T ELSE S, c)
<1>1. k \in Kind /\ k.pc = "add" /\ Here \in ClientSituation /\ Here.c = client
  BY HereType DEF TypedClient, Added
<1>2. Yields(Here, S) /\ S \in ClientSituation /\ S.c = client
  BY <1>1, ReceiveYields
<1>3. w \in Kind
  BY <1>1, SlaveFacts
<1>4. Clues([client EXCEPT ![c] = w]) \subseteq Clues(client)
  <2> SUFFICES ASSUME NEW a \in End \X Hosts, NEW b \in Clients, Clue([client EXCEPT ![c] = w][b], a)
               PROVE  Clue(client[b], a)
    BY DEF Clues
  <2>1. client \in [Clients -> Kind]
    BY DEF TypedClient
  <2>2. CASE b # c
    BY <2>1, <2>2
  <2>3. CASE b = c
    <3>1. Clue(w, a)
      BY <2>1, <2>3
    <3>2. /\ w.line = [k.line EXCEPT ![k.counter] = k.adding] /\ w.host = [k.host EXCEPT ![k.counter] = k.target]
          /\ w.adding = k.adding /\ w.target = k.target
      BY <1>1 DEF Slave, Kind, ClientType
    <3>3. k.line \in [Ranks -> Ends0] /\ k.host \in [Ranks -> Hosts \cup {NoHost}]
      BY <1>1, KindBools
    <3> HIDE DEF w
    <3>4. \A r \in Ranks : \/ w.line[r] = k.line[r] /\ w.host[r] = k.host[r]
                           \/ w.line[r] = k.adding /\ w.host[r] = k.target
      BY <3>2, <3>3
    <3> QED BY <2>3, <3>1, <3>2, <3>4 DEF Clue
  <2> QED BY <2>2, <2>3
<1>5. Act(U)
  BY DEF Added, Slave
<1>6. T \in ClientSituation /\ T.c = [client EXCEPT ![c] = w] /\ T.n = S.n
  <2> HIDE DEF S, w
  <2> QED BY <1>2, <1>3, SetClient DEF ClientSituation
<1> HIDE DEF S, w, T
<1>7. Yields(S, T)
  BY <1>2, <1>4, <1>6 DEF Yields, Cedes
<1>8. Yields(S, Return(S, c)) /\ Yields(T, Return(T, c))
  BY <1>2, <1>6, ReturnYields
<1>9. Yields(Here, U)
  BY <1>2, <1>7, <1>8, YieldsTrans
<1> QED BY <1>5, <1>9 DEF Withdraws

LEMMA RemoveAllYields == ASSUME TypedClient, NEW c \in Clients, RemoveAll(c) PROVE Withdraws
<1> DEFINE S == [Here EXCEPT !.c[c].calls = client[c].calls + 1]
<1>1. Yields(Here, S) /\ S \in ClientSituation
  BY CallYields
<1>2. Act(SendDisconnect(S, c))
  BY DEF RemoveAll, Here
<1> HIDE DEF S
<1> QED BY <1>1, <1>2, DisconnectYields, HereYields

LEMMA CallRunYields == ASSUME TypedClient, NEW c \in Clients, CallRun(c) PROVE Withdraws
<1> DEFINE S == [Here EXCEPT !.c[c].calls = client[c].calls + 1]
<1>1. Yields(Here, S) /\ S \in ClientSituation
  BY CallYields
<1>2. Act(AskFirst(S, c, "peers")) /\ "peers" \in Phase \ {"add"}
  BY DEF CallRun, Here, Phase
<1> HIDE DEF S
<1> QED BY <1>1, <1>2, AskFirstYields, HereYields

LEMMA DestroyYields == ASSUME TypedClient, NEW c \in Clients, Destroy(c) PROVE Withdraws
<1> DEFINE k == [client[c] EXCEPT !.final = TRUE]
           S == [Here EXCEPT !.c[c].final = TRUE]
<1>1. client[c] \in Kind /\ Here \in ClientSituation /\ Here.c = client
  BY HereType DEF TypedClient
<1>2. k \in Kind /\ Steady(Here.c[c], k)
  BY <1>1, KindWith, SteadyWith
<1>3. S = [Here EXCEPT !.c[c] = k]
  BY <1>1 DEF Here
<1>4. Act(Gone(S, c)) \/ Act(Dissolve(S, c)) \/ Act(SendDisconnect(S, c))
  BY DEF Destroy
<1> HIDE DEF S, k
<1>5. Yields(Here, S) /\ S \in ClientSituation
  BY <1>1, <1>2, <1>3, YieldsSet
<1> QED BY <1>4, <1>5, GoneYields, DissolveYields, DisconnectYields, HereYields

LEMMA AnsweredYields == ASSUME TypedClient, NEW c \in Clients, Answered(c) PROVE Withdraws
<1> DEFINE S == [Here EXCEPT !.n = Receive(Here.n, client[c].line[client[c].pos])]
<1>1. Yields(Here, S) /\ S \in ClientSituation /\ S.c = Here.c
  BY HereType, ReceiveYields
<1>2. S.c[c].pc \in Phase \ {"add"}
  BY <1>1, HereType DEF Answered, Here
<1>3. Act(Agreed(S, c)) \/ Act(Refused(S, c)) \/ Act(Return(S, c))
  BY DEF Answered
<1> HIDE DEF S
<1> QED BY <1>1, <1>2, <1>3, AgreedYields, RefusedYields, ReturnYields, HereYields

LEMMA ClientTimeOutYields == ASSUME TypedClient, NEW c \in Clients, ClientTimeOut(c) PROVE Withdraws
BY HereType, ReturnYields DEF ClientTimeOut, Withdraws

LEMMA ClientCrashYields == ASSUME TypedClient, NEW c \in Clients, ClientCrash(c) PROVE Withdraws
BY HereType, GoneYields DEF ClientCrash, Withdraws

LEMMA SignalYields == ASSUME TypedClient, NEW c \in Clients, Signal(c) PROVE Withdraws
<1> DEFINE k == client[c]
           w == [k EXCEPT !.signal = TRUE, !.watch = "fired"]
           T == [Here EXCEPT !.c[c] = w]
<1>1. k \in Kind /\ Here \in ClientSituation /\ Here.c = client /\ Here.n = net
      /\ client \in [Clients -> Kind]
  BY HereType DEF TypedClient
<1>2. w \in Kind
  <2>1. [k EXCEPT !.signal = TRUE] \in Kind
    BY <1>1, KindWith
  <2> QED BY <1>1, <2>1, KindWith
<1>3. Steady(k, w)
  BY <1>1 DEF Steady, Kind, ClientType
<1>4. client' = [client EXCEPT ![c] = w] /\ net' = net
  BY <1>1 DEF Signal
<1> HIDE DEF w
<1>5. T = [c |-> [client EXCEPT ![c] = w], n |-> net]
  BY DEF Here
<1>6. Yields(Here, T)
  BY <1>1, <1>2, <1>3, YieldsSet
<1> HIDE DEF T
<1>7. Act(T)
  BY <1>4, <1>5 DEF Act
<1> QED BY <1>6, <1>7 DEF Withdraws

LEMMA InterruptYields == ASSUME TypedClient, NEW c \in Clients, Interrupt(c) PROVE Withdraws
<1> DEFINE k == client[c]
           w == Signalled(k)
<1>1. k \in Kind /\ Here \in ClientSituation /\ Here.c = client
  BY HereType DEF TypedClient
<1>2. w \in Kind /\ Struck(c) \in ClientSituation
  BY StruckType
<1>3. Steady(k, w)
  BY <1>1 DEF Steady, Signalled, Kind, ClientType
<1>4. Act(Return(Struck(c), c)) /\ Struck(c) = [Here EXCEPT !.c[c] = w]
  BY DEF Interrupt, Struck
<1> HIDE DEF w
<1>5. Yields(Here, Struck(c))
  BY <1>1, <1>2, <1>3, <1>4, YieldsSet
<1>6. Yields(Struck(c), Return(Struck(c), c))
  BY <1>2, ReturnYields
<1>7. Yields(Here, Return(Struck(c), c))
  BY <1>5, <1>6, YieldsTrans
<1> QED BY <1>4, <1>7 DEF Withdraws

LEMMA ProbeYields == ASSUME TypedClient, NEW c \in Clients, Probe(c) PROVE Withdraws
<1> DEFINE k == client[c]
           round == IF k.todo # NoSlaves THEN k.todo ELSE ReadySlaves(k)
           left(r) == [round EXCEPT ![r] = NoEnd]
           w(r) == [k EXCEPT !.todo = left(r)]
           S(r) == [Here EXCEPT !.c[c] = w(r)]
           v(r) == [w(r) EXCEPT !.pc = "alarm", !.quit = TRUE, !.left = Names(k)]
           T(r) == [Here EXCEPT !.c[c] = v(r)]
<1>1. k \in Kind /\ Here \in ClientSituation /\ Here.c = client /\ Here.n = net
      /\ client \in [Clients -> Kind]
  BY HereType DEF TypedClient
<1>2. round \in [Ranks -> Ends0 \cup {Ear}]
  BY <1>1, KindBools, ReadySlavesType
<1>3. PICK r \in Ranks : \/ Act(EndRound(ProcessSlave(S(r), c, round[r]), c))
                         \/ Act(RungAt(S(r), c, Names(k)))
  <2>1. \A r \in Ranks : [Here EXCEPT !.c[c].todo = left(r)] = S(r)
    BY <1>1 DEF Here
  <2>3. PICK r \in Ranks :
               LET U == [Here EXCEPT !.c[c].todo = left(r)]
               IN \/ Act(EndRound(ProcessSlave(U, c, round[r]), c))
                  \/ Act(RungAt(U, c, Names(k)))
    BY DEF Probe, RungAt
  <2> HIDE DEF S
  <2> QED BY <2>1, <2>3
<1> HIDE DEF round
<1>4. left(r) \in [Ranks -> Ends0 \cup {Ear}]
  BY <1>2, NewClientType
<1> HIDE DEF left
<1>5. w(r) \in Kind /\ Steady(k, w(r))
  BY <1>1, <1>4, KindWith, SteadyWith
<1>6. v(r) \in Kind /\ Steady(w(r), v(r))
  <2> DEFINE u == w(r)
             a == [u EXCEPT !.pc = "alarm"]
             b == [a EXCEPT !.quit = TRUE]
  <2>1. u \in Kind
    BY <1>5
  <2>2. v(r) = [b EXCEPT !.left = Names(k)]
    OBVIOUS
  <2> HIDE DEF u, v
  <2>3. a \in Kind
    BY <2>1, KindWith DEF ClientPc
  <2>4. a.line = u.line /\ a.host = u.host /\ a.adding = u.adding /\ a.target = u.target
    BY <2>1 DEF Kind, ClientType
  <2> HIDE DEF a
  <2>5. b \in Kind
    BY <2>3, KindWith
  <2>6. b.line = u.line /\ b.host = u.host /\ b.adding = u.adding /\ b.target = u.target
    BY <2>3, <2>4 DEF Kind, ClientType
  <2> HIDE DEF b
  <2>7. Names(k) \in SUBSET Hosts
    BY <1>1, NamesType
  <2>8. v(r) \in Kind
    BY <2>2, <2>5, <2>7, KindWith
  <2>9. v(r).line = u.line /\ v(r).host = u.host /\ v(r).adding = u.adding /\ v(r).target = u.target
    BY <2>2, <2>5, <2>6 DEF Kind, ClientType
  <2> QED BY <2>8, <2>9, SteadyBy DEF u
<1>7. Yields(Here, S(r)) /\ S(r) \in ClientSituation /\ S(r).c[c] = w(r)
  <2> DEFINE u == w(r)
             U == S(r)
  <2>1. u \in Kind /\ Steady(Here.c[c], u) /\ U = [Here EXCEPT !.c[c] = u]
    BY <1>1, <1>5
  <2> HIDE DEF u, U
  <2>2. Yields(Here, U) /\ U \in ClientSituation /\ U.c[c] = u
    BY <1>1, <2>1, YieldsSet
  <2> QED BY <2>2 DEF u, U
<1>8. Yields(Here, T(r)) /\ RungAt(S(r), c, Names(k)) = T(r)
  <2> DEFINE u == w(r)
             x == v(r)
             U == S(r)
             R == T(r)
  <2>0. x = RungWith(u, Names(k))
    BY DEF RungWith
  <2>1. /\ u \in Kind /\ x \in Kind /\ Steady(k, x) /\ U = [Here EXCEPT !.c[c] = u] /\ R = [Here EXCEPT !.c[c] = x]
    BY <1>5, <1>6 DEF Steady
  <2> HIDE DEF u, U, R, x
  <2>2. RungAt(U, c, Names(k)) = WithClient(Here, c, RungWith(u, Names(k)))
    BY <1>1, <2>1, RungStep
  <2>3. Yields(Here, R)
    BY <1>1, <2>1, YieldsSet
  <2>4. RungAt(U, c, Names(k)) = R
    BY <2>0, <2>1, <2>2 DEF WithClient
  <2> QED BY <2>3, <2>4 DEF U, R
<1> HIDE DEF T, S, w
<1>9. CASE Act(RungAt(S(r), c, Names(k)))
  BY <1>8, <1>9 DEF Withdraws
<1>10. CASE Act(EndRound(ProcessSlave(S(r), c, round[r]), c))
  <2> DEFINE U == S(r)
             P == ProcessSlave(U, c, round[r])
             E == EndRound(P, c)
  <2>1. Yields(Here, U) /\ U \in ClientSituation /\ Act(E)
    BY <1>7, <1>10
  <2> HIDE DEF U
  <2>2. Yields(U, P)
    BY <2>1, ProcessSlaveYields
  <2>3. P \in ClientSituation
    BY <2>2 DEF Yields
  <2> HIDE DEF P
  <2>4. Yields(P, E)
    BY <2>3, EndRoundYields
  <2> HIDE DEF E
  <2>5. Yields(U, E)
    BY <2>2, <2>4, YieldsTrans
  <2> QED BY <2>1, <2>5, HereYields
<1> QED BY <1>3, <1>9, <1>10

LEMMA WithdrawsManned ==
  ASSUME MInv, CInv', daemon' = daemon, Withdraws PROVE Manned(client', net', daemon')
BY YieldsManned DEF Withdraws

(* Those that connect.                                                      *)
LEMMA AlarmManned ==
  ASSUME MInv, CInv', daemon' = daemon, NEW c \in Clients, Alarm(c) PROVE Manned(client', net', daemon')
<1> DEFINE k == client[c]
           l == NewLine(net)
           m == Msg("ForceReset")
<1>1. TypedClient /\ FreeLines(net) # {} /\ k \in Kind /\ client \in [Clients -> Kind]
  BY InvParts DEF MInv, Tidy, Alarm, FreeLine, TypedClient
<1>2. CASE Act(Dissolve(Here, c)) \/ Act(Return(Here, c))
  <2>1. Here \in ClientSituation
    BY <1>1, HereType
  <2>2. Yields(Here, Dissolve(Here, c)) /\ Yields(Here, Return(Here, c))
    BY <2>1, DissolveYields, ReturnYields
  <2> QED BY <1>2, <2>2, WithdrawsManned DEF Withdraws
<1>3. CASE \E h \in k.left : /\ client' = [client EXCEPT ![c].left = k.left \ {h}]
                             /\ net' = Connect(net, l, {}, h, m)
  <2>1. PICK h \in k.left : /\ client' = [client EXCEPT ![c].left = k.left \ {h}]
                            /\ net' = Connect(net, l, {}, h, m)
    BY <1>3
  <2>2. h \in Hosts /\ m \in Message /\ m.tag = "ForceReset"
    BY <1>1, KindBools, MsgIsMessage, CodeFacts DEF Msg
  <2>3. Opens(net, net', l, {}, h, m)
    BY <1>1, <2>1, <2>2 DEF Opens, ClientCode
  <2> DEFINE w == [k EXCEPT !.left = k.left \ {h}]
  <2>4. w.line = k.line /\ w.host = k.host /\ w.adding = k.adding /\ w.target = k.target
    BY <1>1 DEF Kind, ClientType
  <2>5. client'[c] = w /\ \A b \in Clients : b # c => client'[b] = client[b]
    BY <1>1, <2>1
  <2> HIDE DEF w
  <2>6. Clues(client') \subseteq Clues(client)
    <3>1. Steady(client[c], w)
      BY <2>4, SteadyBy
    <3> DEFINE C == client
               D == client'
    <3>2. Steady(C[c], w) /\ D[c] = w /\ \A b \in Clients : b # c => D[b] = C[b]
      BY <2>5, <3>1
    <3> HIDE DEF C, D
    <3>3. Clues(D) \subseteq Clues(C)
      BY <3>2, SteadyClues
    <3> QED BY <3>3 DEF C, D
  <2> HIDE DEF l, m
  <2> QED BY <2>3, <2>6, OpensManned
<1>4. \/ Act(Dissolve(Here, c)) \/ Act(Return(Here, c))
      \/ \E h \in k.left : /\ client' = [client EXCEPT ![c].left = k.left \ {h}]
                           /\ net' = Connect(net, l, {}, h, m)
  BY DEF Alarm, Act
<1> QED BY <1>2, <1>3, <1>4

LEMMA AddManned ==
  ASSUME MInv, CInv', daemon' = daemon, NEW c \in Clients, NEW h \in Hosts, Add(c, h)
  PROVE  Manned(client', net', daemon')
<1> DEFINE k == client[c]
           l == NewLine(net)
           e == <<l, "near">>
           m == MsgArg("Enslave", k.counter)
           w == [k EXCEPT !.pc = "add", !.adding = e, !.target = h]
<1>1. client \in [Clients -> Kind] /\ k \in Kind
  BY InvParts DEF MInv, Tidy, TypedClient
<1>2. /\ FreeLines(net) # {}
      /\ client' = [client EXCEPT ![c] = w] /\ net' = Connect(net, l, {c}, h, m)
  BY DEF Add, FreeLine
<1>3. m \in Message /\ m.tag = "Enslave"
  BY <1>1, KindBools, MsgArgIsMessage, CodeFacts DEF MsgArg, Msg
<1>4. Opens(net, net', l, {c}, h, m)
  BY <1>2, <1>3 DEF Opens, ClientCode
<1>5. w.line = k.line /\ w.host = k.host /\ w.adding = e /\ w.target = h
  BY <1>1 DEF Kind, ClientType
<1> HIDE DEF w, m
<1>6. ASSUME NEW a \in Clues(client') PROVE a \in Clues(client) \/ (a[1] = e /\ a[2] = h)
  <2>1. PICK b \in Clients : Clue(client'[b], a)
    BY DEF Clues
  <2>2. a \in End \X Hosts
    BY DEF Clues
  <2>3. CASE b # c
    <3>1. Clue(client[b], a)
      BY <1>1, <1>2, <2>1, <2>3
    <3> QED BY <2>2, <3>1 DEF Clues
  <2>4. CASE b = c
    <3>1. Clue(w, a)
      BY <1>1, <1>2, <2>1, <2>4
    <3>2. Clue(k, a) \/ (a[1] = e /\ a[2] = h)
      BY <1>5, <3>1 DEF Clue
    <3> QED BY <2>2, <3>2 DEF Clues
  <2> QED BY <2>3, <2>4
<1> HIDE DEF l
<1> QED BY <1>4, <1>6, OpensManned

LEMMA OperatorManned ==
  ASSUME MInv, CInv', NEW h \in Hosts,
         NEW code \in Code \cap {"None", "Status", "Shutdown", "ForceShutdown", "ForceReset"}, Operator(h, code)
  PROVE  Manned(client', net', daemon')
<1>1. client' = client /\ daemon' = daemon
  BY DEF Operator
<1>2. Msg(code) \in Message /\ Msg(code).tag = code
  BY MsgIsMessage DEF Msg
<1>3. Opens(net, net', NewLine(net), {}, h, Msg(code))
  BY <1>2 DEF Opens, Operator, FreeLine, ClientCode
<1> QED BY <1>1, <1>3, OpensManned

LEMMA StartDaemonManned ==
  ASSUME MInv, NEW h \in Hosts, StartDaemon(h)
  PROVE  Manned(client', net', daemon')
<1> DEFINE S == World(net, daemon)
           U == World(net', daemon')
<1>1. /\ net \in NetType /\ daemon \in [Daemons -> DaemonType]
      /\ client' = client /\ daemon[Main(h)].mode = "dead"
      /\ daemon' = [daemon EXCEPT ![Main(h)] = Fresh]
      /\ net' = [net EXCEPT !.listen = @ \cup {h}]
  BY InvParts DEF MInv, Tidy, StartDaemon
<1>2. net'.hold = net.hold /\ net'.ear = net.ear /\ net' \in NetType
  BY <1>1 DEF NetType
<1>3. /\ \A g \in Hosts : daemon'[Main(g)] = IF g = h THEN Fresh ELSE daemon[Main(g)]
      /\ \A q \in Daemons : daemon'[q] = daemon[q] \/ (daemon'[q] = Fresh /\ q = Main(h))
      /\ daemon' \in [Daemons -> DaemonType]
  BY <1>1, MainOrExec, ProcsFacts, ConstantsType
<1>4. PICK V \in [Hosts -> SUBSET End] : Served(S, V, Clues(client)) /\ Single(V)
  BY DEF MInv, Manned
<1>5. S \in Situation /\ S.n = net /\ S.d = daemon /\ U \in Situation /\ U.n = net' /\ U.d = daemon'
  BY <1>1, <1>2, <1>3, WorldFacts
<1> HIDE DEF S, U
<1>6. Fresh.todo = Idle /\ Idle[EarSlot] = NoEnd /\ Fresh.mode # "dead"
  BY DEF Fresh, Dead, Idle, Slot
<1>7. ASSUME NEW g \in Hosts PROVE Masters(net', g) \subseteq V[g] /\ Kempt(U, g)
  <2>1. Masters(net, g) \subseteq V[g] /\ Kempt(S, g)
    BY <1>4, <1>5 DEF Served
  <2>2. Queue(net', g) = Queue(net, g)
    BY <1>2 DEF Queue
  <2>3. Masters(net', g) = Masters(net, g)
    BY <1>2, <2>2 DEF Masters
  <2>4. CASE g = h
    <3>1. \A e \in End : Main(h) \in net.hold[e] => e \in Queue(net, h)
      BY <1>1, <1>5, <2>1, <2>4 DEF Kempt
    <3> QED BY <1>2, <1>5, <2>1, <2>2, <2>3, <2>4, <3>1 DEF Kempt
  <2>5. CASE g # h
    <3>1. U.d[Main(g)] = S.d[Main(g)]
      BY <1>3, <1>5, <2>5
    <3> QED BY <1>2, <1>5, <2>1, <2>2, <2>3, <3>1 DEF Kempt
  <2> QED BY <2>4, <2>5
<1>8. ASSUME NEW q \in Daemons
      PROVE  /\ U.d[q].todo[EarSlot] = NoEnd
             /\ q[2] # "main" /\ U.d[q].mode = "dead" => Bare(U.n, q)
  <2>1. /\ S.d[q].todo[EarSlot] = NoEnd
        /\ q[2] # "main" /\ S.d[q].mode = "dead" => Bare(S.n, q)
    BY <1>4 DEF Served
  <2> QED BY <1>2, <1>3, <1>5, <1>6, <2>1 DEF Bare
<1>9. Staid(net', Clues(client'))
  BY <1>1, <1>2, <1>4, <1>5 DEF Served, Staid, Leads
<1>10. Served(U, V, Clues(client'))
  BY <1>5, <1>7, <1>8, <1>9 DEF Served
<1> QED BY <1>4, <1>10 DEF Manned, U

LEMMA InitManned == Init => Manned(client, net, daemon)
<1> SUFFICES ASSUME Init PROVE Manned(client, net, daemon)
  OBVIOUS
<1> DEFINE S == World(net, daemon)
           V == [h \in Hosts |-> {}]
<1>1. \A x \in End : net.hold[x] = {}
  BY DEF Init, NetInit
<1>2. \A q \in Daemons : daemon[q] = Fresh \/ daemon[q] = Dead
  BY DEF Init, DaemonInit
<1>3. net \in NetType /\ daemon \in [Daemons -> DaemonType]
  BY InitTyped DEF IInv, TypeOK, NetTypeOK, DaemonTypeOK
<1>4. S \in Situation /\ S.n = net /\ S.d = daemon
  BY <1>3, WorldFacts
<1> HIDE DEF S
<1>5. Fresh.todo[EarSlot] = NoEnd /\ Dead.todo[EarSlot] = NoEnd
  BY DEF Fresh, Dead, Idle, Slot
<1>6. \A q \in Daemons : S.d[q].todo[EarSlot] = NoEnd /\ Bare(S.n, q)
  BY <1>1, <1>2, <1>4, <1>5 DEF Bare
<1>7. \A h \in Hosts : Masters(S.n, h) \subseteq V[h] /\ Kempt(S, h)
  BY <1>1, <1>4, OtherIsEnd DEF Masters, Kempt
<1>8. Clues(client) = {}
  <2> SUFFICES ASSUME NEW a \in Clues(client) PROVE FALSE
    OBVIOUS
  <2>1. a[1] \in End /\ net.hold[a[1]] \cap Clients # {}
    BY InitWhole, CluesOwned
  <2> QED BY <1>1, <2>1
<1>9. Served(S, V, Clues(client))
  BY <1>4, <1>6, <1>7, <1>8 DEF Served, Staid
<1>10. V \in [Hosts -> SUBSET End] /\ Single(V)
  BY DEF Single
<1> QED BY <1>9, <1>10 DEF Manned, S

LEMMA NextManned == MInv /\ [Next]_vars => MInv'
<1> SUFFICES ASSUME MInv, [Next]_vars PROVE CInv' /\ Manned(client', net', daemon')
  BY DEF MInv, Manned
<1>1. CInv'
  BY NextWhole DEF MInv
<1>2. TypedClient
  BY InvParts DEF MInv, Tidy
<1>3. PICK W : Ready(Leased(client), W, Clues(client))
  BY MannedReady
<1>4. CASE UNCHANGED vars
  <2>1. client' = client /\ net' = net /\ daemon' = daemon /\ Manned(client, net, daemon)
    BY <1>4 DEF vars, MInv
  <2> QED BY <1>1, <2>1
<1>5. CASE DaemonNext
  <2>1. PICK p \in Daemons : DaemonStep(p) /\ client' = client
    BY <1>5 DEF DaemonNext
  <2>2. Serving(Clues(client))
    BY <1>3, <2>1, PollServing, ResumeServing, BuryServing, FinishMainServing DEF DaemonStep
  <2> QED BY <1>1, <2>1, <2>2, ServingManned
<1>6. CASE ClientNext
  <2>1. PICK c \in Clients : (ClientStep(c) \/ ClientCall(c)) /\ daemon' = daemon
    BY <1>6 DEF ClientNext
  <2>2. CASE Alarm(c)
    BY <1>1, <2>1, <2>2, AlarmManned
  <2>3. CASE \E h \in Hosts : Add(c, h)
    BY <1>1, <2>1, <2>3, AddManned
  <2>4. CASE Added(c) \/ Answered(c) \/ Probe(c) \/ RemoveAll(c) \/ CallRun(c) \/ Destroy(c)
    <3>1. Withdraws
      BY <1>2, <2>4, AddedYields, AnsweredYields, ProbeYields, RemoveAllYields, CallRunYields, DestroyYields
    <3> QED BY <1>1, <2>1, <3>1, WithdrawsManned
  <2> QED BY <1>1, <2>1, <2>2, <2>3, <2>4 DEF ClientStep, ClientCall
<1>7. CASE Mishap
  <2>1. CASE \E h \in Hosts : ExecCrash(h) /\ UNCHANGED client
    BY <1>1, <1>3, <2>1, ExecCrashServing, ServingManned
  <2>2. CASE \E p \in Daemons : TimeOut(p) /\ UNCHANGED client
    BY <1>1, <1>3, <2>2, TimeOutServing, ServingManned
  <2>3. CASE \E p \in Daemons : BuryLate(p) /\ UNCHANGED client
    BY <1>1, <1>3, <2>3, BuryLateServing, ServingManned
  <2>4. CASE \E c \in Clients : (ClientTimeOut(c) \/ ClientCrash(c) \/ Signal(c) \/ Interrupt(c)) /\ UNCHANGED daemon
    <3>1. Withdraws
      BY <1>2, <2>4, ClientTimeOutYields, ClientCrashYields, SignalYields,
         InterruptYields
    <3>2. daemon' = daemon
      BY <2>4
    <3> QED BY <1>1, <3>1, <3>2, WithdrawsManned
  <2>5. CASE \E h \in Hosts, code \in Mishaps \cap Code : Operator(h, code)
    <3>1. Mishaps \cap Code \subseteq Code \cap {"None", "Status", "Shutdown", "ForceShutdown", "ForceReset"}
      BY SessionAssumption DEF Code
    <3> QED BY <1>1, <2>5, <3>1, OperatorManned
  <2>6. CASE \E h \in Hosts : StartDaemon(h)
    BY <1>1, <2>6, StartDaemonManned
  <2> QED BY <1>1, <1>7, <2>1, <2>2, <2>3, <2>4, <2>5, <2>6 DEF Mishap
<1>8. CASE Terminated
  BY <1>4, <1>8 DEF Terminated
<1> QED BY <1>4, <1>5, <1>6, <1>7, <1>8 DEF Next

LEMMA MannedOneMaster == MInv => OneMaster
<1> SUFFICES ASSUME MInv, NEW c \in Clients, NEW d \in Clients, NEW r \in Ranks, NEW q \in Ranks,
                    client[c].host[r] = client[d].host[q],
                    Held(net, Other(client[c].line[r])), Held(net, Other(client[d].line[q]))
             PROVE  c = d
  BY DEF OneMaster
<1> DEFINE K == Leased(client)
           Seat(b, i) == Other(client[b].line[i])
<1>1. /\ client \in [Clients -> Kind] /\ Whole(client, net, daemon) /\ net \in NetType
      /\ Tied /\ Ordered(K)
  BY InvParts DEF MInv, Tidy, TypedClient
<1>2. PICK V \in [Hosts -> SUBSET End] : Served(World(net, daemon), V, Clues(client)) /\ Single(V)
  BY DEF MInv, Manned
<1>3. \A h \in Hosts : Masters(net, h) \subseteq V[h]
  BY <1>2 DEF Served, World
<1>4. ASSUME NEW b \in Clients, NEW i \in Ranks, Held(net, Seat(b, i))
      PROVE  /\ client[b].host[i] \in Hosts /\ Seat(b, i) \in Masters(net, client[b].host[i])
             /\ net.hold[Other(Seat(b, i))] = {b}
  <2> DEFINE x == client[b].line[i]
             h == client[b].host[i]
  <2>1. x \in End /\ x # NoEnd /\ Other(x) \in End /\ net.hold[Other(x)] # {}
    <3>1. x \in Ends0
      BY <1>1, KindBools
    <3>2. NoEnd \notin End /\ Other(NoEnd) \notin End
      BY NoEndIsNoEnd, OtherIsEnd DEF NoEnd, Other, End
    <3> QED BY <1>4, <3>1, <3>2, OtherIsEnd DEF Held, Ends0
  <2>2. h \in Hosts
    BY <1>1, <2>1 DEF Kind, Named
  <2>3. net.hold[x] = {b}
    BY <1>1, <2>1, SoundHolds DEF Whole
  <2>4. Leads(net, x, h)
    <3>1. <<x, h>> \in Clues(client)
      BY <2>1, <2>2 DEF Clues, Clue
    <3> QED BY <1>2, <3>1 DEF Served, Staid, World
  <2>5. Other(x) \notin Queue(net, h)
    <3>1. x \in K /\ Other(Other(x)) = x
      BY <2>1, OtherIsEnd DEF Leased
    <3>2. Queued(Now, {}, K) /\ Now.n = net
      BY <1>1, WiredOwned DEF Ordered, Orderly, Now
    <3> QED BY <2>2, <3>1, <3>2 DEF Queued
  <2>6. Other(Other(x)) = x
    BY <2>1, OtherIsEnd
  <2> QED BY <2>1, <2>2, <2>3, <2>4, <2>5, <2>6 DEF Masters, Leads
<1>5. Seat(c, r) = Seat(d, q)
  <2>1. Seat(c, r) \in V[client[c].host[r]] /\ Seat(d, q) \in V[client[c].host[r]] /\ client[c].host[r] \in Hosts
    BY <1>3, <1>4
  <2> QED BY <1>2, <2>1 DEF Single
<1>6. {c} = {d}
  BY <1>4, <1>5
<1> QED BY <1>6

(* The masters of every machine are known and there is at most one.         *)
THEOREM SessionManned == Spec => []MInv
<1>1. Init => MInv
  BY InitTied, InitWhole, InitManned DEF MInv, CInv
<1>2. MInv /\ [Next]_vars => MInv'
  BY NextManned
<1> QED BY <1>1, <1>2, PTL DEF Spec

(* A machine serves one client at a time, whatever the operator does and    *)
(* whatever gets lost: no two clients hold a line to the same machine that  *)
(* is still open at its end.  Enslave agrees only in the state Free, and a  *)
(* free main process keeps nothing but its backlog (setDefault, grouped,    *)
(* waitForChild and the end of the round in daemon.cpp).                    *)
THEOREM OneMasterStays == Spec => []OneMaster
<1>1. MInv => OneMaster
  BY MannedOneMaster
<1> QED BY <1>1, SessionManned, PTL
=============================================================================
