---------------------------- MODULE ChildProcess ----------------------------
(***************************************************************************)
(* Handles of child processes (ChildProcess of brick-process.h): pipes for *)
(* the standard streams, fork, and what is said of the child afterwards.   *)
(* One thread uses the handles; the children, and other processes of the   *)
(* machine that take the numbers of ended ones, go on at their own pace.   *)
(***************************************************************************)
EXTENDS Integers, FiniteSets, TLAPS

CONSTANTS Handles, Pids,
          Asked, \* streams that may be redirected
          Polls  \* whether running() is used

ChildProcessConstants ==
  /\ Polls \in BOOLEAN /\ Asked \subseteq {"in", "out", "err"}
  /\ "-1" \notin Pids /\ "" \notin Handles

VARIABLES handle, \* what the object knows
          proc,   \* the processes by number
          open,   \* the ends of pipes that this process has
          mine,   \* history: the number that fork gave a handle
          last    \* what wait or running returned last

vars == <<handle, proc, open, mine, last>>

NoPid == "-1"
Streams == {"in", "out", "err"}
Redirects == [streams : SUBSET Asked, merged : BOOLEAN]
(* stderr may be asked for with the variable of stdout: one pipe for both.  *)
Sane(r) == r.merged => r.streams = r.streams \ {"err"} /\ "out" \in r.streams
End(h, s, side) == <<h, s, side>>
Both(h, s) == {End(h, s, "read"), End(h, s, "write")}
Side(s) == IF s = "in" THEN "read" ELSE "write"      \* the end of the child

Nobody == [state |-> "none", of |-> "", ends |-> {}, std |-> [s \in Streams |-> <<>>], status |-> ""]
Init ==
  /\ handle = [h \in Handles |-> [pid |-> NoPid, stage |-> "new",
                                  redirect |-> [streams |-> {}, merged |-> FALSE]]]
  /\ proc = [p \in Pids |-> Nobody]
  /\ open = {} /\ mine = [h \in Handles |-> NoPid]
  /\ last = [op |-> "", of |-> "", value |-> ""]

Said(op, h, value) == last' = [op |-> op, of |-> h, value |-> value]
Usable(h) == handle[h].stage \notin {"gone", "down"}

-----------------------------------------------------------------------------
(* setupRedirects: a pipe may not be had; those made before it stay open.   *)
SetupRedirects(h, r) ==
  /\ handle[h].stage = "new"
  /\ Sane(r)
  /\ \E made \in SUBSET r.streams :
       /\ open' = open \cup UNION {Both(h, s) : s \in made}
       /\ handle' = [handle EXCEPT ![h].redirect = r,
                                   ![h].stage = IF made = r.streams THEN "ready" ELSE "failed"]
  /\ UNCHANGED <<proc, mine, last>>

(* fork: the child inherits every end; the parent closes the child's.       *)
Fork(h) ==
  /\ handle[h].stage = "ready"
  /\ \E p \in Pids :
       /\ proc[p].state = "none"
       /\ proc' = [proc EXCEPT ![p] = [Nobody EXCEPT !.state = "forked", !.of = h, !.ends = open]]
       /\ handle' = [handle EXCEPT ![h].pid = p, ![h].stage = "started"]
       /\ open' = open \ {End(h, s, Side(s)) : s \in handle[h].redirect.streams}
       /\ mine' = [mine EXCEPT ![h] = p]
  /\ UNCHANGED last
ForkFails(h) ==
  /\ handle[h].stage = "ready"
  /\ handle' = [handle EXCEPT ![h].stage = "failed"]
  /\ UNCHANGED <<proc, open, mine, last>>

(* setupChild: close the ends of the caller, move the own ones.  The ends   *)
(* of other handles stay.                                                   *)
SetupChild(p) ==
  /\ proc[p].state = "forked"
  /\ LET h == proc[p].of
         r == handle[h].redirect
     IN proc' = [proc EXCEPT ![p].state = "runs",
                   ![p].ends = @ \ UNION {Both(h, s) : s \in r.streams},
                   ![p].std = [s \in Streams |->
                     IF s \in r.streams THEN End(h, s, Side(s))
                     ELSE IF s = "err" /\ r.merged THEN End(h, "out", "write") ELSE <<>>]]
  /\ UNCHANGED <<handle, open, mine, last>>

(* The child returns from main, or raises (1), or is killed.                *)
Zombie(p, status) == proc' = [proc EXCEPT ![p].state = "zombie", ![p].status = status,
                                          ![p].ends = {}, ![p].std = Nobody.std]
Ends(p) ==
  /\ \/ proc[p].state = "runs" /\ \E status \in {"0", "1", "signal"} : Zombie(p, status)
     \/ proc[p].state = "forked" /\ Zombie(p, "signal")
  /\ UNCHANGED <<handle, open, mine, last>>
(* A process of somebody else has a free number for a while.                *)
Foreign(p) ==
  /\ \/ proc[p].state = "none" /\ proc' = [proc EXCEPT ![p].state = "foreign"]
     \/ proc[p].state = "foreign" /\ proc' = [proc EXCEPT ![p] = Nobody]
  /\ UNCHANGED <<handle, open, mine, last>>

-----------------------------------------------------------------------------
Child(h) == proc[handle[h].pid]
Reap(h) == proc' = [proc EXCEPT ![handle[h].pid] = Nobody]
(* Any child of this process will do for waitpid.                           *)
IsChild(h) == handle[h].pid # NoPid /\ Child(h).state \in {"forked", "runs", "zombie"}

(* running: waitpid that does not wait.  It takes the status of a child     *)
(* that ended, and keeps the number.                                        *)
Running(h) ==
  /\ Polls /\ Usable(h)
  /\ \/ /\ handle[h].pid = NoPid /\ Said("running", h, "false") /\ UNCHANGED proc
     \/ /\ handle[h].pid # NoPid /\ ~IsChild(h) /\ Said("running", h, "raise")
        /\ UNCHANGED proc
     \/ /\ IsChild(h) /\ Child(h).state # "zombie" /\ Said("running", h, "true")
        /\ UNCHANGED proc
     \/ /\ IsChild(h) /\ Child(h).state = "zombie" /\ Said("running", h, "false") /\ Reap(h)
  /\ UNCHANGED <<handle, open, mine>>

(* wait, and waitForSuccess, which returns only for the status 0.  A wait   *)
(* that a signal interrupts raises too (EINTR of wait4) and changes         *)
(* nothing, neither the handle nor the child: the caller is where it was.   *)
Wait(h) ==
  /\ Usable(h)
  /\ \/ /\ handle[h].pid = NoPid /\ Said("wait", h, "-1") /\ UNCHANGED <<handle, proc>>
     \/ /\ handle[h].pid # NoPid /\ ~IsChild(h) /\ Said("wait", h, "raise")
        /\ UNCHANGED <<handle, proc>>
     \/ /\ IsChild(h) /\ Child(h).state = "zombie" /\ Reap(h)
        /\ Said("wait", h, Child(h).status)
        /\ handle' = [handle EXCEPT ![h].pid = NoPid]
  /\ UNCHANGED <<open, mine>>

WaitForSuccess(h) ==
  /\ Usable(h)
  /\ \/ /\ ~IsChild(h) /\ UNCHANGED <<handle, proc>>
     \/ /\ IsChild(h) /\ Child(h).state = "zombie" /\ Reap(h)
        /\ handle' = [handle EXCEPT ![h].pid = NoPid]
  /\ UNCHANGED <<open, mine, last>>

(* kill reaches whoever has the number; a zombie does not mind.             *)
Kill(h) ==
  /\ Usable(h)
  /\ IF handle[h].pid = NoPid \/ Child(h).state = "none"
     THEN UNCHANGED proc
     ELSE \/ Child(h).state = "zombie" /\ UNCHANGED proc
          \/ Child(h).state = "foreign" /\ Reap(h)
          \/ Child(h).state \in {"forked", "runs"} /\ Zombie(handle[h].pid, "signal")
  /\ UNCHANGED <<handle, open, mine, last>>

(* The destructor waits; when that raises, the program goes down.           *)
\* mutant: the destructor does not wait
DestroyAtOnce(h) ==
  /\ Usable(h)
  /\ handle' = [handle EXCEPT ![h].stage = "gone", ![h].pid = NoPid]
  /\ UNCHANGED <<proc, open, mine, last>>
Destroy(h) ==
  /\ Usable(h)
  /\ \/ /\ handle[h].pid = NoPid
        /\ handle' = [handle EXCEPT ![h].stage = "gone"] /\ UNCHANGED proc
     \/ /\ handle[h].pid # NoPid /\ ~IsChild(h)
        /\ handle' = [handle EXCEPT ![h].stage = "down"] /\ UNCHANGED proc
     \/ /\ IsChild(h) /\ Child(h).state = "zombie" /\ Reap(h)
        /\ handle' = [handle EXCEPT ![h].stage = "gone", ![h].pid = NoPid]
  /\ UNCHANGED <<open, mine, last>>

User(h) == \/ \E r \in Redirects : SetupRedirects(h, r)
           \/ Fork(h) \/ ForkFails(h) \/ Running(h) \/ Wait(h) \/ WaitForSuccess(h)
           \/ Kill(h) \/ Destroy(h)
Next == \/ (\A h \in Handles : handle[h].stage # "down") /\ \E h \in Handles : User(h)
        \/ \E p \in Pids : SetupChild(p) \/ Ends(p) \/ Foreign(p)

Spec == Init /\ [][Next]_vars

-----------------------------------------------------------------------------
TypeOK ==
  /\ \A h \in Handles : handle[h].pid \in Pids \cup {NoPid} /\ handle[h].redirect \in Redirects
  /\ \A p \in Pids : proc[p].state \in {"none", "forked", "runs", "zombie", "foreign"}
  /\ mine \in [Handles -> Pids \cup {NoPid}]
  /\ \A p \in Pids : proc[p].of # "" => handle[proc[p].of].pid = p

(* Streams close when they should: a child has of its own pipes the ends    *)
(* that are its streams and no other, so that it sees the end of its input, *)
(* and the caller has of the pipes of a started child its own ends only     *)
(* (setupChild, setupParent).                                               *)
Separate ==
  /\ \A p \in Pids : proc[p].state = "runs" =>
       \A s \in handle[proc[p].of].redirect.streams :
         Both(proc[p].of, s) \cap proc[p].ends = {} /\ proc[p].std[s] = End(proc[p].of, s, Side(s))
  /\ \A h \in Handles : handle[h].stage = "started" =>
       \A s \in Streams : End(h, s, Side(s)) \notin open

(* Whoever destroys a handle leaves no child behind, neither running nor a  *)
(* zombie (wait in the destructor).                                         *)
NoneLeft == \A h \in Handles : handle[h].stage = "gone" =>
  \A p \in Pids : proc[p].of # h

(* What wait returns is how its own child ended.                            *)
OwnStatusStep ==
  \A h \in Handles : last' # last /\ last'.op = "wait" /\ last'.of = h
    /\ last'.value \in {"0", "1", "signal"} =>
      proc[mine[h]].of = h /\ proc[mine[h]].status = last'.value
OwnStatus == [][OwnStatusStep]_vars

-----------------------------------------------------------------------------
(* What is proved, for all handles and numbers: a child belongs to one      *)
(* handle that was started and has its number, and of the pipes of a handle *)
(* nothing is open but what it asked for.                                   *)
Stages == {"new", "ready", "failed", "started", "gone", "down"}
PipeEnds == Handles \X Streams \X {"read", "write"}
Record == [state : {"none", "forked", "runs", "zombie", "foreign"}, of : Handles \cup {""},
           ends : SUBSET PipeEnds, std : [Streams -> PipeEnds \cup {<<>>}],
           status : {"", "0", "1", "signal"}]
Knowledge == [pid : Pids \cup {NoPid}, stage : Stages, redirect : Redirects]
Typed == /\ handle \in [Handles -> Knowledge] /\ proc \in [Pids -> Record]
         /\ open \subseteq PipeEnds /\ mine \in [Handles -> Pids \cup {NoPid}]

Belongs(p) ==
  IF proc[p].state \in {"none", "foreign"} THEN proc[p].of = ""
  ELSE /\ proc[p].of \in Handles
       /\ handle[proc[p].of].pid = p /\ handle[proc[p].of].stage = "started"
Keeps(h) ==
  /\ handle[h].stage \in {"new", "ready", "failed"} => handle[h].pid = NoPid
  /\ \A s \in Streams, side \in {"read", "write"} : End(h, s, side) \in open =>
       handle[h].stage # "new" /\ s \in handle[h].redirect.streams
  /\ ~Polls /\ handle[h].pid # NoPid =>
       mine[h] = handle[h].pid /\ proc[handle[h].pid].of = h
ChildInv == /\ Typed /\ Separate
            /\ \A p \in Pids : Belongs(p)
            /\ \A h \in Handles : Keeps(h)

LEMMA RecordFacts ==
  ASSUME ChildInv, NEW p \in Pids
  PROVE  /\ proc[p] \in Record
         /\ proc[p].state \in {"none", "forked", "runs", "zombie", "foreign"}
         /\ proc[p].of \in Handles \cup {""} /\ proc[p].ends \subseteq PipeEnds
         /\ proc[p].std \in [Streams -> PipeEnds \cup {<<>>}]
         /\ proc[p].status \in {"", "0", "1", "signal"}
         /\ Belongs(p)
BY DEF ChildInv, Typed, Record

LEMMA HandleFacts ==
  ASSUME ChildInv, NEW h \in Handles
  PROVE  /\ handle[h] \in Knowledge /\ handle[h].pid \in Pids \cup {NoPid}
         /\ handle[h].stage \in Stages /\ handle[h].redirect \in Redirects
         /\ Keeps(h)
BY DEF ChildInv, Typed, Knowledge

LEMMA NobodyFacts ==
  ASSUME TRUE
  PROVE  /\ Nobody \in Record /\ Nobody.state = "none" /\ Nobody.of = "" /\ Nobody.ends = {}
         /\ Nobody.std \in [Streams -> PipeEnds \cup {<<>>}] /\ Nobody.status = ""
<1>1. [s \in Streams |-> <<>>] \in [Streams -> PipeEnds \cup {<<>>}]
  OBVIOUS
<1> QED BY <1>1 DEF Nobody, Record

(* A process changes, but not whose it is.                                  *)
LEMMA ProcStep ==
  ASSUME ChildProcessConstants, ChildInv, NEW p \in Pids, NEW x \in Record,
         proc' = [proc EXCEPT ![p] = x], UNCHANGED <<handle, open, mine>>,
         x.of = proc[p].of,
         x.state \in {"none", "foreign"} <=> proc[p].state \in {"none", "foreign"},
         x.state = "runs" => \A s \in handle[x.of].redirect.streams :
           Both(x.of, s) \cap x.ends = {} /\ x.std[s] = End(x.of, s, Side(s))
  PROVE  ChildInv'
<1>1. /\ proc' \in [Pids -> Record] /\ proc'[p] = x
      /\ \A q \in Pids \ {p} : proc'[q] = proc[q]
  BY DEF ChildInv, Typed
<1>2. Typed'
  BY <1>1 DEF ChildInv, Typed
<1>3. \A q \in Pids : Belongs(q)'
  <2>1. \A q \in Pids : Belongs(q)
    BY DEF ChildInv
  <2> QED BY <1>1, <2>1 DEF Belongs
<1>4. Separate'
  BY <1>1 DEF ChildInv, Separate
<1>5. ASSUME NEW h \in Handles PROVE Keeps(h)'
  <2>1. Keeps(h) /\ handle[h].pid \in Pids \cup {NoPid}
    BY HandleFacts
  <2>2. handle[h].pid # NoPid => proc'[handle[h].pid].of = proc[handle[h].pid].of
    BY <1>1, <2>1
  <2> QED BY <2>1, <2>2 DEF Keeps
<1> QED BY <1>2, <1>3, <1>4, <1>5 DEF ChildInv

(* A handle lets go of its child, which is taken out of the table, or had   *)
(* none.                                                                    *)
LEMMA Dropped ==
  ASSUME ChildProcessConstants, ChildInv, NEW h \in Handles, NEW x \in Knowledge,
         handle' = [handle EXCEPT ![h] = x], UNCHANGED <<open, mine>>,
         x.redirect = handle[h].redirect, x.pid = NoPid,
         x.stage \in {handle[h].stage, "failed", "gone"},
         IF handle[h].pid = NoPid THEN proc' = proc ELSE Reap(h)
  PROVE  ChildInv'
<1>1. /\ handle' \in [Handles -> Knowledge] /\ handle'[h] = x
      /\ \A k \in Handles \ {h} : handle'[k] = handle[k]
  BY DEF ChildInv, Typed
<1>2. /\ proc' \in [Pids -> Record]
      /\ \A q \in Pids : proc'[q] = IF q = handle[h].pid THEN Nobody ELSE proc[q]
  <2>1. proc \in [Pids -> Record] /\ NoPid \notin Pids
    BY DEF ChildInv, Typed, ChildProcessConstants, NoPid
  <2>2. CASE handle[h].pid = NoPid
    BY <2>1, <2>2
  <2>3. CASE handle[h].pid # NoPid
    BY <2>1, <2>3, NobodyFacts, HandleFacts DEF Reap
  <2> QED BY <2>2, <2>3
<1>3. Typed'
  BY <1>1, <1>2 DEF ChildInv, Typed
<1>4. ASSUME NEW q \in Pids PROVE Belongs(q)'
  <2>1. Belongs(q)
    BY RecordFacts
  <2>2. CASE q = handle[h].pid
    BY <1>2, <2>2, NobodyFacts DEF Belongs
  <2>3. CASE q # handle[h].pid
    <3>1. proc'[q] = proc[q]
      BY <1>2, <2>3
    <3>2. proc[q].state \notin {"none", "foreign"} => proc[q].of \in Handles \ {h}
      BY <2>1, <2>3 DEF Belongs
    <3> QED BY <1>1, <2>1, <3>1, <3>2 DEF Belongs
  <2> QED BY <2>2, <2>3
<1>5. Separate'
  <2>1. ASSUME NEW q \in Pids, proc'[q].state = "runs"
        PROVE  proc'[q] = proc[q] /\ proc[q].of \in Handles
               /\ handle'[proc[q].of].redirect = handle[proc[q].of].redirect
    <3>1. proc'[q] = proc[q]
      BY <1>2, <2>1, NobodyFacts
    <3>2. proc[q].of \in Handles
      BY <2>1, <3>1, RecordFacts DEF Belongs
    <3> QED BY <1>1, <3>1, <3>2
  <2>2. ASSUME NEW k \in Handles, handle'[k].stage = "started"
        PROVE  handle[k].stage = "started"
    BY <1>1, <2>2
  <2> QED BY <2>1, <2>2 DEF ChildInv, Separate
<1>6. ASSUME NEW k \in Handles PROVE Keeps(k)'
  <2>1. Keeps(k) /\ Keeps(h) /\ handle[k].pid \in Pids \cup {NoPid}
    BY HandleFacts
  <2>2. CASE k = h
    BY <1>1, <2>1, <2>2 DEF Keeps
  <2>3. CASE k # h
    <3>1. handle'[k] = handle[k]
      BY <1>1, <2>3
    <3>2. ASSUME ~Polls, handle[k].pid # NoPid
          PROVE  mine[k] = handle[k].pid /\ proc'[handle[k].pid].of = k
      <4>1. mine[k] = handle[k].pid /\ proc[handle[k].pid].of = k /\ handle[k].pid \in Pids
        BY <2>1, <3>2 DEF Keeps
      <4>2. handle[h].pid # handle[k].pid
        BY <2>1, <2>3, <3>2, <4>1 DEF Keeps
      <4> QED BY <1>2, <4>1, <4>2
    <3> QED BY <2>1, <3>1, <3>2 DEF Keeps
  <2> QED BY <2>2, <2>3
<1> QED BY <1>3, <1>4, <1>5, <1>6 DEF ChildInv

LEMMA SetupRedirectsStep ==
  ASSUME ChildProcessConstants, ChildInv, NEW h \in Handles, NEW r \in Redirects,
         SetupRedirects(h, r)
  PROVE  ChildInv'
<1>1. PICK made \in SUBSET r.streams :
        /\ open' = open \cup UNION {Both(h, s) : s \in made}
        /\ handle' = [handle EXCEPT ![h].redirect = r,
                                    ![h].stage = IF made = r.streams THEN "ready" ELSE "failed"]
  BY DEF SetupRedirects
<1>2. handle[h].stage = "new" /\ UNCHANGED <<proc, mine>> /\ r.streams \subseteq Streams
  BY DEF SetupRedirects, Redirects, ChildProcessConstants, Streams
<1>3. Keeps(h) /\ handle[h] \in Knowledge
  BY HandleFacts
<1>4. /\ handle' \in [Handles -> Knowledge]
      /\ handle'[h].redirect = r /\ handle'[h].pid = handle[h].pid
      /\ handle'[h].stage \in {"ready", "failed"}
      /\ \A k \in Handles \ {h} : handle'[k] = handle[k]
  BY <1>1, <1>3 DEF ChildInv, Typed, Knowledge, Stages
<1>5. ASSUME NEW e \in open'
      PROVE  e \in open \/ (e \in PipeEnds /\ \E s \in r.streams, side \in {"read", "write"} :
                                                e = End(h, s, side))
  BY <1>1, <1>2 DEF Both, End, PipeEnds
<1>6. Typed'
  BY <1>2, <1>4, <1>5 DEF ChildInv, Typed
<1>7. \A p \in Pids : proc[p].state \notin {"none", "foreign"} => proc[p].of \in Handles \ {h}
  BY <1>2, RecordFacts DEF Belongs
<1>8. \A p \in Pids : Belongs(p)'
  BY <1>2, <1>4, <1>7, RecordFacts DEF Belongs
<1>9. Separate'
  <2>1. \A p \in Pids : proc[p].state = "runs" => proc[p].of \in Handles \ {h}
    BY <1>7
  <2>2. ASSUME NEW k \in Handles, handle'[k].stage = "started", NEW s \in Streams
        PROVE  End(k, s, Side(s)) \notin open'
    <3>1. k # h /\ handle[k].stage = "started"
      BY <1>4, <2>2
    <3>2. End(k, s, Side(s)) \notin open
      BY <3>1 DEF ChildInv, Separate
    <3> QED BY <1>5, <3>1, <3>2 DEF End
  <2> QED BY <1>2, <1>4, <2>1, <2>2 DEF ChildInv, Separate
<1>10. ASSUME NEW k \in Handles PROVE Keeps(k)'
  <2>1. Keeps(k)
    BY HandleFacts
  <2>2. CASE k = h
    <3>1. handle'[k].pid = NoPid
      BY <1>2, <1>3, <1>4, <2>2 DEF Keeps
    <3>2. ASSUME NEW s \in Streams, NEW side \in {"read", "write"}, End(h, s, side) \in open'
          PROVE  s \in r.streams
      BY <1>2, <1>3, <1>5, <3>2 DEF Keeps, End
    <3> QED BY <1>4, <2>2, <3>1, <3>2 DEF Keeps
  <2>3. CASE k # h
    <3>1. ASSUME NEW s \in Streams, NEW side \in {"read", "write"}, End(k, s, side) \in open'
          PROVE  End(k, s, side) \in open
      BY <1>5, <2>3, <3>1 DEF End
    <3> QED BY <1>2, <1>4, <2>1, <2>3, <3>1 DEF Keeps
  <2> QED BY <2>2, <2>3
<1> QED BY <1>6, <1>8, <1>9, <1>10 DEF ChildInv

LEMMA ForkStep ==
  ASSUME ChildProcessConstants, ChildInv, NEW h \in Handles, Fork(h)
  PROVE  ChildInv'
<1> DEFINE gone == {End(h, s, Side(s)) : s \in handle[h].redirect.streams}
<1>1. PICK p \in Pids :
        /\ proc[p].state = "none"
        /\ proc' = [proc EXCEPT ![p] = [Nobody EXCEPT !.state = "forked", !.of = h, !.ends = open]]
        /\ handle' = [handle EXCEPT ![h].pid = p, ![h].stage = "started"]
        /\ open' = open \ gone
        /\ mine' = [mine EXCEPT ![h] = p]
  BY DEF Fork
<1> DEFINE x == [Nobody EXCEPT !.state = "forked", !.of = h, !.ends = open]
<1>2. handle[h].stage = "ready" /\ p # NoPid
  BY DEF Fork, ChildProcessConstants, NoPid
<1>3. Keeps(h) /\ handle[h] \in Knowledge /\ handle[h].pid = NoPid
  BY <1>2, HandleFacts DEF Keeps
<1>4. x \in Record /\ x.state = "forked" /\ x.of = h
  <2>1. open \subseteq PipeEnds
    BY DEF ChildInv, Typed
  <2> QED BY <2>1, NobodyFacts DEF Record
<1> HIDE DEF x, gone
<1>5. /\ proc' \in [Pids -> Record] /\ proc'[p] = x
      /\ \A q \in Pids \ {p} : proc'[q] = proc[q]
  BY <1>1, <1>4 DEF ChildInv, Typed, x
<1>6. /\ handle' \in [Handles -> Knowledge]
      /\ handle'[h].redirect = handle[h].redirect /\ handle'[h].pid = p
      /\ handle'[h].stage = "started"
      /\ \A k \in Handles \ {h} : handle'[k] = handle[k]
  BY <1>1, <1>3 DEF ChildInv, Typed, Knowledge, Stages
<1>7. mine' \in [Handles -> Pids \cup {NoPid}] /\ mine'[h] = p
      /\ \A k \in Handles \ {h} : mine'[k] = mine[k]
  BY <1>1 DEF ChildInv, Typed
<1>8. Typed'
  BY <1>1, <1>5, <1>6, <1>7 DEF ChildInv, Typed
<1>9. \A q \in Pids : proc[q].state \notin {"none", "foreign"} => proc[q].of \in Handles \ {h}
  BY <1>2, RecordFacts DEF Belongs
<1>10. \A q \in Pids : Belongs(q)'
  <2>1. Belongs(p)'
    BY <1>4, <1>5, <1>6 DEF Belongs
  <2>2. ASSUME NEW q \in Pids \ {p} PROVE Belongs(q)'
    <3>1. Belongs(q) /\ proc'[q] = proc[q]
      BY <1>5, RecordFacts
    <3>2. proc[q].state \notin {"none", "foreign"} => handle'[proc[q].of] = handle[proc[q].of]
      BY <1>6, <1>9
    <3> QED BY <3>1, <3>2 DEF Belongs
  <2> QED BY <2>1, <2>2
<1>11. Separate'
  <2>1. ASSUME NEW q \in Pids, proc'[q].state = "runs"
        PROVE  proc'[q] = proc[q] /\ proc[q].of \in Handles \ {h}
    BY <1>4, <1>5, <1>9, <2>1
  <2>2. ASSUME NEW s \in Streams PROVE End(h, s, Side(s)) \notin open'
    <3>1. Side(s) \in {"read", "write"}
      BY DEF Side
    <3>2. End(h, s, Side(s)) \in open => s \in handle[h].redirect.streams
      BY <1>3, <3>1 DEF Keeps
    <3> QED BY <1>1, <3>2 DEF gone
  <2>3. open' \subseteq open
    BY <1>1
  <2> QED BY <1>6, <2>1, <2>2, <2>3 DEF ChildInv, Separate
<1>12. ASSUME NEW k \in Handles PROVE Keeps(k)'
  <2>1. Keeps(k) /\ handle[k].pid \in Pids \cup {NoPid}
    BY HandleFacts
  <2>2. open' \subseteq open
    BY <1>1
  <2>3. ASSUME NEW s \in Streams, NEW side \in {"read", "write"}, End(k, s, side) \in open'
        PROVE  s \in handle[k].redirect.streams /\ handle[k].stage # "new"
    BY <2>1, <2>2, <2>3 DEF Keeps
  <2>4. CASE k = h
    <3>1. mine'[k] = handle'[k].pid /\ proc'[handle'[k].pid].of = k
      BY <1>4, <1>5, <1>6, <1>7, <2>4
    <3> QED BY <1>6, <2>3, <2>4, <3>1 DEF Keeps
  <2>5. CASE k # h
    <3>1. handle'[k] = handle[k] /\ mine'[k] = mine[k]
      BY <1>6, <1>7, <2>5
    <3>2. ASSUME ~Polls, handle[k].pid # NoPid
          PROVE  mine[k] = handle[k].pid /\ proc'[handle[k].pid].of = k
      <4>1. mine[k] = handle[k].pid /\ proc[handle[k].pid].of = k /\ handle[k].pid \in Pids
        BY <2>1, <3>2 DEF Keeps
      <4>2. k # ""
        BY DEF ChildProcessConstants
      <4>3. Belongs(p)
        BY RecordFacts
      <4>4. handle[k].pid # p
        BY <1>1, <4>1, <4>2, <4>3 DEF Belongs
      <4> QED BY <1>5, <4>1, <4>4
    <3>3. handle[k].stage \in {"new", "ready", "failed"} => handle[k].pid = NoPid
      BY <2>1 DEF Keeps
    <3> QED BY <2>3, <3>1, <3>2, <3>3 DEF Keeps
  <2> QED BY <2>4, <2>5
<1> QED BY <1>8, <1>10, <1>11, <1>12 DEF ChildInv

LEMMA DownStep ==
  ASSUME ChildProcessConstants, ChildInv, NEW h \in Handles,
         handle[h].pid # NoPid, ~IsChild(h),
         handle' = [handle EXCEPT ![h].stage = "down"], UNCHANGED <<proc, open, mine>>
  PROVE  ChildInv'
<1>1. /\ handle' \in [Handles -> Knowledge] /\ handle'[h].stage = "down"
      /\ handle'[h].pid = handle[h].pid /\ handle'[h].redirect = handle[h].redirect
      /\ \A k \in Handles \ {h} : handle'[k] = handle[k]
  <2>1. handle \in [Handles -> Knowledge] /\ handle[h] \in Knowledge
    BY HandleFacts DEF ChildInv, Typed
  <2> QED BY <2>1 DEF Knowledge, Stages
<1>2. Typed'
  BY <1>1 DEF ChildInv, Typed
<1>3. ASSUME NEW q \in Pids, proc[q].state \notin {"none", "foreign"}
      PROVE  proc[q].of \in Handles \ {h}
  <2>1. Belongs(q) /\ proc[q].state \in {"forked", "runs", "zombie"}
    BY <1>3, RecordFacts
  <2> QED BY <1>3, <2>1 DEF Belongs, IsChild, Child
<1>4. ASSUME NEW q \in Pids PROVE Belongs(q)'
  <2>1. Belongs(q)
    BY RecordFacts
  <2>2. proc[q].state \notin {"none", "foreign"} => handle'[proc[q].of] = handle[proc[q].of]
    BY <1>1, <1>3
  <2> QED BY <2>1, <2>2 DEF Belongs
<1>5. Separate'
  <2>1. \A q \in Pids : proc[q].state = "runs" => handle'[proc[q].of] = handle[proc[q].of]
    BY <1>1, <1>3
  <2>2. \A k \in Handles : handle'[k].stage = "started" => handle[k].stage = "started"
    BY <1>1
  <2> QED BY <2>1, <2>2 DEF ChildInv, Separate
<1>6. ASSUME NEW k \in Handles PROVE Keeps(k)'
  <2>1. Keeps(k) /\ handle'[k].pid = handle[k].pid /\ handle'[k].redirect = handle[k].redirect
    BY <1>1, HandleFacts
  <2>2. handle'[k].stage = "down" \/ handle'[k].stage = handle[k].stage
    BY <1>1
  <2> QED BY <2>1, <2>2 DEF Keeps
<1> QED BY <1>2, <1>4, <1>5, <1>6 DEF ChildInv

LEMMA SameStep ==
  ASSUME ChildInv, UNCHANGED <<handle, proc, open, mine>>
  PROVE  ChildInv'
BY DEF ChildInv, Typed, Separate, Belongs, Keeps

LEMMA ForkFailsStep ==
  ASSUME ChildProcessConstants, ChildInv, NEW h \in Handles, ForkFails(h)
  PROVE  ChildInv'
<1> DEFINE x == [handle[h] EXCEPT !.stage = "failed"]
<1>1. handle[h] \in Knowledge /\ handle[h].pid = NoPid
  BY HandleFacts DEF ForkFails, Keeps
<1>2. x \in Knowledge /\ x.redirect = handle[h].redirect /\ x.pid = NoPid /\ x.stage = "failed"
  BY <1>1 DEF Knowledge, Stages
<1>3. handle' = [handle EXCEPT ![h] = x] /\ UNCHANGED <<proc, open, mine>>
  BY DEF ForkFails
<1> HIDE DEF x
<1> QED BY <1>1, <1>2, <1>3, Dropped

LEMMA SetupChildStep ==
  ASSUME ChildProcessConstants, ChildInv, NEW p \in Pids, SetupChild(p)
  PROVE  ChildInv'
<1> DEFINE h == proc[p].of
           r == handle[h].redirect
           ends == proc[p].ends \ UNION {Both(h, s) : s \in r.streams}
           std == [s \in Streams |->
                     IF s \in r.streams THEN End(h, s, Side(s))
                     ELSE IF s = "err" /\ r.merged THEN End(h, "out", "write") ELSE <<>>]
           x == [proc[p] EXCEPT !.state = "runs", !.ends = ends, !.std = std]
<1>1. proc' = [proc EXCEPT ![p] = x] /\ UNCHANGED <<handle, open, mine>>
  BY DEF SetupChild
<1>2. /\ proc[p] \in Record /\ proc[p].state = "forked" /\ h \in Handles
      /\ proc[p].ends \subseteq PipeEnds
  BY RecordFacts DEF SetupChild, Belongs
<1>3. r.streams \subseteq Streams
  BY <1>2, HandleFacts DEF Redirects, ChildProcessConstants, Streams
<1>4. std \in [Streams -> PipeEnds \cup {<<>>}] /\ \A s \in r.streams : std[s] = End(h, s, Side(s))
  <2>1. \A s \in Streams, side \in {"read", "write"} : End(h, s, side) \in PipeEnds
    BY <1>2 DEF End, PipeEnds
  <2>2. \A s \in Streams : Side(s) \in {"read", "write"}
    BY DEF Side
  <2>3. "out" \in Streams
    BY DEF Streams
  <2> QED BY <1>3, <2>1, <2>2, <2>3
<1>5. ends \subseteq PipeEnds /\ \A s \in r.streams : Both(h, s) \cap ends = {}
  BY <1>2
<1> HIDE DEF ends, std
<1>6. x \in Record /\ x.of = h /\ x.state = "runs" /\ x.ends = ends /\ x.std = std
  BY <1>2, <1>4, <1>5 DEF Record
<1> HIDE DEF x
<1> QED BY <1>1, <1>2, <1>4, <1>5, <1>6, ProcStep

LEMMA ZombieStep ==
  ASSUME ChildProcessConstants, ChildInv, NEW p \in Pids, proc[p].state \in {"forked", "runs"},
         NEW status \in {"0", "1", "signal"}, Zombie(p, status), UNCHANGED <<handle, open, mine>>
  PROVE  ChildInv'
<1> DEFINE x == [proc[p] EXCEPT !.state = "zombie", !.status = status, !.ends = {}, !.std = Nobody.std]
<1>1. proc' = [proc EXCEPT ![p] = x]
  BY DEF Zombie
<1>2. x \in Record /\ x.of = proc[p].of /\ x.state = "zombie"
  BY RecordFacts, NobodyFacts DEF Record
<1> HIDE DEF x
<1> QED BY <1>1, <1>2, ProcStep

LEMMA ForeignStep ==
  ASSUME ChildProcessConstants, ChildInv, NEW p \in Pids, Foreign(p)
  PROVE  ChildInv'
<1>1. CASE proc[p].state = "none" /\ proc' = [proc EXCEPT ![p].state = "foreign"]
  <2> DEFINE x == [proc[p] EXCEPT !.state = "foreign"]
  <2>1. proc' = [proc EXCEPT ![p] = x] /\ UNCHANGED <<handle, open, mine>>
    BY <1>1 DEF Foreign
  <2>2. x \in Record /\ x.of = proc[p].of /\ x.state = "foreign"
    BY RecordFacts DEF Record
  <2> HIDE DEF x
  <2> QED BY <1>1, <2>1, <2>2, ProcStep
<1>2. CASE proc[p].state = "foreign" /\ proc' = [proc EXCEPT ![p] = Nobody]
  <2>1. proc[p].of = ""
    BY <1>2, RecordFacts DEF Belongs
  <2>2. UNCHANGED <<handle, open, mine>>
    BY DEF Foreign
  <2> QED BY <1>2, <2>1, <2>2, NobodyFacts, ProcStep
<1> QED BY <1>1, <1>2 DEF Foreign

LEMMA RunningStep ==
  ASSUME ChildProcessConstants, ChildInv, NEW h \in Handles, Running(h)
  PROVE  ChildInv'
<1>1. CASE UNCHANGED proc
  BY <1>1, SameStep DEF Running
<1>2. CASE IsChild(h) /\ Reap(h)
  <2>1. Polls /\ UNCHANGED <<handle, open, mine>>
    BY DEF Running
  <2>2. /\ proc' \in [Pids -> Record]
        /\ \A q \in Pids : proc'[q] = Nobody \/ proc'[q] = proc[q]
    <3>1. handle[h].pid \in Pids /\ proc \in [Pids -> Record]
      BY <1>2, HandleFacts DEF IsChild, ChildInv, Typed
    <3> QED BY <1>2, <3>1, NobodyFacts DEF Reap
  <2>3. Typed'
    BY <2>1, <2>2 DEF ChildInv, Typed
  <2>4. ASSUME NEW q \in Pids PROVE Belongs(q)'
    BY <2>1, <2>2, RecordFacts, NobodyFacts DEF Belongs
  <2>5. Separate'
    BY <2>1, <2>2, NobodyFacts DEF ChildInv, Separate
  <2>6. ASSUME NEW k \in Handles PROVE Keeps(k)'
    BY <2>1, HandleFacts DEF Keeps
  <2> QED BY <2>3, <2>4, <2>5, <2>6 DEF ChildInv
<1> QED BY <1>1, <1>2 DEF Running

LEMMA WaitStep ==
  ASSUME ChildProcessConstants, ChildInv, NEW h \in Handles,
         Wait(h) \/ WaitForSuccess(h) \/ Destroy(h)
  PROVE  ChildInv'
<1>1. UNCHANGED <<open, mine>> /\ handle[h] \in Knowledge
  BY HandleFacts DEF Wait, WaitForSuccess, Destroy
<1>2. CASE UNCHANGED <<handle, proc>>
  BY <1>1, <1>2, SameStep
<1>3. CASE IsChild(h) /\ Reap(h) /\ handle' = [handle EXCEPT ![h].pid = NoPid]
  <2> DEFINE x == [handle[h] EXCEPT !.pid = NoPid]
  <2>1. x \in Knowledge /\ x.redirect = handle[h].redirect /\ x.pid = NoPid
        /\ x.stage = handle[h].stage
    BY <1>1 DEF Knowledge
  <2>2. handle' = [handle EXCEPT ![h] = x] /\ handle[h].pid # NoPid
    BY <1>3 DEF IsChild
  <2> HIDE DEF x
  <2> QED BY <1>1, <1>3, <2>1, <2>2, Dropped
<1>4. CASE IsChild(h) /\ Reap(h) /\ handle' = [handle EXCEPT ![h].stage = "gone", ![h].pid = NoPid]
  <2> DEFINE x == [handle[h] EXCEPT !.stage = "gone", !.pid = NoPid]
  <2>1. x \in Knowledge /\ x.redirect = handle[h].redirect /\ x.pid = NoPid /\ x.stage = "gone"
    BY <1>1 DEF Knowledge, Stages
  <2>2. handle' = [handle EXCEPT ![h] = x] /\ handle[h].pid # NoPid
    BY <1>1, <1>4 DEF IsChild, ChildInv, Typed
  <2> HIDE DEF x
  <2> QED BY <1>1, <1>4, <2>1, <2>2, Dropped
<1>5. CASE handle[h].pid = NoPid /\ handle' = [handle EXCEPT ![h].stage = "gone"] /\ UNCHANGED proc
  <2> DEFINE x == [handle[h] EXCEPT !.stage = "gone"]
  <2>1. x \in Knowledge /\ x.redirect = handle[h].redirect /\ x.pid = NoPid /\ x.stage = "gone"
    BY <1>1, <1>5 DEF Knowledge, Stages
  <2>2. handle' = [handle EXCEPT ![h] = x]
    BY <1>5
  <2> HIDE DEF x
  <2> QED BY <1>1, <1>5, <2>1, <2>2, Dropped
<1>6. CASE handle[h].pid # NoPid /\ ~IsChild(h)
           /\ handle' = [handle EXCEPT ![h].stage = "down"] /\ UNCHANGED proc
  BY <1>1, <1>6, DownStep
<1> QED BY <1>1, <1>2, <1>3, <1>4, <1>5, <1>6 DEF Wait, WaitForSuccess, Destroy

LEMMA KillStep ==
  ASSUME ChildProcessConstants, ChildInv, NEW h \in Handles, Kill(h)
  PROVE  ChildInv'
<1>1. UNCHANGED <<handle, open, mine>>
  BY DEF Kill
<1>2. CASE UNCHANGED proc
  BY <1>1, <1>2, SameStep
<1>3. CASE handle[h].pid # NoPid /\ Child(h).state = "foreign" /\ Reap(h)
  <2>1. handle[h].pid \in Pids /\ proc[handle[h].pid].of = ""
    BY <1>3, HandleFacts, RecordFacts DEF Belongs, Child
  <2> QED BY <1>1, <1>3, <2>1, NobodyFacts, ProcStep DEF Reap, Child
<1>4. CASE handle[h].pid # NoPid /\ Child(h).state \in {"forked", "runs"}
           /\ Zombie(handle[h].pid, "signal")
  <2>1. handle[h].pid \in Pids
    BY <1>4, HandleFacts
  <2> QED BY <1>1, <1>4, <2>1, ZombieStep DEF Child
<1> QED BY <1>2, <1>3, <1>4 DEF Kill

LEMMA ChildInit ==
  ASSUME ChildProcessConstants, Init
  PROVE  ChildInv
<1> DEFINE none == [streams |-> {}, merged |-> FALSE]
<1>1. none \in Redirects
  BY DEF Redirects
<1>2. handle \in [Handles -> Knowledge] /\ \A h \in Handles : handle[h].pid = NoPid /\ handle[h].stage = "new"
  BY <1>1 DEF Init, Knowledge, Stages
<1>3. proc \in [Pids -> Record] /\ \A p \in Pids : proc[p].state = "none" /\ proc[p].of = ""
  BY NobodyFacts DEF Init
<1>4. open = {} /\ mine \in [Handles -> Pids \cup {NoPid}]
  BY DEF Init
<1> QED BY <1>2, <1>3, <1>4 DEF ChildInv, Typed, Separate, Belongs, Keeps

LEMMA ChildNext ==
  ASSUME ChildProcessConstants, ChildInv, Next
  PROVE  ChildInv'
<1>1. ASSUME NEW h \in Handles, User(h) PROVE ChildInv'
  BY <1>1, SetupRedirectsStep, ForkStep, ForkFailsStep, RunningStep, WaitStep, KillStep DEF User
<1>2. ASSUME NEW p \in Pids, SetupChild(p) \/ Ends(p) \/ Foreign(p) PROVE ChildInv'
  <2>1. CASE Ends(p)
    <3>1. \E status \in {"0", "1", "signal"} :
            proc[p].state \in {"forked", "runs"} /\ Zombie(p, status)
      BY <2>1 DEF Ends
    <3> QED BY <2>1, <3>1, ZombieStep DEF Ends
  <2> QED BY <1>2, <2>1, SetupChildStep, ForeignStep
<1> QED BY <1>1, <1>2 DEF Next

LEMMA ChildStutter ==
  ASSUME ChildInv, UNCHANGED vars
  PROVE  ChildInv'
BY SameStep DEF vars

LEMMA ChildParts ==
  ASSUME ChildProcessConstants, ChildInv
  PROVE  Separate /\ NoneLeft
<1>1. ASSUME NEW h \in Handles, handle[h].stage = "gone", NEW p \in Pids
      PROVE  proc[p].of # h
  <2>1. Belongs(p) /\ h # ""
    BY RecordFacts DEF ChildProcessConstants
  <2> QED BY <1>1, <2>1 DEF Belongs
<1> QED BY <1>1 DEF ChildInv, NoneLeft

LEMMA OwnStep ==
  ASSUME ChildProcessConstants, ChildInv, ~Polls, [Next]_vars
  PROVE  OwnStatusStep
<1> SUFFICES ASSUME NEW h \in Handles, last' # last, last'.op = "wait", last'.of = h,
                    last'.value \in {"0", "1", "signal"}
             PROVE  proc[mine[h]].of = h /\ proc[mine[h]].status = last'.value
  BY DEF OwnStatusStep
<1>1. \E k \in Handles : Wait(k)
  BY DEF Next, vars, User, SetupRedirects, Fork, ForkFails, Running, WaitForSuccess, Kill, Destroy,
         SetupChild, Ends, Foreign
<1>2. PICK k \in Handles : Wait(k)
  BY <1>1
<1>3. k = h
  BY <1>2 DEF Wait, Said
<1>4. IsChild(h) /\ last'.value = Child(h).status
  BY <1>2, <1>3 DEF Wait, Said
<1>5. mine[h] = handle[h].pid /\ proc[handle[h].pid].of = h
  BY <1>4, HandleFacts DEF Keeps, IsChild
<1> QED BY <1>4, <1>5 DEF Child

(* Of its own pipes a child has the ends that are its streams and no other, *)
(* the caller of a started child its own ends only, and a handle that is    *)
(* destroyed leaves neither a running child nor a zombie (setupChild,       *)
(* setupParent and the destructor of ChildProcess).                         *)
THEOREM NoChildLeft ==
  ChildProcessConstants => (Spec => [](Separate /\ NoneLeft))
<1> SUFFICES ASSUME ChildProcessConstants PROVE Spec => [](Separate /\ NoneLeft)
  OBVIOUS
<1>1. Init => ChildInv
  BY ChildInit
<1>2. ChildInv /\ [Next]_vars => ChildInv'
  BY ChildNext, ChildStutter
<1>3. ChildInv => Separate /\ NoneLeft
  BY ChildParts
<1> QED BY <1>1, <1>2, <1>3, PTL DEF Spec

(* What wait returns is how the child of this very handle ended, unless     *)
(* running was used, which takes the status away and keeps the number.      *)
THEOREM StatusIsOwn ==
  ChildProcessConstants /\ ~Polls => (Spec => OwnStatus)
<1> SUFFICES ASSUME ChildProcessConstants, ~Polls PROVE Spec => OwnStatus
  OBVIOUS
<1>1. Init => ChildInv
  BY ChildInit
<1>2. ChildInv /\ [Next]_vars => ChildInv'
  BY ChildNext, ChildStutter
<1>3. ChildInv /\ [Next]_vars => [OwnStatusStep]_vars
  BY OwnStep
<1> QED BY <1>1, <1>2, <1>3, PTL DEF Spec, OwnStatus
=============================================================================
