----------------------------- MODULE TestRunner -----------------------------
(***************************************************************************)
(* The runner of shell tests (brick-shelltest.h).  It runs one test after  *)
(* the other, kills those that are silent for too long, and keeps a        *)
(* journal, so that a run with --continue after the tests brought the      *)
(* machine down goes on where the last one stopped.                        *)
(***************************************************************************)
EXTENDS Integers, Sequences, FiniteSets, SequencesExt

CONSTANTS Tests,         \* number of the tests; they run in the order of their names
          FatalTimeouts, \* --fatal-timeouts: two timeouts in a row end the run
          MaxCrashes,    \* bound: crashes of the machine
          MaxSignals,    \* bound: signals to the runner
          MaxRuns        \* bound: runs

TestRunnerConstants ==
  /\ Tests \in Nat \ {0} /\ FatalTimeouts \in BOOLEAN
  /\ MaxCrashes \in Nat /\ MaxSignals \in Nat /\ MaxRuns \in Nat

VARIABLES disk,    \* the lines of the journal, and how many are safe (fsync)
          main,    \* the runner's process
          child,   \* the test it runs
          code,    \* the result of the last run, "none" when it did not end by itself
          downs,   \* test |-> crashes while it ran and the journal said so, since its last verdict
          crashes, signals, runs

vars == <<disk, main, child, code, downs, crashes, signals, runs>>

Test == 1..Tests
Verdict == {"FAILED", "INTERRUPTED", "PASSED", "SKIPPED", "TIMEOUT"}
R == Verdict \cup {"STARTED", "RETRIED"}
Absent == "absent"    \* not in the map

NoStatus == [t \in Test |-> Absent]
Off == [pc |-> "off", cont |-> FALSE, status |-> NoStatus, written |-> NoStatus, timeouts |-> 0,
        cur |-> 1, die |-> FALSE, fatal |-> FALSE, interrupt |-> FALSE, timeout |-> FALSE,
        caught |-> {}]
NoChild == [test |-> 0, end |-> "none"]

Init ==
  /\ disk = [lines |-> <<>>, safe |-> 0]
  /\ main = Off /\ child = NoChild /\ code = "none"
  /\ downs = [t \in Test |-> 0]
  /\ crashes = 0 /\ signals = 0 /\ runs = 0

-----------------------------------------------------------------------------
(* Journal::read: the last line of a test counts.                           *)
Read(lines) ==
  [t \in Test |-> LET at == {i \in 1..Len(lines) : lines[i][1] = t}
                  IN IF at = {} THEN Absent ELSE lines[CHOOSE i \in at : \A j \in at : j <= i][2]]

(* append: what is not in the journal or differs from what was written.     *)
Append1(m, d) ==
  [d EXCEPT !.lines = @ \o SetToSortSeq({<<t, m.status[t]>> : t \in {u \in Test :
                              m.status[u] \notin {Absent, m.written[u]}}},
                            LAMBDA x, y : x[1] < y[1])]
Written(m) == [m EXCEPT !.written = m.status]

(* started: a test that a run began and did not finish is tried once more.  *)
\* mutant: every start is a first one
StartedAgain(m, t) == [m EXCEPT !.status[t] = "STARTED"]
StartedAs(m, t) == [m EXCEPT !.status[t] = IF @ = "STARTED" THEN "RETRIED" ELSE "STARTED"]
DoneAs(m, t, r) ==
  [m EXCEPT !.status[t] = r, !.timeouts = IF r = "TIMEOUT" THEN @ + 1 ELSE 0]
\* mutant: a test that passed is run again
DoneBadly(m, t) == m.status[t] \notin {Absent, "STARTED", "INTERRUPTED", "PASSED"}
Done(m, t) == m.status[t] \notin {Absent, "STARTED", "INTERRUPTED"}

(* An entry of the journal: append, and fsync in the next step.             *)
Enter(m, then) ==
  /\ main' = [Written(m) EXCEPT !.pc = then]
  /\ disk' = Append1(m, disk)
Go(then) == main' = [main EXCEPT !.pc = then]

(* setup: without --continue the journal is removed.                        *)
Setup(cont) ==
  /\ main.pc = "off" /\ runs < MaxRuns
  /\ runs' = runs + 1 /\ code' = "none"
  /\ main' = [Off EXCEPT !.pc = "next", !.cont = cont,
                         !.status = IF cont THEN Read(disk.lines) ELSE NoStatus]
  /\ disk' = IF cont THEN disk ELSE [lines |-> <<>>, safe |-> 0]
  /\ downs' = IF cont THEN downs ELSE [t \in Test |-> 0]
  /\ UNCHANGED <<child, crashes, signals>>

Skip ==
  /\ main.pc = "next" /\ main.cur <= Tests
  /\ main.cont /\ Done(main, main.cur)
  /\ main' = [main EXCEPT !.cur = @ + 1]
  /\ UNCHANGED <<disk, child, code, downs, crashes, signals, runs>>

(* run: the test runs before the journal says that it was started.          *)
Fork ==
  /\ main.pc = "next" /\ main.cur <= Tests
  /\ ~(main.cont /\ Done(main, main.cur))
  /\ child' = [test |-> main.cur, end |-> "running"]
  /\ main' = [main EXCEPT !.pc = "forked", !.timeout = FALSE]
  /\ UNCHANGED <<disk, code, downs, crashes, signals, runs>>

Started ==
  /\ main.pc = "forked"
  /\ Enter(StartedAs(main, main.cur), "syncStart")
  /\ UNCHANGED <<child, code, downs, crashes, signals, runs>>

Sync ==
  /\ \/ main.pc = "syncStart" /\ Go("monitor")
     \/ main.pc = "syncDone" /\ Go("after")
     \/ main.pc = "syncRetry" /\ Go("checked")
  /\ disk' = [disk EXCEPT !.safe = Len(disk.lines)]
  /\ UNCHANGED <<child, code, downs, crashes, signals, runs>>

(* The test ends by itself, or does not react to signals.                   *)
ChildEnds ==
  /\ child.end = "running"
  /\ \E end \in {"ok", "skip", "bad"} : child' = [child EXCEPT !.end = end]
  /\ UNCHANGED <<disk, main, code, downs, crashes, signals, runs>>

-----------------------------------------------------------------------------
(* monitor: the test ended, or nothing was heard of it for too long.        *)
Ended == child.end # "running"
Reap ==
  /\ main.pc = "monitor" /\ Ended
  /\ Go("verdict")
  /\ UNCHANGED <<disk, child, code, downs, crashes, signals, runs>>

(* SIGINT, and five seconds for the test to end, whatever its result.       *)
Silence ==
  /\ main.pc = "monitor" /\ ~Ended
  /\ main' = [main EXCEPT !.pc = "grace", !.timeout = TRUE]
  /\ \/ child' = [child EXCEPT !.end = "INT"]
     \/ UNCHANGED child
  /\ UNCHANGED <<disk, code, downs, crashes, signals, runs>>

Kill ==
  /\ main.pc = "grace"
  /\ Go("verdict")
  /\ child' = IF Ended THEN child ELSE [child EXCEPT !.end = "KILL"]
  /\ UNCHANGED <<disk, code, downs, crashes, signals, runs>>

VerdictOf ==
  IF main.timeout THEN "TIMEOUT"
  ELSE IF child.end = "ok" THEN "PASSED"
  ELSE IF child.end = "skip" THEN "SKIPPED"
  ELSE IF main.interrupt /\ child.end = "INT" THEN "INTERRUPTED"
  ELSE "FAILED"

Finish ==
  /\ main.pc = "verdict"
  /\ Enter(DoneAs(main, main.cur, VerdictOf), "syncDone")
  /\ child' = NoChild
  /\ downs' = [downs EXCEPT ![main.cur] = 0]
  /\ UNCHANGED <<code, crashes, signals, runs>>

(* Two timeouts in a row suspend the run, and a restart begins with the     *)
(* second test again; the total timeout may be over too.                    *)
After ==
  LET fatal == FatalTimeouts /\ main.timeouts >= 2
  IN /\ main.pc = "after"
     /\ IF fatal THEN Enter(StartedAs([main EXCEPT !.die = TRUE], main.cur), "syncRetry")
        ELSE /\ \E over \in BOOLEAN : main' = [main EXCEPT !.pc = "checked", !.die = over]
             /\ UNCHANGED disk
     /\ UNCHANGED <<child, code, downs, crashes, signals, runs>>

Next1 ==
  /\ main.pc = "checked" /\ ~main.die /\ ~main.fatal
  /\ main' = [main EXCEPT !.pc = "next", !.cur = @ + 1]
  /\ UNCHANGED <<disk, child, code, downs, crashes, signals, runs>>

End ==
  /\ \/ main.pc = "checked" /\ (main.die \/ main.fatal)
     \/ main.pc = "next" /\ main.cur > Tests
  /\ code' = IF main.die \/ main.fatal \/ \E t \in Test : main.status[t] = "FAILED"
             THEN "1" ELSE "0"
  /\ main' = Off
  /\ UNCHANGED <<disk, child, downs, crashes, signals, runs>>

-----------------------------------------------------------------------------
(* handler: the first signal of a kind goes on to the test, which may       *)
(* survive it, and lets the run end; the second ends the runner at once     *)
(* and leaves the test alone.                                               *)
Handle(sig) ==
  /\ main' = [main EXCEPT !.fatal = TRUE, !.interrupt = @ \/ sig = "INT",
                          !.caught = @ \cup {sig}]
  /\ \/ child.end = "running" /\ child' = [child EXCEPT !.end = sig]
     \/ UNCHANGED child
  /\ UNCHANGED code
Signal(sig) ==
  /\ main.pc # "off" /\ signals < MaxSignals
  /\ signals' = signals + 1
  /\ \/ sig \notin main.caught /\ Handle(sig)
     \/ sig \in main.caught /\ main' = Off /\ child' = NoChild /\ UNCHANGED code
  /\ UNCHANGED <<disk, downs, crashes, runs>>

(* The machine goes down: lines that were not synced may be lost, each as a *)
(* whole.  (A line that is cut inside would be read as the result UNKNOWN,  *)
(* which counts as done, and the line after it would be taken for its end.) *)
Crash ==
  /\ main.pc # "off" /\ crashes < MaxCrashes
  /\ crashes' = crashes + 1
  /\ \E n \in disk.safe..Len(disk.lines) :
       disk' = [lines |-> SubSeq(disk.lines, 1, n), safe |-> n]
  /\ main' = Off /\ child' = NoChild
  /\ downs' = IF main.pc \in {"monitor", "grace", "verdict"}
              THEN [downs EXCEPT ![main.cur] = @ + 1] ELSE downs
  /\ UNCHANGED <<code, signals, runs>>

Step == Skip \/ Fork \/ Started \/ Sync \/ Reap \/ Kill \/ Finish \/ After \/ Next1 \/ End
Next ==
  \/ \E cont \in BOOLEAN : Setup(cont)
  \/ Step \/ Silence \/ ChildEnds \/ Crash
  \/ \E sig \in {"INT", "TERM"} : Signal(sig)

Spec == Init /\ [][Next]_vars

(* The runner is scheduled, its clock goes on, and a test that does not end *)
(* falls silent (one that writes for ever is never killed).                 *)
FairSpec == Spec /\ WF_vars(Step) /\ WF_vars(Silence)

-----------------------------------------------------------------------------
TypeOK ==
  /\ main.status \in [Test -> R \cup {Absent}]
  /\ main.cur \in 1..(Tests + 1) /\ main.timeouts \in 0..Tests
  /\ disk.safe \in 0..Len(disk.lines)
  /\ child.end = "running" => main.pc \in {"forked", "syncStart", "monitor", "grace"}

(* A test that brings the machine down is run a second time, and not a      *)
(* third time, before it had a verdict (started, done).                     *)
AtMostTwice == \A t \in Test : downs[t] <= 2

(* What the runner believes of a test that is not running is what a restart *)
(* would read from the journal (append, written).                           *)
Journaled ==
  main.pc \in {"syncStart", "monitor", "syncDone", "after", "checked"} =>
    Read(disk.lines) = main.status

(* A run that reports success leaves no test that failed, was interrupted,  *)
(* was not run, or was begun once without a result (handler, run).  It does *)
(* count a timeout as no failure, and a test that was begun twice and had   *)
(* no result either time: done() takes RETRIED for an end, so that such a   *)
(* test is passed over, but only after something ended a run from outside.  *)
Honest ==
  code = "0" =>
    \A t \in Test :
      \/ Read(disk.lines)[t] \in {"PASSED", "SKIPPED", "TIMEOUT"}
      \/ Read(disk.lines)[t] = "RETRIED" /\ crashes + signals > 0

(* A test that passed is not run again, and its result survives crashes,    *)
(* as long as the runs continue (read, append, fsync_name).                 *)
Safe(t) == Read(SubSeq(disk.lines, 1, disk.safe))[t]
PassedKeptStep ==
  \A t \in Test : Safe(t) = "PASSED" /\ (main'.pc # "next" \/ main'.cont) =>
    /\ Safe(t)' = "PASSED"
    /\ child'.test = t => child.test = t
PassedKept == [][PassedKeptStep]_vars

(* A run ends, though a test may hang: it is killed after a while.          *)
RunGoesOn == main.pc # "off"
=============================================================================
