------------------------------ MODULE UnitTests -----------------------------
(***************************************************************************)
(* The driver of unit tests (brick-unittest.h).  Test cases register       *)
(* themselves in any order; run goes through their groups, and through the *)
(* cases of a group, each in a process of its own, unless one case of one  *)
(* group is asked for.                                                     *)
(***************************************************************************)
EXTENDS Integers, Sequences, FiniteSets, SequencesExt

CONSTANTS Cases,  \* number of the cases
          Groups, Names

UnitTestsConstants == Cases \in Nat

VARIABLES testcases,         \* the cases in the order of registration
          onlyGroup, onlyCase, \* the words of the command line, "" when not given
          pc, group, case,   \* where the loops are
          done,              \* groups
          total, bad,
          runs,              \* history: case |-> how often it ran
          failed             \* history: the cases that were reported

vars == <<testcases, onlyGroup, onlyCase, pc, group, case, done, total, bad, runs, failed>>

(* What the body of a case does: throws an exception that says why, or      *)
(* something else, or brings its process down.                              *)
Bodies == {"passes", "throws", "throwsOther", "crashes"}
Registered == [group : Groups, name : Names, expectFailure : BOOLEAN, body : Bodies]
Case == 1..Cases

Init ==
  /\ testcases \in [Case -> Registered]
  /\ \A i, j \in Case : i # j => <<testcases[i].group, testcases[i].name>>
                                # <<testcases[j].group, testcases[j].name>>
  /\ onlyGroup \in Groups \cup {""} /\ onlyCase \in Names \cup {""}
  /\ pc = "groups" /\ group = 1 /\ case = 1 /\ done = {}
  /\ total = 0 /\ bad = 0
  /\ runs = [c \in Case |-> 0] /\ failed = {}

-----------------------------------------------------------------------------
(* TestCase::run turns the result round for a case that should fail; a      *)
(* crash is beyond it.                                                      *)
Runs(c) ==
  LET t == testcases[c]
  IN CASE t.body = "crashes" -> "crashes"
       [] t.expectFailure -> IF t.body = "passes" THEN "throws" ELSE "passes"
       [] OTHER -> t.body

(* fork_test: what leaves run in the child, exceptions of other types and   *)
(* crashes included, is a failure; when fork fails the case runs here.      *)
Forked(c) == IF Runs(c) = "passes" THEN "ok" ELSE "failed"
Here(c) == CASE Runs(c) = "passes" -> "ok"
             [] Runs(c) = "throws" -> "failed"
             [] OTHER -> "down"
Direct == onlyGroup # "" /\ onlyCase # ""

Skipped(g) == (onlyGroup # "" /\ onlyGroup # testcases[g].group) \/ testcases[g].group \in done
NextGroup ==
  /\ pc = "groups" /\ group <= Cases
  /\ IF Skipped(group) THEN group' = group + 1 /\ UNCHANGED <<pc, case>>
     ELSE pc' = "cases" /\ case' = 1 /\ UNCHANGED group
  /\ UNCHANGED <<testcases, onlyGroup, onlyCase, done, total, bad, runs, failed>>

Selected(c) == /\ onlyCase = "" \/ onlyCase = testcases[c].name
               /\ testcases[group].group = testcases[c].group
PassOver ==
  /\ pc = "cases" /\ case <= Cases /\ ~Selected(case)
  /\ case' = case + 1
  /\ UNCHANGED <<testcases, onlyGroup, onlyCase, pc, group, done, total, bad, runs, failed>>

RunCase ==
  /\ pc = "cases" /\ case <= Cases /\ Selected(case)
  /\ runs' = [runs EXCEPT ![case] = @ + 1]
  /\ total' = total + 1
  /\ \E result \in IF Direct THEN {Here(case)} ELSE {Forked(case), Here(case)} :
       /\ bad' = IF result = "failed" THEN bad + 1 ELSE bad
       /\ failed' = IF result = "failed" THEN failed \cup {case} ELSE failed
       /\ pc' = IF result = "down" THEN "down" ELSE pc
  /\ case' = case + 1
  /\ UNCHANGED <<testcases, onlyGroup, onlyCase, group, done>>

EndGroup ==
  /\ pc = "cases" /\ case > Cases
  /\ done' = done \cup {testcases[group].group}
  /\ pc' = "groups" /\ group' = group + 1
  /\ UNCHANGED <<testcases, onlyGroup, onlyCase, case, total, bad, runs, failed>>

Summary ==
  /\ pc = "groups" /\ group > Cases
  /\ pc' = IF bad > 0 THEN "returned 1" ELSE "returned 0"
  /\ UNCHANGED <<testcases, onlyGroup, onlyCase, group, case, done, total, bad, runs, failed>>

Next == NextGroup \/ PassOver \/ RunCase \/ EndGroup \/ Summary

Spec == Init /\ [][Next]_vars

-----------------------------------------------------------------------------
TypeOK ==
  /\ pc \in {"groups", "cases", "down", "returned 0", "returned 1"}
  /\ group \in 1..(Cases + 1) /\ case \in 1..(Cases + 1)
  /\ done \subseteq Groups /\ runs \in [Case -> Nat]
  /\ bad = Cardinality(failed) /\ total >= bad

(* Whatever the order of registration, a run goes once through each case    *)
(* that the command line asks for, and through no other (run).              *)
Asked == {c \in Case : onlyGroup \in {"", testcases[c].group}
                       /\ onlyCase \in {"", testcases[c].name}}
Returned == pc \in {"returned 0", "returned 1"}
EachOnce == Returned => \A c \in Case : runs[c] = IF c \in Asked THEN 1 ELSE 0

(* The run says 0 exactly when every case that was asked for did what it    *)
(* should: pass, or, for a case that should fail, throw (run, fork_test).   *)
AsItShould(c) ==
  IF testcases[c].expectFailure THEN testcases[c].body \in {"throws", "throwsOther"}
  ELSE testcases[c].body = "passes"
Honest == Returned => (pc = "returned 0" <=> \A c \in Asked : AsItShould(c))
=============================================================================
