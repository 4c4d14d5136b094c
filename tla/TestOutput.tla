----------------------------- MODULE TestOutput -----------------------------
(***************************************************************************)
(* What becomes of the output of one shell test (brick-shelltest.h).  The  *)
(* runner reads the socket of the test and watched files whenever they     *)
(* have something, and gives it to the console and to the file of the      *)
(* test, each of which puts it together to lines.                          *)
(***************************************************************************)
EXTENDS Integers, Sequences, SequencesExt

CONSTANTS MaxPieces,  \* bound: pieces the test writes
          MaxWatched, \* bound: pieces that appear in the watched file
          MaxPasses   \* bound: passes of the monitor while the test runs

TestOutputConstants == {MaxPieces, MaxWatched, MaxPasses} \subseteq Nat

VARIABLES test,    \* running, or ended with what result
          socket,  \* written by the test, not yet read
          watched, \* the watched file
          offset,  \* of it that was passed over or read; -1 when it is not open
          runner,  \* what the runner does
          source,  \* the source it reads next
          sink,    \* sink |-> [data: complete lines, incomplete, out: written]
          killed,  \* the file of the test cannot be opened
          wrote    \* all that the test wrote

vars == <<test, socket, watched, offset, runner, source, sink, killed, wrote>>

(* A piece of a line, or the rest of it with its end.                       *)
Piece(from, n, eol) == [from |-> from, n |-> n, eol |-> eol]
Modes == {"verbose", "buffered", "batch"}   \* what the console gets
Sinks == {"console", "file"}
Nothing == [data |-> <<>>, incomplete |-> <<>>, out |-> <<>>]

Init ==
  /\ test = "running" /\ socket = <<>> /\ wrote = <<>>
  /\ watched \in {<<>>, <<Piece("watched", 1, FALSE)>>} /\ offset = -1
  /\ \E m \in Modes : runner = [pc |-> "monitor", mode |-> m, passes |-> 0]
  /\ source = "socket"
  /\ sink = [s \in Sinks |-> Nothing] /\ killed \in BOOLEAN

-----------------------------------------------------------------------------
(* The test and the others.                                                 *)
Write ==
  /\ test = "running" /\ Len(wrote) < MaxPieces
  /\ \E eol \in BOOLEAN :
       LET p == Piece("test", Len(wrote) + 1, eol)
       IN socket' = Append(socket, p) /\ wrote' = Append(wrote, p)
  /\ UNCHANGED <<test, watched, offset, runner, source, sink, killed>>

Watched ==
  /\ Len(watched) < MaxWatched
  /\ \E eol \in BOOLEAN :
       watched' = Append(watched, Piece("watched", Len(watched) + 1, eol))
  /\ UNCHANGED <<test, socket, offset, runner, source, sink, killed, wrote>>

End ==
  /\ test = "running"
  /\ test' \in {"passed", "failed"}
  /\ UNCHANGED <<socket, watched, offset, runner, source, sink, killed, wrote>>

-----------------------------------------------------------------------------
(* TimedBuffer.  push: a line is complete with its end.                     *)
PushPiece(b, p) ==
  IF p.eol THEN [b EXCEPT !.data = Append(@, Append(b.incomplete, p)), !.incomplete = <<>>]
  ELSE [b EXCEPT !.incomplete = Append(@, p)]
Push(b, pieces) == FoldLeft(PushPiece, b, pieces)

(* shift( true ) until empty( true ): the complete lines, then the rest.    *)
\* mutant: the incomplete line is written first
DrainedAhead(b) ==
  [data |-> <<>>, incomplete |-> <<>>, out |-> b.out \o b.incomplete \o FlattenSeq(b.data)]
Drained(b) ==
  [data |-> <<>>, incomplete |-> <<>>, out |-> b.out \o FlattenSeq(b.data) \o b.incomplete]

(* IO::push: to all sinks; none but the file in batch mode.                 *)
Takes(s) == s = "file" \/ runner.mode # "batch"
Give(pieces) == sink' = [s \in Sinks |-> IF Takes(s) THEN Push(sink[s], pieces) ELSE sink[s]]

(* monitor: a pass that finds the test ended is the last one.               *)
Pass ==
  /\ runner.pc = "monitor" /\ (test # "running" \/ runner.passes < MaxPasses)
  /\ runner' = [runner EXCEPT !.pc = IF test = "running" THEN "sync" ELSE "lastSync",
                              !.passes = IF test = "running" THEN @ + 1 ELSE @]
  /\ source' = "socket"
  /\ UNCHANGED <<test, socket, watched, offset, sink, killed, wrote>>

Syncing == runner.pc \in {"sync", "lastSync"}

(* IO::sync, the sources: all there is in the socket; a watched file is     *)
(* opened at its end.                                                       *)
ReadSocket ==
  /\ Syncing /\ source = "socket"
  /\ Give(socket) /\ socket' = <<>> /\ source' = "watched"
  /\ UNCHANGED <<test, watched, offset, runner, killed, wrote>>

ReadWatched ==
  /\ Syncing /\ source = "watched"
  /\ offset' = Len(watched)
  /\ Give(IF offset = -1 THEN <<>> ELSE SubSeq(watched, offset + 1, Len(watched)))
  /\ source' = "none"
  /\ UNCHANGED <<test, socket, watched, runner, killed, wrote>>

(* IO::sync, the sinks: a file that cannot be opened is given up; a buffer  *)
(* keeps everything for a test that fails.                                  *)
SyncSinks ==
  /\ Syncing /\ source = "none"
  /\ sink' = [s \in Sinks |->
                IF s = "console" THEN (IF runner.mode = "verbose" THEN Drained(sink[s]) ELSE sink[s])
                ELSE IF killed THEN Nothing ELSE Drained(sink[s])]
  /\ runner' = [runner EXCEPT !.pc = IF runner.pc = "sync" THEN "monitor" ELSE "verdict"]
  /\ UNCHANGED <<test, socket, watched, offset, source, killed, wrote>>

(* The buffer of a test that failed is dumped, after the sources are gone.  *)
Dump ==
  /\ runner.pc = "verdict"
  /\ sink' = IF runner.mode = "buffered" /\ test = "failed"
             THEN [sink EXCEPT !["console"] = Drained(@)] ELSE sink
  /\ runner' = [runner EXCEPT !.pc = "done"]
  /\ UNCHANGED <<test, socket, watched, offset, source, killed, wrote>>

Next ==
  \/ Write \/ Watched \/ End
  \/ Pass \/ ReadSocket \/ ReadWatched \/ SyncSinks \/ Dump

Spec == Init /\ [][Next]_vars

-----------------------------------------------------------------------------
Of(seq, from) == SelectSeq(seq, LAMBDA p : p.from = from)
TypeOK ==
  /\ offset \in -1..Len(watched)
  /\ \A s \in Sinks : \A i \in 1..Len(sink[s].data) : Last(sink[s].data[i]).eol
  /\ runner.mode = "batch" => sink["console"] = Nothing

(* When a test is over, its file has all that the test wrote before it      *)
(* ended, in order (TestCase::monitor, IO::sync).                           *)
Kept ==
  runner.pc = "done" /\ ~killed => Of(sink["file"].out, "test") = wrote

(* The console shows what is in the file, in the same order, at once or     *)
(* when the test fails; and nothing of a test that passes, unless asked.    *)
Shown ==
  runner.pc = "done" =>
    IF runner.mode = "verbose" \/ (runner.mode = "buffered" /\ test = "failed")
    THEN killed \/ sink["console"].out = sink["file"].out
    ELSE sink["console"].out = <<>>

(* What appears in a watched file while it is watched is taken over once.   *)
WatchedOnce ==
  \A s \in Sinks :
    LET ns == Of(sink[s].out, "watched")
    IN \A i \in 1..Len(ns) - 1 : ns[i + 1].n = ns[i].n + 1
=============================================================================
