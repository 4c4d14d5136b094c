----------------------------- MODULE PipeThrough ----------------------------
(***************************************************************************)
(* Data sent through a command (Pipe, Pipe::Writer and PipeThrough of      *)
(* brick-process.h): a thread writes to the command without blocking, the  *)
(* command copies its input to its output, and the caller reads the output *)
(* in chunks or line by line until it ends.                                *)
(***************************************************************************)
EXTENDS Integers, Sequences, SequencesExt

CONSTANTS MaxData,  \* bound: length of the data
          Room,     \* what a pipe holds
          Block,    \* what one read takes at most (1023 bytes)
          Writes,   \* how many calls of write bring the data
          Mode      \* "chunk" (PipeThrough::run) or "line" (nextLineBlocking)

PipeThroughConstants ==
  /\ MaxData \in Nat /\ Room \in Nat \ {0} /\ Block \in Nat \ {0}
  /\ Writes \in Nat \ {0} /\ Mode \in {"chunk", "line"}

VARIABLES input,   \* what goes through the command
          writer,  \* of the pipe to the command
          in, out, \* what is in the pipes
          held,    \* what the command read and did not write
          child,   \* whether the command runs
          pc, left, thread,  \* the caller; calls of write to come; the thread it has
          buffer, eof, result

vars == <<input, writer, in, out, held, child, pc, left, thread, buffer, eof, result>>
caller == <<pc, left, thread, buffer, eof, result>>

Char == {"x", "nl"}
Data == BoundedSeq(Char, MaxData)
Pieces(n) == SubSeq(input, ((n - 1) * Len(input)) \div Writes + 1, (n * Len(input)) \div Writes)
Least(a, b) == IF a < b THEN a ELSE b
From(s, n) == SubSeq(s, n + 1, Len(s))

Init ==
  /\ input \in Data
  /\ writer = [pc |-> "none", data |-> <<>>, running |-> FALSE, close |-> FALSE, closed |-> 0]
  /\ in = <<>> /\ out = <<>> /\ held = <<>> /\ child = TRUE
  /\ pc = "write" /\ left = Writes /\ thread = FALSE
  /\ buffer = <<>> /\ eof = FALSE /\ result = <<>>

-----------------------------------------------------------------------------
(* write: a writer that runs gets more to write; otherwise it is started,   *)
(* which ends the program when the thread before was not joined.            *)
Write ==
  /\ pc = "write" /\ left > 0
  /\ LET piece == Pieces(Writes - left + 1)
     IN \/ /\ writer.running
           /\ writer' = [writer EXCEPT !.data = @ \o piece]
           /\ UNCHANGED <<pc, thread>>
        \/ /\ ~writer.running /\ ~thread
           /\ writer' = [writer EXCEPT !.data = @ \o piece, !.running = TRUE, !.pc = "write"]
           /\ thread' = TRUE /\ UNCHANGED pc
        \/ /\ ~writer.running /\ thread
           /\ pc' = "down" /\ UNCHANGED <<writer, thread>>
  /\ left' = left - 1
  /\ UNCHANGED <<input, in, out, held, child, buffer, eof, result>>

(* close: a writer that runs closes when it is done.  One that found        *)
(* nothing left has cleared running and is still to come to its end: then   *)
(* the descriptor is closed here and once more there, and the second close  *)
(* meets whatever was opened in between under the same number.              *)
Close ==
  /\ pc = "write" /\ left = 0
  /\ writer' = [writer EXCEPT !.close = TRUE, !.closed = IF writer.running THEN @ ELSE @ + 1]
  /\ pc' = IF Mode = "chunk" THEN "wait" ELSE "line"
  /\ UNCHANGED <<input, in, out, held, child, left, thread, buffer, eof, result>>

-----------------------------------------------------------------------------
(* The writer: what fits is written and erased; a full pipe is tried again. *)
(* done() and the end are two sections of its mutex.                        *)
WriterWrites ==
  /\ writer.pc = "write"
  /\ LET n == Least(Len(writer.data), Room - Len(in))
     IN /\ in' = in \o SubSeq(writer.data, 1, n)
        /\ writer' = [writer EXCEPT !.data = From(@, n), !.pc = "done"]
  /\ UNCHANGED <<input, out, held, child, caller>>
WriterDone ==
  /\ writer.pc = "done"
  /\ writer' = IF writer.data = <<>>
               THEN [writer EXCEPT !.running = FALSE, !.pc = "end"]
               ELSE [writer EXCEPT !.pc = "write"]
  /\ UNCHANGED <<input, in, out, held, child, caller>>
WriterEnds ==
  /\ writer.pc = "end"
  /\ writer' = [writer EXCEPT !.running = FALSE, !.pc = "over",
                              !.closed = IF writer.close THEN @ + 1 ELSE @]
  /\ UNCHANGED <<input, in, out, held, child, caller>>

(* The command copies, with reads and writes that block.                    *)
Copies ==
  /\ child
  /\ \/ /\ held = <<>> /\ in # <<>>
        /\ held' = in /\ in' = <<>> /\ UNCHANGED <<out, child>>
     \/ /\ held # <<>> /\ Len(out) < Room
        /\ LET n == Least(Len(held), Room - Len(out))
           IN out' = out \o SubSeq(held, 1, n) /\ held' = From(held, n)
        /\ UNCHANGED <<in, child>>
     \/ /\ held = <<>> /\ in = <<>> /\ writer.closed > 0
        /\ child' = FALSE /\ UNCHANGED <<in, out, held>>
  /\ UNCHANGED <<input, writer, caller>>

-----------------------------------------------------------------------------
(* readMore: what is there, up to a block; nothing, for now or for ever.    *)
ReadMore == /\ out # <<>>
            /\ LET n == Least(Len(out), Block)
               IN buffer' = buffer \o SubSeq(out, 1, n) /\ out' = From(out, n)
Blocks == out = <<>> /\ child
AtEnd == out = <<>> /\ ~child

(* wait returns when something is buffered or at the end; the chunk is      *)
(* everything that is buffered.                                             *)
WaitChunk ==
  /\ pc = "wait" /\ Mode = "chunk"
  /\ \/ ReadMore /\ pc' = "chunk" /\ UNCHANGED eof
     \/ AtEnd /\ eof' = TRUE /\ pc' = "chunk" /\ UNCHANGED <<buffer, out>>
  /\ UNCHANGED <<input, writer, in, held, child, left, thread, result>>
TakeChunk ==
  /\ pc = "chunk"
  /\ result' = result \o buffer /\ buffer' = <<>>
  /\ pc' = IF eof THEN "join" ELSE "wait"
  /\ UNCHANGED <<input, writer, in, out, held, child, left, thread, eof>>

(* nextLineBlocking: an empty line looks like a read that would block and   *)
(* is passed over; at the end the rest is the last line.                    *)
Newline == Contains(buffer, "nl")
First1 == CHOOSE i \in DOMAIN buffer : buffer[i] = "nl" /\ \A j \in 1..(i - 1) : buffer[j] # "nl"
TakeLine ==
  /\ pc = "line" /\ Newline
  /\ result' = IF First1 = 1 THEN result ELSE Append(result, SubSeq(buffer, 1, First1 - 1))
  /\ buffer' = From(buffer, First1)
  /\ UNCHANGED <<input, writer, in, out, held, child, pc, left, thread, eof>>
ReadLine ==
  /\ pc = "line" /\ ~Newline
  /\ \/ ReadMore /\ UNCHANGED <<pc, eof, result>>
     \/ /\ AtEnd /\ eof' = TRUE /\ pc' = "join"
        /\ result' = Append(result, buffer)
        /\ UNCHANGED <<buffer, out>>
     \/ /\ Blocks /\ buffer = <<>> /\ pc' = "wait" /\ UNCHANGED <<buffer, out, eof, result>>
  /\ UNCHANGED <<input, writer, in, held, child, left, thread>>
WaitLine ==
  /\ pc = "wait" /\ Mode = "line"
  /\ \/ ReadMore /\ pc' = "line" /\ UNCHANGED <<eof, result>>
     \/ /\ AtEnd /\ eof' = TRUE /\ pc' = "join"
        /\ result' = Append(result, <<>>)
        /\ UNCHANGED <<buffer, out>>
  /\ UNCHANGED <<input, writer, in, held, child, left, thread>>

Join ==
  /\ pc = "join" /\ writer.pc = "over"
  /\ pc' = "end" /\ thread' = FALSE
  /\ UNCHANGED <<input, writer, in, out, held, child, left, buffer, eof, result>>

Writer == pc # "down" /\ (WriterWrites \/ WriterDone \/ WriterEnds)
Caller == Write \/ Close \/ WaitChunk \/ TakeChunk \/ TakeLine \/ ReadLine \/ WaitLine \/ Join
Next == Writer \/ Copies \/ Caller
Spec == Init /\ [][Next]_vars
FairSpec == Spec /\ WF_vars(Writer) /\ WF_vars(Copies) /\ WF_vars(Caller)

-----------------------------------------------------------------------------
TypeOK ==
  /\ Len(in) <= Room /\ Len(out) <= Room
  /\ writer.closed \in 0..2 /\ writer.pc \in {"none", "write", "done", "end", "over"}
  /\ pc \in {"write", "wait", "line", "chunk", "join", "end", "down"}
  /\ writer.running => writer.pc \in {"write", "done", "end"}

(* The lines of what went in: those that are not empty, and the rest.       *)
LinesOf(s) ==
  LET nls == {0} \cup {i \in DOMAIN s : s[i] = "nl"}
      ends == SetToSortSeq(nls \cup {Len(s) + 1}, <)
      Line(i) == SubSeq(s, ends[i] + 1, ends[i + 1] - 1)
      n == Len(ends) - 1
  IN SelectSeq([i \in 1..(n - 1) |-> Line(i)], LAMBDA l : l # <<>>) \o <<Line(n)>>

(* What comes back is what was sent, whole and in order (PipeThrough::run), *)
(* or its lines but for the empty ones (nextLineBlocking).                  *)
AllThrough ==
  pc = "end" => result = IF Mode = "chunk" THEN input ELSE LinesOf(input)

(* The command never sees the end of its input before all of it, whoever    *)
(* closes the pipe, the caller, the writer or both.                         *)
ClosedLast == writer.closed > 0 => writer.data = <<>>

(* However much is sent, and however little the pipes hold, run returns:    *)
(* nobody waits for somebody who waits for him.  A caller that writes again *)
(* after the thread came to its end is down: the thread was not joined.     *)
Returned == pc \in {"end", "down"}
=============================================================================
