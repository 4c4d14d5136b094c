----------------------------- MODULE Redirection ----------------------------
(***************************************************************************)
(* The output of the program that an executive runs.  Descriptors 1 and 2  *)
(* are the ends of two pipes; a thread reads each of them and sends what   *)
(* it read to the client, which prints it.  When main returns, stop closes *)
(* the descriptor and waits for the thread, which waits for the end of the *)
(* pipe; then Done tells the client that the computation is over.  The     *)
(* line is a stream: a message is a header that counts pieces, and the     *)
(* pieces; one that was sent in part leaves the line out of step.          *)
(***************************************************************************)
EXTENDS Integers, Sequences, SequencesExt

CONSTANTS Capacity,  \* what a pipe holds
          MaxWrites, \* bound: writes to each stream
          Faults     \* "kid": the program leaves a process behind, "gone": the client
                     \* disconnects, "slow": it does not take messages for five seconds

RedirectionConstants ==
  /\ Capacity \in Nat \ {0} /\ MaxWrites \in Nat
  /\ Faults \subseteq {"kid", "gone", "slow"}

VARIABLES main,    \* where the executive is: "main" the program, then the two stops
          buffer,  \* what stdio holds back of the standard output
          written, \* stream |-> how many pieces the program wrote
          fd,      \* stream |-> what the descriptor refers to
          pipe,    \* stream |-> what is in it
          reader,  \* stream |-> its thread
          kid,     \* a process the program started has the descriptors too
          line,    \* the connection to the client: up, and what is on the way; history: was
                   \* a message cut short, and how many pieces were sent whole before
          printed, \* what the client printed
          lost     \* what went to the descriptors of before

vars == <<main, buffer, written, fd, pipe, reader, kid, line, printed, lost>>

Stream == {"out", "err"}
Piece(s, n) == [part |-> "data", on |-> s, n |-> n]
Header(s, n) == [part |-> "head", on |-> s, n |-> n]
Done == Header("done", 0)
Of(seq, s) == SelectSeq(seq, LAMBDA p : p.part = "data" /\ p.on = s)
Counted(s, n) == [i \in 1..n |-> Piece(s, i)]

(* The two Redirectors of runMain.                                          *)
Init ==
  /\ main = "main" /\ buffer = <<>> /\ kid = FALSE
  /\ written = [s \in Stream |-> 0] /\ pipe = [s \in Stream |-> <<>>]
  /\ fd = [s \in Stream |-> "pipe"]
  /\ reader = [s \in Stream |-> [pc |-> "read", chunk |-> <<>>]]
  /\ line = [up |-> TRUE, transit |-> <<>>, cut |-> FALSE, sound |-> 0]
  /\ printed = <<>> /\ lost = <<>>

-----------------------------------------------------------------------------
(* The program.  stderr is not buffered; stdout is a pipe, so stdio keeps   *)
(* what is written until it is flushed or the buffer is full.               *)
Wrote(s) ==
  /\ main = "main" /\ written[s] < MaxWrites
  /\ written' = [written EXCEPT ![s] = @ + 1]

Put ==
  /\ Wrote("out")
  /\ buffer' = Append(buffer, Piece("out", written["out"] + 1))
  /\ UNCHANGED <<main, fd, pipe, reader, kid, line, printed, lost>>

Complain ==
  /\ Wrote("err") /\ main' = "write"
  /\ UNCHANGED <<buffer, fd, pipe, reader, kid, line, printed, lost>>

Flush ==
  /\ main = "main" /\ buffer # <<>> /\ main' = "flush"
  /\ UNCHANGED <<buffer, written, fd, pipe, reader, kid, line, printed, lost>>

(* A write waits while the pipe is full.                                    *)
Into(s, p) == /\ Len(pipe[s]) < Capacity
              /\ pipe' = [pipe EXCEPT ![s] = Append(@, p)]
Write ==
  /\ \/ /\ main = "write" /\ main' = "main"
        /\ Into("err", Piece("err", written["err"])) /\ UNCHANGED buffer
     \/ /\ main = "flush" /\ main' = IF Len(buffer) > 1 THEN "flush" ELSE "main"
        /\ Into("out", Head(buffer)) /\ buffer' = Tail(buffer)
  /\ UNCHANGED <<written, fd, reader, kid, line, printed, lost>>

StartKid ==
  /\ "kid" \in Faults /\ main = "main" /\ ~kid
  /\ kid' = TRUE
  /\ UNCHANGED <<main, buffer, written, fd, pipe, reader, line, printed, lost>>
EndKid ==
  /\ kid /\ kid' = FALSE
  /\ UNCHANGED <<main, buffer, written, fd, pipe, reader, line, printed, lost>>

(* main returns at any time, and the Redirectors are destroyed, stderr's    *)
(* first.                                                                   *)
Return ==
  /\ main = "main" /\ main' = "stopErr"
  /\ UNCHANGED <<buffer, written, fd, pipe, reader, kid, line, printed, lost>>

Stopping == CASE main \in {"stopErr", "waitErr"} -> "err" [] OTHER -> "out"

Stop ==
  /\ main \in {"stopErr", "stopOut"}
  /\ fd' = [fd EXCEPT ![Stopping] = "closed"]
  /\ main' = IF main = "stopErr" THEN "waitErr" ELSE "waitOut"
  /\ UNCHANGED <<buffer, written, pipe, reader, kid, line, printed, lost>>

(* The future, and the Defer; an exception of the thread is dropped.        *)
Join ==
  /\ main \in {"waitErr", "waitOut"}
  /\ reader[Stopping].pc \in {"ended", "threw"}
  /\ fd' = [fd EXCEPT ![Stopping] = "original"]
  /\ main' = IF main = "waitErr" THEN "stopOut" ELSE "done"
  /\ UNCHANGED <<buffer, written, pipe, reader, kid, line, printed, lost>>

(* exit: Done to the client, and stdio flushes when the process ends.       *)
Exit ==
  /\ main = "done" /\ main' = "exited"
  /\ line' = [line EXCEPT !.transit = IF line.up THEN Append(@, Done) ELSE @]
  /\ buffer' = <<>> /\ lost' = lost \o buffer
  /\ UNCHANGED <<written, fd, pipe, reader, kid, printed>>

-----------------------------------------------------------------------------
(* The threads: read waits while the pipe is empty and someone has its      *)
(* other end.                                                               *)
Open(s) == fd[s] = "pipe" \/ kid

Read(s) ==
  /\ reader[s].pc = "read" /\ pipe[s] # <<>>
  /\ \E n \in 1..Len(pipe[s]) :
       /\ reader' = [reader EXCEPT ![s] = [pc |-> "send", chunk |-> SubSeq(pipe[s], 1, n)]]
       /\ pipe' = [pipe EXCEPT ![s] = SubSeq(@, n + 1, Len(@))]
  /\ UNCHANGED <<main, buffer, written, fd, kid, line, printed, lost>>

End(s) ==
  /\ reader[s].pc = "read" /\ pipe[s] = <<>> /\ ~Open(s)
  /\ reader' = [reader EXCEPT ![s].pc = "ended"]
  /\ UNCHANGED <<main, buffer, written, fd, pipe, kid, line, printed, lost>>

(* redirectOutput: one message for what was read.                           *)
Send(s) ==
  /\ reader[s].pc = "send" /\ line.up
  /\ LET chunk == reader[s].chunk
     IN line' = [line EXCEPT !.transit = @ \o <<Header(s, Len(chunk))>> \o chunk,
                             !.sound = IF line.cut THEN @ ELSE @ + Len(chunk)]
  /\ reader' = [reader EXCEPT ![s] = [pc |-> "read", chunk |-> <<>>]]
  /\ UNCHANGED <<main, buffer, written, fd, pipe, kid, printed, lost>>

(* The exception of send ends the thread, with its end of the pipe open.    *)
Threw(s) ==
  /\ reader' = [reader EXCEPT ![s] = [pc |-> "threw", chunk |-> <<>>]]
  /\ UNCHANGED <<main, buffer, written, fd, pipe, kid, printed, lost>>

(* The line is dead, or the client did not read for as long as the timeout  *)
(* and there was no room for anything: nothing was sent.                    *)
Throw(s) ==
  /\ reader[s].pc = "send" /\ (~line.up \/ "slow" \in Faults)
  /\ Threw(s) /\ UNCHANGED line

(* There was room for a part of the message.  send raises as well, the line *)
(* stays open, and what others send comes after the part.  A header that is *)
(* itself cut is in Framing.                                                *)
Short(s) ==
  /\ reader[s].pc = "send" /\ line.up /\ "slow" \in Faults
  /\ LET chunk == reader[s].chunk
     IN \E k \in 0..(Len(chunk) - 1) :
          line' = [line EXCEPT !.cut = TRUE,
                     !.transit = @ \o <<Header(s, Len(chunk))>> \o SubSeq(chunk, 1, k)]
  /\ Threw(s)

-----------------------------------------------------------------------------
(* processOutput and Done at the client: as many words as the header says,  *)
(* whatever they are: after a cut also headers and Done itself.             *)
First == Head(line.transit)
Whole == Len(line.transit) > First.n
Drop(n) == SubSeq(line.transit, n + 1, Len(line.transit))
Show ==
  /\ line.up /\ line.transit # <<>> /\ First.part = "head" /\ Whole
  /\ LET text == [i \in 1..First.n |-> [line.transit[i + 1] EXCEPT !.on = First.on]]
     IN printed' = printed \o IF First = Done THEN <<Done>> ELSE text
  /\ line' = [line EXCEPT !.transit = Drop(First.n + 1)]
  /\ UNCHANGED <<main, buffer, written, fd, pipe, reader, kid, lost>>

(* The rest of a message does not come in time, or something else stands    *)
(* where a header should: receive raises and run ends.                      *)
Hangup == line' = [line EXCEPT !.up = FALSE, !.transit = <<>>]
GiveUp ==
  /\ line.up /\ line.transit # <<>>
  /\ First.part = "data" \/ ~Whole
  /\ Hangup
  /\ UNCHANGED <<main, buffer, written, fd, pipe, reader, kid, printed, lost>>

(* Or it is taken for a header, of a message that is passed over; what it   *)
(* says depends on the text, here it may count any number of words.         *)
Misread ==
  /\ line.up /\ line.transit # <<>> /\ First.part = "data"
  /\ \E n \in 1..Len(line.transit) : line' = [line EXCEPT !.transit = Drop(n)]
  /\ UNCHANGED <<main, buffer, written, fd, pipe, reader, kid, printed, lost>>

Disconnect ==
  /\ "gone" \in Faults /\ line.up
  /\ Hangup
  /\ UNCHANGED <<main, buffer, written, fd, pipe, reader, kid, printed, lost>>

Thread(s) == Read(s) \/ End(s) \/ Send(s) \/ Throw(s) \/ Short(s)
Program == Put \/ Complain \/ Flush \/ Write \/ Return \/ Stop \/ Join \/ Exit
Next ==
  \/ Program \/ Show \/ GiveUp \/ Misread \/ Disconnect \/ StartKid \/ EndKid
  \/ \E s \in Stream : Thread(s)

Spec == Init /\ [][Next]_vars

(* Threads are scheduled, the client reads, and what the program started    *)
(* ends.  The program returns once it has no more to write.                 *)
FairSpec ==
  /\ Spec /\ WF_vars(Program) /\ WF_vars(Show) /\ WF_vars(EndKid)
  /\ \A s \in Stream : WF_vars(Thread(s))

-----------------------------------------------------------------------------
TypeOK ==
  /\ main \in {"main", "write", "flush", "stopErr", "waitErr", "stopOut", "waitOut", "done", "exited"}
  /\ \A s \in Stream :
       /\ fd[s] \in {"pipe", "closed", "original"}
       /\ written[s] \in 0..MaxWrites /\ Len(pipe[s]) <= Capacity
       /\ reader[s].pc \in {"read", "send", "ended", "threw"}
  /\ main = "exited" => \A s \in Stream : fd[s] = "original"

(* The client prints of each stream what the program wrote to it, in order  *)
(* and without a gap (executive, redirectOutput), as long as no message was *)
(* cut short: until then nothing else is printed, and afterwards what was   *)
(* sent whole before still comes first and in order.                        *)
Sound == SubSeq(printed, 1, IF line.sound < Len(printed) THEN line.sound ELSE Len(printed))
InOrder ==
  /\ \A s \in Stream : IsPrefix(Of(Sound, s), Counted(s, written[s]))
  /\ ~line.cut => \A s \in Stream : Of(printed, s) = Of(Sound, s)

(* Output is not overtaken by Done: what reached a pipe is on the way       *)
(* before the executive says that it is done (stop waits for the thread).   *)
Sent == printed \o line.transit
BeforeDone ==
  \A i \in 1..Len(Sent) : Sent[i] = Done =>
    /\ i = Len(Sent)
    /\ \A s \in Stream : pipe[s] = <<>> /\ reader[s].chunk = <<>>
    /\ Len(Of(Sent, "err")) = written["err"]

(* The executive gets past the end of main, although a process that main    *)
(* started may hold the pipes for a while (Redirector::stop).               *)
Exited == main = "exited"
=============================================================================
