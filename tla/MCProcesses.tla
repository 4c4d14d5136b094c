---------------------------- MODULE MCProcesses -----------------------------
(***************************************************************************)
(* Instances of what has to come to an end: the concurrent hash set,       *)
(* messages on a stream, the output of an executive, the daemons under the *)
(* commands of a user, the runner of shell tests, data sent through a      *)
(* command, and loops over texts and bits. They have nothing to do with    *)
(* each other: a behaviour is one of one part, whose variables are s1, s2  *)
(* and so on in the order of its module.                                   *)
(***************************************************************************)
EXTENDS Integers

VARIABLES part, \* the part that this behaviour is about
          s1, s2, s3, s4, s5, s6, s7, s8, s9, s10, s11, s12  \* its variables

vars == <<part, s1, s2, s3, s4, s5, s6, s7, s8, s9, s10, s11, s12>>

(* hashset: three calls of two threads; both values have the same hash, and *)
(* the third call makes the table grow for the second time.                 *)
Hash == INSTANCE ConcurrentHashSet WITH
  table <- s1, tableWorkers <- s2, currentRow <- s3, availableSegments <- s4,
  doneSegments <- s5, used <- s6, growing <- s7, th <- s8, absent <- s9,
  Threads <- {"t1", "t2"}, Values <- {1, 5}, HashRange <- 4, thresh <- 1,
  maxcollisions <- 8, segmentSize <- 1, syncPoint <- 1, Growth <- 2,
  MaxGrows <- 4, MaxCalls <- 3

(* framing: two messages of up to two segments, one of which may be cut.    *)
Line == INSTANCE Framing WITH
  asked <- s1, transit <- s2, arrived <- s3, open <- s4, cut <- s5,
  get <- s6, delivered <- s7, Segments <- 2, MaxMessages <- 2,
  Faults <- {"cut"}

(* redirection: more writes to each stream than its pipe holds, and a       *)
(* process left behind.                                                     *)
Output == INSTANCE Redirection WITH
  main <- s1, buffer <- s2, written <- s3, fd <- s4, pipe <- s5,
  reader <- s6, kid <- s7, line <- s8, printed <- s9, lost <- s10,
  Capacity <- 2, MaxWrites <- 3, Faults <- {"kid"}

(* service: three commands to two hosts.                                    *)
Daemons == INSTANCE Service WITH
  life <- s1, busy <- s2, inbox <- s3, fds <- s4, launch <- s5, pc <- s6,
  todo <- s7, waits <- s8, said <- s9, runs <- s10, late <- s11,
  Hosts <- {"h1", "h2"}, MaxRuns <- 3, ForkFails <- TRUE

(* testrunner: two tests, four runs, three crashes of the machine.          *)
Runner == INSTANCE TestRunner WITH
  disk <- s1, main <- s2, child <- s3, code <- s4, downs <- s5,
  crashes <- s6, signals <- s7, runs <- s8, Tests <- 2,
  FatalTimeouts <- TRUE, MaxCrashes <- 3, MaxSignals <- 0, MaxRuns <- 4

(* interrupted: two tests, two runs, a crash of the machine and two         *)
(* signals.                                                                 *)
Signalled == INSTANCE TestRunner WITH
  disk <- s1, main <- s2, child <- s3, code <- s4, downs <- s5,
  crashes <- s6, signals <- s7, runs <- s8, Tests <- 2,
  FatalTimeouts <- TRUE, MaxCrashes <- 1, MaxSignals <- 2, MaxRuns <- 2

(* chunks: data of five characters through pipes that hold two.             *)
Chunks == INSTANCE PipeThrough WITH
  input <- s1, writer <- s2, in <- s3, out <- s4, held <- s5, child <- s6,
  pc <- s7, left <- s8, thread <- s9, buffer <- s10, eof <- s11,
  result <- s12, MaxData <- 5, Room <- 2, Block <- 2, Writes <- 1,
  Mode <- "chunk"

(* pieces: data that is written by two calls.                               *)
Pieces == INSTANCE PipeThrough WITH
  input <- s1, writer <- s2, in <- s3, out <- s4, held <- s5, child <- s6,
  pc <- s7, left <- s8, thread <- s9, buffer <- s10, eof <- s11,
  result <- s12, MaxData <- 2, Room <- 1, Block <- 2, Writes <- 2,
  Mode <- "chunk"

(* lines: lines of data through pipes that hold one character.              *)
Lines == INSTANCE PipeThrough WITH
  input <- s1, writer <- s2, in <- s3, out <- s4, held <- s5, child <- s6,
  pc <- s7, left <- s8, thread <- s9, buffer <- s10, eof <- s11,
  result <- s12, MaxData <- 4, Room <- 1, Block <- 2, Writes <- 1,
  Mode <- "line"

(* splitter: two iterators over texts of three characters.                  *)
Split == INSTANCE Splitter WITH
  pattern <- s1, pmatch <- s2, text <- s3, rest <- s4, cur <- s5,
  matched <- s6, pc <- s7, taken <- s8, Iterators <- {1, 2}, MaxText <- 3

(* bittuple: three fields, some wider than the words of two bits.           *)
Tuple == INSTANCE BitTuple WITH
  bitwidth <- s1, storage <- s2, value <- s3, op <- s4, from <- s5, to <- s6,
  bitcount <- s7, last <- s8, storageBits <- 2, Fields <- 3,
  Widths <- {1, 3}, Stamps <- {1, 2}

(* bitlock: three threads, two fields beside the lock.                      *)
Lock == INSTANCE BitLock WITH
  word <- s1, pc <- s2, l <- s3, value <- s4, rounds <- s5, added <- s6,
  Threads <- {"t1", "t2", "t3"}, Fields <- {"f", "g"}, Rounds <- 1

(* The constants of every part are what its module asks for.                *)
ASSUME ProcessesAssumption ==
  /\ Hash!HashSetConstants
  /\ Line!FramingConstants
  /\ Output!RedirectionConstants
  /\ Daemons!ServiceConstants
  /\ Runner!TestRunnerConstants
  /\ Signalled!TestRunnerConstants
  /\ Chunks!PipeThroughConstants
  /\ Pieces!PipeThroughConstants
  /\ Lines!PipeThroughConstants
  /\ Split!SplitterConstants
  /\ Tuple!BitTupleConstants
  /\ Lock!BitLockConstants

None6 == /\ s7 = "none" /\ s8 = "none" /\ s9 = "none" /\ s10 = "none"
         /\ s11 = "none" /\ s12 = "none"
Rest6 == <<part, s7, s8, s9, s10, s11, s12>>
None7 == /\ s8 = "none" /\ s9 = "none" /\ s10 = "none" /\ s11 = "none"
         /\ s12 = "none"
Rest7 == <<part, s8, s9, s10, s11, s12>>
None8 == /\ s9 = "none" /\ s10 = "none" /\ s11 = "none" /\ s12 = "none"
Rest8 == <<part, s9, s10, s11, s12>>
None9 == /\ s10 = "none" /\ s11 = "none" /\ s12 = "none"
Rest9 == <<part, s10, s11, s12>>
None10 == /\ s11 = "none" /\ s12 = "none"
Rest10 == <<part, s11, s12>>
None11 == /\ s12 = "none"
Rest11 == <<part, s12>>
Rest12 == <<part>>

Init ==
  \/ part = "hashset" /\ Hash!Init /\ None9
  \/ part = "framing" /\ Line!Init /\ None7
  \/ part = "redirection" /\ Output!Init /\ None10
  \/ part = "service" /\ Daemons!Init /\ None11
  \/ part = "testrunner" /\ Runner!Init /\ None8
  \/ part = "interrupted" /\ Signalled!Init /\ None8
  \/ part = "chunks" /\ Chunks!Init
  \/ part = "pieces" /\ Pieces!Init
  \/ part = "lines" /\ Lines!Init
  \/ part = "splitter" /\ Split!Init /\ None8
  \/ part = "bittuple" /\ Tuple!Init /\ None8
  \/ part = "bitlock" /\ Lock!Init /\ None6

Next ==
  \/ part = "hashset" /\ Hash!Next /\ UNCHANGED Rest9
  \/ part = "framing" /\ Line!Next /\ UNCHANGED Rest7
  \/ part = "redirection" /\ Output!Next /\ UNCHANGED Rest10
  \/ part = "service" /\ Daemons!Next /\ UNCHANGED Rest11
  \/ part = "testrunner" /\ Runner!Next /\ UNCHANGED Rest8
  \/ part = "interrupted" /\ Signalled!Next /\ UNCHANGED Rest8
  \/ part = "chunks" /\ Chunks!Next /\ UNCHANGED Rest12
  \/ part = "pieces" /\ Pieces!Next /\ UNCHANGED Rest12
  \/ part = "lines" /\ Lines!Next /\ UNCHANGED Rest12
  \/ part = "splitter" /\ Split!Next /\ UNCHANGED Rest8
  \/ part = "bittuple" /\ Tuple!Next /\ UNCHANGED Rest8
  \/ part = "bitlock" /\ Lock!Next /\ UNCHANGED Rest6

Process1 ==
  \/ part = "hashset" /\ (Hash!Step("t1") /\ Hash!Observe) /\ UNCHANGED Rest9
  \/ part = "framing" /\ Line!Arrive /\ UNCHANGED Rest7
  \/ part = "redirection" /\ Output!Program /\ UNCHANGED Rest10
  \/ part = "service" /\ ((\E h \in {"h1", "h2"} : Daemons!Tell(h)) \/ Daemons!Heard \/ Daemons!Finish) /\ UNCHANGED Rest11
  \/ part = "testrunner" /\ Runner!Step /\ UNCHANGED Rest8
  \/ part = "interrupted" /\ Signalled!Step /\ UNCHANGED Rest8
  \/ part = "chunks" /\ Chunks!Writer /\ UNCHANGED Rest12
  \/ part = "pieces" /\ Pieces!Writer /\ UNCHANGED Rest12
  \/ part = "lines" /\ Lines!Writer /\ UNCHANGED Rest12
  \/ part = "splitter" /\ (Split!Begin(1) \/ Split!match(1) \/ Split!increment(1) \/ Split!Take(1) \/ Split!End(1)) /\ UNCHANGED Rest8
  \/ part = "bittuple" /\ (Tuple!Words \/ Tuple!Piece \/ Tuple!Return \/ Tuple!Turn) /\ UNCHANGED Rest8
  \/ part = "bitlock" /\ Lock!Step("t1") /\ UNCHANGED Rest6

Process2 ==
  \/ part = "hashset" /\ (Hash!Step("t2") /\ Hash!Observe) /\ UNCHANGED Rest9
  \/ part = "framing" /\ (Line!PeekHead \/ Line!TakeHead \/ Line!TakeData) /\ UNCHANGED Rest7
  \/ part = "redirection" /\ Output!Show /\ UNCHANGED Rest10
  \/ part = "service" /\ Daemons!Program("h1") /\ UNCHANGED Rest11
  \/ part = "testrunner" /\ Runner!Silence /\ UNCHANGED Rest8
  \/ part = "interrupted" /\ Signalled!Silence /\ UNCHANGED Rest8
  \/ part = "chunks" /\ Chunks!Copies /\ UNCHANGED Rest12
  \/ part = "pieces" /\ Pieces!Copies /\ UNCHANGED Rest12
  \/ part = "lines" /\ Lines!Copies /\ UNCHANGED Rest12
  \/ part = "splitter" /\ (Split!Begin(2) \/ Split!match(2) \/ Split!increment(2) \/ Split!Take(2) \/ Split!End(2)) /\ UNCHANGED Rest8
  \/ part = "bitlock" /\ Lock!Step("t2") /\ UNCHANGED Rest6

Process3 ==
  \/ part = "redirection" /\ Output!EndKid /\ UNCHANGED Rest10
  \/ part = "service" /\ Daemons!Program("h2") /\ UNCHANGED Rest11
  \/ part = "chunks" /\ Chunks!Caller /\ UNCHANGED Rest12
  \/ part = "pieces" /\ Pieces!Caller /\ UNCHANGED Rest12
  \/ part = "lines" /\ Lines!Caller /\ UNCHANGED Rest12
  \/ part = "bitlock" /\ Lock!Step("t3") /\ UNCHANGED Rest6

Process4 ==
  \/ part = "redirection" /\ Output!Thread("out") /\ UNCHANGED Rest10
  \/ part = "service" /\ Daemons!Daemon("h1") /\ UNCHANGED Rest11
  \/ part = "bitlock" /\ Lock!Locking("t1") /\ UNCHANGED Rest6

Process5 ==
  \/ part = "redirection" /\ Output!Thread("err") /\ UNCHANGED Rest10
  \/ part = "service" /\ Daemons!Daemon("h2") /\ UNCHANGED Rest11
  \/ part = "bitlock" /\ Lock!Locking("t2") /\ UNCHANGED Rest6

Process6 ==
  \/ part = "bitlock" /\ Lock!Locking("t3") /\ UNCHANGED Rest6

(* The fairness of each part, as its module states it: the n-th process of  *)
(* a part that has one is scheduled again and again.                        *)
Spec == /\ Init /\ [][Next]_vars
        /\ WF_vars(Process1)/\ WF_vars(Process2)/\ WF_vars(Process3)/\
           WF_vars(Process4)/\ WF_vars(Process5)/\ WF_vars(Process6)

-----------------------------------------------------------------------------
(* The type of every part.                                                  *)
TypeOK ==
  CASE part = "hashset" -> Hash!TypeOK
    [] part = "framing" -> Line!TypeOK
    [] part = "redirection" -> Output!TypeOK
    [] part = "service" -> Daemons!TypeOK
    [] part = "testrunner" -> Runner!TypeOK
    [] part = "interrupted" -> Signalled!TypeOK
    [] part = "chunks" -> Chunks!TypeOK
    [] part = "pieces" -> Pieces!TypeOK
    [] part = "lines" -> Lines!TypeOK
    [] part = "splitter" -> Split!TypeOK
    [] part = "bittuple" -> Tuple!TypeOK
    [] part = "bitlock" -> Lock!TypeOK

(* What is written to a stream arrives whole, in order and before what      *)
(* announces its end: messages whose segments the receiver did not expect   *)
(* (brick-net.h), the output of a program before its Done (Redirector), and *)
(* data that goes through a command and back (PipeThrough), whose input is  *)
(* not ended before all of it was written.                                  *)
Arrives ==
  /\ part = "framing" => /\ Line!Delivered /\ Line!InStep
  /\ part = "redirection" => Output!BeforeDone
  /\ part = "chunks" => /\ Chunks!AllThrough /\ Chunks!ClosedLast
  /\ part = "pieces" => /\ Pieces!AllThrough /\ Pieces!ClosedLast
  /\ part = "lines" => /\ Lines!AllThrough /\ Lines!ClosedLast

(* After a crash the runner of shell tests starts a test that took the      *)
(* machine down only once more, its journal tells what it did, and when it  *)
(* reports success no test failed or was left out, but for one it gave up   *)
(* after a second attempt without a result (brick-shelltest.h); a daemon    *)
(* that was started and not told to end answers, with its own ear and no    *)
(* other descriptor (daemonize, demo.cpp).                                  *)
Restarts ==
  /\ part = "testrunner" => /\ Runner!AtMostTwice
                            /\ Runner!Journaled
                            /\ Runner!Honest
  /\ part = "interrupted" => /\ Signalled!AtMostTwice
                             /\ Signalled!Journaled
                             /\ Signalled!Honest
  /\ part = "service" => /\ Daemons!Reachable /\ Daemons!Background

(* A loop that works on a shared place touches its own part only: two       *)
(* iterators by turns with one Regexp, which the comment at                 *)
(* brick-string.h:428 rules out and which increment() makes good by         *)
(* matching once more, fields that share words, and the fields beside the   *)
(* bit of a lock (brick-bitlevel.h).                                        *)
Untouched ==
  /\ part = "splitter" => /\ Split!Separated /\ Split!Complete
  /\ part = "bittuple" => /\ Tuple!Kept /\ Tuple!Read
  /\ part = "bitlock" => /\ Lock!Exclusive /\ Lock!NothingLost

(* A test that passed stays so in the journal, whenever the machine goes    *)
(* down (brick-shelltest.h).                                                *)
PassedKeptStep ==
  /\ part = "testrunner" => Runner!PassedKeptStep
  /\ part = "interrupted" => Signalled!PassedKeptStep
PassedKept == [][PassedKeptStep]_vars

(* What was begun comes to its end: a call of the hash set however often    *)
(* the table grows, a receive, the stop of the two redirections, a command  *)
(* to the daemons, a run of tests some of which hang, data sent through a   *)
(* command, an iteration, a copy of bits, and the wait for a lock that      *)
(* others take and leave.                                                   *)
Busy == CASE part = "hashset" -> Hash!Calling("t1")
          [] part = "framing" -> Line!Receiving
          [] part = "redirection" -> ~Output!Exited
          [] part = "service" -> Daemons!Commanding
          [] part = "testrunner" -> Runner!RunGoesOn
          [] part = "interrupted" -> Signalled!RunGoesOn
          [] part = "chunks" -> ~Chunks!Returned
          [] part = "pieces" -> ~Pieces!Returned
          [] part = "lines" -> ~Lines!Returned
          [] part = "splitter" -> ~Split!AllEnded
          [] part = "bittuple" -> Tuple!Copying
          [] part = "bitlock" -> Lock!Asks("t1")
Ends == Busy ~> ~Busy
=============================================================================
