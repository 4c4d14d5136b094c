----------------------------- MODULE MCProgram ------------------------------
(***************************************************************************)
(* Instances for two runs: what the program does between its start and its *)
(* end (the command line and the settings that travel to the executives,   *)
(* the mutexes and the messages of the communicator, the output, the tests *)
(* and the processes that run it, and the bricks that parse a line or make *)
(* a call elsewhere), and the work itself (the queue between threads and   *)
(* the two benchmarks, over dp and over MPI). The parts have nothing to do *)
(* with each other: a behaviour is one of one part, whose variables are s1, *)
(* s2 and so on in the order of its module.                                *)
(***************************************************************************)
EXTENDS Integers, TLAPS

VARIABLES part, \* the part that this behaviour is about
          s1, s2, s3, s4, s5, s6, s7, s8, s9, s10, s11, s12, s13  \* its variables

vars == <<part, s1, s2, s3, s4, s5, s6, s7, s8, s9, s10, s11, s12, s13>>

(* options: up to four words of the command line, and two machines.         *)
Client == INSTANCE Options WITH
  words <- s1, ended <- s2, pc <- s3, todo <- s4, done <- s5, taken <- s6,
  problems <- s7, worker <- s8, started <- s9,
  Words <- {"-h", "hosts", "-n", "2", "-w", "load", "dedicated", "restart", "reset", "-l",
            "status", "forceShutdown"},
  MaxWords <- 4, Machines <- {"m1", "m2"}, Port <- "41813"

(* mutexes: a call of each of two threads to each other and to one peer.    *)
Mutex == INSTANCE MutexesProofs WITH
  read <- s1, write <- s2, mail <- s3, came <- s4, wire <- s5, thread <- s6,
  Threads <- {"t1", "t2"}, Peers <- 1,
  Ops <- {"probe", "sendTo", "sendAll", "receive"}, ProbeOn <- {0, 1},
  MaxCalls <- 1, MaxMail <- 1

(* careless: what the daemon does without the mutexes, or while it has      *)
(* them.                                                                    *)
Unlocked == INSTANCE MutexesProofs WITH
  read <- s1, write <- s2, mail <- s3, came <- s4, wire <- s5, thread <- s6,
  Threads <- {"t1", "t2"}, Peers <- 1,
  Ops <- {"probe", "sendTo", "output", "exitInside"}, ProbeOn <- {0},
  MaxCalls <- 1, MaxMail <- 1

(* storage: messages of up to two segments, of three blocks at most.        *)
Store == INSTANCE Storage WITH
  value <- s1, out <- s2, wire <- s3, count <- s4, sizes <- s5, places <- s6,
  held <- s7, block <- s8, call <- s9, meant <- s10, applied <- s11,
  fresh <- s12, misused <- s13, Data <- {1, 2}, Strings <- {1},
  Segments <- 2, MaxBlocks <- 3

(* settings: two hosts, strings of up to three characters.                  *)
Meta == INSTANCE Settings WITH
  meta <- s1, memory <- s2, view <- s3, todo <- s4, back <- s5, Enum <- 4,
  Num <- 4, Bool <- 1, SizeT <- 8, MaxLength <- 3, MaxHosts <- 2

(* redirection: a client that is slow or goes away.                         *)
Output == INSTANCE Redirection WITH
  main <- s1, buffer <- s2, written <- s3, fd <- s4, pipe <- s5,
  reader <- s6, kid <- s7, line <- s8, printed <- s9, lost <- s10,
  Capacity <- 2, MaxWrites <- 2, Faults <- {"kid", "gone", "slow"}

(* testoutput: two pieces of output, and two of the watched file.           *)
Test == INSTANCE TestOutput WITH
  test <- s1, socket <- s2, watched <- s3, offset <- s4, runner <- s5,
  source <- s6, sink <- s7, killed <- s8, wrote <- s9, MaxPieces <- 2,
  MaxWatched <- 2, MaxPasses <- 2

(* unittests: two cases of any groups, names and results.                   *)
Unit == INSTANCE UnitTests WITH
  testcases <- s1, onlyGroup <- s2, onlyCase <- s3, pc <- s4, group <- s5,
  case <- s6, done <- s7, total <- s8, bad <- s9, runs <- s10, failed <- s11,
  Cases <- 2, Groups <- {"g", "h"}, Names <- {"a", "b"}

(* children: two handles, one stream.                                       *)
Child == INSTANCE ChildProcess WITH
  handle <- s1, proc <- s2, open <- s3, mine <- s4, last <- s5,
  Handles <- {"a", "b"}, Pids <- {"p", "q"}, Asked <- {"out"}, Polls <- FALSE

(* polling: a handle that is asked whether it runs, three streams.          *)
Poll == INSTANCE ChildProcess WITH
  handle <- s1, proc <- s2, open <- s3, mine <- s4, last <- s5,
  Handles <- {"a"}, Pids <- {"p", "q"}, Asked <- {"in", "out", "err"},
  Polls <- TRUE

(* rpc: three calls of four methods.                                        *)
Far == INSTANCE Rpc WITH
  bits <- s1, offset <- s2, answers <- s3, sent <- s4, invoked <- s5,
  received <- s6, Binary <- FALSE, MaxCalls <- 3

(* commandline: three words for three parsers.                              *)
Parser == INSTANCE CommandLine WITH
  root <- s1, strict <- s2, partial <- s3, line <- s4, args <- s5,
  engine <- s6, cur <- s7, phase <- s8, found <- s9, options <- s10,
  used <- s11, outcome <- s12, Roots <- {"engine1", "engine2", "standard"},
  MaxWords <- 3

(* queue: two threads at the queue of a machine.                            *)
Queue == INSTANCE LockedQueueProofs WITH
  q <- s1, empty <- s2, lock <- s3, pc <- s4, held <- s5, calls <- s6,
  fresh <- s7, Threads <- {"t1", "t2"}, Chunks <- {"a", "b"},
  NoThread <- "nobody", NoChunk <- "nothing", MaxCalls <- 3

(* load: two machines on a grid of nine packages; a line holds one message. *)
LoadShared == INSTANCE LoadProofs WITH
  seen <- s1, queue <- s2, acc <- s3, done <- s4, pc <- s5, todo <- s6,
  round <- s7, probes <- s8, main <- s9, unsent <- s10, wire <- s11,
  popped <- s12, mutex <- s13, Kind <- "Shared", Size <- 2, Workers <- {0}, WorkLoad <- 2,
  Capacity <- 1, FlushAfter <- 2, FirstChunk <- 2, MaxChunk <- 4

(* crowded: two workers of a machine share its hash set, queue and line.    *)
LoadCrowded == INSTANCE LoadProofs WITH
  seen <- s1, queue <- s2, acc <- s3, done <- s4, pc <- s5, todo <- s6,
  round <- s7, probes <- s8, main <- s9, unsent <- s10, wire <- s11,
  popped <- s12, mutex <- s13, Kind <- "Shared", Size <- 2, Workers <- {0, 1},
  WorkLoad <- 1, Capacity <- 1, FlushAfter <- 2, FirstChunk <- 2,
  MaxChunk <- 4

(* lag: as load, with chunks that hardly ever fill up.                      *)
LoadLag == INSTANCE LoadProofs WITH
  seen <- s1, queue <- s2, acc <- s3, done <- s4, pc <- s5, todo <- s6,
  round <- s7, probes <- s8, main <- s9, unsent <- s10, wire <- s11,
  popped <- s12, mutex <- s13, Kind <- "Shared", Size <- 2, Workers <- {0}, WorkLoad <- 2,
  Capacity <- 1, FlushAfter <- 2, FirstChunk <- 4, MaxChunk <- 4

(* dedicated: three machines whose worker has a data line of its own, with  *)
(* room for all packages.                                                   *)
LoadDedicated == INSTANCE LoadProofs WITH
  seen <- s1, queue <- s2, acc <- s3, done <- s4, pc <- s5, todo <- s6,
  round <- s7, probes <- s8, main <- s9, unsent <- s10, wire <- s11,
  popped <- s12, mutex <- s13, Kind <- "Dedicated", Size <- 3, Workers <- {0},
  WorkLoad <- 1, Capacity <- 4, FlushAfter <- 2, FirstChunk <- 2,
  MaxChunk <- 4

(* ping: two machines with two workers that ask two questions each and      *)
(* share the dispatcher and the line.                                       *)
PingShared == INSTANCE Ping WITH
  worker <- s1, box <- s2, hand <- s3, count <- s4, round <- s5, main <- s6,
  wire <- s7, Kind <- "Shared", Size <- 2, Workers <- {0, 1}, WorkLoad <- 2,
  Next2 <- FALSE, Capacity <- 2

(* pingDedicated: three machines whose worker has a line of its own with    *)
(* room for one message.                                                    *)
PingDedicated == INSTANCE Ping WITH
  worker <- s1, box <- s2, hand <- s3, count <- s4, round <- s5, main <- s6,
  wire <- s7, Kind <- "Dedicated", Size <- 3, Workers <- {0}, WorkLoad <- 1,
  Next2 <- FALSE, Capacity <- 1

(* pingTwice: two machines whose worker asks two questions on a line of its *)
(* own.                                                                     *)
PingTwice == INSTANCE Ping WITH
  worker <- s1, box <- s2, hand <- s3, count <- s4, round <- s5, main <- s6,
  wire <- s7, Kind <- "Dedicated", Size <- 2, Workers <- {0}, WorkLoad <- 2,
  Next2 <- FALSE, Capacity <- 1

(* mpiLoad: the load benchmark over MPI on two machines.                    *)
LoadMpi == INSTANCE LoadProofs WITH
  seen <- s1, queue <- s2, acc <- s3, done <- s4, pc <- s5, todo <- s6,
  round <- s7, probes <- s8, main <- s9, unsent <- s10, wire <- s11,
  popped <- s12, mutex <- s13, Kind <- "Shared", Size <- 2, Workers <- {0},
  WorkLoad <- 2, Capacity <- 4, FlushAfter <- 2, FirstChunk <- 2,
  MaxChunk <- 4

(* mpiPing: the ping benchmark over MPI on two machines with two workers.   *)
PingMpi == INSTANCE MpiPing WITH
  worker <- s1, box <- s2, hand <- s3, count <- s4, round <- s5, main <- s6,
  wire <- s7, mutex <- s8, queued <- s9, Kind <- "Shared", Size <- 2,
  Workers <- {0, 1}, WorkLoad <- 1, Next2 <- FALSE, Capacity <- 2

(* The constants of every part are what its module asks for; a line of the *)
(* dedicated workers has room for what one exploration sends.              *)
ASSUME ProgramAssumption ==
  /\ Client!OptionsConstants
  /\ Mutex!MutexesConstants
  /\ Unlocked!MutexesConstants
  /\ Store!StorageConstants
  /\ Meta!SettingsConstants
  /\ Output!RedirectionConstants
  /\ Test!TestOutputConstants
  /\ Unit!UnitTestsConstants
  /\ Child!ChildProcessConstants
  /\ Poll!ChildProcessConstants
  /\ Far!RpcConstants
ASSUME BenchmarksAssumption ==
  /\ Queue!QueueConstants
  /\ LoadShared!LoadConstants
  /\ LoadCrowded!LoadConstants
  /\ LoadLag!LoadConstants
  /\ LoadDedicated!LoadConstants
  /\ PingShared!PingConstants
  /\ PingDedicated!PingConstants
  /\ PingTwice!PingConstants
  /\ LoadMpi!LoadConstants
  /\ PingMpi!PingConstants
  /\ LoadDedicated!Roomy

None5 == /\ s6 = "none" /\ s7 = "none" /\ s8 = "none" /\ s9 = "none"
         /\ s10 = "none" /\ s11 = "none" /\ s12 = "none" /\ s13 = "none"
Rest5 == <<part, s6, s7, s8, s9, s10, s11, s12, s13>>
None6 == /\ s7 = "none" /\ s8 = "none" /\ s9 = "none" /\ s10 = "none"
         /\ s11 = "none" /\ s12 = "none" /\ s13 = "none"
Rest6 == <<part, s7, s8, s9, s10, s11, s12, s13>>
None7 == /\ s8 = "none" /\ s9 = "none" /\ s10 = "none" /\ s11 = "none"
         /\ s12 = "none" /\ s13 = "none"
Rest7 == <<part, s8, s9, s10, s11, s12, s13>>
None9 == /\ s10 = "none" /\ s11 = "none" /\ s12 = "none" /\ s13 = "none"
Rest9 == <<part, s10, s11, s12, s13>>
None10 == /\ s11 = "none" /\ s12 = "none" /\ s13 = "none"
Rest10 == <<part, s11, s12, s13>>
None11 == /\ s12 = "none" /\ s13 = "none"
Rest11 == <<part, s12, s13>>
None12 == /\ s13 = "none"
Rest12 == <<part, s13>>
Rest13 == <<part>>

-----------------------------------------------------------------------------
(* The program between its start and its end.                               *)
ProgramInit ==
  \/ part = "options" /\ Client!Init /\ None9
  \/ part = "mutexes" /\ Mutex!Init /\ None6
  \/ part = "careless" /\ Unlocked!Init /\ None6
  \/ part = "storage" /\ Store!Init
  \/ part = "settings" /\ Meta!Init /\ None5
  \/ part = "redirection" /\ Output!Init /\ None10
  \/ part = "testoutput" /\ Test!Init /\ None9
  \/ part = "unittests" /\ Unit!Init /\ None11
  \/ part = "children" /\ Child!Init /\ None5
  \/ part = "polling" /\ Poll!Init /\ None5
  \/ part = "rpc" /\ Far!Init /\ None6
  \/ part = "commandline" /\ Parser!Init /\ None12

ProgramNext ==
  \/ part = "options" /\ Client!Next /\ UNCHANGED Rest9
  \/ part = "mutexes" /\ Mutex!Next /\ UNCHANGED Rest6
  \/ part = "careless" /\ Unlocked!Next /\ UNCHANGED Rest6
  \/ part = "storage" /\ Store!Next /\ UNCHANGED Rest13
  \/ part = "settings" /\ Meta!Next /\ UNCHANGED Rest5
  \/ part = "redirection" /\ Output!Next /\ UNCHANGED Rest10
  \/ part = "testoutput" /\ Test!Next /\ UNCHANGED Rest9
  \/ part = "unittests" /\ Unit!Next /\ UNCHANGED Rest11
  \/ part = "children" /\ Child!Next /\ UNCHANGED Rest5
  \/ part = "polling" /\ Poll!Next /\ UNCHANGED Rest5
  \/ part = "rpc" /\ Far!Next /\ UNCHANGED Rest6
  \/ part = "commandline" /\ Parser!Next /\ UNCHANGED Rest12

ProgramSpec == ProgramInit /\ [][ProgramNext]_vars

-----------------------------------------------------------------------------
(* The queue and the benchmarks.                                            *)
BenchmarksInit ==
  \/ part = "queue" /\ Queue!Init /\ None7
  \/ part = "load" /\ LoadShared!Init /\ None12
  \/ part = "crowded" /\ LoadCrowded!Init /\ None12
  \/ part = "lag" /\ LoadLag!Init /\ None12
  \/ part = "dedicated" /\ LoadDedicated!Init /\ None12
  \/ part = "ping" /\ PingShared!Init /\ None7
  \/ part = "pingDedicated" /\ PingDedicated!Init /\ None7
  \/ part = "pingTwice" /\ PingTwice!Init /\ None7
  \/ part = "mpiLoad" /\ LoadMpi!MpiInit
  \/ part = "mpiPing" /\ PingMpi!MpiInit /\ None9

BenchmarksNext ==
  \/ part = "queue" /\ Queue!Next /\ UNCHANGED Rest7
  \/ part = "load" /\ LoadShared!Next /\ UNCHANGED Rest12
  \/ part = "crowded" /\ LoadCrowded!Next /\ UNCHANGED Rest12
  \/ part = "lag" /\ LoadLag!Next /\ UNCHANGED Rest12
  \/ part = "dedicated" /\ LoadDedicated!Next /\ UNCHANGED Rest12
  \/ part = "ping" /\ PingShared!Next /\ UNCHANGED Rest7
  \/ part = "pingDedicated" /\ PingDedicated!Next /\ UNCHANGED Rest7
  \/ part = "pingTwice" /\ PingTwice!Next /\ UNCHANGED Rest7
  \/ part = "mpiLoad" /\ LoadMpi!MpiNext /\ UNCHANGED Rest13
  \/ part = "mpiPing" /\ PingMpi!MpiNext /\ UNCHANGED Rest9

Process1 ==
  \/ part = "queue" /\ Queue!Operate("t1") /\ UNCHANGED Rest7
  \/ part = "load" /\ LoadShared!Worker(1, 0) /\ UNCHANGED Rest12
  \/ part = "crowded" /\ LoadCrowded!Worker(1, 0) /\ UNCHANGED Rest12
  \/ part = "lag" /\ LoadLag!Worker(1, 0) /\ UNCHANGED Rest12
  \/ part = "dedicated" /\ LoadDedicated!Worker(1, 0) /\ UNCHANGED Rest12
  \/ part = "ping" /\ PingShared!Worker(1, 0) /\ UNCHANGED Rest7
  \/ part = "pingDedicated" /\ PingDedicated!Worker(1, 0) /\ UNCHANGED Rest7
  \/ part = "pingTwice" /\ PingTwice!Worker(1, 0) /\ UNCHANGED Rest7
  \/ part = "mpiLoad" /\ LoadMpi!MpiWorker(1, 0) /\ UNCHANGED Rest13
  \/ part = "mpiPing" /\ PingMpi!MpiWorker(1, 0) /\ UNCHANGED Rest9

Process2 ==
  \/ part = "queue" /\ Queue!Operate("t2") /\ UNCHANGED Rest7
  \/ part = "load" /\ LoadShared!Worker(2, 0) /\ UNCHANGED Rest12
  \/ part = "crowded" /\ LoadCrowded!Worker(1, 1) /\ UNCHANGED Rest12
  \/ part = "lag" /\ LoadLag!Worker(2, 0) /\ UNCHANGED Rest12
  \/ part = "dedicated" /\ LoadDedicated!Worker(2, 0) /\ UNCHANGED Rest12
  \/ part = "ping" /\ PingShared!Worker(1, 1) /\ UNCHANGED Rest7
  \/ part = "pingDedicated" /\ PingDedicated!Worker(2, 0) /\ UNCHANGED Rest7
  \/ part = "pingTwice" /\ PingTwice!Worker(2, 0) /\ UNCHANGED Rest7
  \/ part = "mpiLoad" /\ LoadMpi!MpiWorker(2, 0) /\ UNCHANGED Rest13
  \/ part = "mpiPing" /\ PingMpi!MpiWorker(1, 1) /\ UNCHANGED Rest9

Process3 ==
  \/ part = "load" /\ LoadShared!DispatcherStep(1) /\ UNCHANGED Rest12
  \/ part = "crowded" /\ LoadCrowded!Worker(2, 0) /\ UNCHANGED Rest12
  \/ part = "lag" /\ LoadLag!DispatcherStep(1) /\ UNCHANGED Rest12
  \/ part = "dedicated" /\ LoadDedicated!Worker(3, 0) /\ UNCHANGED Rest12
  \/ part = "ping" /\ PingShared!Worker(2, 0) /\ UNCHANGED Rest7
  \/ part = "pingDedicated" /\ PingDedicated!Worker(3, 0) /\ UNCHANGED Rest7
  \/ part = "pingTwice" /\ PingTwice!Dispatcher(1) /\ UNCHANGED Rest7
  \/ part = "mpiLoad" /\ LoadMpi!MpiDispatcher(1) /\ UNCHANGED Rest13
  \/ part = "mpiPing" /\ PingMpi!MpiWorker(2, 0) /\ UNCHANGED Rest9

Process4 ==
  \/ part = "load" /\ LoadShared!DispatcherStep(2) /\ UNCHANGED Rest12
  \/ part = "crowded" /\ LoadCrowded!Worker(2, 1) /\ UNCHANGED Rest12
  \/ part = "lag" /\ LoadLag!DispatcherStep(2) /\ UNCHANGED Rest12
  \/ part = "dedicated" /\ LoadDedicated!DispatcherStep(1) /\ UNCHANGED Rest12
  \/ part = "ping" /\ PingShared!Worker(2, 1) /\ UNCHANGED Rest7
  \/ part = "pingDedicated" /\ PingDedicated!Dispatcher(1) /\ UNCHANGED Rest7
  \/ part = "pingTwice" /\ PingTwice!Dispatcher(2) /\ UNCHANGED Rest7
  \/ part = "mpiLoad" /\ LoadMpi!MpiDispatcher(2) /\ UNCHANGED Rest13
  \/ part = "mpiPing" /\ PingMpi!MpiWorker(2, 1) /\ UNCHANGED Rest9

Process5 ==
  \/ part = "load" /\ LoadShared!Main(1) /\ UNCHANGED Rest12
  \/ part = "crowded" /\ LoadCrowded!DispatcherStep(1) /\ UNCHANGED Rest12
  \/ part = "lag" /\ LoadLag!Main(1) /\ UNCHANGED Rest12
  \/ part = "dedicated" /\ LoadDedicated!DispatcherStep(2) /\ UNCHANGED Rest12
  \/ part = "ping" /\ PingShared!Dispatcher(1) /\ UNCHANGED Rest7
  \/ part = "pingDedicated" /\ PingDedicated!Dispatcher(2) /\ UNCHANGED Rest7
  \/ part = "pingTwice" /\ PingTwice!Run(1) /\ UNCHANGED Rest7
  \/ part = "mpiLoad" /\ LoadMpi!MpiMain(1) /\ UNCHANGED Rest13
  \/ part = "mpiPing" /\ PingMpi!MpiDispatcher(1) /\ UNCHANGED Rest9

Process6 ==
  \/ part = "load" /\ LoadShared!Main(2) /\ UNCHANGED Rest12
  \/ part = "crowded" /\ LoadCrowded!DispatcherStep(2) /\ UNCHANGED Rest12
  \/ part = "lag" /\ LoadLag!Main(2) /\ UNCHANGED Rest12
  \/ part = "dedicated" /\ LoadDedicated!DispatcherStep(3) /\ UNCHANGED Rest12
  \/ part = "ping" /\ PingShared!Dispatcher(2) /\ UNCHANGED Rest7
  \/ part = "pingDedicated" /\ PingDedicated!Dispatcher(3) /\ UNCHANGED Rest7
  \/ part = "pingTwice" /\ PingTwice!Run(2) /\ UNCHANGED Rest7
  \/ part = "mpiLoad" /\ LoadMpi!MpiMain(2) /\ UNCHANGED Rest13
  \/ part = "mpiPing" /\ PingMpi!MpiDispatcher(2) /\ UNCHANGED Rest9

Process7 ==
  \/ part = "load" /\ LoadShared!Expire(1, 0) /\ UNCHANGED Rest12
  \/ part = "crowded" /\ LoadCrowded!Main(1) /\ UNCHANGED Rest12
  \/ part = "lag" /\ LoadLag!Expire(1, 0) /\ UNCHANGED Rest12
  \/ part = "dedicated" /\ LoadDedicated!Main(1) /\ UNCHANGED Rest12
  \/ part = "ping" /\ PingShared!Run(1) /\ UNCHANGED Rest7
  \/ part = "pingDedicated" /\ PingDedicated!Run(1) /\ UNCHANGED Rest7
  \/ part = "mpiPing" /\ PingMpi!MpiMain(1) /\ UNCHANGED Rest9

Process8 ==
  \/ part = "load" /\ LoadShared!Expire(2, 0) /\ UNCHANGED Rest12
  \/ part = "crowded" /\ LoadCrowded!Main(2) /\ UNCHANGED Rest12
  \/ part = "lag" /\ LoadLag!Expire(2, 0) /\ UNCHANGED Rest12
  \/ part = "dedicated" /\ LoadDedicated!Main(2) /\ UNCHANGED Rest12
  \/ part = "ping" /\ PingShared!Run(2) /\ UNCHANGED Rest7
  \/ part = "pingDedicated" /\ PingDedicated!Run(2) /\ UNCHANGED Rest7
  \/ part = "mpiPing" /\ PingMpi!MpiMain(2) /\ UNCHANGED Rest9

Process9 ==
  \/ part = "load" /\ LoadShared!Consume(1, 2, -1) /\ UNCHANGED Rest12
  \/ part = "crowded" /\ LoadCrowded!Expire(1, 0) /\ UNCHANGED Rest12
  \/ part = "lag" /\ LoadLag!Consume(1, 2, -1) /\ UNCHANGED Rest12
  \/ part = "dedicated" /\ LoadDedicated!Main(3) /\ UNCHANGED Rest12
  \/ part = "pingDedicated" /\ PingDedicated!Run(3) /\ UNCHANGED Rest7
  \/ part = "mpiPing" /\ PingMpi!Progress(1) /\ UNCHANGED Rest9

Process10 ==
  \/ part = "load" /\ LoadShared!Consume(2, 1, -1) /\ UNCHANGED Rest12
  \/ part = "crowded" /\ LoadCrowded!Expire(1, 1) /\ UNCHANGED Rest12
  \/ part = "lag" /\ LoadLag!Consume(2, 1, -1) /\ UNCHANGED Rest12
  \/ part = "dedicated" /\ LoadDedicated!Expire(1, 0) /\ UNCHANGED Rest12
  \/ part = "mpiPing" /\ PingMpi!Progress(2) /\ UNCHANGED Rest9

Process11 ==
  \/ part = "crowded" /\ LoadCrowded!Expire(2, 0) /\ UNCHANGED Rest12
  \/ part = "dedicated" /\ LoadDedicated!Expire(2, 0) /\ UNCHANGED Rest12

Process12 ==
  \/ part = "crowded" /\ LoadCrowded!Expire(2, 1) /\ UNCHANGED Rest12
  \/ part = "dedicated" /\ LoadDedicated!Expire(3, 0) /\ UNCHANGED Rest12

Process13 ==
  \/ part = "crowded" /\ LoadCrowded!Consume(1, 2, -1) /\ UNCHANGED Rest12
  \/ part = "dedicated" /\ LoadDedicated!Consume(1, 2, -1) /\ UNCHANGED Rest12

Process14 ==
  \/ part = "crowded" /\ LoadCrowded!Consume(2, 1, -1) /\ UNCHANGED Rest12
  \/ part = "dedicated" /\ LoadDedicated!Consume(1, 2, 0) /\ UNCHANGED Rest12

Process15 ==
  \/ part = "dedicated" /\ LoadDedicated!Consume(1, 3, -1) /\ UNCHANGED Rest12

Process16 ==
  \/ part = "dedicated" /\ LoadDedicated!Consume(1, 3, 0) /\ UNCHANGED Rest12

Process17 ==
  \/ part = "dedicated" /\ LoadDedicated!Consume(2, 1, -1) /\ UNCHANGED Rest12

Process18 ==
  \/ part = "dedicated" /\ LoadDedicated!Consume(2, 1, 0) /\ UNCHANGED Rest12

Process19 ==
  \/ part = "dedicated" /\ LoadDedicated!Consume(2, 3, -1) /\ UNCHANGED Rest12

Process20 ==
  \/ part = "dedicated" /\ LoadDedicated!Consume(2, 3, 0) /\ UNCHANGED Rest12

Process21 ==
  \/ part = "dedicated" /\ LoadDedicated!Consume(3, 1, -1) /\ UNCHANGED Rest12

Process22 ==
  \/ part = "dedicated" /\ LoadDedicated!Consume(3, 1, 0) /\ UNCHANGED Rest12

Process23 ==
  \/ part = "dedicated" /\ LoadDedicated!Consume(3, 2, -1) /\ UNCHANGED Rest12

Process24 ==
  \/ part = "dedicated" /\ LoadDedicated!Consume(3, 2, 0) /\ UNCHANGED Rest12

(* The fairness of each part, as its module states it: the n-th process of  *)
(* a part that has one is scheduled again and again.                        *)
BenchmarksSpec == /\ BenchmarksInit /\ [][BenchmarksNext]_vars
                  /\ WF_vars(Process1)/\ WF_vars(Process2)/\ WF_vars(Process3)/\
                     WF_vars(Process4)/\ WF_vars(Process5)/\ WF_vars(Process6)/\
                     WF_vars(Process7)/\ WF_vars(Process8)/\ WF_vars(Process9)/\
                     WF_vars(Process10)/\ WF_vars(Process11)/\ WF_vars(Process12)/\
                     WF_vars(Process13)/\ WF_vars(Process14)/\ WF_vars(Process15)/\
                     WF_vars(Process16)/\ WF_vars(Process17)/\ WF_vars(Process18)/\
                     WF_vars(Process19)/\ WF_vars(Process20)/\ WF_vars(Process21)/\
                     WF_vars(Process22)/\ WF_vars(Process23)/\ WF_vars(Process24)

-----------------------------------------------------------------------------
(* The type of every part.                                                  *)
TypeOK ==
  CASE part = "queue" -> Queue!TypeOK
    [] part = "load" -> LoadShared!TypeOK
    [] part = "crowded" -> LoadCrowded!TypeOK
    [] part = "lag" -> LoadLag!TypeOK
    [] part = "dedicated" -> LoadDedicated!TypeOK
    [] part = "ping" -> PingShared!TypeOK
    [] part = "pingDedicated" -> PingDedicated!TypeOK
    [] part = "pingTwice" -> PingTwice!TypeOK
    [] part = "mpiLoad" -> LoadMpi!MpiTypeOK
    [] part = "mpiPing" -> PingMpi!MpiTypeOK
    [] part = "options" -> Client!TypeOK
    [] part = "mutexes" -> Mutex!TypeOK
    [] part = "careless" -> Unlocked!TypeOK
    [] part = "storage" -> Store!TypeOK
    [] part = "settings" -> Meta!TypeOK
    [] part = "redirection" -> Output!TypeOK
    [] part = "testoutput" -> Test!TypeOK
    [] part = "unittests" -> Unit!TypeOK
    [] part = "children" -> Child!TypeOK
    [] part = "polling" -> Poll!TypeOK
    [] part = "rpc" -> Far!TypeOK
    [] part = "commandline" -> Parser!TypeOK

(* Client and executives make the same settings of the same words, a        *)
(* command reaches every machine of the list, and a computation starts on   *)
(* all machines or on none (meta.cpp, demo.cpp); of a line no word is lost  *)
(* between the engines, and a value belongs to the option before it         *)
(* (brick-commandline.h).                                                   *)
Settled ==
  /\ part = "options" => /\ Client!LastCommandWins
                         /\ Client!Agreed
                         /\ Client!AllOrNone
                         /\ Client!Visited
                         /\ Client!StartsDaemon
  /\ part = "commandline" => /\ Parser!NothingLost
                             /\ Parser!ValueFollows
                             /\ Parser!NoSwitchLeft
                             /\ Parser!HigherFirst
                             /\ Parser!CallerActs

(* Threads never wait for the mutexes of channels in a circle, nobody takes *)
(* a message that another thread peeked at, the parts of messages to one    *)
(* machine do not mix, also while output is redirected to the client, and   *)
(* messages to all arrive everywhere in the same order (probe, sendAll,     *)
(* sendTo, receive of communicator.h and daemon.h).                         *)
Locked ==
  /\ part = "mutexes" => /\ Mutex!NoCircle
                         /\ Mutex!Peeked
                         /\ Mutex!Contiguous
                         /\ Mutex!SameOrder
  /\ part = "careless" => Unlocked!Peeked /\ Unlocked!Contiguous

(* What is received has room where it goes, memory is used and given back   *)
(* once, the applicator sees the segments in order (brick-net.h), and the   *)
(* settings that Meta::block wrote are those its constructor reads, but for *)
(* what was written behind the block: the size of one bool, always          *)
(* (meta.cpp).                                                              *)
Stored ==
  /\ part = "storage" => /\ Store!RoomForAll
                         /\ Store!NoMisuse
                         /\ Store!AppliedInOrder
                         /\ Store!GivenBack
  /\ part = "settings" => Meta!ReadBack /\ Meta!Overrun

(* What a program prints is shown in order even when a client is slow       *)
(* (Redirector), what a test prints up to its end, and a watched file, is   *)
(* kept once (brick-shelltest.h), and every case runs once and is reported  *)
(* as it ended (brick-unittest.h).                                          *)
Shown ==
  /\ part = "redirection" => Output!InOrder
  /\ part = "testoutput" => /\ Test!Kept /\ Test!Shown /\ Test!WatchedOnce
  /\ part = "unittests" => /\ Unit!EachOnce /\ Unit!Honest

(* A call that is carried out elsewhere is one that was made, with its own  *)
(* arguments, and its result goes back to it (brick-rpc.h).                 *)
Remote ==
  /\ part = "rpc" => /\ Far!Faithful /\ Far!OwnResults

(* A child holds no other end of its pipes, and a handle that is gone left  *)
(* no process behind (brick-process.h).                                     *)
Reaped ==
  /\ part = "children" => /\ Child!Separate /\ Child!NoneLeft
  /\ part = "polling" => /\ Poll!Separate /\ Poll!NoneLeft

(* A message carries the values its variables have when it is sent and the  *)
(* constants they were when it was made (OutputMessage); wait() returns the *)
(* status of the child of this handle and of no other (brick-process.h).    *)
MeantStep ==
  /\ part = "storage" => Store!CarriedStep
  /\ part = "children" => Child!OwnStatusStep
Meant == [][MeantStep]_vars

(* Every package is expanded once, by the machine that owns it, no package  *)
(* gets lost in an accessor, a queue or a line before it was expanded, and  *)
(* no machine stops before the last one was generated (process, expand and  *)
(* the dispatchers of workerLoad.hpp and mpi.cpp).                          *)
Explored ==
  /\ part = "load" => /\ LoadShared!WorkedOnce
                      /\ LoadShared!NoneLost
                      /\ LoadShared!NotEarly
  /\ part = "crowded" => /\ LoadCrowded!WorkedOnce
                         /\ LoadCrowded!NoneLost
                         /\ LoadCrowded!NotEarly
  /\ part = "lag" => /\ LoadLag!WorkedOnce
                     /\ LoadLag!NoneLost
                     /\ LoadLag!NotEarly
  /\ part = "dedicated" => /\ LoadDedicated!WorkedOnce
                           /\ LoadDedicated!NoneLost
                           /\ LoadDedicated!NotEarly
  /\ part = "mpiLoad" => /\ LoadMpi!NoneLost /\ LoadMpi!NotEarly

(* The answer a worker waits for is in one place, with the right number and *)
(* on its way to the right worker, through dispatchers, boxes and lines;    *)
(* and a thread that returned had nothing left to answer (workerPing.hpp,   *)
(* mpi.cpp).                                                                *)
Answered ==
  /\ part = "ping" => /\ PingShared!OneAnswer /\ PingShared!NothingLeft
  /\ part = "pingDedicated" => /\ PingDedicated!OneAnswer
                               /\ PingDedicated!NothingLeft
  /\ part = "pingTwice" => /\ PingTwice!OneAnswer /\ PingTwice!NothingLeft
  /\ part = "mpiPing" => /\ PingMpi!Expected /\ PingMpi!NothingLeft

(* push, pop and clear behave as if each happened at one moment, although   *)
(* pop reads the flag without the lock: LockedQueue implements ChunkQueue.  *)
Atomic == /\ part = "queue" => Queue!Abstract!QInit
          /\ [][part = "queue" => [Queue!Abstract!QNext]_(Queue!Abstract!qvars)]_vars

(* Every call of the queue returns, and every computation ends on all       *)
(* machines: the last package, or the count of those who are done, reaches  *)
(* everybody, whoever sends to whom when.                                   *)
Busy == CASE part = "queue" -> Queue!Called("t1")
          [] part = "load" -> ~LoadShared!AllOver
          [] part = "crowded" -> ~LoadCrowded!AllOver
          [] part = "lag" -> ~LoadLag!AllOver
          [] part = "dedicated" -> ~LoadDedicated!AllOver
          [] part = "ping" -> ~PingShared!AllOver
          [] part = "pingDedicated" -> ~PingDedicated!AllOver
          [] part = "pingTwice" -> ~PingTwice!AllOver
          [] part = "mpiLoad" -> ~LoadMpi!AllOver
          [] part = "mpiPing" -> ~PingMpi!AllOver
Ends == Busy ~> ~Busy

-----------------------------------------------------------------------------
(* The mutexes of this run keep the invariant of MutexesProofs.             *)
MutexesKept == /\ part = "mutexes" => Mutex!MutexInv
               /\ part = "careless" => Unlocked!MutexInv

LEMMA MutexesStep ==
  ASSUME MutexesKept, [ProgramNext]_vars
  PROVE  MutexesKept'
<1>1. part' = part
  BY DEF ProgramNext, vars, Rest5, Rest6, Rest9, Rest10, Rest11, Rest12, Rest13
<1>2. CASE part = "mutexes"
  <2>1. Mutex!MutexesConstants
    BY ProgramAssumption DEF ProgramAssumption
  <2>2. Mutex!Next \/ UNCHANGED Mutex!vars
    BY <1>2 DEF ProgramNext, vars, Mutex!vars
  <2>3. Mutex!MutexInv'
    BY <1>2, <2>1, <2>2, Mutex!MutexNext, Mutex!MutexStutter DEF MutexesKept
  <2> QED BY <1>1, <1>2, <2>3 DEF MutexesKept
<1>3. CASE part = "careless"
  <2>1. Unlocked!MutexesConstants
    BY ProgramAssumption DEF ProgramAssumption
  <2>2. Unlocked!Next \/ UNCHANGED Unlocked!vars
    BY <1>3 DEF ProgramNext, vars, Unlocked!vars
  <2>3. Unlocked!MutexInv'
    BY <1>3, <2>1, <2>2, Unlocked!MutexNext, Unlocked!MutexStutter DEF MutexesKept
  <2> QED BY <1>1, <1>3, <2>3 DEF MutexesKept
<1> QED BY <1>1, <1>2, <1>3 DEF MutexesKept

(* Threads of this run wait for the mutexes of channels in no circle, take  *)
(* no message another one peeked at, and mix or reorder no messages (probe, *)
(* sendAll, sendTo and receive of communicator.h): MutexesProofs proves it  *)
(* for any threads, peers and calls, and this is the instance TLC checks.   *)
THEOREM LockedStays == ProgramSpec => []Locked
<1>1. ProgramInit => MutexesKept
  <2>1. Mutex!MutexesConstants /\ Unlocked!MutexesConstants
    BY ProgramAssumption DEF ProgramAssumption
  <2>2. ASSUME ProgramInit, part = "mutexes" PROVE Mutex!MutexInv
    BY <2>1, <2>2, Mutex!MutexInit DEF ProgramInit
  <2>3. ASSUME ProgramInit, part = "careless" PROVE Unlocked!MutexInv
    BY <2>1, <2>3, Unlocked!MutexInit DEF ProgramInit
  <2> QED BY <2>2, <2>3 DEF MutexesKept
<1>2. MutexesKept /\ [ProgramNext]_vars => MutexesKept'
  BY MutexesStep
<1>3. MutexesKept => Locked
  <2>1. Mutex!MutexesConstants /\ Unlocked!MutexesConstants
    BY ProgramAssumption DEF ProgramAssumption
  <2>2. ASSUME Mutex!MutexInv
        PROVE  Mutex!NoCircle /\ Mutex!Peeked /\ Mutex!Contiguous /\ Mutex!SameOrder
    BY <2>1, <2>2, Mutex!MutexParts
  <2>3. ASSUME Unlocked!MutexInv PROVE Unlocked!Peeked /\ Unlocked!Contiguous
    BY <2>1, <2>3, Unlocked!MutexParts
  <2> QED BY <2>2, <2>3 DEF MutexesKept, Locked
<1> QED BY <1>1, <1>2, <1>3, PTL DEF ProgramSpec

(* The handles of children of this run keep the invariant of ChildProcess.  *)
ChildrenKept == /\ part = "children" => Child!ChildInv
                /\ part = "polling" => Poll!ChildInv

LEMMA ChildrenStep ==
  ASSUME ChildrenKept, [ProgramNext]_vars
  PROVE  ChildrenKept'
<1>1. part' = part
  BY DEF ProgramNext, vars, Rest5, Rest6, Rest9, Rest10, Rest11, Rest12, Rest13
<1>2. CASE part = "children"
  <2>1. Child!ChildProcessConstants
    BY ProgramAssumption DEF ProgramAssumption
  <2>2. Child!Next \/ UNCHANGED Child!vars
    BY <1>2 DEF ProgramNext, vars, Child!vars
  <2>3. Child!ChildInv'
    BY <1>2, <2>1, <2>2, Child!ChildNext, Child!ChildStutter DEF ChildrenKept
  <2> QED BY <1>1, <1>2, <2>3 DEF ChildrenKept
<1>3. CASE part = "polling"
  <2>1. Poll!ChildProcessConstants
    BY ProgramAssumption DEF ProgramAssumption
  <2>2. Poll!Next \/ UNCHANGED Poll!vars
    BY <1>3 DEF ProgramNext, vars, Poll!vars
  <2>3. Poll!ChildInv'
    BY <1>3, <2>1, <2>2, Poll!ChildNext, Poll!ChildStutter DEF ChildrenKept
  <2> QED BY <1>1, <1>3, <2>3 DEF ChildrenKept
<1> QED BY <1>1, <1>2, <1>3 DEF ChildrenKept

(* A child of this run has no end of its pipes but its own streams, and     *)
(* a handle that is gone left no process behind (brick-process.h): proved   *)
(* in ChildProcess for any handles and process numbers.                     *)
THEOREM ReapedStays == ProgramSpec => []Reaped
<1>1. ProgramInit => ChildrenKept
  <2>1. Child!ChildProcessConstants /\ Poll!ChildProcessConstants
    BY ProgramAssumption DEF ProgramAssumption
  <2>2. ASSUME ProgramInit, part = "children" PROVE Child!ChildInv
    BY <2>1, <2>2, Child!ChildInit DEF ProgramInit
  <2>3. ASSUME ProgramInit, part = "polling" PROVE Poll!ChildInv
    BY <2>1, <2>3, Poll!ChildInit DEF ProgramInit
  <2> QED BY <2>2, <2>3 DEF ChildrenKept
<1>2. ChildrenKept /\ [ProgramNext]_vars => ChildrenKept'
  BY ChildrenStep
<1>3. ChildrenKept => Reaped
  <2>1. Child!ChildProcessConstants /\ Poll!ChildProcessConstants
    BY ProgramAssumption DEF ProgramAssumption
  <2>2. ASSUME Child!ChildInv PROVE Child!Separate /\ Child!NoneLeft
    BY <2>1, <2>2, Child!ChildParts
  <2>3. ASSUME Poll!ChildInv PROVE Poll!Separate /\ Poll!NoneLeft
    BY <2>1, <2>3, Poll!ChildParts
  <2> QED BY <2>2, <2>3 DEF ChildrenKept, Reaped
<1> QED BY <1>1, <1>2, <1>3, PTL DEF ProgramSpec

(* The queue of this run keeps the invariant of LockedQueueProofs.          *)
QueueKept == part = "queue" => Queue!QueueInv

LEMMA QueuePartStep ==
  ASSUME QueueKept, [BenchmarksNext]_vars
  PROVE  QueueKept' /\ (part = "queue" => [Queue!Abstract!QNext]_(Queue!Abstract!qvars))
<1>1. part' = part
  BY DEF BenchmarksNext, vars, Rest7, Rest9, Rest12, Rest13
<1>2. CASE part # "queue"
  BY <1>1, <1>2 DEF QueueKept
<1>3. CASE part = "queue"
  <2>1. Queue!QueueConstants
    BY BenchmarksAssumption DEF BenchmarksAssumption
  <2>2. [Queue!Next]_(Queue!vars)
    BY <1>3 DEF BenchmarksNext, vars, Queue!vars
  <2>3. Queue!QueueInv' /\ [Queue!Abstract!QNext]_(Queue!Abstract!qvars)
    BY <1>3, <2>1, <2>2, Queue!QueueStep DEF QueueKept
  <2> QED BY <2>3 DEF QueueKept
<1> QED BY <1>2, <1>3

(* push, pop and clear of the queue of this run behave as if each happened  *)
(* at one moment (LockedQueue of brick-shmem.h): LockedQueueProofs proves   *)
(* it for any threads and chunks, and this is the instance TLC checks.      *)
THEOREM AtomicStays == BenchmarksSpec => Atomic
<1>1. BenchmarksInit => QueueKept
  <2> SUFFICES ASSUME BenchmarksInit, part = "queue" PROVE Queue!QueueInv
    BY DEF QueueKept
  <2>1. Queue!Init /\ Queue!QueueConstants
    BY BenchmarksAssumption DEF BenchmarksInit, BenchmarksAssumption
  <2> QED BY <2>1, Queue!InitQueue
<1>2. QueueKept /\ [BenchmarksNext]_vars => QueueKept'
  BY QueuePartStep
<1>3. BenchmarksInit => (part = "queue" => Queue!Abstract!QInit)
  <2> SUFFICES ASSUME BenchmarksInit, part = "queue" PROVE Queue!Abstract!QInit
    OBVIOUS
  <2>1. Queue!Init
    BY DEF BenchmarksInit
  <2>2. Queue!Content = << >> /\ Queue!Phase = [t \in {"t1", "t2"} |-> "idle"]
    BY <2>1 DEF Queue!Init, Queue!Content, Queue!Announcing, Queue!Phase
  <2> QED BY <2>1, <2>2 DEF Queue!Init, Queue!Abstract!QInit
<1>4. QueueKept /\ [BenchmarksNext]_vars
        => (part = "queue" => [Queue!Abstract!QNext]_(Queue!Abstract!qvars))
  BY QueuePartStep
<1> QED BY <1>1, <1>2, <1>3, <1>4, PTL DEF BenchmarksSpec, Atomic

-----------------------------------------------------------------------------
(* The benchmarks of this run keep the invariant of LoadProofs.             *)
LoadsKept == /\ part = "load" => LoadShared!LoadInv
             /\ part = "crowded" => LoadCrowded!LoadInv
             /\ part = "lag" => LoadLag!LoadInv
             /\ part = "dedicated" => LoadDedicated!LoadInv
             /\ part = "mpiLoad" => LoadMpi!MpiLoadInv

LEMMA LoadsStep ==
  ASSUME LoadsKept, [BenchmarksNext]_vars
  PROVE  LoadsKept'
<1>1. part' = part
  BY DEF BenchmarksNext, vars, Rest7, Rest9, Rest12, Rest13
<1>2. CASE part = "load"
  <2>1. LoadShared!LoadConstants
    BY BenchmarksAssumption DEF BenchmarksAssumption
  <2>2. LoadShared!Next \/ UNCHANGED LoadShared!vars
    BY <1>2 DEF BenchmarksNext, vars, LoadShared!vars
  <2>3. LoadShared!LoadInv'
    BY <1>2, <2>1, <2>2, LoadShared!LoadNext, LoadShared!StutterLoad DEF LoadsKept
  <2> QED BY <1>1, <1>2, <2>3 DEF LoadsKept
<1>3. CASE part = "crowded"
  <2>1. LoadCrowded!LoadConstants
    BY BenchmarksAssumption DEF BenchmarksAssumption
  <2>2. LoadCrowded!Next \/ UNCHANGED LoadCrowded!vars
    BY <1>3 DEF BenchmarksNext, vars, LoadCrowded!vars
  <2>3. LoadCrowded!LoadInv'
    BY <1>3, <2>1, <2>2, LoadCrowded!LoadNext, LoadCrowded!StutterLoad DEF LoadsKept
  <2> QED BY <1>1, <1>3, <2>3 DEF LoadsKept
<1>4. CASE part = "lag"
  <2>1. LoadLag!LoadConstants
    BY BenchmarksAssumption DEF BenchmarksAssumption
  <2>2. LoadLag!Next \/ UNCHANGED LoadLag!vars
    BY <1>4 DEF BenchmarksNext, vars, LoadLag!vars
  <2>3. LoadLag!LoadInv'
    BY <1>4, <2>1, <2>2, LoadLag!LoadNext, LoadLag!StutterLoad DEF LoadsKept
  <2> QED BY <1>1, <1>4, <2>3 DEF LoadsKept
<1>5. CASE part = "dedicated"
  <2>1. LoadDedicated!LoadConstants
    BY BenchmarksAssumption DEF BenchmarksAssumption
  <2>2. LoadDedicated!Next \/ UNCHANGED LoadDedicated!vars
    BY <1>5 DEF BenchmarksNext, vars, LoadDedicated!vars
  <2>3. LoadDedicated!LoadInv'
    BY <1>5, <2>1, <2>2, LoadDedicated!LoadNext, LoadDedicated!StutterLoad DEF LoadsKept
  <2> QED BY <1>1, <1>5, <2>3 DEF LoadsKept
<1>6. CASE part = "mpiLoad"
  <2>1. LoadMpi!LoadConstants
    BY BenchmarksAssumption DEF BenchmarksAssumption
  <2>2. LoadMpi!MpiNext \/ UNCHANGED LoadMpi!mpivars
    BY <1>6 DEF BenchmarksNext, vars, LoadMpi!mpivars, LoadMpi!vars
  <2>3. LoadMpi!MpiLoadInv'
    BY <1>6, <2>1, <2>2, LoadMpi!MpiLoadNext, LoadMpi!MpiStutterLoad DEF LoadsKept
  <2> QED BY <1>1, <1>6, <2>3 DEF LoadsKept
<1> QED BY <1>1, <1>2, <1>3, <1>4, <1>5, <1>6 DEF LoadsKept

(* No package of this run is lost or worked on twice, and no machine ends   *)
(* before the last one was generated (workerLoad.hpp, mpi.cpp): LoadProofs  *)
(* proves it for any grid, machines and threads, and these are the          *)
(* instances TLC checks.                                                    *)
THEOREM ExploredStays == BenchmarksSpec => []Explored
<1>1. BenchmarksInit => LoadsKept
  <2>1. /\ LoadShared!LoadConstants /\ LoadCrowded!LoadConstants /\ LoadLag!LoadConstants
        /\ LoadDedicated!LoadConstants /\ LoadMpi!LoadConstants
    BY BenchmarksAssumption DEF BenchmarksAssumption
  <2>2. ASSUME BenchmarksInit, part = "load" PROVE LoadShared!LoadInv
    BY <2>1, <2>2, LoadShared!InitLoad DEF BenchmarksInit
  <2>3. ASSUME BenchmarksInit, part = "crowded" PROVE LoadCrowded!LoadInv
    BY <2>1, <2>3, LoadCrowded!InitLoad DEF BenchmarksInit
  <2>4. ASSUME BenchmarksInit, part = "lag" PROVE LoadLag!LoadInv
    BY <2>1, <2>4, LoadLag!InitLoad DEF BenchmarksInit
  <2>5. ASSUME BenchmarksInit, part = "dedicated" PROVE LoadDedicated!LoadInv
    BY <2>1, <2>5, LoadDedicated!InitLoad DEF BenchmarksInit
  <2>6. ASSUME BenchmarksInit, part = "mpiLoad" PROVE LoadMpi!MpiLoadInv
    BY <2>1, <2>6, LoadMpi!MpiInitLoad DEF BenchmarksInit
  <2> QED BY <2>2, <2>3, <2>4, <2>5, <2>6 DEF LoadsKept
<1>2. LoadsKept /\ [BenchmarksNext]_vars => LoadsKept'
  BY LoadsStep
<1>3. LoadsKept => Explored
  <2>1. /\ LoadShared!LoadConstants /\ LoadCrowded!LoadConstants /\ LoadLag!LoadConstants
        /\ LoadDedicated!LoadConstants /\ LoadMpi!LoadConstants /\ LoadDedicated!Roomy
    BY BenchmarksAssumption DEF BenchmarksAssumption
  <2>2. LoadShared!Roomy /\ LoadCrowded!Roomy /\ LoadLag!Roomy /\ LoadMpi!Roomy
    BY DEF LoadShared!Roomy, LoadCrowded!Roomy, LoadLag!Roomy, LoadMpi!Roomy
  <2>3. {0} # {} /\ {0, 1} # {}
    OBVIOUS
  <2>4. ASSUME LoadShared!LoadInv PROVE LoadShared!WorkedOnce /\ LoadShared!NoneLost /\ LoadShared!NotEarly
    BY <2>1, <2>2, <2>3, <2>4, LoadShared!LoadParts
  <2>5. ASSUME LoadCrowded!LoadInv PROVE LoadCrowded!WorkedOnce /\ LoadCrowded!NoneLost /\ LoadCrowded!NotEarly
    BY <2>1, <2>2, <2>3, <2>5, LoadCrowded!LoadParts
  <2>6. ASSUME LoadLag!LoadInv PROVE LoadLag!WorkedOnce /\ LoadLag!NoneLost /\ LoadLag!NotEarly
    BY <2>1, <2>2, <2>3, <2>6, LoadLag!LoadParts
  <2>7. ASSUME LoadDedicated!LoadInv PROVE LoadDedicated!WorkedOnce /\ LoadDedicated!NoneLost /\ LoadDedicated!NotEarly
    BY <2>1, <2>2, <2>3, <2>7, LoadDedicated!LoadParts
  <2>8. ASSUME LoadMpi!MpiLoadInv PROVE LoadMpi!NoneLost /\ LoadMpi!NotEarly
    BY <2>1, <2>2, <2>3, <2>8, LoadMpi!LoadParts DEF LoadMpi!MpiLoadInv
  <2> QED BY <2>4, <2>5, <2>6, <2>7, <2>8 DEF LoadsKept, Explored
<1> QED BY <1>1, <1>2, <1>3, PTL DEF BenchmarksSpec
=============================================================================
