# A TLA+ model of dp

dp (`src/src/`) runs one program on several machines. A *daemon* listens on
every machine; a *client* enslaves some of them, makes them connect to each
other, starts the program on all of them and dissolves the group when all are
done. The program uses the daemon's library to talk to its peers. Two such
programs come with it, a graph exploration (*load*) and an exchange of messages
(*ping*), and the same two over MPI. All of it stands on a library of headers,
the *bricks* (`src/bricks/`): sockets, hash tables, a command line parser, the
runners of the tests.

This directory models the protocol between clients and daemons, where
processes, forks, timeouts and crashes meet; the threads, queues and messages of
the programs that run on it; and the bricks that keep state. TLC checks all of
it on small instances; TLAPS proves the central part of the protocol, the queue of
the workers, the mutexes of the channels and the handles of children for any
number of machines, threads and processes.

## The system

| component | source | state | operations |
|---|---|---|---|
| main process of the daemon | `daemon.cpp`, `daemon.h` | `_state`, table of connections, `_rope`, `_childPid`, rank, world size, `_quit` | one handler per control message, disconnects, exceptions, `waitForChild`, `daemonize` |
| executive (its forked child) | `daemon.cpp` | the same object after `fork`, with the cached channels of the group | `initData`, `run`, the user's `main`, `exit`, `prepare`, `leave`, `redirectOutput` |
| client library | `client.cpp`, `client.h` | table of slaves, names, `_idCounter`, world size, `_done`, `_quit`, `_established`, `_signal`, watchdog | `add`, `removeAll`, `run` (`establish`, loop, `dissolve`), `quit`, single commands to a machine |
| communicator | `communicator.*` | mutexes of the channels | `probe`, `process`, `sendAll` |
| connections | `connections.h` | `rank -> Peer`, a master channel and data channels | `insert`, `find`, `clear`, `openDataChannel` |
| sockets | `bricks/brick-net.h` | descriptors, messages and their memory, `Redirector` | `send`, `receive`, `peek`, `closed`, `poll`, `connect`, `socketPair`, `start`, `stop` |
| data plane | `daemon.h` | caches of channels by kind | `sendTo`, `receive`, `findChannel` |
| worker framework | `worker.hpp`, `bricks/brick-shmem.h` | queue of chunks, `_done`, `_processed`, set | `QueueAccessor`, `Workers::run`, `LockedQueue` |
| benchmarks | `workerLoad.hpp`, `workerPing.hpp`, `mpi.cpp` | work, counters, boxes, pending sends | exploration, ping; both end by counting |
| command line | `meta.*`, `demo.cpp` | settings, list of hosts | parse options, call the client, start and end daemons |
| tests | `bricks/brick-shelltest.h`, `brick-unittest.h` | journal, output, results | run every test in a process of its own, survive its crash |
| other bricks | `bricks/brick-*.h` | see the modules | hash sets, unions, vectors, tables, parsers, remote calls, child processes, mappings, bits, text |

How they interact. A client opens one line to each machine (`Enslave`) and then
asks one question at a time, always waiting for the answer: `Peers` (the world
size), `ConnectTo` (machine A opens a master line with `Join` and its data lines
with `DataLine` to machine B), `Grouped` (the main process forks; the child, the
*executive*, keeps all lines, the main process keeps its ear and a *rope*, a
socket pair to the child), `InitialData` (no answer), `Run`, then `Start` to
all. The client waits for `Done` from every executive and dissolves the group
with `PrepareToLeave` and `Leave`; before an executive answers `Leave` it sends
`CutRope` to its main process, which turns `Free`. Failures are found by end of
stream, by a failed send, or by a timeout of five seconds; the main process
answers them with `setDefault`, the executive by ending. While it runs, two
threads read what the program prints and send it to the client.

What is hard here:

* the handlers of one process are atomic between two calls of `poll`, except
  that `connecting`, `run`, `leave` and `cutRope` block in the middle while
  everything else goes on;
* one round of `poll` finds several channels ready, and the first handlers may
  close or forget the channels of the later ones;
* after `fork` two processes hold the same descriptors, so a line is only closed
  when both let go of it;
* a write to a closed line succeeds once and fails later;
* the client, the executives, the main processes and the operator's commands
  reset each other at any moment;
* the workers of a benchmark keep packages in accessors, queues and lines of
  limited room, and all machines have to find out that nothing is left;
* several threads probe, receive and send on the same channels;
* a test may take down the machine that runs it.

The list of these hazards, each at its line and with the properties that
would catch it, is in `PROJECT.json`.

## The modules

### The protocol

| module | models | state |
|---|---|---|
| `Wire` | sockets, the network, descriptors and their inheritance | `net`: for every end of a line who holds it and what arrived, which ends fail at the next write, backlogs, listening machines |
| `Daemon` | main process and executive of every machine | `daemon`: one record per process with the members of class Daemon, the rest of the current poll round (`todo`) and what a blocked handler waits for (`wait`) |
| `Client` | the client library and the calls of its user | `client`: one record per client with the members of class Client, the phase of the call (`pc`), the slave that was asked (`pos`, `peer`) |
| `Session` | all of them together, failures and operator commands; the properties and the fairness | `mishaps`: how many failures happened |
| `MCSession` | the instances for TLC | |
| `DaemonProofs` | proofs: every operation of `Wire`, handler and call keeps the types; every step of a daemon keeps main process and executive tied; who holds the ends a daemon uses and what may have arrived at them; what a step of a daemon does to its conversation with a client | |
| `SessionProofs` | proofs: the clients' side of these conversations, and the first theorems | |
| `MasterProofs` | proofs: a machine has one master | |

`Session` EXTENDS `Daemon` and `Client`, which EXTEND `Wire`. A handler is an
operator on a *situation*, a record of the daemons (or clients) and the network,
named like the method it stands for; an action applies it: `Poll` takes the next
ready channel of a round and does all that `Communicator::process` does with it,
`Resume` continues a handler that blocked, `Bury` ends a wait for a child,
`FinishMain` returns from the user's main and enters `Daemon::exit`. On the
client's side `Add`, `RemoveAll`, `CallRun` and `Destroy` begin a call; `Added`,
`Answered`, `Probe` and `Alarm` continue it. `Mishap` is everything that may go
wrong: a process crashes, a timeout expires, a child does not finish in 100 ms,
an operator's command, a daemon started again, a signal. A signal to the client
either meets it between two system calls, which only starts the watchdog
(`Signal`), or inside one, which is not restarted: its receives have a timeout, so
the handler's end raises an exception in the call (`Interrupt`).

How data is abstracted. A message has its tag and the fields a handler looks at:
a rank or a world size, the number of a data line, a host. Names and addresses
are the host. `Error` and `Renegade` differ for the log only, so a reset of
either kind is the same step. Program arguments and initial data have no
content. Rank 0 is the client's. The executive's main is here a process that
polls its channels as long as it wants and then returns; what the program prints
is in `Redirection`, and what it sends to its peers in `Load` and `Ping`.

### The programs

| module | models | state |
|---|---|---|
| `ChunkQueue` | what the queue of a machine promises: push, pop and clear of chunks, each at one moment | the queue, the calls |
| `LockedQueue` | `SpinLock` and `LockedQueue` (`brick-shmem.h`), one step per access to shared memory | lock, `_empty`, the queue, where each thread is |
| `LockedQueueProofs` | proofs: it implements `ChunkQueue` | |
| `Load` | the exploration (`workerLoad.hpp`, `worker.hpp`): workers with accessors whose chunks grow, set, queue, dispatcher, `notifyAll`, in the variants Shared and Dedicated | per machine the queue, the set, the accessors and the threads; the lines with what is on them |
| `Ping` | the exchange (`workerPing.hpp`): questions, answers, boxes, dispatcher rounds, the count of `Done` | the same |
| `MpiLoad`, `MpiPing` | both over MPI (`mpi.cpp`), extending the two above: one mutex for all calls, `Iprobe` loops, a queue of `Isend` requests | the mutex and the requests in addition |
| `LoadProofs` | proofs: no package of `Load` and `MpiLoad` is lost or worked on twice, nobody ends early | |
| `Options` | the words of the command line, what client and executives make of them, the lines of the host file, the loops over the hosts (`meta.cpp`, `demo.cpp`) | settings, what every machine was told |
| `Settings` | `Meta::block` and the constructor that reads it, with the byte that does not fit; nothing calls them (`demo.cpp:58` is a comment) | the block, place and rest of the view |
| `Service` | `start`, `restart`, `status` and the shutdowns with `daemonize` and `exit` | the daemon of every host, its descriptors, the command under way |

`Load` and `Ping` take the queue as atomic; `LockedQueue` is shown to implement
`ChunkQueue` by a refinement mapping (`Abstract` in `LockedQueue`: a call takes
effect when the chunk is put or taken under the lock, and a `pop` that leaves by
the flag `_empty` takes effect when it reads the flag). The flag is a plain
`bool` read without the lock; the model reads it in one step and in the order of
the program, which is what the compiler and an x86 processor produce for it.
A worker's reading of the set and its insertion into its own accessor are one
step, since nobody else sees the accessor. A send blocks while the line is full
and expires after five seconds (`Expire`), which is only let happen when the
receiver has stopped reading: a receiver that reads frees the line in time.

### The communicator, the sockets and the processes

| module | models | state |
|---|---|---|
| `Mutexes` | the mutexes of `probe`, `sendAll`, `sendTo` and `receive`, by several threads and in two processes | mutexes, where every thread is, what is on the lines |
| `MutexesProofs` | proofs: no circle of waiting threads, nothing taken, nothing mixed where all writers take the mutex | |
| `Framing` | messages with header and segments on a stream, receivers that expect other segments, lines cut in between (`brick-net.h`) | the bytes on the way, header and segments |
| `Storage` | the memory of messages: `OutputMessage`, `InputMessage`, allocators and applicators | blocks and who owns them |
| `Redirection` | `Redirector`, `redirectOutput`, `processOutput`: what the program prints, on its way to the client; a message is a header and pieces, and a send that expires leaves a part of it | pipes, two threads, the line as a stream |
| `ChildProcess` | handles of children, their pipes, `wait`, `running`, `kill` (`brick-process.h`), and the proofs about them | handles, processes, descriptors |
| `PipeThrough` | data that is sent through a command, with the writing thread and reads by chunk or line | pipes, threads, how often the writer's end was closed |
| `TestRunner` | the runner of shell tests, its journal, timeouts, signals (`brick-shelltest.h`) | journal, processes, what is on the disk |
| `TestOutput` | the way of a test's output and of the watched files | sockets, buffers |
| `UnitTests` | the driver of unit tests (`brick-unittest.h`) | cases and results |
| `Rpc` | marshalling of calls and results (`brick-rpc.h`) | words on the way |
| `Mapping` | `MMap` handles, copied and moved, mappings with their size and protection, and descriptors (`brick-mmap.h`) | handles, mappings, open files |

### The data structures and algorithms

| module | models |
|---|---|
| `ConcurrentHashSet` | `_ConcurrentHashSet` with `FastAtomicCell`, cell by cell: insertion, search, growth that all threads help with, rows freed by the last reader |
| `HashSet` | the sequential table with its probing and growth |
| `Lexing`, `Parsing` | the window of the lexer over blocks of text, with an iterator that a growing window invalidates; the context of a parser, alternatives and failures (`brick-parse.h`) |
| `CommandLine` | engines and parsers that take words from one list (`brick-commandline.h`) |
| `Table` | a table with its indexes (`brick-db.h`) |
| `Union`, `SmallVector` | discriminator and object, size and elements, when a constructor raises (`brick-types.h`, `brick-data.h`) |
| `Query` | lazy iterators that keep their collection (`brick-query.h`) |
| `Splitter` | iterators that share a `Regexp` (`brick-string.h`), used by turns although a comment there allows one at a time |
| `BitTuple`, `BitLock` | fields packed in words, `bitcopy`, and a lock in one bit (`brick-bitlevel.h`) |

Data is again reduced to what matters: a package is a point of a small grid, a
value of the hash set is a number with a hash of a few values, a text has
letters, spaces and newlines, a message has segments of one or two sizes.
The hash sets scale constants of the code down to the instance:
the length of a row, the collisions after which a table grows, the 2^32 of
unsigned subtraction (`Modulus`).

Each module has its own types, safety properties, and what has to happen, with a
comment; three modules run instances of them:

* `MCProgram` : what the program does between its start and its end
  (`ProgramSpec`), and `LockedQueue`, `Load`, `Ping`, `MpiLoad`, `MpiPing`
  (`BenchmarksSpec`), a run for each;
* `MCProcesses` : what has to come to its end;
* `MCBricks` : data structures and algorithms.

These instances are independent. A behaviour of such a module is one of one
*part*: the variable `part`, which never changes, says of which, and `s1`, `s2`, ... are the
variables of the part's module in the order of their declaration (the other ones
are empty). So the parts share a run without multiplying each other's states.
A property of the run is the conjunction over the parts of the properties of
their modules; the tables below list them.

## The runs

### The protocol (`MCSession`)

| run | instance | what it shows |
|---|---|---|
| `orderly` | 3 machines, 1 client, 1 data line, no failures | `TypeOK`, `Addressed`, `GroupLinked`, `WorldIsGroup`, `DoneByAll`, and of steps `OnlyByLeave` |
| `mishaps` | 2 machines, 1 client, 1 data line, any 2 failures of 12 kinds | `Supervised`, `StatesKept`, `GroupLinked`, `Barrier`, and of steps `FreeWhenLeft` |
| `contend` | 2 machines, 2 clients, one crash | `OneMaster`, `InStep` |
| `returns` | 2 machines, 1 client, any 1 failure, among them a signal that interrupts a system call | `CallsReturn`, `FreedOrLeaving` under fairness |
| `live` | 2 machines, 1 client, a signal that interrupts no system call, a status query or a shutdown | `MachinesFreed` under fairness |
| `stuck`, `again`, `ranks` | 1 or 2 machines | the findings below |

The properties, each stated in `Session` with a comment:

* `GroupLinked`: an established group is completely connected, and both ends file
  the line under the other's rank and the same channel;
* `WorldIsGroup`: ranks are 1 to n and everybody was told n;
* `Addressed`: the line an executive finds for a rank is the line to that rank;
* `Barrier`: when somebody has entered the program, everybody has agreed to run;
* `DoneByAll`: a client dissolves a group when all its members are done;
* `InStep`: a client never reads an answer to another question (it fails as soon
  as an answer may come after the timeout, so it is checked without timeouts);
* `OneMaster`: a machine serves one client;
* `Supervised`: the main process knows exactly the child it has to bury, and no
  executive outlives its main process;
* `StatesKept`: main process and executive divide the states among themselves;
* `OnlyByLeave`, `FreeWhenLeft`: the end of an executive;
* `CallsReturn`, `FreedOrLeaving`: calls return, and machines become Free again or
  their executive is stuck in `Leaving`, which any failure of the client inside
  `dissolve` may bring about, also a signal that interrupts its wait;
* `MachinesFreed`: machines become Free again, where the client does not fail there.

### The benchmarks (`MCProgram`, run `benchmarks`)

| part | instance |
|---|---|
| `queue` | two threads with three calls each, two chunks |
| `load` | two machines, one worker each, a grid of nine packages, lines of one message |
| `crowded` | two workers of a machine on a grid of four |
| `lag` | chunks that hardly ever fill up, so that only flushing delivers them |
| `dedicated` | three machines whose workers have lines of their own |
| `ping`, `pingDedicated`, `pingTwice` | two machines with two workers each of which asks twice, so that a box has two open questions; three with one worker; two whose worker asks twice on a line of its own |
| `mpiLoad`, `mpiPing` | two machines over MPI |

| property | of the modules | says |
|---|---|---|
| `Explored` | `WorkedOnce`, `NoneLost`, `NotEarly` | every package is worked once by its owner, none is lost between accessor, queue and line, nobody stops before the last one |
| `Answered` | `OneAnswer` (`Expected` over MPI), `NothingLeft` | the awaited answer is in one place and the right one; who returned had nothing left to answer |
| `Atomic` | `LockedQueue` => `ChunkQueue` | refinement, as an action property of the mapped variables |
| `Ends` | | every call of the queue returns, every computation ends on all machines |

### What has to come to its end (`MCProcesses`, run `processes`)

| part | instance |
|---|---|
| `hashset` | two threads, three calls, two values of one hash; the last call makes the table grow for the second time |
| `framing` | two messages of up to two segments, one may be cut; ends where the receiver raises |
| `redirection` | three writes to pipes that hold two, a child that keeps the descriptor |
| `service` | three commands to two hosts |
| `testrunner`, `interrupted` | two tests: four runs with three crashes of the machine; two runs with a crash and two signals |
| `chunks`, `pieces`, `lines` | data through pipes that are shorter than it: in one call, in two, by lines |
| `splitter` | two iterators on texts of three characters |
| `bittuple`, `bitlock` | three fields in words of two bits; three threads and two fields beside the lock |

| property | of the modules | says |
|---|---|---|
| `Arrives` | `Framing`: `Delivered`, `InStep`; `Redirection`: `BeforeDone`; `PipeThrough`: `AllThrough`, `ClosedLast` | a stream arrives whole, in order and before what announces its end; the end of a pipe is not closed before all data went through (it may be closed twice) |
| `Restarts` | `TestRunner`: `AtMostTwice`, `Journaled`, `Honest`; `Service`: `Reachable`, `Background` | what is started again after a crash is what the journal says; a run that reports success leaves no test that failed or was left out, except one that was begun twice without a result; a daemon nobody ended answers |
| `Untouched` | `Splitter`: `Separated`, `Complete`; `BitTuple`: `Kept`, `Read`; `BitLock`: `Exclusive`, `NothingLost` | who works on a part of a shared place leaves the rest alone |
| `PassedKept` | of steps | a test that passed stays so in the journal |
| `Ends` | | what was begun in any part comes to its end |

### The program (`MCProgram`, run `program`)

| part | instance |
|---|---|
| `options` | up to four words out of twelve, two machines, a host file whose last line may lack its newline |
| `mutexes` | two threads, one call each to each other and one peer |
| `careless` | the same with redirected output, which takes no write mutex, and `exit` from an applicator |
| `storage` | messages of up to two segments, three blocks |
| `settings` | two hosts, strings of up to three characters |
| `redirection` | a client that is slow or goes away |
| `testoutput`, `unittests` | two pieces of output and of the watched file; two cases |
| `children`, `polling` | two handles with one stream; one handle with three that is asked whether it runs |
| `rpc` | three calls of four methods |
| `commandline` | three words for three parsers |

| property | of the modules | says |
|---|---|---|
| `Settled` | `Options`: `LastCommandWins`, `Agreed`, `AllOrNone`, `Visited`, `StartsDaemon`; `CommandLine`: `NothingLost`, `ValueFollows`, `NoSwitchLeft`, `HigherFirst`, `CallerActs` | what was typed, as far as the code knows the word, is what is done, on all machines of the finished lines of the host file or on none |
| `Locked` | `Mutexes`: `NoCircle`, `Peeked`, `Contiguous`, `SameOrder` (of `careless`: `Peeked`, `Contiguous`) | threads do not block each other for ever, take no message from each other and do not mix theirs: on lines between executives never, on the client's line as long as all writers take the mutex |
| `Stored` | `Storage`: `RoomForAll`, `NoMisuse`, `AppliedInOrder`, `GivenBack`; `Settings`: `ReadBack`, `Overrun` | memory of messages; settings are read as they were written, but for what lies behind the block, and that is exactly the size of one bool |
| `Shown` | `Redirection`: `InOrder`; `TestOutput`: `Kept`, `Shown`, `WatchedOnce`; `UnitTests`: `EachOnce`, `Honest` | output is shown once and in order until a message is cut short, results are those of the tests |
| `Remote` | `Rpc`: `Faithful`, `OwnResults` | remote calls are those that were made |
| `Reaped` | `ChildProcess`: `Separate`, `NoneLeft` | no descriptor and no process is left behind |
| `Meant` | of steps: `Storage`: `Carried`; `ChildProcess`: `OwnStatus` | values are those at the moment of sending; `wait` returns the own child's status |

### The bricks (`MCBricks`, run `bricks`)

| part | instance |
|---|---|
| `sequential` | six values, three of a kind in one place |
| `concurrent`, `mixed` | two threads: four calls with two values, three calls with three, of one or two hashes |
| `lexing`, `parsing` | texts of four characters in blocks of one to three; three tokens, two attempts |
| `table` | three rows, two indexes, a column without |
| `union`, `smallvector` | two objects each, two types or values, a constructor that may raise |
| `query` | two iterators over three places of up to two elements |
| `mapping` | two handles that are copied, moved and mapped again, files of up to two pages, two protections |

| property | of the modules | says |
|---|---|---|
| `Hashed` | `HashSet`: `IsSet`, `NoAssertion`; `ConcurrentHashSet`: `Truthful`, `Alive`, `NoError`, `NoLeak` | sets hold what was inserted through growth and races, rows are freed once and by the last |
| `Parsed` | `Lexing`: `Split`, `Munched`; `Parsing`: `Sound`, `Reported`, `AnyOrder` | tokens do not depend on blocks, as long as no iterator of the window went stale; an alternative that failed leaves no trace |
| `Consistent` | `Table`: `InStep`, `UniqueKeys`, `Selected`; `Union`: `Agrees`, `Alone`, `Ordered`, `OrderedValues`; `SmallVector`: `Same`, `NoneElse`, `BlocksOwned`; `Query`: `NoDangling`, `InOrder`; `Mapping`: `MappedWhileUsed`, `DescriptorsOwned`, `SizeRight` | two places that speak of the same thing agree, also after a failure; a mapping handle that raised or was moved from is excepted |
| `Changes` | of steps: `ConcurrentHashSet`: `Grows`; `Table`: `AllOrNothing`; `Union`: `CopyAndSwap`; `Mapping`: `ClosedWithLast` | what a step may do to them |

### Bounds

In the protocol, `Lines` is the pool of connections; a line is used again when
nobody holds either end. Every action that may open one asks for a free one
(`Room`, `FreeLine`); in the passing runs a free line always exists, so this
guard cuts nothing off. `MaxRank` bounds the ranks and the world size of a
client's `add`: in `orderly` a client may add all three machines, or two of them
after it released one. `MaxCalls` bounds `run` and `removeAll` together;
`MaxMishaps` bounds the failures. Two machines have all the pairwise
interactions of the protocol (a machine only ever talks to one peer at a time),
three are needed for the order of `ConnectTo` requests and for a `Join` that
arrives while the machine itself connects. One data line besides the master line
is enough to see a line that is filed wrongly; runs about something else use
none. Two failures are enough for a failure during the handling of a failure.

In `Load`, `Capacity` is what a line takes before a send blocks. One message is
the least, and shows every wait of a sender; the part `dedicated` has room for
all packages, for with less its machines may block each other (see below).
`WorkLoad` gives the grid; three by three is the first one with packages that
are reached on two ways and that travel to and fro. `FlushAfter` stands for the
100 empty rounds of the dispatcher. In `Ping` two questions are needed to see an
answer to the one before. In the parts of the hash set two values of one hash
collide in every row, and a third call is needed for a table to grow while
another thread is still in the growth before. Three
crashes of the machine let one test take it down twice and another one once.
Text, words and pieces have the length at which each
loop turns at least twice and passes its boundary at least once.

### Fairness

Protocol. `Serve` is weakly fair for every process: the operating system
schedules it and `poll` reports what is ready. `FinishMain` is weakly fair: the
user's program ends. A client's call goes on (`ClientStep`), and its user
destroys the client at last (`Destroy`). No fairness is assumed of failures, nor
of calls. `BusySpec` states the same with the enabling conditions written out,
because TLC is much slower with ENABLED; it assumes no more than `FairSpec`.

The runs `benchmarks` and `processes` assume weak fairness of every thread and every
process of a part (the `Process1`, `Process2`, ... of their modules, one of each
part at a time), nothing stronger: the system schedules them, what is written to
a stream arrives, a send that nobody takes expires. There is none of crashes,
signals and new calls. A thread that asks for a lock has no strong fairness;
that it gets it follows because the others make a bounded number of calls. In
`BitLock` this is the number of rounds, and for a program that takes and leaves
the lock without end the code promises nothing. The runs `program` and `bricks`
check safety only. The parts of the four runs end when their calls are made
and their programs have returned, so TLC does not look for deadlocks there: `Ends`
and, of the mutexes, `NoCircle` say what must not be stuck. In the protocol it
does.

## What is proved

All theorems hold for every set of machines, clients, lines, threads and chunks,
every bound and every kind of failure. The assumptions are those on the
constants: `WireAssumption`, `ClientAssumption` and `SessionAssumption` (lines are
positive numbers, bounds are natural numbers, machines and clients are different
things), `QueueConstants` for the queue, `LoadConstants` for the benchmark,
`MutexesConstants` for the mutexes and `ChildProcessConstants` for the children, which
say only what kind of thing each constant is. A hypothesis beyond these is named below.

| theorem | module | says |
|---|---|---|
| `TypeCorrect` | `SessionProofs` | `Spec => []TypeOK` |
| `SessionWhole` | `SessionProofs` | `Spec => []CInv`, the inductive invariant of the protocol |
| `StatesStay` | `SessionProofs` | `Spec => []StatesKept` |
| `SupervisionStays` | `SessionProofs` | `Spec => []Supervised` |
| `OneMasterStays` | `MasterProofs` | `Spec => []OneMaster` |
| `QueueTyped` | `LockedQueueProofs` | types and mutual exclusion of the queue's threads |
| `QueueAtomic` | `LockedQueueProofs` | `Spec => Atomic`: `LockedQueue` implements `ChunkQueue` |
| `AtomicStays` | `MCProgram` | `BenchmarksSpec => Atomic`, the property of the run `benchmarks` |
| `OnlyOnce` | `LoadProofs` | `Spec => []WorkedOnce` |
| `NeverLost` | `LoadProofs` | `Spec => []NoneLost` |
| `InGoodTime` | `LoadProofs` | `Spec => []NotEarly`, if machines have workers and lines of their own have room |
| `MpiInGoodTime` | `LoadProofs` | the three over MPI: `MpiSpec => [](WorkedOnce /\ NoneLost /\ NotEarly)`, under the same hypotheses |
| `ExploredStays` | `MCProgram` | `BenchmarksSpec => []Explored`, the property of the run `benchmarks` |
| `NeverInCircle` | `MutexesProofs` | `Spec => []NoCircle`, if nobody calls `exit` from an applicator |
| `NeverTaken` | `MutexesProofs` | `Spec => [](Peeked /\ SameOrder)` |
| `NeverMixed` | `MutexesProofs` | `Spec => []Contiguous`: on lines between executives always, on the client's if all writers take the mutex (`Exclusive`) |
| `LockedStays` | `MCProgram` | `ProgramSpec => []Locked`, the property of the run `program` |
| `NoChildLeft` | `ChildProcess` | `Spec => [](Separate /\ NoneLeft)` |
| `StatusIsOwn` | `ChildProcess` | `Spec => OwnStatus`, if nobody uses `running` |
| `ReapedStays` | `MCProgram` | `ProgramSpec => []Reaped`, the property of the run `program` |

`AtomicStays`, `ExploredStays`, `LockedStays` and `ReapedStays` carry the general theorems
over to the instances that TLC checks: the constants of the parts fulfil the assumptions, the steps
of a part are those of its module, and no other part touches its variables.

### The protocol

The proofs go bottom up, one module above the other: a lemma for every operation
of `Wire`, one for every handler and call, one for every action, the cases of
`Next`, and then the theorem.

**Types** (`DaemonProofs`, `SessionProofs`). The type alone is not inductive: the
watchdog resets the machines whose names the client filed, so every slave must
have a name. `IInv` is the type with this (`Named`).

**Main process and executive** (`DaemonProofs`: `Bonds`). `Supervised` has to be
strengthened by `MainOk` and `ExecOk`: a main process that waits for the death of
its child does not supervise, it never blocks in `run` or `leave`, never runs a
program and never quits by itself, and a dead process waits for nothing. This
holds for any content of the lines, so it covers clients that do not follow the
protocol, with one exception: `prepare()` accepts the state `FormingGroup`, and a
main process that got into `Leaving` and was reset could fork in its last round
and quit before its child does. That nobody sends it this message is
`StatesKept`, which depends on what the client does.

**The lines** (`DaemonProofs`: `Orderly`). So it has to be known what can arrive
where. A daemon uses only ends it holds; a connection that waits to be accepted
is used by nobody, the clients use other lines, and nothing but its first
message has arrived; `Enslave` is only said there, `Join` and `DataLine` only by
machines. A main process that serves a client whose group is not formed yet has
one line to a client, on which nothing arrives but `Peers`, `ConnectTo`,
`Grouped` and `Disconnect` and on which it said nothing but `OK` and `Refuse`; all
its other lines lead to machines. A step of a daemon keeps this and the
conversations of all other machines with their clients, and continues its own by
one request taken up, agreed to, declined, or one answer (`Onward`).

**The conversation** (`SessionProofs`: `Sound`, `Talks`, together `Whole`). A
client after a timeout goes on with answers that are still on their way, so the
requests on the line of a forming main process are not those of the present call
only. What keeps `PrepareToLeave` away is that such a client fails: while it asks
`Peers` there is at most one answer outstanding or one of the first two is not
`OK` (`Loose`); who agreed to `Peers` owes no answer, or the next one is not `OK`
(`Joined`); and so on by phase, until in `group` the last outstanding request is
`Grouped` (`Grouping`), after which the main process forms no group any more. The
invariant `CInv` is the type, the bonds, the lines and these conversations;
`StatesKept` and `Supervised` follow from it.

**One master** (`MasterProofs`: `Served`, `Manned`, together `MInv`). The masters
of a machine are the ends of clients' lines that its processes hold and that do
not wait in the backlog. To prove that there is at most one, it must be known
that a machine whose main process is `Free` has none when it agrees to `Enslave`:
between two rounds a main process holds only what it uses and its backlog
(`Kempt`), a dead executive holds nothing, and a daemon that is `Supervising`
refuses. The ends a client knows (`Clues`) lead to the machine it filed them
under (`Staid`).

### The queue

`QueueInv`: the thread between `lock` and `unlock` is the one that holds the lock;
the flag `_empty`, which `pop` reads without the lock, is set only while nothing
can be popped, where a chunk that was appended but not announced does not count;
a thread that pushes has its chunk and one that pops has none. With it every step
of a thread is a step of `ChunkQueue` or changes none of its variables.

### The load benchmark

`LoadInv` holds for both variants, any grid, machines, workers, capacities and sizes of
chunks. It says of every machine

* `Kept`: the chunks of its queue and the two of every accessor are disjoint and each
  without repetition; they and the packages already taken are what the set has seen
  (and the first package). Of this `WorkedOnce` and `NoneLost` are the parts a reader
  asks for; that accessors are disjoint from each other has to be carried along,
  because a flush moves one into the queue;
* `Handy`: what a worker has in hand after it took a package are successors of this
  package, and what it received are packages of its machine;
* `AllWired`: on a line are packages of the machine at its end and, on the line of the
  dispatcher, `Done`;
* `Dispatching`: a machine leaves `run` only after its dispatcher's last round, and
  this one only ends when the machine is done;
* `InTime`: as soon as one machine is done, or one of its workers ended, or somebody
  tells the others, the last package was generated by somebody (`Announced`, of which
  `NotEarly` is the part for a machine that returned).

`InTime` is where the exception of a worker matters: when its send times out it ends as
if it had finished. In the variant Shared this takes a peer that stopped reading, which
is one that is done. In the variant Dedicated a worker may wait for one that itself
waits to send, so it needs `Roomy`: a line has room for as many messages as the grid has
steps. That there are never more is `AllTraced`: every package on a line came from a
step of its own of the grid, which the machine took (`Traced` names it), so a line that
is full has had all of them. Without `Roomy` the property is false (see the
observations); the instance with three machines fulfils it, which TLC evaluates as an
assumption of `MCProgram`.

### The mutexes

`NoCircle` needs to know which mutexes a thread has and which it asks for.
`MutexInv` says so thread by thread (`Sound`): between two calls none; in a probe the
read mutexes of the channels it went through (`Reads`, `ReadsOnly`), in a send the
write mutexes of those before the present one (`Writes`, `WritesOnly`), and the
channels of a call are in the order of the cache. So with every mutex a thread waits
for goes a number (first the read mutexes, then the write mutexes, each by their
channels), which is greater than those of the mutexes it has. In a set of threads
that wait for each other the one that waits for the smallest mutex (`Smallest`)
has a greater one, so there is no such set. A thread that calls `exit` from an
applicator asks for read mutexes while it has one; a hypothesis excludes it, and in
the part `careless` there are circles.

`Peeked` holds because the thread has the read mutex from `peek` to `receive`
(`Handed`). `SameOrder` and `Contiguous` are about what was sent: all parts of a message
that is under way were sent by the thread that has the mutexes (`Sending`,
`LastHalf`), its messages carry the number of the call (`Numbered`), and of two
messages to all one came first on every line (`Ordered`), because the write mutexes
of all lines are held until both parts are sent. `Contiguous` speaks of the lines where
everybody who writes takes the write mutex (`Exclusive`). These are the lines to the other
executives, whatever calls are made; `runMain` always redirects the output, so for a
running executive they are all that can be promised. The client's line is one of them
only where neither output nor the `Done` of an `exit` from an applicator goes there.

### Children

`NoneLeft` follows from `Belongs`: every process that is not somebody else's belongs to
a handle which has its number and is `started`. `Separate` needs to know in
addition which ends of the pipes are open in the caller (`Keeps`): only those of the
handles' own streams, once they are set up. `OwnStatus` needs that the number a handle
keeps still is the one of its child: true as long as only `wait` buries it. `running`
buries it and keeps the number (see the observations), hence the hypothesis.

### What is only model-checked, and why

* `GroupLinked`, `WorldIsGroup`, `InStep`, `DoneByAll`, `Addressed`,
  `OnlyByLeave` and `FreeWhenLeft` are not true of every instance: each needs the
  bounds of its run. With timeouts an answer comes late and is taken for another
  one (`InStep`); with a second call, a set of ranks with holes or a member that
  crashes, the counts are wrong (`WorldIsGroup`, `DoneByAll`, `Addressed`, see the
  findings); a crash or a reset ends an executive too (`OnlyByLeave`); with a
  second client the machine may have been enslaved again before the first one
  reads the answer to `Leave` (`FreeWhenLeft`); and with a second client a machine
  of one group may join a machine of another (`GroupLinked`, see the
  observations). A theorem would need these restrictions as hypotheses.
* `Barrier` is believed to hold in general. It needs the conversations of the
  executives with their client up to `Start`, as `Whole` has those of the main
  processes.
* Liveness under fairness (`CallsReturn`, `FreedOrLeaving`, `MachinesFreed`,
  `Ends`): the prover cannot handle ENABLED.
* `Answered`: every thread, box and line of `Ping` takes part in it, and its numbers
  count the questions that are still open; what has to be inductive is written down in
  the comments of `Ping` and checked by TLC.
* `Settled`, `Stored`, `Shown`, `Remote`, `Arrives`, `Restarts` and `Untouched`, like
  `Hashed`, `Parsed` and `Consistent`, are conjunctions over many small modules. What
  their data structures, parsers and streams compute needs induction over data,
  which the provers do not do.

## Findings

Three runs show a property that the code violates:

1. `again`: a second `run` of the same client is dissolved after the first
   `Done` (`client.cpp:452`, the counter is only set back by `reset`).
2. `ranks`: after `removeAll` or `dissolve` the rank counter and the world size
   go on from where they were (`client.cpp:160`, `265`).
3. `stuck`: a client that ends between `PrepareToLeave` and `Leave` leaves an
   executive and its main process behind forever (`daemon.cpp:290`).

### Observations

The following was met while the modules were written. No run is about it; the
parts of the runs are chosen, or their properties stated, so that it does not
hide anything else.

Protocol and benchmarks:

* The 100 ms of `waitForChild` may kill an executive before it answered `Leave`;
  the exception in the client leaves the others in `Leaving` (`daemon.cpp:721`).
  A signal that interrupts the client's wait inside `dissolve` does the same: a
  receive with a timeout is not restarted, and `errnoHandler` raises for `EINTR`
  (`brick-net.h:665-674`, `718-732`). `MachinesFreed` is therefore checked with
  signals outside of system calls, and `FreedOrLeaving` with both kinds.
* `removeAll` does not await the answers to `Disconnect` (`client.cpp:157`);
  `text.md:806` says it does. Nothing ever sets the state `Running`
  (`daemon.cpp:563`); `text.md:820` says `Run` does.
* `join` accepts any machine, and the table keeps what it has
  (`daemon.cpp:443`, `connections.h:233`). When a member of a group is reset and
  enslaved by another client, a machine of its old group that was already told to
  connect to it joins the new group, and takes the place of the member with the
  same rank, whose own `Join` is answered `OK` and lost. This takes three machines,
  two clients and a reset; `GroupLinked` is checked with one client.
* In a group whose ranks have holes `findChannel` delivers a message for a rank
  that does not exist to the next one (`daemon.h:128`; `text.md:955` promises
  `false`). `Addressed` is stated for existing ranks.
* Dedicated workers of the load benchmark send with blocking sockets from the
  loop that also receives. Two with full lines wait for each other until both
  sends throw; a worker that threw ends without `done()` (`worker.hpp:206`), and
  the computation ends before the last package (`workerLoad.hpp:161`).
* Output is sent without the write mutex of the client's channel
  (`daemon.cpp:795`), so a large one and an answer of the protocol may mix; and
  `exit` from the applicator of a probe waits for a mutex of its own thread
  (`daemon.cpp:58`). This is the part `careless`, in which `NoCircle` is not
  asserted and `Contiguous` leaves the client's line out.
* A redirected message whose send expires after a part of it was written leaves
  that part on the line (`brick-net.h:614-629`); the exception is dropped and the
  line stays in use (`brick-net.h:1036-1056`). The client takes what follows for
  the rest of the message, and if that is `Done`, waits for it for ever. `InOrder`
  speaks of the time before, and of what was sent whole.
* What a program printed and did not flush when it returns is not sent to the
  client (`brick-net.h:1046`). When the client goes away nobody reads the pipe
  any more and keeps it open: a program that prints more than it holds
  waits for ever (`brick-net.h:1066`).
* `receive` takes a header that came in part for a whole one
  (`brick-net.h:595`), and one of an empty message leaves the prepared variables
  as they were. `setTimeout` stores the rest of the
  milliseconds as microseconds (`brick-net.h:668`). A worker to whom `receive`
  raises leaves the line open with the rest of the message on it
  (`worker.hpp:206`); `Framing` ends at the exception, as the daemon does, which
  resets.

Command line and services:

* `long` and `dedicated` count only after the algorithm they change, and
  `dedicated` not after `long` (`meta.cpp:180`, `186`). `forceShutdown`, which
  `text/appendix.md:58` documents, is an unknown word, because the code spells it
  `forceshutdown` (`meta.cpp:163`). The last line of the host file
  is dropped when no newline ends it (`meta.cpp:232`), where
  `text/appendix.md:37` asks for one address per line. `Options` has both the word
  and the file, and its properties speak of known words and finished lines.
* `Meta::block` leaves the size of `detach` out of the block and writes one byte
  behind it (`meta.cpp:18-43`, `237-266`): the end of the last host name. `Overrun`
  says that it is this byte and no more. No program calls it.
* `restart` starts daemons while the old ones still listen: the new one cannot
  bind and ends with status 0, then the old one ends (`demo.cpp:218`).

Bricks:

* `running()` reaps a child and `wait()` then raises, also in the destructor
  (`brick-process.h:360`); a second `write()` to a pipe ends the program
  (`brick-process.h:661`); a `Thread` that is moved while it runs keeps its old
  address. When `close()` finds that the writing thread has nothing left, but has not ended
  yet, both close the descriptor of the pipe (`brick-process.h:636-647`,
  `687-692`); the second one may meet a descriptor of somebody else.
* A test that was begun twice without a result counts as done, and the run as a
  success (`brick-shelltest.h:254-258`, `1003`).
* A comment forbids a second iteration of a `Splitter` at a given time
  (`brick-string.h:428`); the code matches again in `increment()` and needs no such
  rule, as long as each call of an iterator is finished before the next.
* A method of two arguments is called with them swapped or not at all
  (`brick-rpc.h:311`); `Binary` in `Rpc` is FALSE for this reason.
* A table of fewer than 100 cells grows at every insertion
  (`brick-hashset.h:393`); a value whose hash is 0 is lost in `FastCell`
  (`brick-hashset.h:76`, the program uses `FastAtomicCell`).
* A text of a multiple of 1023 characters fails an assertion of the lexer
  (`brick-parse.h:222`); `fail()` keeps failures right of the new one
  (`brick-parse.h:386`). `match` of a pair of patterns keeps an iterator into a
  deque while `push_back` makes it invalid (`brick-parse.h:207-217`, `110`): from
  there on it may find the end, a later one or none, and `Lexing` allows them all.
* Known switches after `--` are parsed (`brick-commandline.h:925`). With a width
  of 0, from a `COLUMNS` that is no number, help loops (`brick-string.h:272`);
  words after a newline or leading spaces may be split (`brick-string.h:271`).
* Two empty unions compare an object neither has (`brick-types.h:659`); unions
  have no destructor. A `SmallVector` counts an element before it is constructed.
  Copies of a `Flatten` iterator over `Map` are not equal after a step
  (`brick-query.h:287`), and `average()` cannot be instantiated.
* `update()` of a table always returns false, and `begin()` of a condition that
  no row meets does not hold a row. A failed mapping, or one opened for writing
  only, keeps its descriptor; a mapping handle that was moved from keeps its size
  without a mapping (`brick-mmap.h:70-163`). The lock in a bit is released by exchanging the word for
  one computed before (`brick-bitlevel.h:342`): a change of its other bits by
  someone without the lock gets lost in between.

## Not modelled, and the plan

Left out for good: the logger (pure output); the measurement scripts, the thesis
and the presentation; the addresses `connect` tries and the socket options, which
`Wire` takes as one step that succeeds or not; of `brick-shmem.h` the threads'
wrapper, `Fifo`, `StartDetector` and `ApproximateCounter`, of `brick-db.h` the
shared mutex and the connectors, and of `brick-query.h` the aggregates, none of
which the program uses; `brick-fs.h`, the plots, the benchmark driver and the
templates that compute at compile time, which keep no state between calls or
wrap one system call each. `PROJECT.json` says for every component what it
leaves out.

Left out inside what is modelled: a signal during `wait4` (`brick-process.h:401`);
a journal whose last line is torn (whole lines are lost, as with a crash before a
`fsync`); `push_back` of an element of the same vector (`brick-data.h:298`); fields
of a type narrower than the 32 bits that `set` loads (`brick-bitlevel.h:246`); an
address that cannot be read after a slave was numbered (`client.cpp:130`); the
`Done` that an `exit` sends in `Mutexes`.

What would come next:

1. the conversations of the executives, for `Barrier` in general;
2. `Ping`: that the awaited answer is in one place (`Answered`) for every number
   of machines and workers;
3. the main of the benchmarks inside `Session`, whose executives return only
   when the group's work is done.
