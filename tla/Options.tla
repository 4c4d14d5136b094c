------------------------------- MODULE Options ------------------------------
(***************************************************************************)
(* The command line of the demonstration program (Meta) and what main and  *)
(* mainD do with it.  The client hands its words on to the executives,     *)
(* which parse them again, so both have to come to the same settings; the  *)
(* daemons a client starts over ssh get words of their own.                *)
(***************************************************************************)
EXTENDS Integers, Sequences, FiniteSets, SequencesExt

CONSTANTS Words,    \* the words that may be typed
          MaxWords, \* bound: how many
          Machines, \* the machines of the host file, which is called "hosts"
          Port      \* the default port

OptionsConstants == MaxWords \in Nat /\ Machines # {}

VARIABLES words,     \* the words after the program's name
          ended,     \* the last line of the host file ends with a newline
          pc,        \* what the client process does
          todo,      \* the machines the loop over the hosts has yet to visit
          done,      \* those it has visited
          taken,     \* the slaves of the client
          problems,  \* run: some machine could not be added
          worker,    \* what the executives run: their settings, or Nobody
          started    \* daemons started over ssh: their settings, or Nobody

vars == <<words, ended, pc, todo, done, taken, problems, worker, started>>

(* Word |-> what it selects; each has a short form, left out here.          *)
CommandOf ==
  [start |-> "Start", status |-> "Status", shutdown |-> "Shutdown",
   forceshutdown |-> "ForceShutdown", reset |-> "ForceReset",
   restart |-> "Restart", daemon |-> "Daemon", client |-> "Run"]
Commands == DOMAIN CommandOf

Flags == {"-h", "-n", "-w", "-l", "-s", "-p"}   \* they take the next word
Default ==
  [command |-> "Run", algorithm |-> [test |-> "None", dedicated |-> FALSE, long |-> FALSE],
   threads |-> 1, workLoad |-> 10, selection |-> 1, detach |-> TRUE,
   port |-> Port, logFile |-> "", hosts |-> <<>>,
   on |-> {}, failed |-> FALSE]
Nobody == [Default EXCEPT !.command = "None"]

(* getline is not good() any more when it met the end of the file before a  *)
(* newline: a last line without one is dropped.                             *)
File == SetToSeq(Machines)
Lines(end) == IF end THEN File ELSE Front(File)

Number(w) == w \in {"2", "3"}
stoi(w) == IF w = "2" THEN 2 ELSE 3

(* A word after a flag is its value, whatever it is; stoi raises when there *)
(* is no number and hostFile when there is no file.  An executive ignores   *)
(* the host file, whose lines (here) only the client has.                   *)
Value(m, w, here, ignore) ==
  LET Num == IF Number(w) THEN stoi(w) ELSE 0
      n == [m EXCEPT !.on = {}]
  IN IF "-h" \in m.on THEN IF ignore THEN n
                           ELSE IF w = "hosts" /\ here # <<>> THEN [n EXCEPT !.hosts = @ \o here]
                           ELSE [n EXCEPT !.failed = TRUE]
     ELSE IF ~Number(w) /\ m.on \cap {"-n", "-w", "-s"} # {} THEN [n EXCEPT !.failed = TRUE]
     ELSE IF "-n" \in m.on THEN [n EXCEPT !.threads = Num]
     ELSE IF "-w" \in m.on THEN [n EXCEPT !.workLoad = Num]
     ELSE IF "-l" \in m.on THEN [n EXCEPT !.logFile = w]
     ELSE IF "-s" \in m.on THEN [n EXCEPT !.selection = Num]
     ELSE [n EXCEPT !.port = w]

(* "dedicated" and "long" alter the algorithm chosen before them: long is   *)
(* final, and "shared" alters nothing.                                      *)
Benchmark(m) == m.algorithm.test \in {"load", "ping"}
Option(m, w) ==
  IF w \in Commands THEN [m EXCEPT !.command = CommandOf[w]]
  ELSE IF w \in {"load", "ping", "table"}
    THEN [m EXCEPT !.algorithm = [test |-> w, dedicated |-> FALSE, long |-> FALSE]]
  ELSE IF w = "dedicated" /\ Benchmark(m) /\ ~m.algorithm.long
    THEN [m EXCEPT !.algorithm.dedicated = TRUE]
  ELSE IF w = "long" /\ Benchmark(m) THEN [m EXCEPT !.algorithm.long = TRUE]
  ELSE IF w \in Flags THEN [m EXCEPT !.on = @ \cup {w}]
  ELSE IF w = "--no-detach" THEN [m EXCEPT !.detach = FALSE]
  ELSE m   \* an unknown word

\* mutant: a flag is a flag even where a value is expected
TakeFlag(m, w, here, ignore) ==
  IF m.failed THEN m
  ELSE IF m.on # {} /\ w \notin Flags THEN Value(m, w, here, ignore) ELSE Option(m, w)
Take(m, w, here, ignore) ==
  IF m.failed THEN m ELSE IF m.on # {} THEN Value(m, w, here, ignore) ELSE Option(m, w)
Meta(argv, here, ignore) == FoldLeft(LAMBDA m, w : Take(m, w, here, ignore), Default, argv)

-----------------------------------------------------------------------------
Init ==
  /\ words = <<>> /\ ended \in BOOLEAN
  /\ pc = "shell"
  /\ todo = <<>> /\ done = <<>> /\ taken = {} /\ problems = FALSE
  /\ worker = [h \in Machines |-> Nobody]
  /\ started = [h \in Machines |-> Nobody]

meta == Meta(words, Lines(ended), FALSE)

Type(w) ==
  /\ pc = "shell" /\ Len(words) < MaxWords
  /\ words' = Append(words, w)
  /\ UNCHANGED <<ended, pc, todo, done, taken, problems, worker, started>>

(* main: an exception of the parser ends the program; the daemon serves.    *)
Main ==
  /\ pc = "shell"
  /\ pc' = IF meta.failed THEN "end" ELSE meta.command
  /\ todo' = IF meta.failed THEN <<>> ELSE meta.hosts
  /\ UNCHANGED <<words, ended, done, taken, problems, worker, started>>

(* The loops over the hosts.  A command that raises (the machine cannot be  *)
(* reached) is reported and the next host is tried; status does not report  *)
(* a broken connection but ends the program.                                *)
Visit ==
  /\ done' = Append(done, Head(todo))
  /\ todo' = Tail(todo)
  /\ UNCHANGED <<words, ended, worker, started>>
\* mutant: the first machine that raises ends every loop
TellOrDie ==
  /\ pc \in {"Status", "Shutdown", "ForceShutdown", "ForceReset", "Restart"}
  /\ todo # <<>>
  /\ Visit
  /\ \E raises \in BOOLEAN : pc' = IF raises THEN "end" ELSE pc
  /\ UNCHANGED <<taken, problems>>
Tell ==
  /\ pc \in {"Status", "Shutdown", "ForceShutdown", "ForceReset", "Restart"}
  /\ todo # <<>>
  /\ Visit
  /\ \E raises \in BOOLEAN : pc' = IF raises /\ pc = "Status" THEN "end" ELSE pc
  /\ UNCHANGED <<taken, problems>>

(* run: Client::add refuses a name it has and may be refused by the daemon; *)
(* when it raises, the client is destroyed.                                 *)
AddHost ==
  /\ pc = "Run" /\ todo # <<>>
  /\ Visit
  /\ \/ /\ Head(todo) \notin taken
        /\ taken' = taken \cup {Head(todo)}
        /\ UNCHANGED <<pc, problems>>
     \/ problems' = TRUE /\ UNCHANGED <<pc, taken>>
     \/ pc' = "end" /\ taken' = {} /\ UNCHANGED problems

(* start: all machines at once, each by a shell of its own.                 *)
StartDaemons ==
  /\ pc = "Start" \/ (pc = "Restart" /\ todo = <<>>)
  /\ \E S \in SUBSET ToSet(meta.hosts) :
       started' = [h \in Machines |->
                     IF h \in S THEN Meta(<<"daemon", "-l", h, "-p", meta.port>>, <<>>, FALSE)
                     ELSE Nobody]
  /\ pc' = "end"
  /\ UNCHANGED <<words, ended, todo, done, taken, problems, worker>>

(* Client::run refuses to run without slaves.  The executives get the words *)
(* of the client and have as many data lines as its settings have threads.  *)
Run ==
  /\ pc = "Run" /\ todo = <<>>
  /\ pc' = IF problems \/ taken = {} THEN "end" ELSE "computing"
  /\ UNCHANGED <<words, ended, todo, done, taken, problems, worker, started>>

(* mainD in the executive of h: the workers of the algorithm are created;   *)
(* table and an unknown algorithm only print.                               *)
MainD(h) ==
  /\ pc = "computing" /\ h \in taken /\ worker[h] = Nobody
  /\ worker' = [worker EXCEPT ![h] = Meta(words, <<>>, TRUE)]
  /\ UNCHANGED <<words, ended, pc, todo, done, taken, problems, started>>

End ==
  /\ pc \in {"Status", "Shutdown", "ForceShutdown", "ForceReset"} /\ todo = <<>>
  /\ pc' = "end"
  /\ UNCHANGED <<words, ended, todo, done, taken, problems, worker, started>>

Next == (\E w \in Words : Type(w)) \/ Main \/ Tell \/ AddHost \/ StartDaemons \/ Run
        \/ (\E h \in Machines : MainD(h)) \/ End

Spec == Init /\ [][Next]_vars

-----------------------------------------------------------------------------
TypeOK ==
  /\ words \in Seq(Words)
  /\ Len(words) <= MaxWords
  /\ meta.threads \in 1..3 /\ Cardinality(meta.on) <= 1
  /\ ToSet(meta.hosts) \subseteq Machines
  /\ taken \subseteq Machines /\ problems \in BOOLEAN

(* A word is the value of a flag when an odd number of flags precedes it    *)
(* without a gap.                                                           *)
IsValue(i) ==
  \E j \in 1..i : /\ (i - j) % 2 = 1
                  /\ \A k \in j..(i - 1) : words[k] \in Flags
                  /\ j = 1 \/ words[j - 1] \notin Flags
Given(S) == {i \in 1..Len(words) : words[i] \in S /\ ~IsValue(i)}
LastGiven(S) == words[CHOOSE i \in Given(S) : \A j \in Given(S) : j <= i]

(* A command is accepted at any position, and the last one counts; without *)
(* one the program is a client that computes (Meta).  The forceShutdown of  *)
(* text/appendix.md:58 is none of the commands: it is an unknown word, which *)
(* changes nothing, as meta.cpp:163 compares with "forceshutdown".          *)
LastCommandWins ==
  ~meta.failed =>
    meta.command = IF Given(Commands) = {} THEN "Run" ELSE CommandOf[LastGiven(Commands)]

(* Every executive runs what the client asked for: its parser does not      *)
(* raise, and comes to the same algorithm, amount of work and number of     *)
(* threads, for each of which there is a data line (run, mainD).            *)
Agreed ==
  \A h \in Machines : worker[h] # Nobody =>
    /\ ~worker[h].failed
    /\ worker[h] = [meta EXCEPT !.hosts = <<>>]

(* The computation runs on all machines whose line of the host file ends    *)
(* with a newline, or on none: on none too when one of them was refused or  *)
(* is listed twice (run).  A machine on a last line without newline is not  *)
(* among them, though text/appendix.md:37 knows no such exception.          *)
Listed == ToSet(Lines(ended))
AllOrNone ==
  \A h \in Machines : worker[h] # Nobody =>
    taken = Listed /\ Len(meta.hosts) = Cardinality(Listed)

(* Every one of those machines gets the command, as often as the file is    *)
(* named and though one before it raised; a restart starts nobody before    *)
(* all were told to end (shutdown, forceShutdown, forceReset, main).        *)
Told == done = meta.hosts /\ (done # <<>> => ToSet(done) = Listed)
Visited ==
  LET all == meta.command \in {"Shutdown", "ForceShutdown", "ForceReset", "Restart"}
  IN /\ pc = "end" /\ ~meta.failed /\ all => Told
     /\ meta.command = "Restart" /\ started # [h \in Machines |-> Nobody] => Told

(* The words that a client sends over ssh make a daemon of the remote       *)
(* program that listens on the client's port (Client::start).               *)
StartsDaemon ==
  \A h \in Machines : started[h] # Nobody =>
    started[h] = [Default EXCEPT !.command = "Daemon", !.logFile = h, !.port = meta.port]
=============================================================================
