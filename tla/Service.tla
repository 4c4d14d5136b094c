------------------------------- MODULE Service ------------------------------
(***************************************************************************)
(* The life of the daemons under the commands of the demonstration         *)
(* program: start (over ssh), status, shutdown, forceShutdown and restart, *)
(* given one after the other.  What a daemon does for a computation is in  *)
(* Daemon.tla; here it is free or busy.                                    *)
(***************************************************************************)
EXTENDS Integers, Sequences, FiniteSets, SequencesExt

CONSTANTS Hosts,
          MaxRuns,   \* bound: commands given
          ForkFails  \* whether daemonize may find no room for a process

ServiceConstants == MaxRuns \in Nat /\ ForkFails \in BOOLEAN

VARIABLES life,    \* of the daemon of a host
          busy,    \* the hosts that compute
          inbox,   \* what was sent to a daemon and is not read
          fds,     \* the descriptors of a daemon
          launch,  \* the program that ssh runs on a host
          pc,      \* the command that is carried out
          todo,    \* the hosts it has not come to
          waits,   \* the host whose answer it waits for
          said,    \* what the command said of a host
          runs,
          late     \* history: hosts where the old daemon was ending when the new one
                   \* came, or where the new one found no room for a process

daemons == <<life, busy, inbox, fds>>
tool == <<pc, todo, waits, runs>>
vars == <<life, busy, inbox, fds, launch, pc, todo, waits, said, runs, late>>

Lives == {"none", "bound", "loop", "ending"}
Commands == {"start", "status", "shutdown", "forceShutdown", "restart"}
Closed == [f \in 0..4 |-> "closed"]
Nobody == "nobody"
HostList == SetToSeq(Hosts)

Init ==
  /\ life = [h \in Hosts |-> "none"] /\ busy = {}
  /\ inbox = [h \in Hosts |-> <<>>] /\ fds = [h \in Hosts |-> Closed]
  /\ launch = [h \in Hosts |-> "no"]
  /\ pc = "idle" /\ todo = <<>> /\ waits = Nobody /\ runs = 0
  /\ said = [h \in Hosts |-> ""] /\ late = {}

(* Connections are taken from listen() on, in whatever state the daemon is. *)
Listening(h) == life[h] # "none"
Ending(h) == \/ life[h] = "ending"
             \/ \E i \in DOMAIN inbox[h] : inbox[h][i] \in {"shutdown", "forceShutdown"}

-----------------------------------------------------------------------------
(* The tool.  A command begins; restart is forceShutdown of all, then start. *)
Begin(c) ==
  /\ pc = "idle" /\ runs < MaxRuns
  /\ pc' = c /\ runs' = runs + 1
  /\ todo' = IF c = "start" THEN <<>> ELSE HostList
  /\ said' = [h \in Hosts |-> ""]
  /\ launch' = IF c = "start" THEN [h \in Hosts |-> "ssh"] ELSE launch
  /\ late' = {}
  /\ UNCHANGED <<daemons, waits>>

(* A host that cannot be reached: status says so, the others raise and are  *)
(* caught.  An order is sent; forceShutdown does not wait for an answer.    *)
Tell(h) ==
  /\ pc \in {"status", "shutdown", "forceShutdown", "restart"}
  /\ waits = Nobody /\ todo # <<>> /\ h = Head(todo)
  /\ todo' = Tail(todo)
  /\ LET order == IF pc = "restart" THEN "forceShutdown" ELSE pc
     IN IF Listening(h)
        THEN /\ inbox' = [inbox EXCEPT ![h] = Append(@, order)]
             /\ waits' = IF order = "forceShutdown" THEN Nobody ELSE h
             /\ UNCHANGED said
        ELSE /\ said' = [said EXCEPT ![h] = "not available"]
             /\ UNCHANGED <<inbox, waits>>
  /\ UNCHANGED <<life, busy, fds, launch, pc, runs, late>>

Heard ==
  /\ waits # Nobody /\ said[waits] # ""
  /\ waits' = Nobody
  /\ UNCHANGED <<daemons, launch, pc, todo, said, runs, late>>

(* After the loop the tool ends, or starts all hosts at once; then it waits *)
(* for every ssh.                                                           *)
Finish ==
  /\ waits = Nobody /\ todo = <<>>
  /\ \/ /\ pc \in {"status", "shutdown", "forceShutdown"}
        /\ pc' = "idle" /\ UNCHANGED <<launch, said>>
     \/ /\ pc = "restart"
        /\ pc' = "start" /\ launch' = [h \in Hosts |-> "ssh"]
        /\ said' = [h \in Hosts |-> ""]
     \/ /\ pc = "start" /\ \A h \in Hosts : launch[h] = "no"
        /\ pc' = "idle" /\ UNCHANGED <<launch, said>>
  /\ UNCHANGED <<daemons, todo, waits, runs, late>>

-----------------------------------------------------------------------------
(* The program on the host: its exit status is 0 whenever ssh could run it, *)
(* also when it printed an error (main).  The ear gets the first descriptor *)
(* after the standard ones.                                                 *)
Report(h, ok) == /\ said' = [said EXCEPT ![h] = IF ok THEN "started" ELSE "failed"]
                 /\ launch' = [launch EXCEPT ![h] = "no"]
SshFails(h) ==
  /\ launch[h] = "ssh" /\ Report(h, FALSE)
  /\ UNCHANGED <<daemons, tool, late>>
PortTaken(h) ==
  /\ launch[h] = "ssh" /\ Listening(h) /\ Report(h, TRUE)
  /\ late' = IF Ending(h) THEN late \cup {h} ELSE late
  /\ UNCHANGED <<daemons, tool>>
Inherited == [f \in 0..4 |-> IF f < 3 THEN "inherited" ELSE IF f = 3 THEN "ear" ELSE "closed"]
Bind(h) ==
  /\ launch[h] = "ssh" /\ ~Listening(h)
  /\ life' = [life EXCEPT ![h] = "bound"]
  /\ fds' = [fds EXCEPT ![h] = Inherited]
  /\ launch' = [launch EXCEPT ![h] = "bound"]
  /\ UNCHANGED <<busy, inbox, said, tool, late>>

(* daemonize: close the three standard descriptors; then open the null      *)
(* device three times, each time at the lowest free number, and move it to  *)
(* where it belongs.                                                        *)
Lowest(t) == CHOOSE f \in 0..4 : t[f] = "closed" /\ \A g \in 0..(f - 1) : t[g] # "closed"
Reopen(t, f) == LET n == Lowest(t)
                IN [t EXCEPT ![n] = IF n = f THEN "null" ELSE "closed", ![f] = "null"]
Detached(t) == LET c == [f \in 0..4 |-> IF f < 3 THEN "closed" ELSE t[f]]
               IN Reopen(Reopen(Reopen(c, 0), 1), 2)
Daemonize(h) ==
  /\ launch[h] = "bound" /\ Report(h, TRUE)
  /\ life' = [life EXCEPT ![h] = "loop"]
  /\ fds' = [fds EXCEPT ![h] = Detached(@)]
  /\ UNCHANGED <<busy, inbox, tool, late>>
NoFork(h) ==
  /\ ForkFails /\ launch[h] = "bound" /\ Report(h, TRUE)
  /\ life' = [life EXCEPT ![h] = "none"] /\ fds' = [fds EXCEPT ![h] = Closed]
  /\ inbox' = [inbox EXCEPT ![h] = <<>>]
  /\ late' = late \cup {h}
  /\ UNCHANGED <<busy, tool>>

-----------------------------------------------------------------------------
(* The daemon.  It reads one order at a time; a shutdown is refused unless  *)
(* it is free; the answer is on the way before the process ends.            *)
Answer(h) == said' = [said EXCEPT ![h] = IF h \in busy THEN "busy" ELSE "free"]
Handle(h) ==
  /\ life[h] = "loop" /\ inbox[h] # <<>>
  /\ inbox' = [inbox EXCEPT ![h] = Tail(@)]
  /\ \/ Head(inbox[h]) = "status" /\ Answer(h) /\ UNCHANGED <<life, busy>>
     \/ /\ Head(inbox[h]) = "shutdown" /\ Answer(h)
        /\ life' = IF h \in busy THEN life ELSE [life EXCEPT ![h] = "ending"]
        /\ UNCHANGED busy
     \/ /\ Head(inbox[h]) = "forceShutdown"
        /\ life' = [life EXCEPT ![h] = "ending"] /\ busy' = busy \ {h}
        /\ UNCHANGED said
  /\ UNCHANGED <<fds, launch, tool, late>>

(* Who waits for the answer of a process that ends reads the end.           *)
Exit(h) ==
  /\ life[h] = "ending"
  /\ life' = [life EXCEPT ![h] = "none"] /\ fds' = [fds EXCEPT ![h] = Closed]
  /\ inbox' = [inbox EXCEPT ![h] = <<>>]
  /\ said' = IF waits = h /\ said[h] = "" THEN [said EXCEPT ![h] = "lost"] ELSE said
  /\ UNCHANGED <<busy, launch, tool, late>>

Compute(h) ==
  /\ life[h] = "loop"
  /\ busy' = IF h \in busy THEN busy \ {h} ELSE busy \cup {h}
  /\ UNCHANGED <<life, inbox, fds, launch, said, tool, late>>

Program(h) == SshFails(h) \/ PortTaken(h) \/ Bind(h) \/ Daemonize(h) \/ NoFork(h)
Daemon(h) == Handle(h) \/ Exit(h)
Tool == (\E c \in Commands : Begin(c)) \/ (\E h \in Hosts : Tell(h)) \/ Heard \/ Finish
Next == Tool \/ \E h \in Hosts : Program(h) \/ Daemon(h) \/ Compute(h)

Spec == Init /\ [][Next]_vars
(* Every process is scheduled; nobody has to give another command.          *)
FairSpec ==
  /\ Spec /\ WF_vars((\E h \in Hosts : Tell(h)) \/ Heard \/ Finish)
  /\ \A h \in Hosts : WF_vars(Program(h)) /\ WF_vars(Daemon(h))

-----------------------------------------------------------------------------
TypeOK ==
  /\ life \in [Hosts -> Lives] /\ busy \subseteq {h \in Hosts : life[h] \in {"loop", "ending"}}
  /\ launch \in [Hosts -> {"no", "ssh", "bound"}]
  /\ \A h \in Hosts : (launch[h] = "bound" => life[h] = "bound") /\ (life[h] = "none" => inbox[h] = <<>>)
  /\ pc \in Commands \cup {"idle"} /\ waits \in Hosts \cup {Nobody} /\ runs \in 0..MaxRuns

(* When start says that a host was started, its daemon takes connections at *)
(* once, unless an old one was ending or the host had no room for a         *)
(* process: the port is bound before the program leaves for the background  *)
(* (Daemon::Daemon, daemonize).                                             *)
Reachable ==
  pc = "start" =>
    \A h \in Hosts : said[h] = "started" /\ h \notin late => Listening(h)

(* A daemon in the background has the null device where output goes, and    *)
(* its ear, and nothing else open (daemonize).                              *)
Background ==
  \A h \in Hosts : life[h] = "loop" =>
    fds[h] = [f \in 0..4 |-> IF f < 3 THEN "null" ELSE IF f = 3 THEN "ear" ELSE "closed"]

(* Every command comes to an end, and a daemon that was told to end by      *)
(* force ends, whatever it computes (forceShutdown).                        *)
Commanding == pc # "idle"
=============================================================================
