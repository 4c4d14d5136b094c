------------------------------- MODULE Session ------------------------------
(***************************************************************************)
(* Clients, daemons and the lines between them: the protocol by which a    *)
(* client enslaves machines, connects them with each other, runs a program *)
(* on them and dissolves the group.                                        *)
(***************************************************************************)
EXTENDS Daemon, Client

CONSTANTS Mishaps,    \* kinds of failures and operator commands that may happen
          MaxMishaps  \* bound: how many of them

ASSUME SessionAssumption ==
  /\ Mishaps \subseteq {"execCrash", "clientCrash", "timeout", "slowChild", "signal",
                        "interrupt", "None", "Status", "Shutdown", "ForceShutdown", "ForceReset", "start"}
  /\ MaxMishaps \in Nat

VARIABLE mishaps   \* how many have happened

vars == <<daemon, client, net, mishaps>>

Init ==
  /\ NetInit
  /\ DaemonInit
  /\ ClientInit
  /\ mishaps = 0

(* An operator's client connects, sends one command and goes; the answer to *)
(* Status and Shutdown is of no consequence.  A connection that says        *)
(* nothing within the timeout is the command None.                          *)
Operator(h, code) ==
  /\ FreeLine
  /\ h \in net.listen
  /\ net' = Connect(net, NewLine(net), {}, h, Msg(code))
  /\ UNCHANGED <<daemon, client>>

(* Client::start over ssh: a daemon is started where none runs.             *)
StartDaemon(h) ==
  /\ daemon[Main(h)].mode = "dead"
  /\ daemon' = [daemon EXCEPT ![Main(h)] = Fresh]
  /\ net' = [net EXCEPT !.listen = @ \cup {h}]
  /\ UNCHANGED client

Mishap ==
  /\ mishaps < MaxMishaps
  /\ mishaps' = mishaps + 1
  /\ \/ /\ "execCrash" \in Mishaps
        /\ \E h \in Hosts : ExecCrash(h) /\ UNCHANGED client
     \/ /\ "timeout" \in Mishaps
        /\ \/ \E p \in Daemons : TimeOut(p) /\ UNCHANGED client
           \/ \E c \in Clients : ClientTimeOut(c) /\ UNCHANGED daemon
     \/ /\ "slowChild" \in Mishaps
        /\ \E p \in Daemons : BuryLate(p) /\ UNCHANGED client
     \/ /\ "clientCrash" \in Mishaps
        /\ \E c \in Clients : ClientCrash(c) /\ UNCHANGED daemon
     \/ /\ "signal" \in Mishaps
        /\ \E c \in Clients : Signal(c) /\ UNCHANGED daemon
     \/ /\ "interrupt" \in Mishaps
        /\ \E c \in Clients : Interrupt(c) /\ UNCHANGED daemon
     \/ \E h \in Hosts, code \in Mishaps \cap Code : Operator(h, code)
     \/ /\ "start" \in Mishaps
        /\ \E h \in Hosts : StartDaemon(h)

DaemonNext == \E p \in Daemons : DaemonStep(p) /\ UNCHANGED <<client, mishaps>>
ClientNext == \E c \in Clients : /\ ClientStep(c) \/ ClientCall(c)
                                 /\ UNCHANGED <<daemon, mishaps>>

(* Nobody has anything left to do: every client is gone, and the daemons    *)
(* wait for the next one.                                                   *)
AtRest(h) == daemon[Main(h)].state = "Free" /\ daemon[Exec(h)].mode = "dead"
Terminated ==
  /\ \A c \in Clients : client[c].pc = "dead"
  /\ \A h \in Hosts : AtRest(h)
  /\ UNCHANGED vars

Next == DaemonNext \/ ClientNext \/ Mishap \/ Terminated

Spec == Init /\ [][Next]_vars

-----------------------------------------------------------------------------
(* How the program that runs on the executives names the other machines:    *)
(* sendTo and receive turn a rank into an index of the cache, an array of   *)
(* channels without gaps that buildCache filled in the order of the ranks.  *)
(* The master channels start with the client's, which has rank 0, and there *)
(* is no channel to the machine itself.                                     *)
Cached(d, k) == {r \in Ranks : d.cache[<<r, k>>] # NoEnd}
CachedRank(d, k, i) == CHOOSE r \in Cached(d, k) : Cardinality({q \in Cached(d, k) : q < r}) = i

(* The machine itself is skipped, and rank 0 too in data channels.  A       *)
(* negative index becomes a huge one in the comparison with the size.       *)
\* mutant: the machine itself is not skipped
IndexSelf(d, rank, k) == rank - (IF k # Master THEN 1 ELSE 0)
Index(d, rank, k) ==
  rank - (IF rank > d.rank THEN 1 ELSE 0) - (IF k # Master THEN 1 ELSE 0)
FindChannel(d, rank, k) ==
  LET i == Index(d, rank, k)
  IN IF i \in 0..(Cardinality(Cached(d, k)) - 1) THEN d.cache[<<CachedRank(d, k, i), k>>] ELSE NoEnd

TypeOK ==
  /\ NetTypeOK
  /\ DaemonTypeOK
  /\ ClientTypeOK
  /\ mishaps \in 0..MaxMishaps

-----------------------------------------------------------------------------
(* What a session promises: the safety properties, the properties of      *)
(* steps and, under the fairness of the scheduler, the liveness.            *)

Supervisor(h) == daemon[Main(h)]
Executive(h) == daemon[Exec(h)]

(* The slaves of client c whose executive holds the far end of the client's *)
(* line and was not reset.                                                  *)
Member(c, r) ==
  LET h == client[c].host[r]
  IN /\ r \in Slaves(client[c])
     /\ Exec(h) \in net.hold[Other(client[c].line[r])]
     /\ Executive(h).state # "Free"

(* The daemon's main process and its executive agree on each other.  The    *)
(* supervisor knows of the child it has to bury and of no other, it has a   *)
(* rope exactly while it supervises, and no executive outlives the main     *)
(* process or is forked twice (setDefault, grouped, becomeParent).          *)
Supervised ==
  \A h \in Hosts :
    LET m == Supervisor(h)
    IN /\ m.child <=> m.state = "Supervising" \/ m.wait.on = "bury"
       /\ m.rope # NoEnd <=> m.state = "Supervising"
       /\ Executive(h).mode # "dead" => m.child /\ m.mode = "loop"

(* The states Grouped, Running and Leaving are reserved to the executive,   *)
(* the other four to the main process; an executive that was reset is Free  *)
(* and about to quit.  prepare() accepts FormingGroup, so the main process  *)
(* relies on the client for it.                                             *)
StatesKept ==
  \A h \in Hosts :
    /\ Supervisor(h).state \in {"Free", "Enslaved", "FormingGroup", "Supervising"}
    /\ Executive(h).mode # "dead" =>
         \/ Executive(h).state \in {"Grouped", "Leaving"}
         \/ Executive(h).state = "Free" /\ Executive(h).quit

(* Once connectAll succeeded every two members of a group are joined by the *)
(* master line and by all data lines, and both file them under the other's  *)
(* rank (connecting, join, addDataLine, insert).                            *)
GroupLinked ==
  \A c \in Clients : client[c].established =>
    \A r, q \in Ranks : r # q /\ Member(c, r) /\ Member(c, q) =>
      \A k \in Chan :
        LET e == Executive(client[c].host[r]).cache[<<q, k>>]
        IN e # NoEnd /\ Executive(client[c].host[q]).cache[<<r, k>>] = Other(e)

(* A machine serves one client at a time: no two clients hold a line to the *)
(* same machine that is still open at its end.                              *)
OneMaster ==
  \A c, d \in Clients : \A r, q \in Ranks :
    /\ client[c].host[r] = client[d].host[q]
    /\ Held(net, Other(client[c].line[r]))
    /\ Held(net, Other(client[d].line[q]))
    => c = d

(* A client that waits for an answer finds no other: nothing has arrived    *)
(* from the slaves it did not ask, and when something has from the one it   *)
(* asked, that slave has read the request.                                  *)
InStep ==
  \A c \in Clients : client[c].pc \in Phase \ {"add"} =>
    \A r \in Slaves(client[c]) :
      LET e == client[c].line[r]
      IN net.box[e] # <<>> =>
           /\ r = client[c].pos
           /\ Len(net.box[e]) = 1
           /\ net.box[Other(e)] = <<>>

(* The ranks of a group are 1 up to the number of its machines, and this    *)
(* number is the world size every member was told.                          *)
WorldIsGroup ==
  \A c \in Clients : client[c].established =>
    /\ Slaves(client[c]) = 1..Cardinality(Slaves(client[c]))
    /\ \A r \in Ranks : Member(c, r) =>
         /\ Executive(client[c].host[r]).rank = r
         /\ Executive(client[c].host[r]).world = Cardinality(Slaves(client[c]))

(* Who has accepted Run waits for Start or has read it.                     *)
Accepts(x) == x.mode # "loop" \/ x.wait.on = "start" \/ x.runMain

(* Nobody starts the program before everybody is ready to: when one         *)
(* executive has entered it, every other member of the group has accepted   *)
(* Run (the Start message is a barrier).                                    *)
Barrier ==
  \A c \in Clients : \A r, q \in Ranks :
    /\ Member(c, r) /\ Executive(client[c].host[r]).mode = "main"
    /\ Member(c, q)
    => Accepts(Executive(client[c].host[q]))

(* A client begins to dissolve a group when all members are done (_done is  *)
(* counted up to the number of connections).                                *)
DoneByAll ==
  \A c \in Clients : client[c].pc = "prepare" =>
    \A r \in Ranks : Member(c, r) => Executive(client[c].host[r]).mode = "exit"

(* Whoever computes reaches with a rank of another machine of the world     *)
(* that machine and no other, on every channel, and the client with rank 0; *)
(* a rank beyond the world is refused (findChannel, buildCache).            *)
Addressed ==
  \A h \in Hosts : Executive(h).mode = "main" /\ Executive(h).rank # 0 =>
    LET d == Executive(h)
    IN \A r \in Ranks \ {d.rank}, k \in Chan : FindChannel(d, r, k) = d.cache[<<r, k>>]

-----------------------------------------------------------------------------
(* An executive ends in no other way than by Leave, and by then its main    *)
(* process has let go of it: nothing but the burial is left of the group.   *)
OnlyByLeave ==
  [][\A h \in Hosts : Executive(h).mode # "dead" /\ Executive(h)'.mode = "dead" =>
       Executive(h).state = "Leaving" /\ Supervisor(h)'.wait.on = "bury"]_vars

(* When a client has read the agreement to Leave of a machine, the machine  *)
(* supervises no longer: the next client need not wait (leave, cutRope).    *)
FreeWhenLeft ==
  [][\A c \in Clients :
       LET k == client[c]
       IN /\ k.pc = "leave" /\ client'[c].pos # k.pos
          /\ Peek(net, k.line[k.pos]).tag = "OK"
          => Supervisor(k.host[k.pos]).state # "Supervising"]_vars

-----------------------------------------------------------------------------
(* Every process is scheduled, the program's main returns, and the user of  *)
(* the library destroys the client at last.                                 *)
Quiet == UNCHANGED <<client, mishaps>>
Serve(p) == (Poll(p) \/ Resume(p) \/ Bury(p)) /\ Quiet
ClientFairness ==
  \A c \in Clients : /\ WF_vars(ClientStep(c) /\ UNCHANGED <<daemon, mishaps>>)
                     /\ WF_vars(Destroy(c) /\ UNCHANGED <<daemon, mishaps>>)
Fairness ==
  /\ \A p \in Daemons : WF_vars(Serve(p)) /\ WF_vars(FinishMain(p) /\ Quiet)
  /\ ClientFairness
FairSpec == Spec /\ Fairness

(* The same with the enabling conditions spelled out, which TLC evaluates   *)
(* much faster than ENABLED.  Busy and Returning imply that the process has *)
(* a step that changes something (the converse fails for programs that poll *)
(* in their main), so BusySpec assumes no more than FairSpec.               *)
Acts(p, e) ==
  \/ e = Ear
  \/ e # NoEnd /\ IF Closed(net, e) THEN daemon[p].state # "Leaving"
                  ELSE Peek(net, e).tag # "InitialData" \/ daemon[p].state = "Grouped"
Busy(p) ==
  LET d == daemon[p]
  IN \/ /\ d.mode \in {"loop", "exit"} /\ d.wait.on = "no"
        /\ d.todo # Idle \/ \E s \in Slot : Acts(p, Polled(p, Master)[s])
     \/ d.wait.on = "bury" /\ daemon[Exec(p[1])].mode = "dead"
     \/ d.wait.on \in {"line", "start", "ack"} /\ Readable(net, d.wait.end)
Returning(p) ==
  daemon[p].mode = "main" /\ daemon[p].wait.on = "no" /\ daemon[p].todo = Idle
BusyFairness ==
  /\ \A p \in Daemons :
       /\ []<>~Busy(p) \/ []<><<Serve(p)>>_vars
       /\ []<>~Returning(p) \/ []<><<FinishMain(p) /\ Quiet>>_vars
  /\ ClientFairness
BusySpec == Spec /\ BusyFairness

(* A call of the client returns.                                            *)
CallsReturn == \A c \in Clients : client[c].pc # "idle" ~> client[c].pc \in {"idle", "dead"}

(* Whatever happens, a machine that was enslaved is at rest again at last   *)
(* unless its executive is stuck in Leaving, where processDisconnected      *)
(* ignores that everybody else is gone.                                     *)
FreedOrLeaving ==
  \A h \in Hosts : Supervisor(h).state # "Free" ~> AtRest(h) \/ Executive(h).state = "Leaving"

(* A machine that was enslaved is at rest again at last.  The instance that *)
(* checks it has signals which interrupt no system call of the client; one  *)
(* that interrupts the wait inside dissolve leaves the executives in        *)
(* Leaving, which is FreedOrLeaving.                                        *)
MachinesFreed == \A h \in Hosts : Supervisor(h).state # "Free" ~> AtRest(h)
=============================================================================
