-------------------------------- MODULE Wire --------------------------------
(***************************************************************************)
(* Stream connections as the daemon and the client see them through        *)
(* brick::net::Socket and brick::net::Network.  A line has two ends; every *)
(* end is held by the processes that own a descriptor of it (two of them   *)
(* after a fork) and has a FIFO of the messages that arrived and were not  *)
(* read.  The operators map a value of NetType to another; the variable    *)
(* net holds the current one.                                              *)
(***************************************************************************)
EXTENDS Integers, Sequences, FiniteSets

CONSTANTS Hosts,    \* machines that run a daemon
          Clients,  \* client processes
          Lines,    \* pool of stream connections, a line is reused once both ends are closed
          MaxRank,  \* bound of the ranks a client hands out and of the world size
          Channels, \* number of data lines between two peers
          NoHost    \* no machine

ASSUME WireAssumption ==
  /\ Lines \subseteq Nat \ {0}
  /\ MaxRank \in Nat
  /\ Channels \in Nat
  /\ NoHost \notin Hosts
  /\ (Hosts \X {"main", "exec"}) \cap Clients = {}

VARIABLE net

Ranks == 0..MaxRank
Master == -1                      \* ChannelType::Master
Chan == Master..(Channels - 1)    \* the master line and the data lines
Spot == Ranks \X Chan             \* a place in the table of connections

(* The daemon forks: every machine has a main process, the one that         *)
(* listens, and at most one executive, its child.                           *)
Daemons == Hosts \X {"main", "exec"}
Main(h) == <<h, "main">>
Exec(h) == <<h, "exec">>
Procs == Daemons \cup Clients

End == Lines \X {"near", "far"}   \* near: the end of the side that connected
NoEnd == <<0, "near">>            \* an empty Channel
Ear == <<0, "far">>               \* the listening socket
Ends0 == End \cup {NoEnd}
Other(e) == <<e[1], IF e[2] = "near" THEN "far" ELSE "near">>

Code == {"None", "OK", "Refuse", "Enslave", "Disconnect", "Peers", "ConnectTo",
         "Join", "DataLine", "Grouped", "InitialData", "Run", "Start", "Done",
         "PrepareToLeave", "Leave", "CutRope", "Error", "Renegade", "Status",
         "Shutdown", "ForceShutdown", "ForceReset"}

(* A control message: the tag and the fields the handlers look at.          *)
Message == [tag: Code, arg: Nat, chan: Chan, host: Hosts \cup {NoHost}]
Msg(c) == [tag |-> c, arg |-> 0, chan |-> Master, host |-> NoHost]
MsgArg(c, n) == [Msg(c) EXCEPT !.arg = n]   \* n: a rank or the world size

(* The header of a read that finds the connection closed: recv returns 0    *)
(* and the tag keeps the zero it was constructed with.                      *)
Nothing == Msg("None")

-----------------------------------------------------------------------------
NetType == [hold: [End -> SUBSET Procs],       \* processes with a descriptor
            box: [End -> Seq(Message)],        \* arrived, not read
            rst: SUBSET End,                   \* a send after the far end closed raises
            ear: [Hosts -> Seq(End)],          \* backlog of the listening socket
            listen: SUBSET Hosts]              \* machines that listen

NetTypeOK == net \in NetType
NetInit ==
  net = [hold |-> [e \in End |-> {}], box |-> [e \in End |-> <<>>],
         rst |-> {}, ear |-> [h \in Hosts |-> <<>>], listen |-> Hosts]

Held(n, e) == e \in End /\ n.hold[e] # {}
Hung(n, e) == e \in End /\ n.hold[Other(e)] = {}           \* the far end is closed
Empty(n, e) == e \in End => n.box[e] = <<>>
Readable(n, e) == e \in End /\ (~Empty(n, e) \/ Hung(n, e)) \* poll reports the end
Closed(n, e) == Empty(n, e) /\ Hung(n, e)                   \* Socket::closed
Broken(n, e) == Hung(n, e) /\ e \in n.rst                   \* send raises EPIPE

Peek(n, e) == IF e \in End /\ n.box[e] # <<>> THEN Head(n.box[e]) ELSE Nothing
Receive(n, e) ==
  IF e \in End /\ n.box[e] # <<>> THEN [n EXCEPT !.box[e] = Tail(@)] ELSE n

(* Writing to an end whose far side is gone succeeds once; the answer of    *)
(* the far side's kernel makes the next write fail.                         *)
Send(n, e, m) ==
  IF e \notin End THEN n
  ELSE IF Hung(n, e) THEN [n EXCEPT !.rst = @ \cup {e}]
  ELSE [n EXCEPT !.box[Other(e)] = Append(@, m)]

SendEach(n, S, m) ==
  [n EXCEPT !.box = [e \in End |-> IF Other(e) \in S /\ n.hold[e] # {}
                                   THEN Append(n.box[e], m) ELSE n.box[e]],
            !.rst = @ \cup {e \in S : Hung(n, e)}]

(* Process p closes every descriptor outside keep.  An end nobody holds any *)
(* more loses what it had not read, and the far side is told so.            *)
Keep(n, p, keep) ==
  LET hold == [e \in End |-> IF e \in keep THEN n.hold[e] ELSE n.hold[e] \ {p}]
      shut == {e \in End : hold[e] = {}}
  IN [n EXCEPT !.hold = hold,
               !.box = [e \in End |-> IF e \in shut THEN <<>> ELSE n.box[e]],
               !.rst = (@ \ shut)
                       \cup {e \in End : /\ e \notin shut
                                         /\ Other(e) \in shut
                                         /\ n.box[Other(e)] # <<>>}]

FreeLines(n) == {l \in Lines : n.hold[<<l, "near">>] = {} /\ n.hold[<<l, "far">>] = {}}
NewLine(n) == CHOOSE l \in FreeLines(n) : TRUE

(* A process of who connects to the daemon of h and sends m: the line waits *)
(* in the backlog.  who is empty when the requester closes its end at once. *)
Connect(n, l, who, h, m) ==
  [n EXCEPT !.hold[<<l, "near">>] = who,
            !.hold[<<l, "far">>] = {Main(h)},
            !.box[<<l, "far">>] = <<m>>,
            !.ear[h] = Append(@, <<l, "far">>)]

(* socketpair: AF_UNIX, the first write to a closed far end already fails.  *)
SocketPair(n, l, top, bottom) ==
  [n EXCEPT !.hold[<<l, "near">>] = {top},
            !.hold[<<l, "far">>] = {bottom},
            !.rst = @ \cup {<<l, "near">>, <<l, "far">>}]

(* fork: the child gets every descriptor of its parent but the backlog.     *)
Fork(n, p, q, backlog) ==
  [n EXCEPT !.hold = [e \in End |-> IF p \in n.hold[e] /\ e \notin backlog
                                    THEN n.hold[e] \cup {q} ELSE n.hold[e]]]

(* accept takes the oldest connection of the backlog.                       *)
Accept(n, h) == [n EXCEPT !.ear[h] = Tail(@)]

(* The listening process of h ends.                                         *)
Unlisten(n, h) == [n EXCEPT !.listen = @ \ {h}, !.ear[h] = <<>>]
=============================================================================
