------------------------------- MODULE Mutexes ------------------------------
(***************************************************************************)
(* The channels of one executive and the threads of its program.  Every    *)
(* channel has a mutex for reading and one for writing: probe takes the    *)
(* read mutexes of all channels of a cache for as long as it polls and     *)
(* calls the applicator, sendAll all the write mutexes, receive and sendTo *)
(* one.  Redirected output and Daemon::exit write to the client without.   *)
(***************************************************************************)
EXTENDS Integers, Sequences, FiniteSets, SequencesExt

CONSTANTS Threads,   \* threads of the executive
          Peers,     \* number of the other executives
          Ops,       \* the calls that are made
          ProbeOn,   \* the caches that are probed, by asIndex: 0 all, 1 master, 2 data channel
          MaxCalls,  \* bound: calls of one thread
          MaxMail    \* bound: messages that arrive on one channel

MutexesConstants ==
  /\ Peers \in Nat /\ MaxCalls \in Nat /\ MaxMail \in Nat
  /\ Ops \subseteq {"probe", "sendTo", "sendAll", "receive", "output", "exitInside"}
  /\ ProbeOn \subseteq {0, 1, 2} /\ "none" \notin Threads

VARIABLES read,   \* channel |-> the thread that holds its read mutex
          write,  \* channel |-> the thread that holds its write mutex
          mail,   \* channel |-> messages that arrived and were not received
          came,   \* channel |-> how many have arrived
          wire,   \* channel |-> the parts of messages that were sent
          thread  \* what every thread does

vars == <<read, write, mail, came, wire, thread>>

(* ChannelID::asIndex: the places of the caches.                            *)
All == 0
Master == 1
Data == 2   \* the first data channel
Channel == {<<0, Master>>} \cup ((1..Peers) \X {Master, Data})
None == "none"

(* buildCache: by rank, and in the cache of all channels the master channel *)
(* of a line before its data channels.                                      *)
Place(i) == IF i = 1 THEN <<0, Master>>
            ELSE <<i \div 2, IF i % 2 = 0 THEN Master ELSE Data>>
\* mutant: the cache of all channels begins with the last line
CacheDown(k) == IF k = All THEN [i \in 1..(2 * Peers + 1) |-> Place(2 * Peers + 2 - i)]
                ELSE IF k = Master THEN [i \in 1..(Peers + 1) |-> <<i - 1, Master>>]
                ELSE [i \in 1..Peers |-> <<i, Data>>]
Cache(k) == IF k = All THEN [i \in 1..(2 * Peers + 1) |-> Place(i)]
            ELSE IF k = Master THEN [i \in 1..(Peers + 1) |-> <<i - 1, Master>>]
            ELSE [i \in 1..Peers |-> <<i, Data>>]

Idle == [pc |-> "idle", chans |-> <<>>, pos |-> 1, left |-> {}, half |-> {}, full |-> {},
         head |-> 0, at |-> <<0, Master>>, out |-> <<>>, calls |-> 0]

Init ==
  /\ read = [c \in Channel |-> None] /\ write = [c \in Channel |-> None]
  /\ mail = [c \in Channel |-> <<>>] /\ came = [c \in Channel |-> 0]
  /\ wire = [c \in Channel |-> <<>>]
  /\ thread = [t \in Threads |-> Idle]

Go(t, now, then) == thread[t].pc = now /\ thread' = [thread EXCEPT ![t].pc = then]
Become(t, r) == thread' = [thread EXCEPT ![t] = r]
Start(t, op) == /\ op \in Ops /\ thread[t].pc = "idle" /\ thread[t].calls < MaxCalls
Next1(t) == [Idle EXCEPT !.calls = thread[t].calls + 1]
Rest(t) == [Idle EXCEPT !.calls = thread[t].calls]

(* Messages come from outside at any time.                                  *)
Arrive(c) ==
  /\ came[c] < MaxMail
  /\ came' = [came EXCEPT ![c] = @ + 1]
  /\ mail' = [mail EXCEPT ![c] = Append(@, came[c] + 1)]
  /\ UNCHANGED <<read, write, wire, thread>>

-----------------------------------------------------------------------------
(* probe: one read mutex after the other, in the order of the cache.        *)
Probe(t) ==
  /\ Start(t, "probe")
  /\ \E k \in ProbeOn :
       Become(t, [Next1(t) EXCEPT !.pc = IF Cache(k) = <<>> THEN "poll" ELSE "lockRead",
                                  !.chans = Cache(k)])
  /\ UNCHANGED <<read, write, mail, came, wire>>

LockRead(t) ==
  LET d == thread[t]
      c == d.chans[d.pos]
  IN /\ d.pc = "lockRead"
     /\ read[c] = None
     /\ read' = [read EXCEPT ![c] = t]
     /\ Become(t, IF d.pos < Len(d.chans) THEN [d EXCEPT !.pos = @ + 1]
                  ELSE [d EXCEPT !.pc = "poll"])
     /\ UNCHANGED <<write, mail, came, wire>>

(* Network::poll reports the channels that have something, or nothing when  *)
(* the time is over (any timeout may be given).                             *)
Poll(t) ==
  /\ thread[t].pc = "poll"
  /\ Become(t, [thread[t] EXCEPT
                  !.pc = "round",
                  !.left = {c \in ToSet(thread[t].chans) : mail[c] # <<>>}])
  /\ UNCHANGED <<read, write, mail, came, wire>>

(* process: the header of the message is peeked at, and the applicator gets *)
(* the channel.                                                             *)
Process(t) ==
  LET d == thread[t]
  IN /\ d.pc = "round"
     /\ \E c \in d.left :
          /\ mail[c] # <<>>
          /\ Become(t, [d EXCEPT !.pc = "apply", !.left = @ \ {c}, !.at = c,
                                 !.head = Head(mail[c])])
     /\ UNCHANGED <<read, write, mail, came, wire>>

(* The applicator receives the message, directly from the channel, and may  *)
(* send messages of its own before it returns.                              *)
Apply(t) ==
  LET d == thread[t]
  IN /\ d.pc = "apply" /\ mail[d.at] # <<>>
     /\ mail' = [mail EXCEPT ![d.at] = Tail(@)]
     /\ Become(t, [d EXCEPT !.pc = "round"])
     /\ UNCHANGED <<read, write, came, wire>>

(* The Defer of probe.                                                      *)
EndProbe(t) ==
  /\ thread[t].pc = "round" /\ thread[t].left = {}
  /\ read' = [c \in Channel |-> IF read[c] = t THEN None ELSE read[c]]
  /\ Become(t, Rest(t))
  /\ UNCHANGED <<write, mail, came, wire>>

(* receive( rank, message ) waits for the message with the mutex.           *)
Receive(t) ==
  /\ Start(t, "receive")
  /\ \E c \in Channel : Become(t, [Next1(t) EXCEPT !.pc = "lockOne", !.at = c])
  /\ UNCHANGED <<read, write, mail, came, wire>>

LockOne(t) ==
  /\ Go(t, "lockOne", "receive")
  /\ read[thread[t].at] = None
  /\ read' = [read EXCEPT ![thread[t].at] = t]
  /\ UNCHANGED <<write, mail, came, wire>>

Received(t) ==
  LET c == thread[t].at
  IN /\ thread[t].pc = "receive" /\ mail[c] # <<>>
     /\ mail' = [mail EXCEPT ![c] = Tail(@)]
     /\ read' = [read EXCEPT ![c] = None]
     /\ Become(t, Rest(t))
     /\ UNCHANGED <<write, came, wire>>

-----------------------------------------------------------------------------
(* sendTo takes one write mutex, sendAll those of a cache in its order; the *)
(* applicator may call them too.  then: what the thread goes on with.       *)
SendOn(t, d, chans, then) ==
  /\ Become(t, [d EXCEPT !.pc = IF chans = <<>> THEN "send" ELSE "lockWrite",
                         !.out = chans, !.pos = 1,
                         !.chans = IF then = "apply" THEN d.chans ELSE <<>>])
  /\ UNCHANGED <<read, write, mail, came, wire>>

Sends == (IF "sendTo" \in Ops THEN {<<c>> : c \in Channel} ELSE {})
         \cup (IF "sendAll" \in Ops THEN {Cache(k) : k \in {Master, Data}} ELSE {})
Send(t) ==
  /\ thread[t].pc = "idle" /\ thread[t].calls < MaxCalls
  /\ \E s \in Sends : SendOn(t, Next1(t), s, "idle")

(* At most once for every message, which bounds what is sent.               *)
SendInside(t) ==
  /\ thread[t].pc = "apply" /\ thread[t].calls < MaxCalls
  /\ \E s \in Sends : SendOn(t, [thread[t] EXCEPT !.calls = @ + 1], s, "apply")

LockWrite(t) ==
  LET d == thread[t]
      c == d.out[d.pos]
  IN /\ d.pc = "lockWrite"
     /\ write[c] = None
     /\ write' = [write EXCEPT ![c] = t]
     /\ Become(t, IF d.pos < Len(d.out) THEN [d EXCEPT !.pos = @ + 1]
                  ELSE [d EXCEPT !.pc = "send"])
     /\ UNCHANGED <<read, mail, came, wire>>

(* One sendmsg per channel, all of them at once.  A message for which the   *)
(* buffer of the socket has no room is sent in parts, between which the     *)
(* kernel lets other senders in.                                            *)
Part(t, d, c) == [by |-> t, call |-> d.calls, all |-> Len(d.out) > 1,
                  last |-> c \in d.half]
Put(t) ==
  LET d == thread[t]
  IN /\ d.pc \in {"send", "output"}
     /\ \E c \in ToSet(d.out) \ d.full :
          /\ wire' = [wire EXCEPT ![c] = Append(@, Part(t, d, c))]
          /\ Become(t, [d EXCEPT !.half = @ \cup {c}, !.full = @ \cup (d.half \cap {c})])
     /\ UNCHANGED <<read, write, mail, came>>

EndSend(t) ==
  LET d == thread[t]
      inside == d.chans # <<>>
  IN /\ d.pc \in {"send", "output"} /\ d.full = ToSet(d.out)
     /\ write' = [c \in Channel |-> IF write[c] = t THEN None ELSE write[c]]
     /\ Become(t, IF inside THEN [d EXCEPT !.pc = "apply", !.out = <<>>, !.pos = 1,
                                          !.half = {}, !.full = {}]
                  ELSE Rest(t))
     /\ UNCHANGED <<read, mail, came, wire>>

(* redirectOutput: the threads of the Redirectors write to the client.      *)
Output(t) ==
  /\ Start(t, "output")
  /\ Become(t, [Next1(t) EXCEPT !.pc = "output", !.out = <<<<0, Master>>>>])
  /\ UNCHANGED <<read, write, mail, came, wire>>

(* Daemon::exit from the applicator: Done to the client, and a probe of all *)
(* channels until the client dissolves the group.                           *)
Exit(t) ==
  LET d == thread[t]
  IN /\ d.pc = "apply" /\ "exitInside" \in Ops
     /\ Become(t, [d EXCEPT !.pc = "lockRead", !.chans = Cache(All), !.pos = 1])
     /\ UNCHANGED <<read, write, mail, came, wire>>

Next == \/ \E c \in Channel : Arrive(c)
        \/ \E t \in Threads :
             \/ Probe(t) \/ LockRead(t) \/ Poll(t) \/ Process(t) \/ Apply(t) \/ EndProbe(t)
             \/ Receive(t) \/ LockOne(t) \/ Received(t)
             \/ Send(t) \/ SendInside(t) \/ LockWrite(t) \/ Put(t) \/ EndSend(t)
             \/ Output(t) \/ Exit(t)

Spec == Init /\ [][Next]_vars

-----------------------------------------------------------------------------
TypeOK ==
  /\ read \in [Channel -> Threads \cup {None}]
  /\ write \in [Channel -> Threads \cup {None}]
  /\ \A t \in Threads : thread[t].calls \in 0..MaxCalls /\ thread[t].at \in Channel

Wants(t, u) ==
  LET d == thread[t]
  IN \/ d.pc = "lockRead" /\ read[d.chans[d.pos]] = u
     \/ d.pc = "lockOne" /\ read[d.at] = u
     \/ d.pc = "lockWrite" /\ write[d.out[d.pos]] = u

(* Threads never wait for mutexes of each other, or for a mutex they hold   *)
(* themselves, in a circle (the order of the caches in probe and sendAll).  *)
NoCircle ==
  ~\E S \in (SUBSET Threads) \ {{}} : \A t \in S : \E u \in S : Wants(t, u)

(* The message an applicator receives is the one its channel was handed     *)
(* over for: no other thread takes it between the peek and the receive.     *)
Peeked ==
  \A t \in Threads : thread[t].pc = "apply" =>
    mail[thread[t].at] # <<>> /\ Head(mail[thread[t].at]) = thread[t].head

(* Where everybody who writes takes the write mutex: on the lines to other  *)
(* executives always, on that to the client unless redirected output or the *)
(* Done of exit (which is not on the wire here) goes there.                 *)
Exclusive == IF Ops \cap {"output", "exitInside"} = {} THEN Channel
             ELSE Channel \ {<<0, Master>>}

(* On such a line no message has parts of another one in between            *)
(* (writeMutex).                                                            *)
Whole(s) == \A i \in 1..Len(s) :
              s[i].last => i > 1 /\ s[i - 1] = [s[i] EXCEPT !.last = FALSE]
Contiguous == \A c \in Exclusive : Whole(wire[c])

(* Two messages to all arrive in the same order wherever both arrive:       *)
(* sendAll holds all the mutexes until the last message is sent.            *)
At(c, t, n) == {i \in 1..Len(wire[c]) : wire[c][i].by = t /\ wire[c][i].call = n /\ wire[c][i].all}
SameOrder ==
  \A t, u \in Threads, m, n \in 1..MaxCalls : t # u =>
    \A c, d \in Channel :
      ~ /\ \E i \in At(c, t, m), j \in At(c, u, n) : i < j
        /\ \E i \in At(d, t, m), j \in At(d, u, n) : i > j
=============================================================================
