------------------------------- MODULE Framing ------------------------------
(***************************************************************************)
(* Messages on one stream connection.  A message is a header, which counts *)
(* the segments and holds their sizes, and the segments; Socket::send      *)
(* writes it with one sendmsg, Socket::receive reads it with three calls   *)
(* that each wait for all they asked for, and tell only the last one's     *)
(* shortage from success.                                                  *)
(***************************************************************************)
EXTENDS Integers, Sequences, FiniteSets

CONSTANTS Segments,    \* SEGMENTS, 255 in the code: what the 8-bit count can hold
          MaxMessages, \* bound: messages the program sends
          Faults       \* "timeout": a call gives up waiting, "cut": the sender ends

FramingConstants ==
  /\ Segments \in Nat \ {0} /\ MaxMessages \in Nat
  /\ Faults \subseteq {"timeout", "cut"}

VARIABLES asked,     \* segments the program added to each of its messages
          transit,   \* written and on the way
          arrived,   \* in the buffer of the receiver's socket
          open,      \* the sender has not closed its end
          cut,       \* its last message was cut short
          get,       \* the receiver
          delivered  \* what receive returned: the number and the segments of each message

vars == <<asked, transit, arrived, open, cut, get, delivered>>

(* The stream: a header of a word with category and count, a word with the  *)
(* tag, and a word for each size; and one word for each segment.            *)
Word(m, part, n) == [of |-> m, part |-> part, n |-> n]
Words(m, n) == <<Word(m, "count", n), Word(m, "tag", 0)>>
               \o [i \in 1..n |-> Word(m, "size", 1)] \o [i \in 1..n |-> Word(m, "data", i)]

(* add refuses a segment when all places of the header are taken; the       *)
(* operators << do not look at the result.                                  *)
Added(n) == IF n <= Segments THEN n ELSE Segments

(* Any: the receiver takes what comes (receiveHeader, an allocator); else   *)
(* it prepared that many segments with >>.                                  *)
Any == -1
Rest == [pc |-> "rest", want |-> Any, count |-> 0, tag |-> FALSE, sizes |-> 0]

Init ==
  /\ asked = <<>> /\ transit = <<>> /\ arrived = <<>>
  /\ open = TRUE /\ cut = FALSE /\ get = Rest /\ delivered = <<>>

-----------------------------------------------------------------------------
Send(n) ==
  /\ open /\ Len(asked) < MaxMessages
  /\ asked' = Append(asked, n)
  /\ transit' = transit \o Words(Len(asked) + 1, Added(n))
  /\ UNCHANGED <<arrived, open, cut, get, delivered>>

(* The sender's process ends in the middle of a message, or a timeout cuts  *)
(* the write short and the exception closes the line.                       *)
Cut(n, k) ==
  /\ "cut" \in Faults /\ open /\ Len(asked) < MaxMessages
  /\ asked' = Append(asked, n)
  /\ k < Len(Words(1, Added(n)))
  /\ transit' = transit \o SubSeq(Words(Len(asked) + 1, Added(n)), 1, k)
  /\ open' = FALSE /\ cut' = TRUE
  /\ UNCHANGED <<arrived, get, delivered>>

Close ==
  /\ open /\ open' = FALSE
  /\ UNCHANGED <<asked, transit, arrived, cut, get, delivered>>

(* The stream comes in pieces of any length.                                *)
Arrive ==
  /\ transit # <<>>
  /\ arrived' = Append(arrived, Head(transit))
  /\ transit' = Tail(transit)
  /\ UNCHANGED <<asked, open, cut, get, delivered>>

-----------------------------------------------------------------------------
(* A call that asks for n words waits for all of them (MSG_WAITALL), unless *)
(* the stream ends or the timeout of the socket expires.                    *)
Gets(n) ==
  \/ Len(arrived) >= n
  \/ ~open /\ transit = <<>>
  \/ "timeout" \in Faults
Ended == ~open /\ transit = <<>> /\ arrived = <<>>
TakeWords(n) == arrived' = SubSeq(arrived, n + 1, Len(arrived))

(* A timeout without any word raises WouldBlock.                            *)
GivesUp == arrived = <<>> /\ ~Ended
Raise == get' = [Rest EXCEPT !.pc = "raised"]
Step(r) == IF GivesUp THEN Raise ELSE get' = r

(* The receiver is called when there is something to read (poll).           *)
Begin(want) ==
  /\ get.pc = "rest" /\ arrived # <<>>
  /\ get' = [get EXCEPT !.pc = "peek", !.want = want]
  /\ UNCHANGED <<asked, transit, arrived, open, cut, delivered>>

Count(w) == IF w.part = "count" THEN w.n ELSE 0
PeekHead ==
  /\ get.pc = "peek" /\ Gets(2)
  /\ Step([get EXCEPT !.pc = "header", !.count = IF arrived = <<>> THEN 0 ELSE Count(arrived[1])])
  /\ UNCHANGED <<asked, transit, arrived, open, cut, delivered>>

(* What the call did not read of the header keeps its zeros.                *)
\* mutant: the sizes are read with the words that have come
TakeHeadNow ==
  LET n == 2 + get.count
      size == IF Len(arrived) >= 2 THEN (IF Len(arrived) < n THEN Len(arrived) ELSE n) - 2 ELSE 0
  IN /\ get.pc = "header"
     /\ get' = [get EXCEPT !.pc = "data", !.tag = Len(arrived) >= 2, !.sizes = size]
     /\ TakeWords(n)
     /\ UNCHANGED <<asked, transit, open, cut, delivered>>
TakeHead ==
  LET n == 2 + get.count
      size == IF Len(arrived) >= 2 THEN (IF Len(arrived) < n THEN Len(arrived) ELSE n) - 2 ELSE 0
  IN /\ get.pc = "header" /\ Gets(n)
     /\ Step([get EXCEPT !.pc = "data", !.tag = Len(arrived) >= 2, !.sizes = size])
     /\ TakeWords(n)
     /\ UNCHANGED <<asked, transit, open, cut, delivered>>

(* allocateData raises when the sender has other segments than were         *)
(* prepared; receive returns when it got as much as the sizes say.          *)
Returned(k) == delivered' = Append(delivered, k) /\ get' = Rest
TakeData ==
  /\ get.pc = "data"
  /\ IF get.count > 0 /\ get.want \notin {Any, get.count}
       THEN Raise /\ UNCHANGED <<arrived, delivered>>
     ELSE IF get.count = 0 \/ get.sizes = 0
       THEN Returned([count |-> get.count, tag |-> get.tag, data |-> <<>>]) /\ UNCHANGED arrived
     ELSE /\ Gets(get.sizes)
          /\ TakeWords(get.sizes)
          /\ IF Len(arrived) < get.sizes THEN Raise /\ UNCHANGED delivered
             ELSE Returned([count |-> get.count, tag |-> get.tag,
                            data |-> SubSeq(arrived, 1, get.sizes)])
  /\ UNCHANGED <<asked, transit, open, cut>>

Next ==
  \/ \E n \in 0..(Segments + 1) : Send(n) \/ \E k \in 1..(2 * Segments + 1) : Cut(n, k)
  \/ Close \/ Arrive
  \/ \E want \in {Any} \cup 0..Segments : Begin(want)
  \/ PeekHead \/ TakeHead \/ TakeData

Spec == Init /\ [][Next]_vars

(* The network delivers and the receiver goes on.                           *)
FairSpec == Spec /\ WF_vars(Arrive) /\ WF_vars(PeekHead \/ TakeHead \/ TakeData)

-----------------------------------------------------------------------------
TypeOK ==
  /\ get.want \in {Any} \cup 0..Segments /\ get.count \in 0..Segments
  /\ get.sizes \in 0..get.count
  /\ Len(asked) <= MaxMessages /\ Len(delivered) <= Len(asked)

Whole(i) ==
  LET n == Added(asked[i])
  IN [count |-> n, tag |-> TRUE, data |-> [j \in 1..n |-> Word(i, "data", j)]]
Complete == IF cut THEN 1..(Len(asked) - 1) ELSE 1..Len(asked)

(* A message that receive returned is the next one that was sent, with its  *)
(* tag and all segments its header counts (Socket::receive).                *)
Delivered == \A i \in 1..Len(delivered) : i \in Complete => delivered[i] = Whole(i)

(* Between two messages the receiver stands at the beginning of a header:   *)
(* whatever the caller expected, the line is in step or the caller was told *)
(* by an exception.  This is where the model ends: Daemon::loop drops all   *)
(* lines when it catches one, but after one in the thread of a worker       *)
(* (worker.hpp:206) others may read what remains of the message.            *)
InStep ==
  get.pc = "rest" /\ arrived # <<>> =>
    arrived[1] = Word(Len(delivered) + 1, "count", arrived[1].n)

(* A receive that has begun comes to an end, unless the sender stops        *)
(* without closing its end.                                                 *)
Receiving == get.pc \notin {"rest", "raised"}
Ends == Receiving ~> ~Receiving
=============================================================================
