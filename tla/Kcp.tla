-------------------------------- MODULE Kcp --------------------------------
(***************************************************************************)
(* internal/gwell/upstream/gwell/kcp.go: the selective-repeat protocol     *)
(* that carries a camera's video over UDP, and the way session.go drives   *)
(* it.  One direction of one conversation: the sending half of one         *)
(* KCPConn, the receiving half of another, and a network that loses,       *)
(* repeats and reorders segments.                                          *)
(*                                                                         *)
(* A step is what one call does under KCPConn.mu.  Timers are abstracted:  *)
(* whatever waits for one may or may not find it elapsed at a flush.       *)
(* Messages fit one segment (frg = 0, as the comment on Recv says of the   *)
(* cameras), so cwnd, which NoDelay(_, _, _, 1) turns off, and fragments   *)
(* are left out.  Sequence numbers stay far below 2^31, where itimediff is *)
(* subtraction.                                                            *)
(***************************************************************************)
EXTENDS Integers, Sequences, FiniteSets

CONSTANTS
  Data,       \* messages
  SndWnd,     \* sndWnd of the sender
  RcvWnd,     \* rcvWnd of the receiver
  InitWnd,    \* rmtWnd before the first acknowledgement (IKCP_WND_RCV)
  DirectWnd,  \* the window BuildKCPAckSegment announces (128)
  Modes,      \* who reads and acknowledges, see mode
  Script,     \* bound: the messages Send is called with, in this order
  MaxFaults,  \* bound: segments the network loses or delivers twice
  MaxNet      \* bound: nothing is sent while so many segments are in flight

ASSUME KcpAssumption ==
  /\ SndWnd \in Nat \ {0} /\ RcvWnd \in Nat \ {0}
  /\ InitWnd \in 1 .. RcvWnd /\ DirectWnd \in 1 .. RcvWnd
  /\ Modes \subseteq {"plain", "data", "ctrl"}
  /\ Script \in Seq(Data)
  /\ {MaxFaults, MaxNet} \subseteq Nat

VARIABLES
  mode,      \* plain: the reader calls Recv when it likes; data, ctrl: the
             \* conversation of a session, which reads after every datagram
             \* and acknowledges each PUSH itself as well
  sent, got, \* history: what Send accepted, what Recv returned
  sndQueue, sndBuf, sndUna, sndNxt, rmtWnd, probeWait,  \* the sender
  rcvNxt, rcvBuf, rcvQueue, ackList, askTell,           \* the receiver
  net, late, \* segments in flight, and those of them that are overdue
  faults     \* how often the network has lost or repeated a segment

sender   == <<sndQueue, sndBuf, sndUna, sndNxt, rmtWnd, probeWait>>
receiver == <<rcvNxt, rcvBuf, rcvQueue, ackList, askTell>>
network  == <<net, late, faults>>
vars == <<mode, sent, got, sender, receiver, network>>

Push(s)        == [cmd |-> "PUSH", seg |-> s]
Ack(n, una, w) == [cmd |-> "ACK", sn |-> n, una |-> una, wnd |-> w]
Wask           == [cmd |-> "WASK"]
Wins(una, w)   == [cmd |-> "WINS", una |-> una, wnd |-> w]

\* A segment: its number and its message.  In sndBuf it also has been sent
\* (xmit > 0) or not.
Seg(n, d) == [sn |-> n, data |-> d]

Smaller(a, b) == IF a < b THEN a ELSE b

\* The receive window that is still free.
Wnd == RcvWnd - Len(rcvQueue)

\* Segments on the way to the receiver, and to the sender.
ToReceiver == {m \in net : m.cmd \in {"PUSH", "WASK"}}
ToSender   == net \ ToReceiver

-----------------------------------------------------------------------------
(* The sender.                                                             *)

Send ==
  /\ Len(sent) < Len(Script)
  /\ LET d == Script[Len(sent) + 1]
     IN  sent' = Append(sent, d) /\ sndQueue' = Append(sndQueue, d)
  /\ UNCHANGED <<mode, got, sndBuf, sndUna, sndNxt, rmtWnd, probeWait, receiver, network>>

\* How many queued messages fit the window sndUna .. sndUna+cwnd.
Fitting == LET room == sndUna + Smaller(SndWnd, rmtWnd) - sndNxt
           IN  IF room < 0 THEN 0 ELSE Smaller(room, Len(sndQueue))

\* (mutant) A closed window is not probed.
FlushNoProbe(again, ask) ==
  LET new == {Seg(sndNxt + i - 1, sndQueue[i]) : i \in 1 .. Fitting}
  IN  /\ Cardinality(ToReceiver) < MaxNet
      /\ sndBuf' = sndBuf \cup new
      /\ sndNxt' = sndNxt + Fitting
      /\ sndQueue' = SubSeq(sndQueue, Fitting + 1, Len(sndQueue))
      /\ probeWait' = (rmtWnd = 0)
      /\ net' = net \cup {Push(s) : s \in new \cup again}
      /\ UNCHANGED <<mode, sent, got, sndUna, rmtWnd, receiver, late, faults>>

\* flushLocked on the sending side.  The messages that fit the window get a
\* number and are sent; of the older segments, those whose timer ran out or
\* that enough later acknowledgements have passed over (again); and, when the
\* peer has announced a window of 0 for long enough, WASK.
Flush(again, ask) ==
  LET new  == {Seg(sndNxt + i - 1, sndQueue[i]) : i \in 1 .. Fitting}
      out  == {Push(s) : s \in new \cup again} \cup (IF ask THEN {Wask} ELSE {})
  IN  /\ ask => rmtWnd = 0 /\ probeWait
      /\ Cardinality(ToReceiver) < MaxNet
      /\ sndBuf' = sndBuf \cup new
      /\ sndNxt' = sndNxt + Fitting
      /\ sndQueue' = SubSeq(sndQueue, Fitting + 1, Len(sndQueue))
      /\ probeWait' = (rmtWnd = 0)
      /\ net' = net \cup out
      /\ UNCHANGED <<mode, sent, got, sndUna, rmtWnd, receiver, late, faults>>

SenderFlush == \E again \in SUBSET sndBuf, ask \in BOOLEAN : Flush(again, ask)

\* shrinkBuf: n is the oldest segment of buf, or the next one to be numbered.
Oldest(n, buf) == /\ n \in {s.sn : s \in buf} \cup {sndNxt}
                  /\ \A s \in buf : n <= s.sn

\* parseUna
AfterUna(una) == {s \in sndBuf : s.sn >= una}

\* parseACK: only a segment that is in flight.
AfterAck(n, buf) == IF \E u \in 0 .. n : Oldest(u, buf) /\ n < sndNxt
                    THEN {s \in buf : s.sn # n} ELSE buf

\* Input of an ACK: the window, everything below una, the segment itself.
InputAck(m) ==
  /\ m.cmd = "ACK"
  /\ rmtWnd' = m.wnd
  /\ sndBuf' = AfterAck(m.sn, AfterUna(m.una))
  /\ sndUna' \in {n \in 0 .. sndNxt : Oldest(n, sndBuf')}
  /\ UNCHANGED <<mode, sent, got, sndQueue, sndNxt, probeWait, receiver>>

InputWins(m) ==
  /\ m.cmd = "WINS"
  /\ rmtWnd' = m.wnd
  /\ sndBuf' = AfterUna(m.una)
  /\ sndUna' \in {n \in 0 .. sndNxt : Oldest(n, sndBuf')}
  /\ UNCHANGED <<mode, sent, got, sndQueue, sndNxt, probeWait, receiver>>

-----------------------------------------------------------------------------
(* The receiver.                                                           *)

\* The loop at the end of parseData and of Recv: the k buffered segments that
\* continue the queue, as many as there are and as fit, move to it.
MoveRun(buf, queue) ==
  LET Has(n)  == \E s \in buf : s.sn = n
      At(n)   == (CHOOSE s \in buf : s.sn = n).data
  IN  \E k \in 0 .. RcvWnd - Len(queue) :
        /\ \A i \in 1 .. k : Has(rcvNxt + i - 1)
        /\ k < RcvWnd - Len(queue) => ~Has(rcvNxt + k)
        /\ rcvQueue' = queue \o [i \in 1 .. k |-> At(rcvNxt + i - 1)]
        /\ rcvBuf' = {s \in buf : s.sn >= rcvNxt + k}
        /\ rcvNxt' = rcvNxt + k

\* (mutant) Segments go to the queue in the order in which they arrive.
AcceptUnordered(s) ==
  /\ ackList' = ackList \cup {s.sn}
  /\ rcvQueue' = Append(rcvQueue, s.data)
  /\ rcvNxt' = rcvNxt + 1
  /\ UNCHANGED rcvBuf

\* Input of a PUSH.  One that is too far ahead is dropped; an old one and a
\* duplicate are acknowledged again.
Accept(s) ==
  IF s.sn >= rcvNxt + RcvWnd THEN UNCHANGED <<rcvNxt, rcvBuf, rcvQueue, ackList>>
  ELSE /\ ackList' = ackList \cup {s.sn}
       /\ IF s.sn < rcvNxt \/ \E t \in rcvBuf : t.sn = s.sn
          THEN UNCHANGED <<rcvNxt, rcvBuf, rcvQueue>>
          ELSE MoveRun(rcvBuf \cup {s}, rcvQueue)

\* (mutant) The direct acknowledgement counts up to the segment it is for.
DirectAckNext(s) == {Ack(s.sn, s.sn + 1, DirectWnd)}

\* The acknowledgement the session adds to every PUSH of either conversation:
\* una is always the count of the data conversation, whatever it is then.
DirectAck(s) == {Ack(s.sn, una, DirectWnd) :
                   una \in IF mode = "ctrl" THEN 0 .. Len(Script) ELSE {rcvNxt'}}

\* A session reads all there is before it reads the next datagram.
Drained == mode # "plain" => rcvQueue = <<>>

InputPush(m) ==
  /\ m.cmd = "PUSH"
  /\ Drained
  /\ Accept(m.seg)
  /\ UNCHANGED <<mode, sent, got, sender, askTell>>

InputWask(m) ==
  /\ m.cmd = "WASK"
  /\ Drained
  /\ askTell' = TRUE
  /\ UNCHANGED <<mode, sent, got, sender, rcvNxt, rcvBuf, rcvQueue, ackList>>

\* flushLocked on the receiving side: the acknowledgements, and the window when
\* the peer asked for it.
ReceiverFlush ==
  LET out == {Ack(n, rcvNxt, Wnd) : n \in ackList}
               \cup (IF askTell THEN {Wins(rcvNxt, Wnd)} ELSE {})
  IN  /\ out # {}
      /\ Cardinality(ToSender) < MaxNet
      /\ net' = net \cup out
      /\ ackList' = {}
      /\ askTell' = FALSE
      /\ UNCHANGED <<mode, sent, got, sender, rcvNxt, rcvBuf, rcvQueue, late, faults>>

Recv ==
  /\ rcvQueue # <<>>
  /\ got' = Append(got, Head(rcvQueue))
  /\ MoveRun(rcvBuf, Tail(rcvQueue))
  /\ UNCHANGED <<mode, sent, sender, ackList, askTell, network>>

-----------------------------------------------------------------------------
(* The network.  What is overdue is delivered or lost before anything newer
   is overdue; apart from that it delivers in any order.                   *)

Input(m) == InputAck(m) \/ InputWins(m) \/ InputPush(m) \/ InputWask(m)

\* What reading m puts on the network at once.
Replies(m) == IF m.cmd = "PUSH" /\ mode # "plain" THEN {{a} : a \in DirectAck(m.seg)} ELSE {{}}

\* m arrives; left is what remains of it on the network.
Deliver(m, left) ==
  /\ Input(m)
  /\ \E reply \in Replies(m) : net' = (net \ {m}) \cup left \cup reply
  /\ late' = late \ {m}

Arrive   == \E m \in late : Deliver(m, {}) /\ UNCHANGED faults
Overtake == \E m \in net \ late : Deliver(m, {}) /\ UNCHANGED faults

Fault == faults < MaxFaults /\ faults' = faults + 1

Duplicate == Fault /\ \E m \in net : Deliver(m, {m})

Lose ==
  /\ Fault
  /\ \E m \in net : net' = net \ {m} /\ late' = late \ {m}
  /\ UNCHANGED <<mode, sent, got, sender, receiver>>

Age ==
  /\ late = {}
  /\ net # {}
  /\ late' = net
  /\ UNCHANGED <<mode, sent, got, sender, receiver, net, faults>>

-----------------------------------------------------------------------------
Init ==
  /\ mode \in Modes
  /\ sent = <<>> /\ got = <<>>
  /\ sndQueue = <<>> /\ sndBuf = {} /\ sndUna = 0 /\ sndNxt = 0
  /\ rmtWnd = InitWnd /\ probeWait = FALSE
  /\ rcvNxt = 0 /\ rcvBuf = {} /\ rcvQueue = <<>> /\ ackList = {} /\ askTell = FALSE
  /\ net = {} /\ late = {} /\ faults = 0

Next ==
  \/ Send \/ SenderFlush \/ ReceiverFlush \/ Recv
  \/ Arrive \/ Overtake \/ Duplicate \/ Lose \/ Age

Spec == Init /\ [][Next]_vars

\* Update runs every 10 ms and its timers do elapse, the session reads, and the
\* network delivers all but MaxFaults segments.
FairSpec ==
  /\ Spec
  /\ SF_vars(Flush(sndBuf, rmtWnd = 0 /\ probeWait))
  /\ SF_vars(ReceiverFlush) /\ WF_vars(Recv)
  /\ WF_vars(Arrive) /\ WF_vars(Age)

-----------------------------------------------------------------------------
Segs == [sn : Nat, data : Data]

SenderOK ==
  /\ sent \in Seq(Data) /\ sndQueue \in Seq(Data)
  /\ sndBuf \subseteq Segs /\ \A s \in sndBuf : s.sn < sndNxt
  /\ sndUna \in Nat /\ sndNxt \in Nat /\ rmtWnd \in Nat /\ probeWait \in BOOLEAN
ReceiverOK ==
  /\ got \in Seq(Data) /\ rcvQueue \in Seq(Data) /\ Len(rcvQueue) <= RcvWnd
  /\ rcvBuf \subseteq Segs /\ rcvNxt \in Nat /\ ackList \subseteq Nat /\ askTell \in BOOLEAN
NetworkOK ==
  /\ late \subseteq net
  /\ faults \in Nat
  /\ \A m \in net : \/ m.cmd = "PUSH" /\ m.seg \in Segs
                    \/ m.cmd = "ACK" /\ m.sn \in Nat /\ m.una \in Nat /\ m.wnd \in Nat
                    \/ m.cmd = "WASK"
                    \/ m.cmd = "WINS" /\ m.una \in Nat /\ m.wnd \in Nat

(* Types; what is numbered has a number below sndNxt, and the receive queue
   does not outgrow the window.                                            *)
TypeOK == mode \in Modes /\ SenderOK /\ ReceiverOK /\ NetworkOK

(* The sender lets go of a segment only when the receiver has it: whatever is
   numbered and no longer in sndBuf can be, or has been, put in order.     *)
ReleasedIsHeld ==
  \A n \in 0 .. sndNxt - 1 :
    \/ n < rcvNxt
    \/ \E s \in rcvBuf : s.sn = n
    \/ \E s \in sndBuf : s.sn = n

(* A conversation is a FIFO queue: what Recv returns is what Send was given, in
   order, once each.                                                       *)
Fifo == INSTANCE ReliableFifo WITH queue <- SubSeq(sent, Len(got) + 1, Len(sent))

ImplementsFifo == Fifo!Spec

(* A message accepted by Send is returned by Recv in the end, also across a full
   window whose reopening is announced by a segment that is lost.          *)
Delivered == \A k \in 1 .. Len(Script) : Len(sent) >= k ~> Len(got) >= k
=============================================================================
