------------------------------ MODULE KcpProofs ------------------------------
(***************************************************************************)
(* What holds of a KCP conversation for any windows, any messages and any  *)
(* network: it is a first-in first-out queue, and what the sender lets go  *)
(* of has arrived.                                                         *)
(***************************************************************************)
EXTENDS Kcp, SequenceTheorems, TLAPS

\* A segment carries the message its number says.
IsSent(s) == s \in Segs /\ s.sn < sndNxt /\ s.data = sent[s.sn + 1]

\* The numbered messages are the first of sent, the queue is the rest.
SenderInv ==
  /\ sent \in Seq(Data) /\ sndQueue \in Seq(Data) /\ sndNxt \in Nat
  /\ Len(sent) = sndNxt + Len(sndQueue)
  /\ \A i \in 1 .. Len(sndQueue) : sndQueue[i] = sent[sndNxt + i]

Cmds == {"PUSH", "ACK", "WASK", "WINS"}

SegmentInv ==
  /\ \A s \in sndBuf : IsSent(s)
  /\ \A s \in rcvBuf : IsSent(s)
  /\ \A m \in net : m.cmd \in Cmds /\ (m.cmd = "PUSH" => IsSent(m.seg))

\* What is returned and what is queued are the first rcvNxt messages of sent.
ReceiverInv ==
  /\ got \in Seq(Data) /\ rcvQueue \in Seq(Data) /\ rcvNxt \in Nat
  /\ rcvNxt = Len(got) + Len(rcvQueue)
  /\ rcvNxt <= sndNxt
  /\ \A i \in 1 .. Len(rcvQueue) : rcvQueue[i] = sent[Len(got) + i]

IInv == SenderInv /\ SegmentInv /\ ReceiverInv

LEMMA InitIInv == Init => IInv
  BY DEF Init, IInv, SenderInv, SegmentInv, ReceiverInv

-----------------------------------------------------------------------------
(* Sequences.                                                              *)

LEMMA AppendAt ==
  ASSUME NEW S, NEW s \in Seq(S), NEW e \in S
  PROVE  /\ Append(s, e) \in Seq(S) /\ Len(Append(s, e)) = Len(s) + 1
         /\ \A i \in 1 .. Len(s) : Append(s, e)[i] = s[i]
         /\ Append(s, e)[Len(s) + 1] = e
  OBVIOUS

LEMMA TailAt ==
  ASSUME NEW S, NEW s \in Seq(S), s # <<>>
  PROVE  /\ Tail(s) \in Seq(S) /\ Len(Tail(s)) = Len(s) - 1 /\ Len(s) > 0
         /\ \A i \in 1 .. Len(s) - 1 : Tail(s)[i] = s[i + 1]
         /\ Head(s) = s[1] /\ Head(s) \in S
  OBVIOUS

LEMMA RestAt ==
  ASSUME NEW S, NEW s \in Seq(S), NEW k \in 0 .. Len(s)
  PROVE  /\ SubSeq(s, k + 1, Len(s)) \in Seq(S)
         /\ Len(SubSeq(s, k + 1, Len(s))) = Len(s) - k
         /\ \A i \in 1 .. Len(s) - k : SubSeq(s, k + 1, Len(s))[i] = s[k + i]
  OBVIOUS

LEMMA FunctionIsSeq ==
  ASSUME NEW S, NEW n \in Nat, NEW f \in [1 .. n -> S]
  PROVE  f \in Seq(S) /\ Len(f) = n
  OBVIOUS

LEMMA ConcatAt ==
  ASSUME NEW S, NEW a \in Seq(S), NEW b \in Seq(S)
  PROVE  /\ a \o b \in Seq(S) /\ Len(a \o b) = Len(a) + Len(b)
         /\ \A i \in 1 .. Len(a) + Len(b) :
              (a \o b)[i] = IF i <= Len(a) THEN a[i] ELSE b[i - Len(a)]
  OBVIOUS

(* Appending to a sequence appends to what is left of it. *)
LEMMA RestOfAppend ==
  ASSUME NEW S, NEW s \in Seq(S), NEW e \in S, NEW k \in 0 .. Len(s)
  PROVE  SubSeq(Append(s, e), k + 1, Len(Append(s, e))) = Append(SubSeq(s, k + 1, Len(s)), e)
<1> DEFINE l == SubSeq(Append(s, e), k + 1, Len(Append(s, e)))
           r == Append(SubSeq(s, k + 1, Len(s)), e)
<1>1. /\ Append(s, e) \in Seq(S) /\ Len(Append(s, e)) = Len(s) + 1
      /\ k \in 0 .. Len(Append(s, e))
  BY AppendAt
<1>2. /\ l \in Seq(S) /\ Len(l) = Len(s) + 1 - k
      /\ \A i \in 1 .. Len(s) + 1 - k : l[i] = Append(s, e)[k + i]
  <2> PICK a \in Seq(S) : a = Append(s, e)
    BY <1>1
  <2>1. Len(a) = Len(s) + 1 /\ k \in 0 .. Len(a) /\ l = SubSeq(a, k + 1, Len(a))
    BY <1>1
  <2> HIDE DEF l
  <2>2. l \in Seq(S) /\ Len(l) = Len(a) - k /\ \A i \in 1 .. Len(a) - k : l[i] = a[k + i]
    BY <2>1, RestAt
  <2>3. Len(a) - k = Len(s) + 1 - k
    BY <2>1
  <2>4. \A i : l[i] = a[k + i] => l[i] = Append(s, e)[k + i]
    OBVIOUS
  <2> QED
    BY <2>2, <2>3, <2>4, Zenon
<1>3. /\ r \in Seq(S) /\ Len(r) = Len(s) - k + 1
      /\ \A i \in 1 .. Len(s) - k : r[i] = s[k + i]
      /\ r[Len(s) - k + 1] = e
  BY RestAt, AppendAt
<1>4. \A i \in 1 .. Len(l) : l[i] = r[i]
  <2> SUFFICES ASSUME NEW i \in 1 .. Len(s) + 1 - k PROVE l[i] = r[i]
    BY <1>2
  <2>1. CASE i <= Len(s) - k
    <3>1. k + i \in 1 .. Len(s)
      BY <2>1
    <3> QED
      BY <1>2, <1>3, <2>1, <3>1, AppendAt
  <2>2. CASE i = Len(s) + 1 - k
    <3>1. k + i = Len(s) + 1
      BY <2>2
    <3> QED
      BY <1>2, <1>3, <2>2, <3>1, AppendAt
  <2> QED
    BY <2>1, <2>2
<1>5. Len(l) = Len(r)
  BY <1>2, <1>3
<1> HIDE DEF l, r
<1>6. l = r
  BY <1>2, <1>3, <1>4, <1>5, SeqEqual
<1> QED
  BY <1>6 DEF l, r

(* The first of what is left, and the rest of it. *)
LEMMA RestOfRest ==
  ASSUME NEW S, NEW s \in Seq(S), NEW k \in 0 .. Len(s) - 1
  PROVE  LET r == SubSeq(s, k + 1, Len(s))
         IN  r # <<>> /\ Head(r) = s[k + 1] /\ Tail(r) = SubSeq(s, k + 2, Len(s))
<1> DEFINE r == SubSeq(s, k + 1, Len(s))
           t == SubSeq(s, (k + 1) + 1, Len(s))
<1>1. k \in 0 .. Len(s) /\ k + 1 \in 0 .. Len(s) /\ Len(s) \in Nat
  OBVIOUS
<1>2. /\ r \in Seq(S) /\ Len(r) = Len(s) - k
      /\ \A i \in 1 .. Len(s) - k : r[i] = s[k + i]
  BY <1>1, RestAt
<1>3. /\ t \in Seq(S) /\ Len(t) = Len(s) - (k + 1)
      /\ \A i \in 1 .. Len(s) - (k + 1) : t[i] = s[(k + 1) + i]
  BY <1>1, RestAt
<1> HIDE DEF r, t
<1>4. r # <<>>
  BY <1>1, <1>2
<1>5. /\ Tail(r) \in Seq(S) /\ Len(Tail(r)) = Len(r) - 1
      /\ \A i \in 1 .. Len(r) - 1 : Tail(r)[i] = r[i + 1]
      /\ Head(r) = r[1]
  BY <1>2, <1>4, TailAt
<1>6. Len(Tail(r)) = Len(t)
  BY <1>2, <1>3, <1>5
<1>7. \A i \in 1 .. Len(t) : Tail(r)[i] = t[i]
  <2> SUFFICES ASSUME NEW i \in 1 .. Len(t) PROVE Tail(r)[i] = t[i]
    OBVIOUS
  <2>1. i \in 1 .. Len(r) - 1 /\ i + 1 \in 1 .. Len(s) - k /\ k + (i + 1) = (k + 1) + i
    BY <1>2, <1>3
  <2> QED
    BY <1>2, <1>3, <1>5, <2>1
<1>8. Tail(r) = t
  BY <1>3, <1>5, <1>6, <1>7, SeqEqual
<1>9. Head(r) = s[k + 1]
  <2>1. 1 \in 1 .. Len(s) - k
    BY <1>1
  <2> QED
    BY <1>2, <1>5, <2>1
<1>10. (k + 1) + 1 = k + 2
  OBVIOUS
<1> QED
  BY <1>4, <1>8, <1>9, <1>10 DEF r, t
-----------------------------------------------------------------------------
(* The sender.                                                             *)

LEMMA SentStays ==
  ASSUME UNCHANGED <<sent, sndNxt>>, NEW s
  PROVE  IsSent(s)' <=> IsSent(s)
  BY DEF IsSent

LEMMA SendKeeps == IInv /\ Send => IInv'
<1> SUFFICES ASSUME IInv, Send PROVE IInv'
  OBVIOUS
<1> USE DEF IInv
<1>a. PICK d : d = Script[Len(sent) + 1]
  OBVIOUS
<1>b. d \in Data
  BY <1>a, KcpAssumption DEF KcpAssumption, Send, SenderInv
<1>c. /\ sent \in Seq(Data) /\ sndQueue \in Seq(Data)
      /\ sent' = Append(sent, d) /\ sndQueue' = Append(sndQueue, d)
  BY <1>a DEF Send, SenderInv
<1>1. /\ sent' \in Seq(Data) /\ Len(sent') = Len(sent) + 1
      /\ \A i \in 1 .. Len(sent) : sent'[i] = sent[i]
      /\ sent'[Len(sent) + 1] = d
  BY <1>b, <1>c, AppendAt, ZenonT(60)
<1>2. /\ sndQueue' \in Seq(Data) /\ Len(sndQueue') = Len(sndQueue) + 1
      /\ \A i \in 1 .. Len(sndQueue) : sndQueue'[i] = sndQueue[i]
      /\ sndQueue'[Len(sndQueue) + 1] = d
  BY <1>b, <1>c, AppendAt, ZenonT(60)
<1>3. UNCHANGED <<sndNxt, sndBuf, rcvBuf, net, got, rcvQueue, rcvNxt>>
  BY DEF Send, receiver, network
<1>4. \A s : IsSent(s) => IsSent(s)'
  BY <1>1, <1>3 DEF IsSent, SenderInv, Segs
<1>5. SenderInv'
  <2> SUFFICES ASSUME NEW i \in 1 .. Len(sndQueue) + 1
               PROVE  sndQueue'[i] = sent'[sndNxt + i]
    BY <1>1, <1>2, <1>3 DEF SenderInv
  <2>1. CASE i <= Len(sndQueue)
    <3>1. sndNxt + i \in 1 .. Len(sent) /\ i \in 1 .. Len(sndQueue)
      BY <2>1 DEF SenderInv
    <3> QED
      BY <1>1, <1>2, <3>1 DEF SenderInv
  <2>2. CASE i = Len(sndQueue) + 1
    <3>1. sndNxt + i = Len(sent) + 1
      BY <2>2 DEF SenderInv
    <3> QED
      BY <1>1, <1>2, <2>2, <3>1
  <2> QED
    BY <2>1, <2>2 DEF SenderInv
<1>6. SegmentInv'
  BY <1>3, <1>4 DEF SegmentInv
<1>7. ReceiverInv'
  <2>1. \A i \in 1 .. Len(rcvQueue) : Len(got) + i \in 1 .. Len(sent)
    BY DEF SenderInv, ReceiverInv
  <2> QED
    BY <1>1, <1>3, <2>1 DEF ReceiverInv
<1> QED
  BY <1>5, <1>6, <1>7

LEMMA FittingBound ==
  ASSUME SenderInv, sndUna \in Int, rmtWnd \in Int
  PROVE  Fitting \in 0 .. Len(sndQueue)
  BY KcpAssumption DEF KcpAssumption, Fitting, Smaller, SenderInv

\* The windows are numbers; what is overdue is in flight.
WindowInv ==
  /\ late \subseteq net
  /\ sndUna \in Nat /\ rmtWnd \in Int
  /\ \A m \in net : m.cmd \in {"ACK", "WINS"} => m.wnd \in Int

(* A flush numbers messages from the front of the queue.                   *)
LEMMA FlushKeeps ==
  ASSUME IInv, WindowInv, SenderFlush
  PROVE  /\ IInv'
         /\ \A n \in 0 .. sndNxt' - 1 : n < sndNxt \/ \E s \in sndBuf' : s.sn = n
         /\ \A s \in sndBuf' : s \in sndBuf \/ s.sn >= sndNxt
         /\ sndBuf \subseteq sndBuf' /\ sndNxt <= sndNxt'
         /\ \A m \in net' : m \in net \/ m.cmd \in {"PUSH", "WASK"}
<1> USE DEF IInv
<1> PICK f \in 0 .. Len(sndQueue) : f = Fitting
  BY FittingBound DEF WindowInv
<1> PICK again \in SUBSET sndBuf, ask \in BOOLEAN : Flush(again, ask)
  BY DEF SenderFlush
<1> DEFINE number(i) == sndNxt + i - 1
           new == {Seg(number(i), sndQueue[i]) : i \in 1 .. f}
<1>1. /\ sndBuf' = sndBuf \cup new /\ sndNxt' = sndNxt + f
      /\ sndQueue' = SubSeq(sndQueue, f + 1, Len(sndQueue))
      /\ net' = net \cup ({Push(s) : s \in new \cup again} \cup (IF ask THEN {Wask} ELSE {}))
      /\ UNCHANGED <<sent, got, rcvQueue, rcvNxt, rcvBuf>>
  BY DEF Flush, receiver
<1>2. \A s \in new : IsSent(s)' /\ s.sn >= sndNxt
  <2> SUFFICES ASSUME NEW i \in 1 .. f, NEW s, s = Seg(sndNxt + i - 1, sndQueue[i])
               PROVE  IsSent(s)' /\ s.sn >= sndNxt
    OBVIOUS
  <2>1. /\ i \in 1 .. Len(sndQueue) /\ sndQueue[i] \in Data
        /\ sndQueue[i] = sent[sndNxt + i] /\ (sndNxt + i - 1) + 1 = sndNxt + i
    BY DEF SenderInv
  <2>2. sndNxt + i - 1 \in Nat /\ sndNxt + i - 1 < sndNxt + f /\ sndNxt + i - 1 >= sndNxt
    BY DEF SenderInv
  <2> QED
    BY <1>1, <2>1, <2>2 DEF IsSent, Segs, Seg
<1>3. \A s : IsSent(s) => IsSent(s)'
  BY <1>1 DEF IsSent, SenderInv, Segs
<1>4. \A n \in 0 .. sndNxt' - 1 : n < sndNxt \/ \E s \in new : s.sn = n
  <2> SUFFICES ASSUME NEW n \in 0 .. sndNxt' - 1, ~(n < sndNxt)
               PROVE  \E s \in new : s.sn = n
    OBVIOUS
  <2>1. n - sndNxt + 1 \in 1 .. f /\ sndNxt + (n - sndNxt + 1) - 1 = n
    BY <1>1 DEF SenderInv
  <2>2. Seg(sndNxt + (n - sndNxt + 1) - 1, sndQueue[n - sndNxt + 1]) \in new
    BY <2>1
  <2> QED
    BY <2>1, <2>2 DEF Seg
<1> HIDE DEF new
<1>5. \A m \in net' : m \in net \/ (m = Wask) \/ \E s \in new \cup again : m = Push(s)
  BY <1>1
<1>6. \A m \in net' : m \in net \/ m.cmd \in {"PUSH", "WASK"}
  BY <1>5 DEF Wask, Push
<1>7. SegmentInv'
  <2>1. \A s \in sndBuf' : IsSent(s)'
    BY <1>1, <1>2, <1>3 DEF SegmentInv
  <2>2. \A s \in rcvBuf' : IsSent(s)'
    BY <1>1, <1>3 DEF SegmentInv
  <2>3. ASSUME NEW m \in net' PROVE m.cmd \in Cmds /\ (m.cmd = "PUSH" => IsSent(m.seg)')
    <3>1. CASE m \in net
      BY <1>3, <3>1 DEF SegmentInv
    <3>2. CASE m = Wask
      BY <3>2 DEF Wask, Cmds
    <3>3. ASSUME NEW s \in new \cup again, m = Push(s)
          PROVE  m.cmd \in Cmds /\ (m.cmd = "PUSH" => IsSent(m.seg)')
      BY <1>2, <1>3, <3>3 DEF Push, Cmds, SegmentInv
    <3> QED
      BY <1>5, <3>1, <3>2, <3>3
  <2> QED
    BY <2>1, <2>2, <2>3 DEF SegmentInv
<1>8. SenderInv'
  <2>1. /\ sndQueue' \in Seq(Data) /\ Len(sndQueue') = Len(sndQueue) - f
        /\ \A i \in 1 .. Len(sndQueue) - f : sndQueue'[i] = sndQueue[f + i]
    BY <1>1, RestAt DEF SenderInv
  <2>2. ASSUME NEW i \in 1 .. Len(sndQueue')
        PROVE  sndQueue'[i] = sent'[sndNxt' + i]
    <3>1. /\ i \in 1 .. Len(sndQueue) - f /\ f + i \in 1 .. Len(sndQueue)
          /\ sndNxt + (f + i) = sndNxt' + i
      BY <1>1, <2>1, <2>2 DEF SenderInv
    <3> QED
      BY <1>1, <2>1, <3>1 DEF SenderInv
  <2>3. /\ sent' \in Seq(Data) /\ sndNxt' \in Nat /\ sndQueue' \in Seq(Data)
        /\ Len(sent') = sndNxt' + Len(sndQueue')
    BY <1>1, <2>1, SMTT(40) DEF SenderInv
  <2> QED
    BY <2>2, <2>3 DEF SenderInv
<1>9. ReceiverInv' /\ sndNxt <= sndNxt'
  BY <1>1 DEF ReceiverInv, SenderInv
<1>10. /\ \A n \in 0 .. sndNxt' - 1 : n < sndNxt \/ \E s \in sndBuf' : s.sn = n
       /\ \A s \in sndBuf' : s \in sndBuf \/ s.sn >= sndNxt
       /\ sndBuf \subseteq sndBuf'
  BY <1>1, <1>2, <1>4
<1> QED
  BY <1>6, <1>7, <1>8, <1>9, <1>10

-----------------------------------------------------------------------------
(* The receiver.                                                           *)

\* Segment n has arrived.
Held(n) == n \in Nat /\ (n < rcvNxt \/ \E s \in rcvBuf : s.sn = n)

\* What the receiver held it holds.
Holds == rcvNxt <= rcvNxt' /\ \A s \in rcvBuf : s.sn < rcvNxt' \/ s \in rcvBuf'

(* What moves to the queue is what comes next, so it continues what g messages
   and the queue have of sent.                                             *)
LEMMA MoveRunKeeps ==
  ASSUME SenderInv, UNCHANGED <<sent, sndNxt>>, rcvNxt \in Nat, rcvNxt <= sndNxt,
         NEW buf, \A s \in buf : IsSent(s),
         NEW queue \in Seq(Data), NEW g \in Nat, rcvNxt = g + Len(queue),
         \A i \in 1 .. Len(queue) : queue[i] = sent[g + i],
         MoveRun(buf, queue)
  PROVE  /\ rcvQueue' \in Seq(Data) /\ rcvNxt' \in Nat /\ rcvNxt <= rcvNxt'
         /\ rcvNxt' = g + Len(rcvQueue') /\ rcvNxt' <= sndNxt
         /\ \A i \in 1 .. Len(rcvQueue') : rcvQueue'[i] = sent[g + i]
         /\ rcvBuf' \subseteq buf
         /\ \A s \in buf : s.sn < rcvNxt' \/ s \in rcvBuf'
         /\ Len(rcvQueue') <= RcvWnd
         /\ Len(rcvQueue') < RcvWnd => \A s \in rcvBuf' : s.sn # rcvNxt'
         /\ (\A s \in buf : s.sn # rcvNxt) => rcvNxt' = rcvNxt
<1> DEFINE Has(n) == \E s \in buf : s.sn = n
           At(n)  == (CHOOSE s \in buf : s.sn = n).data
<1>1. PICK k \in 0 .. RcvWnd - Len(queue) :
        /\ \A i \in 1 .. k : Has(rcvNxt + i - 1)
        /\ k < RcvWnd - Len(queue) => ~Has(rcvNxt + k)
        /\ rcvQueue' = queue \o [i \in 1 .. k |-> At(rcvNxt + i - 1)]
        /\ rcvBuf' = {s \in buf : s.sn >= rcvNxt + k}
        /\ rcvNxt' = rcvNxt + k
  BY DEF MoveRun
<1> HIDE DEF At
<1>2. \A i \in 1 .. k : /\ At(rcvNxt + i - 1) \in Data
                        /\ At(rcvNxt + i - 1) = sent[rcvNxt + i]
                        /\ rcvNxt + i <= sndNxt
  <2> SUFFICES ASSUME NEW i \in 1 .. k
               PROVE  /\ At(rcvNxt + i - 1) \in Data
                      /\ At(rcvNxt + i - 1) = sent[rcvNxt + i]
                      /\ rcvNxt + i <= sndNxt
    OBVIOUS
  <2>a. PICK n \in Nat : n = rcvNxt + i - 1
    OBVIOUS
  <2>1. PICK s \in buf : s = (CHOOSE t \in buf : t.sn = n) /\ s.sn = n
    BY <1>1, <2>a
  <2>2. s.data \in Data /\ s.data = sent[n + 1] /\ n < sndNxt
    BY <2>1 DEF IsSent, Segs
  <2>3. n + 1 = rcvNxt + i
    BY <2>a
  <2>4. At(rcvNxt + i - 1) = s.data
    BY <2>a, <2>1 DEF At
  <2>5. rcvNxt + i <= sndNxt
    BY <2>2, <2>3 DEF SenderInv
  <2> QED
    BY <2>2, <2>3, <2>4, <2>5
<1>3. PICK run : run = [i \in 1 .. k |-> At(rcvNxt + i - 1)]
  OBVIOUS
<1>4. /\ run \in Seq(Data) /\ Len(run) = k /\ k \in Nat
      /\ \A i \in 1 .. k : run[i] = sent[rcvNxt + i] /\ rcvNxt + i <= sndNxt
  <2>1. \A i \in 1 .. k : run[i] = At(rcvNxt + i - 1)
    BY <1>3
  <2>2. run \in [1 .. k -> Data]
    BY <1>2, <1>3
  <2>3. k \in Nat
    OBVIOUS
  <2>4. run \in Seq(Data) /\ Len(run) = k
    BY <2>2, <2>3, FunctionIsSeq
  <2> QED
    BY <1>2, <2>1, <2>3, <2>4
<1>5. /\ rcvQueue' = queue \o run
      /\ rcvNxt' = rcvNxt + k /\ rcvBuf' = {s \in buf : s.sn >= rcvNxt + k}
      /\ k < RcvWnd - Len(queue) => ~Has(rcvNxt + k)
  BY <1>1, <1>3
<1>6. /\ rcvQueue' \in Seq(Data) /\ Len(rcvQueue') = Len(queue) + k
      /\ \A i \in 1 .. Len(queue) : rcvQueue'[i] = queue[i]
      /\ \A i \in Len(queue) + 1 .. Len(queue) + k : rcvQueue'[i] = run[i - Len(queue)]
  <2>a. run \in Seq(Data) /\ queue \in Seq(Data)
    BY <1>4
  <2>1. /\ queue \o run \in Seq(Data) /\ Len(queue \o run) = Len(queue) + Len(run)
        /\ \A i \in 1 .. Len(queue) + Len(run) :
              (queue \o run)[i] = IF i <= Len(queue) THEN queue[i] ELSE run[i - Len(queue)]
    BY ONLY <2>a, ConcatAt
  <2> PICK r : r = queue \o run
    OBVIOUS
  <2>2. /\ r \in Seq(Data) /\ Len(r) = Len(queue) + k
        /\ \A i \in 1 .. Len(queue) + k :
              r[i] = IF i <= Len(queue) THEN queue[i] ELSE run[i - Len(queue)]
    BY <1>4, <2>1
  <2>3. rcvQueue' = r /\ Len(queue) \in Nat /\ k \in Nat
    BY <1>4, <1>5
  <2> QED
    BY <2>2, <2>3
<1>7. \A i \in 1 .. Len(rcvQueue') : rcvQueue'[i] = sent[g + i]
  <2> SUFFICES ASSUME NEW i \in 1 .. Len(queue) + k PROVE rcvQueue'[i] = sent[g + i]
    BY <1>6
  <2>1. CASE i <= Len(queue)
    BY <1>6, <2>1
  <2>2. CASE i > Len(queue)
    <3>1. i - Len(queue) \in 1 .. k /\ rcvNxt + (i - Len(queue)) = g + i
      BY <2>2
    <3> QED
      BY <1>4, <1>6, <2>2, <3>1
  <2> QED
    BY <2>1, <2>2
<1>8. rcvNxt' <= sndNxt
  <2>1. k = 0 \/ rcvNxt + k <= sndNxt
    BY <1>4
  <2> QED
    BY <1>5, <2>1
<1>9. /\ rcvBuf' \subseteq buf
      /\ \A s \in buf : s.sn < rcvNxt' \/ s \in rcvBuf'
  BY <1>5 DEF IsSent, Segs
<1>10. Len(rcvQueue') <= RcvWnd
  BY <1>6, KcpAssumption DEF KcpAssumption
<1>11. Len(rcvQueue') < RcvWnd => \A s \in rcvBuf' : s.sn # rcvNxt'
  BY <1>5, <1>6, KcpAssumption DEF KcpAssumption
<1>12. (\A s \in buf : s.sn # rcvNxt) => rcvNxt' = rcvNxt
  <2>1. k = 0 \/ (1 \in 1 .. k /\ rcvNxt + 1 - 1 = rcvNxt)
    BY <1>4
  <2>2. k = 0 \/ Has(rcvNxt)
    BY <1>1, <2>1
  <2> QED
    BY <1>5, <2>2
<1> QED
  BY <1>4, <1>5, <1>6, <1>7, <1>8, <1>9, <1>10, <1>11, <1>12

-----------------------------------------------------------------------------
(* Every step.                                                             *)

LEMMA RecvKeeps ==
  ASSUME IInv, Recv
  PROVE  /\ IInv' /\ Holds /\ rcvBuf' \subseteq rcvBuf /\ Len(rcvQueue') <= RcvWnd
         /\ (\A s \in rcvBuf : s.sn # rcvNxt) => rcvNxt' = rcvNxt
<1> USE DEF IInv
<1>1. /\ UNCHANGED <<sent, sndQueue, sndNxt, sndBuf, net>>
      /\ rcvQueue # <<>> /\ got' = Append(got, Head(rcvQueue))
      /\ MoveRun(rcvBuf, Tail(rcvQueue))
  BY DEF Recv, sender, network
<1>2. /\ Tail(rcvQueue) \in Seq(Data) /\ Len(Tail(rcvQueue)) = Len(rcvQueue) - 1
      /\ Len(rcvQueue) > 0 /\ Head(rcvQueue) \in Data
      /\ \A i \in 1 .. Len(rcvQueue) - 1 : Tail(rcvQueue)[i] = rcvQueue[i + 1]
  BY <1>1, TailAt DEF ReceiverInv
<1>3. got' \in Seq(Data) /\ Len(got') = Len(got) + 1
  <2>1. got \in Seq(Data)
    BY DEF ReceiverInv
  <2> QED
    BY <1>1, <1>2, <2>1, AppendAt, Zenon
<1>4. PICK q \in Seq(Data) : q = Tail(rcvQueue)
  BY <1>2
<1>5. PICK g \in Nat : g = Len(got')
  BY <1>3
<1>6. rcvNxt = g + Len(q)
  BY <1>2, <1>3, <1>4, <1>5 DEF ReceiverInv
<1>7. \A i \in 1 .. Len(q) : q[i] = sent[g + i]
  <2> SUFFICES ASSUME NEW i \in 1 .. Len(q) PROVE q[i] = sent[g + i]
    OBVIOUS
  <2>1. /\ i \in 1 .. Len(rcvQueue) - 1 /\ i + 1 \in 1 .. Len(rcvQueue)
        /\ Len(got) + (i + 1) = g + i
    BY <1>2, <1>3, <1>4, <1>5 DEF ReceiverInv
  <2>2. q[i] = rcvQueue[i + 1]
    BY <1>2, <1>4, <2>1
  <2> QED
    BY <2>1, <2>2 DEF ReceiverInv
<1>8. /\ rcvQueue' \in Seq(Data) /\ rcvNxt' \in Nat
      /\ rcvNxt' = g + Len(rcvQueue') /\ rcvNxt' <= sndNxt
      /\ \A i \in 1 .. Len(rcvQueue') : rcvQueue'[i] = sent[g + i]
      /\ rcvBuf' \subseteq rcvBuf /\ Holds /\ Len(rcvQueue') <= RcvWnd
      /\ (\A s \in rcvBuf : s.sn # rcvNxt) => rcvNxt' = rcvNxt
  <2>1. MoveRun(rcvBuf, q) /\ UNCHANGED <<sent, sndNxt>>
    BY <1>1, <1>4
  <2>2. rcvNxt \in Nat /\ rcvNxt <= sndNxt /\ \A s \in rcvBuf : IsSent(s)
    BY DEF ReceiverInv, SegmentInv
  <2> QED
    BY <1>6, <1>7, <2>1, <2>2, MoveRunKeeps DEF Holds
<1>9. SenderInv' /\ ReceiverInv'
  BY <1>1, <1>3, <1>5, <1>8 DEF SenderInv, ReceiverInv
<1>10. SegmentInv'
  BY <1>1, <1>8, SentStays DEF SegmentInv
<1> QED
  BY <1>8, <1>9, <1>10

(* What arrives for the sender only shortens sndBuf.                       *)
LEMMA AckInputKeeps ==
  ASSUME NEW m, InputAck(m) \/ InputWins(m)
  PROVE  /\ sndBuf' \subseteq sndBuf
         /\ UNCHANGED <<sent, got, sndQueue, sndNxt, rcvNxt, rcvBuf, rcvQueue>>
  BY DEF InputAck, InputWins, AfterAck, AfterUna, receiver

(* A segment that is accepted is one that was sent.                        *)
LEMMA PushKeeps ==
  ASSUME IInv, NEW m, InputPush(m), IsSent(m.seg)
  PROVE  /\ ReceiverInv' /\ SenderInv'
         /\ UNCHANGED <<sent, sndNxt, sndBuf>>
         /\ \A s \in rcvBuf' : IsSent(s)
         /\ Holds /\ (Len(rcvQueue') <= RcvWnd \/ rcvQueue' = rcvQueue)
         /\ ackList' \subseteq ackList \cup {m.seg.sn}
         /\ Held(m.seg.sn)' \/ (m.seg.sn >= rcvNxt + RcvWnd /\ ackList' = ackList)
         /\ \/ UNCHANGED <<rcvNxt, rcvBuf>>
            \/ Len(rcvQueue') < RcvWnd /\ \A s \in rcvBuf' : s.sn # rcvNxt'
            \/ Len(rcvQueue') = RcvWnd /\ got' = got
<1> USE DEF IInv
<1>1. UNCHANGED <<sent, got, sndQueue, sndNxt, sndBuf>> /\ Accept(m.seg)
  BY DEF InputPush, sender
<1>a. m.seg.sn \in Nat
  BY DEF IsSent, Segs
<1>2. CASE MoveRun(rcvBuf \cup {m.seg}, rcvQueue)
  <2>a. PICK buf : buf = rcvBuf \cup {m.seg}
    OBVIOUS
  <2>b. PICK queue \in Seq(Data) : queue = rcvQueue
    BY DEF ReceiverInv
  <2>c. PICK g \in Nat : g = Len(got)
    BY DEF ReceiverInv
  <2>1. MoveRun(buf, queue) /\ UNCHANGED <<sent, sndNxt>>
    BY <1>1, <1>2, <2>a, <2>b
  <2>2. /\ rcvNxt \in Nat /\ rcvNxt <= sndNxt /\ \A s \in buf : IsSent(s)
        /\ rcvNxt = g + Len(queue)
        /\ \A i \in 1 .. Len(queue) : queue[i] = sent[g + i]
    BY <2>a, <2>b, <2>c DEF ReceiverInv, SegmentInv
  <2>3. /\ rcvQueue' \in Seq(Data) /\ rcvNxt' \in Nat
        /\ rcvNxt' = g + Len(rcvQueue') /\ rcvNxt' <= sndNxt
        /\ \A i \in 1 .. Len(rcvQueue') : rcvQueue'[i] = sent[g + i]
        /\ rcvBuf' \subseteq buf
        /\ rcvNxt <= rcvNxt' /\ \A s \in buf : s.sn < rcvNxt' \/ s \in rcvBuf'
        /\ Len(rcvQueue') <= RcvWnd
        /\ Len(rcvQueue') < RcvWnd => \A s \in rcvBuf' : s.sn # rcvNxt'
    BY <2>1, <2>2, MoveRunKeeps
  <2>4. Len(rcvQueue') < RcvWnd \/ Len(rcvQueue') = RcvWnd
    BY <2>3, KcpAssumption DEF KcpAssumption
  <2>5. ReceiverInv' /\ SenderInv'
    BY <1>1, <2>2, <2>3, <2>c DEF ReceiverInv, SenderInv
  <2>6. Holds /\ Held(m.seg.sn)'
    BY <1>a, <2>3, <2>a DEF Holds, Held
  <2>7. ackList' \subseteq ackList \cup {m.seg.sn}
    BY <1>1 DEF Accept
  <2> QED
    BY <1>1, <2>2, <2>3, <2>4, <2>5, <2>6, <2>7
<1>3. CASE UNCHANGED <<rcvNxt, rcvBuf, rcvQueue>>
  <2>1. \/ Held(m.seg.sn)
        \/ m.seg.sn >= rcvNxt + RcvWnd /\ ackList' = ackList
        \/ MoveRun(rcvBuf \cup {m.seg}, rcvQueue)
    BY <1>1, <1>a DEF Accept, Held
  <2>2. CASE Held(m.seg.sn) \/ (m.seg.sn >= rcvNxt + RcvWnd /\ ackList' = ackList)
    BY <1>1, <1>3, <2>2 DEF Accept, ReceiverInv, SenderInv, SegmentInv, Holds, Held
  <2> QED
    BY <1>2, <2>1, <2>2
<1> QED
  BY <1>1, <1>2, <1>3 DEF Accept

(* What a delivery leaves and adds: the segment again, and acknowledgements.*)
LEMMA DeliveredNet ==
  ASSUME NEW m \in net, NEW left, left \subseteq {m}, Deliver(m, left)
  PROVE  /\ Input(m)
         /\ \A x \in net' : \/ x \in net
                            \/ m.cmd = "PUSH" /\ mode # "plain" /\ x \in DirectAck(m.seg)
  BY DEF Deliver, Replies

LEMMA DeliverKeeps ==
  ASSUME IInv, NEW m \in net, NEW left, left \subseteq {m}, Deliver(m, left)
  PROVE  IInv'
<1> USE DEF IInv
<1>1. \A x \in net' : x \in net \/ x.cmd = "ACK"
  BY DeliveredNet DEF DirectAck, Ack
<1>2. Input(m)
  BY DeliveredNet
<1>3. ASSUME UNCHANGED <<sent, sndNxt>>, sndBuf' \subseteq sndBuf,
             \A s \in rcvBuf' : IsSent(s)
      PROVE  SegmentInv'
  BY <1>1, <1>3, SentStays DEF SegmentInv, Cmds
<1>4. CASE InputAck(m) \/ InputWins(m)
  <2>1. /\ sndBuf' \subseteq sndBuf
        /\ UNCHANGED <<sent, got, sndQueue, sndNxt, rcvNxt, rcvBuf, rcvQueue>>
    BY <1>4, AckInputKeeps
  <2>2. SegmentInv'
    BY <1>3, <2>1 DEF SegmentInv
  <2> QED
    BY <2>1, <2>2 DEF SenderInv, ReceiverInv
<1>5. CASE InputPush(m)
  <2>1. IsSent(m.seg)
    BY <1>5 DEF InputPush, SegmentInv
  <2>2. /\ ReceiverInv' /\ SenderInv' /\ UNCHANGED <<sent, sndNxt, sndBuf>>
        /\ \A s \in rcvBuf' : IsSent(s)
    BY <1>5, <2>1, PushKeeps
  <2> QED
    BY <1>3, <2>2
<1>6. CASE InputWask(m)
  <2>1. UNCHANGED <<sent, got, sndQueue, sndNxt, sndBuf, rcvNxt, rcvBuf, rcvQueue>>
    BY <1>6 DEF InputWask, sender
  <2>2. SegmentInv'
    BY <1>3, <2>1 DEF SegmentInv
  <2> QED
    BY <2>1, <2>2 DEF SenderInv, ReceiverInv
<1> QED
  BY <1>2, <1>4, <1>5, <1>6 DEF Input

\* Numbers that are flushed and announced.
LEMMA ReceiverFlushNet ==
  ASSUME ReceiverFlush
  PROVE  /\ UNCHANGED <<mode, sent, got, sndQueue, sndBuf, sndUna, sndNxt, rmtWnd>>
         /\ UNCHANGED <<rcvNxt, rcvBuf, rcvQueue>> /\ ackList' = {}
         /\ \A m \in net' : \/ m \in net
                            \/ \E n \in ackList : m = Ack(n, rcvNxt, Wnd)
                            \/ m = Wins(rcvNxt, Wnd)
  BY DEF ReceiverFlush, sender

LEMMA NetworkKeeps ==
  ASSUME Lose \/ Age
  PROVE  /\ UNCHANGED <<mode, sent, got, sndQueue, sndBuf, sndUna, sndNxt, rmtWnd>>
         /\ UNCHANGED <<rcvNxt, rcvBuf, rcvQueue, ackList>>
         /\ net' \subseteq net
  BY DEF Lose, Age, sender, receiver

LEMMA Deliveries ==
  ASSUME WindowInv, Arrive \/ Overtake \/ Duplicate
  PROVE  \E m \in net : \E left \in SUBSET {m} : Deliver(m, left)
<1>1. CASE Arrive
  BY <1>1 DEF Arrive, WindowInv
<1>2. CASE Overtake
  BY <1>2 DEF Overtake
<1>3. CASE Duplicate
  BY <1>3 DEF Duplicate
<1> QED
  BY <1>1, <1>2, <1>3

LEMMA NextKeeps == IInv /\ WindowInv /\ [Next]_vars => IInv'
<1> SUFFICES ASSUME IInv, WindowInv, [Next]_vars PROVE IInv'
  OBVIOUS
<1>1. ASSUME UNCHANGED <<sent, got, sndQueue, sndBuf, sndNxt, rcvNxt, rcvBuf, rcvQueue>>,
             \A m \in net' : m \in net \/ m.cmd \in {"ACK", "WINS"}
      PROVE  IInv'
  BY <1>1, SentStays DEF IInv, SenderInv, SegmentInv, ReceiverInv, Cmds
<1>2. CASE UNCHANGED vars
  BY <1>1, <1>2 DEF vars, sender, receiver, network
<1>3. CASE ReceiverFlush
  BY <1>1, <1>3, ReceiverFlushNet DEF Ack, Wins
<1>4. CASE Lose \/ Age
  BY <1>1, <1>4, NetworkKeeps
<1>5. CASE Arrive \/ Overtake \/ Duplicate
  BY <1>5, Deliveries, DeliverKeeps
<1> QED
  BY <1>2, <1>3, <1>4, <1>5, SendKeeps, FlushKeeps, RecvKeeps DEF Next

LEMMA LateKeeps == WindowInv /\ [Next]_vars => late' \subseteq net'
<1> SUFFICES ASSUME late \subseteq net, [Next]_vars PROVE late' \subseteq net'
  BY DEF WindowInv
<1>1. CASE UNCHANGED vars \/ Send \/ Recv
  BY <1>1 DEF vars, network, Send, Recv
<1>2. CASE SenderFlush \/ ReceiverFlush
  BY <1>2 DEF SenderFlush, Flush, ReceiverFlush
<1>3. CASE Arrive \/ Overtake \/ Duplicate
  BY <1>3 DEF Arrive, Overtake, Duplicate, Deliver
<1>4. CASE Lose \/ Age
  BY <1>4 DEF Lose, Age
<1> QED
  BY <1>1, <1>2, <1>3, <1>4 DEF Next

LEMMA WindowKeeps == IInv /\ WindowInv /\ [Next]_vars => WindowInv'
<1> SUFFICES ASSUME IInv, WindowInv, [Next]_vars PROVE WindowInv'
  OBVIOUS
<1>1. Wnd \in Int /\ DirectWnd \in Int
  BY KcpAssumption DEF KcpAssumption, Wnd, IInv, ReceiverInv
<1>2. ASSUME UNCHANGED <<sndUna, rmtWnd>>,
             \A m \in net' : m \in net \/ (m.cmd \in {"ACK", "WINS"} => m.wnd \in Int)
      PROVE  WindowInv'
  BY <1>2, LateKeeps DEF WindowInv
<1>3. CASE UNCHANGED vars \/ Send \/ Recv \/ Lose \/ Age
  BY <1>2, <1>3, NetworkKeeps DEF vars, sender, network, Send, Recv
<1>4. CASE SenderFlush
  <2>1. UNCHANGED <<sndUna, rmtWnd>>
    BY <1>4 DEF SenderFlush, Flush
  <2> QED
    BY <1>2, <1>4, <2>1, FlushKeeps
<1>5. CASE ReceiverFlush
  BY <1>1, <1>2, <1>5, ReceiverFlushNet DEF Ack, Wins
<1>6. ASSUME NEW m \in net, NEW left \in SUBSET {m}, Deliver(m, left)
      PROVE  WindowInv'
  <2>1. \A x \in net' : x.cmd \in {"ACK", "WINS"} => x.wnd \in Int
    BY <1>1, <1>6, DeliveredNet DEF DirectAck, Ack, WindowInv
  <2>2. sndUna' \in Nat /\ rmtWnd' \in Int
    <3>1. CASE InputAck(m) \/ InputWins(m)
      BY <3>1 DEF InputAck, InputWins, WindowInv
    <3>2. CASE InputPush(m) \/ InputWask(m)
      BY <3>2 DEF InputPush, InputWask, sender, WindowInv
    <3> QED
      BY <1>6, <3>1, <3>2, DeliveredNet DEF Input
  <2> QED
    BY <2>1, <2>2, LateKeeps DEF WindowInv
<1> QED
  BY <1>3, <1>4, <1>5, <1>6, Deliveries DEF Next

THEOREM Inductive == Spec => [](IInv /\ WindowInv)
<1>1. Init => IInv /\ WindowInv
  BY InitIInv, KcpAssumption DEF Init, WindowInv, KcpAssumption
<1>2. IInv /\ WindowInv /\ [Next]_vars => (IInv /\ WindowInv)'
  BY NextKeeps, WindowKeeps
<1> QED
  BY <1>1, <1>2, PTL DEF Spec

-----------------------------------------------------------------------------
(* A conversation is a first-in first-out queue: nothing is lost, repeated or
   reordered between Send and Recv, whatever the network does
   (kcp.go: Send, Input, parseData, Recv).                                 *)
THEOREM IsAFifo == Spec => ImplementsFifo
<1>1. Init => Fifo!Init
  BY DEF Init, Fifo!Init
<1>2. IInv /\ IInv' /\ WindowInv /\ [Next]_vars => [Fifo!Next]_Fifo!vars
  <2> SUFFICES ASSUME IInv, IInv', WindowInv, [Next]_vars
               PROVE  [Fifo!Next]_Fifo!vars
    OBVIOUS
  <2>1. Len(got) \in 0 .. Len(sent) /\ sent \in Seq(Data)
    BY SMTT(40) DEF IInv, SenderInv, ReceiverInv
  <2>2. CASE Send
    <3>1. PICK d : d = Script[Len(sent) + 1]
      OBVIOUS
    <3>2. d \in Data /\ sent' = Append(sent, d) /\ UNCHANGED got
      BY <2>1, <2>2, <3>1, KcpAssumption DEF Send, KcpAssumption
    <3>3. SubSeq(sent', Len(got') + 1, Len(sent')) = Append(SubSeq(sent, Len(got) + 1, Len(sent)), d)
      BY <2>1, <3>2, RestOfAppend, Zenon
    <3> QED
      BY <3>2, <3>3 DEF Fifo!Next, Fifo!Send
  <2>3. CASE Recv
    <3>1. UNCHANGED sent /\ rcvQueue # <<>> /\ got' = Append(got, Head(rcvQueue))
      BY <2>3 DEF Recv
    <3>2. /\ Len(rcvQueue) > 0 /\ Head(rcvQueue) = rcvQueue[1] /\ Head(rcvQueue) \in Data
      BY <3>1, TailAt DEF IInv, ReceiverInv
    <3>3. /\ Len(got) \in 0 .. Len(sent) - 1 /\ Head(rcvQueue) = sent[Len(got) + 1]
      <4>1. rcvQueue[1] = sent[Len(got) + 1]
        BY <3>2 DEF IInv, ReceiverInv
      <4>2. Len(got) + Len(rcvQueue) <= Len(sent) /\ Len(got) \in Nat
        BY DEF IInv, SenderInv, ReceiverInv
      <4>3. rcvQueue \in Seq(Data) /\ sent \in Seq(Data)
        BY DEF IInv, SenderInv, ReceiverInv
      <4>4. Len(got) <= Len(sent) - 1
        BY <3>2, <4>2, <4>3
      <4> QED
        BY <3>2, <4>1, <4>2, <4>3, <4>4
    <3>4. Len(got') = Len(got) + 1
      <4>1. got \in Seq(Data)
        BY DEF IInv, ReceiverInv
      <4> QED
        BY <3>1, <3>2, <4>1, AppendAt, Zenon
    <3> PICK g : g = Len(got)
      OBVIOUS
    <3> PICK r : r = SubSeq(sent, g + 1, Len(sent))
      OBVIOUS
    <3>5. r # <<>> /\ Head(r) = sent[g + 1] /\ Tail(r) = SubSeq(sent, g + 2, Len(sent))
      BY <2>1, <3>3, RestOfRest
    <3>6. g + 2 = Len(got') + 1
      BY <2>1, <3>4
    <3>7. /\ got' = Append(got, Head(r))
          /\ SubSeq(sent', Len(got') + 1, Len(sent')) = Tail(r)
      BY <3>1, <3>3, <3>5, <3>6
    <3> QED
      BY <3>5, <3>7 DEF Fifo!Next, Fifo!Recv
  <2>4. CASE UNCHANGED vars \/ SenderFlush \/ ReceiverFlush \/ Lose \/ Age
    <3>1. UNCHANGED <<sent, got>>
      BY <2>4, ReceiverFlushNet, NetworkKeeps DEF vars, SenderFlush, Flush
    <3> QED
      BY <3>1 DEF Fifo!vars
  <2>5. ASSUME NEW m \in net, NEW left \in SUBSET {m}, Deliver(m, left)
        PROVE  UNCHANGED Fifo!vars
    <3>1. UNCHANGED <<sent, got>>
      BY <2>5 DEF Deliver, Input, InputAck, InputWins, InputPush, InputWask
    <3> QED
      BY <3>1 DEF Fifo!vars
  <2> QED
    BY <2>2, <2>3, <2>4, <2>5, Deliveries DEF Next
<1> QED
  BY <1>1, <1>2, Inductive, PTL DEF Spec, ImplementsFifo, Fifo!Spec

-----------------------------------------------------------------------------
(* What was acknowledged has arrived.                                      *)

\* No acknowledgement says more than the receiver holds.
AckInv ==
  /\ \A n \in ackList : Held(n)
  /\ \A m \in net : /\ m.cmd = "ACK" => Held(m.sn)
                    /\ m.cmd \in {"ACK", "WINS"} => m.una <= rcvNxt /\ m.una \in Int /\ m.wnd <= RcvWnd

\* The sender keeps within the window.
SendInv ==
  /\ rmtWnd <= RcvWnd
  /\ sndUna <= sndNxt
  /\ \A s \in sndBuf : sndUna <= s.sn

\* A session has taken what is next before it reads on, so nothing that comes
\* is too far ahead for it, and it may acknowledge what it reads.
DrainInv ==
  mode # "plain" => /\ sndNxt <= rcvNxt + RcvWnd
                    /\ \A s \in rcvBuf : s.sn # rcvNxt

HInv == AckInv /\ SendInv /\ DrainInv /\ ReleasedIsHeld /\ mode \in {"plain", "data"}

LEMMA NothingMoves ==
  ASSUME HInv, UNCHANGED <<mode, sndNxt, sndUna, rmtWnd, sndBuf, rcvNxt, rcvBuf>>,
         ackList' \subseteq ackList, net' \subseteq net
  PROVE  HInv'
  BY DEF HInv, AckInv, SendInv, DrainInv, ReleasedIsHeld, Held

LEMMA InitHInv == ASSUME "ctrl" \notin Modes, Init PROVE HInv
  BY KcpAssumption DEF KcpAssumption, Init, HInv, AckInv, SendInv, DrainInv, ReleasedIsHeld, Held

LEMMA FlushHeld ==
  ASSUME IInv, WindowInv, HInv, SenderFlush
  PROVE  HInv'
<1> USE DEF HInv
<1>1. /\ UNCHANGED <<mode, sndUna, rmtWnd, rcvNxt, rcvBuf, ackList>>
      /\ sndNxt' = sndNxt + Fitting
  BY DEF SenderFlush, Flush, receiver
<1>2. /\ \A n \in 0 .. sndNxt' - 1 : n < sndNxt \/ \E s \in sndBuf' : s.sn = n
      /\ \A s \in sndBuf' : s \in sndBuf \/ s.sn >= sndNxt
      /\ sndBuf \subseteq sndBuf' /\ sndNxt <= sndNxt'
      /\ \A m \in net' : m \in net \/ m.cmd \in {"PUSH", "WASK"}
  BY FlushKeeps
<1>3. AckInv'
  BY <1>1, <1>2 DEF AckInv, Held
<1>4. /\ sndUna \in Nat /\ rmtWnd \in Int /\ sndNxt \in Nat /\ rcvNxt \in Nat
      /\ RcvWnd \in Nat /\ SndWnd \in Nat /\ Len(sndQueue) \in Nat /\ sndNxt' \in Nat
  BY <1>1, FittingBound, KcpAssumption DEF KcpAssumption, WindowInv, IInv, SenderInv, ReceiverInv
<1>5. SendInv'
  <2>1. \A s \in sndBuf' : s.sn \in Nat
    BY FlushKeeps DEF IInv, SegmentInv, IsSent, Segs
  <2> QED
    BY <1>1, <1>2, <1>4, <2>1 DEF SendInv
<1>6. ReleasedIsHeld'
  <2> SUFFICES ASSUME NEW n \in 0 .. sndNxt' - 1
               PROVE  Held(n) \/ \E s \in sndBuf' : s.sn = n
    BY <1>1 DEF ReleasedIsHeld, Held
  <2>1. \A k \in 0 .. sndNxt - 1 : Held(k) \/ \E s \in sndBuf : s.sn = k
    BY DEF ReleasedIsHeld, Held
  <2>2. n < sndNxt => n \in 0 .. sndNxt - 1
    BY <1>4
  <2> QED
    BY <1>2, <2>1, <2>2
<1>7. ASSUME mode # "plain" PROVE sndNxt' <= rcvNxt + RcvWnd
  <2>1. sndUna <= rcvNxt
    <3>1. CASE rcvNxt >= sndNxt
      BY <1>4, <3>1 DEF SendInv
    <3>2. CASE rcvNxt < sndNxt
      <4>1. PICK s \in sndBuf : s.sn = rcvNxt
        BY <1>4, <1>7, <3>2 DEF ReleasedIsHeld, DrainInv
      <4> QED
        BY <4>1 DEF SendInv
    <3> QED
      BY <1>4, <3>1, <3>2
  <2>2. sndNxt + Fitting <= sndUna + RcvWnd \/ Fitting = 0
    BY <1>4 DEF Fitting, Smaller, SendInv
  <2> QED
    BY <1>1, <1>4, <1>7, <2>1, <2>2 DEF DrainInv
<1>8. DrainInv'
  BY <1>1, <1>7 DEF DrainInv
<1> QED
  BY <1>1, <1>3, <1>5, <1>6, <1>8

LEMMA ReceiverFlushHeld ==
  ASSUME IInv, HInv, ReceiverFlush
  PROVE  HInv'
<1> USE DEF HInv
<1>1. /\ UNCHANGED <<mode, sndUna, rmtWnd, sndNxt, sndBuf, rcvNxt, rcvBuf>> /\ ackList' = {}
      /\ \A m \in net' : \/ m \in net
                         \/ \E n \in ackList : m = Ack(n, rcvNxt, Wnd)
                         \/ m = Wins(rcvNxt, Wnd)
  BY ReceiverFlushNet
<1>2. Wnd <= RcvWnd /\ rcvNxt \in Nat
  BY KcpAssumption DEF KcpAssumption, Wnd, IInv, ReceiverInv
<1>3. AckInv'
  <2> SUFFICES ASSUME NEW m \in net'
               PROVE  /\ m.cmd = "ACK" => Held(m.sn)
                      /\ m.cmd \in {"ACK", "WINS"} => m.una <= rcvNxt /\ m.una \in Int /\ m.wnd <= RcvWnd
    BY <1>1 DEF AckInv, Held
  <2>1. CASE m \in net
    BY <2>1 DEF AckInv
  <2>2. ASSUME NEW n \in ackList, m = Ack(n, rcvNxt, Wnd)
        PROVE  /\ m.cmd = "ACK" => Held(m.sn)
               /\ m.cmd \in {"ACK", "WINS"} => m.una <= rcvNxt /\ m.una \in Int /\ m.wnd <= RcvWnd
    BY <1>2, <2>2 DEF AckInv, Ack
  <2>3. CASE m = Wins(rcvNxt, Wnd)
    BY <1>2, <2>3 DEF Wins
  <2> QED
    BY <1>1, <2>1, <2>2, <2>3
<1>4. SendInv' /\ DrainInv' /\ ReleasedIsHeld'
  BY <1>1 DEF SendInv, DrainInv, ReleasedIsHeld
<1> QED
  BY <1>1, <1>3, <1>4

LEMMA RecvHeld ==
  ASSUME IInv, IInv', HInv, Recv
  PROVE  HInv'
<1> USE DEF HInv
<1>1. /\ UNCHANGED <<mode, sndUna, rmtWnd, sndNxt, sndBuf, ackList, net>>
      /\ Holds /\ rcvBuf' \subseteq rcvBuf
      /\ (\A s \in rcvBuf : s.sn # rcvNxt) => rcvNxt' = rcvNxt
  BY RecvKeeps DEF Recv, sender, network
<1>3. rcvNxt \in Nat /\ rcvNxt' \in Nat /\ rcvNxt <= rcvNxt' /\ RcvWnd \in Nat /\ sndNxt \in Nat
  BY <1>1, KcpAssumption DEF KcpAssumption, Holds, IInv, ReceiverInv, SenderInv
<1>4. \A n : Held(n) => Held(n)'
  BY <1>1, <1>3 DEF Held, Holds, IInv, SegmentInv, IsSent, Segs
<1>5. AckInv'
  BY <1>1, <1>3, <1>4 DEF AckInv
<1>6. ReleasedIsHeld'
  <2>1. \A n \in 0 .. sndNxt - 1 : Held(n) \/ \E s \in sndBuf : s.sn = n
    BY DEF ReleasedIsHeld, Held
  <2> QED
    BY <1>1, <1>4, <2>1 DEF ReleasedIsHeld, Held
<1>7. SendInv' /\ DrainInv'
  BY <1>1, <1>3 DEF SendInv, DrainInv
<1> QED
  BY <1>1, <1>5, <1>6, <1>7

LEMMA WindowSlides ==
  ASSUME NEW nxt \in Nat, NEW lo \in Nat, NEW hi \in Nat, NEW w \in Nat,
         nxt <= lo + w, lo <= hi
  PROVE  nxt <= hi + w
  OBVIOUS

(* The direct acknowledgement is for a segment that fits the window.       *)
LEMMA PushHeld ==
  ASSUME IInv, IInv', HInv, NEW m \in net, NEW left, left \subseteq {m}, Deliver(m, left),
         InputPush(m)
  PROVE  HInv'
<1> USE DEF HInv
<1>1. IsSent(m.seg) /\ m.cmd = "PUSH"
  BY DEF InputPush, IInv, SegmentInv
<1>2. /\ UNCHANGED <<mode, sndUna, rmtWnd, sndNxt, sndBuf, got>>
      /\ (mode # "plain" => rcvQueue = <<>>)
  BY DEF InputPush, sender, Drained
<1>3. /\ Holds
      /\ ackList' \subseteq ackList \cup {m.seg.sn}
      /\ Held(m.seg.sn)' \/ (m.seg.sn >= rcvNxt + RcvWnd /\ ackList' = ackList)
      /\ \/ UNCHANGED <<rcvNxt, rcvBuf>>
         \/ Len(rcvQueue') < RcvWnd /\ \A s \in rcvBuf' : s.sn # rcvNxt'
         \/ Len(rcvQueue') = RcvWnd /\ got' = got
  BY <1>1, PushKeeps
<1>4. /\ rcvNxt \in Nat /\ rcvNxt' \in Nat /\ rcvNxt <= rcvNxt' /\ RcvWnd \in Nat
      /\ sndNxt \in Nat /\ m.seg.sn \in Nat /\ m.seg.sn < sndNxt
  BY <1>1, <1>3, KcpAssumption
     DEF KcpAssumption, Holds, IInv, ReceiverInv, SenderInv, IsSent, Segs
<1>5. \A n : Held(n) => Held(n)'
  BY <1>3, <1>4 DEF Held, Holds, IInv, SegmentInv, IsSent, Segs
<1>6. mode # "plain" => Held(m.seg.sn)'
  BY <1>3, <1>4 DEF DrainInv
<1>7. AckInv'
  <2> SUFFICES ASSUME NEW x \in net'
               PROVE  /\ x.cmd = "ACK" => Held(x.sn)'
                      /\ x.cmd \in {"ACK", "WINS"} => x.una <= rcvNxt' /\ x.una \in Int /\ x.wnd <= RcvWnd
    <3>1. \A n \in ackList' : Held(n)'
      BY <1>3, <1>5 DEF AckInv
    <3> QED
      BY <3>1 DEF AckInv
  <2>1. CASE x \in net
    BY <1>4, <1>5, <2>1 DEF AckInv
  <2>2. CASE mode # "plain" /\ x \in DirectAck(m.seg)
    <3>1. x = Ack(m.seg.sn, rcvNxt', DirectWnd)
      BY <2>2 DEF DirectAck
    <3>2. DirectWnd <= RcvWnd
      BY KcpAssumption DEF KcpAssumption
    <3> QED
      BY <1>4, <1>6, <2>2, <3>1, <3>2 DEF Ack
  <2> QED
    BY <2>1, <2>2, DeliveredNet
<1>8. ReleasedIsHeld'
  <2>1. \A n \in 0 .. sndNxt - 1 : Held(n) \/ \E s \in sndBuf : s.sn = n
    BY DEF ReleasedIsHeld, Held
  <2> QED
    BY <1>2, <1>5, <2>1 DEF ReleasedIsHeld, Held
<1>9. DrainInv'
  <2> SUFFICES ASSUME mode # "plain"
               PROVE  /\ sndNxt <= rcvNxt' + RcvWnd
                      /\ \A s \in rcvBuf' : s.sn # rcvNxt'
    BY <1>2 DEF DrainInv
  <2>1. sndNxt <= rcvNxt' + RcvWnd
    <3>1. sndNxt <= rcvNxt + RcvWnd
      BY DEF DrainInv
    <3> QED
      BY <1>4, <3>1, WindowSlides
  <2>2. ASSUME Len(rcvQueue') = RcvWnd, got' = got
        PROVE  \A s \in rcvBuf' : s.sn # rcvNxt'
    <3>1. rcvNxt = Len(got) /\ rcvNxt' = Len(got) + RcvWnd
      BY <1>2, <2>2 DEF IInv, ReceiverInv
    <3>2. rcvNxt' >= sndNxt
      BY <1>4, <3>1 DEF DrainInv
    <3>3. \A s \in rcvBuf' : s.sn < sndNxt /\ s.sn \in Nat
      BY <1>2 DEF IInv, SegmentInv, IsSent, Segs
    <3> QED
      BY <1>4, <3>2, <3>3
  <2>3. CASE UNCHANGED <<rcvNxt, rcvBuf>>
    BY <2>3 DEF DrainInv
  <2> QED
    BY <1>3, <2>1, <2>2, <2>3
<1>10. SendInv'
  BY <1>2 DEF SendInv
<1> QED
  BY <1>2, <1>7, <1>8, <1>9, <1>10

(* What the sender lets go of has arrived.                                 *)
LEMMA AckHeld ==
  ASSUME IInv, HInv, NEW m \in net, NEW left, left \subseteq {m}, Deliver(m, left),
         InputAck(m) \/ InputWins(m)
  PROVE  HInv'
<1> USE DEF HInv
<1>1. /\ UNCHANGED <<mode, sndNxt, rcvNxt, rcvBuf, ackList>>
      /\ m.cmd \in {"ACK", "WINS"} /\ m.cmd # "PUSH"
      /\ rmtWnd' = m.wnd /\ sndUna' \in {n \in 0 .. sndNxt : Oldest(n, sndBuf')}
  BY DEF InputAck, InputWins, receiver
<1>2. m.una <= rcvNxt /\ m.una \in Int /\ m.wnd <= RcvWnd /\ (m.cmd = "ACK" => Held(m.sn))
  BY <1>1 DEF AckInv
<1>3. rcvNxt \in Nat /\ sndNxt \in Nat /\ \A s \in sndBuf : s.sn \in Nat
  BY DEF IInv, ReceiverInv, SenderInv, SegmentInv, IsSent, Segs
<1>4. net' \subseteq net
  BY <1>1, DeliveredNet
<1>5. AckInv' /\ DrainInv' /\ mode' \in {"plain", "data"}
  <2>1. \A n : Held(n)' <=> Held(n)
    BY <1>1 DEF Held
  <2>2. DrainInv'
    BY <1>1 DEF DrainInv
  <2>3. AckInv'
    BY <1>1, <1>4, <2>1 DEF AckInv
  <2> QED
    BY <1>1, <2>2, <2>3
<1>6. SendInv'
  BY <1>1, <1>2, <1>3 DEF SendInv, Oldest
<1>7. \A s \in sndBuf : s \in sndBuf' \/ Held(s.sn)
  <2> SUFFICES ASSUME NEW s \in sndBuf PROVE s \in sndBuf' \/ Held(s.sn)
    OBVIOUS
  <2>1. CASE s.sn < m.una
    BY <1>2, <1>3, <2>1 DEF Held
  <2>2. CASE s.sn >= m.una /\ InputWins(m)
    BY <2>2 DEF InputWins, AfterUna
  <2>3. CASE s.sn >= m.una /\ InputAck(m)
    BY <1>2, <2>3 DEF InputAck, AfterUna, AfterAck
  <2> QED
    BY <1>2, <1>3, <2>1, <2>2, <2>3
<1>8. ReleasedIsHeld'
  <2>1. \A n \in 0 .. sndNxt - 1 : Held(n) \/ \E s \in sndBuf : s.sn = n
    BY <1>3 DEF ReleasedIsHeld, Held
  <2>2. \A n \in 0 .. sndNxt - 1 : Held(n) \/ \E s \in sndBuf' : s.sn = n
    BY <1>7, <2>1
  <2> QED
    BY <1>1, <2>2 DEF ReleasedIsHeld, Held
<1> QED
  BY <1>5, <1>6, <1>8

LEMMA NextHeld ==
  ASSUME IInv, IInv', WindowInv, HInv, [Next]_vars
  PROVE  HInv'
<1>1. CASE UNCHANGED vars
  BY <1>1, NothingMoves DEF vars, sender, receiver, network
<1>2. CASE Send
  <2>1. /\ UNCHANGED <<mode, sndNxt, sndUna, rmtWnd, sndBuf, rcvNxt, rcvBuf>>
        /\ ackList' \subseteq ackList /\ net' \subseteq net
    BY <1>2 DEF Send, receiver, network
  <2> QED
    BY <2>1, NothingMoves
<1>3. CASE Lose \/ Age
  BY <1>3, NetworkKeeps, NothingMoves
<1>4. ASSUME NEW m \in net, NEW left \in SUBSET {m}, Deliver(m, left)
      PROVE  HInv'
  <2>1. CASE InputAck(m) \/ InputWins(m)
    BY <1>4, <2>1, AckHeld
  <2>2. CASE InputPush(m)
    BY <1>4, <2>2, PushHeld
  <2>3. CASE InputWask(m)
    <3>1. UNCHANGED <<mode, sndNxt, sndUna, rmtWnd, sndBuf, rcvNxt, rcvBuf, ackList>>
      BY <2>3 DEF InputWask, sender
    <3>2. net' \subseteq net
      BY <1>4, <2>3, DeliveredNet DEF InputWask
    <3> QED
      BY <3>1, <3>2, NothingMoves
  <2> QED
    BY <1>4, <2>1, <2>2, <2>3, DeliveredNet DEF Input
<1> QED
  BY <1>1, <1>2, <1>3, <1>4, FlushHeld, ReceiverFlushHeld, RecvHeld, Deliveries DEF Next

(* The sender lets go of a segment only when the receiver has it.  That is so
   for a conversation of video; in the control conversation the session counts
   the segments of the other one in its acknowledgements
   (kcp.go: parseUna, parseACK, flushLocked; session.go:1692-1717).        *)
THEOREM NothingIsLetGo == ASSUME "ctrl" \notin Modes PROVE Spec => []ReleasedIsHeld
<1>1. Init => HInv
  BY InitHInv
<1>2. IInv /\ IInv' /\ WindowInv /\ HInv /\ [Next]_vars => HInv'
  BY NextHeld
<1>3. HInv => ReleasedIsHeld
  BY DEF HInv
<1> QED
  BY <1>1, <1>2, <1>3, Inductive, PTL DEF Spec

-----------------------------------------------------------------------------
(* Types.                                                                  *)

WindowOK == Len(rcvQueue) <= RcvWnd /\ ackList \subseteq Nat /\ rmtWnd \in Nat

Announced(m) == /\ m.cmd = "ACK" => m.sn \in Nat
                /\ m.cmd \in {"ACK", "WINS"} => m.una \in Nat /\ m.wnd \in Nat

FlagsOK == mode \in Modes /\ probeWait \in BOOLEAN /\ askTell \in BOOLEAN

LEMMA FlagsKeep == FlagsOK /\ [Next]_vars => FlagsOK'
<1> SUFFICES ASSUME FlagsOK, [Next]_vars PROVE FlagsOK'
  OBVIOUS
<1>1. mode' = mode
  BY DEF Next, vars, Send, SenderFlush, Flush, ReceiverFlush, Recv, Arrive, Overtake,
         Duplicate, Deliver, Lose, Age, Input, InputAck, InputWins, InputPush, InputWask
<1>2. probeWait' \in BOOLEAN
  BY DEF FlagsOK, Next, vars, sender, Send, SenderFlush, Flush, ReceiverFlush, Recv, Arrive,
         Overtake, Duplicate, Deliver, Lose, Age, Input, InputAck, InputWins, InputPush, InputWask
<1>3. askTell' \in BOOLEAN
  BY DEF FlagsOK, Next, vars, receiver, Send, SenderFlush, Flush, ReceiverFlush, Recv, Arrive,
         Overtake, Duplicate, Deliver, Lose, Age, Input, InputAck, InputWins, InputPush, InputWask
<1> QED
  BY <1>1, <1>2, <1>3 DEF FlagsOK

LEMMA FaultsKeep == faults \in Nat /\ [Next]_vars => faults' \in Nat
  BY DEF Next, vars, network, Send, SenderFlush, Flush, ReceiverFlush, Recv, Arrive, Overtake,
         Duplicate, Fault, Deliver, Lose, Age

LEMMA WindowOKKeeps ==
  ASSUME IInv, WindowInv, WindowOK, \A m \in net : Announced(m), [Next]_vars
  PROVE  WindowOK' /\ \A m \in net' : Announced(m)
<1>1. Wnd \in Nat /\ DirectWnd \in Nat /\ RcvWnd \in Nat /\ rcvNxt \in Nat
  BY KcpAssumption DEF KcpAssumption, Wnd, WindowOK, IInv, ReceiverInv
<1>2. ASSUME UNCHANGED <<rcvQueue, rmtWnd>>, ackList' \subseteq ackList,
             \A m \in net' : m \in net \/ Announced(m)
      PROVE  WindowOK' /\ \A m \in net' : Announced(m)
  BY <1>2 DEF WindowOK
<1>3. CASE UNCHANGED vars \/ Send \/ Lose \/ Age
  BY <1>2, <1>3, NetworkKeeps DEF vars, sender, receiver, network, Send
<1>4. CASE SenderFlush
  <2>1. UNCHANGED <<rcvQueue, rmtWnd, ackList>>
    BY <1>4 DEF SenderFlush, Flush, receiver
  <2>2. \A m \in net' : m \in net \/ Announced(m)
    BY <1>4, FlushKeeps DEF Announced
  <2> QED
    BY <1>2, <2>1, <2>2
<1>5. CASE ReceiverFlush
  <2>1. \A n \in ackList : Announced(Ack(n, rcvNxt, Wnd))
    BY <1>1 DEF Announced, Ack, WindowOK
  <2>2. Announced(Wins(rcvNxt, Wnd))
    BY <1>1 DEF Announced, Wins
  <2>3. \A m \in net' : m \in net \/ Announced(m)
    BY <1>5, <2>1, <2>2, ReceiverFlushNet
  <2> QED
    BY <1>2, <1>5, <2>3, ReceiverFlushNet
<1>6. CASE Recv
  BY <1>6, RecvKeeps DEF Recv, sender, network, WindowOK
<1>7. ASSUME NEW m \in net, NEW left \in SUBSET {m}, Deliver(m, left)
      PROVE  WindowOK' /\ \A x \in net' : Announced(x)
  <2>1. CASE InputAck(m) \/ InputWins(m)
    <3>1. /\ UNCHANGED <<rcvQueue, ackList>> /\ rmtWnd' = m.wnd
          /\ m.cmd \in {"ACK", "WINS"} /\ m.cmd # "PUSH"
      BY <2>1 DEF InputAck, InputWins, receiver
    <3>2. m.wnd \in Nat
      BY <3>1 DEF Announced
    <3>3. net' \subseteq net
      BY <1>7, <3>1, DeliveredNet
    <3> QED
      BY <3>1, <3>2, <3>3 DEF WindowOK
  <2>2. CASE InputWask(m)
    <3>1. UNCHANGED <<rcvQueue, ackList, rmtWnd>>
      BY <2>2 DEF InputWask, sender
    <3>2. net' \subseteq net
      BY <1>7, <2>2, DeliveredNet DEF InputWask
    <3> QED
      BY <1>2, <3>1, <3>2
  <2>3. CASE InputPush(m)
    <3>1. IsSent(m.seg)
      BY <2>3 DEF InputPush, IInv, SegmentInv
    <3>2. m.seg.sn \in Nat
      BY <3>1 DEF IsSent, Segs
    <3>3. WindowOK'
      <4>1. UNCHANGED rmtWnd
        BY <2>3 DEF InputPush, sender
      <4> QED
        BY <2>3, <3>1, <3>2, <4>1, PushKeeps DEF WindowOK
    <3>4. rcvNxt' \in Nat
      BY <2>3, <3>1, PushKeeps DEF ReceiverInv
    <3>5. \A x \in DirectAck(m.seg) : Announced(x)
      BY <1>1, <3>2, <3>4 DEF DirectAck, Ack, Announced
    <3> QED
      BY <1>7, <3>3, <3>5, DeliveredNet
  <2> QED
    BY <1>7, <2>1, <2>2, <2>3, DeliveredNet DEF Input
<1> QED
  BY <1>3, <1>4, <1>5, <1>6, <1>7, Deliveries DEF Next

(* Values stay of their types, and the receive queue within its window.    *)
THEOREM TypeCorrect == Spec => []TypeOK
<1> DEFINE T == /\ IInv /\ WindowInv /\ FlagsOK /\ faults \in Nat
                /\ WindowOK /\ \A m \in net : Announced(m)
<1>1. Init => T
  <2> SUFFICES ASSUME Init PROVE T
    OBVIOUS
  <2>1. IInv /\ WindowInv
    BY InitIInv, KcpAssumption DEF Init, WindowInv, KcpAssumption
  <2>2. FlagsOK
    BY Zenon DEF Init, FlagsOK
  <2>3. faults \in Nat /\ WindowOK /\ \A m \in net : Announced(m)
    BY KcpAssumption DEF KcpAssumption, Init, WindowOK
  <2> QED
    BY <2>1, <2>2, <2>3
<1>2. T /\ [Next]_vars => T'
  BY NextKeeps, WindowKeeps, FlagsKeep, FaultsKeep, WindowOKKeeps
<1>3. T => TypeOK
  <2> SUFFICES ASSUME T PROVE TypeOK
    OBVIOUS
  <2>1. SenderOK
    <3>1. probeWait \in BOOLEAN
      BY DEF FlagsOK
    <3>2. /\ sent \in Seq(Data) /\ sndQueue \in Seq(Data)
          /\ sndBuf \subseteq Segs /\ \A s \in sndBuf : s.sn < sndNxt
          /\ sndUna \in Nat /\ sndNxt \in Nat /\ rmtWnd \in Nat
      BY DEF IInv, SenderInv, SegmentInv, IsSent, WindowInv, WindowOK
    <3> QED
      BY <3>1, <3>2 DEF SenderOK
  <2>2. ReceiverOK
    <3>1. askTell \in BOOLEAN
      BY DEF FlagsOK
    <3>2. /\ got \in Seq(Data) /\ rcvQueue \in Seq(Data) /\ Len(rcvQueue) <= RcvWnd
          /\ rcvBuf \subseteq Segs /\ rcvNxt \in Nat /\ ackList \subseteq Nat
      BY DEF IInv, ReceiverInv, SegmentInv, IsSent, WindowOK
    <3> QED
      BY <3>1, <3>2 DEF ReceiverOK
  <2>3. NetworkOK
    BY DEF IInv, SegmentInv, IsSent, WindowInv, Announced, Cmds, NetworkOK
  <2> QED
    BY <2>1, <2>2, <2>3 DEF TypeOK, FlagsOK
<1> QED
  BY <1>1, <1>2, <1>3, PTL DEF Spec
=============================================================================
