------------------------- MODULE GwellSessionProofs -------------------------
(***************************************************************************)
(* What holds of a Gwell session however often it sends INITREQ and renews *)
(* itself, and whenever its owner calls Close.                             *)
(***************************************************************************)
EXTENDS GwellSession, TLAPS

Streaming == {"initreq", "stream", "returned"}
Before    == {"connect", "certify", "initInfo", "calling"}

\* The relay is dialed once, after CALLING, and taken once, by setupTransport.
DialInv ==
  /\ phase \in Before => dial = "idle"
  /\ dial # "done" => offer = "empty" /\ ~tcpRelay
  /\ phase \notin Streaming => ~tcpRelay /\ readers = 0 /\ frames = "none"

\* A Close that was not too early found every socket there was going to be.
ClosedInv ==
  /\ phase = "returned" => closed
  /\ closed /\ ~hasty => /\ phase \in Streaming
                         /\ conn # "open" /\ pc # "open"
                         /\ tcpRelay => relay # "open"

\* The reader and its channel live together.
ReaderInv == readers <= 1 /\ (readers > 0 => frames = "open")

\* What ctrlKCP numbers comes after everything numbered by hand.
NumberInv ==
  /\ phase \notin {"stream", "returned"} =>
       renewing = {} /\ \A n \in flying \cup camHas : n < kcpSN
  /\ phase = "stream" => \A n \in renewing \cup flying \cup camHas : n < sndNxt
  /\ RenewalIsNew

\* certify gives up before its counter passes the number of its attempts.
AttemptInv ==
  /\ phase = "certify" => attempt < 3 /\ asked > 0
  /\ phase = "connect" => attempt = 0 /\ asked = 0 /\ key = 0 /\ serverKey = 0
  /\ phase = "certify" => key = 0 /\ serverKey = 0

IInv == TypeOK /\ AttemptInv /\ DialInv /\ ClosedInv /\ ReaderInv /\ NumberInv

USE SessionAssumption DEF SessionAssumption

LEMMA InitIInv == Init => IInv
<1> SUFFICES ASSUME Init PROVE IInv
  OBVIOUS
<1>1. FlagsOK
  BY DEF Init, FlagsOK
<1>2. HandshakeOK /\ AttemptInv
  BY DEF Init, HandshakeOK, Phases, AttemptInv
<1>3. SocketsOK /\ TcpOK /\ DialInv /\ ClosedInv /\ ReaderInv
  BY DEF Init, SocketsOK, Sock, TcpOK, DialInv, ClosedInv, ReaderInv, Streaming, Before
<1>4. CtrlOK /\ NumberInv
  BY DEF Init, CtrlOK, NumberInv, RenewalIsNew
<1> QED
  BY <1>1, <1>2, <1>3, <1>4 DEF IInv, TypeOK

(* The flags. *)
LEMMA NextFlagsOK == FlagsOK /\ [Next]_vars => FlagsOK'
<1> SUFFICES ASSUME FlagsOK, [Next]_vars PROVE FlagsOK'
  OBVIOUS
<1> USE DEF FlagsOK, handshake, paths, sockets, dialer, tcp, ctrl
<1>1. CASE UNCHANGED vars
  BY <1>1 DEF vars
<1>2. CASE Connect
  BY <1>2, Zenon DEF Connect, Return, CloseSockets
<1>3. CASE CertifyTimeout
  BY <1>3, Zenon DEF CertifyTimeout, Return, CloseSockets
<1>4. CASE CertifyAnswer
  BY <1>4, Zenon DEF CertifyAnswer
<1>5. CASE CertifyOther
  BY <1>5, Zenon DEF CertifyOther, Return, CloseSockets
<1>6. CASE InitInfoList \/ CallingAck
  BY <1>6, Zenon DEF InitInfoList, CallingAck
<1>7. CASE InitInfoEnds
  BY <1>7, Zenon DEF InitInfoEnds, Return, CloseSockets
<1>8. CASE CallingEnds
  BY <1>8, Zenon DEF CallingEnds, Listen, CloseSockets
<1>9. CASE ProbeEnds \/ Dialed
  BY <1>9, Zenon DEF ProbeEnds, Dialed
<1>10. CASE Setup
  BY <1>10, Zenon DEF Setup
<1>11. CASE ReaderEnds \/ DropChannel \/ SendInitReq \/ Renew \/ Accepted
  BY <1>11, Zenon DEF ReaderEnds, DropChannel, SendInitReq, Renew, Accepted
<1>12. CASE InitReqFails \/ StreamEnds
  BY <1>12, Zenon DEF InitReqFails, StreamEnds, Return, CloseSockets
<1>13. CASE SegmentArrives \/ SegmentLost \/ RenewalArrives
  BY <1>13, Zenon DEF SegmentArrives, SegmentLost, RenewalArrives
<1>14. CASE Close
  BY <1>14, Zenon DEF Close, CloseSockets
<1> QED
  BY <1>1, <1>2, <1>3, <1>4, <1>5, <1>6, <1>7, <1>8, <1>9, <1>10, <1>11, <1>12,
     <1>13, <1>14 DEF Next, Run

(* certify's counter stops in time, and a key belongs to a request. *)
LEMMA NextHandshake == HandshakeOK /\ AttemptInv /\ [Next]_vars => HandshakeOK' /\ AttemptInv'
<1> SUFFICES ASSUME HandshakeOK /\ AttemptInv, [Next]_vars PROVE HandshakeOK' /\ AttemptInv'
  OBVIOUS
<1> USE DEF HandshakeOK, Phases, AttemptInv, handshake
<1>1. CASE UNCHANGED vars
  BY <1>1 DEF vars
<1>2. CASE Connect
  BY <1>2 DEF Connect, Return
<1>3. CASE CertifyTimeout
  BY <1>3 DEF CertifyTimeout, Return
<1>4. CASE CertifyAnswer
  BY <1>4 DEF CertifyAnswer
<1>5. CASE CertifyOther
  BY <1>5 DEF CertifyOther, Return
<1>6. CASE InitInfoList \/ InitInfoEnds \/ CallingAck \/ CallingEnds
  BY <1>6 DEF InitInfoList, InitInfoEnds, CallingAck, CallingEnds, Listen, Return
<1>7. CASE ProbeEnds \/ Setup \/ Dialed \/ ReaderEnds \/ DropChannel
  BY <1>7 DEF ProbeEnds, Setup, Dialed, ReaderEnds, DropChannel
<1>8. CASE \/ SendInitReq \/ InitReqFails \/ Accepted \/ Renew \/ StreamEnds
            \/ SegmentArrives \/ SegmentLost \/ RenewalArrives \/ Close
  BY <1>8 DEF SendInitReq, InitReqFails, Accepted, Renew, StreamEnds, SegmentArrives,
             SegmentLost, RenewalArrives, Close, Return
<1> QED
  BY <1>1, <1>2, <1>3, <1>4, <1>5, <1>6, <1>7, <1>8 DEF Next, Run

(* The sockets and the dialer. *)
LEMMA NextSocketsOK == SocketsOK /\ [Next]_vars => SocketsOK'
<1> SUFFICES ASSUME SocketsOK, [Next]_vars PROVE SocketsOK'
  OBVIOUS
<1> USE DEF SocketsOK, Sock, sockets, dialer
<1>1. CASE UNCHANGED vars
  BY <1>1 DEF vars
<1>2. CASE Connect \/ CertifyTimeout \/ CertifyAnswer \/ CertifyOther
  BY <1>2 DEF Connect, CertifyTimeout, CertifyAnswer, CertifyOther, Return, CloseSockets, Shut
<1>3. CASE InitInfoList \/ InitInfoEnds \/ CallingAck \/ CallingEnds
  BY <1>3 DEF InitInfoList, InitInfoEnds, CallingAck, CallingEnds, Listen, Return, CloseSockets, Shut
<1>4. CASE ProbeEnds \/ Setup \/ Dialed \/ ReaderEnds \/ DropChannel
  BY <1>4 DEF ProbeEnds, Setup, Dialed, ReaderEnds, DropChannel
<1>5. CASE \/ SendInitReq \/ InitReqFails \/ Accepted \/ Renew \/ StreamEnds
            \/ SegmentArrives \/ SegmentLost \/ RenewalArrives \/ Close
  BY <1>5 DEF SendInitReq, InitReqFails, Accepted, Renew, StreamEnds, SegmentArrives,
             SegmentLost, RenewalArrives, Close, Return, CloseSockets, Shut
<1> QED
  BY <1>1, <1>2, <1>3, <1>4, <1>5 DEF Next, Run

(* The ctrl conversation. *)
LEMMA NextCtrlOK == CtrlOK /\ [Next]_vars => CtrlOK'
<1> SUFFICES ASSUME CtrlOK, [Next]_vars PROVE CtrlOK'
  OBVIOUS
<1> USE DEF CtrlOK, ctrl
<1>1. CASE UNCHANGED vars
  BY <1>1 DEF vars
<1>2. CASE Connect \/ CertifyTimeout \/ CertifyAnswer \/ CertifyOther
  BY <1>2 DEF Connect, CertifyTimeout, CertifyAnswer, CertifyOther, Return
<1>3. CASE InitInfoList \/ InitInfoEnds \/ CallingAck \/ CallingEnds
  BY <1>3 DEF InitInfoList, InitInfoEnds, CallingAck, CallingEnds, Listen, Return
<1>4. CASE ProbeEnds \/ Setup \/ Dialed \/ ReaderEnds \/ DropChannel
  BY <1>4 DEF ProbeEnds, Setup, Dialed, ReaderEnds, DropChannel
<1>5. CASE SendInitReq
  BY <1>5 DEF SendInitReq
<1>6. CASE Accepted
  BY <1>6 DEF Accepted, SyncSendState
<1>7. CASE Renew
  BY <1>7 DEF Renew
<1>8. CASE SegmentArrives \/ SegmentLost \/ RenewalArrives
  BY <1>8 DEF SegmentArrives, SegmentLost, RenewalArrives
<1>9. CASE InitReqFails \/ StreamEnds \/ Close
  BY <1>9 DEF InitReqFails, StreamEnds, Close, Return
<1> QED
  BY <1>1, <1>2, <1>3, <1>4, <1>5, <1>6, <1>7, <1>8, <1>9 DEF Next, Run

(* The relay's dialer, its offer and its reader. *)
LEMMA NextDial == TcpOK /\ DialInv /\ ReaderInv /\ [Next]_vars => TcpOK' /\ DialInv' /\ ReaderInv'
<1> SUFFICES ASSUME TcpOK /\ DialInv /\ ReaderInv, [Next]_vars PROVE TcpOK' /\ DialInv' /\ ReaderInv'
  OBVIOUS
<1> USE DEF TcpOK, DialInv, ReaderInv, Streaming, Before, dialer, tcp
<1>1. CASE UNCHANGED vars
  BY <1>1 DEF vars
<1>2. CASE Connect \/ CertifyTimeout \/ CertifyAnswer \/ CertifyOther
  BY <1>2 DEF Connect, CertifyTimeout, CertifyAnswer, CertifyOther, Return
<1>3. CASE InitInfoList \/ InitInfoEnds \/ CallingAck \/ CallingEnds
  BY <1>3 DEF InitInfoList, InitInfoEnds, CallingAck, CallingEnds, Listen, Return
<1>4. CASE ProbeEnds \/ Dialed
  BY <1>4 DEF ProbeEnds, Dialed
<1>5. CASE Setup
  <2>1. phase = "setup" /\ phase' = "initreq" /\ offer' = "empty" /\ UNCHANGED dial
    BY <1>5 DEF Setup
  <2>2. CASE lan
    <3>1. UNCHANGED <<tcpRelay, readers, frames>>
      BY <1>5, <2>1, <2>2 DEF Setup
    <3> QED
      BY <2>1, <3>1
  <2>3. CASE ~lan /\ offer = "relay"
    <3>1. readers' = readers + 1 /\ frames' = "open"
      BY <1>5, <2>3 DEF Setup
    <3> QED
      BY <2>1, <2>3, <3>1
  <2>4. CASE ~lan /\ offer # "relay"
    <3>1. ~tcpRelay' /\ UNCHANGED <<readers, frames>>
      BY <1>5, <2>4 DEF Setup
    <3> QED
      BY <2>1, <3>1
  <2> QED
    BY <2>2, <2>3, <2>4
<1>6. CASE ReaderEnds
  BY <1>6 DEF ReaderEnds
<1>7. CASE DropChannel
  BY <1>7 DEF DropChannel
<1>8. CASE Accepted
  BY <1>8 DEF Accepted, StartReader
<1>9. CASE \/ SendInitReq \/ InitReqFails \/ Renew \/ StreamEnds
            \/ SegmentArrives \/ SegmentLost \/ RenewalArrives \/ Close
  BY <1>9 DEF SendInitReq, InitReqFails, Renew, StreamEnds, SegmentArrives,
             SegmentLost, RenewalArrives, Close, Return
<1> QED
  BY <1>1, <1>2, <1>3, <1>4, <1>5, <1>6, <1>7, <1>8, <1>9 DEF Next, Run

(* Close, the sockets, and the one goroutine that may still open one. *)
LEMMA NextClosed == SocketsOK /\ DialInv /\ ClosedInv /\ [Next]_vars => ClosedInv'
<1> SUFFICES ASSUME SocketsOK /\ DialInv /\ ClosedInv, [Next]_vars PROVE ClosedInv'
  OBVIOUS
<1> USE DEF SocketsOK, Sock, DialInv, ClosedInv, Streaming, Before,
            paths, sockets, dialer, tcp
<1>1. CASE UNCHANGED vars
  BY <1>1 DEF vars
<1>2. CASE Connect \/ CertifyTimeout \/ CertifyAnswer \/ CertifyOther
  BY <1>2 DEF Connect, CertifyTimeout, CertifyAnswer, CertifyOther, Return, CloseSockets, Shut
<1>3. CASE InitInfoList \/ InitInfoEnds \/ CallingAck
  BY <1>3 DEF InitInfoList, InitInfoEnds, CallingAck, Return, CloseSockets, Shut
<1>4. CASE CallingEnds
  BY <1>4 DEF CallingEnds, Listen, CloseSockets, Shut
<1>5. CASE ProbeEnds \/ Setup
  BY <1>5 DEF ProbeEnds, Setup
<1>6. CASE Dialed
  BY <1>6 DEF Dialed
<1>7. CASE ReaderEnds \/ DropChannel
  BY <1>7 DEF ReaderEnds, DropChannel
<1>8. CASE InitReqFails \/ StreamEnds
  BY <1>8 DEF InitReqFails, StreamEnds, Return, CloseSockets, Shut
<1>9. CASE Close
  BY <1>9 DEF Close, CloseSockets, Shut
<1>10. CASE \/ SendInitReq \/ Accepted \/ Renew
            \/ SegmentArrives \/ SegmentLost \/ RenewalArrives
  BY <1>10 DEF SendInitReq, Accepted, Renew, SegmentArrives, SegmentLost, RenewalArrives
<1> QED
  BY <1>1, <1>2, <1>3, <1>4, <1>5, <1>6, <1>7, <1>8, <1>9, <1>10 DEF Next, Run

(* The numbers of the ctrl segments. *)
LEMMA NextNumber == CtrlOK /\ NumberInv /\ [Next]_vars => NumberInv'
<1> SUFFICES ASSUME CtrlOK /\ NumberInv, [Next]_vars PROVE NumberInv'
  OBVIOUS
<1> USE DEF CtrlOK, NumberInv, RenewalIsNew, ctrl
<1>1. CASE UNCHANGED vars
  BY <1>1 DEF vars
<1>2. CASE Connect \/ CertifyTimeout \/ CertifyAnswer \/ CertifyOther
  BY <1>2 DEF Connect, CertifyTimeout, CertifyAnswer, CertifyOther, Return
<1>3. CASE InitInfoList \/ InitInfoEnds \/ CallingAck \/ CallingEnds
  BY <1>3 DEF InitInfoList, InitInfoEnds, CallingAck, CallingEnds, Listen, Return
<1>4. CASE ProbeEnds \/ Setup \/ Dialed \/ ReaderEnds \/ DropChannel
  BY <1>4 DEF ProbeEnds, Setup, Dialed, ReaderEnds, DropChannel
<1>5. CASE SendInitReq
  BY <1>5 DEF SendInitReq
<1>6. CASE InitReqFails \/ StreamEnds \/ Close
  BY <1>6 DEF InitReqFails, StreamEnds, Close, Return
<1>7. CASE Accepted
  BY <1>7 DEF Accepted, SyncSendState
<1>8. CASE Renew
  BY <1>8 DEF Renew
<1>9. CASE SegmentArrives \/ SegmentLost
  BY <1>9 DEF SegmentArrives, SegmentLost
<1>10. CASE RenewalArrives
  BY <1>10 DEF RenewalArrives
<1> QED
  BY <1>1, <1>2, <1>3, <1>4, <1>5, <1>6, <1>7, <1>8, <1>9, <1>10 DEF Next, Run

THEOREM Inductive == Spec => []IInv
<1>1. Init => IInv
  BY InitIInv
<1>2. IInv /\ [Next]_vars => IInv'
  BY NextFlagsOK, NextHandshake, NextSocketsOK, NextCtrlOK, NextDial, NextClosed, NextNumber
     DEF IInv, TypeOK
<1> QED
  BY <1>1, <1>2, PTL DEF Spec

(* Type correctness. *)
THEOREM TypeCorrect == Spec => []TypeOK
  BY Inductive, PTL DEF IInv

(* Only a Close that came before the transport was set up can leave a socket
   behind (session.go:222-237, 250-262).                                   *)
THEOREM NothingLeftOpen == Spec => []LeavesNothingOpen
<1>1. IInv => LeavesNothingOpen
  BY DEF IInv, ClosedInv, LeavesNothingOpen
<1> QED
  BY <1>1, Inductive, PTL

(* One goroutine reads the TCP relay (session.go:1508-1514). *)
THEOREM ReadsAlone == Spec => []OneReader
<1>1. IInv => OneReader
  BY DEF IInv, ReaderInv, OneReader
<1> QED
  BY <1>1, Inductive, PTL

(* Renewals never reuse a segment number, whatever was sent by hand
   (session.go:1483-1489).                                                 *)
THEOREM RenewalsAreNew == Spec => []RenewalIsNew
<1>1. IInv => RenewalIsNew
  BY DEF IInv, NumberInv
<1> QED
  BY <1>1, Inductive, PTL
=============================================================================
