---------------------------- MODULE GwellSession ----------------------------
(***************************************************************************)
(* internal/gwell/upstream/gwell/session.go: the life of one P2P session   *)
(* with a Gwell camera, from Run to its return, while its owner may call   *)
(* Close at any moment.                                                    *)
(*                                                                         *)
(* The goroutine of Run is a program counter, phase; the others are the    *)
(* one that dials the TCP relay and the one that reads it.  What the P2P   *)
(* server sends may be lost, late, repeated or meant for another session   *)
(* that shares the endpoint, so a read returns any frame that it may have  *)
(* sent by then or times out; the loops that read a fixed number of frames *)
(* may end at any read.  The camera's half of the ctrl conversation is     *)
(* kept as far as the handshake needs it: which segment numbers it has.    *)
(***************************************************************************)
EXTENDS Integers, FiniteSets

CONSTANTS
  MaxSends,    \* bound: INITREQs sent by hand
  MaxRenewals  \* bound: renewals sent through ctrlKCP

ASSUME SessionAssumption == MaxSends \in Nat \ {0} /\ MaxRenewals \in Nat

VARIABLES
  phase,     \* where Run is
  closed,    \* Session.closed
  hasty,     \* history: Close was called before setupTransport was done
  attempt,   \* certify: reads so far
  asked,     \* certify: requests sent; each has a random key of its own
  key,       \* the request whose key became certResult.SessionKey, or 0
  serverKey, \* the request the server answered, or 0
  devices,   \* s.devices is not empty
  lan,       \* lanMTPAddrs is not empty
  relays,    \* relayAddrs is not empty
  acked,     \* callingRelayIP is set
  conn, pc,  \* sockets: none, open, closed
  relay,     \* the TCP connection to a relay: none, open, closed
  dial,      \* the goroutine that makes it: idle, busy, done
  offer,     \* tcpRelayChan: empty, nothing (a nil), relay
  tcpRelay,  \* s.tcpRelay is set
  readers,   \* running readTCPRelay goroutines
  frames,    \* tcpFrameCh: none, open, closed
  kcpSN,     \* INITREQs numbered by hand
  flying,    \* those on their way to the camera
  sndNxt,    \* sndNxt of ctrlKCP
  renewing,  \* renewals ctrlKCP has not seen acknowledged
  camHas     \* ctrl segments the camera has received

handshake == <<attempt, asked, key, serverKey, devices>>
paths     == <<lan, relays, acked>>
sockets   == <<conn, pc, relay>>
dialer    == <<dial, offer>>
tcp       == <<tcpRelay, readers, frames>>
ctrl      == <<kcpSN, flying, sndNxt, renewing, camHas>>
vars == <<phase, closed, hasty, handshake, paths, sockets, dialer, tcp, ctrl>>

Shut(sock) == IF sock = "open" THEN "closed" ELSE sock

-----------------------------------------------------------------------------
(* Close and the return of Run, which defers it.                           *)

\* (mutant) The TCP relay is forgotten.
CloseKeepsRelay == closed' = TRUE /\ conn' = Shut(conn) /\ pc' = Shut(pc) /\ UNCHANGED relay

\* What the one Close that counts does; a later one finds closed set.
CloseSockets ==
  /\ closed' = TRUE
  /\ conn' = Shut(conn)
  /\ pc' = Shut(pc)
  /\ relay' = IF tcpRelay THEN Shut(relay) ELSE relay

\* The owner: its ffmpeg died, no data came for too long, or it is stopping.
Close ==
  /\ ~closed
  /\ CloseSockets
  /\ hasty' = (phase \notin {"initreq", "stream"})
  /\ UNCHANGED <<phase, handshake, paths, dialer, tcp, ctrl>>

Return ==
  /\ phase' = "returned"
  /\ IF closed THEN UNCHANGED <<closed, sockets>> ELSE CloseSockets
  /\ UNCHANGED <<hasty, paths, dialer, tcp, ctrl>>

-----------------------------------------------------------------------------
(* connect and certify.                                                    *)

Connect ==
  /\ phase = "connect"
  /\ \/ /\ conn' = "open" /\ phase' = "certify" /\ asked' = 1
        /\ UNCHANGED <<closed, hasty, attempt, key, serverKey, devices,
                       paths, pc, relay, dialer, tcp, ctrl>>
     \/ Return /\ UNCHANGED handshake

\* A read that brings nothing: at the first the request is repeated without
\* the outer encryption and with a new key.
CertifyTimeout ==
  /\ phase = "certify"
  /\ IF attempt = 0
     THEN /\ asked' = 2 /\ attempt' = 1
          /\ UNCHANGED <<phase, closed, hasty, key, serverKey, devices,
                         paths, sockets, dialer, tcp, ctrl>>
     ELSE Return /\ UNCHANGED handshake

\* An answer does not name its request: the session takes the newest key.
CertifyAnswer ==
  /\ phase = "certify"
  /\ conn = "open"
  /\ serverKey' \in 1 .. asked
  /\ key' = asked
  /\ phase' = "initInfo"
  /\ UNCHANGED <<closed, hasty, attempt, asked, devices, paths, sockets, dialer, tcp, ctrl>>

CertifyOther ==
  /\ phase = "certify"
  /\ conn = "open"
  /\ attempt' = attempt + 1
  /\ IF attempt' < 3
     THEN /\ UNCHANGED <<phase, closed, hasty, asked, key, serverKey, devices,
                         paths, sockets, dialer, tcp, ctrl>>
     ELSE Return /\ UNCHANGED <<asked, key, serverKey, devices>>

-----------------------------------------------------------------------------
(* initInfo, networkDetect, subscribe, calling.                            *)

\* TryDecrypt: a frame that the server encrypted for this session is readable
\* only with the key the server has.
Readable == conn = "open" /\ key = serverKey

InitInfoList ==
  /\ phase = "initInfo"
  /\ Readable
  /\ devices' = TRUE
  /\ UNCHANGED <<phase, closed, hasty, attempt, asked, key, serverKey,
                 paths, sockets, dialer, tcp, ctrl>>

\* The reads of networkDetect and subscribe are only logged.
InitInfoEnds ==
  /\ phase = "initInfo"
  /\ IF devices
     THEN /\ phase' = "calling"
          /\ UNCHANGED <<closed, hasty, paths, sockets, dialer, tcp, ctrl>>
     ELSE Return
  /\ UNCHANGED handshake

\* CALLING is acknowledged with the address of the peer.
CallingAck ==
  /\ phase = "calling"
  /\ Readable
  /\ acked' = TRUE
  /\ UNCHANGED <<phase, closed, hasty, handshake, lan, relays, sockets, dialer, tcp, ctrl>>

\* ListenUDP in place of the connected socket, and the relay dialer.
Listen ==
  /\ conn' = "closed"
  /\ pc' = "open"
  /\ dial' = "busy"
  /\ UNCHANGED <<closed, hasty, handshake, acked, relay, offer, tcp, ctrl>>

\* (mutant) A CALLING that nobody answers is not an error.
CallingEndsAnyway ==
  /\ phase = "calling"
  /\ UNCHANGED <<lan, relays>>
  /\ phase' = IF lan \/ relays THEN "probe" ELSE "setup"
  /\ Listen

\* The MTP_RES that names relays ends the loop, and so does a read that brings
\* nothing, or the quick read after an acknowledgement with the address
\* 0.0.0.0:0, which drops what it reads.
CallingEnds ==
  /\ phase = "calling"
  /\ \/ Readable /\ relays' = TRUE
     \/ UNCHANGED relays
  /\ UNCHANGED lan
  /\ IF acked \/ lan \/ relays'
     THEN /\ phase' = IF lan \/ relays' THEN "probe" ELSE "setup"
          /\ Listen
     ELSE /\ phase' = "returned"
          /\ IF closed THEN UNCHANGED <<closed, sockets>> ELSE CloseSockets
          /\ UNCHANGED <<hasty, handshake, acked, dialer, tcp, ctrl>>

-----------------------------------------------------------------------------
(* The transport: probeAndWait, setupTransport and the relay dialer.       *)

\* A camera that answers from a private address is reachable on the LAN.
ProbeEnds ==
  /\ phase = "probe"
  /\ phase' = "setup"
  /\ \/ UNCHANGED lan
     \/ pc = "open" /\ lan' = TRUE
  /\ UNCHANGED <<closed, hasty, handshake, relays, acked, sockets, dialer, tcp, ctrl>>

\* With a LAN address a relay that is there already is closed; without one it
\* is taken, if it comes within five seconds.
Setup ==
  /\ phase = "setup"
  /\ phase' = "initreq"
  /\ offer' = "empty"
  /\ IF lan THEN /\ relay' = IF offer = "relay" THEN "closed" ELSE relay
                 /\ UNCHANGED tcpRelay
            ELSE /\ tcpRelay' = (offer = "relay")
                 /\ UNCHANGED relay
  /\ IF tcpRelay' THEN readers' = readers + 1 /\ frames' = "open"
     ELSE UNCHANGED <<readers, frames>>
  /\ UNCHANGED <<closed, hasty, handshake, paths, conn, pc, dial, ctrl>>

\* The dialer does not look at closed.
Dialed ==
  /\ dial = "busy"
  /\ dial' = "done"
  /\ \/ offer' = "relay" /\ relay' = "open"
     \/ offer' = "nothing" /\ UNCHANGED relay
  /\ UNCHANGED <<phase, closed, hasty, handshake, paths, conn, pc, tcp, ctrl>>

\* readTCPRelay ends when the connection fails or the session is closed, and
\* closes its channel.
ReaderEnds ==
  /\ readers > 0
  /\ readers' = readers - 1
  /\ frames' = IF frames = "open" THEN "closed" ELSE frames
  /\ UNCHANGED <<phase, closed, hasty, handshake, paths, sockets, dialer, tcpRelay, ctrl>>

\* A loop of streamLoop finds the channel closed.
DropChannel ==
  /\ phase \in {"initreq", "stream"}
  /\ frames = "closed"
  /\ frames' = "none"
  /\ UNCHANGED <<phase, closed, hasty, handshake, paths, sockets, dialer,
                 tcpRelay, readers, ctrl>>

-----------------------------------------------------------------------------
(* streamLoop: INITREQ until ACCEPT, then the stream and its renewals.     *)

\* Segment 0 again and a new one, neither of them through ctrlKCP.
SendInitReq ==
  /\ phase = "initreq"
  /\ kcpSN < MaxSends
  /\ kcpSN' = kcpSN + 1
  /\ flying' = flying \cup {0, kcpSN}
  /\ UNCHANGED <<phase, closed, hasty, handshake, paths, sockets, dialer, tcp,
                 sndNxt, renewing, camHas>>

\* (mutant) INITREQs are sent until the camera accepts one.
InitReqNeverFails ==
  /\ phase = "initreq"
  /\ closed /\ pc = "closed" /\ frames # "open"
  /\ Return
  /\ UNCHANGED handshake

\* The loop does not look at closed: it ends with an error of the socket, which
\* a Close that came before Listen has not closed, or after 60 seconds.
InitReqFails ==
  /\ phase = "initreq"
  /\ Return
  /\ UNCHANGED handshake

\* (mutant) ctrlKCP goes on with the number that was sent last.
SyncSendStateLast == sndNxt' = kcpSN - 1

SyncSendState == sndNxt' = kcpSN

\* After the handshake a relay that has no channel gets a reader.
StartReader ==
  IF frames = "none" /\ tcpRelay
  THEN readers' = readers + 1 /\ frames' = "open"
  ELSE UNCHANGED <<readers, frames>>

\* The camera accepts an INITREQ that its conversation delivers: it has 0.
Accepted ==
  /\ phase = "initreq"
  /\ 0 \in camHas
  /\ pc = "open" \/ frames = "open"
  /\ phase' = "stream"
  /\ SyncSendState
  /\ StartReader
  /\ UNCHANGED <<closed, hasty, handshake, paths, sockets, dialer, tcpRelay,
                 kcpSN, flying, renewing, camHas>>

\* Every 15 seconds, through ctrlKCP, which repeats it until it is acknowledged.
Renew ==
  /\ phase = "stream"
  /\ ~closed
  /\ sndNxt < kcpSN + MaxRenewals
  /\ renewing' = renewing \cup {sndNxt}
  /\ sndNxt' = sndNxt + 1
  /\ UNCHANGED <<phase, closed, hasty, handshake, paths, sockets, dialer, tcp,
                 kcpSN, flying, camHas>>

\* The loop over the stream ends when the session is closed.
StreamEnds ==
  /\ phase = "stream"
  /\ closed
  /\ Return
  /\ UNCHANGED handshake

-----------------------------------------------------------------------------
(* The camera's end of the ctrl conversation.                              *)

SegmentArrives ==
  /\ \E n \in flying : camHas' = camHas \cup {n} /\ flying' = flying \ {n}
  /\ UNCHANGED <<phase, closed, hasty, handshake, paths, sockets, dialer, tcp,
                 kcpSN, sndNxt, renewing>>

SegmentLost ==
  /\ \E n \in flying : flying' = flying \ {n}
  /\ UNCHANGED <<phase, closed, hasty, handshake, paths, sockets, dialer, tcp,
                 kcpSN, sndNxt, renewing, camHas>>

RenewalArrives ==
  /\ \E n \in renewing : camHas' = camHas \cup {n} /\ renewing' = renewing \ {n}
  /\ UNCHANGED <<phase, closed, hasty, handshake, paths, sockets, dialer, tcp,
                 kcpSN, flying, sndNxt>>

-----------------------------------------------------------------------------
\* The owner may know the camera's address, and the devices, beforehand.
Init ==
  /\ phase = "connect" /\ closed = FALSE /\ hasty = FALSE
  /\ attempt = 0 /\ asked = 0 /\ key = 0 /\ serverKey = 0
  /\ devices \in BOOLEAN /\ lan \in BOOLEAN
  /\ relays = FALSE /\ acked = FALSE
  /\ conn = "none" /\ pc = "none" /\ relay = "none"
  /\ dial = "idle" /\ offer = "empty"
  /\ tcpRelay = FALSE /\ readers = 0 /\ frames = "none"
  /\ kcpSN = 0 /\ flying = {} /\ sndNxt = 0 /\ renewing = {} /\ camHas = {}

Run ==
  \/ Connect \/ CertifyTimeout \/ CertifyAnswer \/ CertifyOther
  \/ InitInfoList \/ InitInfoEnds \/ CallingAck \/ CallingEnds
  \/ ProbeEnds \/ Setup
  \/ SendInitReq \/ InitReqFails \/ Accepted \/ Renew \/ StreamEnds
  \/ DropChannel

Next ==
  \/ Run \/ Close \/ Dialed \/ ReaderEnds
  \/ SegmentArrives \/ SegmentLost \/ RenewalArrives

Spec == Init /\ [][Next]_vars

\* Every read has a deadline, so each phase ends; nothing makes the camera
\* answer or the owner call Close.
FairSpec ==
  /\ Spec
  /\ WF_vars(Connect) /\ WF_vars(CertifyTimeout) /\ WF_vars(InitInfoEnds)
  /\ WF_vars(CallingEnds) /\ WF_vars(ProbeEnds) /\ WF_vars(Setup)
  /\ WF_vars(InitReqFails) /\ WF_vars(StreamEnds)

-----------------------------------------------------------------------------
Phases == {"connect", "certify", "initInfo", "calling", "probe", "setup",
           "initreq", "stream", "returned"}
Sock   == {"none", "open", "closed"}

FlagsOK ==
  /\ closed \in BOOLEAN /\ hasty \in BOOLEAN /\ devices \in BOOLEAN /\ lan \in BOOLEAN
  /\ relays \in BOOLEAN /\ acked \in BOOLEAN /\ tcpRelay \in BOOLEAN

HandshakeOK ==
  /\ phase \in Phases
  /\ attempt \in 0 .. 3 /\ asked \in 0 .. 2 /\ key \in 0 .. asked /\ serverKey \in 0 .. asked

SocketsOK ==
  /\ conn \in Sock /\ pc \in Sock /\ relay \in Sock
  /\ dial \in {"idle", "busy", "done"} /\ offer \in {"empty", "nothing", "relay"}

TcpOK == readers \in Nat /\ frames \in {"none", "open", "closed"}

CtrlOK ==
  /\ kcpSN \in Nat /\ sndNxt \in Nat
  /\ flying \subseteq Nat /\ renewing \subseteq Nat /\ camHas \subseteq Nat

TypeOK == FlagsOK /\ HandshakeOK /\ SocketsOK /\ TcpOK /\ CtrlOK

(* A session that returns leaves no socket behind and no relay but one that
   nobody took from the dialer, unless it was closed while Run had still to open
   or to take them.                                                        *)
LeavesNothingOpen ==
  phase = "returned" =>
    /\ conn = "open" \/ pc = "open" => hasty
    /\ tcpRelay /\ relay = "open" => hasty

(* Two goroutines never read frames from one TCP connection. *)
OneReader == readers <= 1

(* A renewal never has a number the camera has seen, so it is no duplicate to
   it: what SyncSendState is for.                                          *)
RenewalIsNew == renewing \cap (camHas \cup flying) = {}

(* A session that took the answer to an older request has the wrong key; if it
   knows no address of the camera it ends by itself.                       *)
WrongKeyGivesUp == key # serverKey /\ ~lan ~> phase = "returned"

(* Run returns once Close has been called, whatever it was doing. *)
CloseEndsRun == closed ~> phase = "returned"

(* The comment on SyncSendState in streamLoop: the camera has received what was
   sent by hand, or will.                                                  *)
SentIsReceived == phase = "stream" => 0 .. kcpSN - 1 \subseteq camHas \cup flying
=============================================================================
