----------------------------- MODULE TutkConn ------------------------------
(***************************************************************************)
(* go2rtc/pkg/tutk/dtls: DTLSConn, the connection to a Wyze camera, and    *)
(* the client of go2rtc/pkg/wyze that logs in over it, asks for a quality, *)
(* probes the codecs and then reads frames until it is stopped.            *)
(*                                                                         *)
(* Goroutines: the one that dials and later reads, the one that stops the  *)
(* producer, one that switches the speaker on, and the connection's own:   *)
(* reader (socket to clientBuf), worker (records to rawCmd, the notifier   *)
(* or the frames) and acker.  Only one of the calls that wait for rawCmd   *)
(* runs at a time: dialling makes the first ones, and the speaker comes    *)
(* after it.                                                               *)
(*                                                                         *)
(* The camera answers a question any number of times or not at all, sends  *)
(* frames once it has accepted the client, rings, and may fall silent or   *)
(* close the session at any moment.  A late answer to a question that is   *)
(* not asked again is a ring to the client, something no call waits for.   *)
(* Close clears clientConn while other goroutines use it without the lock; *)
(* using nil ends the process.                                             *)
(***************************************************************************)
EXTENDS Integers, Sequences

CONSTANTS
  BufSize,     \* length of clientBuf
  RawSize,     \* length of rawCmd
  FrameSlots,  \* length of the channel of frames
  Nil

\* What the client asks the camera, and the answers' names.
IoKinds == {"challenge", "auth", "resolution", "speaker"}
Kinds == IoKinds \union {"login"}
Messages == Kinds \union {"ring", "frame", "bye"}

ASSUME TutkConnAssumption ==
  /\ BufSize \in Nat \ {0} /\ RawSize \in Nat \ {0} /\ FrameSlots \in Nat \ {0}
  /\ Nil \notin Kinds

VARIABLES
  dialer,     \* where the goroutine is that dials and reads
  talk,       \* the goroutine of the speaker
  call,       \* what a call waits for in rawCmd
  alive,      \* the camera still sends
  clientConn, \* "none", "open", or "nil" after Close
  clientBuf, rawCmd,
  frames,     \* packets in FrameHandler.output
  shut,       \* FrameHandler.closed
  reader, worker, acker,
  ctx,        \* the context is cancelled
  closer,     \* where the goroutine is that runs Close
  crashed     \* nil was used

data == <<clientBuf, rawCmd, frames>>
ends == <<clientConn, shut, ctx, closer>>
loops == <<reader, worker, acker>>
vars == <<dialer, talk, call, alive, data, ends, loops, crashed>>

Init ==
  /\ dialer = "discover"
  /\ talk = "off"
  /\ call = Nil
  /\ alive = TRUE
  /\ clientConn = "none"
  /\ clientBuf = <<>> /\ rawCmd = <<>> /\ frames = 0
  /\ shut = FALSE
  /\ reader = "none" /\ worker = "none" /\ acker = "none"
  /\ ctx = FALSE
  /\ closer = "none"
  /\ crashed = FALSE

\* queue: the oldest entry makes room.
Queued(q, m, size) == Append(IF Len(q) < size THEN q ELSE Tail(q), m)

-----------------------------------------------------------------------------
(* Close, by the dialling goroutine after an error or by the stopping one. *)

Closing == closer # "none"

\* Client.Close, and DTLSConn.Close up to cancel.
Close ==
  /\ ~Closing
  /\ closer' = "release"
  /\ ctx' = TRUE

Release ==
  /\ closer = "release"
  /\ clientConn' = "nil"
  /\ shut' = TRUE
  /\ closer' = "wait"
  /\ UNCHANGED <<dialer, talk, call, alive, data, ctx, loops, crashed>>

\* wg.Wait has nothing left to wait for, and the socket is closed.
Waited ==
  /\ closer = "wait"
  /\ \A g \in {reader, worker, acker} : g \in {"none", "gone"}
  /\ closer' = "done"
  /\ UNCHANGED <<dialer, talk, call, alive, data, clientConn, shut, ctx, loops, crashed>>

Stop ==
  /\ dialer \in {"read", "ended"}
  /\ Close
  /\ UNCHANGED <<dialer, talk, call, alive, data, clientConn, shut, loops, crashed>>

-----------------------------------------------------------------------------
(* Dialling: DialDTLS, then the questions of Client.Dial and of probe.     *)

Fail ==
  /\ dialer' = "failed"
  /\ Close
  /\ UNCHANGED <<clientConn, shut>>

\* discovery, then the reader starts.  Without an answer Close finds nothing running.
Discover ==
  /\ dialer = "discover"
  /\ \/ alive /\ dialer' = "dtls" /\ reader' = "run" /\ UNCHANGED ends
     \/ Fail /\ UNCHANGED reader
  /\ UNCHANGED <<talk, call, alive, data, worker, acker, crashed>>

\* The handshake of connect, then the worker starts; login is asked at once.
Connect ==
  /\ dialer = "dtls"
  /\ \/ /\ alive
        /\ clientConn' = "open"
        /\ worker' = "top"
        /\ dialer' = "login"
        /\ call' = "login"
        /\ UNCHANGED <<shut, ctx, closer>>
     \/ Fail /\ UNCHANGED <<worker, call>>
  /\ UNCHANGED <<talk, alive, data, reader, acker, crashed>>

AskNext(question) == dialer' = question /\ call' = question

\* What follows an answer: AVClientStart's acker, the steps of doKAuth, SetResolution.
Answered ==
  CASE call = "login"      -> AskNext("challenge") /\ acker' = "tick" /\ UNCHANGED talk
    [] call = "challenge"  -> AskNext("auth") /\ UNCHANGED <<talk, acker>>
    [] call = "auth"       -> AskNext("resolution") /\ UNCHANGED <<talk, acker>>
    [] call = "resolution" -> dialer' = "probe" /\ call' = Nil /\ UNCHANGED <<talk, acker>>
    [] call = "speaker"    -> talk' = "on" /\ call' = Nil /\ UNCHANGED <<dialer, acker>>

\* A waiting call takes an entry of rawCmd, and acknowledges it unless it waits for the
\* login response; entries it does not wait for are gone.
TakeRaw ==
  /\ call # Nil /\ rawCmd # <<>>
  /\ rawCmd' = Tail(rawCmd)
  /\ IF call \in IoKinds /\ clientConn = "nil"
     THEN crashed' = TRUE /\ UNCHANGED <<dialer, talk, call, acker>>
     ELSE /\ UNCHANGED crashed
          /\ IF Head(rawCmd) = call THEN Answered
             ELSE UNCHANGED <<dialer, talk, call, acker>>
  /\ UNCHANGED <<alive, clientBuf, frames, ends, reader, worker>>

\* (mutant) The timer starts again with every entry that comes.
ExpireWhenQuiet ==
  /\ call # Nil /\ rawCmd = <<>> /\ frames = 0
  /\ call' = Nil
  /\ \/ call = "resolution" /\ dialer' = "probe" /\ UNCHANGED <<talk, ends>>
     \/ call = "speaker" /\ talk' = "late" /\ UNCHANGED <<dialer, ends>>
     \/ call \notin {"resolution", "speaker"} /\ Fail /\ UNCHANGED talk
  /\ UNCHANGED <<alive, data, loops, crashed>>

\* The timeout of a call.  That of SetResolution is ignored.
Expire ==
  /\ call # Nil
  /\ call' = Nil
  /\ \/ call = "resolution" /\ dialer' = "probe" /\ UNCHANGED <<talk, ends>>
     \/ call = "speaker" /\ talk' = "late" /\ UNCHANGED <<dialer, ends>>
     \/ call \notin {"resolution", "speaker"} /\ Fail /\ UNCHANGED talk
  /\ UNCHANGED <<alive, data, loops, crashed>>

\* ReadPacket.  probe goes on until it knows the codecs; a closed channel is an error once
\* it is drained, a cancelled context at once.
ReadPacket ==
  /\ dialer \in {"probe", "read"}
  /\ \/ frames > 0 /\ frames' = frames - 1 /\ dialer' \in {dialer, "read"} /\ UNCHANGED ends
     \/ /\ (shut /\ frames = 0) \/ ctx
        /\ dialer' = "ended"
        /\ UNCHANGED <<frames, ends>>
  /\ UNCHANGED <<talk, call, alive, clientBuf, rawCmd, loops, crashed>>

\* AddTrack on the backchannel asks for the speaker.
StartIntercom ==
  /\ dialer \in {"read", "ended"} /\ talk \in {"off", "late"} /\ call = Nil
  /\ ~Closing
  /\ talk' = "wait"
  /\ call' = "speaker"
  /\ UNCHANGED <<dialer, alive, data, ends, loops, crashed>>

-----------------------------------------------------------------------------
(* The camera, and the connection's goroutines.                            *)

Silence ==
  /\ alive
  /\ alive' = FALSE
  /\ UNCHANGED <<dialer, talk, call, data, ends, loops, crashed>>

Sends(m) ==
  CASE m \in {"ring", "bye"}  -> TRUE
    [] m = "frame"           -> dialer \notin {"login", "challenge"}
    [] m = "login"           -> call \in {"login", "challenge"}
    [] m = "speaker"         -> talk # "off"
    [] OTHER                 -> m = call

\* The reader passes a record of the camera on.
Receive(m) ==
  /\ alive /\ Sends(m)
  /\ clientConn # "none"
  /\ reader = "run" /\ ~ctx
  /\ clientBuf' = Queued(clientBuf, m, BufSize)
  /\ UNCHANGED <<dialer, talk, call, alive, rawCmd, frames, ends, loops, crashed>>

\* Its read times out every 100 ms, so it sees a cancelled context.
ReaderStops ==
  /\ reader = "run" /\ ctx
  /\ reader' = "gone"
  /\ UNCHANGED <<dialer, talk, call, alive, data, ends, worker, acker, crashed>>

\* The worker's look at the context, and its use of clientConn after it.
WorkerLooks ==
  /\ worker = "top"
  /\ worker' = IF ctx THEN "gone" ELSE "reads"
  /\ UNCHANGED <<dialer, talk, call, alive, data, ends, reader, acker, crashed>>

WorkerReads ==
  /\ worker = "reads"
  /\ IF clientConn = "nil" THEN crashed' = TRUE /\ UNCHANGED worker
     ELSE worker' = "blocked" /\ UNCHANGED crashed
  /\ UNCHANGED <<dialer, talk, call, alive, data, ends, reader, acker>>

\* A record: to the call that waits, to the notifier, or to the frames.
Route ==
  LET m == Head(clientBuf) IN
  /\ worker = "blocked" /\ clientBuf # <<>>
  /\ clientBuf' = Tail(clientBuf)
  /\ IF m = "bye" THEN worker' = "gone" ELSE worker' = "top"
  /\ rawCmd' = IF m = "login" \/ (m \in IoKinds \union {"ring"} /\ call \in IoKinds)
               THEN Queued(rawCmd, m, RawSize) ELSE rawCmd
  /\ frames' = IF m = "frame" /\ ~shut /\ frames < FrameSlots THEN frames + 1 ELSE frames
  /\ UNCHANGED <<dialer, talk, call, alive, ends, reader, acker, crashed>>

\* Reading fails once Close has cancelled the context.
WorkerFails ==
  /\ worker = "blocked" /\ ctx
  /\ worker' = "gone"
  /\ UNCHANGED <<dialer, talk, call, alive, data, ends, reader, acker, crashed>>

\* (mutant) The acker only stops when there is no connection at its tick.
AckLoops ==
  /\ \/ /\ acker = "tick"
        /\ acker' = IF clientConn = "open" THEN "send" ELSE "tick"
        /\ UNCHANGED crashed
     \/ acker = "send" /\ acker' = "tick" /\ crashed' = (clientConn = "nil")
  /\ UNCHANGED <<dialer, talk, call, alive, data, ends, reader, worker>>

\* The acker's tick: it checks clientConn, and then uses it.
Ack ==
  /\ \/ acker = "tick" /\ ctx /\ acker' = "gone" /\ UNCHANGED crashed
     \/ acker = "tick" /\ clientConn = "open" /\ acker' = "send" /\ UNCHANGED crashed
     \/ acker = "send" /\ acker' = "tick" /\ crashed' = (clientConn = "nil")
  /\ UNCHANGED <<dialer, talk, call, alive, data, ends, reader, worker>>

-----------------------------------------------------------------------------
Dialling == Discover \/ Connect \/ TakeRaw \/ Expire \/ ReadPacket
Loops == ReaderStops \/ WorkerLooks \/ WorkerReads \/ Route \/ WorkerFails \/ Ack

Next ==
  /\ ~crashed
  /\ \/ Dialling \/ StartIntercom \/ Stop \/ Release \/ Waited
     \/ Silence \/ (\E m \in Messages : Receive(m)) \/ Loops

Spec == Init /\ [][Next]_vars

Running(A) == ~crashed /\ A

\* Goroutines that can go on do, deadlines expire; nobody has to stop the producer and the
\* camera owes nothing.
Fairness ==
  /\ WF_vars(Running(Discover)) /\ WF_vars(Running(Connect)) /\ WF_vars(Running(Expire))
  /\ WF_vars(Running(ReadPacket))
  /\ WF_vars(Running(Release)) /\ WF_vars(Running(Waited))
  /\ WF_vars(Running(ReaderStops)) /\ WF_vars(Running(WorkerLooks \/ WorkerReads))
  /\ WF_vars(Running(Route \/ WorkerFails))
  /\ WF_vars(Running(Ack))

FairSpec == Spec /\ Fairness

-----------------------------------------------------------------------------
TypeOK ==
  /\ dialer \in {"discover", "dtls", "login", "challenge", "auth", "resolution",
                 "probe", "read", "ended", "failed"}
  /\ talk \in {"off", "wait", "late", "on"}
  /\ call \in Kinds \union {Nil}
  /\ alive \in BOOLEAN /\ shut \in BOOLEAN /\ ctx \in BOOLEAN /\ crashed \in BOOLEAN
  /\ clientConn \in {"none", "open", "nil"}
  /\ clientBuf \in Seq(Messages) /\ Len(clientBuf) <= BufSize
  /\ rawCmd \in Seq(Messages) /\ Len(rawCmd) <= RawSize
  /\ frames \in 0 .. FrameSlots
  /\ reader \in {"none", "run", "gone"}
  /\ worker \in {"none", "top", "reads", "blocked", "gone"}
  /\ acker \in {"none", "tick", "send", "gone"}
  /\ closer \in {"none", "release", "wait", "done"}

\* Close ends everything: its wait for the three goroutines, the reading of frames, and a
\* call that was waiting when it came.
CloseEndsAll ==
  ctx ~> \/ crashed
         \/ closer = "done" /\ call = Nil /\ dialer \in {"ended", "failed"}

\* No question waits for ever, whatever else the camera sends meanwhile.
CallsEnd == \A k \in Kinds : call = k ~> call # k \/ crashed

\* DOCS/DESIGN.md:311, "STREAMING --(drop/timeout)--> OFFLINE": reading a camera that is gone
\* comes to an end.
GoneIsNoticed ==
  (worker = "gone" \/ ~alive) ~> (dialer \notin {"probe", "read"} \/ crashed)
=============================================================================
