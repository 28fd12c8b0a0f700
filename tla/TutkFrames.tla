---------------------------- MODULE TutkFrames -----------------------------
(***************************************************************************)
(* go2rtc/pkg/tutk/frame.go: FrameHandler, which puts the frames of a Wyze *)
(* camera together again from numbered packets and hands them to the       *)
(* reader of the connection through a channel of bounded length.           *)
(*                                                                         *)
(* The packets come over DTLS on UDP: any of them may be lost or come out  *)
(* of order, none comes twice (DTLS drops replayed records).  The length   *)
(* of waitData counts packets instead of bytes, so it is waitSeq as well.  *)
(* Frames are numbered as the camera numbers them, 0 included, and the     *)
(* last packet of a frame carries its FrameInfo.                           *)
(***************************************************************************)
EXTENDS Integers, Sequences, FiniteSets

CONSTANTS
  LastFrame,   \* the camera sends frames 0 .. LastFrame
  Channel,     \* channel of each frame
  Size,        \* packets of each frame
  Time,        \* capture time of each frame
  SizeGiven,   \* whether FrameInfo.PayloadSize is given
  TsWrap,      \* tsWrapPeriod
  Capacity,    \* length of the output channel
  Window,      \* bound: frames by which a packet may be late
  Nil

Frames == 0 .. LastFrame
VideoChannels == {"I", "P"}
Channels == VideoChannels \union {"audio"}
Packets == UNION {{f} \X (0 .. Size[f] - 1) : f \in Frames}

ASSUME TutkFramesAssumption ==
  /\ LastFrame \in Nat
  /\ Channel \in [Frames -> Channels]
  /\ Size \in [Frames -> Nat \ {0}]
  /\ Time \in [Frames -> Nat]
  /\ SizeGiven \in BOOLEAN
  /\ TsWrap \in Nat \ {0}
  /\ Capacity \in Nat \ {0}
  /\ Window \in Nat
  /\ Nil \notin Frames

VARIABLES
  arrived,   \* packets that came
  asm,       \* FrameHandler.channels
  track,     \* videoTS and audioTS
  worker,    \* where the goroutine that calls Handle is
  output,    \* the channel: positions in emitted
  closed,
  emitted,   \* history: packets given to queue, with their data
  taken,     \* history: position of the last one the reader took
  streak     \* history: video channel -> how much of which frame came in one piece

vars == <<arrived, asm, track, worker, output, closed, emitted, taken, streak>>

\* channelState after reset.
Blank == [frame |-> 0, total |-> 0, data |-> <<>>, info |-> Nil]

Media(c) == IF c = "audio" THEN "audio" ELSE "video"

Init ==
  /\ arrived = {}
  /\ asm = [c \in VideoChannels |-> Blank]
  /\ track = [m \in {"video", "audio"} |-> [seen |-> FALSE, last |-> 0, accum |-> 0]]
  /\ worker = "idle"
  /\ output = <<>>
  /\ closed = FALSE
  /\ emitted = <<>>
  /\ taken = 0
  /\ streak = [c \in VideoChannels |-> <<0, 0>>]

-----------------------------------------------------------------------------
(* Handle.                                                                 *)

\* (mutant) The rest of the old period is forgotten.
UpdateFromZero(t, raw) ==
  LET delta == IF raw >= t.last THEN raw - t.last ELSE raw
  IN  [seen |-> TRUE, last |-> raw, accum |-> IF t.seen THEN t.accum + delta ELSE 0]

\* tsTracker.update.  The raw time stays below the period, so nothing wraps in uint32.
Update(t, raw) ==
  LET delta == IF raw >= t.last THEN raw - t.last ELSE (TsWrap - t.last) + raw
  IN  [seen |-> TRUE, last |-> raw, accum |-> IF t.seen THEN t.accum + delta ELSE 0]

\* A frame is complete: its time is taken and queue is called.
Emit(f, data) ==
  LET m == Media(Channel[f])
      t == Update(track[m], Time[f] % TsWrap)
  IN  /\ track' = [track EXCEPT ![m] = t]
      /\ emitted' = Append(emitted, [frame |-> f, data |-> data, ts |-> t.accum])
      /\ worker' = "queue"

EmitNothing == UNCHANGED <<track, emitted, worker>>

\* (mutant) Only a larger number is a new frame.
MeetsOlder(a, f) == IF a.frame < f THEN [Blank EXCEPT !.frame = f, !.total = Size[f]] ELSE a

\* (mutant) An unfinished frame of the same length goes on with the new one's packets.
MeetsHalf(a, f) ==
  IF a.frame # f /\ ~(a.total = Size[f] /\ Len(a.data) > 0)
  THEN [Blank EXCEPT !.frame = f, !.total = Size[f]] ELSE a

\* The state a packet of frame f meets.
Meets(a, f) == IF a.frame # f THEN [Blank EXCEPT !.frame = f, !.total = Size[f]] ELSE a

Appended(a, f, i) ==
  [frame |-> a.frame, total |-> a.total, data |-> Append(a.data, <<f, i>>),
   info |-> IF i = Size[f] - 1 THEN f ELSE a.info]

HandleVideo(f, i) ==
  LET c == Channel[f]
      a == Meets(asm[c], f)
      b == Appended(a, f, i)
      inOrder == i = Len(a.data)
      complete == Len(b.data) = b.total /\ b.info # Nil
  IN  /\ c \in VideoChannels
      /\ \/ ~inOrder /\ asm' = [asm EXCEPT ![c] = Blank] /\ EmitNothing
         \/ inOrder /\ ~complete /\ asm' = [asm EXCEPT ![c] = b] /\ EmitNothing
         \/ /\ inOrder /\ complete
            /\ asm' = [asm EXCEPT ![c] = Blank]
            /\ IF SizeGiven => Len(b.data) = Size[b.info]
               THEN Emit(b.info, b.data) ELSE EmitNothing
      /\ streak' = [streak EXCEPT ![c] = IF i = 0 \/ @ = <<f, i>> THEN <<f, i + 1>> ELSE <<0, 0>>]

\* Only the packet that carries the FrameInfo is heard of an audio frame.
HandleAudio(f, i) ==
  /\ Channel[f] = "audio"
  /\ IF i = Size[f] - 1 THEN Emit(f, <<<<f, i>>>>) ELSE EmitNothing
  /\ UNCHANGED <<asm, streak>>

Handle(f, i) ==
  /\ worker = "idle"
  /\ <<f, i>> \notin arrived
  /\ \A q \in arrived : q[1] <= f + Window
  /\ arrived' = arrived \union {<<f, i>>}
  /\ HandleVideo(f, i) \/ HandleAudio(f, i)
  /\ UNCHANGED <<output, closed, taken>>

-----------------------------------------------------------------------------
(* queue, under closeMu until the goroutine is idle again; the reader      *)
(* receives without it.                                                    *)

HasRoom == Len(output) < Capacity

\* (mutant) A full channel keeps what it has.
QueueOrDrop ==
  /\ worker = "queue"
  /\ worker' = "idle"
  /\ output' = IF closed \/ ~HasRoom THEN output ELSE Append(output, Len(emitted))
  /\ UNCHANGED <<arrived, asm, track, closed, emitted, taken, streak>>

Queue ==
  /\ worker = "queue"
  /\ \/ closed /\ worker' = "idle" /\ UNCHANGED output
     \/ ~closed /\ HasRoom /\ output' = Append(output, Len(emitted)) /\ worker' = "idle"
     \/ ~closed /\ ~HasRoom /\ worker' = "full" /\ UNCHANGED output
  /\ UNCHANGED <<arrived, asm, track, closed, emitted, taken, streak>>

DropOldest ==
  /\ worker = "full"
  /\ output' = IF output = <<>> THEN output ELSE Tail(output)
  /\ worker' = "retry"
  /\ UNCHANGED <<arrived, asm, track, closed, emitted, taken, streak>>

Retry ==
  /\ worker = "retry"
  /\ output' = IF HasRoom THEN Append(output, Len(emitted)) ELSE output
  /\ worker' = "idle"
  /\ UNCHANGED <<arrived, asm, track, closed, emitted, taken, streak>>

Recv ==
  /\ output # <<>>
  /\ taken' = Head(output)
  /\ output' = Tail(output)
  /\ UNCHANGED <<arrived, asm, track, worker, closed, emitted, streak>>

Close ==
  /\ worker \notin {"full", "retry"}
  /\ ~closed
  /\ closed' = TRUE
  /\ UNCHANGED <<arrived, asm, track, worker, output, emitted, taken, streak>>

Next ==
  \/ \E p \in Packets : Handle(p[1], p[2])
  \/ Queue \/ DropOldest \/ Retry
  \/ Recv \/ Close

Spec == Init /\ [][Next]_vars

-----------------------------------------------------------------------------
TypeOK ==
  /\ arrived \subseteq Packets
  /\ asm \in [VideoChannels -> [frame : Frames, total : Nat, data : Seq(Packets),
                                info : Frames \union {Nil}]]
  /\ track \in [{"video", "audio"} -> [seen : BOOLEAN, last : 0 .. TsWrap - 1, accum : Nat]]
  /\ worker \in {"idle", "queue", "full", "retry"}
  /\ output \in Seq(Nat) /\ Len(output) <= Capacity
  /\ closed \in BOOLEAN
  /\ emitted \in Seq([frame : Frames, data : Seq(Packets), ts : Nat])
  /\ taken \in 0 .. Len(emitted)
  /\ streak \in [VideoChannels -> Frames \X Nat]

\* A video frame that is handed on is all of one frame's packets in their order, and no
\* other frame's, whatever was lost or came late on its channel (handleVideo's checks).
FramesAreWhole ==
  \A n \in 1 .. Len(emitted) :
    LET f == emitted[n].frame IN
    Channel[f] \in VideoChannels =>
      /\ Len(emitted[n].data) = Size[f]
      /\ \A i \in 1 .. Size[f] : emitted[n].data[i] = <<f, i - 1>>

\* A loss costs the frames that lost something and no other: a frame whose packets come one
\* after the other is handed on whatever its channel saw before.  Not so the frame numbered
\* 0, which reset cannot tell from no frame.
WholeFramesGetThrough ==
  \A c \in VideoChannels :
    LET f == streak[c][1] IN
    streak[c][2] = Size[f] /\ f # 0 => \E n \in 1 .. Len(emitted) : emitted[n].frame = f

\* A reader that is slow loses the oldest packets and never the newest, and what it reads is
\* in the order it was put together, however its receives fall between the steps of queue.
NewestIsKept ==
  /\ \A i \in 1 .. Len(output) :
       /\ output[i] > taken
       /\ \A j \in 1 .. i - 1 : output[j] < output[i]
  /\ worker = "idle" /\ ~closed /\ taken < Len(emitted) =>
       output # <<>> /\ output[Len(output)] = Len(emitted)

Track(n) == Media(Channel[emitted[n].frame])

\* Two frames of a track with none of it between them.
Successive(n, m) ==
  n < m /\ Track(n) = Track(m) /\ \A k \in n + 1 .. m - 1 : Track(k) # Track(n)

\* The time of a track follows the camera's clock through its wraps as long as successive
\* frames of the track are in order and less than a period apart.
TimeIsKept ==
  \A n, m \in 1 .. Len(emitted) :
    LET f == emitted[n].frame
        g == emitted[m].frame
    IN  Successive(n, m) /\ Time[f] <= Time[g] /\ Time[g] < Time[f] + TsWrap
        => emitted[m].ts - emitted[n].ts = Time[g] - Time[f]
=============================================================================
