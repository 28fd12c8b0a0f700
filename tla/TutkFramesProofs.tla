-------------------------- MODULE TutkFramesProofs --------------------------
(***************************************************************************)
(* What holds of FrameHandler for any frames, any packet sizes and any     *)
(* order and loss of packets, and of the connection that feeds it for any  *)
(* lengths of its queues.                                                  *)
(***************************************************************************)
EXTENDS TutkFrames, TLAPS

States == [frame : Frames, total : Nat, data : Seq(Packets), info : Frames \union {Nil}]

\* A channel holds the first packets of one frame, and knows its size unless
\* it is the frame numbered 0.
Whole(a) ==
  /\ \A i \in 1 .. Len(a.data) : a.data[i] = <<a.frame, i - 1>>
  /\ a.total = 0 \/ a.total = Size[a.frame]
  /\ a.info = Nil \/ a.info = a.frame

AsmInv == asm \in [VideoChannels -> States] /\ \A c \in VideoChannels : Whole(asm[c])

Emission == [frame : Frames, data : Seq(Packets), ts : Nat]

\* tsTracker: the raw time stays below the period.
TrackInv == track \in [{"video", "audio"} -> [seen : BOOLEAN, last : 0 .. TsWrap - 1, accum : Nat]]

EmittedInv == emitted \in Seq(Emission) /\ FramesAreWhole

\* What is on its way to the reader is newer than what it has, and queue's
\* packet is newer still.
QueueInv ==
  /\ output \in Seq(Nat) /\ Len(output) <= Capacity
  /\ taken \in Nat /\ taken <= Len(emitted)
  /\ worker \in {"idle", "queue", "full", "retry"}
  /\ \A i \in 1 .. Len(output) : output[i] > taken /\ output[i] <= Len(emitted)
  /\ \A i, j \in 1 .. Len(output) : j < i => output[j] < output[i]
  /\ worker # "idle" =>
       taken < Len(emitted) /\ \A i \in 1 .. Len(output) : output[i] < Len(emitted)
  /\ worker \in {"full", "retry"} => ~closed
  /\ worker = "retry" => HasRoom
  /\ worker = "idle" /\ ~closed /\ taken < Len(emitted) =>
       output # <<>> /\ output[Len(output)] = Len(emitted)

PlainInv ==
  /\ arrived \subseteq Packets
  /\ streak \in [VideoChannels -> Frames \X Nat]

FlagsInv == closed \in BOOLEAN

IInv == AsmInv /\ TrackInv /\ EmittedInv /\ QueueInv

USE TutkFramesAssumption DEF TutkFramesAssumption

LEMMA PacketsFact ==
  \A p \in Packets : p[1] \in Frames /\ p[2] \in 0 .. Size[p[1]] - 1 /\ p = <<p[1], p[2]>>
  BY DEF Packets

LEMMA BlankIsWhole == Blank \in States /\ Whole(Blank)
  BY DEF Blank, States, Whole, Frames

LEMMA InitIInv == Init => IInv
<1> SUFFICES ASSUME Init PROVE IInv
  OBVIOUS
<1>1. AsmInv
  BY BlankIsWhole DEF Init, AsmInv
<1>2. TrackInv
  BY DEF Init, TrackInv
<1>3. EmittedInv
  BY DEF Init, EmittedInv, FramesAreWhole
<1>4. QueueInv
  BY DEF Init, QueueInv
<1> QED
  BY <1>1, <1>2, <1>3, <1>4 DEF IInv

(* The state a packet meets is one of its own frame. *)
LEMMA MeetsWhole ==
  ASSUME NEW a \in States, Whole(a), NEW f \in Frames
  PROVE  Meets(a, f) \in States /\ Whole(Meets(a, f)) /\ Meets(a, f).frame = f
<1>1. CASE a.frame = f
  BY <1>1 DEF Meets
<1>2. CASE a.frame # f
  <2>1. Meets(a, f) = [frame |-> f, total |-> Size[f], data |-> <<>>, info |-> Nil]
    BY <1>2 DEF Meets, Blank
  <2> QED
    BY <2>1 DEF States, Whole
<1> QED
  BY <1>1, <1>2

(* A packet that is next in order keeps the state whole. *)
LEMMA AppendedWhole ==
  ASSUME NEW a \in States, Whole(a), NEW f \in Frames, a.frame = f,
         NEW i \in Nat, <<f, i>> \in Packets, i = Len(a.data)
  PROVE  Appended(a, f, i) \in States /\ Whole(Appended(a, f, i)) /\ Appended(a, f, i).frame = f
<1> DEFINE b == Appended(a, f, i)
<1>1. /\ b.frame = f /\ b.total = a.total
      /\ b.data = Append(a.data, <<f, i>>)
      /\ b.info = IF i = Size[f] - 1 THEN f ELSE a.info
  BY DEF Appended, States
<1>2. b \in States
  <2>1. Append(a.data, <<f, i>>) \in Seq(Packets)
    BY DEF States
  <2>2. b = [frame |-> f, total |-> a.total, data |-> Append(a.data, <<f, i>>),
             info |-> IF i = Size[f] - 1 THEN f ELSE a.info]
    BY DEF Appended
  <2>3. a.total \in Nat /\ a.info \in Frames \union {Nil}
    BY DEF States
  <2> QED
    BY <2>1, <2>2, <2>3 DEF States
<1>3. \A j \in 1 .. Len(b.data) : b.data[j] = <<f, j - 1>>
  <2>1. a.data \in Seq(Packets)
    BY DEF States
  <2>2. Len(b.data) = i + 1
    BY <1>1, <2>1
  <2>3. b.data[i + 1] = <<f, i>>
    BY <1>1, <2>1
  <2>4. \A j \in 1 .. i : b.data[j] = a.data[j]
    BY <1>1, <2>1
  <2>5. \A j \in 1 .. i : a.data[j] = <<f, j - 1>>
    BY DEF Whole
  <2> TAKE j \in 1 .. Len(b.data)
  <2>6. CASE j = i + 1
    <3>1. j - 1 = i
      BY <2>6
    <3> QED
      BY <2>3, <2>6, <3>1
  <2>7. CASE j # i + 1
    <3>1. j \in 1 .. i
      BY <2>2, <2>7
    <3> QED
      BY <2>4, <2>5, <3>1
  <2> QED
    BY <2>6, <2>7
<1>4. Whole(b)
  BY <1>1, <1>3 DEF Whole
<1> QED
  BY <1>1, <1>2, <1>4

(* Times stay in their ranges. *)
LEMMA UpdateInt ==
  ASSUME NEW t \in [seen : BOOLEAN, last : 0 .. TsWrap - 1, accum : Nat],
         NEW raw \in 0 .. TsWrap - 1
  PROVE  Update(t, raw) \in [seen : BOOLEAN, last : 0 .. TsWrap - 1, accum : Nat]
  BY DEF Update

(* A packet emitted is appended to what was emitted. *)
LEMMA EmitWhole ==
  ASSUME EmittedInv, TrackInv, NEW f \in Frames, NEW data \in Seq(Packets), Emit(f, data),
         Channel[f] \in VideoChannels =>
           Len(data) = Size[f] /\ \A i \in 1 .. Size[f] : data[i] = <<f, i - 1>>
  PROVE  TrackInv' /\ EmittedInv' /\ Len(emitted') = Len(emitted) + 1
<1> DEFINE t == Update(track[Media(Channel[f])], Time[f] % TsWrap)
<1>a. Media(Channel[f]) \in {"video", "audio"} /\ Time[f] % TsWrap \in 0 .. TsWrap - 1
  <2>1. \A n \in Nat, m \in Nat \ {0} : n % m \in 0 .. m - 1
    OBVIOUS
  <2> QED
    BY <2>1 DEF Media
<1>b. t \in [seen : BOOLEAN, last : 0 .. TsWrap - 1, accum : Nat]
  BY <1>a, UpdateInt DEF TrackInv
<1>c. track' = [track EXCEPT ![Media(Channel[f])] = t]
  BY DEF Emit
<1>d. TrackInv'
  BY <1>a, <1>b, <1>c DEF TrackInv
<1> DEFINE e == [frame |-> f, data |-> data,
                 ts |-> Update(track[Media(Channel[f])], Time[f] % TsWrap).accum]
<1>1. emitted' = Append(emitted, e) /\ e \in Emission
  BY <1>b DEF Emit, Emission
<1>2. emitted' \in Seq(Emission) /\ Len(emitted') = Len(emitted) + 1
  BY <1>1 DEF EmittedInv
<1>3. \A n \in 1 .. Len(emitted') : emitted'[n] = IF n = Len(emitted) + 1 THEN e ELSE emitted[n]
  BY <1>1 DEF EmittedInv
<1>4. FramesAreWhole'
  <2> SUFFICES ASSUME NEW n \in 1 .. Len(emitted'), Channel[emitted'[n].frame] \in VideoChannels
               PROVE  /\ Len(emitted'[n].data) = Size[emitted'[n].frame]
                      /\ \A i \in 1 .. Size[emitted'[n].frame] :
                           emitted'[n].data[i] = <<emitted'[n].frame, i - 1>>
    BY DEF FramesAreWhole
  <2>1. CASE n = Len(emitted) + 1
    <3>1. emitted'[n].frame = f /\ emitted'[n].data = data
      BY <1>3, <2>1
    <3> QED
      BY <3>1
  <2>2. CASE n # Len(emitted) + 1
    <3>1. n \in 1 .. Len(emitted) /\ emitted'[n] = emitted[n]
      BY <1>2, <1>3, <2>2 DEF EmittedInv
    <3> QED
      BY <3>1 DEF EmittedInv, FramesAreWhole
  <2> QED
    BY <2>1, <2>2
<1> QED
  BY <1>d, <1>2, <1>4 DEF EmittedInv

(* A packet given to queue is newer than everything before it. *)
LEMMA EmitQueues ==
  ASSUME QueueInv, EmittedInv, worker = "idle", worker' = "queue",
         Len(emitted') = Len(emitted) + 1, UNCHANGED <<output, closed, taken>>
  PROVE  QueueInv'
  BY DEF QueueInv, EmittedInv

LEMMA EmitNothingKeeps ==
  ASSUME TrackInv, EmittedInv, QueueInv, EmitNothing, UNCHANGED <<output, closed, taken>>
  PROVE  TrackInv' /\ EmittedInv' /\ QueueInv'
  BY DEF EmitNothing, TrackInv, EmittedInv, QueueInv, FramesAreWhole, HasRoom

LEMMA VideoStep ==
  ASSUME IInv, NEW f \in Frames, NEW i \in 0 .. Size[f] - 1, worker = "idle",
         HandleVideo(f, i), UNCHANGED <<output, closed, taken>>
  PROVE  IInv'
<1> DEFINE c == Channel[f]
           a == Meets(asm[c], f)
           b == Appended(a, f, i)
<1> USE DEF IInv
<1>1. c \in VideoChannels /\ asm[c] \in States /\ Whole(asm[c])
  BY DEF HandleVideo, AsmInv
<1>2. a \in States /\ Whole(a) /\ a.frame = f
  BY <1>1, MeetsWhole
<1>3. ASSUME NEW d \in States, Whole(d), asm' = [asm EXCEPT ![c] = d]
      PROVE  AsmInv'
  BY <1>1, <1>3 DEF AsmInv
<1> HIDE DEF a, b
<1>4. CASE i # Len(a.data)
  <2>1. asm' = [asm EXCEPT ![c] = Blank] /\ EmitNothing
    BY <1>4 DEF HandleVideo, a
  <2> QED
    BY <2>1, <1>3, BlankIsWhole, EmitNothingKeeps
<1>5. CASE i = Len(a.data)
  <2>1. i \in Nat /\ <<f, i>> \in Packets
    BY DEF Packets, Frames
  <2>2. b \in States /\ Whole(b) /\ b.frame = f
    BY <1>2, <1>5, <2>1, AppendedWhole DEF b
  <2>3. CASE ~(Len(b.data) = b.total /\ b.info # Nil)
    <3>1. asm' = [asm EXCEPT ![c] = b] /\ EmitNothing
      BY <1>5, <2>3 DEF HandleVideo, a, b
    <3> QED
      BY <3>1, <1>3, <2>2, EmitNothingKeeps
  <2>4. CASE Len(b.data) = b.total /\ b.info # Nil
    <3>1. /\ asm' = [asm EXCEPT ![c] = Blank]
          /\ Emit(b.info, b.data) \/ EmitNothing
      BY <1>5, <2>4 DEF HandleVideo, a, b
    <3>2. AsmInv'
      BY <3>1, <1>3, BlankIsWhole
    <3>3. CASE EmitNothing
      BY <3>2, <3>3, EmitNothingKeeps
    <3>4. CASE Emit(b.info, b.data)
      <4>1. b.info = f /\ b.data \in Seq(Packets)
        BY <2>2, <2>4 DEF Whole, States
      <4>2. Len(b.data) = i + 1
        BY <1>2, <1>5, <2>1 DEF b, Appended, States
      <4>3. Len(b.data) = Size[f]
        BY <2>1, <2>2, <2>4, <4>2 DEF Whole
      <4>4. \A j \in 1 .. Size[f] : b.data[j] = <<f, j - 1>>
        BY <2>2, <4>3 DEF Whole
      <4>5. TrackInv' /\ EmittedInv' /\ Len(emitted') = Len(emitted) + 1
        BY <3>4, <4>1, <4>3, <4>4, EmitWhole
      <4>6. QueueInv'
        BY <3>4, <4>5, EmitQueues DEF Emit
      <4> QED
        BY <3>2, <4>5, <4>6
    <3> QED
      BY <3>1, <3>3, <3>4
  <2> QED
    BY <2>3, <2>4
<1> QED
  BY <1>4, <1>5

LEMMA AudioStep ==
  ASSUME IInv, NEW f \in Frames, NEW i \in 0 .. Size[f] - 1, worker = "idle",
         HandleAudio(f, i), UNCHANGED <<output, closed, taken>>
  PROVE  IInv'
<1> USE DEF IInv
<1>1. AsmInv'
  BY DEF HandleAudio, AsmInv
<1>2. CASE EmitNothing
  BY <1>1, <1>2, EmitNothingKeeps
<1>3. CASE Emit(f, <<<<f, i>>>>)
  <2>1. <<f, i>> \in Packets
    BY DEF Packets, Frames
  <2>2. <<<<f, i>>>> \in Seq(Packets)
    BY <2>1
  <2>3. Channel[f] \notin VideoChannels
    BY DEF HandleAudio, VideoChannels
  <2>4. TrackInv' /\ EmittedInv' /\ Len(emitted') = Len(emitted) + 1
    BY <1>3, <2>2, <2>3, EmitWhole
  <2> QED
    BY <1>1, <1>3, <2>4, EmitQueues DEF Emit
<1> QED
  BY <1>2, <1>3 DEF HandleAudio

LEMMA TailFact ==
  ASSUME NEW s \in Seq(Nat), s # <<>>
  PROVE  /\ Tail(s) \in Seq(Nat) /\ Len(Tail(s)) = Len(s) - 1
         /\ \A i \in 1 .. Len(s) - 1 : Tail(s)[i] = s[i + 1]
         /\ Len(s) \in Nat \ {0} /\ Head(s) = s[1]
  OBVIOUS

(* The reader takes the first of what it has been given. *)
LEMMA TailIsNewer ==
  ASSUME NEW s \in Seq(Nat), s # <<>>, NEW n \in Nat,
         \A i \in 1 .. Len(s) : s[i] <= n,
         \A i, j \in 1 .. Len(s) : j < i => s[j] < s[i]
  PROVE  /\ \A i, j \in 1 .. Len(Tail(s)) : j < i => Tail(s)[j] < Tail(s)[i]
         /\ \A i \in 1 .. Len(Tail(s)) : Tail(s)[i] > s[1] /\ Tail(s)[i] <= n
         /\ s[1] \in Nat /\ s[1] <= n
         /\ Tail(s) # <<>> => Tail(s)[Len(Tail(s))] = s[Len(s)]
         /\ Tail(s) = <<>> => s[1] = s[Len(s)]
<1>1. \A i \in 1 .. Len(Tail(s)) : Tail(s)[i] = s[i + 1] /\ i + 1 \in 1 .. Len(s)
  BY TailFact
<1>2. Len(s) \in Nat \ {0} /\ Len(Tail(s)) = Len(s) - 1 /\ Tail(s) \in Seq(Nat)
  BY TailFact
<1>3. \A i \in 1 .. Len(s) : s[i] \in Nat
  OBVIOUS
<1>4. \A i, j \in 1 .. Len(Tail(s)) : j < i => Tail(s)[j] < Tail(s)[i]
  BY <1>1, <1>2
<1>5. \A i \in 1 .. Len(Tail(s)) : Tail(s)[i] > s[1] /\ Tail(s)[i] <= n
  BY <1>1, <1>2, <1>3
<1>6. Tail(s) # <<>> => Tail(s)[Len(Tail(s))] = s[Len(s)]
  BY <1>1, <1>2
<1>7. Tail(s) = <<>> => s[1] = s[Len(s)]
  <2>1. ASSUME Tail(s) = <<>> PROVE Len(s) = 1
    <3>1. \A t \in Seq(Nat) : t = <<>> => Len(t) = 0
      OBVIOUS
    <3>2. Len(Tail(s)) = 0
      BY <1>2, <2>1, <3>1
    <3> QED
      BY <3>2, <1>2
  <2> QED
    BY <2>1
<1> QED
  BY <1>2, <1>3, <1>4, <1>5, <1>6, <1>7

LEMMA AppendsNewer ==
  ASSUME NEW s \in Seq(Nat), NEW n \in Nat,
         \A i \in 1 .. Len(s) : s[i] < n,
         \A i, j \in 1 .. Len(s) : j < i => s[j] < s[i]
  PROVE  /\ Append(s, n) \in Seq(Nat) /\ Len(Append(s, n)) = Len(s) + 1
         /\ \A i, j \in 1 .. Len(Append(s, n)) : j < i => Append(s, n)[j] < Append(s, n)[i]
         /\ \A i \in 1 .. Len(s) : Append(s, n)[i] = s[i]
         /\ Append(s, n)[Len(s) + 1] = n
  OBVIOUS

(* The steps of queue and of the reader, in any order. *)
LEMMA NextQueue ==
  ASSUME IInv, Queue \/ DropOldest \/ Retry \/ Recv \/ Close
  PROVE  QueueInv'
<1> USE DEF IInv, QueueInv, HasRoom
<1>1. Len(emitted) \in Nat
  BY DEF EmittedInv
<1>a. ASSUME output # <<>>
      PROVE  /\ Tail(output) \in Seq(Nat) /\ Len(Tail(output)) = Len(output) - 1
             /\ \A i \in 1 .. Len(output) - 1 : Tail(output)[i] = output[i + 1]
             /\ Len(output) \in Nat \ {0} /\ Head(output) = output[1]
  BY <1>a, TailFact
<1>2. CASE Queue
  <2>1. CASE UNCHANGED output
    BY <1>1, <1>2, <2>1 DEF Queue
  <2>2. CASE HasRoom /\ output' = Append(output, Len(emitted)) /\ worker' = "idle"
    BY <1>1, <1>2, <2>2, AppendsNewer DEF Queue
  <2> QED
    BY <1>2, <2>1, <2>2 DEF Queue
<1>3. CASE DropOldest
  <2>1. CASE output = <<>>
    BY <1>1, <1>3, <2>1 DEF DropOldest
  <2>2. CASE output # <<>>
    <3>1. output' = Tail(output) /\ worker = "full" /\ worker' = "retry"
          /\ UNCHANGED <<closed, emitted, taken>>
      BY <1>3, <2>2 DEF DropOldest
    <3>2. /\ output' \in Seq(Nat) /\ Len(output') = Len(output) - 1
          /\ \A i \in 1 .. Len(output') : output'[i] = output[i + 1] /\ i + 1 \in 1 .. Len(output)
      BY <1>a, <2>2, <3>1
    <3> HIDE DEF HasRoom
    <3>3. \A i, j \in 1 .. Len(output') : j < i => output'[j] < output'[i]
      BY <1>1, <2>2, <3>1, TailIsNewer
    <3>4. HasRoom'
      BY <3>2 DEF HasRoom
    <3> QED
      BY <1>1, <3>1, <3>2, <3>3, <3>4
  <2> QED
    BY <2>1, <2>2
<1>4. CASE Retry
  <2>1. /\ HasRoom /\ ~closed /\ output' = Append(output, Len(emitted)) /\ worker' = "idle"
        /\ UNCHANGED <<closed, emitted, taken>>
    BY <1>4 DEF Retry
  <2>2. /\ output' \in Seq(Nat) /\ Len(output') = Len(output) + 1
        /\ \A i, j \in 1 .. Len(output') : j < i => output'[j] < output'[i]
        /\ \A i \in 1 .. Len(output) : output'[i] = output[i]
        /\ output'[Len(output) + 1] = Len(emitted)
    <3>1. \A i \in 1 .. Len(output) : output[i] < Len(emitted)
      BY <1>4 DEF Retry
    <3> QED
      BY <1>1, <2>1, <3>1, AppendsNewer
  <2>3. \A i \in 1 .. Len(output') : output'[i] > taken' /\ output'[i] <= Len(emitted')
    BY <1>1, <1>4, <2>1, <2>2 DEF Retry
  <2> QED
    BY <1>1, <1>4, <2>1, <2>2, <2>3 DEF Retry
<1>5. CASE Recv
  <2>1. /\ output # <<>> /\ output' = Tail(output) /\ taken' = output[1]
        /\ UNCHANGED <<worker, closed, emitted>>
    BY <1>5, <1>a DEF Recv
  <2>2. /\ output' \in Seq(Nat) /\ Len(output') = Len(output) - 1 /\ Len(output) \in Nat \ {0}
        /\ \A i \in 1 .. Len(output') : output'[i] = output[i + 1] /\ i + 1 \in 1 .. Len(output)
    BY <1>a, <2>1
  <2>3. \A i, j \in 1 .. Len(output') : j < i => output'[j] < output'[i]
    BY <1>1, <2>1, TailIsNewer
  <2>4. \A i \in 1 .. Len(output') : output'[i] > taken' /\ output'[i] <= Len(emitted)
    BY <1>1, <2>1, TailIsNewer
  <2>5. taken' \in Nat /\ taken' <= Len(emitted)
    BY <2>1, <2>2
  <2>6. worker # "idle" =>
          taken' < Len(emitted) /\ \A i \in 1 .. Len(output') : output'[i] < Len(emitted)
    BY <2>1, <2>2
  <2>7. worker = "idle" /\ ~closed /\ taken' < Len(emitted) =>
          output' # <<>> /\ output'[Len(output')] = Len(emitted)
    <3> SUFFICES ASSUME worker = "idle", ~closed, taken' < Len(emitted)
                 PROVE  output' # <<>> /\ output'[Len(output')] = Len(emitted)
      OBVIOUS
    <3>1. output[Len(output)] = Len(emitted)
      BY <1>1, <2>1, <2>2
    <3>2. Tail(output) # <<>>
      <4>1. Tail(output) = <<>> => output[1] = output[Len(output)]
        BY <1>1, <2>1, TailIsNewer
      <4> QED
        BY <1>1, <2>1, <3>1, <4>1
    <3> QED
      BY <1>1, <2>1, <3>1, <3>2, TailIsNewer
  <2> QED
    BY <1>1, <2>1, <2>2, <2>3, <2>4, <2>5, <2>6, <2>7
<1>6. CASE Close
  BY <1>1, <1>6 DEF Close
<1> QED
  BY <1>2, <1>3, <1>4, <1>5, <1>6

LEMMA NextIInv == IInv /\ [Next]_vars => IInv'
<1> SUFFICES ASSUME IInv, [Next]_vars PROVE IInv'
  OBVIOUS
<1>1. CASE UNCHANGED vars
  BY <1>1 DEF vars, IInv, AsmInv, TrackInv, EmittedInv, QueueInv, FramesAreWhole, HasRoom
<1>2. ASSUME NEW q \in Packets, Handle(q[1], q[2])
      PROVE  IInv'
  <2>1. q[1] \in Frames /\ q[2] \in 0 .. Size[q[1]] - 1
    BY PacketsFact
  <2> QED
    BY <1>2, <2>1, VideoStep, AudioStep DEF Handle
<1>3. CASE Queue \/ DropOldest \/ Retry \/ Recv \/ Close
  <2>1. UNCHANGED <<asm, track, emitted>>
    BY <1>3 DEF Queue, DropOldest, Retry, Recv, Close
  <2> QED
    BY <1>3, <2>1, NextQueue DEF IInv, AsmInv, TrackInv, EmittedInv, FramesAreWhole
<1> QED
  BY <1>1, <1>2, <1>3 DEF Next

(* Of the packets that came, and of how many came in one piece. *)
LEMMA NextPlain == PlainInv /\ [Next]_vars => PlainInv'
<1> SUFFICES ASSUME PlainInv, [Next]_vars PROVE PlainInv'
  OBVIOUS
<1> USE DEF PlainInv
<1>1. CASE UNCHANGED vars
  BY <1>1 DEF vars
<1>2. ASSUME NEW q \in Packets, Handle(q[1], q[2])
      PROVE  PlainInv'
  <2>1. /\ q[1] \in Frames /\ q[2] \in 0 .. Size[q[1]] - 1
        /\ <<q[1], q[2]>> \in Packets
    BY PacketsFact
  <2>2. arrived' \subseteq Packets
    BY <1>2, <2>1 DEF Handle
  <2>3. CASE HandleVideo(q[1], q[2])
    <3>1. Channel[q[1]] \in VideoChannels
      BY <2>3 DEF HandleVideo
    <3>2. <<q[1], q[2] + 1>> \in Frames \X Nat /\ <<0, 0>> \in Frames \X Nat
      BY <2>1 DEF Frames
    <3>3. streak' = [streak EXCEPT ![Channel[q[1]]] = IF q[2] = 0 \/ @ = <<q[1], q[2]>>
                                                      THEN <<q[1], q[2] + 1>> ELSE <<0, 0>>]
      BY <2>3 DEF HandleVideo
    <3>4. streak' \in [VideoChannels -> Frames \X Nat]
      BY <3>1, <3>2, <3>3
    <3> QED
      BY <2>2, <3>4
  <2>4. CASE HandleAudio(q[1], q[2])
    BY <2>2, <2>4 DEF HandleAudio
  <2> QED
    BY <1>2, <2>3, <2>4 DEF Handle
<1>3. CASE Queue \/ DropOldest \/ Retry \/ Recv \/ Close
  BY <1>3 DEF Queue, DropOldest, Retry, Recv, Close
<1> QED
  BY <1>1, <1>2, <1>3 DEF Next

LEMMA NextFlags == FlagsInv /\ [Next]_vars => FlagsInv'
<1> SUFFICES ASSUME FlagsInv, [Next]_vars PROVE FlagsInv'
  OBVIOUS
<1>1. UNCHANGED closed \/ closed' = TRUE
  BY DEF vars, Next, Handle, Queue, DropOldest, Retry, Recv, Close
<1> QED
  BY <1>1, Zenon DEF FlagsInv

THEOREM Inductive == Spec => []IInv
  BY InitIInv, NextIInv, PTL DEF Spec

HandedOn(f) == \E n \in 1 .. Len(emitted) : emitted[n].frame = f

\* What came in one piece is in the channel's state, or has been handed on.
Got(c) ==
  LET f == streak[c][1]
      k == streak[c][2]
  IN  f # 0 /\ k > 0 =>
        \/ k < Size[f] /\ asm[c].frame = f /\ Len(asm[c].data) = k
        \/ k = Size[f] /\ HandedOn(f)

StreakInv ==
  \A c \in VideoChannels :
    /\ Len(asm[c].data) > 0 => <<asm[c].frame, 0>> \in arrived
    /\ asm[c].frame # 0 => asm[c].total = Size[asm[c].frame]
    /\ Got(c)

LEMMA HandedOnStays ==
  ASSUME EmittedInv, EmitNothing \/ \E f, data : Emit(f, data), NEW g, HandedOn(g)
  PROVE  HandedOn(g)'
<1>1. CASE EmitNothing
  BY <1>1 DEF EmitNothing, HandedOn
<1>2. ASSUME NEW f, NEW data, Emit(f, data) PROVE HandedOn(g)'
  <2> PICK e : emitted' = Append(emitted, e)
    BY <1>2 DEF Emit
  <2> PICK n \in 1 .. Len(emitted) : emitted[n].frame = g
    BY DEF HandedOn
  <2>1. n \in 1 .. Len(emitted') /\ emitted'[n] = emitted[n]
    BY DEF EmittedInv
  <2> QED
    BY <2>1 DEF HandedOn
<1> QED
  BY <1>1, <1>2

(* A video packet: in one piece with those before it, it meets them. *)
LEMMA StreakVideo ==
  ASSUME IInv, PlainInv, StreakInv, EmittedInv', AsmInv',
         NEW f \in Frames, NEW i \in 0 .. Size[f] - 1, <<f, i>> \notin arrived,
         arrived' = arrived \union {<<f, i>>}, HandleVideo(f, i)
  PROVE  StreakInv'
<1> DEFINE c == Channel[f]
           a == Meets(asm[c], f)
           b == Appended(a, f, i)
           onePiece == i = 0 \/ streak[c] = <<f, i>>
<1> USE DEF IInv
<1>1. c \in VideoChannels /\ asm[c] \in States /\ Whole(asm[c])
  BY DEF HandleVideo, AsmInv
<1>2. a \in States /\ Whole(a) /\ a.frame = f
  BY <1>1, MeetsWhole
<1>3. f # 0 => a.total = Size[f]
  <2>1. CASE asm[c].frame = f
    BY <1>1, <2>1 DEF Meets, StreakInv
  <2>2. CASE asm[c].frame # f
    <3>1. a = [frame |-> f, total |-> Size[f], data |-> <<>>, info |-> Nil]
      BY <2>2 DEF Meets, Blank
    <3> QED
      BY <3>1
  <2> QED
    BY <2>1, <2>2
<1>4. Len(a.data) > 0 => <<f, 0>> \in arrived /\ a = asm[c]
  <2>1. CASE asm[c].frame = f
    BY <1>1, <2>1 DEF Meets, StreakInv
  <2>2. CASE asm[c].frame # f
    <3>1. a.data = <<>>
      BY <2>2 DEF Meets, Blank
    <3>2. Len(<<>>) = 0
      OBVIOUS
    <3> HIDE DEF a
    <3> QED
      BY <3>1, <3>2
  <2> QED
    BY <2>1, <2>2
<1>5. i \in Nat /\ <<f, i>> \in Packets
  BY SMTT(40) DEF Packets, Frames
<1>6. f # 0 /\ onePiece => i = Len(a.data)
  <2>1. CASE i = 0
    <3>1. Len(a.data) \in Nat
      BY <1>2 DEF States
    <3> HIDE DEF a
    <3> QED
      BY <1>4, <2>1, <3>1
  <2>2. CASE f # 0 /\ i # 0 /\ streak[c] = <<f, i>>
    <3>1. Got(c)
      BY <1>1 DEF StreakInv
    <3>2. streak[c][1] = f /\ streak[c][2] = i
      BY <2>2
    <3>3. i > 0 /\ i < Size[f]
      BY <2>2
    <3>4. asm[c].frame = f /\ Len(asm[c].data) = i
      BY ONLY <2>2, <3>1, <3>2, <3>3, TutkFramesAssumption DEF Got, TutkFramesAssumption
    <3> QED
      BY <3>4 DEF Meets
  <2> QED
    BY <2>1, <2>2
<1>7. i = Len(a.data) => /\ b \in States /\ b.frame = f /\ b.total = a.total
                         /\ Len(b.data) = i + 1
                         /\ b.info = IF i = Size[f] - 1 THEN f ELSE a.info
                         /\ Whole(b)
  <2> SUFFICES ASSUME i = Len(a.data)
               PROVE  /\ b \in States /\ b.frame = f /\ b.total = a.total
                      /\ Len(b.data) = i + 1
                      /\ b.info = IF i = Size[f] - 1 THEN f ELSE a.info
                      /\ Whole(b)
    OBVIOUS
  <2> HIDE DEF a
  <2>1. b \in States /\ Whole(b) /\ b.frame = f
    BY <1>2, <1>5, AppendedWhole
  <2>2. /\ b.total = a.total /\ b.data = Append(a.data, <<f, i>>)
        /\ b.info = IF i = Size[f] - 1 THEN f ELSE a.info
    BY DEF Appended
  <2>3. a.data \in Seq(Packets)
    BY <1>2 DEF States
  <2>4. Len(b.data) = i + 1
    BY <2>2, <2>3
  <2> QED
    BY <2>1, <2>2, <2>4
<1>8. streak' = [streak EXCEPT ![c] = IF onePiece THEN <<f, i + 1>> ELSE <<0, 0>>]
  BY DEF HandleVideo
<1>9. \A g : HandedOn(g) => HandedOn(g)'
  <2>1. EmitNothing \/ \E g, data : Emit(g, data)
    BY DEF HandleVideo
  <2> QED
    BY <2>1, HandedOnStays
<1>10. \A d \in VideoChannels : d # c => streak'[d] = streak[d] /\ asm'[d] = asm[d]
  BY <1>8 DEF HandleVideo, PlainInv, AsmInv
<1>11. ASSUME NEW d \in VideoChannels, d # c
       PROVE  /\ Len(asm'[d].data) > 0 => <<asm'[d].frame, 0>> \in arrived'
              /\ asm'[d].frame # 0 => asm'[d].total = Size[asm'[d].frame]
              /\ Got(d)'
  <2>1. streak'[d] = streak[d] /\ asm'[d] = asm[d] /\ arrived \subseteq arrived'
    BY <1>10, <1>11
  <2>2. Got(d)
    BY <1>11 DEF StreakInv
  <2>3. Got(d)'
    BY <1>9, <2>1, <2>2 DEF Got
  <2> QED
    BY <1>11, <2>1, <2>3 DEF StreakInv
<1> HIDE DEF a, b
<1>12. /\ Len(asm'[c].data) > 0 => <<asm'[c].frame, 0>> \in arrived'
       /\ asm'[c].frame # 0 => asm'[c].total = Size[asm'[c].frame]
  <2>1. CASE asm'[c] = Blank
    BY <2>1 DEF Blank
  <2>2. CASE asm'[c] = b /\ i = Len(a.data)
    <3>1. <<f, 0>> \in arrived'
      BY <1>4, <1>5, <2>2
    <3> QED
      BY <1>3, <1>7, <2>2, <3>1
  <2> QED
    BY <1>1, <2>1, <2>2 DEF HandleVideo, a, b, AsmInv
<1>13. Got(c)'
  <2>1. CASE f = 0 \/ ~onePiece
    BY <1>1, <1>8, <2>1 DEF Got, PlainInv
  <2>2. CASE f # 0 /\ onePiece
    <3>1. i = Len(a.data) /\ a.total = Size[f]
      BY <1>3, <1>6, <2>2
    <3>2. streak'[c] = <<f, i + 1>>
      BY <1>1, <1>8, <2>2 DEF PlainInv
    <3>3. CASE i + 1 < Size[f]
      <4>1. Len(b.data) # b.total
        BY <1>7, <3>1, <3>3
      <4>2. asm'[c] = b
        BY <1>1, <3>1, <4>1 DEF HandleVideo, a, b, AsmInv
      <4> QED
        BY <1>7, <3>1, <3>2, <3>3, <4>2 DEF Got
    <3>4. CASE i + 1 = Size[f]
      <4>1. Len(b.data) = b.total /\ b.info = f /\ b.info # Nil
        BY <1>7, <3>1, <3>4
      <4>2. Len(b.data) = Size[b.info]
        BY <1>7, <3>1, <3>4, <4>1
      <4>3. Emit(f, b.data)
        BY <3>1, <4>1, <4>2 DEF HandleVideo, a, b
      <4>4. /\ Len(emitted) + 1 \in 1 .. Len(emitted')
            /\ emitted'[Len(emitted) + 1].frame = f
        BY <4>3 DEF Emit, EmittedInv
      <4>5. HandedOn(f)'
        BY <4>4 DEF HandedOn
      <4> QED
        BY <3>2, <3>4, <4>5 DEF Got
    <3> QED
      BY <3>3, <3>4
  <2> QED
    BY <2>1, <2>2
<1> QED
  BY <1>11, <1>12, <1>13 DEF StreakInv

LEMMA NextStreak ==
  IInv /\ PlainInv /\ StreakInv /\ [Next]_vars /\ IInv' => StreakInv'
<1> SUFFICES ASSUME IInv, PlainInv, StreakInv, [Next]_vars, IInv' PROVE StreakInv'
  OBVIOUS
<1>1. CASE UNCHANGED vars
  BY <1>1 DEF vars, StreakInv, Got, HandedOn
<1>2. ASSUME NEW q \in Packets, Handle(q[1], q[2])
      PROVE  StreakInv'
  <2>1. q[1] \in Frames /\ q[2] \in 0 .. Size[q[1]] - 1
    BY PacketsFact
  <2>2. CASE HandleVideo(q[1], q[2])
    BY <1>2, <2>1, <2>2, StreakVideo DEF Handle, IInv
  <2>3. CASE HandleAudio(q[1], q[2])
    <3>1. UNCHANGED <<asm, streak>> /\ arrived \subseteq arrived'
      BY <1>2, <2>3 DEF HandleAudio, Handle
    <3>2. \A g : HandedOn(g) => HandedOn(g)'
      <4>1. EmitNothing \/ \E g, data : Emit(g, data)
        BY <2>3 DEF HandleAudio
      <4> QED
        BY <4>1, HandedOnStays DEF IInv
    <3> QED
      BY <3>1, <3>2 DEF StreakInv, Got
  <2> QED
    BY <1>2, <2>2, <2>3 DEF Handle
<1>3. CASE Queue \/ DropOldest \/ Retry \/ Recv \/ Close
  BY <1>3 DEF Queue, DropOldest, Retry, Recv, Close, StreakInv, Got, HandedOn
<1> QED
  BY <1>1, <1>2, <1>3 DEF Next

(* A loss costs no frame that lost nothing, but for the one numbered 0
   (frame.go:194-212, 375-407).                                            *)
THEOREM NothingElseIsLost == Spec => []WholeFramesGetThrough
<1>1. Init => PlainInv /\ StreakInv
  <2>1. Init => PlainInv
    BY DEF Init, PlainInv, Frames
  <2>2. Init => StreakInv
    BY DEF Init, StreakInv, Got, Blank
  <2> QED
    BY <2>1, <2>2
<1>2. PlainInv /\ StreakInv => WholeFramesGetThrough
  <2> SUFFICES ASSUME PlainInv, StreakInv, NEW c \in VideoChannels,
                      streak[c][2] = Size[streak[c][1]], streak[c][1] # 0
               PROVE  HandedOn(streak[c][1])
    BY DEF WholeFramesGetThrough, HandedOn
  <2>1. Size[streak[c][1]] \in Nat \ {0}
    BY DEF PlainInv
  <2>2. Got(c)
    BY DEF StreakInv
  <2> QED
    BY <2>1, <2>2 DEF Got
<1> QED
  BY <1>1, <1>2, Inductive, NextPlain, NextStreak, PTL DEF Spec

\* The tracker stands at the last frame of its track.
ClockInv ==
  \A n \in 1 .. Len(emitted) :
    (\A k \in n + 1 .. Len(emitted) : Track(k) # Track(n)) =>
      /\ track[Track(n)].seen
      /\ track[Track(n)].last = Time[emitted[n].frame] % TsWrap
      /\ track[Track(n)].accum = emitted[n].ts

(* What update adds is the time that has passed, if that is less than a period. *)
LEMMA Elapsed ==
  ASSUME NEW w \in Nat \ {0}, NEW f \in Nat, NEW g \in Nat, f <= g, g < f + w
  PROVE  (IF (g % w) >= (f % w) THEN (g % w) - (f % w) ELSE (w - (f % w)) + (g % w)) = g - f
<1> DEFINE q == (g \div w) - (f \div w)
<1>1. f = w * (f \div w) + (f % w) /\ g = w * (g \div w) + (g % w)
  OBVIOUS
<1>2. /\ f % w \in 0 .. w - 1 /\ g % w \in 0 .. w - 1
      /\ f \div w \in Int /\ g \div w \in Int
  OBVIOUS
<1>3. q \in Int /\ w * q = (g - f) - ((g % w) - (f % w))
  BY <1>1, <1>2
<1> HIDE DEF q
<1>4. w * q < 2 * w /\ w * q > -w
  BY <1>2, <1>3
<1>5. q < 2
  BY <1>3, <1>4
<1>6. q > -1
  BY <1>3, <1>4
<1>7. CASE q = 0
  BY <1>2, <1>3, <1>7
<1>8. CASE q = 1
  BY <1>2, <1>3, <1>8
<1> QED
  BY <1>3, <1>5, <1>6, <1>7, <1>8

LEMMA EmitClock ==
  ASSUME EmittedInv, EmittedInv', TrackInv, ClockInv, TimeIsKept, NEW f, NEW data, Emit(f, data)
  PROVE  ClockInv' /\ TimeIsKept'
<1> PICK N \in Nat : N = Len(emitted)
  BY DEF EmittedInv
<1> DEFINE m == Media(Channel[f])
           t == track[m]
           raw == Time[f] % TsWrap
           u == Update(t, raw)
<1>1. Len(emitted') = N + 1
  BY DEF EmittedInv, Emit
<1>2. /\ emitted'[N + 1].frame = f /\ emitted'[N + 1].ts = u.accum
      /\ \A n \in 1 .. N : emitted'[n] = emitted[n]
  BY DEF EmittedInv, Emit
<1>3. f \in Frames
  <2>1. emitted'[N + 1] \in Emission
    BY <1>1 DEF EmittedInv
  <2> QED
    BY <1>2, <2>1 DEF Emission
<1>4. m \in {"video", "audio"} /\ t \in [seen : BOOLEAN, last : 0 .. TsWrap - 1, accum : Nat]
  BY <1>3 DEF Media, TrackInv
<1>5. track'[m] = u /\ \A x \in {"video", "audio"} : x # m => track'[x] = track[x]
  BY <1>4 DEF Emit, TrackInv
<1>6. /\ Track(N + 1)' = m
      /\ \A n \in 1 .. N : Track(n)' = Track(n) /\ Track(n) \in {"video", "audio"}
  BY <1>2 DEF Track, Media
<1>7. u.seen /\ u.last = raw
  BY DEF Update
<1> HIDE DEF u
<1>8. ClockInv'
  <2> SUFFICES ASSUME NEW n \in 1 .. N + 1,
                      \A k \in n + 1 .. N + 1 : Track(k)' # Track(n)'
               PROVE  /\ track'[Track(n)'].seen
                      /\ track'[Track(n)'].last = Time[emitted'[n].frame] % TsWrap
                      /\ track'[Track(n)'].accum = emitted'[n].ts
    BY <1>1 DEF ClockInv
  <2>1. CASE n = N + 1
    BY <1>2, <1>5, <1>6, <1>7, <2>1
  <2>2. CASE n # N + 1
    <3>1. n \in 1 .. N /\ emitted'[n] = emitted[n] /\ Track(n)' = Track(n)
      BY <1>1, <1>2, <1>6, <2>2
    <3>2. Track(n) # m
      BY <1>1, <1>6, <3>1
    <3>3. \A k \in n + 1 .. N : Track(k) # Track(n)
      BY <1>1, <1>6, <3>1
    <3>4. track'[Track(n)] = track[Track(n)]
      BY <1>5, <1>6, <3>1, <3>2
    <3> QED
      BY <3>1, <3>3, <3>4 DEF ClockInv
  <2> QED
    BY <2>1, <2>2
<1>9. TimeIsKept'
  <2> SUFFICES ASSUME NEW n \in 1 .. N + 1, NEW l \in 1 .. N + 1, Successive(n, l)',
                      Time[emitted'[n].frame] <= Time[emitted'[l].frame],
                      Time[emitted'[l].frame] < Time[emitted'[n].frame] + TsWrap
               PROVE  emitted'[l].ts - emitted'[n].ts
                        = Time[emitted'[l].frame] - Time[emitted'[n].frame]
    BY <1>1 DEF TimeIsKept
  <2>1. n \in 1 .. N /\ emitted'[n] = emitted[n] /\ n < l
    BY <1>1, <1>2 DEF Successive
  <2>2. CASE l # N + 1
    <3>1. l \in 1 .. N /\ emitted'[l] = emitted[l]
      BY <1>1, <1>2, <2>2
    <3>2. Successive(n, l)
      BY <1>1, <1>6, <2>1, <3>1 DEF Successive
    <3> QED
      BY <2>1, <3>1, <3>2 DEF TimeIsKept
  <2>3. CASE l = N + 1
    <3>1. Track(n) = m /\ \A k \in n + 1 .. N : Track(k) # Track(n)
      BY <1>1, <1>6, <2>1, <2>3 DEF Successive
    <3>2. t.seen /\ t.last = Time[emitted[n].frame] % TsWrap /\ t.accum = emitted[n].ts
      BY <2>1, <3>1 DEF ClockInv
    <3>3. emitted[n] \in Emission
      BY <2>1 DEF EmittedInv
    <3> DEFINE then == Time[emitted[n].frame]
               now == Time[f]
    <3>4. then \in Nat /\ now \in Nat /\ emitted[n].ts \in Nat
      BY <1>3, <3>3 DEF Emission
    <3>5. then <= now /\ now < then + TsWrap
      BY <1>2, <2>1, <2>3
    <3>6. t.last = then % TsWrap /\ raw = now % TsWrap
      BY <3>2
    <3>7. u.accum = t.accum + (IF raw >= t.last THEN raw - t.last ELSE (TsWrap - t.last) + raw)
      BY <3>2 DEF u, Update
    <3> HIDE DEF then, now
    <3>8. (IF raw >= t.last THEN raw - t.last ELSE (TsWrap - t.last) + raw) = now - then
      <4>1. (IF (now % TsWrap) >= (then % TsWrap) THEN (now % TsWrap) - (then % TsWrap)
             ELSE (TsWrap - (then % TsWrap)) + (now % TsWrap)) = now - then
        BY <3>4, <3>5, Elapsed
      <4> HIDE DEF t, raw
      <4> QED
        BY <3>6, <4>1
    <3>9. u.accum - emitted[n].ts = now - then
      <4>1. t.accum = emitted[n].ts
        BY <3>2
      <4>2. u.accum = t.accum + (now - then)
        BY <3>7, <3>8
      <4> HIDE DEF t, raw
      <4> QED
        BY <3>4, <4>1, <4>2
    <3> QED
      BY <1>2, <2>1, <2>3, <3>9 DEF then, now
  <2> QED
    BY <2>2, <2>3
<1> QED
  BY <1>8, <1>9

LEMMA NextClock ==
  IInv /\ ClockInv /\ TimeIsKept /\ [Next]_vars /\ IInv' => ClockInv' /\ TimeIsKept'
<1> SUFFICES ASSUME IInv, ClockInv, TimeIsKept, [Next]_vars, IInv' PROVE ClockInv' /\ TimeIsKept'
  OBVIOUS
<1>1. CASE UNCHANGED <<emitted, track>>
  BY <1>1 DEF ClockInv, TimeIsKept, Successive, Track
<1>2. ASSUME NEW f, NEW data, Emit(f, data) PROVE ClockInv' /\ TimeIsKept'
  BY <1>2, EmitClock DEF IInv
<1>3. UNCHANGED <<emitted, track>> \/ \E f, data : Emit(f, data)
  BY DEF Next, vars, Handle, HandleVideo, HandleAudio, EmitNothing,
         Queue, DropOldest, Retry, Recv, Close
<1> QED
  BY <1>1, <1>2, <1>3

(* The times of a track are the camera's, however often its clock wraps
   (frame.go:214-241).                                                     *)
THEOREM ClockIsFollowed == Spec => []TimeIsKept
<1>1. Init => ClockInv /\ TimeIsKept
  BY DEF Init, ClockInv, TimeIsKept
<1> QED
  BY <1>1, Inductive, NextClock, PTL DEF Spec

(* Type correctness. *)
THEOREM TypeCorrect == Spec => []TypeOK
<1>1. Init => PlainInv /\ FlagsInv
  <2>1. Init => PlainInv
    BY DEF Init, PlainInv, Frames
  <2>2. Init => FlagsInv
    BY Zenon DEF Init, FlagsInv
  <2> QED
    BY <2>1, <2>2
<1>2. Spec => [](PlainInv /\ FlagsInv)
  BY <1>1, NextPlain, NextFlags, PTL DEF Spec
<1>3. IInv /\ PlainInv /\ FlagsInv => TypeOK
  <2> SUFFICES ASSUME IInv, PlainInv, FlagsInv PROVE TypeOK
    OBVIOUS
  <2>1. closed \in BOOLEAN
    BY DEF FlagsInv
  <2>2. asm \in [VideoChannels -> States] /\ emitted \in Seq(Emission)
    BY DEF IInv, AsmInv, EmittedInv
  <2>3. taken \in 0 .. Len(emitted)
    BY <2>2 DEF IInv, QueueInv
  <2> QED
    BY <2>1, <2>2, <2>3 DEF IInv, TrackInv, QueueInv, PlainInv, TypeOK, States, Emission
<1> QED
  BY <1>2, <1>3, Inductive, PTL

(* A frame that is handed on is whole and of one piece (frame.go:368-430). *)
THEOREM OneFrameInOnePiece == Spec => []FramesAreWhole
<1>1. IInv => FramesAreWhole
  BY DEF IInv, EmittedInv
<1> QED
  BY <1>1, Inductive, PTL

(* The channel never keeps an old packet in place of a new one, and never
   turns their order round (frame.go:507-529).                             *)
THEOREM Newest == Spec => []NewestIsKept
<1>1. IInv => NewestIsKept
  <2> SUFFICES ASSUME IInv PROVE NewestIsKept
    OBVIOUS
  <2>1. \A i \in 1 .. Len(output) :
          output[i] > taken /\ \A j \in 1 .. i - 1 : output[j] < output[i]
    BY DEF IInv, QueueInv
  <2> QED
    BY <2>1 DEF IInv, QueueInv, NewestIsKept
<1> QED
  BY <1>1, Inductive, PTL

-----------------------------------------------------------------------------
(* The connection the packets come from, with its own state: its worker is *)
(* called records here.                                                    *)

CONSTANTS BufSize, RawSize, FrameSlots

VARIABLES dialer, talk, call, alive, clientConn, clientBuf, rawCmd, frames, shut, reader, records,
          acker, ctx, closer, crashed

Conn == INSTANCE TutkConn WITH worker <- records

\* TutkConnAssumption.
ConnAssumption ==
  /\ BufSize \in Nat \ {0} /\ RawSize \in Nat \ {0} /\ FrameSlots \in Nat \ {0}
  /\ Nil \notin Conn!Kinds

\* The three goroutines that Close waits for.
Ended == {"none", "gone"}
AllEnded == reader \in Ended /\ records \in Ended /\ acker \in Ended

\* A question is asked by the step of dialling that is called like it, or for the
\* speaker after dialling.
CallInv ==
  /\ dialer \in Conn!IoKinds \union {"login"} => call = dialer
  /\ call \in Conn!Kinds =>
       call = dialer \/ (call = "speaker" /\ talk = "wait" /\ dialer \in {"read", "ended"})

\* Each goroutine is started by one step of dialling, and Close comes with the
\* end of dialling.
StartInv ==
  /\ dialer = "discover" => reader = "none"
  /\ dialer \in {"discover", "dtls"} => records = "none"
  /\ dialer \in {"discover", "dtls", "login"} => acker = "none"
  /\ closer # "none" => dialer \in {"read", "ended", "failed"} /\ ctx
  /\ closer = "done" => AllEnded

ConnInv == Conn!TypeOK /\ CallInv /\ StartInv

\* wg.Add comes before Close and not while it waits: no goroutine starts.
StartsNone ==
  /\ reader \in Ended => reader' = reader
  /\ records \in Ended => records' = records
  /\ acker \in Ended => acker' = acker

LEMMA QueuedFits ==
  ASSUME NEW S, NEW q \in Seq(S), NEW m \in S, NEW size \in Nat \ {0}, Len(q) <= size
  PROVE  Conn!Queued(q, m, size) \in Seq(S) /\ Len(Conn!Queued(q, m, size)) <= size
<1>1. CASE Len(q) < size
  BY <1>1 DEF Conn!Queued
<1>2. CASE Len(q) = size
  <2>1. q # <<>>
    BY <1>2
  <2>2. Tail(q) \in Seq(S) /\ Len(Tail(q)) = size - 1
    BY <1>2, <2>1
  <2> QED BY <1>2, <2>2 DEF Conn!Queued
<1> QED
  BY <1>1, <1>2

LEMMA ConnInit ==
  ASSUME ConnAssumption, Conn!Init
  PROVE  ConnInv
<1>1. /\ clientBuf \in Seq(Conn!Messages) /\ Len(clientBuf) <= BufSize
      /\ rawCmd \in Seq(Conn!Messages) /\ Len(rawCmd) <= RawSize
      /\ frames \in 0 .. FrameSlots
  BY DEF ConnAssumption, Conn!Init
<1>2. Conn!TypeOK
  BY <1>1 DEF Conn!Init, Conn!TypeOK
<1>3. CallInv /\ StartInv
  BY DEF ConnAssumption, Conn!Init, CallInv, StartInv, AllEnded, Ended, Conn!Kinds, Conn!IoKinds
<1> QED
  BY <1>2, <1>3 DEF ConnInv

\* Steps of dialling, of the speaker and of Close.
LEMMA DialKeepsConn ==
  ASSUME ConnAssumption, ConnInv,
         Conn!Dialling \/ Conn!StartIntercom \/ Conn!Stop \/ Conn!Release \/ Conn!Waited
  PROVE  ConnInv' /\ (closer # "none" => StartsNone)
<1> USE DEF ConnAssumption, ConnInv, CallInv, StartInv, AllEnded, Ended, StartsNone,
        Conn!TypeOK, Conn!Kinds, Conn!IoKinds, Conn!data, Conn!ends, Conn!loops, Conn!Closing,
        Conn!Close, Conn!Fail
<1>1. CASE Conn!Discover
  BY <1>1 DEF Conn!Discover
<1>2. CASE Conn!Connect
  BY <1>2 DEF Conn!Connect
<1>3. CASE Conn!TakeRaw
  <2> HIDE DEF ConnInv, CallInv, StartInv
  <2>0. rawCmd' \in Seq(Conn!Messages) /\ Len(rawCmd') <= RawSize
    <3>1. rawCmd # <<>> /\ rawCmd' = Tail(rawCmd) /\ rawCmd \in Seq(Conn!Messages)
          /\ Len(rawCmd) <= RawSize
      BY <1>3 DEF Conn!TakeRaw, ConnInv
    <3> HIDE DEF Conn!TypeOK
    <3> QED BY <3>1
  <2>1. /\ UNCHANGED <<alive, clientBuf, frames, clientConn, shut, ctx, closer, reader, records>>
        /\ call # Nil /\ crashed' \in BOOLEAN
    <3>1. crashed' = TRUE \/ crashed' = crashed
      BY <1>3 DEF Conn!TakeRaw
    <3> QED BY <1>3, <3>1 DEF Conn!TakeRaw, ConnInv
  <2>2. Conn!Answered \/ UNCHANGED <<dialer, talk, call, acker>>
    BY <1>3 DEF Conn!TakeRaw
  <2>3. call \in Conn!Kinds
    BY <2>1 DEF ConnInv
  <2>4. CASE UNCHANGED <<dialer, talk, call, acker>>
    BY <2>0, <2>1, <2>4 DEF ConnInv, CallInv, StartInv
  <2>5. CASE Conn!Answered
    <3>1. CASE call = "speaker"
      <4>1. talk' = "on" /\ call' = Nil /\ UNCHANGED <<dialer, acker>>
        BY <2>5, <3>1 DEF Conn!Answered
      <4> QED BY <2>0, <2>1, <3>1, <4>1 DEF ConnInv, CallInv, StartInv
    <3>2. CASE call = "resolution"
      <4>1. dialer' = "probe" /\ call' = Nil /\ UNCHANGED <<talk, acker>>
        BY <2>5, <3>2 DEF Conn!Answered
      <4> QED BY <2>0, <2>1, <3>2, <4>1 DEF ConnInv, CallInv, StartInv
    <3>3. CASE call \in {"login", "challenge", "auth"}
      <4>1. /\ dialer' \in {"challenge", "auth", "resolution"} /\ call' = dialer'
            /\ UNCHANGED talk
            /\ acker' = IF call = "login" THEN "tick" ELSE acker
        BY <2>5, <3>3 DEF Conn!Answered, Conn!AskNext
      <4>2. dialer = call /\ closer = "none"
        BY <3>3 DEF ConnInv, CallInv, StartInv
      <4> QED BY <2>0, <2>1, <3>3, <4>1, <4>2 DEF ConnInv, CallInv, StartInv
    <3> QED BY <2>3, <3>1, <3>2, <3>3
  <2> QED BY <2>2, <2>4, <2>5
<1>4. CASE Conn!Expire
  <2>1. /\ call # Nil /\ call' = Nil
        /\ UNCHANGED <<alive, clientBuf, rawCmd, frames, reader, records, acker, crashed>>
        /\ UNCHANGED <<clientConn, shut>>
    BY <1>4 DEF Conn!Expire
  <2>2. call \in Conn!Kinds
    BY <2>1
  <2>3. CASE call = "speaker"
    BY <1>4, <2>1, <2>3 DEF Conn!Expire
  <2>4. CASE call = "resolution"
    BY <1>4, <2>1, <2>4 DEF Conn!Expire
  <2>5. CASE call \in {"login", "challenge", "auth"}
    <3>1. dialer' = "failed" /\ closer = "none" /\ closer' = "release" /\ ctx' /\ talk' = talk
          /\ ctx' \in BOOLEAN
      BY <1>4, <2>5 DEF Conn!Expire
    <3> QED BY <2>1, <2>5, <3>1
  <2> QED BY <2>2, <2>3, <2>4, <2>5
<1>5. CASE Conn!ReadPacket
  BY <1>5 DEF Conn!ReadPacket
<1>6. CASE Conn!StartIntercom
  BY <1>6 DEF Conn!StartIntercom
<1>7. CASE Conn!Stop
  BY <1>7 DEF Conn!Stop
<1>8. CASE Conn!Release
  BY <1>8 DEF Conn!Release
<1>9. CASE Conn!Waited
  BY <1>9 DEF Conn!Waited
<1> QED
  BY <1>1, <1>2, <1>3, <1>4, <1>5, <1>6, <1>7, <1>8, <1>9 DEF Conn!Dialling

\* Steps of the camera and of the goroutines.
LEMMA LoopKeepsConn ==
  ASSUME ConnAssumption, ConnInv,
         Conn!Silence \/ (\E m \in Conn!Messages : Conn!Receive(m)) \/ Conn!Loops
  PROVE  ConnInv' /\ StartsNone
<1> USE DEF ConnAssumption
<1>1. UNCHANGED <<dialer, talk, call, clientConn, shut, ctx, closer>>
  BY DEF Conn!Silence, Conn!Receive, Conn!Loops, Conn!ReaderStops, Conn!WorkerLooks,
     Conn!WorkerReads, Conn!Route, Conn!WorkerFails, Conn!Ack, Conn!ends
<1>2. /\ clientBuf' \in Seq(Conn!Messages) /\ Len(clientBuf') <= BufSize
      /\ rawCmd' \in Seq(Conn!Messages) /\ Len(rawCmd') <= RawSize
      /\ frames' \in 0 .. FrameSlots
  <2>1. CASE UNCHANGED <<clientBuf, rawCmd, frames>>
    BY <2>1 DEF ConnInv, Conn!TypeOK
  <2>2. ASSUME NEW m \in Conn!Messages, Conn!Receive(m)
        PROVE  /\ clientBuf' \in Seq(Conn!Messages) /\ Len(clientBuf') <= BufSize
               /\ UNCHANGED <<rawCmd, frames>>
    BY <2>2, QueuedFits DEF Conn!Receive, ConnInv, Conn!TypeOK
  <2>3. CASE Conn!Route
    <3>1. /\ clientBuf # <<>> /\ clientBuf' = Tail(clientBuf)
          /\ Head(clientBuf) \in Conn!Messages
      BY <2>3 DEF Conn!Route, ConnInv, Conn!TypeOK
    <3>2. rawCmd' = rawCmd \/ rawCmd' = Conn!Queued(rawCmd, Head(clientBuf), RawSize)
      BY <2>3 DEF Conn!Route
    <3>3. frames' = frames \/ (frames < FrameSlots /\ frames' = frames + 1)
      BY <2>3 DEF Conn!Route
    <3>4. clientBuf' \in Seq(Conn!Messages) /\ Len(clientBuf') <= BufSize
      BY <3>1 DEF ConnInv, Conn!TypeOK
    <3>5. rawCmd' \in Seq(Conn!Messages) /\ Len(rawCmd') <= RawSize
      BY <3>1, <3>2, QueuedFits DEF ConnInv, Conn!TypeOK
    <3>6. frames' \in 0 .. FrameSlots
      BY <3>3 DEF ConnInv, Conn!TypeOK
    <3> QED BY <3>4, <3>5, <3>6
  <2>4. \/ UNCHANGED <<clientBuf, rawCmd, frames>> \/ Conn!Route
        \/ \E m \in Conn!Messages : Conn!Receive(m)
    BY DEF Conn!Silence, Conn!Loops, Conn!ReaderStops, Conn!WorkerLooks, Conn!WorkerReads,
       Conn!WorkerFails, Conn!Ack, Conn!data
  <2> QED BY <2>1, <2>2, <2>3, <2>4 DEF ConnInv, Conn!TypeOK
<1>3. /\ reader' \in {"none", "run", "gone"} /\ (reader \in Ended => reader' = reader)
      /\ records' \in {"none", "top", "reads", "blocked", "gone"}
      /\ (records \in Ended => records' = records)
      /\ acker' \in {"none", "tick", "send", "gone"} /\ (acker \in Ended => acker' = acker)
      /\ (reader = "none" \/ reader' # "none") /\ (records = "none" \/ records' # "none")
      /\ alive' \in BOOLEAN /\ crashed' \in BOOLEAN
  <2> USE DEF Ended, ConnInv, Conn!TypeOK
  <2>1. CASE Conn!Silence \/ \E m \in Conn!Messages : Conn!Receive(m)
    BY <2>1 DEF Conn!Silence, Conn!Receive, Conn!loops
  <2>2. CASE Conn!ReaderStops \/ Conn!WorkerFails
    BY <2>2 DEF Conn!ReaderStops, Conn!WorkerFails
  <2>3. CASE Conn!WorkerLooks
    BY <2>3 DEF Conn!WorkerLooks
  <2>4. CASE Conn!WorkerReads
    BY <2>4 DEF Conn!WorkerReads
  <2>5. CASE Conn!Route
    <3>1. records = "blocked" /\ records' \in {"gone", "top"}
          /\ UNCHANGED <<reader, acker, alive, crashed>>
      BY <2>5 DEF Conn!Route
    <3> QED BY <3>1
  <2>6. CASE Conn!Ack
    <3>1. crashed' \in BOOLEAN /\ UNCHANGED <<reader, records, alive>>
      BY <2>6 DEF Conn!Ack
    <3>2. acker \in {"tick", "send"} /\ acker' \in {"gone", "send", "tick"}
      BY <2>6 DEF Conn!Ack
    <3> QED BY <3>1, <3>2
  <2> QED BY <2>1, <2>2, <2>3, <2>4, <2>5, <2>6 DEF Conn!Loops
<1>4. Conn!TypeOK'
  BY <1>1, <1>2, <1>3 DEF ConnInv, Conn!TypeOK
<1>5. CallInv' /\ StartInv'
  BY <1>1, <1>3 DEF ConnInv, CallInv, StartInv, AllEnded, Ended
<1> QED
  BY <1>3, <1>4, <1>5 DEF ConnInv, StartsNone

LEMMA ConnKept ==
  ASSUME ConnAssumption, ConnInv,
         [Conn!Next]_(Conn!vars)
  PROVE  ConnInv' /\ (closer # "none" => StartsNone)
<1>1. CASE UNCHANGED Conn!vars
  BY <1>1 DEF Conn!vars, Conn!data, Conn!ends, Conn!loops, ConnInv, CallInv, StartInv, AllEnded,
     StartsNone, Conn!TypeOK
<1> QED
  BY <1>1, DialKeepsConn, LoopKeepsConn DEF Conn!Next

(* The queues of the connection stay within their lengths, and every goroutine
   where its code can be (conn_dtls.go:602-780).                           *)
THEOREM ConnTypeCorrect ==
  ASSUME ConnAssumption
  PROVE  Conn!Spec => []Conn!TypeOK
<1>1. ConnInv => Conn!TypeOK
  BY DEF ConnInv
<1>2. ConnInv /\ [Conn!Next]_(Conn!vars) => ConnInv'
  BY ConnKept
<1>3. Conn!Init => ConnInv
  BY ConnInit
<1> QED
  BY <1>1, <1>2, <1>3, PTL DEF Conn!Spec

(* Close waits for all of them: once it has begun no goroutine of the connection
   starts, so no wg.Add meets its wg.Wait, and when it is done none runs, however
   dialling, the speaker and the camera interleave with it (conn_dtls.go:489-509). *)
THEOREM NothingOutlivesClose ==
  ASSUME ConnAssumption
  PROVE  Conn!Spec => /\ [](closer = "done" => AllEnded)
                      /\ [][closer # "none" => StartsNone]_(Conn!vars)
<1>1. ConnInv => (closer = "done" => AllEnded)
  BY DEF ConnInv, StartInv
<1>2. ConnInv /\ [Conn!Next]_(Conn!vars) => ConnInv' /\ (closer # "none" => StartsNone)
  BY ConnKept
<1>3. Conn!Init => ConnInv
  BY ConnInit
<1> QED
  BY <1>1, <1>2, <1>3, PTL DEF Conn!Spec
=============================================================================
