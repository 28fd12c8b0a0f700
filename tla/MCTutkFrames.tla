---------------------------- MODULE MCTutkFrames ---------------------------
\* Frames of two packets with single ones between them, on a clock that wraps.
EXTENDS TutkFrames

FrameChannel == <<"P", "I", "P", "audio", "P", "I">>
FrameSize == <<1, 2, 2, 1, 2, 2>>
FrameTime == <<0, 1, 2, 2, 4, 5>>

Channel_ == [f \in 0 .. LastFrame |-> FrameChannel[f + 1]]
Size_ == [f \in 0 .. LastFrame |-> FrameSize[f + 1]]
Time_ == [f \in 0 .. LastFrame |-> FrameTime[f + 1]]
=============================================================================
