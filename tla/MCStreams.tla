----------------------------- MODULE MCStreams -----------------------------
(* Constants for model-checking Streams. *)
EXTENDS Streams

\* Consumers ask for audio and for video; the camera has no audio.
AudioVideo == <<"audio", "video">>
VideoOnly == [p \in Producers |-> {"video"}]
=============================================================================
