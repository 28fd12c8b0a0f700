-------------------------- MODULE RecorderService --------------------------
(***************************************************************************)
(* What the recording manager promises its callers, without goroutines and *)
(* handles: a set of cameras that are recorded, for each of which ffmpeg   *)
(* captures now and then, until it is stopped or the process ends.         *)
(***************************************************************************)
CONSTANT Names

VARIABLES
  recording,  \* IsRecording
  capturing,  \* cameras that an ffmpeg nobody has stopped captures
  closing     \* the process was told to end

vars == <<recording, capturing, closing>>

Init == recording = {} /\ capturing = {} /\ closing = FALSE

Start(n) ==
  /\ n \notin recording
  /\ recording' = recording \cup {n}
  /\ UNCHANGED <<capturing, closing>>

Stop(n) ==
  /\ n \in recording
  /\ recording' = recording \ {n}
  /\ capturing' = capturing \ {n}
  /\ UNCHANGED closing

\* ffmpeg starts, for a camera that is recorded and has none; never once the
\* process ends.
Capture(n) ==
  /\ n \in recording \ capturing
  /\ ~closing
  /\ capturing' = capturing \cup {n}
  /\ UNCHANGED <<recording, closing>>

\* ffmpeg ends; the camera stays recorded.
Lose(n) ==
  /\ n \in capturing
  /\ capturing' = capturing \ {n}
  /\ UNCHANGED <<recording, closing>>

Close == ~closing /\ closing' = TRUE /\ UNCHANGED <<recording, capturing>>

StopAll ==
  /\ closing
  /\ recording' = {}
  /\ capturing' = {}
  /\ UNCHANGED closing

Next == \/ \E n \in Names : Start(n) \/ Stop(n) \/ Capture(n) \/ Lose(n)
        \/ Close \/ StopAll

Spec == Init /\ [][Next]_vars
=============================================================================
