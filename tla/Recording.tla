----------------------------- MODULE Recording -----------------------------
(***************************************************************************)
(* internal/recording/recorder.go: the per-camera ffmpeg supervisors.      *)
(*                                                                         *)
(* Start and Stop are called from camera state-change callbacks, from MQTT *)
(* and from the record button, in goroutines of their own; each does one   *)
(* step under Manager.mu and the rest after unlocking: the callback, the   *)
(* start of the supervisor goroutine, the wait for it to end.  A recorder  *)
(* is the handle {cancel, done} together with its supervisor.              *)
(***************************************************************************)
EXTENDS Integers, FiniteSets

CONSTANTS
  Names,    \* cameras
  Recs,     \* bound: *recorder handles
  Callers,  \* goroutines that call Start and Stop
  Nil       \* no recorder, no camera

ASSUME RecordingAssumption == Nil \notin Names \cup Recs

VARIABLES
  recorders,  \* Manager.recorders: camera -> handle
  sup,        \* where the supervisor of a handle is
  of,         \* the camera a handle was made for
  cancelled,  \* handles whose cancel() was called
  ctxDone,    \* main's context was cancelled (SIGTERM)
  pc, job,    \* each caller's position and its handle
  told,       \* what onChange last said of a camera
  main, taken \* main(): before, inside, after Shutdown, and Shutdown's copy

mgr  == <<recorders, of>>
call == <<pc, job>>
exit == <<ctxDone, main, taken>>
vars == <<mgr, sup, cancelled, call, told, exit>>

Phases == {"free", "made", "loop", "ffmpeg", "backoff", "done"}
Labels == {"idle", "announce", "spawn", "cancel", "await", "revoke"}

\* A handle nobody holds.
Unused == {r \in Recs : /\ sup[r] \in {"free", "done"}
                        /\ \A n \in Names : recorders[n] # r
                        /\ \A c \in Callers : job[c] # r
                        /\ r \notin taken}

\* recCtx.Err() # nil
Cancelled(r) == ctxDone \/ r \in cancelled

-----------------------------------------------------------------------------
(* Start.  When the camera has a recorder, or its directory cannot be made,
   nothing happens.                                                        *)

\* (mutant) A second recorder replaces the first.
StartAgain(c, n) ==
  /\ pc[c] = "idle"
  /\ \E r \in Unused :
       /\ recorders' = [recorders EXCEPT ![n] = r]
       /\ of' = [of EXCEPT ![r] = n]
       /\ sup' = [sup EXCEPT ![r] = "made"]
       /\ cancelled' = cancelled \ {r}
       /\ job' = [job EXCEPT ![c] = r]
  /\ pc' = [pc EXCEPT ![c] = "announce"]
  /\ UNCHANGED <<told, exit>>

Start(c, n) ==
  /\ pc[c] = "idle"
  /\ recorders[n] = Nil
  /\ \E r \in Unused :
       /\ recorders' = [recorders EXCEPT ![n] = r]
       /\ of' = [of EXCEPT ![r] = n]
       /\ sup' = [sup EXCEPT ![r] = "made"]
       /\ cancelled' = cancelled \ {r}
       /\ job' = [job EXCEPT ![c] = r]
  /\ pc' = [pc EXCEPT ![c] = "announce"]
  /\ UNCHANGED <<told, exit>>

AnnounceStart(c) ==
  /\ pc[c] = "announce"
  /\ told' = [told EXCEPT ![of[job[c]]] = TRUE]
  /\ pc' = [pc EXCEPT ![c] = "spawn"]
  /\ UNCHANGED <<mgr, sup, cancelled, job, exit>>

\* (mutant) No supervisor for a handle that is cancelled already.
SpawnUnlessCancelled(c) ==
  /\ pc[c] = "spawn"
  /\ sup' = IF Cancelled(job[c]) THEN sup ELSE [sup EXCEPT ![job[c]] = "loop"]
  /\ pc' = [pc EXCEPT ![c] = "idle"]
  /\ job' = [job EXCEPT ![c] = Nil]
  /\ UNCHANGED <<mgr, cancelled, told, exit>>

Spawn(c) ==
  /\ pc[c] = "spawn"
  /\ sup' = [sup EXCEPT ![job[c]] = "loop"]
  /\ pc' = [pc EXCEPT ![c] = "idle"]
  /\ job' = [job EXCEPT ![c] = Nil]
  /\ UNCHANGED <<mgr, cancelled, told, exit>>

-----------------------------------------------------------------------------
(* Stop.  When the camera has no recorder nothing happens.                 *)

Stop(c, n) ==
  /\ pc[c] = "idle"
  /\ recorders[n] # Nil
  /\ recorders' = [recorders EXCEPT ![n] = Nil]
  /\ job' = [job EXCEPT ![c] = recorders[n]]
  /\ pc' = [pc EXCEPT ![c] = "cancel"]
  /\ UNCHANGED <<of, sup, cancelled, told, exit>>

Cancel(c) ==
  /\ pc[c] = "cancel"
  /\ cancelled' = cancelled \cup {job[c]}
  /\ pc' = [pc EXCEPT ![c] = "await"]
  /\ UNCHANGED <<mgr, sup, job, told, exit>>

Await(c) ==
  /\ pc[c] = "await"
  /\ sup[job[c]] = "done"
  /\ pc' = [pc EXCEPT ![c] = "revoke"]
  /\ UNCHANGED <<mgr, sup, cancelled, job, told, exit>>

AnnounceStop(c) ==
  /\ pc[c] = "revoke"
  /\ told' = [told EXCEPT ![of[job[c]]] = FALSE]
  /\ pc' = [pc EXCEPT ![c] = "idle"]
  /\ job' = [job EXCEPT ![c] = Nil]
  /\ UNCHANGED <<mgr, sup, cancelled, exit>>

-----------------------------------------------------------------------------
(* runRecorder.                                                            *)

\* (mutant) Without the loop condition.
LaunchAnyway(r) ==
  /\ sup[r] = "loop"
  /\ \E s \in {"ffmpeg", "backoff"} : sup' = [sup EXCEPT ![r] = s]
  /\ UNCHANGED <<mgr, cancelled, call, told, exit>>

\* The loop condition, and runFFmpegOnce up to cmd.Start, which may fail.
Launch(r) ==
  /\ sup[r] = "loop"
  /\ \/ Cancelled(r) /\ sup' = [sup EXCEPT ![r] = "done"]
     \/ ~Cancelled(r) /\ \E s \in {"ffmpeg", "backoff"} : sup' = [sup EXCEPT ![r] = s]
  /\ UNCHANGED <<mgr, cancelled, call, told, exit>>

\* ffmpeg exits: by itself, or on the SIGINT or SIGKILL that follow a cancel.
FFmpegExits(r) ==
  /\ sup[r] = "ffmpeg"
  /\ sup' = [sup EXCEPT ![r] = IF Cancelled(r) THEN "done" ELSE "backoff"]
  /\ UNCHANGED <<mgr, cancelled, call, told, exit>>

\* The select of ctx.Done and the timer.
BackoffEnds(r) ==
  /\ sup[r] = "backoff"
  /\ sup' = [sup EXCEPT ![r] = IF Cancelled(r) THEN "done" ELSE "loop"]
  /\ UNCHANGED <<mgr, cancelled, call, told, exit>>

-----------------------------------------------------------------------------
(* main(): SIGTERM cancels the context every recorder's is derived from, so
   the cancel() calls of Shutdown add nothing.                             *)

Terminate ==
  /\ ~ctxDone
  /\ ctxDone' = TRUE
  /\ UNCHANGED <<mgr, sup, cancelled, call, told, main, taken>>

Shutdown ==
  /\ ctxDone
  /\ main = "running"
  /\ taken' = {recorders[n] : n \in Names} \ {Nil}
  /\ recorders' = [n \in Names |-> Nil]
  /\ main' = "shutdown"
  /\ UNCHANGED <<of, sup, cancelled, call, told, ctxDone>>

ShutdownReturns ==
  /\ main = "shutdown"
  /\ \A r \in taken : sup[r] = "done"
  /\ main' = "exited"
  /\ taken' = {}
  /\ UNCHANGED <<mgr, sup, cancelled, call, told, ctxDone>>

-----------------------------------------------------------------------------
Init ==
  /\ recorders = [n \in Names |-> Nil]
  /\ sup = [r \in Recs |-> "free"]
  /\ of = [r \in Recs |-> Nil]
  /\ cancelled = {}
  /\ ctxDone = FALSE
  /\ pc = [c \in Callers |-> "idle"]
  /\ job = [c \in Callers |-> Nil]
  /\ told = [n \in Names |-> FALSE]
  /\ main = "running"
  /\ taken = {}

CallerStep(c) == \/ AnnounceStart(c) \/ Spawn(c)
                 \/ Cancel(c) \/ Await(c) \/ AnnounceStop(c)

SupStep(r) == Launch(r) \/ FFmpegExits(r) \/ BackoffEnds(r)

Next == \/ \E c \in Callers, n \in Names : Start(c, n) \/ Stop(c, n)
        \/ \E c \in Callers : CallerStep(c)
        \/ \E r \in Recs : SupStep(r)
        \/ Terminate \/ Shutdown \/ ShutdownReturns

Spec == Init /\ [][Next]_vars

\* Goroutines run; a cancelled ffmpeg ends, by SIGKILL after WaitDelay if need
\* be.  Nobody has to press a button, and ffmpeg need not end by itself.
FairSpec == /\ Spec
            /\ \A c \in Callers : WF_vars(CallerStep(c))
            /\ \A r \in Recs : /\ WF_vars(Launch(r) \/ BackoffEnds(r))
                               /\ WF_vars(Cancelled(r) /\ FFmpegExits(r))
            /\ WF_vars(Shutdown \/ ShutdownReturns)

-----------------------------------------------------------------------------
TypeOK ==
  /\ recorders \in [Names -> Recs \cup {Nil}]
  /\ sup \in [Recs -> Phases]
  /\ of \in [Recs -> Names \cup {Nil}]
  /\ cancelled \in SUBSET Recs
  /\ ctxDone \in BOOLEAN
  /\ pc \in [Callers -> Labels]
  /\ job \in [Callers -> Recs \cup {Nil}]
  /\ told \in [Names -> BOOLEAN]
  /\ main \in {"running", "shutdown", "exited"}
  /\ taken \in SUBSET Recs

(* No stray ffmpeg: whatever records a camera is what IsRecording and the next
   Stop of that camera see, or has been told to stop, or is about to be by the
   Stop that removed it.                                                   *)
NoStrayFFmpeg ==
  \A r \in Recs : sup[r] = "ffmpeg" /\ ~Cancelled(r) =>
    \/ recorders[of[r]] = r
    \/ \E c \in Callers : pc[c] = "cancel" /\ job[c] = r

(* A recorder that a Stop waits for, or that Shutdown waits for, can only end:
   it is never handed out again and its cancellation never undone.         *)
AwaitedIsCancelled ==
  /\ \A c \in Callers : pc[c] = "await" => Cancelled(job[c]) /\ sup[job[c]] # "free"
  /\ \A r \in taken : Cancelled(r) /\ sup[r] # "free"

(* Stop blocks only until ffmpeg has exited, also when it catches the recorder
   between Start's unlock and the start of its goroutine.                  *)
StopReturns == \A c \in Callers : pc[c] = "cancel" ~> pc[c] = "idle"

(* SIGTERM ends in the return of Shutdown. *)
ShutdownEnds == ctxDone ~> main = "exited"

(* What callers see of the recorders.  A camera is captured when its handle in
   the map has an ffmpeg; one that was removed drains unseen.              *)
Captured == {n \in Names : recorders[n] # Nil /\ sup[recorders[n]] = "ffmpeg"}

Service == INSTANCE RecorderService WITH
             recording <- {n \in Names : recorders[n] # Nil},
             capturing <- Captured,
             closing   <- ctxDone

(* The goroutines, handles and windows between unlock and cancel implement the
   service: one ffmpeg per recorded camera at a time, none for a camera that is
   not recorded, none started once the process ends.                       *)
ImplementsService == Service!Spec

AtRest == \A c \in Callers : pc[c] = "idle"

(* main.go:220-223: the MQTT topic reflects the live recording state, so when
   no call is under way the last onChange tells what IsRecording says.     *)
ToldIsRecording ==
  AtRest /\ main = "running" =>
    \A n \in Names : told[n] = (recorders[n] # Nil)
=============================================================================
