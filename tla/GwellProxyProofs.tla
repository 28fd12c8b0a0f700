-------------------------- MODULE GwellProxyProofs --------------------------
(***************************************************************************)
(* What holds of the Gwell proxy for any number of cameras and P2P servers.*)
(***************************************************************************)
EXTENDS GwellProxy, TLAPS

IInv == TypeOK /\ UnlockedOnce /\ NothingUnwatched

USE ProxyAssumption DEF ProxyAssumption

LEMMA InitIInv == Init => IInv
<1> SUFFICES ASSUME Init PROVE IInv
  OBVIOUS
<1>1. FlagsOK
  BY DEF Init, FlagsOK
<1>2. CamsOK
  BY DEF Init, CamsOK, Steps, Open
<1>3. SharedOK
  BY DEF Init, SharedOK, Callers
<1>4. UnlockedOnce
  BY DEF Init, UnlockedOnce
<1>5. NothingUnwatched
  BY DEF Init, NothingUnwatched, Open
<1> QED
  BY <1>1, <1>2, <1>3, <1>4, <1>5 DEF IInv, TypeOK

(* The mutex and the stop channel are there or not. *)
LEMMA NextFlagsOK == FlagsOK /\ [Next]_vars => FlagsOK'
<1> SUFFICES ASSUME FlagsOK, [Next]_vars PROVE FlagsOK'
  OBVIOUS
<1> USE DEF FlagsOK, cams, mutex, shared
<1>1. CASE UNCHANGED vars
  BY <1>1 DEF vars, cams, mutex, shared
<1>2. ASSUME NEW c \in Cameras, Loop(c) PROVE FlagsOK'
  <2>1. CASE SeesStop(c)
    BY <2>1 DEF SeesStop
  <2>2. CASE StartFails(c)
    BY <2>2 DEF StartFails, Errored
  <2>3. CASE StartFFmpegPublisher(c)
    BY <2>3 DEF StartFFmpegPublisher
  <2>4. CASE LockConnect(c)
    BY <2>4 DEF LockConnect
  <2>5. CASE SessionEnded(c)
    BY <2>5 DEF SessionEnded, Errored, CloseSession, CloseFFmpeg
  <2>6. CASE FFmpegDied(c)
    BY <2>6 DEF FFmpegDied, Errored, CloseSession, CloseFFmpeg
  <2>7. CASE Deadman(c)
    BY <2>7 DEF Deadman, Errored, CloseSession, CloseFFmpeg
  <2>8. CASE Stopped(c)
    BY <2>8 DEF Stopped, CloseSession, CloseFFmpeg
  <2>9. CASE Reconnect(c)
    BY <2>9 DEF Reconnect
  <2> QED
    BY <1>2, <2>1, <2>2, <2>3, <2>4, <2>5, <2>6, <2>7, <2>8, <2>9 DEF Loop, Start, Monitor
<1>3. ASSUME NEW c \in Cameras,
             \/ UnlockConnect(c) \/ SessionStreams(c) \/ SessionFails(c)
             \/ CameraSilent(c) \/ CameraBack(c) \/ FFmpegExits(c)
      PROVE  FlagsOK'
  <2>1. CASE UnlockConnect(c)
    BY <2>1 DEF UnlockConnect
  <2>2. CASE \/ SessionStreams(c) \/ SessionFails(c)
             \/ CameraSilent(c) \/ CameraBack(c)
    BY <2>2 DEF SessionStreams, SessionFails, CameraSilent, CameraBack, SetSession
  <2>3. CASE FFmpegExits(c)
    BY <2>3 DEF FFmpegExits
  <2> QED
    BY <1>3, <2>1, <2>2, <2>3
<1>4. ASSUME NEW a \in Callers, Refresh(a) PROVE FlagsOK'
  BY <1>4 DEF Refresh, RefreshFails, UseCache, DiscoverDevices, SaveCache
<1>5. CASE Tick \/ ServerDies \/ Signal
  BY <1>5 DEF Tick, ServerDies, Signal
<1> QED
  BY <1>1, <1>2, <1>3, <1>4, <1>5 DEF Next

(* What each loop has. *)
LEMMA NextCamsOK == TypeOK /\ [Next]_vars => CamsOK'
<1> SUFFICES ASSUME TypeOK, [Next]_vars PROVE CamsOK'
  OBVIOUS
<1> USE DEF TypeOK, CamsOK, SharedOK, Steps, Open, cams, mutex, shared
<1>1. CASE UNCHANGED vars
  BY <1>1 DEF vars, cams, mutex, shared
<1>2. ASSUME NEW c \in Cameras, Loop(c) PROVE CamsOK'
  <2>1. CASE SeesStop(c)
    BY <2>1 DEF SeesStop
  <2>2. CASE StartFails(c)
    BY <2>2 DEF StartFails, Errored
  <2>3. CASE StartFFmpegPublisher(c)
    BY <2>3 DEF StartFFmpegPublisher
  <2>4. CASE LockConnect(c)
    BY <2>4 DEF LockConnect
  <2>5. CASE SessionEnded(c)
    BY <2>5 DEF SessionEnded, Errored, CloseSession, CloseFFmpeg
  <2>6. CASE FFmpegDied(c)
    BY <2>6 DEF FFmpegDied, Errored, CloseSession, CloseFFmpeg
  <2>7. CASE Deadman(c)
    BY <2>7 DEF Deadman, Errored, CloseSession, CloseFFmpeg
  <2>8. CASE Stopped(c)
    BY <2>8 DEF Stopped, CloseSession, CloseFFmpeg
  <2>9. CASE Reconnect(c)
    BY <2>9 DEF Reconnect
  <2> QED
    BY <1>2, <2>1, <2>2, <2>3, <2>4, <2>5, <2>6, <2>7, <2>8, <2>9 DEF Loop, Start, Monitor
<1>3. ASSUME NEW c \in Cameras,
             \/ UnlockConnect(c) \/ SessionStreams(c) \/ SessionFails(c)
             \/ CameraSilent(c) \/ CameraBack(c) \/ FFmpegExits(c)
      PROVE  CamsOK'
  <2>1. CASE UnlockConnect(c)
    BY <2>1 DEF UnlockConnect
  <2>2. CASE \/ SessionStreams(c) \/ SessionFails(c)
             \/ CameraSilent(c) \/ CameraBack(c)
    BY <2>2 DEF SessionStreams, SessionFails, CameraSilent, CameraBack, SetSession
  <2>3. CASE FFmpegExits(c)
    BY <2>3 DEF FFmpegExits
  <2> QED
    BY <1>3, <2>1, <2>2, <2>3
<1>4. ASSUME NEW a \in Callers, Refresh(a) PROVE CamsOK'
  BY <1>4 DEF Refresh, RefreshFails, UseCache, DiscoverDevices, SaveCache
<1>5. CASE Tick \/ ServerDies \/ Signal
  BY <1>5 DEF Tick, ServerDies, Signal
<1> QED
  BY <1>1, <1>2, <1>3, <1>4, <1>5 DEF Next

(* What the loops share: a loop that goes on has no discovery under way. *)
LEMMA NextSharedOK == TypeOK /\ [Next]_vars => SharedOK'
<1> SUFFICES ASSUME TypeOK, [Next]_vars PROVE SharedOK'
  OBVIOUS
<1> USE DEF TypeOK, CamsOK, SharedOK, Callers, cams, mutex, shared
<1>1. CASE UNCHANGED vars
  BY <1>1 DEF vars, cams, mutex, shared
<1>2. ASSUME NEW c \in Cameras, Loop(c) PROVE SharedOK'
  <2>1. CASE SeesStop(c)
    BY <2>1 DEF SeesStop
  <2>2. CASE StartFails(c)
    BY <2>2 DEF StartFails, Errored
  <2>3. CASE StartFFmpegPublisher(c)
    BY <2>3 DEF StartFFmpegPublisher
  <2>4. CASE LockConnect(c)
    BY <2>4 DEF LockConnect
  <2>5. CASE SessionEnded(c)
    BY <2>5 DEF SessionEnded, Errored, CloseSession, CloseFFmpeg
  <2>6. CASE FFmpegDied(c)
    BY <2>6 DEF FFmpegDied, Errored, CloseSession, CloseFFmpeg
  <2>7. CASE Deadman(c)
    BY <2>7 DEF Deadman, Errored, CloseSession, CloseFFmpeg
  <2>8. CASE Stopped(c)
    BY <2>8 DEF Stopped, CloseSession, CloseFFmpeg
  <2>9. CASE Reconnect(c)
    BY <2>9 DEF Reconnect
  <2> QED
    BY <1>2, <2>1, <2>2, <2>3, <2>4, <2>5, <2>6, <2>7, <2>8, <2>9 DEF Loop, Start, Monitor
<1>3. ASSUME NEW c \in Cameras,
             \/ UnlockConnect(c) \/ SessionStreams(c) \/ SessionFails(c)
             \/ CameraSilent(c) \/ CameraBack(c) \/ FFmpegExits(c)
      PROVE  SharedOK'
  <2>1. CASE UnlockConnect(c)
    BY <2>1 DEF UnlockConnect
  <2>2. CASE \/ SessionStreams(c) \/ SessionFails(c)
             \/ CameraSilent(c) \/ CameraBack(c)
    BY <2>2 DEF SessionStreams, SessionFails, CameraSilent, CameraBack, SetSession
  <2>3. CASE FFmpegExits(c)
    BY <2>3 DEF FFmpegExits
  <2> QED
    BY <1>3, <2>1, <2>2, <2>3
<1>4. ASSUME NEW a \in Callers, Refresh(a) PROVE SharedOK'
  BY <1>4 DEF Refresh, RefreshFails, UseCache, DiscoverDevices, SaveCache
<1>5. CASE Tick \/ ServerDies \/ Signal
  BY <1>5 DEF Tick, ServerDies, Signal
<1> QED
  BY <1>1, <1>2, <1>3, <1>4, <1>5 DEF Next

(* The mutex is held by the one goroutine that will unlock it. *)
LEMMA NextUnlocked == UnlockedOnce /\ [Next]_vars => UnlockedOnce'
<1> SUFFICES ASSUME UnlockedOnce, [Next]_vars PROVE UnlockedOnce'
  OBVIOUS
<1> USE DEF UnlockedOnce, cams, mutex, shared
<1>1. CASE UNCHANGED vars
  BY <1>1 DEF vars, cams, mutex, shared
<1>2. ASSUME NEW c \in Cameras, Loop(c) PROVE UnlockedOnce'
  <2>1. CASE SeesStop(c)
    BY <2>1 DEF SeesStop
  <2>2. CASE StartFails(c)
    BY <2>2 DEF StartFails, Errored
  <2>3. CASE StartFFmpegPublisher(c)
    BY <2>3 DEF StartFFmpegPublisher
  <2>4. CASE LockConnect(c)
    BY <2>4 DEF LockConnect
  <2>5. CASE SessionEnded(c)
    BY <2>5 DEF SessionEnded, Errored, CloseSession, CloseFFmpeg
  <2>6. CASE FFmpegDied(c)
    BY <2>6 DEF FFmpegDied, Errored, CloseSession, CloseFFmpeg
  <2>7. CASE Deadman(c)
    BY <2>7 DEF Deadman, Errored, CloseSession, CloseFFmpeg
  <2>8. CASE Stopped(c)
    BY <2>8 DEF Stopped, CloseSession, CloseFFmpeg
  <2>9. CASE Reconnect(c)
    BY <2>9 DEF Reconnect
  <2> QED
    BY <1>2, <2>1, <2>2, <2>3, <2>4, <2>5, <2>6, <2>7, <2>8, <2>9 DEF Loop, Start, Monitor
<1>3. ASSUME NEW c \in Cameras,
             \/ UnlockConnect(c) \/ SessionStreams(c) \/ SessionFails(c)
             \/ CameraSilent(c) \/ CameraBack(c) \/ FFmpegExits(c)
      PROVE  UnlockedOnce'
  <2>1. CASE UnlockConnect(c)
    BY <2>1 DEF UnlockConnect
  <2>2. CASE \/ SessionStreams(c) \/ SessionFails(c)
             \/ CameraSilent(c) \/ CameraBack(c)
    BY <2>2 DEF SessionStreams, SessionFails, CameraSilent, CameraBack, SetSession
  <2>3. CASE FFmpegExits(c)
    BY <2>3 DEF FFmpegExits
  <2> QED
    BY <1>3, <2>1, <2>2, <2>3
<1>4. ASSUME NEW a \in Callers, Refresh(a) PROVE UnlockedOnce'
  BY <1>4 DEF Refresh, RefreshFails, UseCache, DiscoverDevices, SaveCache
<1>5. CASE Tick \/ ServerDies \/ Signal
  BY <1>5 DEF Tick, ServerDies, Signal
<1> QED
  BY <1>1, <1>2, <1>3, <1>4, <1>5 DEF Next

(* The deferred calls close what streamCamera opened, on every way out. *)
LEMMA NextWatched == CamsOK /\ NothingUnwatched /\ [Next]_vars => NothingUnwatched'
<1> SUFFICES ASSUME CamsOK /\ NothingUnwatched, [Next]_vars PROVE NothingUnwatched'
  OBVIOUS
<1> USE DEF CamsOK, NothingUnwatched, Open, cams, mutex, shared
<1>1. CASE UNCHANGED vars
  BY <1>1 DEF vars, cams, mutex, shared
<1>2. ASSUME NEW c \in Cameras, Loop(c) PROVE NothingUnwatched'
  <2>1. CASE SeesStop(c)
    BY <2>1 DEF SeesStop
  <2>2. CASE StartFails(c)
    BY <2>2 DEF StartFails, Errored
  <2>3. CASE StartFFmpegPublisher(c)
    BY <2>3 DEF StartFFmpegPublisher
  <2>4. CASE LockConnect(c)
    BY <2>4 DEF LockConnect
  <2>5. CASE SessionEnded(c)
    BY <2>5 DEF SessionEnded, Errored, CloseSession, CloseFFmpeg
  <2>6. CASE FFmpegDied(c)
    BY <2>6 DEF FFmpegDied, Errored, CloseSession, CloseFFmpeg
  <2>7. CASE Deadman(c)
    BY <2>7 DEF Deadman, Errored, CloseSession, CloseFFmpeg
  <2>8. CASE Stopped(c)
    BY <2>8 DEF Stopped, CloseSession, CloseFFmpeg
  <2>9. CASE Reconnect(c)
    BY <2>9 DEF Reconnect
  <2> QED
    BY <1>2, <2>1, <2>2, <2>3, <2>4, <2>5, <2>6, <2>7, <2>8, <2>9 DEF Loop, Start, Monitor
<1>3. ASSUME NEW c \in Cameras,
             \/ UnlockConnect(c) \/ SessionStreams(c) \/ SessionFails(c)
             \/ CameraSilent(c) \/ CameraBack(c) \/ FFmpegExits(c)
      PROVE  NothingUnwatched'
  <2>1. CASE UnlockConnect(c)
    BY <2>1 DEF UnlockConnect
  <2>2. CASE \/ SessionStreams(c) \/ SessionFails(c)
             \/ CameraSilent(c) \/ CameraBack(c)
    BY <2>2 DEF SessionStreams, SessionFails, CameraSilent, CameraBack, SetSession
  <2>3. CASE FFmpegExits(c)
    BY <2>3 DEF FFmpegExits
  <2> QED
    BY <1>3, <2>1, <2>2, <2>3
<1>4. ASSUME NEW a \in Callers, Refresh(a) PROVE NothingUnwatched'
  BY <1>4 DEF Refresh, RefreshFails, UseCache, DiscoverDevices, SaveCache
<1>5. CASE Tick \/ ServerDies \/ Signal
  BY <1>5 DEF Tick, ServerDies, Signal
<1> QED
  BY <1>1, <1>2, <1>3, <1>4, <1>5 DEF Next

THEOREM Inductive == Spec => []IInv
<1>1. Init => IInv
  BY InitIInv
<1>2. IInv /\ [Next]_vars => IInv'
  BY NextFlagsOK, NextCamsOK, NextSharedOK, NextUnlocked, NextWatched DEF IInv, TypeOK
<1> QED
  BY <1>1, <1>2, PTL DEF Spec

(* Type correctness. *)
THEOREM TypeCorrect == Spec => []TypeOK
  BY Inductive, PTL DEF IInv

(* connectMu is unlocked as often as it is locked, whichever way a session ends
   meanwhile (main.go:425-455).                                            *)
THEOREM MutexIsUnlockedOnce == Spec => []UnlockedOnce
  BY Inductive, PTL DEF IInv

(* streamCamera returns with its publisher and its session closed
   (main.go:362-488).                                                      *)
THEOREM NothingIsLeft == Spec => []NothingUnwatched
  BY Inductive, PTL DEF IInv
=============================================================================
