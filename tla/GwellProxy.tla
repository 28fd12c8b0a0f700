----------------------------- MODULE GwellProxy -----------------------------
(***************************************************************************)
(* cmd/gwell-proxy/main.go: one loop per Gwell camera that starts an       *)
(* ffmpeg publisher and a P2P session, watches both and starts over, with  *)
(* the mutex that spaces the sessions out, the P2P server address that the *)
(* loops and the hourly refresh share, and the cache file it is kept in.   *)
(*                                                                         *)
(* A session is what GwellSession promises of one: open until Close or its *)
(* own end.  Waits are abstracted: a timer may fire whenever what it waits *)
(* for holds.                                                              *)
(***************************************************************************)
EXTENDS Integers

CONSTANTS
  Cameras,    \* cameraIDs
  Servers,    \* addresses of P2P servers
  Ticker,     \* the goroutine that refreshes the token every hour
  None        \* no server

ASSUME ProxyAssumption ==
  /\ Ticker \notin Cameras
  /\ None \notin Servers

Callers == Cameras \cup {Ticker}

VARIABLES
  loop,     \* where runCamera and streamCamera of each camera are
  ffmpeg,   \* its publisher: none, alive, dead
  session,  \* the session its loop started: none, handshake, stream, silent,
            \* ended (Run has returned and errCh is filled)
  target,   \* the server its session was given
  held,     \* connectMu is locked
  timers,   \* goroutines that will unlock it after cameraStagger
  server,   \* sharedServer
  dead,     \* servers that do not answer any more
  refresh,  \* where refreshDiscovery is, for each caller
  file,     \* token_cache.json: none, torn, or the address in it
  stop      \* stopCh is closed

cams   == <<loop, ffmpeg, session, target>>
mutex  == <<held, timers>>
shared == <<server, refresh, file>>
vars == <<cams, mutex, shared, dead, stop>>

Open == {"handshake", "stream", "silent"}

-----------------------------------------------------------------------------
(* runCamera.                                                              *)

\* The top of the loop.  The token is fetched, or the shared one used, after it.
SeesStop(c) ==
  /\ loop[c] = "top"
  /\ stop
  /\ loop' = [loop EXCEPT ![c] = "stopped"]
  /\ UNCHANGED <<ffmpeg, session, target, mutex, shared, dead, stop>>

\* streamCamera has returned an error: rediscover before the reconnect.
Errored(c) ==
  /\ loop' = [loop EXCEPT ![c] = "refresh"]
  /\ refresh' = [refresh EXCEPT ![c] = "load"]
  /\ UNCHANGED <<server, file>>

Reconnect(c) ==
  /\ loop[c] = "refresh" /\ refresh[c] = "idle"
  /\ loop' = [loop EXCEPT ![c] = IF stop THEN "stopped" ELSE "top"]
  /\ UNCHANGED <<ffmpeg, session, target, mutex, shared, dead, stop>>

-----------------------------------------------------------------------------
(* streamCamera.                                                           *)

StartFails(c) ==
  /\ loop[c] = "top"
  /\ Errored(c)
  /\ UNCHANGED <<ffmpeg, session, target, mutex, dead, stop>>

StartFFmpegPublisher(c) ==
  /\ loop[c] = "top"
  /\ loop' = [loop EXCEPT ![c] = "lock"]
  /\ ffmpeg' = [ffmpeg EXCEPT ![c] = "alive"]
  /\ UNCHANGED <<session, target, mutex, shared, dead, stop>>

\* connectMu is taken, the session starts, and a goroutine of its own unlocks
\* the mutex some time later.
LockConnect(c) ==
  /\ loop[c] = "lock"
  /\ ~held
  /\ held' = TRUE
  /\ timers' = timers \cup {c}
  /\ loop' = [loop EXCEPT ![c] = "monitor"]
  /\ session' = [session EXCEPT ![c] = "handshake"]
  /\ target' = [target EXCEPT ![c] = server]
  /\ UNCHANGED <<ffmpeg, shared, dead, stop>>

\* (mutant) The mutex is released once the session streams.
UnlockStreaming(c) ==
  /\ c \in timers
  /\ session[c] \in {"stream", "silent"}
  /\ timers' = timers \ {c}
  /\ held' = FALSE
  /\ UNCHANGED <<cams, shared, dead, stop>>

UnlockConnect(c) ==
  /\ c \in timers
  /\ timers' = timers \ {c}
  /\ held' = FALSE
  /\ UNCHANGED <<cams, shared, dead, stop>>

\* sess.Close; the Run of the session goes on for a while, see GwellSession.
CloseSession(c) ==
  /\ session' = [session EXCEPT ![c] = "none"]
  /\ target' = [target EXCEPT ![c] = None]

\* The deferred calls of streamCamera.
CloseFFmpeg(c) == ffmpeg' = [ffmpeg EXCEPT ![c] = "none"]

\* (mutant) The error path unlocks the mutex as well.
SessionEndedUnlocks(c) ==
  /\ loop[c] = "monitor"
  /\ session[c] = "ended"
  /\ held' = FALSE
  /\ CloseSession(c)
  /\ CloseFFmpeg(c)
  /\ Errored(c)
  /\ UNCHANGED <<timers, dead, stop>>

SessionEnded(c) ==
  /\ loop[c] = "monitor"
  /\ session[c] = "ended"
  /\ CloseSession(c)
  /\ CloseFFmpeg(c)
  /\ Errored(c)
  /\ UNCHANGED <<mutex, dead, stop>>

\* (mutant) The session is closed, and its end waited for.
FFmpegDiedWaits(c) ==
  /\ loop[c] = "monitor"
  /\ ffmpeg[c] = "dead"
  /\ CloseSession(c)
  /\ UNCHANGED <<loop, ffmpeg, mutex, shared, dead, stop>>

FFmpegDied(c) ==
  /\ loop[c] = "monitor"
  /\ ffmpeg[c] = "dead"
  /\ CloseSession(c)
  /\ CloseFFmpeg(c)
  /\ Errored(c)
  /\ UNCHANGED <<mutex, dead, stop>>

\* (mutant) The deadman leaves the session to itself.
DeadmanLeaves(c) ==
  /\ loop[c] = "monitor"
  /\ session[c] \in {"handshake", "silent"}
  /\ CloseFFmpeg(c)
  /\ Errored(c)
  /\ UNCHANGED <<session, target, mutex, dead, stop>>

\* No byte reached ffmpeg for deadmanTimeout.
Deadman(c) ==
  /\ loop[c] = "monitor"
  /\ session[c] \in {"handshake", "silent"}
  /\ CloseSession(c)
  /\ CloseFFmpeg(c)
  /\ Errored(c)
  /\ UNCHANGED <<mutex, dead, stop>>

\* (mutant) The session is closed and the loop goes on.
StoppedReconnects(c) ==
  /\ loop[c] = "monitor"
  /\ stop
  /\ CloseSession(c)
  /\ UNCHANGED <<loop, ffmpeg, mutex, shared, dead, stop>>

Stopped(c) ==
  /\ loop[c] = "monitor"
  /\ stop
  /\ CloseSession(c)
  /\ CloseFFmpeg(c)
  /\ loop' = [loop EXCEPT ![c] = "stopped"]
  /\ UNCHANGED <<mutex, shared, dead, stop>>

-----------------------------------------------------------------------------
(* refreshDiscovery, always called without forceDiscover.                  *)

\* The token cannot be had, or discovery fails.
RefreshFails(a) ==
  /\ refresh[a] = "load"
  /\ refresh' = [refresh EXCEPT ![a] = "idle"]
  /\ UNCHANGED <<cams, mutex, server, file, dead, stop>>

\* A cached address is taken as it is, and is valid for another week.
UseCache(a) ==
  /\ refresh[a] = "load"
  /\ file \in Servers
  /\ server' = file
  /\ refresh' = [refresh EXCEPT ![a] = "save"]
  /\ UNCHANGED <<cams, mutex, file, dead, stop>>

DiscoverDevices(a) ==
  /\ refresh[a] = "load"
  /\ file \notin Servers
  /\ server' \in Servers \ dead
  /\ refresh' = [refresh EXCEPT ![a] = "save"]
  /\ UNCHANGED <<cams, mutex, file, dead, stop>>

\* os.WriteFile truncates and then writes, while others may read, and either may
\* fail.  The address is read without the lock.
SaveCache(a) ==
  /\ refresh[a] = "save"
  /\ file' \in {file, "torn", server}
  /\ refresh' = [refresh EXCEPT ![a] = "idle"]
  /\ UNCHANGED <<cams, mutex, server, dead, stop>>

\* The hourly refresh.
Tick ==
  /\ ~stop
  /\ refresh[Ticker] = "idle"
  /\ refresh' = [refresh EXCEPT ![Ticker] = "load"]
  /\ UNCHANGED <<cams, mutex, server, file, dead, stop>>

-----------------------------------------------------------------------------
(* What happens around the loops.                                          *)

SetSession(c, s) ==
  /\ session' = [session EXCEPT ![c] = s]
  /\ UNCHANGED <<loop, ffmpeg, target, mutex, shared, dead, stop>>

\* A handshake with a server that is dead does not succeed.
SessionStreams(c) == session[c] = "handshake" /\ target[c] \notin dead /\ SetSession(c, "stream")
SessionFails(c)   == session[c] = "handshake" /\ SetSession(c, "ended")
CameraSilent(c)   == session[c] = "stream" /\ SetSession(c, "silent")
CameraBack(c)     == session[c] = "silent" /\ SetSession(c, "stream")

FFmpegExits(c) ==
  /\ ffmpeg[c] = "alive"
  /\ ffmpeg' = [ffmpeg EXCEPT ![c] = "dead"]
  /\ UNCHANGED <<loop, session, target, mutex, shared, dead, stop>>

ServerDies ==
  /\ \E s \in Servers \ dead : dead' = dead \cup {s}
  /\ dead' # Servers
  /\ UNCHANGED <<cams, mutex, shared, stop>>

Signal ==
  /\ ~stop
  /\ stop' = TRUE
  /\ UNCHANGED <<cams, mutex, shared, dead>>

-----------------------------------------------------------------------------
\* main has discovered a server and starts the loops.
Init ==
  /\ loop = [c \in Cameras |-> "top"]
  /\ ffmpeg = [c \in Cameras |-> "none"]
  /\ session = [c \in Cameras |-> "none"]
  /\ target = [c \in Cameras |-> None]
  /\ held = FALSE /\ timers = {}
  /\ server \in Servers
  /\ file \in {"none", "torn", server}
  /\ refresh = [a \in Callers |-> "idle"]
  /\ dead = {} /\ stop = FALSE

Start(c) == StartFails(c) \/ StartFFmpegPublisher(c)

\* The select of streamCamera.
Monitor(c) == SessionEnded(c) \/ FFmpegDied(c) \/ Deadman(c) \/ Stopped(c)

Loop(c) ==
  SeesStop(c) \/ Start(c) \/ LockConnect(c) \/ Monitor(c) \/ Reconnect(c)

Refresh(a) ==
  RefreshFails(a) \/ UseCache(a) \/ DiscoverDevices(a) \/ SaveCache(a)

Next ==
  \/ \E c \in Cameras :
       \/ Loop(c) \/ UnlockConnect(c)
       \/ SessionStreams(c) \/ SessionFails(c) \/ CameraSilent(c) \/ CameraBack(c)
       \/ FFmpegExits(c)
  \/ \E a \in Callers : Refresh(a)
  \/ Tick \/ ServerDies \/ Signal

Spec == Init /\ [][Next]_vars

\* Timers fire, goroutines run, and a mutex is granted to who waits for it; no
\* publisher and no session has to succeed.
FairSpec ==
  /\ Spec
  /\ WF_vars(\E c \in Cameras : UnlockConnect(c))
  /\ \A c \in Cameras :
       /\ WF_vars(SeesStop(c) \/ Start(c) \/ Refresh(c) \/ Reconnect(c))
       /\ SF_vars(LockConnect(c)) /\ WF_vars(Monitor(c))

\* A rediscovery that is tried again and again succeeds, if only from the cache.
RefreshingSpec ==
  FairSpec /\ \A c \in Cameras : SF_vars(UseCache(c) \/ DiscoverDevices(c))

-----------------------------------------------------------------------------
Steps == {"top", "lock", "monitor", "refresh", "stopped"}

FlagsOK == held \in BOOLEAN /\ stop \in BOOLEAN

CamsOK ==
  /\ loop \in [Cameras -> Steps]
  /\ ffmpeg \in [Cameras -> {"none", "alive", "dead"}]
  /\ session \in [Cameras -> Open \cup {"none", "ended"}]
  /\ target \in [Cameras -> Servers \cup {None}]
  /\ timers \subseteq Cameras

SharedOK ==
  /\ server \in Servers /\ dead \subseteq Servers
  /\ file \in Servers \cup {"none", "torn"}
  /\ refresh \in [Callers -> {"idle", "load", "save"}]
  /\ \A c \in Cameras : loop[c] # "refresh" => refresh[c] = "idle"

TypeOK == FlagsOK /\ CamsOK /\ SharedOK

(* connectMu is unlocked once for each time it is locked: an Unlock too many
   ends the process, one too few and no session starts again.              *)
UnlockedOnce == held = (timers # {}) /\ \A c, d \in timers : c = d

(* No publisher and no open session outlives the streamCamera that watches it,
   so a camera never has two of either.                                    *)
NothingUnwatched ==
  \A c \in Cameras :
    /\ session[c] \in Open => loop[c] = "monitor"
    /\ ffmpeg[c] # "none" => loop[c] \in {"lock", "monitor"}

(* Whoever waits for connectMu gets it, whatever becomes of the sessions. *)
LockIsGranted == \A c \in Cameras : loop[c] = "lock" ~> loop[c] = "monitor"

(* A camera whose publisher died or whose session ended starts over. *)
FailureStartsOver ==
  \A c \in Cameras :
    ffmpeg[c] = "dead" \/ session[c] = "ended" ~> loop[c] \in {"top", "stopped"}

(* After a signal every loop ends, also one that waits for connectMu. *)
ShutdownEnds == stop ~> \A c \in Cameras : loop[c] = "stopped"

\* No camera streams.
Down == \A c \in Cameras : session[c] \notin {"stream", "silent"}

(* The file header's "Fresh discovery on reconnect when both cameras are down":
   while the shared server is dead and no camera streams, another is found.  *)
DownIsRediscovered == server \in dead /\ Down ~> server \notin dead \/ ~Down \/ stop
=============================================================================
