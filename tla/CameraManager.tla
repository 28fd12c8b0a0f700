--------------------------- MODULE CameraManager ---------------------------
(***************************************************************************)
(* internal/camera: the registry of cameras, the per-camera state machine, *)
(* and the registration of streams with go2rtc.                            *)
(*                                                                         *)
(* Every goroutine that can be inside the manager is a process with its    *)
(* own program counter: the discovery loop (which is main() until go2rtc   *)
(* is up), the WebUI / MQTT handlers, and the goroutine ConnectAll and     *)
(* reconnectErrored spawn for each camera.  A step is what the code does   *)
(* under one lock, in one HTTP call or in one callback, so the gaps        *)
(* between GetState and SetState, between a map update and the callback    *)
(* made after unlocking, and between a listing and its use all show.       *)
(***************************************************************************)
EXTENDS Integers, FiniteSets

CONSTANTS
  Devices,           \* physical cameras, identified by their MAC
  Kind,              \* Kind[d]: how the model registry routes device d
  Names,             \* normalized camera names
  Objects,           \* *Camera heap objects
  Nil,               \* nil pointer, no name, nobody
  Loop,              \* the goroutine of main() and then RunDiscoveryLoop
  Users,             \* WebUI and MQTT handler goroutines
  Quality,           \* quality settings a stream URL can carry
  DefaultQuality,    \* CamQuality() of a new camera
  ChronicThreshold,  \* chronicErrorThreshold (10 in the code)
  FallbackThreshold, \* TUTK_FALLBACK_THRESHOLD (5 by default, 0 = off)
  MaxErrors,         \* bound: AddStream fails only below this error count
  Accounts,          \* bound: the listings the Wyze account can answer with
  Commands,          \* bound: what the WebUI and MQTT handlers are asked for
  EarlyCommands,     \* may a WebUI request arrive before go2rtc is attached?
  DeleteMayFail      \* may DELETE /api/streams fail? (its error is ignored)

Owners  == {Loop} \cup Users
Workers == Owners \X Objects
Proc    == Owners \cup Workers

Kinds    == {"tutk", "gwell", "doorbell"}
States   == {"Offline", "Connecting", "Streaming", "Error"}
Protocols == {"none", "tutk", "webrtc", "gwell"}

ASSUME ConstantsAssumption ==
  /\ Kind \in [Devices -> Kinds]
  /\ Nil \notin Names \cup Objects \cup Owners \cup Devices \cup Quality
  /\ Loop \notin Users
  /\ Owners \cap Workers = {}
  /\ DefaultQuality \in Quality
  /\ ChronicThreshold \in Nat \ {0}
  /\ FallbackThreshold \in Nat
  /\ MaxErrors \in Nat
  /\ Accounts \subseteq [Devices -> Names \cup {Nil}]
  /\ Commands \subseteq {"restart", "start", "stop", "quality", "rediscover"}
  /\ EarlyCommands \in BOOLEAN
  /\ DeleteMayFail \in BOOLEAN

VARIABLES
  cloud,     \* the Wyze account: the name of each device, Nil when not listed
  registry,  \* Manager.cameras: name -> object
  cam,       \* the fields of each Camera object
  chronic,   \* Manager.chronicReported
  mu,        \* who holds Manager.mu for writing across steps
  attached,  \* SetGo2RTCAPI has run
  wired,     \* OnStateChange has registered the callback
  stream,    \* go2rtc's stream table: the source of each name
  dead,      \* registered streams without an active producer
  alive,     \* the answer HealthCheck got from ListStreams
  found,     \* the answer Discover got from GetCameraList, per caller
  todo,      \* cameras an owner still has to visit, or waits for
  pc, loc,   \* program counter and locals of each process
  told,      \* last state the observers of a name were told of
  issue,     \* is camera/chronic/<name> in the issues registry?
  alerts,    \* onChronicError calls less onChronicRecover calls
  fired      \* onProtocolFallback calls for an object

objVars   == <<cam, registry, chronic, mu>>
bootVars  == <<attached, wired>>
go2rtc    == <<stream, dead>>
ownerVars == <<alive, found, todo>>
observers == <<told, issue, alerts, fired>>
vars == <<cloud, objVars, bootVars, go2rtc, ownerVars, pc, loc, observers>>

-----------------------------------------------------------------------------
(* Data.                                                                   *)

NoStream == [proto |-> "none", qual |-> Nil]
Source   == [proto : Protocols, qual : Quality \cup {Nil}]

Camera == [name   : Names \cup {Nil}, mac : Devices \cup {Nil}, state : States,
           errors : Nat, streak : Nat, force : BOOLEAN,
           qual   : Quality]

NewCamera(n, d) == [name |-> n, mac |-> d, state |-> "Offline", errors |-> 0,
                    streak |-> 0, force |-> FALSE, qual |-> DefaultQuality]

Cmds == {"none", "boot", "refresh", "rediscover", "health", "connect",
         "restart", "start", "stop", "quality"}

NoLoc == [cmd |-> "none", obj |-> Nil, goal |-> "Offline",
          old |-> "Offline", src |-> NoStream]
Local == [cmd : Cmds, obj : Objects \cup {Nil}, goal : States, old : States,
          src : Source]

Labels == {"idle", "fetch", "apply", "mark", "gather", "wait", "attach", "wire",
           "cams", "check", "hold", "drop", "read", "set", "clear", "recover",
           "notify", "source", "delete", "add", "fail", "lost", "count",
           "chronic", "report", "protocol", "bump", "promote", "fallback"}

Registered(o) == \E n \in Names : registry[n] = o
RegisteredObjects == {o \in Objects : Registered(o)}

\* A *Camera nobody can reach any more; NewCamera may reuse its identity.
Free == {o \in Objects : /\ ~Registered(o)
                         /\ \A p \in Proc : loc[p].obj # o
                         /\ \A p \in Owners : o \notin todo[p]}

\* (mutant) The model alone decides, a promotion does not.
ProtocolByModel(o) ==
  IF Kind[cam[o].mac] = "doorbell" THEN "webrtc"
  ELSE IF Kind[cam[o].mac] = "gwell" THEN "gwell" ELSE "tutk"

\* streamSourceFor
Protocol(o) ==
  IF cam[o].force \/ Kind[cam[o].mac] = "doorbell" THEN "webrtc"
  ELSE IF Kind[cam[o].mac] = "gwell" THEN "gwell" ELSE "tutk"

TutkSource(o) == [proto |-> "tutk", qual |-> cam[o].qual]
SourceFor(o)  == IF Protocol(o) = "tutk" THEN TutkSource(o)
                 ELSE [proto |-> Protocol(o), qual |-> Nil]

-----------------------------------------------------------------------------
(* Control.                                                                *)

Goto(p, label) == pc' = [pc EXCEPT ![p] = label]

\* The operation of p returns; HealthCheck goes on to its next camera.
Finish(p) ==
  IF loc[p].cmd = "health"
  THEN Goto(p, "check") /\ loc' = [loc EXCEPT ![p] = [NoLoc EXCEPT !.cmd = "health"]]
  ELSE Goto(p, "idle") /\ loc' = [loc EXCEPT ![p] = NoLoc]

\* Where the caller of changeState goes on.
Return(p) ==
  CASE loc[p].goal = "Connecting" -> Goto(p, "source") /\ UNCHANGED loc
    [] loc[p].goal = "Offline" /\ loc[p].cmd \in {"restart", "start"} ->
         Goto(p, "read") /\ loc' = [loc EXCEPT ![p].goal = "Connecting"]
    [] loc[p].goal = "Offline" /\ loc[p].cmd \in {"boot", "refresh", "rediscover"} ->
         Goto(p, "mark") /\ loc' = [loc EXCEPT ![p].obj = Nil]
    [] OTHER -> Finish(p)

\* (mutant) Error is not left by changeState.
ChangeReadSticky(p) ==
  /\ pc[p] = "read"
  /\ LET s == cam[loc[p].obj].state IN
       \/ s \in {loc[p].goal, "Error"} /\ Return(p)
       \/ s \notin {loc[p].goal, "Error"} /\ Goto(p, "set") /\ loc' = [loc EXCEPT ![p].old = s]
  /\ UNCHANGED <<cloud, objVars, bootVars, go2rtc, ownerVars, observers>>

\* changeState: GetState, and the early return when nothing changes.
ChangeRead(p) ==
  /\ pc[p] = "read"
  /\ LET s == cam[loc[p].obj].state IN
       \/ s = loc[p].goal /\ Return(p)
       \/ s # loc[p].goal /\ Goto(p, "set") /\ loc' = [loc EXCEPT ![p].old = s]
  /\ UNCHANGED <<cloud, objVars, bootVars, go2rtc, ownerVars, observers>>

\* (mutant) Every change of state clears the chronic error, and takes the lock.
ChangeSetClears(p) ==
  /\ pc[p] = "set"
  /\ cam' = [cam EXCEPT ![loc[p].obj].state = loc[p].goal]
  /\ Goto(p, "clear")
  /\ UNCHANGED <<cloud, registry, chronic, mu, bootVars, go2rtc, ownerVars, loc,
                 observers>>

\* changeState: SetState, which resets both failure counters on Streaming.
ChangeSet(p) ==
  /\ pc[p] = "set"
  /\ \/ /\ loc[p].goal = "Streaming"
        /\ cam' = [cam EXCEPT ![loc[p].obj].state = "Streaming",
                              ![loc[p].obj].errors = 0, ![loc[p].obj].streak = 0]
        /\ Goto(p, "clear")
     \/ /\ loc[p].goal # "Streaming"
        /\ cam' = [cam EXCEPT ![loc[p].obj].state = loc[p].goal]
        /\ Goto(p, "notify")
  /\ UNCHANGED <<cloud, registry, chronic, mu, bootVars, go2rtc, ownerVars, loc,
                 observers>>

\* clearChronic, under the lock ...
ClearChronic(p) ==
  /\ pc[p] = "clear"
  /\ mu = Nil
  /\ LET n == cam[loc[p].obj].name IN
       /\ chronic' = [chronic EXCEPT ![n] = FALSE]
       /\ Goto(p, IF chronic[n] THEN "recover" ELSE "notify")
  /\ UNCHANGED <<cloud, cam, registry, mu, bootVars, go2rtc, ownerVars, loc,
                 observers>>

\* ... and its callback, after the unlock: the issue is resolved.
Recover(p) ==
  /\ pc[p] = "recover"
  /\ LET n == cam[loc[p].obj].name IN
       /\ issue' = [issue EXCEPT ![n] = FALSE]
       /\ alerts' = [alerts EXCEPT ![n] = @ - 1]
  /\ Goto(p, "notify")
  /\ UNCHANGED <<cloud, objVars, bootVars, go2rtc, ownerVars, loc, told, fired>>

Tell(o, s) == told' = IF wired THEN [told EXCEPT ![cam[o].name] = s] ELSE told

\* changeState: the onChange callback, in the caller's goroutine.
Notify(p) ==
  /\ pc[p] = "notify"
  /\ Tell(loc[p].obj, loc[p].goal)
  /\ Return(p)
  /\ UNCHANGED <<cloud, objVars, bootVars, go2rtc, ownerVars, issue, alerts, fired>>

-----------------------------------------------------------------------------
(* connectCamera, after changeState(StateConnecting).                      *)

\* No go2rtc client: give up.  Otherwise pick the source; a publish-only slot
\* is not deleted first.
PickSource(p) ==
  /\ pc[p] = "source"
  /\ \/ ~attached /\ Finish(p)
     \/ /\ attached
        /\ loc' = [loc EXCEPT ![p].src = SourceFor(loc[p].obj)]
        /\ Goto(p, IF Protocol(loc[p].obj) = "gwell" THEN "add" ELSE "delete")
  /\ UNCHANGED <<cloud, objVars, bootVars, go2rtc, ownerVars, observers>>

\* DELETE /api/streams; every caller discards the error.
DeleteStream(n) ==
  \/ stream' = [stream EXCEPT ![n] = NoStream] /\ dead' = dead \ {n}
  \/ DeleteMayFail /\ UNCHANGED go2rtc

\* SetQuality builds its URL when it calls AddStream, and always a wyze:// one.
DeleteFirst(p) ==
  /\ pc[p] = "delete"
  /\ DeleteStream(cam[loc[p].obj].name)
  /\ loc' = IF loc[p].cmd = "quality"
            THEN [loc EXCEPT ![p].src = TutkSource(loc[p].obj)] ELSE loc
  /\ Goto(p, "add")
  /\ UNCHANGED <<cloud, objVars, bootVars, ownerVars, observers>>

\* PUT /api/streams creates or overwrites the entry.
PutStream(p) ==
  LET n == cam[loc[p].obj].name IN
    stream' = [stream EXCEPT ![n] = loc[p].src] /\ dead' = dead \ {n}

AddStream(p) ==
  /\ pc[p] = "add"
  /\ PutStream(p)
  /\ \/ loc[p].cmd = "quality" /\ Finish(p)
     \/ /\ loc[p].cmd # "quality"
        /\ Goto(p, "read") /\ loc' = [loc EXCEPT ![p].goal = "Streaming"]
  /\ UNCHANGED <<cloud, objVars, bootVars, ownerVars, observers>>

\* (mutant) The error is returned and nothing recorded.
AddStreamFailsQuietly(p) ==
  /\ pc[p] = "add"
  /\ cam[loc[p].obj].errors < MaxErrors
  /\ UNCHANGED go2rtc
  /\ Finish(p)
  /\ UNCHANGED <<cloud, objVars, bootVars, ownerVars, observers>>

\* An error, or a timeout after go2rtc applied the request.
AddStreamFails(p) ==
  /\ pc[p] = "add"
  /\ cam[loc[p].obj].errors < MaxErrors
  /\ UNCHANGED go2rtc \/ PutStream(p)
  /\ \/ loc[p].cmd = "quality" /\ Finish(p)
     \/ loc[p].cmd # "quality" /\ Goto(p, "fail") /\ UNCHANGED loc
  /\ UNCHANGED <<cloud, objVars, bootVars, ownerVars, observers>>

-----------------------------------------------------------------------------
(* The failure path shared by connectCamera and HealthCheck.               *)

\* IncrementError.  Only HealthCheck calls onChange for this transition.
IncrementError(p) ==
  /\ pc[p] = "fail"
  /\ cam' = [cam EXCEPT ![loc[p].obj].errors = @ + 1, ![loc[p].obj].state = "Error"]
  /\ Goto(p, IF loc[p].cmd = "health" /\ loc[p].old # "Error" THEN "lost" ELSE "count")
  /\ UNCHANGED <<cloud, registry, chronic, mu, bootVars, go2rtc, ownerVars, loc,
                 observers>>

\* (mutant) A lost stream is not told.
NotifyLostSilent(p) ==
  /\ pc[p] = "lost"
  /\ Goto(p, "count")
  /\ UNCHANGED <<cloud, objVars, bootVars, go2rtc, ownerVars, loc, observers>>

NotifyLost(p) ==
  /\ pc[p] = "lost"
  /\ Tell(loc[p].obj, "Error")
  /\ Goto(p, "count")
  /\ UNCHANGED <<cloud, objVars, bootVars, go2rtc, ownerVars, loc, issue, alerts, fired>>

\* GetErrorCount, and the threshold test at the head of maybeReportChronic.
CountErrors(p) ==
  /\ pc[p] = "count"
  /\ Goto(p, IF cam[loc[p].obj].errors >= ChronicThreshold THEN "chronic" ELSE "protocol")
  /\ UNCHANGED <<cloud, objVars, bootVars, go2rtc, ownerVars, loc, observers>>

\* (mutant) Reports at every error past the threshold.
MarkChronicAlways(p) ==
  /\ pc[p] = "chronic"
  /\ mu = Nil
  /\ chronic' = [chronic EXCEPT ![cam[loc[p].obj].name] = TRUE]
  /\ Goto(p, "report")
  /\ UNCHANGED <<cloud, cam, registry, mu, bootVars, go2rtc, ownerVars, loc,
                 observers>>

\* maybeReportChronic, under the lock ...
MarkChronic(p) ==
  /\ pc[p] = "chronic"
  /\ mu = Nil
  /\ LET n == cam[loc[p].obj].name IN
       /\ chronic' = [chronic EXCEPT ![n] = TRUE]
       /\ Goto(p, IF chronic[n] THEN "protocol" ELSE "report")
  /\ UNCHANGED <<cloud, cam, registry, mu, bootVars, go2rtc, ownerVars, loc,
                 observers>>

\* ... and its callback, which looks the camera up (read lock) and reports.
ReportChronic(p) ==
  /\ pc[p] = "report"
  /\ mu = Nil
  /\ LET n == cam[loc[p].obj].name IN
       /\ issue' = [issue EXCEPT ![n] = TRUE]
       /\ alerts' = [alerts EXCEPT ![n] = @ + 1]
  /\ Goto(p, "protocol")
  /\ UNCHANGED <<cloud, objVars, bootVars, go2rtc, ownerVars, loc, told, fired>>

\* recordTUTKFailure: the early returns.  connectCamera passes the protocol it
\* tried, HealthCheck looks it up again.
CheckProtocol(p) ==
  /\ pc[p] = "protocol"
  /\ LET o == loc[p].obj
         tried == IF loc[p].cmd = "health" THEN Protocol(o) ELSE loc[p].src.proto
         counts == tried = "tutk" /\ FallbackThreshold > 0 /\ ~cam[o].force
     IN  \/ ~counts /\ Finish(p)
         \/ counts /\ Goto(p, "bump") /\ UNCHANGED loc
  /\ UNCHANGED <<cloud, objVars, bootVars, go2rtc, ownerVars, observers>>

\* IncrementTUTKFail
BumpStreak(p) ==
  /\ pc[p] = "bump"
  /\ LET o == loc[p].obj IN
       /\ cam' = [cam EXCEPT ![o].streak = @ + 1]
       /\ \/ cam[o].streak + 1 < FallbackThreshold /\ Finish(p)
          \/ cam[o].streak + 1 >= FallbackThreshold /\ Goto(p, "promote") /\ UNCHANGED loc
  /\ UNCHANGED <<cloud, registry, chronic, mu, bootVars, go2rtc, ownerVars, observers>>

\* (mutant) The result of SetForceWebRTC is ignored.
PromoteUnchecked(p) ==
  /\ pc[p] = "promote"
  /\ cam' = [cam EXCEPT ![loc[p].obj].force = TRUE]
  /\ Goto(p, "fallback") /\ UNCHANGED loc
  /\ UNCHANGED <<cloud, registry, chronic, mu, bootVars, go2rtc, ownerVars, observers>>

\* SetForceWebRTC(true): only the caller that changed the flag goes on.
Promote(p) ==
  /\ pc[p] = "promote"
  /\ LET o == loc[p].obj IN
       \/ cam[o].force /\ Finish(p) /\ UNCHANGED cam
       \/ /\ ~cam[o].force
          /\ cam' = [cam EXCEPT ![o].force = TRUE]
          /\ Goto(p, "fallback") /\ UNCHANGED loc
  /\ UNCHANGED <<cloud, registry, chronic, mu, bootVars, go2rtc, ownerVars, observers>>

\* ResetTUTKFail and the onProtocolFallback callback.
Fallback(p) ==
  /\ pc[p] = "fallback"
  /\ LET o == loc[p].obj IN
       /\ cam' = [cam EXCEPT ![o].streak = 0]
       /\ fired' = [fired EXCEPT ![o] = @ + 1]
  /\ Finish(p)
  /\ UNCHANGED <<cloud, registry, chronic, mu, bootVars, go2rtc, ownerVars,
                 told, issue, alerts>>

-----------------------------------------------------------------------------
(* Discover.                                                               *)

AfterDiscover(p) ==
  CASE loc[p].cmd = "boot"       -> Goto(p, "attach") /\ UNCHANGED loc
    [] loc[p].cmd = "refresh"    -> Goto(p, "gather") /\ UNCHANGED loc
    [] loc[p].cmd = "rediscover" -> Goto(p, "gather") /\ UNCHANGED loc

\* GetCameraList, before the lock is taken.  On an error the loop still runs
\* ConnectAll, runDiscover gives up, and main() goes on to start go2rtc.
Fetch(p) ==
  /\ pc[p] = "fetch"
  /\ \/ /\ found' = [found EXCEPT ![p] = cloud]
        /\ Goto(p, "apply") /\ UNCHANGED loc
     \/ /\ IF loc[p].cmd = "rediscover" THEN Finish(p) ELSE AfterDiscover(p)
        /\ UNCHANGED found
  /\ UNCHANGED <<cloud, objVars, bootVars, go2rtc, alive, todo, observers>>

\* (mutant) A rename is not looked for.
OrphansNone(listed, seen) == {}

\* reapRenameOrphans: entries whose MAC the list has under another name.
Orphans(listed, seen) ==
  {n \in Names \ seen : registry[n] # Nil /\ listed[cam[registry[n]].mac] # Nil}

\* (mutant) Their streams stay.
ReapedNone(orphans) == {{}}

\* The orphans whose stream go2rtc drops: its client may be missing, its errors
\* are discarded.
Reaped(orphans) == IF ~attached THEN {{}}
                   ELSE IF DeleteMayFail THEN SUBSET orphans ELSE {orphans}

\* Under the lock: update or create an entry per listed name (the last device
\* of that name wins), then reapRenameOrphans.
Apply(p) ==
  /\ pc[p] = "apply"
  /\ mu = Nil
  /\ LET listed == found[p]
         seen   == {listed[d] : d \in Devices} \ {Nil}
         fresh  == {n \in seen : registry[n] = Nil}
         orphans == Orphans(listed, seen)
     IN \E last \in {f \in [seen -> Devices] : \A n \in seen : listed[f[n]] = n},
           new \in {f \in [fresh -> Free] : \A m, n \in fresh : f[m] = f[n] => m = n},
           gone \in Reaped(orphans) :
          /\ registry' = [n \in Names |-> IF n \in fresh THEN new[n]
                                          ELSE IF n \in orphans THEN Nil ELSE registry[n]]
          /\ cam' = [o \in Objects |->
               IF \E n \in fresh : new[n] = o
               THEN LET n == CHOOSE n \in fresh : new[n] = o IN NewCamera(n, last[n])
               ELSE IF Registered(o) /\ cam[o].name \in seen
               THEN [cam[o] EXCEPT !.mac = last[cam[o].name]] ELSE cam[o]]
          /\ fired' = [o \in Objects |-> IF \E n \in fresh : new[n] = o THEN 0 ELSE fired[o]]
          /\ stream' = [n \in Names |-> IF n \in gone THEN NoStream ELSE stream[n]]
          /\ dead' = dead \ gone
          /\ todo' = [todo EXCEPT ![p] =
               {registry[n] : n \in {m \in Names \ (seen \cup orphans) : registry[m] # Nil}}]
  /\ mu' = p
  /\ found' = [found EXCEPT ![p] = [d \in Devices |-> Nil]]
  /\ Goto(p, "mark")
  /\ UNCHANGED <<cloud, chronic, bootVars, alive, loc, told, issue, alerts>>

\* Still under the lock: changeState(Offline) for what is no longer listed.
MarkOffline(p) ==
  /\ pc[p] = "mark"
  /\ \E o \in todo[p] :
       /\ todo' = [todo EXCEPT ![p] = @ \ {o}]
       /\ \/ cam[o].state = "Offline" /\ UNCHANGED <<pc, loc>>
          \/ /\ cam[o].state # "Offline"
             /\ Goto(p, "read")
             /\ loc' = [loc EXCEPT ![p].obj = o, ![p].goal = "Offline"]
  /\ UNCHANGED <<cloud, objVars, bootVars, go2rtc, alive, found, observers>>

Unlock(p) ==
  /\ pc[p] = "mark"
  /\ todo[p] = {}
  /\ mu' = Nil
  /\ AfterDiscover(p)
  /\ UNCHANGED <<cloud, cam, registry, chronic, bootVars, go2rtc, ownerVars, observers>>

-----------------------------------------------------------------------------
(* ConnectAll and reconnectErrored: one goroutine per camera, then Wait.   *)

Spawn(p, S) ==
  /\ todo' = [todo EXCEPT ![p] = S]
  /\ pc' = [q \in Proc |-> IF q \in {<<p, o>> : o \in S} THEN "read"
                           ELSE IF q = p THEN "wait" ELSE pc[q]]
  /\ loc' = [q \in Proc |-> IF q \in {<<p, o>> : o \in S}
                            THEN [NoLoc EXCEPT !.cmd = "connect", !.obj = q[2],
                                               !.goal = "Connecting"]
                            ELSE loc[q]]

ConnectAll(p) ==
  /\ pc[p] = "gather"
  /\ mu = Nil
  /\ LET S == {o \in RegisteredObjects : cam[o].state \in {"Offline", "Error"}} IN
       \/ S # {} /\ Spawn(p, S)
       \/ S = {} /\ Finish(p) /\ UNCHANGED todo
  /\ UNCHANGED <<cloud, objVars, bootVars, go2rtc, alive, found, observers>>

\* S: the errored cameras whose backoff has elapsed.
ReconnectErrored(S) ==
  /\ pc[Loop] = "idle"
  /\ mu = Nil
  /\ S # {}
  /\ \A o \in S : Registered(o) /\ cam[o].state = "Error"
  /\ Spawn(Loop, S)
  /\ UNCHANGED <<cloud, objVars, bootVars, go2rtc, alive, found, observers>>

Wait(p) ==
  /\ pc[p] = "wait"
  /\ \A o \in todo[p] : pc[<<p, o>>] = "idle"
  /\ todo' = [todo EXCEPT ![p] = {}]
  /\ Finish(p)
  /\ UNCHANGED <<cloud, objVars, bootVars, go2rtc, alive, found, observers>>

-----------------------------------------------------------------------------
(* main() and RunDiscoveryLoop.                                            *)

Attach ==
  /\ pc[Loop] = "attach"
  /\ attached' = TRUE
  /\ Goto(Loop, "wire")
  /\ UNCHANGED <<cloud, objVars, wired, go2rtc, ownerVars, loc, observers>>

StartFetch(p, c) == Goto(p, "fetch") /\ loc' = [loc EXCEPT ![p].cmd = c]

Wire ==
  /\ pc[Loop] = "wire"
  /\ wired' = TRUE
  /\ StartFetch(Loop, "refresh")
  /\ UNCHANGED <<cloud, objVars, attached, go2rtc, ownerVars, observers>>

Refresh ==
  /\ pc[Loop] = "idle"
  /\ StartFetch(Loop, "refresh")
  /\ UNCHANGED <<cloud, objVars, bootVars, go2rtc, ownerVars, observers>>

\* (mutant) An entry in the stream table is enough.
HealthCheckEntries ==
  /\ pc[Loop] = "idle"
  /\ alive' = {n \in Names : stream[n] # NoStream}
  /\ Goto(Loop, "cams")
  /\ loc' = [loc EXCEPT ![Loop].cmd = "health"]
  /\ UNCHANGED <<cloud, objVars, bootVars, go2rtc, found, todo, observers>>

\* HealthCheck: ListStreams, before the registry is read.
HealthCheck ==
  /\ pc[Loop] = "idle"
  /\ alive' = {n \in Names : stream[n] # NoStream} \ dead
  /\ Goto(Loop, "cams")
  /\ loc' = [loc EXCEPT ![Loop].cmd = "health"]
  /\ UNCHANGED <<cloud, objVars, bootVars, go2rtc, found, todo, observers>>

HealthCams ==
  /\ pc[Loop] = "cams"
  /\ mu = Nil
  /\ todo' = [todo EXCEPT ![Loop] = RegisteredObjects]
  /\ Goto(Loop, "check")
  /\ UNCHANGED <<cloud, objVars, bootVars, go2rtc, alive, found, loc, observers>>

\* One camera: skipped unless Streaming, of the TUTK family and not listed.
HealthVisit ==
  /\ pc[Loop] = "check"
  /\ \E o \in todo[Loop] :
       /\ todo' = [todo EXCEPT ![Loop] = @ \ {o}]
       /\ LET lost == /\ cam[o].state = "Streaming"
                      /\ Kind[cam[o].mac] = "tutk"
                      /\ cam[o].name \notin alive
          IN  \/ ~lost /\ UNCHANGED <<pc, loc>>
              \/ lost /\ Goto(Loop, "hold") /\ loc' = [loc EXCEPT ![Loop].obj = o]
  /\ UNCHANGED <<cloud, objVars, bootVars, go2rtc, alive, found, observers>>

\* The state is read a second time for the callback.
HealthHold ==
  /\ pc[Loop] = "hold"
  /\ loc' = [loc EXCEPT ![Loop].old = cam[loc[Loop].obj].state]
  /\ Goto(Loop, "fail")
  /\ UNCHANGED <<cloud, objVars, bootVars, go2rtc, ownerVars, observers>>

HealthDone ==
  /\ pc[Loop] = "check"
  /\ todo[Loop] = {}
  /\ alive' = {}
  /\ Goto(Loop, "idle") /\ loc' = [loc EXCEPT ![Loop] = NoLoc]
  /\ UNCHANGED <<cloud, objVars, bootVars, go2rtc, found, todo, observers>>

-----------------------------------------------------------------------------
(* Commands.  GetCamera takes the read lock; an unknown name is a no-op.   *)

Begin(u, c, o, label) ==
  /\ Goto(u, label)
  /\ loc' = [loc EXCEPT ![u] = [NoLoc EXCEPT !.cmd = c, !.obj = o]]

Callable(u, o) == pc[u] = "idle" /\ mu = Nil /\ o \in RegisteredObjects

\* The REST restart exists before go2rtc is attached; MQTT connects after.
RestartStream(u, o) ==
  /\ "restart" \in Commands
  /\ Callable(u, o)
  /\ attached \/ EarlyCommands
  /\ Begin(u, "restart", o, IF attached THEN "drop" ELSE "read")
  /\ UNCHANGED <<cloud, objVars, bootVars, go2rtc, ownerVars, observers>>

StartStream(u, o) ==
  /\ "start" \in Commands
  /\ Callable(u, o)
  /\ attached
  /\ cam[o].state # "Streaming"
  /\ Begin(u, "start", o, "read")
  /\ UNCHANGED <<cloud, objVars, bootVars, go2rtc, ownerVars, observers>>

StopStream(u, o) ==
  /\ "stop" \in Commands
  /\ Callable(u, o)
  /\ attached
  /\ Begin(u, "stop", o, "drop")
  /\ UNCHANGED <<cloud, objVars, bootVars, go2rtc, ownerVars, observers>>

SetQuality(u, o, q) ==
  /\ "quality" \in Commands
  /\ Callable(u, o)
  /\ attached \/ EarlyCommands
  /\ cam' = [cam EXCEPT ![o].qual = q]
  /\ \/ attached /\ Begin(u, "quality", o, "delete")
     \/ ~attached /\ UNCHANGED <<pc, loc>>
  /\ UNCHANGED <<cloud, registry, chronic, mu, bootVars, go2rtc, ownerVars, observers>>

\* RestartStream and StopStream delete before they change the state.
DropStream(p) ==
  /\ pc[p] = "drop"
  /\ DeleteStream(cam[loc[p].obj].name)
  /\ Goto(p, "read")
  /\ UNCHANGED <<cloud, objVars, bootVars, ownerVars, loc, observers>>

\* runDiscover, from the WebUI or MQTT; hooked up after the callbacks are.
Rediscover(u) ==
  /\ "rediscover" \in Commands
  /\ pc[u] = "idle"
  /\ wired
  /\ StartFetch(u, "rediscover")
  /\ UNCHANGED <<cloud, objVars, bootVars, go2rtc, ownerVars, observers>>

-----------------------------------------------------------------------------
(* The environment: the Wyze account and go2rtc's producers.               *)

CloudChange(c) ==
  /\ c # cloud
  /\ cloud' = c
  /\ UNCHANGED <<objVars, bootVars, go2rtc, ownerVars, pc, loc, observers>>

ProducerDies(n) ==
  /\ stream[n] # NoStream
  /\ n \notin dead
  /\ dead' = dead \cup {n}
  /\ UNCHANGED <<cloud, objVars, bootVars, stream, ownerVars, pc, loc, observers>>

-----------------------------------------------------------------------------
Init ==
  /\ cloud \in Accounts
  /\ registry = [n \in Names |-> Nil]
  /\ cam = [o \in Objects |-> NewCamera(Nil, Nil)]
  /\ chronic = [n \in Names |-> FALSE]
  /\ mu = Nil
  /\ attached = FALSE
  /\ wired = FALSE
  /\ stream = [n \in Names |-> NoStream]
  /\ dead = {}
  /\ alive = {}
  /\ found = [p \in Owners |-> [d \in Devices |-> Nil]]
  /\ todo = [p \in Owners |-> {}]
  /\ pc = [p \in Proc |-> IF p = Loop THEN "fetch" ELSE "idle"]
  /\ loc = [p \in Proc |-> IF p = Loop THEN [NoLoc EXCEPT !.cmd = "boot"] ELSE NoLoc]
  /\ told = [n \in Names |-> "Offline"]
  /\ issue = [n \in Names |-> FALSE]
  /\ alerts = [n \in Names |-> 0]
  /\ fired = [o \in Objects |-> 0]

\* The next step of a process that is inside an operation on a camera.
CameraStep(p) ==
  \/ ChangeRead(p) \/ ChangeSet(p) \/ ClearChronic(p) \/ Recover(p) \/ Notify(p)
  \/ PickSource(p) \/ DeleteFirst(p) \/ AddStream(p) \/ AddStreamFails(p)
  \/ IncrementError(p) \/ NotifyLost(p) \/ CountErrors(p) \/ MarkChronic(p)
  \/ ReportChronic(p) \/ CheckProtocol(p) \/ BumpStreak(p) \/ Promote(p)
  \/ Fallback(p) \/ DropStream(p)

OwnerStep(p) ==
  \/ Fetch(p) \/ Apply(p) \/ MarkOffline(p) \/ Unlock(p) \/ ConnectAll(p) \/ Wait(p)

LoopStep == Attach \/ Wire \/ HealthCams \/ HealthVisit \/ HealthHold \/ HealthDone

Command(u) ==
  \/ \E o \in Objects : RestartStream(u, o) \/ StartStream(u, o) \/ StopStream(u, o)
  \/ \E o \in Objects, q \in Quality : SetQuality(u, o, q)
  \/ Rediscover(u)

Next ==
  \/ \E p \in Proc : CameraStep(p)
  \/ \E p \in Owners : OwnerStep(p)
  \/ LoopStep \/ Refresh \/ HealthCheck
  \/ \E S \in SUBSET Objects : ReconnectErrored(S)
  \/ \E u \in Users : Command(u)
  \/ \E c \in Accounts : CloudChange(c)
  \/ \E n \in Names : ProducerDies(n)

Spec == Init /\ [][Next]_vars
-----------------------------------------------------------------------------
(* Scheduling.  A goroutine inside an operation is always resumed, and the
   lock it waits for is a sync.RWMutex, which starves nobody: strong fairness.
   Go's select picks among ready tickers at random, so no branch of the loop is
   passed over for ever, and every backoff elapses.  Nothing is assumed of the
   users, of the Wyze account or of go2rtc, except that an error path is never
   the only one taken (AddStreamFails shares its fairness with AddStream).  *)

Step(p) == \/ CameraStep(p)
           \/ p \in Owners /\ OwnerStep(p)
           \/ p = Loop /\ LoopStep

ProcFairness == \A p \in Proc : SF_vars(Step(p))

LoopFairness == /\ SF_vars(Refresh)
                /\ SF_vars(HealthCheck)
                /\ \A o \in Objects :
                     SF_vars(\E S \in SUBSET Objects : o \in S /\ ReconnectErrored(S))

FairSpec == Spec /\ ProcFairness /\ LoopFairness

-----------------------------------------------------------------------------
(* Type correctness.                                                       *)

TypeOK ==
  /\ cloud \in [Devices -> Names \cup {Nil}]
  /\ registry \in [Names -> Objects \cup {Nil}]
  /\ cam \in [Objects -> Camera]
  /\ chronic \in [Names -> BOOLEAN]
  /\ mu \in Owners \cup {Nil}
  /\ attached \in BOOLEAN
  /\ wired \in BOOLEAN
  /\ stream \in [Names -> Source]
  /\ dead \in SUBSET Names
  /\ alive \in SUBSET Names
  /\ found \in [Owners -> [Devices -> Names \cup {Nil}]]
  /\ todo \in [Owners -> SUBSET Objects]
  /\ pc \in [Proc -> Labels]
  /\ loc \in [Proc -> Local]
  /\ told \in [Names -> States]
  /\ issue \in [Names -> BOOLEAN]
  /\ alerts \in [Names -> Int]
  /\ fired \in [Objects -> Nat]

-----------------------------------------------------------------------------
(* Properties.                                                             *)

AtRest == \A p \in Proc : pc[p] = "idle"

(* Two names never stand for one physical camera: however renames, name clashes
   and concurrent discoveries with outdated lists follow each other,
   reapRenameOrphans leaves at most one entry with a given MAC.             *)
OneEntryPerDevice ==
  \A m, n \in Names :
    /\ registry[m] # Nil /\ registry[n] # Nil
    /\ cam[registry[m]].mac = cam[registry[n]].mac
    => m = n

(* A process that will move object o out of Connecting. *)
Resolves(p, o) ==
  /\ loc[p].obj = o
  /\ \/ pc[p] = "notify" /\ loc[p].goal = "Connecting"
     \/ pc[p] \in {"source", "delete", "add", "fail"} /\ loc[p].cmd # "quality"
     \/ pc[p] \in {"read", "set"} /\ loc[p].goal = "Streaming"

(* A camera is in Connecting only while some goroutine is inside connectCamera
   for it and will give a verdict: no interleaving of restarts, stops, health
   checks and discoveries strands it in a state no ticker of RunDiscoveryLoop
   picks up (ConnectAll takes Offline and Error, reconnectErrored Error).   *)
NeverStuckConnecting ==
  \A o \in Objects : cam[o].state = "Connecting" => \E p \in Proc : Resolves(p, o)

(* onProtocolFallback fires at most once for a camera object, and only for one
   that has been pinned to WebRTC, even when several failures of it cross the
   threshold concurrently.                                                 *)
FallbackOnce ==
  \A o \in Objects : fired[o] <= 1 /\ (fired[o] = 1 => cam[o].force)

Reporting(n)  == {p \in Proc : pc[p] = "report" /\ cam[loc[p].obj].name = n}
Recovering(n) == {p \in Proc : pc[p] = "recover" /\ cam[loc[p].obj].name = n}

(* "Each event fires at most once per crossing": counting the callbacks still
   under way, the error reports of a name exceed its recoveries by one exactly
   while chronicReported holds, whoever reports and clears concurrently.    *)
AlertsBalance ==
  \A n \in Names :
    alerts[n] + Cardinality(Reporting(n)) - Cardinality(Recovering(n))
      = IF chronic[n] THEN 1 ELSE 0

(* Between operations, a camera reported Streaming has a stream in go2rtc, and
   once promoted it is a WebRTC one.                                       *)
StreamingHasStream ==
  AtRest => \A n \in Names :
    registry[n] # Nil /\ cam[registry[n]].state = "Streaming" =>
      /\ stream[n] # NoStream
      /\ cam[registry[n]].force => stream[n].proto = "webrtc"

(* Between operations, go2rtc serves no name the registry has dropped. *)
NoGhostStreams ==
  AtRest => \A n \in Names : registry[n] = Nil => stream[n] = NoStream

(* Between operations, nobody who listens to state changes believes a camera
   of the registry to be Streaming when it is not.                         *)
ToldStreamingIsStreaming ==
  AtRest => \A n \in Names :
    told[n] = "Streaming" /\ registry[n] # Nil => cam[registry[n]].state = "Streaming"

(* README.md:492: the chronic issue is cleared when the camera next reaches
   streaming, so no camera that streams carries one between operations.    *)
StreamingClearsChronicIssue ==
  AtRest => \A n \in Names :
    registry[n] # Nil /\ cam[registry[n]].state = "Streaming" => ~issue[n]

(* An errored camera of the registry is always tried again. *)
ErroredIsRetried ==
  \A o \in Objects :
    (Registered(o) /\ cam[o].state = "Error")
      ~> ~(Registered(o) /\ cam[o].state = "Error")

Dark(o) == /\ Registered(o) /\ cam[o].state = "Streaming"
           /\ stream[cam[o].name] = NoStream \/ cam[o].name \in dead

(* DOCS/DESIGN.md:345: a camera expected to be streaming but without an active
   producer transitions to reconnecting.                                   *)
DarkStreamIsNoticed == \A o \in Objects : Dark(o) ~> ~Dark(o)

(* Every command returns: no handler waits for ever, in particular not for the
   lock Discover holds while it calls back.                                *)
CommandsReturn == \A u \in Users : pc[u] # "idle" ~> pc[u] = "idle"
=============================================================================
