------------------------ MODULE CameraManagerProofs ------------------------
(***************************************************************************)
(* What holds of the camera manager for any number of devices, names,      *)
(* camera objects and handlers, whatever the account lists and whichever   *)
(* commands are given.                                                     *)
(***************************************************************************)
EXTENDS CameraManager, FiniteSetTheorems, TLAPS

-----------------------------------------------------------------------------
(* Control: where a process is tells what its locals hold.                 *)

\* Labels inside an operation on a camera.
CamLabels == {"hold", "drop", "read", "set", "clear", "recover", "notify", "source",
              "delete", "add", "fail", "lost", "count", "chronic", "report",
              "protocol", "bump", "promote", "fallback"}
DiscoverLabels == {"fetch", "apply", "mark"}
DiscoverCmds   == {"boot", "refresh", "rediscover"}

ControlInv ==
  \A p \in Proc :
    /\ pc[p] \in CamLabels => loc[p].obj \in Objects
    /\ pc[p] \in DiscoverLabels => loc[p].cmd \in DiscoverCmds

\* p moves on and nobody else does.
Advance(p) ==
  /\ pc' \in [Proc -> Labels]
  /\ loc' \in [Proc -> Local]
  /\ \A q \in Proc \ {p} : pc'[q] = pc[q] /\ loc'[q] = loc[q]
  /\ pc'[p] \in CamLabels => loc'[p].obj \in Objects
  /\ pc'[p] \in DiscoverLabels => loc'[p].cmd \in DiscoverCmds
  /\ pc'[p] = "fallback" => pc[p] = "promote" /\ loc'[p].obj = loc[p].obj

\* p starts a goroutine for each camera of S.
Spawned(p, S) ==
  /\ pc' \in [Proc -> Labels]
  /\ loc' \in [Proc -> Local]
  /\ \A q \in Proc : \/ q \in {<<p, o>> : o \in S} /\ pc'[q] = "read" /\ loc'[q].obj \in Objects
                     \/ q = p /\ pc'[q] = "wait"
                     \/ pc'[q] = pc[q] /\ loc'[q] = loc[q]

USE ConstantsAssumption

LEMMA LocalFacts ==
  /\ NoLoc \in Local
  /\ \A l \in Local : /\ \A o \in Objects \cup {Nil} : [l EXCEPT !.obj = o] \in Local
                      /\ \A s \in States : /\ [l EXCEPT !.goal = s] \in Local
                                           /\ [l EXCEPT !.old = s] \in Local
                      /\ \A c \in Cmds : [l EXCEPT !.cmd = c] \in Local
                      /\ \A s \in Source : [l EXCEPT !.src = s] \in Local
  BY DEF NoLoc, Local, Cmds, States, NoStream, Source, Protocols

LEMMA SetCmd ==
  ASSUME TypeOK, NEW p \in Proc, NEW c \in Cmds
  PROVE  /\ [loc EXCEPT ![p].cmd = c] \in [Proc -> Local]
         /\ [loc EXCEPT ![p].cmd = c][p].cmd = c
<1>1. [loc[p] EXCEPT !.cmd = c] \in Local
  BY LocalFacts DEF TypeOK
<1>2. [loc[p] EXCEPT !.cmd = c].cmd = c
  BY DEF TypeOK, Local
<1> QED
  BY <1>1, <1>2 DEF TypeOK

LEMMA SetObj ==
  ASSUME TypeOK, NEW p \in Proc, NEW o \in Objects
  PROVE  /\ [loc EXCEPT ![p].obj = o] \in [Proc -> Local]
         /\ [loc EXCEPT ![p].obj = o][p].obj = o
<1>1. [loc[p] EXCEPT !.obj = o] \in Local
  BY LocalFacts DEF TypeOK
<1>2. [loc[p] EXCEPT !.obj = o].obj = o
  BY DEF TypeOK, Local
<1> QED
  BY <1>1, <1>2 DEF TypeOK

(* Finish ends the operation of p; HealthCheck goes on. *)
LEMMA FinishAdvances ==
  ASSUME TypeOK, NEW p \in Proc, Finish(p)
  PROVE  Advance(p) /\ pc'[p] \in {"check", "idle"}
<1>1. [NoLoc EXCEPT !.cmd = "health"] \in Local
  BY LocalFacts DEF Cmds
<1>2. NoLoc \in Local
  BY LocalFacts
<1>3. PICK l \in {"check", "idle"}, v \in Local :
         pc' = [pc EXCEPT ![p] = l] /\ loc' = [loc EXCEPT ![p] = v]
  BY <1>1, <1>2 DEF Finish, Goto
<1> QED
  BY <1>3 DEF TypeOK, Advance, Labels, CamLabels, DiscoverLabels

(* Goto with the same locals, to a label of the same operation. *)
LEMMA GotoAdvances ==
  ASSUME TypeOK, ControlInv, NEW p \in Proc, pc[p] \in CamLabels,
         NEW l \in CamLabels \ {"fallback"}, Goto(p, l), UNCHANGED loc
  PROVE  Advance(p)
  BY DEF TypeOK, ControlInv, Advance, Goto, Labels, CamLabels, DiscoverLabels

(* Return from changeState. *)
LEMMA ReturnAdvances ==
  ASSUME TypeOK, ControlInv, NEW p \in Proc, pc[p] \in CamLabels, Return(p)
  PROVE  Advance(p)
<1>1. CASE loc[p].goal = "Connecting"
  <2>1. Goto(p, "source") /\ UNCHANGED loc
    BY <1>1 DEF Return
  <2> QED BY <2>1, GotoAdvances DEF CamLabels
<1>2. CASE loc[p].goal = "Offline" /\ loc[p].cmd \in {"restart", "start"}
  <2>1. Goto(p, "read") /\ loc' = [loc EXCEPT ![p].goal = "Connecting"]
    BY <1>2 DEF Return, DiscoverCmds
  <2>2. [loc[p] EXCEPT !.goal = "Connecting"] \in Local
    BY LocalFacts DEF TypeOK, States
  <2>3. [loc[p] EXCEPT !.goal = "Connecting"].obj \in Objects
    BY DEF ControlInv, TypeOK, Local
  <2> QED BY <2>1, <2>2, <2>3 DEF TypeOK, Advance, Goto, Labels, CamLabels, DiscoverLabels
<1>3. CASE loc[p].goal = "Offline" /\ loc[p].cmd \in DiscoverCmds
  <2>1. Goto(p, "mark") /\ loc' = [loc EXCEPT ![p].obj = Nil]
    BY <1>3 DEF Return, DiscoverCmds
  <2>2. [loc[p] EXCEPT !.obj = Nil] \in Local
    BY LocalFacts DEF TypeOK
  <2>3. [loc[p] EXCEPT !.obj = Nil].cmd \in DiscoverCmds
    BY <1>3 DEF TypeOK, Local
  <2> QED BY <2>1, <2>2, <2>3 DEF TypeOK, Advance, Goto, Labels, CamLabels, DiscoverLabels
<1>4. CASE /\ loc[p].goal # "Connecting"
           /\ ~(loc[p].goal = "Offline" /\ loc[p].cmd \in {"restart", "start"})
           /\ ~(loc[p].goal = "Offline" /\ loc[p].cmd \in DiscoverCmds)
  <2>1. Finish(p)
    BY <1>4 DEF Return, DiscoverCmds
  <2> QED BY <2>1, FinishAdvances
<1> QED
  BY <1>1, <1>2, <1>3, <1>4

(* The source of a stream, and a camera in any of its states, have their types. *)
LEMMA SourceTypes ==
  ASSUME TypeOK, NEW o \in Objects
  PROVE  SourceFor(o) \in Source /\ TutkSource(o) \in Source
<1>1. cam[o].qual \in Quality
  BY DEF TypeOK, Camera
<1> QED
  BY <1>1 DEF SourceFor, TutkSource, Source, Protocol, Protocols

\* Where nobody else's control is concerned: one lemma per kind of step.
LEMMA CameraStepAdvances ==
  ASSUME TypeOK, ControlInv, NEW p \in Proc, CameraStep(p)
  PROVE  Advance(p)
<1>o. pc[p] \in CamLabels => loc[p].obj \in Objects
  BY DEF ControlInv
<1>1. CASE ChangeRead(p)
  <2>1. pc[p] \in CamLabels
    BY <1>1 DEF ChangeRead, CamLabels
  <2>2. CASE Return(p)
    BY <2>1, <2>2, ReturnAdvances
  <2>3. CASE Goto(p, "set") /\ loc' = [loc EXCEPT ![p].old = cam[loc[p].obj].state]
    <3>1. cam[loc[p].obj].state \in States
      BY <1>o, <2>1 DEF TypeOK, Camera
    <3>2. [loc[p] EXCEPT !.old = cam[loc[p].obj].state] \in Local
      BY <3>1, LocalFacts DEF TypeOK
    <3>3. [loc[p] EXCEPT !.old = cam[loc[p].obj].state].obj \in Objects
      BY <1>o, <2>1 DEF TypeOK, Local
    <3> QED BY <2>3, <3>2, <3>3 DEF TypeOK, Advance, Goto, Labels, CamLabels, DiscoverLabels
  <2> QED BY <1>1, <2>2, <2>3 DEF ChangeRead
<1>2. CASE ChangeSet(p)
  BY <1>2, GotoAdvances DEF ChangeSet, CamLabels
<1>3. CASE ClearChronic(p)
  BY <1>3, GotoAdvances DEF ClearChronic, CamLabels
<1>4. CASE Recover(p)
  BY <1>4, GotoAdvances DEF Recover, CamLabels
<1>5. CASE Notify(p)
  BY <1>5, ReturnAdvances DEF Notify, CamLabels
<1>6. CASE PickSource(p)
  <2>1. pc[p] \in CamLabels
    BY <1>6 DEF PickSource, CamLabels
  <2>2. CASE Finish(p)
    BY <2>2, FinishAdvances DEF CamLabels
  <2>3. CASE /\ loc' = [loc EXCEPT ![p].src = SourceFor(loc[p].obj)]
             /\ Goto(p, IF Protocol(loc[p].obj) = "gwell" THEN "add" ELSE "delete")
    <3>1. SourceFor(loc[p].obj) \in Source
      BY <1>o, <2>1, SourceTypes
    <3>2. [loc[p] EXCEPT !.src = SourceFor(loc[p].obj)] \in Local
      BY <3>1, LocalFacts DEF TypeOK
    <3>3. [loc[p] EXCEPT !.src = SourceFor(loc[p].obj)].obj \in Objects
      BY <1>o, <2>1 DEF TypeOK, Local
    <3> QED BY <2>3, <3>2, <3>3 DEF TypeOK, Advance, Goto, Labels, CamLabels, DiscoverLabels
  <2> QED BY <1>6, <2>2, <2>3 DEF PickSource
<1>7. CASE DeleteFirst(p)
  <2>1. pc[p] \in CamLabels /\ Goto(p, "add")
    BY <1>7 DEF DeleteFirst, CamLabels
  <2>2. CASE UNCHANGED loc
    BY <2>1, <2>2, GotoAdvances DEF CamLabels
  <2>3. CASE loc' = [loc EXCEPT ![p].src = TutkSource(loc[p].obj)]
    <3>1. TutkSource(loc[p].obj) \in Source
      BY <1>o, <2>1, SourceTypes
    <3>2. [loc[p] EXCEPT !.src = TutkSource(loc[p].obj)] \in Local
      BY <3>1, LocalFacts DEF TypeOK
    <3>3. [loc[p] EXCEPT !.src = TutkSource(loc[p].obj)].obj \in Objects
      BY <1>o, <2>1 DEF TypeOK, Local
    <3> QED BY <2>1, <2>3, <3>2, <3>3 DEF TypeOK, Advance, Goto, Labels, CamLabels, DiscoverLabels
  <2> QED BY <1>7, <2>2, <2>3 DEF DeleteFirst
<1>8. CASE AddStream(p)
  <2>1. pc[p] \in CamLabels
    BY <1>8 DEF AddStream, CamLabels
  <2>2. CASE Finish(p)
    BY <2>2, FinishAdvances DEF CamLabels
  <2>3. CASE Goto(p, "read") /\ loc' = [loc EXCEPT ![p].goal = "Streaming"]
    <3>1. [loc[p] EXCEPT !.goal = "Streaming"] \in Local
      BY LocalFacts DEF TypeOK, States
    <3>2. [loc[p] EXCEPT !.goal = "Streaming"].obj \in Objects
      BY <1>o, <2>1 DEF TypeOK, Local
    <3> QED BY <2>3, <3>1, <3>2 DEF TypeOK, Advance, Goto, Labels, CamLabels, DiscoverLabels
  <2> QED BY <1>8, <2>2, <2>3 DEF AddStream
<1>9. CASE AddStreamFails(p)
  BY <1>9, FinishAdvances, GotoAdvances DEF AddStreamFails, CamLabels
<1>10. CASE IncrementError(p)
  BY <1>10, GotoAdvances DEF IncrementError, CamLabels
<1>11. CASE NotifyLost(p)
  BY <1>11, GotoAdvances DEF NotifyLost, CamLabels
<1>12. CASE CountErrors(p)
  BY <1>12, GotoAdvances DEF CountErrors, CamLabels
<1>13. CASE MarkChronic(p)
  BY <1>13, GotoAdvances DEF MarkChronic, CamLabels
<1>14. CASE ReportChronic(p)
  BY <1>14, GotoAdvances DEF ReportChronic, CamLabels
<1>15. CASE CheckProtocol(p)
  BY <1>15, FinishAdvances, GotoAdvances DEF CheckProtocol, CamLabels
<1>16. CASE BumpStreak(p)
  BY <1>16, FinishAdvances, GotoAdvances DEF BumpStreak, CamLabels
<1>17. CASE Promote(p)
  <2>1. pc[p] = "promote"
    BY <1>17 DEF Promote
  <2>2. CASE Finish(p)
    BY <2>2, FinishAdvances DEF CamLabels
  <2>3. CASE Goto(p, "fallback") /\ UNCHANGED loc
    BY <1>o, <2>1, <2>3 DEF TypeOK, Advance, Goto, Labels, CamLabels, DiscoverLabels
  <2> QED BY <1>17, <2>2, <2>3 DEF Promote
<1>18. CASE Fallback(p)
  BY <1>18, FinishAdvances DEF Fallback, CamLabels
<1>19. CASE DropStream(p)
  BY <1>19, GotoAdvances DEF DropStream, CamLabels
<1> QED
  BY <1>1, <1>2, <1>3, <1>4, <1>5, <1>6, <1>7, <1>8, <1>9, <1>10, <1>11, <1>12, <1>13,
     <1>14, <1>15, <1>16, <1>17, <1>18, <1>19 DEF CameraStep

LEMMA SpawnSpawns ==
  ASSUME TypeOK, NEW p \in Owners, NEW S \in SUBSET Objects, Spawn(p, S)
  PROVE  Spawned(p, S)
<1> DEFINE v(q) == [NoLoc EXCEPT !.cmd = "connect", !.obj = q[2], !.goal = "Connecting"]
<1>1. \A o \in Objects : v(<<p, o>>) \in Local /\ v(<<p, o>>).obj = o
  BY DEF NoLoc, Local, Cmds, States, NoStream, Source, Protocols
<1>2. pc' \in [Proc -> Labels]
  BY DEF Spawn, TypeOK, Labels
<1> DEFINE W == {<<p, o>> : o \in S}
<1>3. ASSUME NEW q \in W PROVE v(q) \in Local /\ v(q).obj \in Objects
  <2> PICK o \in S : q = <<p, o>>
    OBVIOUS
  <2> o \in Objects
    OBVIOUS
  <2> QED BY <1>1
<1> HIDE DEF v
<1>4. loc' = [q \in Proc |-> IF q \in W THEN v(q) ELSE loc[q]]
  BY DEF Spawn, v
<1>5. loc' \in [Proc -> Local]
  BY <1>3, <1>4 DEF TypeOK
<1>6. \A q \in Proc : \/ q \in W /\ pc'[q] = "read" /\ loc'[q].obj \in Objects
                      \/ q = p /\ pc'[q] = "wait"
                      \/ pc'[q] = pc[q] /\ loc'[q] = loc[q]
  <2>1. pc' = [q \in Proc |-> IF q \in W THEN "read" ELSE IF q = p THEN "wait" ELSE pc[q]]
    BY DEF Spawn
  <2>2. \A o \in S : <<p, o>> \in Workers
    BY DEF Workers
  <2>3. p \notin W
    BY <2>2
  <2> QED BY <1>3, <1>4, <2>1, <2>3
<1> QED
  BY <1>2, <1>5, <1>6 DEF Spawned

LEMMA AfterDiscoverAdvances ==
  ASSUME TypeOK, ControlInv, NEW p \in Proc, pc[p] \in DiscoverLabels, AfterDiscover(p)
  PROVE  Advance(p)
<1>1. loc[p].cmd \in DiscoverCmds
  BY DEF ControlInv
<1>2. UNCHANGED loc /\ \E l \in {"attach", "gather"} : Goto(p, l)
  BY <1>1 DEF AfterDiscover, DiscoverCmds
<1> QED
  BY <1>2 DEF TypeOK, Advance, Goto, Labels, CamLabels, DiscoverLabels

LEMMA OwnerStepAdvances ==
  ASSUME TypeOK, ControlInv, NEW p \in Owners, OwnerStep(p)
  PROVE  Advance(p) \/ \E S \in SUBSET Objects : Spawned(p, S)
<1> p \in Proc
  BY DEF Proc
<1>1. CASE Fetch(p)
  <2>1. pc[p] \in DiscoverLabels /\ loc[p].cmd \in DiscoverCmds
    BY <1>1 DEF Fetch, ControlInv, DiscoverLabels
  <2>2. CASE Goto(p, "apply") /\ UNCHANGED loc
    BY <2>1, <2>2 DEF TypeOK, Advance, Goto, Labels, CamLabels, DiscoverLabels
  <2>3. CASE Finish(p)
    BY <2>3, FinishAdvances
  <2>4. CASE AfterDiscover(p)
    BY <2>1, <2>4, AfterDiscoverAdvances
  <2> QED BY <1>1, <2>2, <2>3, <2>4 DEF Fetch
<1>2. CASE Apply(p)
  <2>1. pc[p] = "apply" /\ Goto(p, "mark") /\ UNCHANGED loc
    BY <1>2 DEF Apply
  <2>2. loc[p].cmd \in DiscoverCmds
    BY <2>1 DEF ControlInv, DiscoverLabels
  <2> QED BY <2>1, <2>2 DEF TypeOK, Advance, Goto, Labels, CamLabels, DiscoverLabels
<1>3. CASE MarkOffline(p)
  <2>1. PICK o \in todo[p] :
          \/ UNCHANGED <<pc, loc>>
          \/ /\ Goto(p, "read")
             /\ loc' = [loc EXCEPT ![p].obj = o, ![p].goal = "Offline"]
    BY <1>3 DEF MarkOffline
  <2>2. o \in Objects /\ pc[p] = "mark" /\ loc[p].cmd \in DiscoverCmds
    BY <1>3 DEF TypeOK, MarkOffline, ControlInv, DiscoverLabels
  <2>3. CASE UNCHANGED <<pc, loc>>
    BY <2>2, <2>3 DEF TypeOK, Advance, CamLabels
  <2>4. CASE /\ Goto(p, "read")
             /\ loc' = [loc EXCEPT ![p].obj = o, ![p].goal = "Offline"]
    <3> DEFINE l == [loc EXCEPT ![p].obj = o]
    <3>1. l \in [Proc -> Local] /\ l[p].obj = o
      BY <2>2, SetObj
    <3>2. loc' = [l EXCEPT ![p].goal = "Offline"]
      BY <2>4
    <3>3. [l[p] EXCEPT !.goal = "Offline"] \in Local
      BY <3>1, LocalFacts DEF States
    <3>4. [l[p] EXCEPT !.goal = "Offline"].obj = o
      BY <3>1 DEF Local
    <3>5. loc' \in [Proc -> Local] /\ loc'[p].obj = o /\ \A q \in Proc \ {p} : loc'[q] = loc[q]
      BY <3>1, <3>2, <3>3, <3>4
    <3> QED BY <2>2, <2>4, <3>5 DEF TypeOK, Advance, Goto, Labels, CamLabels, DiscoverLabels
  <2> QED BY <2>1, <2>3, <2>4
<1>4. CASE Unlock(p)
  BY <1>4, AfterDiscoverAdvances DEF Unlock, DiscoverLabels
<1>5. CASE ConnectAll(p)
  <2>1. CASE Finish(p)
    BY <2>1, FinishAdvances
  <2>2. CASE \E S \in SUBSET Objects : Spawn(p, S)
    BY <2>2, SpawnSpawns
  <2> QED BY <1>5, <2>1, <2>2 DEF ConnectAll, RegisteredObjects
<1>6. CASE Wait(p)
  BY <1>6, FinishAdvances DEF Wait
<1> QED
  BY <1>1, <1>2, <1>3, <1>4, <1>5, <1>6 DEF OwnerStep

LEMMA LoopAdvances ==
  ASSUME TypeOK, ControlInv, LoopStep \/ Refresh \/ HealthCheck
  PROVE  Advance(Loop)
<1> Loop \in Proc
  BY DEF Proc, Owners
<1>1. ASSUME NEW c \in DiscoverCmds, StartFetch(Loop, c)
      PROVE  Advance(Loop)
  <2>1. loc' \in [Proc -> Local] /\ loc'[Loop].cmd = c
    <3>1. c \in Cmds
      BY DEF Cmds, DiscoverCmds
    <3> QED BY <1>1, <3>1, SetCmd DEF StartFetch
  <2> QED
    BY <1>1, <2>1 DEF StartFetch, TypeOK, Advance, Goto, Labels, CamLabels, DiscoverLabels
<1>2. CASE Attach
  BY <1>2 DEF Attach, TypeOK, Advance, Goto, Labels, CamLabels, DiscoverLabels
<1>3. CASE Wire
  BY <1>1, <1>3 DEF Wire, DiscoverCmds
<1>4. CASE Refresh
  BY <1>1, <1>4 DEF Refresh, DiscoverCmds
<1>5. CASE HealthCheck
  <2>1. loc' \in [Proc -> Local]
    BY <1>5, SetCmd DEF HealthCheck, Cmds
  <2> QED
    BY <1>5, <2>1 DEF HealthCheck, TypeOK, Advance, Goto, Labels, CamLabels, DiscoverLabels
<1>6. CASE HealthCams
  BY <1>6 DEF HealthCams, TypeOK, Advance, Goto, Labels, CamLabels, DiscoverLabels
<1>7. CASE HealthVisit
  <2>1. PICK o \in todo[Loop] : \/ UNCHANGED <<pc, loc>>
                                \/ Goto(Loop, "hold") /\ loc' = [loc EXCEPT ![Loop].obj = o]
    BY <1>7 DEF HealthVisit
  <2>2. o \in Objects /\ pc[Loop] = "check"
    BY <1>7, <2>1 DEF TypeOK, HealthVisit, Proc, Owners
  <2>3. CASE UNCHANGED <<pc, loc>>
    BY <2>2, <2>3 DEF TypeOK, Advance, CamLabels, DiscoverLabels
  <2>4. CASE Goto(Loop, "hold") /\ loc' = [loc EXCEPT ![Loop].obj = o]
    <3>1. loc' \in [Proc -> Local] /\ loc'[Loop].obj = o
      BY <2>2, <2>4, SetObj
    <3> QED BY <2>2, <2>4, <3>1 DEF TypeOK, Advance, Goto, Labels, CamLabels, DiscoverLabels
  <2> QED BY <2>1, <2>3, <2>4
<1>8. CASE HealthHold
  <2>1. loc[Loop].obj \in Objects
    BY <1>8 DEF HealthHold, ControlInv, CamLabels
  <2>2. cam[loc[Loop].obj].state \in States
    BY <2>1 DEF TypeOK, Camera
  <2>3. [loc[Loop] EXCEPT !.old = cam[loc[Loop].obj].state] \in Local
    BY <2>2, LocalFacts DEF TypeOK
  <2>4. [loc[Loop] EXCEPT !.old = cam[loc[Loop].obj].state].obj \in Objects
    BY <2>1 DEF TypeOK, Local
  <2> QED BY <1>8, <2>3, <2>4
          DEF HealthHold, TypeOK, Advance, Goto, Labels, CamLabels, DiscoverLabels
<1>9. CASE HealthDone
  <2>1. loc' \in [Proc -> Local]
    BY <1>9, LocalFacts DEF HealthDone, TypeOK
  <2> QED
    BY <1>9, <2>1 DEF HealthDone, TypeOK, Advance, Goto, Labels, CamLabels, DiscoverLabels
<1> QED
  BY <1>2, <1>3, <1>4, <1>5, <1>6, <1>7, <1>8, <1>9 DEF LoopStep

LEMMA CommandAdvances ==
  ASSUME TypeOK, ControlInv, NEW u \in Users, Command(u)
  PROVE  Advance(u) \/ UNCHANGED <<pc, loc>>
<1> u \in Proc
  BY DEF Proc, Owners
<1>1. ASSUME NEW c \in Cmds, NEW o \in Objects, NEW l \in CamLabels \ {"fallback"},
             Begin(u, c, o, l)
      PROVE  Advance(u)
  <2>1. loc' \in [Proc -> Local] /\ loc'[u].obj = o
    BY <1>1 DEF Begin, TypeOK, NoLoc, Local, Cmds, States, NoStream, Source, Protocols
  <2> QED
    BY <1>1, <2>1 DEF Begin, TypeOK, Advance, Goto, Labels, CamLabels, DiscoverLabels
<1>2. ASSUME NEW o \in Objects, RestartStream(u, o) PROVE Advance(u)
  BY <1>1, <1>2 DEF RestartStream, Cmds, CamLabels
<1>3. ASSUME NEW o \in Objects, StartStream(u, o) PROVE Advance(u)
  BY <1>1, <1>3 DEF StartStream, Cmds, CamLabels
<1>4. ASSUME NEW o \in Objects, StopStream(u, o) PROVE Advance(u)
  BY <1>1, <1>4 DEF StopStream, Cmds, CamLabels
<1>5. ASSUME NEW o \in Objects, NEW q \in Quality, SetQuality(u, o, q)
      PROVE  Advance(u) \/ UNCHANGED <<pc, loc>>
  BY <1>1, <1>5 DEF SetQuality, Cmds, CamLabels
<1>6. CASE Rediscover(u)
  <2>1. loc' \in [Proc -> Local] /\ loc'[u].cmd = "rediscover"
    BY <1>6, SetCmd DEF Rediscover, StartFetch, Cmds
  <2> QED
    BY <1>6, <2>1 DEF Rediscover, StartFetch, TypeOK, Advance, Goto, Labels, CamLabels,
                      DiscoverLabels, DiscoverCmds
<1> QED
  BY <1>2, <1>3, <1>4, <1>5, <1>6 DEF Command

(* Every step moves one process, or spawns goroutines, or is the outside's. *)
LEMMA NextControl ==
  ASSUME TypeOK, ControlInv, Next
  PROVE  \/ \E p \in Proc : Advance(p)
         \/ \E p \in Owners, S \in SUBSET Objects : Spawned(p, S)
         \/ UNCHANGED <<pc, loc>>
<1>1. ASSUME NEW p \in Proc, CameraStep(p) PROVE Advance(p)
  BY <1>1, CameraStepAdvances
<1>2. ASSUME NEW p \in Owners, OwnerStep(p)
      PROVE  Advance(p) \/ \E S \in SUBSET Objects : Spawned(p, S)
  BY <1>2, OwnerStepAdvances
<1>3. CASE LoopStep \/ Refresh \/ HealthCheck
  BY <1>3, LoopAdvances DEF Proc, Owners
<1>4. ASSUME NEW S \in SUBSET Objects, ReconnectErrored(S)
      PROVE  Loop \in Owners /\ Spawned(Loop, S)
  BY <1>4, SpawnSpawns DEF ReconnectErrored, Owners
<1>5. ASSUME NEW u \in Users, Command(u) PROVE Advance(u) \/ UNCHANGED <<pc, loc>>
  BY <1>5, CommandAdvances
<1>6. ASSUME NEW c \in Accounts, CloudChange(c) PROVE UNCHANGED <<pc, loc>>
  BY <1>6 DEF CloudChange
<1>7. ASSUME NEW n \in Names, ProducerDies(n) PROVE UNCHANGED <<pc, loc>>
  BY <1>7 DEF ProducerDies
<1>8. Users \subseteq Proc /\ Owners \subseteq Proc /\ Loop \in Proc
  BY DEF Proc, Owners
<1> QED
  BY <1>1, <1>2, <1>3, <1>4, <1>5, <1>6, <1>7, <1>8 DEF Next

LEMMA ControlPreserved ==
  ASSUME TypeOK, ControlInv, [Next]_vars
  PROVE  ControlInv' /\ pc' \in [Proc -> Labels] /\ loc' \in [Proc -> Local]
<1>1. ASSUME NEW p \in Proc, Advance(p)
      PROVE  ControlInv' /\ pc' \in [Proc -> Labels] /\ loc' \in [Proc -> Local]
  BY <1>1 DEF Advance, ControlInv
<1>2. ASSUME NEW p \in Owners, NEW S \in SUBSET Objects, Spawned(p, S)
      PROVE  ControlInv' /\ pc' \in [Proc -> Labels] /\ loc' \in [Proc -> Local]
  BY <1>2 DEF Spawned, ControlInv, CamLabels, DiscoverLabels
<1>3. CASE UNCHANGED <<pc, loc>>
  BY <1>3 DEF TypeOK, ControlInv
<1>4. UNCHANGED vars => UNCHANGED <<pc, loc>>
  BY DEF vars
<1> QED
  BY <1>1, <1>2, <1>3, <1>4, NextControl

-----------------------------------------------------------------------------
(* Data: what the steps write has the types declared for it.               *)

DataOK ==
  /\ cloud \in [Devices -> Names \cup {Nil}]
  /\ registry \in [Names -> Objects \cup {Nil}]
  /\ cam \in [Objects -> Camera]
  /\ chronic \in [Names -> BOOLEAN]
  /\ mu \in Owners \cup {Nil}
  /\ attached \in BOOLEAN
  /\ wired \in BOOLEAN
  /\ stream \in [Names -> Source]
  /\ dead \in SUBSET Names
  /\ alive \in SUBSET Names
  /\ found \in [Owners -> [Devices -> Names \cup {Nil}]]
  /\ todo \in [Owners -> SUBSET Objects]
  /\ told \in [Names -> States]
  /\ issue \in [Names -> BOOLEAN]
  /\ alerts \in [Names -> Int]
  /\ fired \in [Objects -> Nat]

LEMMA CameraFacts ==
  /\ \A c \in Camera :
       /\ \A s \in States : [c EXCEPT !.state = s] \in Camera
       /\ \A k \in Nat : [c EXCEPT !.errors = k] \in Camera /\ [c EXCEPT !.streak = k] \in Camera
       /\ [c EXCEPT !.force = TRUE] \in Camera
       /\ \A q \in Quality : [c EXCEPT !.qual = q] \in Camera
       /\ \A d \in Devices : [c EXCEPT !.mac = d] \in Camera
       /\ c.errors \in Nat /\ c.streak \in Nat /\ c.name \in Names \cup {Nil}
  /\ \A n \in Names \cup {Nil}, d \in Devices \cup {Nil} : NewCamera(n, d) \in Camera
<1>1. ASSUME NEW n \in Names \cup {Nil}, NEW d \in Devices \cup {Nil}
      PROVE  NewCamera(n, d) \in Camera
  BY DEF NewCamera, Camera, States
<1> QED
  BY <1>1 DEF Camera

\* Each update of one field of one camera.
LEMMA CamUpdates ==
  ASSUME TypeOK, NEW o \in Objects
  PROVE  /\ \A s \in States : [cam EXCEPT ![o].state = s] \in [Objects -> Camera]
         /\ [cam EXCEPT ![o].state = "Streaming", ![o].errors = 0, ![o].streak = 0]
              \in [Objects -> Camera]
         /\ [cam EXCEPT ![o].errors = @ + 1, ![o].state = "Error"] \in [Objects -> Camera]
         /\ [cam EXCEPT ![o].streak = @ + 1] \in [Objects -> Camera]
         /\ [cam EXCEPT ![o].streak = 0] \in [Objects -> Camera]
         /\ [cam EXCEPT ![o].force = TRUE] \in [Objects -> Camera]
         /\ \A q \in Quality : [cam EXCEPT ![o].qual = q] \in [Objects -> Camera]
<1> DEFINE D == [Objects -> Camera]
<1>0. cam \in D
  BY DEF TypeOK
<1>1. \A f \in D, s \in States : [f EXCEPT ![o].state = s] \in D
  BY CameraFacts
<1>2. \A f \in D, k \in Nat : [f EXCEPT ![o].errors = k] \in D /\ [f EXCEPT ![o].streak = k] \in D
  BY CameraFacts
<1>3. cam[o].errors + 1 \in Nat /\ cam[o].streak + 1 \in Nat
  <2>1. cam[o] \in Camera
    BY <1>0
  <2> QED BY <2>1 DEF Camera
<1>4. [cam EXCEPT ![o].force = TRUE] \in D /\ \A q \in Quality : [cam EXCEPT ![o].qual = q] \in D
  BY <1>0, CameraFacts
<1>5. \A s \in States : [cam EXCEPT ![o].state = s] \in D
  BY <1>0, <1>1
<1>6. [cam EXCEPT ![o].streak = @ + 1] \in D /\ [cam EXCEPT ![o].streak = 0] \in D
  BY <1>0, <1>2, <1>3
<1>7. [cam EXCEPT ![o].errors = @ + 1, ![o].state = "Error"] \in D
  BY <1>0, <1>1, <1>2, <1>3 DEF States
<1>8. [cam EXCEPT ![o].state = "Streaming", ![o].errors = 0, ![o].streak = 0] \in D
  BY <1>0, <1>1, <1>2 DEF States
<1> QED
  BY <1>4, <1>5, <1>6, <1>7, <1>8

LEMMA CameraStepData ==
  ASSUME TypeOK, ControlInv, NEW p \in Proc, CameraStep(p)
  PROVE  DataOK'
<1> DEFINE o == loc[p].obj
<1>o. pc[p] \in CamLabels => o \in Objects
  BY DEF ControlInv
<1>l. loc[p] \in Local
  BY DEF TypeOK
<1> USE DEF objVars, bootVars, go2rtc, ownerVars, observers
<1>1. CASE ChangeRead(p)
  BY <1>1 DEF ChangeRead, TypeOK, DataOK
<1>2. CASE ChangeSet(p)
  <2>1. cam' \in [Objects -> Camera]
    <3>1. \/ cam' = [cam EXCEPT ![o].state = "Streaming", ![o].errors = 0, ![o].streak = 0]
          \/ cam' = [cam EXCEPT ![o].state = loc[p].goal]
      BY <1>2 DEF ChangeSet
    <3>2. o \in Objects
      BY <1>2, <1>o DEF ChangeSet, CamLabels
    <3>3. loc[p].goal \in States
      BY <1>l DEF Local
    <3> HIDE DEF o
    <3>4. /\ \A s \in States : [cam EXCEPT ![o].state = s] \in [Objects -> Camera]
          /\ [cam EXCEPT ![o].state = "Streaming", ![o].errors = 0, ![o].streak = 0]
               \in [Objects -> Camera]
      BY <3>2, CamUpdates, Zenon
    <3> QED BY <3>1, <3>3, <3>4, ZenonT(60)
  <2>2. UNCHANGED <<cloud, registry, chronic, mu, bootVars, go2rtc, ownerVars, observers>>
    BY <1>2 DEF ChangeSet
  <2> QED BY <2>1, <2>2 DEF TypeOK, DataOK
<1>3. CASE ClearChronic(p)
  BY <1>3 DEF ClearChronic, TypeOK, DataOK
<1>4. CASE Recover(p)
  <2> DEFINE n == cam[o].name
  <2>1. alerts' = [alerts EXCEPT ![n] = @ - 1] /\ issue' = [issue EXCEPT ![n] = FALSE]
    BY <1>4 DEF Recover
  <2>2. UNCHANGED <<cloud, objVars, bootVars, go2rtc, ownerVars, told, fired>>
    BY <1>4 DEF Recover
  <2> HIDE DEF n
  <2>3. alerts' \in [Names -> Int]
    <3>1. CASE n \in Names
      BY <2>1, <3>1 DEF TypeOK
    <3>2. CASE n \notin Names
      BY <2>1, <3>2 DEF TypeOK
    <3> QED BY <3>1, <3>2
  <2> QED BY <2>1, <2>2, <2>3 DEF TypeOK, DataOK
<1>5. CASE Notify(p)
  BY <1>5, <1>l DEF Notify, Tell, TypeOK, DataOK, Local, States
<1>6. CASE PickSource(p)
  BY <1>6 DEF PickSource, TypeOK, DataOK
<1>7. CASE DeleteFirst(p)
  BY <1>7 DEF DeleteFirst, DeleteStream, TypeOK, DataOK, NoStream, Source, Protocols
<1>8. CASE AddStream(p)
  BY <1>8, <1>l DEF AddStream, PutStream, TypeOK, DataOK, Local
<1>9. CASE AddStreamFails(p)
  BY <1>9, <1>l DEF AddStreamFails, PutStream, TypeOK, DataOK, Local
<1>10. CASE IncrementError(p)
  <2>1. cam' \in [Objects -> Camera]
    BY <1>10, <1>o, CamUpdates DEF IncrementError, CamLabels
  <2>2. UNCHANGED <<cloud, registry, chronic, mu, bootVars, go2rtc, ownerVars, observers>>
    BY <1>10 DEF IncrementError
  <2> QED BY <2>1, <2>2 DEF TypeOK, DataOK
<1>11. CASE NotifyLost(p)
  BY <1>11, <1>l DEF NotifyLost, Tell, TypeOK, DataOK, Local, States
<1>12. CASE CountErrors(p)
  BY <1>12 DEF CountErrors, TypeOK, DataOK
<1>13. CASE MarkChronic(p)
  BY <1>13 DEF MarkChronic, TypeOK, DataOK
<1>14. CASE ReportChronic(p)
  <2> DEFINE n == cam[o].name
  <2>1. alerts' = [alerts EXCEPT ![n] = @ + 1] /\ issue' = [issue EXCEPT ![n] = TRUE]
    BY <1>14 DEF ReportChronic
  <2>2. UNCHANGED <<cloud, objVars, bootVars, go2rtc, ownerVars, told, fired>>
    BY <1>14 DEF ReportChronic
  <2> HIDE DEF n
  <2>3. alerts' \in [Names -> Int]
    <3>1. CASE n \in Names
      BY <2>1, <3>1 DEF TypeOK
    <3>2. CASE n \notin Names
      BY <2>1, <3>2 DEF TypeOK
    <3> QED BY <3>1, <3>2
  <2> QED BY <2>1, <2>2, <2>3 DEF TypeOK, DataOK
<1>15. CASE CheckProtocol(p)
  BY <1>15 DEF CheckProtocol, TypeOK, DataOK
<1>16. CASE BumpStreak(p)
  <2>1. cam' \in [Objects -> Camera]
    BY <1>16, <1>o, CamUpdates DEF BumpStreak, CamLabels
  <2>2. UNCHANGED <<cloud, registry, chronic, mu, bootVars, go2rtc, ownerVars, observers>>
    BY <1>16 DEF BumpStreak
  <2> QED BY <2>1, <2>2 DEF TypeOK, DataOK
<1>17. CASE Promote(p)
  <2>1. cam' \in [Objects -> Camera]
    <3>1. cam' = cam \/ cam' = [cam EXCEPT ![o].force = TRUE]
      BY <1>17 DEF Promote
    <3>2. o \in Objects /\ cam \in [Objects -> Camera]
      BY <1>17, <1>o DEF Promote, CamLabels, TypeOK
    <3> HIDE DEF o
    <3>3. [cam EXCEPT ![o].force = TRUE] \in [Objects -> Camera]
      BY <3>2, CamUpdates, Zenon
    <3> QED BY <3>1, <3>2, <3>3, Zenon
  <2>2. UNCHANGED <<cloud, registry, chronic, mu, bootVars, go2rtc, ownerVars, observers>>
    BY <1>17 DEF Promote
  <2> QED BY <2>1, <2>2 DEF TypeOK, DataOK
<1>18. CASE Fallback(p)
  <2>1. cam' \in [Objects -> Camera]
    BY <1>18, <1>o, CamUpdates DEF Fallback, CamLabels
  <2>2. fired' \in [Objects -> Nat]
    BY <1>18, <1>o DEF Fallback, CamLabels, TypeOK
  <2>3. UNCHANGED <<cloud, registry, chronic, mu, bootVars, go2rtc, ownerVars,
                    told, issue, alerts>>
    BY <1>18 DEF Fallback
  <2> QED BY <2>1, <2>2, <2>3 DEF TypeOK, DataOK
<1>19. CASE DropStream(p)
  BY <1>19 DEF DropStream, DeleteStream, TypeOK, DataOK, NoStream, Source, Protocols
<1> QED
  BY <1>1, <1>2, <1>3, <1>4, <1>5, <1>6, <1>7, <1>8, <1>9, <1>10, <1>11, <1>12, <1>13,
     <1>14, <1>15, <1>16, <1>17, <1>18, <1>19 DEF CameraStep

LEMMA OwnerStepData ==
  ASSUME TypeOK, NEW p \in Owners, Fetch(p) \/ MarkOffline(p) \/ Unlock(p)
                                  \/ ConnectAll(p) \/ Wait(p)
  PROVE  DataOK'
<1> USE DEF objVars, bootVars, go2rtc, ownerVars, observers
<1>1. CASE Fetch(p)
  BY <1>1, SMTT(40) DEF Fetch, TypeOK, DataOK
<1>2. CASE MarkOffline(p)
  BY <1>2 DEF MarkOffline, TypeOK, DataOK
<1>3. CASE Unlock(p)
  BY <1>3 DEF Unlock, TypeOK, DataOK
<1>4. CASE ConnectAll(p)
  <2>1. \/ UNCHANGED todo
        \/ \E S \in SUBSET Objects : todo' = [todo EXCEPT ![p] = S]
    BY <1>4 DEF ConnectAll, Spawn, RegisteredObjects
  <2>2. UNCHANGED <<cloud, objVars, bootVars, go2rtc, alive, found, observers>>
    BY <1>4 DEF ConnectAll
  <2> QED BY <2>1, <2>2 DEF TypeOK, DataOK
<1>5. CASE Wait(p)
  BY <1>5 DEF Wait, TypeOK, DataOK
<1> QED
  BY <1>1, <1>2, <1>3, <1>4, <1>5

LEMMA LoopData ==
  ASSUME TypeOK, \/ LoopStep \/ Refresh \/ HealthCheck
                 \/ \E S \in SUBSET Objects : ReconnectErrored(S)
  PROVE  DataOK'
<1> USE DEF objVars, bootVars, go2rtc, ownerVars, observers, TypeOK, DataOK
<1>1. CASE Attach
  BY <1>1 DEF Attach
<1>2. CASE Wire
  BY <1>2 DEF Wire
<1>3. CASE HealthCams
  BY <1>3 DEF HealthCams, RegisteredObjects
<1>4. CASE HealthVisit
  <2>1. \E o \in todo[Loop] : todo' = [todo EXCEPT ![Loop] = @ \ {o}]
    BY <1>4 DEF HealthVisit
  <2>2. UNCHANGED <<cloud, objVars, bootVars, go2rtc, alive, found, observers>>
    BY <1>4 DEF HealthVisit
  <2> QED BY <2>1, <2>2 DEF Owners
<1>5. CASE HealthHold
  BY <1>5 DEF HealthHold
<1>6. CASE HealthDone
  BY <1>6 DEF HealthDone
<1>7. CASE Refresh
  BY <1>7 DEF Refresh
<1>8. CASE HealthCheck
  BY <1>8 DEF HealthCheck
<1>9. ASSUME NEW S \in SUBSET Objects, ReconnectErrored(S) PROVE DataOK'
  BY <1>9 DEF ReconnectErrored, Spawn
<1> QED
  BY <1>1, <1>2, <1>3, <1>4, <1>5, <1>6, <1>7, <1>8, <1>9 DEF LoopStep

LEMMA OutsideData ==
  ASSUME TypeOK, \/ \E u \in Users : Command(u)
                 \/ \E c \in Accounts : CloudChange(c)
                 \/ \E n \in Names : ProducerDies(n)
  PROVE  DataOK'
<1> USE DEF objVars, bootVars, go2rtc, ownerVars, observers, TypeOK, DataOK
<1>1. ASSUME NEW u \in Users, NEW o \in Objects,
             RestartStream(u, o) \/ StartStream(u, o) \/ StopStream(u, o)
      PROVE  DataOK'
  BY <1>1 DEF RestartStream, StartStream, StopStream
<1>2. ASSUME NEW u \in Users, NEW o \in Objects, NEW q \in Quality, SetQuality(u, o, q)
      PROVE  DataOK'
  BY <1>2, CamUpdates DEF SetQuality
<1>3. ASSUME NEW u \in Users, Rediscover(u) PROVE DataOK'
  BY <1>3 DEF Rediscover
<1>4. ASSUME NEW c \in Accounts, CloudChange(c) PROVE DataOK'
  BY <1>4 DEF CloudChange
<1>5. ASSUME NEW n \in Names, ProducerDies(n) PROVE DataOK'
  BY <1>5 DEF ProducerDies
<1> QED
  BY <1>1, <1>2, <1>3, <1>4, <1>5 DEF Command

-----------------------------------------------------------------------------
(* Discover's critical section.                                            *)

\* Each entry of the registry is filed under the name of its camera.
NamedInv == \A n \in Names : registry[n] # Nil => cam[registry[n]].name = n

\* What Apply leaves behind: an entry for every listed name, with a MAC listed
\* under that name; of the others, those whose MAC is not listed.
Applied(p, seen, last) ==
  /\ seen \subseteq Names
  /\ last \in [seen -> Devices]
  /\ \A n \in seen : /\ found[p][last[n]] = n
                     /\ registry'[n] \in Objects
                     /\ cam'[registry'[n]].name = n
                     /\ cam'[registry'[n]].mac = last[n]
  /\ \A n \in Names \ seen :
       \/ registry'[n] = Nil
       \/ /\ registry'[n] = registry[n]
          /\ cam'[registry[n]] = cam[registry[n]]
          /\ found[p][cam[registry[n]].mac] = Nil

LEMMA ApplyEffect ==
  ASSUME TypeOK, NamedInv, NEW p \in Owners, Apply(p)
  PROVE  /\ DataOK'
         /\ \E seen, last : Applied(p, seen, last)
         /\ \A o \in Objects : \/ o \in Free /\ fired'[o] = 0
                               \/ fired'[o] = fired[o] /\ cam'[o].force = cam[o].force
         /\ \A o \in Objects :
              \/ o \in Free /\ cam'[o].state = "Offline"
              \/ cam'[o].state = cam[o].state /\ cam'[o].name = cam[o].name
<1> DEFINE listed == found[p]
           seen   == {listed[d] : d \in Devices} \ {Nil}
           fresh  == {n \in seen : registry[n] = Nil}
           orphans == Orphans(listed, seen)
<1>1. PICK last \in {f \in [seen -> Devices] : \A n \in seen : listed[f[n]] = n},
           new \in {f \in [fresh -> Free] : \A m, n \in fresh : f[m] = f[n] => m = n},
           gone \in Reaped(orphans) :
          /\ registry' = [n \in Names |-> IF n \in fresh THEN new[n]
                                          ELSE IF n \in orphans THEN Nil ELSE registry[n]]
          /\ cam' = [o \in Objects |->
               IF \E n \in fresh : new[n] = o
               THEN LET n == CHOOSE n \in fresh : new[n] = o IN NewCamera(n, last[n])
               ELSE IF Registered(o) /\ cam[o].name \in seen
               THEN [cam[o] EXCEPT !.mac = last[cam[o].name]] ELSE cam[o]]
          /\ fired' = [o \in Objects |-> IF \E n \in fresh : new[n] = o THEN 0 ELSE fired[o]]
          /\ stream' = [n \in Names |-> IF n \in gone THEN NoStream ELSE stream[n]]
          /\ dead' = dead \ gone
          /\ todo' = [todo EXCEPT ![p] =
               {registry[n] : n \in {m \in Names \ (seen \cup orphans) : registry[m] # Nil}}]
  BY Zenon DEF Apply
<1>2. /\ mu' = p
      /\ found' = [found EXCEPT ![p] = [d \in Devices |-> Nil]]
      /\ UNCHANGED <<cloud, chronic, bootVars, alive, told, issue, alerts>>
  BY DEF Apply
<1>3. listed \in [Devices -> Names \cup {Nil}]
  BY DEF TypeOK
<1>4. seen \subseteq Names /\ fresh \subseteq seen /\ orphans \subseteq Names \ seen
  BY <1>3 DEF Orphans
<1>5. /\ last \in [seen -> Devices] /\ \A n \in seen : listed[last[n]] = n
      /\ new \in [fresh -> Free] /\ \A m, n \in fresh : new[m] = new[n] => m = n
      /\ gone \subseteq Names
  <2>1. \A S : \A g \in Reaped(S) : g \subseteq S
    BY DEF Reaped
  <2>2. gone \subseteq orphans
    BY <2>1
  <2> QED BY <1>4, <2>2
<1>6. Free \subseteq Objects /\ \A o \in Free : ~Registered(o)
  BY DEF Free
<1> HIDE DEF listed, seen, fresh, orphans
<1>7. ASSUME NEW n \in fresh
      PROVE  new[n] \in Objects /\ cam'[new[n]] = NewCamera(n, last[n])
  <2>1. new[n] \in Objects /\ \E m \in fresh : new[m] = new[n]
    BY <1>5, <1>6
  <2>2. (CHOOSE m \in fresh : new[m] = new[n]) = n
    BY <1>5
  <2> QED BY <1>1, <2>1, <2>2
<1>8. ASSUME NEW o \in Objects, ~\E n \in fresh : new[n] = o
      PROVE  cam'[o] = IF Registered(o) /\ cam[o].name \in seen
                       THEN [cam[o] EXCEPT !.mac = last[cam[o].name]] ELSE cam[o]
  BY <1>1, <1>8
<1>9. \A o \in Objects : cam[o] \in Camera
  BY DEF TypeOK
<1>10. cam' \in [Objects -> Camera]
  <2>1. ASSUME NEW o \in Objects PROVE cam'[o] \in Camera
    <3>1. CASE \E n \in fresh : new[n] = o
      <4> PICK n \in fresh : new[n] = o
        BY <3>1
      <4>1. n \in Names /\ last[n] \in Devices
        BY <1>4, <1>5
      <4> QED BY <1>7, <4>1, CameraFacts
    <3>2. CASE ~\E n \in fresh : new[n] = o
      <4>1. CASE Registered(o) /\ cam[o].name \in seen
        <5>1. last[cam[o].name] \in Devices
          BY <1>5, <4>1
        <5>2. [cam[o] EXCEPT !.mac = last[cam[o].name]] \in Camera
          BY <1>9, <5>1, CameraFacts, Zenon
        <5> QED BY <1>8, <3>2, <4>1, <5>2
      <4>2. CASE ~(Registered(o) /\ cam[o].name \in seen)
        BY <1>8, <1>9, <3>2, <4>2
      <4> QED BY <4>1, <4>2
    <3> QED BY <3>1, <3>2
  <2> QED BY <1>1, <2>1
<1>11. registry' \in [Names -> Objects \cup {Nil}]
  BY <1>1, <1>7 DEF TypeOK
<1>12. /\ fired' \in [Objects -> Nat]
       /\ stream' \in [Names -> Source]
       /\ dead' \in SUBSET Names
       /\ todo' \in [Owners -> SUBSET Objects]
  <2>1. fired' \in [Objects -> Nat]
    BY <1>1 DEF TypeOK
  <2>2. NoStream \in Source
    BY DEF NoStream, Source, Protocols
  <2>3. stream' \in [Names -> Source]
    BY <1>1, <2>2 DEF TypeOK
  <2>4. dead' \in SUBSET Names
    BY <1>1 DEF TypeOK
  <2>5. {registry[n] : n \in {m \in Names \ (seen \cup orphans) : registry[m] # Nil}}
          \in SUBSET Objects
    BY DEF TypeOK
  <2>6. todo' \in [Owners -> SUBSET Objects]
    BY <1>1, <2>5 DEF TypeOK
  <2> QED BY <2>1, <2>3, <2>4, <2>6
<1>13. DataOK'
  BY <1>2, <1>10, <1>11, <1>12 DEF TypeOK, DataOK, bootVars
<1>14. Applied(p, seen, last)
  <2>1. ASSUME NEW n \in seen
        PROVE  /\ listed[last[n]] = n
               /\ registry'[n] \in Objects
               /\ cam'[registry'[n]].name = n
               /\ cam'[registry'[n]].mac = last[n]
    <3>0. n \in Names /\ last[n] \in Devices /\ listed[last[n]] = n
      BY <1>4, <1>5
    <3>1. CASE n \in fresh
      <4>1. registry'[n] = new[n]
        BY <1>1, <3>0, <3>1
      <4>2. new[n] \in Objects /\ cam'[new[n]] = NewCamera(n, last[n])
        BY <1>7, <3>1
      <4>3. NewCamera(n, last[n]).name = n /\ NewCamera(n, last[n]).mac = last[n]
        BY DEF NewCamera
      <4> QED BY <3>0, <4>1, <4>2, <4>3
    <3>2. CASE n \notin fresh
      <4>1. registry[n] # Nil
        BY <3>2 DEF fresh
      <4>2. registry'[n] = registry[n]
        BY <1>1, <1>4, <3>0, <3>2
      <4> DEFINE o == registry[n]
      <4>3. o \in Objects /\ Registered(o) /\ cam[o].name = n
        BY <3>0, <4>1 DEF TypeOK, Registered, NamedInv
      <4>4. ~\E m \in fresh : new[m] = o
        BY <1>5, <1>6, <4>3
      <4>5. cam'[o] = [cam[o] EXCEPT !.mac = last[n]]
        BY <1>8, <4>3, <4>4
      <4>6. cam'[o].name = n /\ cam'[o].mac = last[n]
        BY <1>9, <4>3, <4>5 DEF Camera
      <4> QED BY <3>0, <4>2, <4>3, <4>6
    <3> QED BY <3>1, <3>2
  <2>2. ASSUME NEW n \in Names \ seen
        PROVE  \/ registry'[n] = Nil
               \/ /\ registry'[n] = registry[n]
                  /\ cam'[registry[n]] = cam[registry[n]]
                  /\ listed[cam[registry[n]].mac] = Nil
    <3>0. n \notin fresh
      BY <1>4
    <3>1. CASE registry[n] = Nil \/ n \in orphans
      BY <1>1, <3>0, <3>1
    <3>2. CASE registry[n] # Nil /\ n \notin orphans
      <4>1. registry'[n] = registry[n] /\ listed[cam[registry[n]].mac] = Nil
        BY <1>1, <3>0, <3>2 DEF orphans, Orphans
      <4> DEFINE o == registry[n]
      <4>2. o \in Objects /\ Registered(o) /\ cam[o].name = n
        BY <3>2 DEF TypeOK, Registered, NamedInv
      <4>3. ~\E m \in fresh : new[m] = o
        BY <1>5, <1>6, <4>2
      <4>4. cam'[o] = cam[o]
        BY <1>8, <4>2, <4>3
      <4> QED BY <4>1, <4>4
    <3> QED BY <3>1, <3>2
  <2> QED BY <1>4, <1>5, <2>1, <2>2 DEF Applied, listed
<1>15. ASSUME NEW o \in Objects
       PROVE  \/ o \in Free /\ fired'[o] = 0
              \/ fired'[o] = fired[o] /\ cam'[o].force = cam[o].force
  <2>1. CASE \E n \in fresh : new[n] = o
    BY <1>1, <1>5, <2>1
  <2>2. CASE ~\E n \in fresh : new[n] = o
    <3>1. fired'[o] = fired[o]
      BY <1>1, <2>2
    <3>2. cam'[o] = cam[o] \/ cam'[o] = [cam[o] EXCEPT !.mac = last[cam[o].name]]
      BY <1>8, <2>2
    <3>3. [cam[o] EXCEPT !.mac = last[cam[o].name]].force = cam[o].force
      BY <1>9 DEF Camera
    <3>4. cam'[o].force = cam[o].force
      BY <3>2, <3>3
    <3> QED BY <3>1, <3>4
  <2> QED BY <2>1, <2>2
<1>16. ASSUME NEW o \in Objects
       PROVE  \/ o \in Free /\ cam'[o].state = "Offline"
              \/ cam'[o].state = cam[o].state /\ cam'[o].name = cam[o].name
  <2>1. CASE \E n \in fresh : new[n] = o
    <3>1. PICK n \in fresh : new[n] = o
      BY <2>1
    <3>2. NewCamera(n, last[n]).state = "Offline"
      BY DEF NewCamera
    <3> QED BY <1>5, <1>7, <3>1, <3>2
  <2>2. CASE ~\E n \in fresh : new[n] = o
    <3>1. cam'[o] = cam[o] \/ cam'[o] = [cam[o] EXCEPT !.mac = last[cam[o].name]]
      BY <1>8, <2>2
    <3>2. /\ [cam[o] EXCEPT !.mac = last[cam[o].name]].state = cam[o].state
          /\ [cam[o] EXCEPT !.mac = last[cam[o].name]].name = cam[o].name
      BY <1>9 DEF Camera
    <3> QED BY <3>1, <3>2
  <2> QED BY <2>1, <2>2
<1> QED
  BY <1>13, <1>14, <1>15, <1>16

-----------------------------------------------------------------------------
(* The promotion to WebRTC.                                                *)

\* Nobody is about to fire the callback for an object it has fired for, nor two
\* processes for the same object.
FallbackInv ==
  /\ \A o \in Objects : fired[o] = 0 \/ (fired[o] = 1 /\ cam[o].force = TRUE)
  /\ \A p \in Proc : pc[p] = "fallback" =>
       fired[loc[p].obj] = 0 /\ cam[loc[p].obj].force = TRUE
  /\ \A p, q \in Proc : pc[p] = "fallback" /\ pc[q] = "fallback"
                        /\ loc[p].obj = loc[q].obj => p = q

\* Nobody reaches the callback in this step.
NoneEnters ==
  \A q \in Proc : pc'[q] = "fallback" => pc[q] = "fallback" /\ loc'[q].obj = loc[q].obj

\* f is cam as far as identity, or the pin to WebRTC, is concerned.
SameNames(f) == \A x \in Objects : f[x].name = cam[x].name /\ f[x].mac = cam[x].mac
SameForce(f) == \A x \in Objects : f[x].force = cam[x].force

KeepsIdentity  == registry' = registry /\ SameNames(cam')
KeepsPromotion == fired' = fired /\ SameForce(cam')

LEMMA FallbackKept ==
  ASSUME TypeOK, ControlInv, FallbackInv, NoneEnters,
         \A o \in Objects : \/ o \in Free /\ fired'[o] = 0
                            \/ fired'[o] = fired[o] /\ cam'[o].force = cam[o].force
  PROVE  FallbackInv'
<1>1. ASSUME NEW q \in Proc, pc'[q] = "fallback"
      PROVE  /\ loc'[q].obj \in Objects
             /\ fired'[loc'[q].obj] = 0
             /\ cam'[loc'[q].obj].force = TRUE
  <2>1. pc[q] = "fallback" /\ loc'[q].obj = loc[q].obj
    BY <1>1 DEF NoneEnters
  <2>2. loc[q].obj \in Objects /\ loc[q].obj \notin Free
    BY <2>1 DEF ControlInv, CamLabels, Free
  <2>3. fired[loc[q].obj] = 0 /\ cam[loc[q].obj].force = TRUE
    BY <2>1 DEF FallbackInv
  <2> QED BY <2>1, <2>2, <2>3
<1>2. \A o \in Objects : fired'[o] = 0 \/ (fired'[o] = 1 /\ cam'[o].force = TRUE)
  BY DEF FallbackInv
<1>3. \A p, q \in Proc : pc'[p] = "fallback" /\ pc'[q] = "fallback"
                         /\ loc'[p].obj = loc'[q].obj => p = q
  BY DEF FallbackInv, NoneEnters
<1> QED
  BY <1>1, <1>2, <1>3 DEF FallbackInv

LEMMA NoneEntersByAdvance ==
  ASSUME NEW p \in Proc, Advance(p), pc[p] # "promote"
  PROVE  NoneEnters
  BY DEF Advance, NoneEnters

LEMMA NoneEntersBySpawn ==
  ASSUME NEW p \in Owners, NEW S \in SUBSET Objects, Spawned(p, S)
  PROVE  NoneEnters
  BY DEF Spawned, NoneEnters

\* What the steps outside Discover do to a camera, the promotion apart.
Touches(o) ==
  \/ \E s : cam' = [cam EXCEPT ![o].state = s]
  \/ cam' = [cam EXCEPT ![o].state = "Streaming", ![o].errors = 0, ![o].streak = 0]
  \/ cam' = [cam EXCEPT ![o].errors = @ + 1, ![o].state = "Error"]
  \/ cam' = [cam EXCEPT ![o].streak = @ + 1]
  \/ cam' = [cam EXCEPT ![o].streak = 0]
  \/ \E q : cam' = [cam EXCEPT ![o].qual = q]

\* It keeps names, MACs and the pins to WebRTC.
LEMMA CamKept ==
  ASSUME TypeOK, NEW o \in Objects, Touches(o)
  PROVE  SameNames(cam') /\ SameForce(cam')
<1>0. cam \in [Objects -> Camera] /\ cam[o] \in Camera
  BY DEF TypeOK
<1>1. ASSUME NEW s, cam' = [cam EXCEPT ![o].state = s]
      PROVE  SameNames(cam') /\ SameForce(cam')
  BY <1>0, <1>1 DEF SameNames, SameForce, Camera
<1>2. CASE cam' = [cam EXCEPT ![o].state = "Streaming", ![o].errors = 0, ![o].streak = 0]
  BY <1>0, <1>2 DEF SameNames, SameForce, Camera
<1>3. CASE cam' = [cam EXCEPT ![o].errors = @ + 1, ![o].state = "Error"]
  BY <1>0, <1>3 DEF SameNames, SameForce, Camera
<1>4. CASE cam' = [cam EXCEPT ![o].streak = @ + 1]
  BY <1>0, <1>4 DEF SameNames, SameForce, Camera
<1>5. CASE cam' = [cam EXCEPT ![o].streak = 0]
  BY <1>0, <1>5 DEF SameNames, SameForce, Camera
<1>6. ASSUME NEW q, cam' = [cam EXCEPT ![o].qual = q]
      PROVE  SameNames(cam') /\ SameForce(cam')
  BY <1>0, <1>6 DEF SameNames, SameForce, Camera
<1> QED
  BY <1>1, <1>2, <1>3, <1>4, <1>5, <1>6 DEF Touches

LEMMA Pinned ==
  ASSUME TypeOK, NEW o \in Objects, cam' = [cam EXCEPT ![o].force = TRUE]
  PROVE  /\ SameNames(cam') /\ cam'[o].force = TRUE
         /\ \A x \in Objects \ {o} : cam'[x].force = cam[x].force
<1>0. cam \in [Objects -> Camera] /\ cam[o] \in Camera
  BY DEF TypeOK
<1> QED
  BY <1>0 DEF SameNames, Camera

\* p pins its camera to WebRTC and goes on to the callback.
Pins(p) ==
  /\ pc[p] = "promote" /\ pc'[p] = "fallback" /\ loc' = loc
  /\ cam[loc[p].obj].force = FALSE
  /\ cam' = [cam EXCEPT ![loc[p].obj].force = TRUE]
  /\ fired' = fired

LEMMA CameraStepFrame ==
  ASSUME TypeOK, ControlInv, NEW p \in Proc, CameraStep(p)
  PROVE  KeepsIdentity /\ (KeepsPromotion \/ Pins(p) \/ Fallback(p))
<1> DEFINE o == loc[p].obj
<1>o. pc[p] \in CamLabels => o \in Objects
  BY DEF ControlInv
<1>u. ASSUME UNCHANGED <<registry, cam, fired>>
      PROVE  KeepsIdentity /\ KeepsPromotion
  BY <1>u DEF KeepsIdentity, KeepsPromotion, SameNames, SameForce
<1>c. ASSUME UNCHANGED <<registry, fired>>, SameNames(cam'), SameForce(cam')
      PROVE  KeepsIdentity /\ KeepsPromotion
  BY <1>c DEF KeepsIdentity, KeepsPromotion
<1>1. CASE \/ ChangeRead(p) \/ ClearChronic(p) \/ Recover(p) \/ Notify(p)
           \/ PickSource(p) \/ DeleteFirst(p) \/ AddStream(p) \/ AddStreamFails(p)
           \/ NotifyLost(p) \/ CountErrors(p) \/ MarkChronic(p)
           \/ ReportChronic(p) \/ CheckProtocol(p) \/ DropStream(p)
  BY <1>1, <1>u DEF ChangeRead, ClearChronic, Recover, Notify, PickSource, DeleteFirst,
     AddStream, AddStreamFails, NotifyLost, CountErrors, MarkChronic, ReportChronic,
     CheckProtocol, DropStream, objVars, observers
<1>2. CASE ChangeSet(p)
  <2>1. o \in Objects /\ UNCHANGED <<registry, fired>>
    BY <1>2, <1>o DEF ChangeSet, CamLabels, observers
  <2>2. Touches(o)
    BY <1>2, Zenon DEF ChangeSet, Touches
  <2>3. SameNames(cam') /\ SameForce(cam')
    BY <2>1, <2>2, CamKept
  <2> QED BY <1>c, <2>1, <2>3
<1>3. CASE IncrementError(p)
  <2>1. o \in Objects /\ UNCHANGED <<registry, fired>>
    BY <1>3, <1>o DEF IncrementError, CamLabels, observers
  <2>2. Touches(o)
    BY <1>3, Zenon DEF IncrementError, Touches
  <2>3. SameNames(cam') /\ SameForce(cam')
    BY <2>1, <2>2, CamKept
  <2> QED BY <1>c, <2>1, <2>3
<1>4. CASE BumpStreak(p)
  <2>1. o \in Objects /\ UNCHANGED <<registry, fired>>
    BY <1>4, <1>o DEF BumpStreak, CamLabels, observers
  <2>2. Touches(o)
    BY <1>4, Zenon DEF BumpStreak, Touches
  <2>3. SameNames(cam') /\ SameForce(cam')
    BY <2>1, <2>2, CamKept
  <2> QED BY <1>c, <2>1, <2>3
<1>5. CASE Promote(p)
  <2>1. o \in Objects /\ UNCHANGED <<registry, fired>>
    BY <1>5, <1>o DEF Promote, CamLabels, observers
  <2>2. CASE UNCHANGED cam
    BY <1>u, <2>1, <2>2
  <2>3. CASE /\ ~cam[o].force
             /\ cam' = [cam EXCEPT ![o].force = TRUE]
             /\ Goto(p, "fallback") /\ UNCHANGED loc
    <3>1. SameNames(cam')
      BY <2>1, <2>3, Pinned
    <3>2. cam[o].force = FALSE
      BY <2>1, <2>3 DEF TypeOK, Camera
    <3>3. pc[p] = "promote" /\ pc'[p] = "fallback"
      BY <1>5, <2>3 DEF Promote, Goto, TypeOK
    <3> QED BY <2>1, <2>3, <3>1, <3>2, <3>3 DEF Pins, KeepsIdentity
  <2> QED BY <1>5, <2>2, <2>3 DEF Promote
<1>6. CASE Fallback(p)
  <2>1. o \in Objects /\ UNCHANGED registry
    BY <1>6, <1>o DEF Fallback, CamLabels
  <2>2. Touches(o)
    BY <1>6, Zenon DEF Fallback, Touches
  <2>3. SameNames(cam')
    BY <2>1, <2>2, CamKept
  <2> QED BY <1>6, <2>1, <2>3 DEF KeepsIdentity
<1> QED
  BY <1>1, <1>2, <1>3, <1>4, <1>5, <1>6 DEF CameraStep

LEMMA OtherStepFrame ==
  ASSUME TypeOK,
         \/ \E p \in Owners : \/ Fetch(p) \/ MarkOffline(p) \/ Unlock(p)
                              \/ ConnectAll(p) \/ Wait(p)
         \/ LoopStep \/ Refresh \/ HealthCheck
         \/ \E S \in SUBSET Objects : ReconnectErrored(S)
         \/ \E u \in Users : Command(u)
         \/ \E c \in Accounts : CloudChange(c)
         \/ \E n \in Names : ProducerDies(n)
  PROVE  KeepsIdentity /\ KeepsPromotion
<1> USE DEF objVars, observers
<1>u. ASSUME UNCHANGED <<registry, cam, fired>>
      PROVE  KeepsIdentity /\ KeepsPromotion
  BY <1>u DEF KeepsIdentity, KeepsPromotion, SameNames, SameForce
<1>1. ASSUME NEW p \in Owners, \/ Fetch(p) \/ MarkOffline(p) \/ Unlock(p)
                               \/ ConnectAll(p) \/ Wait(p)
      PROVE  UNCHANGED <<registry, cam, fired>>
  BY <1>1 DEF Fetch, MarkOffline, Unlock, ConnectAll, Wait
<1>2. CASE LoopStep \/ Refresh \/ HealthCheck
  BY <1>2, <1>u DEF LoopStep, Attach, Wire, HealthCams, HealthVisit, HealthHold, HealthDone,
     Refresh, HealthCheck
<1>3. ASSUME NEW S \in SUBSET Objects, ReconnectErrored(S)
      PROVE  UNCHANGED <<registry, cam, fired>>
  BY <1>3 DEF ReconnectErrored
<1>4. ASSUME NEW u \in Users, NEW o \in Objects,
             RestartStream(u, o) \/ StartStream(u, o) \/ StopStream(u, o)
      PROVE  UNCHANGED <<registry, cam, fired>>
  BY <1>4 DEF RestartStream, StartStream, StopStream
<1>5. ASSUME NEW u \in Users, NEW o \in Objects, NEW q \in Quality, SetQuality(u, o, q)
      PROVE  KeepsIdentity /\ KeepsPromotion
  <2>0. Touches(o)
    BY <1>5, Zenon DEF SetQuality, Touches
  <2>1. SameNames(cam') /\ SameForce(cam')
    BY <2>0, CamKept
  <2> QED BY <1>5, <2>1 DEF SetQuality, KeepsIdentity, KeepsPromotion
<1>6. ASSUME NEW u \in Users, Rediscover(u)
      PROVE  UNCHANGED <<registry, cam, fired>>
  BY <1>6 DEF Rediscover
<1>7. ASSUME NEW c \in Accounts, CloudChange(c)
      PROVE  UNCHANGED <<registry, cam, fired>>
  BY <1>7 DEF CloudChange
<1>8. ASSUME NEW n \in Names, ProducerDies(n)
      PROVE  UNCHANGED <<registry, cam, fired>>
  BY <1>8 DEF ProducerDies
<1> QED
  BY <1>u, <1>1, <1>2, <1>3, <1>4, <1>5, <1>6, <1>7, <1>8 DEF Command

LEMMA CameraStepEnters ==
  ASSUME TypeOK, ControlInv, NEW p \in Proc, CameraStep(p)
  PROVE  NoneEnters \/ Pins(p)
<1>1. CASE pc[p] # "promote"
  BY <1>1, CameraStepAdvances, NoneEntersByAdvance
<1>2. CASE pc[p] = "promote"
  <2>1. Promote(p)
    BY <1>2 DEF CameraStep, ChangeRead, ChangeSet, ClearChronic, Recover, Notify,
       PickSource, DeleteFirst, AddStream, AddStreamFails, IncrementError, NotifyLost,
       CountErrors, MarkChronic, ReportChronic, CheckProtocol, BumpStreak, Fallback,
       DropStream
  <2>2. CASE Finish(p)
    <3>1. Advance(p) /\ pc'[p] # "fallback"
      BY <2>2, FinishAdvances
    <3> QED BY <3>1 DEF Advance, NoneEnters
  <2>3. CASE /\ ~cam[loc[p].obj].force
             /\ cam' = [cam EXCEPT ![loc[p].obj].force = TRUE]
             /\ Goto(p, "fallback") /\ UNCHANGED loc
    <3>1. loc[p].obj \in Objects
      BY <1>2 DEF ControlInv, CamLabels
    <3>2. cam[loc[p].obj].force = FALSE
      BY <2>3, <3>1 DEF TypeOK, Camera
    <3>3. pc'[p] = "fallback"
      BY <2>3 DEF Goto, TypeOK
    <3> QED BY <1>2, <2>1, <2>3, <3>2, <3>3 DEF Pins, Promote, observers
  <2> QED BY <2>1, <2>2, <2>3 DEF Promote
<1> QED BY <1>1, <1>2

LEMMA OtherStepEnters ==
  ASSUME TypeOK, ControlInv,
         \/ \E p \in Owners : OwnerStep(p)
         \/ LoopStep \/ Refresh \/ HealthCheck
         \/ \E S \in SUBSET Objects : ReconnectErrored(S)
         \/ \E u \in Users : Command(u)
         \/ \E c \in Accounts : CloudChange(c)
         \/ \E n \in Names : ProducerDies(n)
  PROVE  NoneEnters
<1>0. Owners \subseteq Proc /\ Users \subseteq Owners /\ Loop \in Owners
  BY DEF Proc, Owners
<1>1. ASSUME NEW p \in Owners, OwnerStep(p) PROVE NoneEnters
  <2>1. pc[p] # "promote"
    BY <1>1 DEF OwnerStep, Fetch, Apply, MarkOffline, Unlock, ConnectAll, Wait
  <2> QED
    BY <1>0, <1>1, <2>1, OwnerStepAdvances, NoneEntersByAdvance, NoneEntersBySpawn
<1>2. CASE LoopStep \/ Refresh \/ HealthCheck
  <2>1. pc[Loop] # "promote"
    BY <1>2 DEF LoopStep, Attach, Wire, HealthCams, HealthVisit, HealthHold, HealthDone,
       Refresh, HealthCheck
  <2> QED BY <1>0, <1>2, <2>1, LoopAdvances, NoneEntersByAdvance
<1>3. ASSUME NEW S \in SUBSET Objects, ReconnectErrored(S) PROVE NoneEnters
  BY <1>0, <1>3, SpawnSpawns, NoneEntersBySpawn DEF ReconnectErrored
<1>4. ASSUME NEW u \in Users, Command(u) PROVE NoneEnters
  <2>1. pc[u] # "promote"
    BY <1>4 DEF Command, RestartStream, StartStream, StopStream, SetQuality, Rediscover,
       Callable
  <2>2. UNCHANGED <<pc, loc>> => NoneEnters
    BY DEF NoneEnters
  <2> QED BY <1>0, <1>4, <2>1, <2>2, CommandAdvances, NoneEntersByAdvance
<1>5. ASSUME NEW c \in Accounts, CloudChange(c) PROVE NoneEnters
  BY <1>5 DEF CloudChange, NoneEnters
<1>6. ASSUME NEW n \in Names, ProducerDies(n) PROVE NoneEnters
  BY <1>6 DEF ProducerDies, NoneEnters
<1> QED
  BY <1>1, <1>2, <1>3, <1>4, <1>5, <1>6

LEMMA FallbackByPin ==
  ASSUME TypeOK, ControlInv, FallbackInv, NEW p \in Proc, Advance(p), Pins(p)
  PROVE  FallbackInv'
<1> DEFINE o == loc[p].obj
<1>1. o \in Objects
  BY DEF Pins, ControlInv, CamLabels
<1>2. /\ fired' = fired /\ loc' = loc /\ cam[o].force = FALSE
      /\ cam'[o].force = TRUE
      /\ \A x \in Objects \ {o} : cam'[x].force = cam[x].force
  BY <1>1, Pinned DEF Pins
<1>3. fired[o] = 0
  BY <1>1, <1>2 DEF FallbackInv
<1>4. ASSUME NEW q \in Proc \ {p}, pc'[q] = "fallback"
      PROVE  /\ pc[q] = "fallback" /\ loc[q].obj # o /\ loc[q].obj \in Objects
             /\ fired[loc[q].obj] = 0 /\ cam[loc[q].obj].force = TRUE
  BY <1>2, <1>4 DEF Advance, FallbackInv, ControlInv, CamLabels
<1>5. \A x \in Objects : fired'[x] = 0 \/ (fired'[x] = 1 /\ cam'[x].force = TRUE)
  BY <1>2, <1>3 DEF FallbackInv
<1>6. \A q \in Proc : pc'[q] = "fallback" =>
        fired'[loc'[q].obj] = 0 /\ cam'[loc'[q].obj].force = TRUE
  BY <1>2, <1>3, <1>4
<1>7. \A q, r \in Proc : pc'[q] = "fallback" /\ pc'[r] = "fallback"
                         /\ loc'[q].obj = loc'[r].obj => q = r
  BY <1>2, <1>4, ZenonT(60) DEF FallbackInv
<1> QED
  BY <1>5, <1>6, <1>7 DEF FallbackInv

LEMMA FallbackByFire ==
  ASSUME TypeOK, ControlInv, FallbackInv, NEW p \in Proc, Advance(p), Fallback(p)
  PROVE  FallbackInv'
<1> DEFINE o == loc[p].obj
<1>1. pc[p] = "fallback" /\ o \in Objects
  BY DEF Fallback, ControlInv, CamLabels
<1>2. fired[o] = 0 /\ cam[o].force = TRUE
  BY <1>1 DEF FallbackInv
<1>3. fired' = [fired EXCEPT ![o] = 1]
  BY <1>1, <1>2 DEF Fallback, TypeOK
<1>4. SameForce(cam')
  <2>1. Touches(o)
    BY Zenon DEF Fallback, Touches
  <2> QED BY <1>1, <2>1, CamKept
<1>5. pc'[p] # "fallback"
  BY FinishAdvances DEF Fallback
<1>6. ASSUME NEW q \in Proc, pc'[q] = "fallback"
      PROVE  /\ pc[q] = "fallback" /\ loc'[q] = loc[q]
             /\ loc[q].obj # o /\ loc[q].obj \in Objects
             /\ fired[loc[q].obj] = 0 /\ cam[loc[q].obj].force = TRUE
  <2>1. q # p /\ pc[q] = "fallback" /\ loc'[q] = loc[q]
    BY <1>5, <1>6 DEF Advance
  <2>2. loc[q].obj \in Objects
    BY <2>1 DEF ControlInv, CamLabels
  <2>3. loc[q].obj # o
    BY <1>1, <2>1 DEF FallbackInv
  <2> QED BY <2>1, <2>2, <2>3 DEF FallbackInv
<1>7. fired \in [Objects -> Nat]
  BY DEF TypeOK
<1>8. \A x \in Objects : fired'[x] = 0 \/ (fired'[x] = 1 /\ cam'[x].force = TRUE)
  BY <1>2, <1>3, <1>4, <1>7 DEF FallbackInv, SameForce
<1>9. \A q \in Proc : pc'[q] = "fallback" =>
        fired'[loc'[q].obj] = 0 /\ cam'[loc'[q].obj].force = TRUE
  BY <1>3, <1>4, <1>6, <1>7 DEF SameForce
<1>10. ASSUME NEW q \in Proc, NEW r \in Proc, pc'[q] = "fallback", pc'[r] = "fallback",
              loc'[q].obj = loc'[r].obj
       PROVE  q = r
  <2>1. pc[q] = "fallback" /\ pc[r] = "fallback" /\ loc[q].obj = loc[r].obj
    BY <1>6, <1>10
  <2> QED BY <2>1 DEF FallbackInv
<1> QED
  BY <1>8, <1>9, <1>10 DEF FallbackInv

-----------------------------------------------------------------------------
(* The inductive invariant.  TypeOK needs ControlInv, for what the locals of a
   process hold, and NamedInv, for what Discover finds in the registry; the
   promotion needs FallbackInv, and the registry NamedInv.                 *)

IInv == TypeOK /\ ControlInv /\ NamedInv /\ FallbackInv /\ OneEntryPerDevice

LEMMA Initially == Init => IInv
<1> SUFFICES ASSUME Init PROVE IInv
  OBVIOUS
<1> DEFINE none == NewCamera(Nil, Nil)
<1>1. none \in Camera /\ none.force = FALSE
  BY CameraFacts DEF NewCamera
<1>2. TypeOK
  <2>0. cam \in [Objects -> Camera] /\ stream \in [Names -> Source]
    <3>1. NoStream \in Source
      BY DEF NoStream, Source, Protocols
    <3> QED BY <1>1, <3>1 DEF Init
  <2>a. cloud \in [Devices -> Names \cup {Nil}]
    BY DEF Init, ConstantsAssumption
  <2>b. found \in [Owners -> [Devices -> Names \cup {Nil}]]
    BY DEF Init
  <2>c. /\ registry \in [Names -> Objects \cup {Nil}]
        /\ todo \in [Owners -> SUBSET Objects]
    BY DEF Init
  <2>d. told \in [Names -> States] /\ alerts \in [Names -> Int] /\ fired \in [Objects -> Nat]
    BY DEF Init, States
  <2>1. DataOK
    BY <2>0, <2>a, <2>b, <2>c, <2>d DEF Init, DataOK
  <2>2. NoLoc \in Local /\ [NoLoc EXCEPT !.cmd = "boot"] \in Local
    BY LocalFacts DEF Cmds
  <2>3. pc \in [Proc -> Labels] /\ loc \in [Proc -> Local]
    BY <2>2 DEF Init, Labels
  <2> QED BY <2>1, <2>3 DEF TypeOK, DataOK
<1>3. ControlInv
  <2>1. [NoLoc EXCEPT !.cmd = "boot"].cmd = "boot"
    BY DEF NoLoc
  <2> QED BY <2>1 DEF Init, ControlInv, CamLabels, DiscoverLabels, DiscoverCmds
<1>4. NamedInv /\ OneEntryPerDevice
  BY DEF Init, NamedInv, OneEntryPerDevice
<1>5. FallbackInv
  BY DEF Init, FallbackInv
<1> QED
  BY <1>2, <1>3, <1>4, <1>5 DEF IInv

\* Discover leaves one entry per device: a listed name has a MAC listed under
\* it, and reapRenameOrphans keeps no unlisted name whose MAC is listed.
LEMMA ApplyKeepsRegistry ==
  ASSUME IInv, NEW p \in Owners, NEW seen, NEW last, Applied(p, seen, last)
  PROVE  NamedInv' /\ OneEntryPerDevice'
<1> USE DEF IInv
<1>1. NamedInv'
  <2>1. ASSUME NEW n \in Names, registry'[n] # Nil PROVE cam'[registry'[n]].name = n
    <3>1. CASE n \in seen
      BY <3>1 DEF Applied
    <3>2. CASE n \in Names \ seen
      BY <2>1, <3>2 DEF Applied, NamedInv
    <3> QED BY <3>1, <3>2
  <2> QED BY <2>1 DEF NamedInv
<1>2. ASSUME NEW m \in seen, NEW n \in Names \ seen, registry'[n] # Nil
      PROVE  cam'[registry'[m]].mac # cam'[registry'[n]].mac
  <2>1. found[p][cam'[registry'[m]].mac] = m /\ m \in Names
    BY DEF Applied
  <2>2. found[p][cam'[registry'[n]].mac] = Nil
    BY <1>2 DEF Applied
  <2> QED BY <2>1, <2>2
<1>3. ASSUME NEW m \in seen, NEW n \in seen,
             cam'[registry'[m]].mac = cam'[registry'[n]].mac
      PROVE  m = n
  BY <1>3 DEF Applied
<1>4. ASSUME NEW m \in Names \ seen, NEW n \in Names \ seen,
             registry'[m] # Nil, registry'[n] # Nil,
             cam'[registry'[m]].mac = cam'[registry'[n]].mac
      PROVE  m = n
  <2>1. /\ registry'[m] = registry[m] /\ cam'[registry'[m]] = cam[registry[m]]
        /\ registry'[n] = registry[n] /\ cam'[registry'[n]] = cam[registry[n]]
    BY <1>4 DEF Applied
  <2> QED BY <1>4, <2>1 DEF OneEntryPerDevice
<1>5. seen \subseteq Names
  BY DEF Applied
<1> QED
  BY <1>1, <1>2, <1>3, <1>4, <1>5 DEF OneEntryPerDevice

LEMMA IdentityKeepsRegistry ==
  ASSUME TypeOK, NamedInv, OneEntryPerDevice, KeepsIdentity
  PROVE  NamedInv' /\ OneEntryPerDevice'
<1>1. \A n \in Names : registry'[n] = registry[n]
  BY DEF KeepsIdentity
<1>2. \A n \in Names : registry[n] # Nil =>
        /\ registry[n] \in Objects
        /\ cam'[registry[n]].name = cam[registry[n]].name
        /\ cam'[registry[n]].mac = cam[registry[n]].mac
  BY DEF KeepsIdentity, SameNames, TypeOK
<1> QED
  BY <1>1, <1>2 DEF NamedInv, OneEntryPerDevice

LEMMA Preserved == IInv /\ [Next]_vars => IInv'
<1> SUFFICES ASSUME IInv, [Next]_vars PROVE IInv'
  OBVIOUS
<1>i. TypeOK /\ ControlInv /\ NamedInv /\ FallbackInv /\ OneEntryPerDevice
  BY DEF IInv
<1>c. ControlInv' /\ pc' \in [Proc -> Labels] /\ loc' \in [Proc -> Local]
  BY <1>i, ControlPreserved
<1>s. SUFFICES DataOK' /\ NamedInv' /\ FallbackInv' /\ OneEntryPerDevice'
  BY <1>c DEF IInv, TypeOK, DataOK
<1>k. ASSUME KeepsPromotion, NoneEnters PROVE FallbackInv'
  <2>1. \A o \in Objects : fired'[o] = fired[o] /\ cam'[o].force = cam[o].force
    BY <1>k DEF KeepsPromotion, SameForce
  <2> QED BY <1>i, <1>k, <2>1, FallbackKept
<1>1. ASSUME NEW p \in Proc, CameraStep(p)
      PROVE  DataOK' /\ NamedInv' /\ FallbackInv' /\ OneEntryPerDevice'
  <2>1. DataOK' /\ Advance(p)
    BY <1>i, <1>1, CameraStepData, CameraStepAdvances
  <2>2. KeepsIdentity /\ (KeepsPromotion \/ Pins(p) \/ Fallback(p))
    BY <1>i, <1>1, CameraStepFrame
  <2>3. NoneEnters \/ Pins(p)
    BY <1>i, <1>1, CameraStepEnters
  <2>4. FallbackInv'
    BY <1>i, <1>k, <2>1, <2>2, <2>3, FallbackByPin, FallbackByFire
  <2> QED BY <1>i, <2>1, <2>2, <2>4, IdentityKeepsRegistry
<1>2. ASSUME NEW p \in Owners, Apply(p)
      PROVE  DataOK' /\ NamedInv' /\ FallbackInv' /\ OneEntryPerDevice'
  <2>1. /\ DataOK'
        /\ \E seen, last : Applied(p, seen, last)
        /\ \A o \in Objects : \/ o \in Free /\ fired'[o] = 0
                              \/ fired'[o] = fired[o] /\ cam'[o].force = cam[o].force
    BY <1>i, <1>2, ApplyEffect
  <2>2. NoneEnters
    BY <1>i, <1>2, OtherStepEnters DEF OwnerStep
  <2>3. FallbackInv'
    BY <1>i, <2>1, <2>2, FallbackKept
  <2> QED BY <2>1, <2>3, ApplyKeepsRegistry
<1>3. ASSUME NEW p \in Owners,
             Fetch(p) \/ MarkOffline(p) \/ Unlock(p) \/ ConnectAll(p) \/ Wait(p)
      PROVE  DataOK' /\ KeepsIdentity /\ KeepsPromotion /\ NoneEnters
  BY <1>i, <1>3, OwnerStepData, OtherStepFrame, OtherStepEnters DEF OwnerStep
<1>4. CASE \/ LoopStep \/ Refresh \/ HealthCheck
           \/ \E S \in SUBSET Objects : ReconnectErrored(S)
  BY <1>i, <1>k, <1>4, LoopData, OtherStepFrame, OtherStepEnters, IdentityKeepsRegistry
<1>5. CASE \/ \E u \in Users : Command(u)
           \/ \E c \in Accounts : CloudChange(c)
           \/ \E n \in Names : ProducerDies(n)
  BY <1>i, <1>k, <1>5, OutsideData, OtherStepFrame, OtherStepEnters, IdentityKeepsRegistry
<1>6. CASE UNCHANGED vars
  <2>1. DataOK' /\ KeepsIdentity /\ KeepsPromotion /\ NoneEnters
    BY <1>i, <1>6 DEF vars, objVars, bootVars, go2rtc, ownerVars, observers, TypeOK, DataOK,
       KeepsIdentity, KeepsPromotion, SameNames, SameForce, NoneEnters
  <2> QED BY <1>i, <1>k, <2>1, IdentityKeepsRegistry
<1>7. ASSUME NEW p \in Owners, OwnerStep(p)
      PROVE  DataOK' /\ NamedInv' /\ FallbackInv' /\ OneEntryPerDevice'
  BY <1>i, <1>k, <1>2, <1>3, <1>7, IdentityKeepsRegistry DEF OwnerStep
<1> QED
  BY <1>1, <1>4, <1>5, <1>6, <1>7 DEF Next

LEMMA Inductive == Spec => []IInv
  BY Initially, Preserved, PTL DEF Spec

(* Every variable keeps its type, whatever the interleaving. *)
THEOREM TypeCorrect == Spec => []TypeOK
<1>1. IInv => TypeOK
  BY DEF IInv
<1> QED
  BY <1>1, Inductive, PTL

(* recordTUTKFailure: the fallback callback is called at most once for a camera
   object, and only for one pinned to WebRTC, however many goroutines see
   its failures (camera.go:127-144, manager.go:615-650).                   *)
THEOREM OnceEach == Spec => []FallbackOnce
<1>1. IInv => FallbackOnce
  BY DEF IInv, FallbackInv, FallbackOnce, TypeOK
<1> QED
  BY <1>1, Inductive, PTL

(* Discover with reapRenameOrphans: no two names of the registry stand for one
   physical camera, whatever lists the account returns and in whichever order
   concurrent discoveries apply them (manager.go:156-230, 447-474).        *)
THEOREM OneEntry == Spec => []OneEntryPerDevice
<1>1. IInv => OneEntryPerDevice
  BY DEF IInv
<1> QED
  BY <1>1, Inductive, PTL

-----------------------------------------------------------------------------
(* Who is where.                                                           *)

\* Until go2rtc is attached main() is the only goroutine in the manager and
\* connects nothing, unless a command is accepted that early.
BootInv ==
  ~attached =>
    /\ ~wired
    /\ \A p \in Proc \ {Loop} : pc[p] = "idle"
    /\ loc[Loop].cmd = "boot"
    /\ pc[Loop] \in {"fetch", "apply", "mark", "read", "set", "notify", "attach"}
    /\ pc[Loop] \in {"read", "set", "notify"} => loc[Loop].goal = "Offline"

\* SetQuality deletes and adds, it changes no state.
QualityInv == \A p \in Proc : loc[p].cmd = "quality" => pc[p] \in {"delete", "add"}

\* The goroutines of ConnectAll and reconnectErrored run only while their
\* starter waits for them.
WorkersInv ==
  \A p \in Owners, o \in Objects :
    pc[<<p, o>>] # "idle" => pc[p] = "wait" /\ o \in todo[p]

\* What p does outside the operations on one camera.
Orderly(p) ==
  /\ loc'[p].cmd = "quality" => pc'[p] \in {"delete", "add"}
  /\ pc'[p] \notin {"report", "recover"}

\* Where a process is in the middle of an operation on a camera.
BusyLabels == CamLabels \ {"hold"}

\* Whoever is in such an operation stays where it is, and nobody gets to a
\* callback about chronic errors.
Undisturbed ==
  \A q \in Proc : /\ pc[q] \in BusyLabels => pc'[q] = pc[q] /\ loc'[q] = loc[q]
                  /\ pc'[q] \in {"report", "recover"} => pc[q] = pc'[q]

LEMMA LocFields ==
  ASSUME TypeOK, NEW p \in Proc, NEW v
  PROVE  /\ [loc EXCEPT ![p].goal = v][p].obj = loc[p].obj
         /\ [loc EXCEPT ![p].goal = v][p].cmd = loc[p].cmd
         /\ [loc EXCEPT ![p].goal = v][p].goal = v
         /\ [loc EXCEPT ![p].src = v][p].obj = loc[p].obj
         /\ [loc EXCEPT ![p].src = v][p].cmd = loc[p].cmd
         /\ [loc EXCEPT ![p].src = v][p].goal = loc[p].goal
         /\ [loc EXCEPT ![p].old = v][p].obj = loc[p].obj
         /\ [loc EXCEPT ![p].old = v][p].cmd = loc[p].cmd
         /\ [loc EXCEPT ![p].old = v][p].goal = loc[p].goal
         /\ [loc EXCEPT ![p].obj = v][p].cmd = loc[p].cmd
         /\ [loc EXCEPT ![p].obj = v][p].goal = loc[p].goal
         /\ [loc EXCEPT ![p].cmd = v][p].goal = loc[p].goal
<1>1. loc \in [Proc -> Local]
  BY DEF TypeOK
<1>2. loc[p] \in Local
  BY <1>1
<1> QED
  BY <1>1, <1>2 DEF Local

LEMMA FinishOrderly ==
  ASSUME TypeOK, NEW p \in Proc, Finish(p)
  PROVE  Orderly(p) /\ loc'[p].cmd \in {"none", "health"} /\ pc'[p] \in {"check", "idle"}
<1>1. NoLoc.cmd = "none" /\ [NoLoc EXCEPT !.cmd = "health"].cmd = "health"
  BY DEF NoLoc
<1>2. PICK l \in {"check", "idle"}, v \in {NoLoc, [NoLoc EXCEPT !.cmd = "health"]} :
         pc' = [pc EXCEPT ![p] = l] /\ loc' = [loc EXCEPT ![p] = v]
  BY DEF Finish, Goto
<1>3. pc'[p] = l /\ loc'[p] = v
  BY <1>2 DEF TypeOK
<1> QED
  BY <1>1, <1>3 DEF Orderly

LEMMA GotoOrderly ==
  ASSUME TypeOK, QualityInv, NEW p \in Proc, pc[p] \notin {"delete", "add"},
         NEW l \in Labels \ {"report", "recover"}, Goto(p, l), loc'[p].cmd = loc[p].cmd
  PROVE  Orderly(p) /\ pc'[p] = l
<1>1. pc'[p] = l
  BY DEF Goto, TypeOK
<1> QED
  BY <1>1 DEF Orderly, QualityInv

LEMMA AfterDiscoverOrderly ==
  ASSUME TypeOK, ControlInv, QualityInv, NEW p \in Proc, pc[p] \in DiscoverLabels,
         AfterDiscover(p)
  PROVE  Orderly(p) /\ loc' = loc /\ pc'[p] \in {"attach", "gather"}
         /\ (loc[p].cmd = "boot" => pc'[p] = "attach")
<1>1. loc[p].cmd \in DiscoverCmds
  BY DEF ControlInv
<1>2. UNCHANGED loc /\ \E l \in {"attach", "gather"} :
        Goto(p, l) /\ (loc[p].cmd = "boot" => l = "attach")
  BY <1>1 DEF AfterDiscover, DiscoverCmds
<1>3. PICK l \in {"attach", "gather"} : Goto(p, l) /\ (loc[p].cmd = "boot" => l = "attach")
  BY <1>2
<1>4. pc'[p] = l
  BY <1>3 DEF Goto, TypeOK
<1> QED
  BY <1>2, <1>3, <1>4 DEF Orderly, QualityInv, DiscoverLabels

(* Return from changeState. *)
LEMMA ReturnOrderly ==
  ASSUME TypeOK, QualityInv, NEW p \in Proc, pc[p] \in {"read", "notify"}, Return(p)
  PROVE  /\ Orderly(p)
         /\ loc[p].goal = "Connecting" => pc'[p] = "source" /\ loc' = loc
         /\ loc[p].goal = "Offline" /\ loc[p].cmd = "boot" =>
              pc'[p] = "mark" /\ loc'[p].cmd = "boot"
<1>q. loc[p].cmd # "quality"
  BY DEF QualityInv
<1>1. CASE loc[p].goal = "Connecting"
  <2>1. Goto(p, "source") /\ loc' = loc
    BY <1>1 DEF Return
  <2>2. pc'[p] = "source"
    BY <2>1 DEF Goto, TypeOK
  <2> QED BY <1>1, <1>q, <2>1, <2>2 DEF Orderly
<1>2. CASE loc[p].goal = "Offline" /\ loc[p].cmd \in {"restart", "start"}
  <2>1. Goto(p, "read") /\ loc' = [loc EXCEPT ![p].goal = "Connecting"]
    BY <1>2 DEF Return, DiscoverCmds
  <2>2. pc'[p] = "read" /\ loc'[p].cmd = loc[p].cmd
    BY <2>1, LocFields DEF Goto, TypeOK
  <2> QED BY <1>2, <1>q, <2>2 DEF Orderly
<1>3. CASE loc[p].goal = "Offline" /\ loc[p].cmd \in DiscoverCmds
  <2>1. Goto(p, "mark") /\ loc' = [loc EXCEPT ![p].obj = Nil]
    BY <1>3 DEF Return, DiscoverCmds
  <2>2. pc'[p] = "mark" /\ loc'[p].cmd = loc[p].cmd
    BY <2>1, LocFields DEF Goto, TypeOK
  <2> QED BY <1>3, <1>q, <2>2 DEF Orderly
<1>4. CASE /\ loc[p].goal # "Connecting"
           /\ ~(loc[p].goal = "Offline" /\ loc[p].cmd \in {"restart", "start"})
           /\ ~(loc[p].goal = "Offline" /\ loc[p].cmd \in DiscoverCmds)
  <2>1. Finish(p)
    BY <1>4 DEF Return, DiscoverCmds
  <2> QED BY <1>4, <2>1, FinishOrderly DEF DiscoverCmds
<1> QED
  BY <1>1, <1>2, <1>3, <1>4

-----------------------------------------------------------------------------
(* Every attempt at a connection ends in a verdict.                        *)

\* p leaves the cameras it will give a verdict on as they should be: o is set to
\* Connecting only by a process that goes on to connect it, and such a process
\* goes on or gives its verdict.
Answers(p) ==
  \A o \in Objects :
    /\ cam'[o].state = "Connecting" => cam[o].state = "Connecting" \/ Resolves(p, o)'
    /\ Resolves(p, o) => Resolves(p, o)' \/ cam'[o].state # "Connecting"

\* The labels of a process that will give a verdict.
VerdictLabels == {"notify", "source", "delete", "add", "fail", "read", "set"}

\* A step on a camera that leaves all states alone and starts at none of these labels.
LEMMA AnswersElsewhere ==
  ASSUME NEW p \in Proc, pc[p] \notin VerdictLabels,
         \A o \in Objects : cam'[o].state = cam[o].state
  PROVE  Answers(p)
  BY DEF Answers, Resolves, VerdictLabels

\* Camera o gets state s, and no other camera another state.
SetsState(o, s) ==
  \/ cam' = [cam EXCEPT ![o].state = s]
  \/ cam' = [cam EXCEPT ![o].errors = @ + 1, ![o].state = s]
  \/ cam' = [cam EXCEPT ![o].state = s, ![o].errors = 0, ![o].streak = 0]

LEMMA StateSet ==
  ASSUME TypeOK, NEW o \in Objects, NEW s \in States, SetsState(o, s)
  PROVE  cam'[o].state = s /\ \A x \in Objects \ {o} : cam'[x].state = cam[x].state
<1>1. cam \in [Objects -> Camera] /\ cam[o] \in Camera
  BY DEF TypeOK
<1>2. CASE cam' = [cam EXCEPT ![o].state = s]
  BY <1>1, <1>2 DEF Camera
<1>3. CASE cam' = [cam EXCEPT ![o].errors = @ + 1, ![o].state = s]
  BY <1>1, <1>3 DEF Camera
<1>4. CASE cam' = [cam EXCEPT ![o].state = s, ![o].errors = 0, ![o].streak = 0]
  BY <1>1, <1>4 DEF Camera
<1> QED
  BY <1>2, <1>3, <1>4 DEF SetsState

\* What a step does to a camera when it leaves its state alone.
Spares(o) ==
  \/ cam' = cam
  \/ \E v : \/ cam' = [cam EXCEPT ![o].streak = v]
           \/ cam' = [cam EXCEPT ![o].force = v]
           \/ cam' = [cam EXCEPT ![o].qual = v]

LEMMA StateSpared ==
  ASSUME TypeOK, NEW o \in Objects, Spares(o)
  PROVE  \A x \in Objects : cam'[x].state = cam[x].state
<1>1. cam \in [Objects -> Camera] /\ cam[o] \in Camera
  BY DEF TypeOK
<1>2. ASSUME NEW v, \/ cam' = [cam EXCEPT ![o].streak = v]
                    \/ cam' = [cam EXCEPT ![o].force = v]
                    \/ cam' = [cam EXCEPT ![o].qual = v]
      PROVE  \A x \in Objects : cam'[x].state = cam[x].state
  BY <1>1, <1>2 DEF Camera
<1> QED
  BY <1>2 DEF Spares

LEMMA ChangeReadAnswers ==
  ASSUME TypeOK, ControlInv, QualityInv, NEW p \in Proc, ChangeRead(p)
  PROVE  Answers(p) /\ Orderly(p)
<1> DEFINE x == loc[p].obj
<1>1. pc[p] = "read" /\ cam' = cam /\ x \in Objects /\ loc[p].cmd # "quality"
  BY DEF ChangeRead, objVars, ControlInv, CamLabels, QualityInv
<1>2. CASE cam[x].state = loc[p].goal /\ Return(p)
  <2>1. ASSUME NEW o \in Objects, Resolves(p, o) PROVE cam'[o].state # "Connecting"
    <3>1. o = x /\ loc[p].goal = "Streaming"
      BY <1>1, <2>1 DEF Resolves
    <3> QED BY <1>1, <1>2, <3>1
  <2>2. Orderly(p)
    BY <1>1, <1>2, ReturnOrderly
  <2> QED BY <1>1, <2>1, <2>2 DEF Answers
<1>3. CASE Goto(p, "set") /\ loc' = [loc EXCEPT ![p].old = cam[x].state]
  <2>1. pc'[p] = "set"
    BY <1>3 DEF Goto, TypeOK
  <2>2. loc'[p].obj = x /\ loc'[p].cmd = loc[p].cmd /\ loc'[p].goal = loc[p].goal
    BY <1>3, LocFields
  <2>3. ASSUME NEW o \in Objects, Resolves(p, o) PROVE Resolves(p, o)'
    BY <1>1, <2>1, <2>2, <2>3 DEF Resolves
  <2> QED BY <1>1, <2>1, <2>2, <2>3 DEF Answers, Orderly
<1> QED
  BY <1>2, <1>3 DEF ChangeRead

LEMMA ChangeSetAnswers ==
  ASSUME TypeOK, ControlInv, QualityInv, NEW p \in Proc, ChangeSet(p)
  PROVE  Answers(p) /\ Orderly(p)
<1> DEFINE x == loc[p].obj
<1>1. pc[p] = "set" /\ loc' = loc /\ x \in Objects /\ loc[p].cmd # "quality"
  BY DEF ChangeSet, ControlInv, CamLabels, QualityInv
<1>2. loc[p].goal \in States
  BY DEF TypeOK, Local
<1>3. /\ cam'[x].state = loc[p].goal
      /\ \A o \in Objects \ {x} : cam'[o].state = cam[o].state
  <2>1. SetsState(x, loc[p].goal)
    BY Zenon DEF ChangeSet, SetsState
  <2> QED BY <1>1, <1>2, <2>1, StateSet
<1>4. pc'[p] \in {"clear", "notify"} /\ (loc[p].goal # "Streaming" => pc'[p] = "notify")
  BY DEF ChangeSet, Goto, TypeOK
<1>5. ASSUME NEW o \in Objects, cam'[o].state = "Connecting"
      PROVE  cam[o].state = "Connecting" \/ Resolves(p, o)'
  <2>1. CASE o # x
    BY <1>3, <1>5, <2>1
  <2>2. CASE o = x
    <3>1. loc'[p].goal = "Connecting" /\ loc'[p].obj = o /\ pc'[p] = "notify"
      BY <1>1, <1>3, <1>4, <1>5, <2>2
    <3> QED BY <3>1 DEF Resolves
  <2> QED BY <2>1, <2>2
<1>6. ASSUME NEW o \in Objects, Resolves(p, o) PROVE cam'[o].state # "Connecting"
  <2>1. o = x /\ loc[p].goal = "Streaming"
    BY <1>1, <1>6 DEF Resolves
  <2> QED BY <1>3, <2>1
<1> QED
  BY <1>1, <1>4, <1>5, <1>6 DEF Answers, Orderly

LEMMA NotifyAnswers ==
  ASSUME TypeOK, ControlInv, QualityInv, NEW p \in Proc, Notify(p)
  PROVE  Answers(p) /\ Orderly(p)
<1>1. pc[p] = "notify" /\ Return(p) /\ cam' = cam /\ loc[p].cmd # "quality"
  BY DEF Notify, objVars, QualityInv
<1>2. Orderly(p) /\ (loc[p].goal = "Connecting" => pc'[p] = "source" /\ loc' = loc)
  BY <1>1, ReturnOrderly
<1>3. ASSUME NEW o \in Objects, Resolves(p, o) PROVE Resolves(p, o)'
  BY <1>1, <1>2, <1>3 DEF Resolves
<1> QED
  BY <1>1, <1>2, <1>3 DEF Answers

\* On the way to go2rtc nothing is decided.
LEMMA OnTheWayAnswers ==
  ASSUME TypeOK, ControlInv, QualityInv, NEW p \in Proc,
         pc[p] \in {"source", "delete", "add"}, cam' = cam,
         NEW l \in {"delete", "add", "fail"}, Goto(p, l),
         loc'[p].obj = loc[p].obj, loc'[p].cmd = loc[p].cmd,
         l = "fail" => loc[p].cmd # "quality"
  PROVE  Answers(p) /\ Orderly(p)
<1>1. pc'[p] = l
  BY DEF Goto, TypeOK, Labels
<1>2. ASSUME NEW o \in Objects, Resolves(p, o) PROVE Resolves(p, o)'
  BY <1>1, <1>2 DEF Resolves
<1> QED
  BY <1>1, <1>2 DEF Answers, Orderly

LEMMA PickSourceAnswers ==
  ASSUME TypeOK, ControlInv, QualityInv, NEW p \in Proc, PickSource(p), attached
  PROVE  Answers(p) /\ Orderly(p)
<1>1. pc[p] = "source" /\ cam' = cam
  BY Zenon DEF PickSource, objVars
<1>2. \E l \in {"add", "delete"} : Goto(p, l)
  BY DEF PickSource
<1>3. loc'[p].obj = loc[p].obj /\ loc'[p].cmd = loc[p].cmd
  <2>1. \E v : loc' = [loc EXCEPT ![p].src = v]
    BY Zenon DEF PickSource
  <2> QED BY <2>1, LocFields
<1> QED
  BY <1>1, <1>2, <1>3, OnTheWayAnswers

LEMMA DeleteFirstAnswers ==
  ASSUME TypeOK, ControlInv, QualityInv, NEW p \in Proc, DeleteFirst(p)
  PROVE  Answers(p) /\ Orderly(p)
<1>1. pc[p] = "delete" /\ cam' = cam /\ Goto(p, "add")
  BY DEF DeleteFirst, objVars
<1>2. loc' = loc \/ \E v : loc' = [loc EXCEPT ![p].src = v]
  BY Zenon DEF DeleteFirst
<1>3. loc'[p].obj = loc[p].obj /\ loc'[p].cmd = loc[p].cmd
  <2>1. ASSUME NEW v, loc' = [loc EXCEPT ![p].src = v]
        PROVE  loc'[p].obj = loc[p].obj /\ loc'[p].cmd = loc[p].cmd
    BY <2>1, LocFields
  <2> QED BY <1>2, <2>1
<1> QED
  BY <1>1, <1>3, OnTheWayAnswers

LEMMA AddStreamAnswers ==
  ASSUME TypeOK, ControlInv, QualityInv, NEW p \in Proc, AddStream(p) \/ AddStreamFails(p)
  PROVE  Answers(p) /\ Orderly(p)
<1>1. pc[p] = "add" /\ cam' = cam
  BY DEF AddStream, AddStreamFails, objVars
<1>2. CASE loc[p].cmd = "quality" /\ Finish(p)
  <2>1. \A o \in Objects : ~Resolves(p, o)
    BY <1>1, <1>2 DEF Resolves
  <2>2. Orderly(p)
    BY <1>2, FinishOrderly
  <2> QED BY <1>1, <2>1, <2>2 DEF Answers
<1>3. CASE /\ loc[p].cmd # "quality" /\ Goto(p, "read")
           /\ loc' = [loc EXCEPT ![p].goal = "Streaming"]
  <2>1. pc'[p] = "read"
    BY <1>3 DEF Goto, TypeOK
  <2>2. loc'[p].obj = loc[p].obj /\ loc'[p].cmd = loc[p].cmd /\ loc'[p].goal = "Streaming"
    BY <1>3, LocFields
  <2>3. ASSUME NEW o \in Objects, Resolves(p, o) PROVE Resolves(p, o)'
    BY <2>1, <2>2, <2>3 DEF Resolves
  <2> QED BY <1>1, <1>3, <2>1, <2>2, <2>3 DEF Answers, Orderly
<1>4. CASE loc[p].cmd # "quality" /\ Goto(p, "fail") /\ UNCHANGED loc
  BY <1>1, <1>4, OnTheWayAnswers
<1> QED
  BY <1>2, <1>3, <1>4 DEF AddStream, AddStreamFails

LEMMA IncrementErrorAnswers ==
  ASSUME TypeOK, ControlInv, QualityInv, NEW p \in Proc, IncrementError(p)
  PROVE  Answers(p) /\ Orderly(p)
<1> DEFINE x == loc[p].obj
<1>1. pc[p] = "fail" /\ loc' = loc /\ x \in Objects /\ loc[p].cmd # "quality"
  BY DEF IncrementError, ControlInv, CamLabels, QualityInv
<1>2. cam'[x].state = "Error" /\ \A o \in Objects \ {x} : cam'[o].state = cam[o].state
  <2>1. SetsState(x, "Error")
    BY Zenon DEF IncrementError, SetsState
  <2>2. "Error" \in States
    BY DEF States
  <2> QED BY <1>1, <2>1, <2>2, StateSet
<1>3. pc'[p] \in {"lost", "count"}
  BY DEF IncrementError, Goto, TypeOK
<1>4. \A o \in Objects : Resolves(p, o) => o = x
  BY DEF Resolves
<1> QED
  BY <1>1, <1>2, <1>3, <1>4 DEF Answers, Orderly

\* The steps of an operation that come after a verdict, or before a change.
LEMMA AfterwardsAnswers ==
  ASSUME TypeOK, ControlInv, QualityInv, NEW p \in Proc,
         \/ Recover(p) \/ NotifyLost(p) \/ CountErrors(p) \/ ReportChronic(p)
         \/ CheckProtocol(p) \/ BumpStreak(p) \/ Promote(p) \/ Fallback(p) \/ DropStream(p)
  PROVE  Answers(p) /\ Orderly(p)
<1> USE DEF objVars
<1>1. /\ pc[p] \in BusyLabels \ VerdictLabels
      /\ pc[p] \notin {"delete", "add"}
  BY DEF Recover, NotifyLost, CountErrors, ReportChronic, CheckProtocol, BumpStreak,
     Promote, Fallback, DropStream, BusyLabels, CamLabels, VerdictLabels
<1>2. loc[p].obj \in Objects
  BY <1>1 DEF ControlInv, BusyLabels
<1>3. Spares(loc[p].obj)
  <2>1. CASE Recover(p) \/ NotifyLost(p) \/ CountErrors(p) \/ ReportChronic(p)
             \/ CheckProtocol(p) \/ DropStream(p)
    BY <2>1 DEF Recover, NotifyLost, CountErrors, ReportChronic, CheckProtocol,
       DropStream, Spares
  <2>2. CASE BumpStreak(p)
    BY <2>2, Zenon DEF BumpStreak, Spares
  <2>3. CASE Promote(p)
    BY <2>3, Zenon DEF Promote, Spares
  <2>4. CASE Fallback(p)
    BY <2>4, Zenon DEF Fallback, Spares
  <2> QED BY <2>1, <2>2, <2>3, <2>4
<1>4. Answers(p)
  BY <1>1, <1>2, <1>3, StateSpared, AnswersElsewhere
<1>5. Finish(p) \/ \E l \in Labels \ {"report", "recover"} : Goto(p, l) /\ UNCHANGED loc
  <2>1. CASE Recover(p)
    BY <2>1 DEF Recover, Labels
  <2>2. CASE NotifyLost(p)
    BY <2>2 DEF NotifyLost, Labels
  <2>3. CASE CountErrors(p)
    BY <2>3 DEF CountErrors, Labels
  <2>4. CASE ReportChronic(p)
    BY <2>4 DEF ReportChronic, Labels
  <2>5. CASE CheckProtocol(p)
    BY <2>5 DEF CheckProtocol, Labels
  <2>6. CASE BumpStreak(p)
    BY <2>6 DEF BumpStreak, Labels
  <2>7. CASE Promote(p)
    BY <2>7 DEF Promote, Labels
  <2>8. CASE Fallback(p)
    BY <2>8 DEF Fallback
  <2>9. CASE DropStream(p)
    BY <2>9 DEF DropStream, Labels
  <2> QED BY <2>1, <2>2, <2>3, <2>4, <2>5, <2>6, <2>7, <2>8, <2>9
<1>6. Orderly(p)
  BY <1>1, <1>5, FinishOrderly, GotoOrderly
<1> QED BY <1>4, <1>6

\* Chronic errors are marked and cleared between operations on the state.
LEMMA ChronicAnswers ==
  ASSUME TypeOK, NEW p \in Proc, MarkChronic(p) \/ ClearChronic(p)
  PROVE  Answers(p) /\ loc' = loc /\ pc[p] \in {"chronic", "clear"}
<1>1. cam' = cam /\ loc' = loc /\ pc[p] \in {"chronic", "clear"}
  BY DEF MarkChronic, ClearChronic
<1> QED
  BY <1>1, AnswersElsewhere DEF VerdictLabels

LEMMA PickSourceOrderly ==
  ASSUME TypeOK, ControlInv, QualityInv, NEW p \in Proc, PickSource(p)
  PROVE  Orderly(p)
<1>1. CASE attached
  BY <1>1, PickSourceAnswers
<1>2. CASE ~attached
  BY <1>2, FinishOrderly DEF PickSource
<1> QED
  BY <1>1, <1>2

LEMMA CameraStepAnswers ==
  ASSUME TypeOK, ControlInv, QualityInv, NEW p \in Proc, CameraStep(p),
         pc[p] = "source" => attached
  PROVE  Answers(p)
<1>1. PickSource(p) => attached
  BY DEF PickSource
<1> QED
  BY <1>1, ChangeReadAnswers, ChangeSetAnswers, NotifyAnswers, PickSourceAnswers,
     DeleteFirstAnswers, AddStreamAnswers, IncrementErrorAnswers, AfterwardsAnswers,
     ChronicAnswers DEF CameraStep

LEMMA CameraStepOrderly ==
  ASSUME TypeOK, ControlInv, QualityInv, NEW p \in Proc, CameraStep(p)
  PROVE  Orderly(p) \/ MarkChronic(p) \/ ClearChronic(p)
BY ChangeReadAnswers, ChangeSetAnswers, NotifyAnswers, PickSourceOrderly,
   DeleteFirstAnswers, AddStreamAnswers, IncrementErrorAnswers, AfterwardsAnswers
   DEF CameraStep

LEMMA CameraStepQuality ==
  ASSUME TypeOK, ControlInv, QualityInv, NEW p \in Proc, CameraStep(p)
  PROVE  QualityInv'
<1>1. loc'[p].cmd = "quality" => pc'[p] \in {"delete", "add"}
  <2>1. CASE Orderly(p)
    BY <2>1 DEF Orderly
  <2>2. CASE MarkChronic(p) \/ ClearChronic(p)
    BY <2>2, ChronicAnswers DEF QualityInv
  <2> QED BY <2>1, <2>2, CameraStepOrderly
<1>2. Advance(p)
  BY CameraStepAdvances
<1> QED
  BY <1>1, <1>2 DEF QualityInv, Advance

-----------------------------------------------------------------------------
(* The steps that are not part of an operation on a camera.                *)

\* Nobody but p moves.
Alone(p) == \A q \in Proc \ {p} : pc'[q] = pc[q] /\ loc'[q] = loc[q]

LEMMA GotoAlone ==
  ASSUME TypeOK, NEW p \in Proc, NEW l, Goto(p, l),
         loc' = loc \/ \E v : loc' = [loc EXCEPT ![p] = v]
  PROVE  Alone(p) /\ pc'[p] = l
  BY DEF Goto, Alone, TypeOK

LEMMA FinishAlone ==
  ASSUME TypeOK, NEW p \in Proc, Finish(p)
  PROVE  Alone(p)
  BY DEF Finish, Goto, Alone, TypeOK

\* p, who is not in the middle of such an operation, moves on in order.
LEMMA UndisturbedAlone ==
  ASSUME NEW p \in Proc, pc[p] \notin BusyLabels, Alone(p), Orderly(p), QualityInv
  PROVE  Undisturbed /\ QualityInv'
  BY DEF Undisturbed, Alone, Orderly, QualityInv

LEMMA SpawnFacts ==
  ASSUME TypeOK, WorkersInv, NEW p \in Owners, NEW S \in SUBSET Objects, Spawn(p, S),
         pc[p] # "wait", pc[p] \notin BusyLabels
  PROVE  /\ todo' = [todo EXCEPT ![p] = S]
         /\ \A o \in Objects :
              /\ pc[<<p, o>>] = "idle"
              /\ o \in S => pc'[<<p, o>>] = "read" /\ loc'[<<p, o>>].cmd = "connect"
              /\ o \notin S => pc'[<<p, o>>] = pc[<<p, o>>] /\ loc'[<<p, o>>] = loc[<<p, o>>]
         /\ pc'[p] = "wait" /\ loc'[p] = loc[p]
         /\ \A q \in Proc : (q # p /\ \A o \in S : q # <<p, o>>) =>
              pc'[q] = pc[q] /\ loc'[q] = loc[q]
<1> DEFINE W == {<<p, o>> : o \in S}
           v(q) == [NoLoc EXCEPT !.cmd = "connect", !.obj = q[2], !.goal = "Connecting"]
<1>1. \A q : v(q).cmd = "connect"
  BY DEF NoLoc
<1> HIDE DEF v
<1>2. /\ pc' = [q \in Proc |-> IF q \in W THEN "read" ELSE IF q = p THEN "wait" ELSE pc[q]]
      /\ loc' = [q \in Proc |-> IF q \in W THEN v(q) ELSE loc[q]]
      /\ todo' = [todo EXCEPT ![p] = S]
  BY DEF Spawn, v
<1>3. \A o \in Objects : <<p, o>> \in Workers /\ <<p, o>> \in Proc /\ <<p, o>> # p
  BY DEF Workers, Proc
<1>4. p \in Proc /\ p \notin W
  BY <1>3 DEF Proc
<1>5. \A o \in Objects : <<p, o>> \in W <=> o \in S
  OBVIOUS
<1>6. \A o \in Objects : pc[<<p, o>>] = "idle"
  BY DEF WorkersInv
<1>7. ASSUME NEW o \in Objects
      PROVE  /\ o \in S => pc'[<<p, o>>] = "read" /\ loc'[<<p, o>>].cmd = "connect"
             /\ o \notin S => pc'[<<p, o>>] = pc[<<p, o>>] /\ loc'[<<p, o>>] = loc[<<p, o>>]
  BY <1>1, <1>2, <1>3, <1>5
<1>8. pc'[p] = "wait" /\ loc'[p] = loc[p]
  BY <1>2, <1>4
<1>9. ASSUME NEW q \in Proc, q # p, \A o \in S : q # <<p, o>>
      PROVE  pc'[q] = pc[q] /\ loc'[q] = loc[q]
  BY <1>2, <1>9
<1> QED
  BY <1>2, <1>6, <1>7, <1>8, <1>9

LEMMA UndisturbedBySpawn ==
  ASSUME TypeOK, QualityInv, WorkersInv, NEW p \in Owners, NEW S \in SUBSET Objects,
         Spawn(p, S), pc[p] # "wait", pc[p] \notin BusyLabels, pc[p] \notin {"delete", "add"}
  PROVE  Undisturbed /\ QualityInv'
<1>1. "idle" \notin BusyLabels /\ "wait" \notin {"report", "recover"}
  BY DEF BusyLabels, CamLabels
<1>2. ASSUME NEW q \in Proc
      PROVE  /\ pc[q] \in BusyLabels => pc'[q] = pc[q] /\ loc'[q] = loc[q]
             /\ pc'[q] \in {"report", "recover"} => pc[q] = pc'[q]
             /\ loc'[q].cmd = "quality" => pc'[q] \in {"delete", "add"}
  <2>1. CASE q = p
    BY <2>1, SpawnFacts DEF QualityInv, Proc
  <2>2. CASE \E o \in S : q = <<p, o>>
    BY <1>1, <2>2, SpawnFacts
  <2>3. CASE q # p /\ \A o \in S : q # <<p, o>>
    BY <2>3, SpawnFacts DEF QualityInv
  <2> QED BY <2>1, <2>2, <2>3
<1> QED
  BY <1>2 DEF Undisturbed, QualityInv

\* How an owner moves when it starts no goroutines.
Moves(p) == Alone(p) /\ Orderly(p)

LEMMA FetchMoves ==
  ASSUME TypeOK, ControlInv, QualityInv, NEW p \in Owners, Fetch(p)
  PROVE  Moves(p) /\ pc[p] = "fetch"
         /\ (loc[p].cmd = "boot" => loc' = loc /\ pc'[p] \in {"apply", "attach"})
<1>1. p \in Proc /\ pc[p] = "fetch" /\ loc[p].cmd \in DiscoverCmds
  BY DEF Fetch, Proc, ControlInv, DiscoverLabels
<1>2. CASE Goto(p, "apply") /\ UNCHANGED loc
  <2>1. Alone(p) /\ pc'[p] = "apply"
    BY <1>1, <1>2, GotoAlone
  <2>2. Orderly(p)
    BY <1>1, <1>2, GotoOrderly DEF Labels
  <2> QED BY <1>1, <1>2, <2>1, <2>2 DEF Moves
<1>3. CASE loc[p].cmd = "rediscover" /\ Finish(p)
  BY <1>1, <1>3, FinishAlone, FinishOrderly DEF Moves
<1>4. CASE AfterDiscover(p)
  <2>1. \E l \in {"attach", "gather"} : Goto(p, l) /\ loc' = loc
    BY <1>1, <1>4 DEF AfterDiscover, DiscoverCmds
  <2>2. Alone(p)
    BY <1>1, <2>1, GotoAlone
  <2> QED BY <1>1, <1>4, <2>2, AfterDiscoverOrderly DEF Moves, DiscoverLabels
<1> QED
  BY <1>1, <1>2, <1>3, <1>4 DEF Fetch

LEMMA ApplyMoves ==
  ASSUME TypeOK, QualityInv, NEW p \in Owners, Apply(p)
  PROVE  Moves(p) /\ pc[p] = "apply" /\ pc'[p] = "mark" /\ loc' = loc
<1>1. p \in Proc /\ pc[p] = "apply" /\ Goto(p, "mark") /\ loc' = loc
  BY DEF Apply, Proc
<1>2. Orderly(p)
  BY <1>1, GotoOrderly DEF Labels
<1> QED
  BY <1>1, <1>2, GotoAlone DEF Moves

LEMMA MarkOfflineMoves ==
  ASSUME TypeOK, QualityInv, NEW p \in Owners, MarkOffline(p)
  PROVE  /\ Moves(p) /\ pc[p] = "mark"
         /\ loc'[p].cmd = loc[p].cmd
         /\ pc'[p] = "mark" \/ (pc'[p] = "read" /\ loc'[p].goal = "Offline")
<1>1. p \in Proc /\ pc[p] = "mark" /\ loc[p].cmd # "quality"
  BY DEF MarkOffline, Proc, QualityInv
<1>2. CASE UNCHANGED <<pc, loc>>
  BY <1>1, <1>2 DEF Moves, Alone, Orderly
<1>3. ASSUME NEW o \in todo[p], Goto(p, "read"),
             loc' = [loc EXCEPT ![p].obj = o, ![p].goal = "Offline"]
      PROVE  Moves(p) /\ loc'[p].cmd = loc[p].cmd /\ pc'[p] = "read"
             /\ loc'[p].goal = "Offline"
  <2> DEFINE l == [loc EXCEPT ![p].obj = o]
  <2>1. l \in [Proc -> Local] /\ l[p].cmd = loc[p].cmd
    BY <1>1, <1>3, SetObj, LocFields DEF TypeOK
  <2>2. l[p] \in Local /\ loc' = [l EXCEPT ![p].goal = "Offline"]
    BY <1>1, <1>3, <2>1
  <2> HIDE DEF l
  <2>3. loc'[p].cmd = l[p].cmd /\ loc'[p].goal = "Offline"
    BY <1>1, <2>1, <2>2 DEF Local
  <2>4. \A q \in Proc \ {p} : loc'[q] = loc[q]
    BY <1>1, <1>3 DEF TypeOK
  <2>5. Alone(p) /\ pc'[p] = "read"
    BY <1>1, <1>3, <2>4 DEF Alone, Goto, TypeOK
  <2> QED BY <1>1, <2>1, <2>3, <2>5 DEF Moves, Orderly
<1> QED
  BY <1>1, <1>2, <1>3 DEF MarkOffline

LEMMA UnlockMoves ==
  ASSUME TypeOK, ControlInv, QualityInv, NEW p \in Owners, Unlock(p)
  PROVE  /\ Moves(p) /\ pc[p] = "mark" /\ loc' = loc
         /\ loc[p].cmd = "boot" => pc'[p] = "attach"
<1>1. p \in Proc /\ pc[p] = "mark" /\ AfterDiscover(p) /\ loc[p].cmd \in DiscoverCmds
  BY DEF Unlock, Proc, ControlInv, DiscoverLabels
<1>2. \E l \in {"attach", "gather"} : Goto(p, l) /\ loc' = loc
  BY <1>1 DEF AfterDiscover, DiscoverCmds
<1>3. Alone(p)
  BY <1>1, <1>2, GotoAlone
<1> QED
  BY <1>1, <1>3, AfterDiscoverOrderly DEF Moves, DiscoverLabels

LEMMA OwnerStepOrderly ==
  ASSUME TypeOK, ControlInv, QualityInv, WorkersInv, NEW p \in Owners, OwnerStep(p)
  PROVE  Undisturbed /\ QualityInv'
<1>0. p \in Proc
  BY DEF Proc
<1>1. pc[p] \in {"fetch", "apply", "mark", "gather", "wait"} /\ pc[p] \notin BusyLabels
  BY DEF OwnerStep, Fetch, Apply, MarkOffline, Unlock, ConnectAll, Wait, BusyLabels, CamLabels
<1>2. CASE Moves(p)
  BY <1>0, <1>1, <1>2, UndisturbedAlone DEF Moves
<1>3. CASE ConnectAll(p)
  <2>1. CASE Finish(p)
    BY <1>0, <1>2, <2>1, FinishAlone, FinishOrderly DEF Moves
  <2>2. CASE \E S \in SUBSET Objects : Spawn(p, S)
    BY <1>1, <1>3, <2>2, UndisturbedBySpawn DEF ConnectAll
  <2> QED BY <1>3, <2>1, <2>2 DEF ConnectAll, RegisteredObjects
<1>4. CASE Wait(p)
  BY <1>0, <1>2, <1>4, FinishAlone, FinishOrderly DEF Moves, Wait
<1> QED
  BY <1>2, <1>3, <1>4, FetchMoves, ApplyMoves, MarkOfflineMoves, UnlockMoves DEF OwnerStep

LEMMA StartFetchMoves ==
  ASSUME TypeOK, NEW p \in Proc, NEW c \in {"refresh", "rediscover"}, StartFetch(p, c)
  PROVE  Moves(p)
<1>1. Goto(p, "fetch") /\ loc' = [loc EXCEPT ![p].cmd = c]
  BY DEF StartFetch
<1>2. loc'[p].cmd = c
  <2>1. c \in Cmds
    BY DEF Cmds
  <2> QED BY <1>1, <2>1, SetCmd
<1>3. \E v : loc' = [loc EXCEPT ![p] = v]
  BY <1>1, Zenon
<1>4. Alone(p) /\ pc'[p] = "fetch"
  BY <1>1, <1>3, GotoAlone
<1> QED
  BY <1>2, <1>4 DEF Moves, Orderly

LEMMA LoopMoves ==
  ASSUME TypeOK, QualityInv, LoopStep \/ Refresh \/ HealthCheck
  PROVE  Moves(Loop) /\ pc[Loop] \notin BusyLabels /\ pc[Loop] # "wait"
<1>0. Loop \in Proc
  BY DEF Proc, Owners
<1>1. pc[Loop] \in {"attach", "wire", "cams", "check", "hold", "idle"}
  BY DEF LoopStep, Attach, Wire, HealthCams, HealthVisit, HealthHold, HealthDone, Refresh,
     HealthCheck
<1>2. pc[Loop] \notin BusyLabels /\ loc[Loop].cmd # "quality"
  BY <1>0, <1>1 DEF BusyLabels, CamLabels, QualityInv
<1>s. SUFFICES Moves(Loop)
  BY <1>1, <1>2
<1>g. ASSUME NEW l \in Labels \ {"report", "recover"}, Goto(Loop, l),
             loc' = loc \/ \E v : loc' = [loc EXCEPT ![Loop] = v],
             loc'[Loop].cmd # "quality"
      PROVE  Moves(Loop)
  BY <1>0, <1>g, GotoAlone DEF Moves, Orderly
<1>3. CASE Attach
  BY <1>2, <1>3, <1>g DEF Attach, Labels
<1>4. CASE Wire
  BY <1>0, <1>4, StartFetchMoves DEF Wire
<1>5. CASE Refresh
  BY <1>0, <1>5, StartFetchMoves DEF Refresh
<1>6. CASE HealthCheck
  <2>1. Goto(Loop, "cams") /\ loc' = [loc EXCEPT ![Loop].cmd = "health"]
    BY <1>6 DEF HealthCheck
  <2>2. loc'[Loop].cmd = "health"
    BY <1>0, <2>1, SetCmd DEF Cmds
  <2>3. \E v : loc' = [loc EXCEPT ![Loop] = v]
    BY <2>1, Zenon
  <2> QED BY <1>g, <2>1, <2>2, <2>3 DEF Labels
<1>7. CASE HealthCams
  BY <1>2, <1>7, <1>g DEF HealthCams, Labels
<1>8. CASE HealthVisit
  <2>1. CASE UNCHANGED <<pc, loc>>
    BY <1>1, <1>2, <2>1 DEF Moves, Alone, Orderly
  <2>2. ASSUME NEW o, Goto(Loop, "hold"), loc' = [loc EXCEPT ![Loop].obj = o]
        PROVE  Moves(Loop)
    <3>1. loc'[Loop].cmd # "quality"
      BY <1>0, <1>2, <2>2, LocFields
    <3>2. \E v : loc' = [loc EXCEPT ![Loop] = v]
      BY <2>2, Zenon
    <3> QED BY <1>g, <2>2, <3>1, <3>2 DEF Labels
  <2> QED BY <1>8, <2>1, <2>2 DEF HealthVisit
<1>9. CASE HealthHold
  <2>1. Goto(Loop, "fail") /\ \E v : loc' = [loc EXCEPT ![Loop].old = v]
    BY <1>9, Zenon DEF HealthHold
  <2>2. ASSUME NEW o, loc' = [loc EXCEPT ![Loop].old = o]
        PROVE  loc'[Loop].cmd # "quality" /\ \E v : loc' = [loc EXCEPT ![Loop] = v]
    <3>1. loc'[Loop].cmd # "quality"
      BY <1>0, <1>2, <2>2, LocFields
    <3>2. \E v : loc' = [loc EXCEPT ![Loop] = v]
      BY <2>2, Zenon
    <3> QED BY <3>1, <3>2
  <2> QED BY <1>g, <2>1, <2>2 DEF Labels
<1>10. CASE HealthDone
  <2>1. loc'[Loop].cmd = "none"
    BY <1>0, <1>10 DEF HealthDone, TypeOK, NoLoc
  <2> QED BY <1>10, <1>g, <2>1 DEF HealthDone, Labels
<1> QED
  BY <1>3, <1>4, <1>5, <1>6, <1>7, <1>8, <1>9, <1>10 DEF LoopStep

LEMMA CommandMoves ==
  ASSUME TypeOK, QualityInv, NEW u \in Users, Command(u)
  PROVE  /\ Moves(u)
         /\ pc[u] = "idle" \/ UNCHANGED <<pc, loc>>
<1>0. u \in Proc
  BY DEF Proc, Owners
<1>1. ASSUME NEW c, NEW o, NEW l \in {"drop", "read", "delete"},
             Begin(u, c, o, l), c = "quality" => l = "delete"
      PROVE  Moves(u)
  <2>1. Alone(u) /\ pc'[u] = l
    BY <1>0, <1>1, GotoAlone DEF Begin
  <2>2. loc'[u].cmd = c
    BY <1>0, <1>1 DEF Begin, TypeOK, NoLoc
  <2> QED BY <1>1, <2>1, <2>2 DEF Moves, Orderly
<1>2. ASSUME NEW o \in Objects, RestartStream(u, o) \/ StartStream(u, o) \/ StopStream(u, o)
      PROVE  Moves(u) /\ pc[u] = "idle"
  BY <1>1, <1>2 DEF RestartStream, StartStream, StopStream, Callable
<1>3. ASSUME NEW o \in Objects, NEW q \in Quality, SetQuality(u, o, q)
      PROVE  Moves(u) /\ pc[u] = "idle"
  <2>1. pc[u] = "idle"
    BY <1>3 DEF SetQuality, Callable
  <2>2. UNCHANGED <<pc, loc>> => Moves(u)
    BY <1>0, <2>1 DEF Moves, Alone, Orderly, QualityInv
  <2> QED BY <1>1, <1>3, <2>1, <2>2 DEF SetQuality
<1>4. CASE Rediscover(u)
  BY <1>0, <1>4, StartFetchMoves DEF Rediscover
<1>5. Rediscover(u) => pc[u] = "idle"
  BY DEF Rediscover
<1> QED
  BY <1>2, <1>3, <1>4, <1>5 DEF Command

LEMMA OtherStepOrderly ==
  ASSUME TypeOK, ControlInv, QualityInv, WorkersInv,
         \/ \E p \in Owners : OwnerStep(p)
         \/ LoopStep \/ Refresh \/ HealthCheck
         \/ \E S \in SUBSET Objects : ReconnectErrored(S)
         \/ \E u \in Users : Command(u)
         \/ \E c \in Accounts : CloudChange(c)
         \/ \E n \in Names : ProducerDies(n)
  PROVE  Undisturbed /\ QualityInv'
<1>0. Loop \in Proc /\ Loop \in Owners /\ Users \subseteq Proc
  BY DEF Proc, Owners
<1>u. UNCHANGED <<pc, loc>> => Undisturbed /\ QualityInv'
  BY DEF Undisturbed, QualityInv
<1>1. ASSUME NEW p \in Owners, OwnerStep(p) PROVE Undisturbed /\ QualityInv'
  BY <1>1, OwnerStepOrderly
<1>2. CASE LoopStep \/ Refresh \/ HealthCheck
  BY <1>0, <1>2, LoopMoves, UndisturbedAlone DEF Moves
<1>3. ASSUME NEW S \in SUBSET Objects, ReconnectErrored(S) PROVE Undisturbed /\ QualityInv'
  <2>1. pc[Loop] = "idle" /\ Spawn(Loop, S)
    BY <1>3 DEF ReconnectErrored
  <2> QED BY <1>0, <2>1, UndisturbedBySpawn DEF BusyLabels, CamLabels
<1>4. ASSUME NEW u \in Users, Command(u) PROVE Undisturbed /\ QualityInv'
  <2>1. "idle" \notin BusyLabels
    BY DEF BusyLabels, CamLabels
  <2> QED BY <1>0, <1>u, <1>4, <2>1, CommandMoves, UndisturbedAlone DEF Moves
<1>5. ASSUME NEW c \in Accounts, CloudChange(c) PROVE UNCHANGED <<pc, loc>>
  BY <1>5 DEF CloudChange
<1>6. ASSUME NEW n \in Names, ProducerDies(n) PROVE UNCHANGED <<pc, loc>>
  BY <1>6 DEF ProducerDies
<1> QED
  BY <1>u, <1>1, <1>2, <1>3, <1>4, <1>5, <1>6

-----------------------------------------------------------------------------
(* The goroutines a starter waits for.                                     *)

LEMMA WorkersAlone ==
  ASSUME TypeOK, WorkersInv, NEW p \in Owners, Alone(p), pc[p] # "wait",
         \A q \in Owners \ {p} : todo'[q] = todo[q]
  PROVE  WorkersInv'
<1>1. ASSUME NEW q \in Owners, NEW o \in Objects, pc'[<<q, o>>] # "idle"
      PROVE  pc'[q] = "wait" /\ o \in todo'[q]
  <2>1. <<q, o>> \in Proc \ {p} /\ q \in Proc
    BY DEF Proc, Workers
  <2>2. pc[<<q, o>>] # "idle"
    BY <1>1, <2>1 DEF Alone
  <2>3. pc[q] = "wait" /\ o \in todo[q] /\ q # p
    BY <2>2 DEF WorkersInv
  <2> QED BY <2>1, <2>3 DEF Alone
<1> QED
  BY <1>1 DEF WorkersInv

LEMMA WorkersBySpawn ==
  ASSUME TypeOK, WorkersInv, NEW p \in Owners, NEW S \in SUBSET Objects, Spawn(p, S),
         pc[p] # "wait", pc[p] \notin BusyLabels
  PROVE  WorkersInv'
<1>1. ASSUME NEW q \in Owners, NEW o \in Objects, pc'[<<q, o>>] # "idle"
      PROVE  pc'[q] = "wait" /\ o \in todo'[q]
  <2>1. todo' = [todo EXCEPT ![p] = S] /\ todo \in [Owners -> SUBSET Objects]
    BY SpawnFacts DEF TypeOK
  <2>2. CASE q = p
    <3>1. o \in S /\ pc'[p] = "wait"
      BY <1>1, <2>2, SpawnFacts
    <3> QED BY <2>1, <2>2, <3>1
  <2>3. CASE q # p
    <3>1. q \in Proc /\ <<q, o>> \in Proc /\ \A x \in S : q # <<p, x>> /\ <<q, o>> # <<p, x>>
      BY <2>3 DEF Proc, Workers
    <3>2. <<q, o>> # p
      BY DEF Workers
    <3>3. pc'[<<q, o>>] = pc[<<q, o>>] /\ pc'[q] = pc[q]
      BY <2>3, <3>1, <3>2, SpawnFacts
    <3> QED BY <1>1, <2>1, <2>3, <3>3 DEF WorkersInv
  <2> QED BY <2>2, <2>3
<1> QED
  BY <1>1 DEF WorkersInv

LEMMA WorkersByCameraStep ==
  ASSUME TypeOK, ControlInv, WorkersInv, NEW p \in Proc, CameraStep(p)
  PROVE  WorkersInv'
<1>1. pc[p] \in BusyLabels
  BY DEF CameraStep, ChangeRead, ChangeSet, ClearChronic, Recover, Notify, PickSource,
     DeleteFirst, AddStream, AddStreamFails, IncrementError, NotifyLost, CountErrors,
     MarkChronic, ReportChronic, CheckProtocol, BumpStreak, Promote, Fallback, DropStream,
     BusyLabels, CamLabels
<1>2. todo' = todo
  BY DEF CameraStep, ChangeRead, ChangeSet, ClearChronic, Recover, Notify, PickSource,
     DeleteFirst, AddStream, AddStreamFails, IncrementError, NotifyLost, CountErrors,
     MarkChronic, ReportChronic, CheckProtocol, BumpStreak, Promote, Fallback, DropStream,
     ownerVars
<1>3. pc[p] # "wait" /\ pc[p] # "idle"
  BY <1>1 DEF BusyLabels, CamLabels
<1>4. \A q \in Proc \ {p} : pc'[q] = pc[q]
  BY CameraStepAdvances DEF Advance
<1>5. ASSUME NEW q \in Owners, NEW o \in Objects, pc'[<<q, o>>] # "idle"
      PROVE  pc'[q] = "wait" /\ o \in todo'[q]
  <2>1. q \in Proc /\ <<q, o>> \in Proc
    BY DEF Proc, Workers
  <2>2. pc[<<q, o>>] # "idle"
    BY <1>3, <1>4, <1>5, <2>1
  <2>3. pc[q] = "wait" /\ o \in todo[q]
    BY <2>2 DEF WorkersInv
  <2> QED BY <1>2, <1>3, <1>4, <2>1, <2>3
<1> QED
  BY <1>5 DEF WorkersInv

LEMMA WorkersByOther ==
  ASSUME TypeOK, ControlInv, QualityInv, WorkersInv,
         \/ \E p \in Owners : OwnerStep(p)
         \/ LoopStep \/ Refresh \/ HealthCheck
         \/ \E S \in SUBSET Objects : ReconnectErrored(S)
         \/ \E u \in Users : Command(u)
         \/ \E c \in Accounts : CloudChange(c)
         \/ \E n \in Names : ProducerDies(n)
  PROVE  WorkersInv'
<1>0. Loop \in Owners /\ Users \subseteq Owners /\ Owners \subseteq Proc
  BY DEF Proc, Owners
<1>u. UNCHANGED <<pc, loc, todo>> => WorkersInv'
  BY DEF WorkersInv
<1>t. todo \in [Owners -> SUBSET Objects]
  BY DEF TypeOK
<1>1. ASSUME NEW p \in Owners, OwnerStep(p) PROVE WorkersInv'
  <2>1. CASE Fetch(p) \/ Apply(p) \/ MarkOffline(p) \/ Unlock(p)
    <3>1. Moves(p) /\ pc[p] # "wait"
      BY <2>1, FetchMoves, ApplyMoves, MarkOfflineMoves, UnlockMoves
    <3>2. todo' = todo \/ \E S : todo' = [todo EXCEPT ![p] = S]
      <4>1. CASE Fetch(p) \/ Unlock(p)
        BY <4>1 DEF Fetch, Unlock, ownerVars
      <4>2. CASE Apply(p)
        BY <4>2, Zenon DEF Apply
      <4>3. CASE MarkOffline(p)
        BY <4>3, Zenon DEF MarkOffline
      <4> QED BY <2>1, <4>1, <4>2, <4>3
    <3>3. \A q \in Owners \ {p} : todo'[q] = todo[q]
      BY <1>t, <3>2
    <3> QED BY <3>1, <3>3, WorkersAlone DEF Moves
  <2>2. CASE ConnectAll(p)
    <3>1. pc[p] = "gather" /\ pc[p] \notin BusyLabels
      BY <2>2 DEF ConnectAll, BusyLabels, CamLabels
    <3>2. CASE Finish(p) /\ UNCHANGED todo
      BY <1>0, <3>1, <3>2, FinishAlone, WorkersAlone
    <3>3. ASSUME NEW S \in SUBSET Objects, Spawn(p, S) PROVE WorkersInv'
      BY <3>1, <3>3, WorkersBySpawn
    <3> QED BY <2>2, <3>2, <3>3 DEF ConnectAll, RegisteredObjects
  <2>3. CASE Wait(p)
    <3>1. /\ \A q \in Proc \ {p} : pc'[q] = pc[q]
          /\ \A q \in Owners \ {p} : todo'[q] = todo[q]
          /\ \A o \in todo[p] : pc[<<p, o>>] = "idle"
      BY <1>0, <1>t, <2>3, FinishAlone DEF Wait, Alone
    <3>2. ASSUME NEW q \in Owners, NEW o \in Objects, pc'[<<q, o>>] # "idle"
          PROVE  pc'[q] = "wait" /\ o \in todo'[q]
      <4>1. <<q, o>> \in Proc \ {p} /\ q \in Proc
        BY DEF Proc, Workers
      <4>2. pc[<<q, o>>] # "idle"
        BY <3>1, <3>2, <4>1
      <4>3. pc[q] = "wait" /\ o \in todo[q]
        BY <4>2 DEF WorkersInv
      <4> QED BY <3>1, <4>1, <4>2, <4>3
    <3> QED BY <3>2 DEF WorkersInv
  <2> QED BY <1>1, <2>1, <2>2, <2>3 DEF OwnerStep
<1>2. CASE LoopStep \/ Refresh \/ HealthCheck
  <2>1. todo' = todo \/ \E S : todo' = [todo EXCEPT ![Loop] = S]
    <3>1. CASE HealthVisit
      BY <3>1, Zenon DEF HealthVisit
    <3>2. CASE HealthCams
      BY <3>2, Zenon DEF HealthCams
    <3>3. CASE Attach \/ Wire \/ HealthHold \/ HealthDone \/ Refresh \/ HealthCheck
      BY <3>3 DEF Attach, Wire, HealthHold, HealthDone, Refresh, HealthCheck, ownerVars
    <3> QED BY <1>2, <3>1, <3>2, <3>3 DEF LoopStep
  <2>2. \A q \in Owners \ {Loop} : todo'[q] = todo[q]
    BY <1>t, <2>1
  <2> QED BY <1>0, <1>2, <2>2, LoopMoves, WorkersAlone DEF Moves
<1>3. ASSUME NEW S \in SUBSET Objects, ReconnectErrored(S) PROVE WorkersInv'
  BY <1>0, <1>3, WorkersBySpawn DEF ReconnectErrored, BusyLabels, CamLabels
<1>4. ASSUME NEW u \in Users, Command(u) PROVE WorkersInv'
  <2>1. todo' = todo
    BY <1>4 DEF Command, RestartStream, StartStream, StopStream, SetQuality, Rediscover,
       ownerVars
  <2>2. CASE pc[u] = "idle"
    BY <1>0, <1>4, <2>1, <2>2, CommandMoves, WorkersAlone DEF Moves
  <2>3. CASE UNCHANGED <<pc, loc>>
    BY <1>u, <2>1, <2>3
  <2> QED BY <1>4, <2>2, <2>3, CommandMoves
<1>5. ASSUME NEW c \in Accounts, CloudChange(c) PROVE UNCHANGED <<pc, loc, todo>>
  BY <1>5 DEF CloudChange, ownerVars
<1>6. ASSUME NEW n \in Names, ProducerDies(n) PROVE UNCHANGED <<pc, loc, todo>>
  BY <1>6 DEF ProducerDies, ownerVars
<1> QED
  BY <1>u, <1>1, <1>2, <1>3, <1>4, <1>5, <1>6

-----------------------------------------------------------------------------
(* Both facts hold of every behaviour.                                     *)

LEMMA PlacesInitially == Init => QualityInv /\ WorkersInv
<1>1. NoLoc.cmd = "none" /\ [NoLoc EXCEPT !.cmd = "boot"].cmd = "boot"
  BY DEF NoLoc
<1>2. \A p \in Owners, o \in Objects : <<p, o>> \in Proc /\ <<p, o>> # Loop
  BY DEF Proc, Workers, Owners
<1>3. Init => QualityInv
  BY <1>1 DEF Init, QualityInv
<1>4. Init => WorkersInv
  BY <1>2 DEF Init, WorkersInv
<1> QED
  BY <1>3, <1>4

LEMMA PlacesPreserved ==
  ASSUME TypeOK, ControlInv, QualityInv, WorkersInv, [Next]_vars
  PROVE  QualityInv' /\ WorkersInv'
<1>1. ASSUME NEW p \in Proc, CameraStep(p) PROVE QualityInv' /\ WorkersInv'
  BY <1>1, CameraStepQuality, WorkersByCameraStep
<1>2. CASE UNCHANGED vars
  BY <1>2 DEF vars, ownerVars, QualityInv, WorkersInv
<1> QED
  BY <1>1, <1>2, OtherStepOrderly, WorkersByOther DEF Next

LEMMA Placed == Spec => [](QualityInv /\ WorkersInv)
<1>1. IInv => TypeOK /\ ControlInv
  BY DEF IInv
<1>2. (TypeOK /\ ControlInv) /\ (QualityInv /\ WorkersInv) /\ [Next]_vars
        => (QualityInv /\ WorkersInv)'
  BY PlacesPreserved
<1> QED
  BY <1>1, <1>2, PlacesInitially, Inductive, PTL DEF Spec

-----------------------------------------------------------------------------
(* No camera is left in Connecting.                                        *)

LEMMA BootVarsKept == [Next]_vars => UNCHANGED bootVars \/ Attach \/ Wire
<1> USE DEF bootVars
<1>1. ASSUME NEW p \in Proc, CameraStep(p) PROVE UNCHANGED bootVars
  BY <1>1 DEF CameraStep, ChangeRead, ChangeSet, ClearChronic, Recover, Notify, PickSource,
     DeleteFirst, AddStream, AddStreamFails, IncrementError, NotifyLost, CountErrors,
     MarkChronic, ReportChronic, CheckProtocol, BumpStreak, Promote, Fallback, DropStream
<1>2. ASSUME NEW p \in Owners, OwnerStep(p) PROVE UNCHANGED bootVars
  BY <1>2 DEF OwnerStep, Fetch, Apply, MarkOffline, Unlock, ConnectAll, Wait
<1>3. CASE LoopStep \/ Refresh \/ HealthCheck
  BY <1>3 DEF LoopStep, HealthCams, HealthVisit, HealthHold, HealthDone, Refresh, HealthCheck
<1>4. ASSUME NEW S \in SUBSET Objects, ReconnectErrored(S) PROVE UNCHANGED bootVars
  BY <1>4 DEF ReconnectErrored
<1>5. ASSUME NEW u \in Users, Command(u) PROVE UNCHANGED bootVars
  BY <1>5 DEF Command, RestartStream, StartStream, StopStream, SetQuality, Rediscover
<1>6. ASSUME NEW c \in Accounts, CloudChange(c) PROVE UNCHANGED bootVars
  BY <1>6 DEF CloudChange
<1>7. ASSUME NEW n \in Names, ProducerDies(n) PROVE UNCHANGED bootVars
  BY <1>7 DEF ProducerDies
<1>8. CASE UNCHANGED vars
  BY <1>8 DEF vars
<1> QED
  BY <1>1, <1>2, <1>3, <1>4, <1>5, <1>6, <1>7, <1>8 DEF Next

\* What main() does before it attaches the client.
BootStep ==
  /\ \A q \in Proc \ {Loop} : pc'[q] = pc[q]
  /\ loc'[Loop].cmd = "boot"
  /\ pc'[Loop] \in {"fetch", "apply", "mark", "read", "set", "notify", "attach"}
  /\ pc'[Loop] \in {"read", "set", "notify"} => loc'[Loop].goal = "Offline"

LEMMA BootCameraStep ==
  ASSUME TypeOK, ControlInv, QualityInv, BootInv, ~attached, NEW p \in Proc, CameraStep(p)
  PROVE  BootStep
<1>1. pc[p] \in CamLabels
  BY DEF CameraStep, ChangeRead, ChangeSet, ClearChronic, Recover, Notify, PickSource,
     DeleteFirst, AddStream, AddStreamFails, IncrementError, NotifyLost, CountErrors,
     MarkChronic, ReportChronic, CheckProtocol, BumpStreak, Promote, Fallback, DropStream,
     CamLabels
<1>2. p = Loop
  BY <1>1 DEF BootInv, CamLabels
<1>3. /\ pc[Loop] \in {"read", "set", "notify"} /\ Loop \in Proc
      /\ loc[Loop].goal = "Offline" /\ loc[Loop].cmd = "boot"
  BY <1>1, <1>2 DEF BootInv, CamLabels
<1>4. \A q \in Proc \ {Loop} : pc'[q] = pc[q]
  BY <1>2, CameraStepAdvances DEF Advance
<1>5. ChangeRead(Loop) \/ ChangeSet(Loop) \/ Notify(Loop)
  BY <1>2, <1>3 DEF CameraStep, ClearChronic, Recover, PickSource, DeleteFirst, AddStream,
     AddStreamFails, IncrementError, NotifyLost, CountErrors, MarkChronic, ReportChronic,
     CheckProtocol, BumpStreak, Promote, Fallback, DropStream
<1>6. CASE Return(Loop) /\ pc[Loop] \in {"read", "notify"}
  BY <1>3, <1>4, <1>6, ReturnOrderly DEF BootStep
<1>7. CASE Goto(Loop, "set") /\ \E v : loc' = [loc EXCEPT ![Loop].old = v]
  <2>1. pc'[Loop] = "set"
    BY <1>3, <1>7 DEF Goto, TypeOK
  <2>2. loc'[Loop].cmd = "boot" /\ loc'[Loop].goal = "Offline"
    BY <1>3, <1>7, LocFields
  <2> QED BY <1>4, <2>1, <2>2 DEF BootStep
<1>8. CASE ChangeSet(Loop)
  BY <1>3, <1>4, <1>8 DEF ChangeSet, Goto, TypeOK, BootStep
<1>9. CASE ChangeRead(Loop)
  <2>1. Return(Loop) \/ (Goto(Loop, "set") /\ \E v : loc' = [loc EXCEPT ![Loop].old = v])
    BY <1>9, Zenon DEF ChangeRead
  <2> QED BY <1>6, <1>7, <1>9, <2>1 DEF ChangeRead
<1>10. CASE Notify(Loop)
  BY <1>6, <1>10 DEF Notify
<1> QED
  BY <1>5, <1>8, <1>9, <1>10

LEMMA BootOwnerStep ==
  ASSUME TypeOK, ControlInv, QualityInv, BootInv, ~attached, NEW p \in Owners, OwnerStep(p)
  PROVE  BootStep
<1>1. pc[p] \in {"fetch", "apply", "mark", "gather", "wait"} /\ p \in Proc
  BY DEF OwnerStep, Fetch, Apply, MarkOffline, Unlock, ConnectAll, Wait, Proc
<1>2. p = Loop
  BY <1>1 DEF BootInv
<1>3. pc[Loop] \in {"fetch", "apply", "mark"} /\ loc[Loop].cmd = "boot"
  BY <1>1, <1>2 DEF BootInv
<1>4. Fetch(Loop) \/ Apply(Loop) \/ MarkOffline(Loop) \/ Unlock(Loop)
  BY <1>2, <1>3 DEF OwnerStep, ConnectAll, Wait
<1> QED
  BY <1>2, <1>3, <1>4, FetchMoves, ApplyMoves, MarkOfflineMoves, UnlockMoves
     DEF Moves, Alone, BootStep

LEMMA BootPreserved ==
  ASSUME EarlyCommands = FALSE, TypeOK, ControlInv, QualityInv, BootInv, [Next]_vars
  PROVE  BootInv'
<1>1. SUFFICES ASSUME ~attached'
               PROVE  BootInv'
  BY DEF BootInv
<1>2. ~attached /\ ~wired /\ Loop \in Proc
  BY <1>1, BootVarsKept DEF bootVars, Wire, BootInv, Attach, Proc, Owners
<1>3. pc[Loop] \notin {"idle", "wire", "cams", "check", "hold"}
  BY <1>2 DEF BootInv
<1>4. wired' = wired
  BY <1>1, <1>3, BootVarsKept DEF bootVars, Wire, Attach
<1>b. BootStep => BootInv'
  BY <1>2, <1>4 DEF BootStep, BootInv
<1>u. UNCHANGED <<pc, loc>> => BootInv'
  BY <1>2, <1>4 DEF BootInv
<1>5. ASSUME NEW p \in Proc, CameraStep(p) PROVE BootInv'
  BY <1>2, <1>5, <1>b, BootCameraStep
<1>6. ASSUME NEW p \in Owners, OwnerStep(p) PROVE BootInv'
  BY <1>2, <1>6, <1>b, BootOwnerStep
<1>7. ~(LoopStep \/ Refresh \/ HealthCheck)
  BY <1>1, <1>3 DEF LoopStep, Attach, Wire, HealthCams, HealthVisit, HealthHold, HealthDone,
     Refresh, HealthCheck
<1>8. ASSUME NEW S \in SUBSET Objects PROVE ~ReconnectErrored(S)
  BY <1>3 DEF ReconnectErrored
<1>9. ASSUME NEW u \in Users PROVE ~Command(u)
  BY <1>2 DEF Command, RestartStream, StartStream, StopStream, SetQuality, Rediscover
<1>10. ASSUME NEW c \in Accounts, CloudChange(c) PROVE UNCHANGED <<pc, loc>>
  BY <1>10 DEF CloudChange
<1>11. ASSUME NEW n \in Names, ProducerDies(n) PROVE UNCHANGED <<pc, loc>>
  BY <1>11 DEF ProducerDies
<1>12. CASE UNCHANGED vars
  BY <1>12, <1>u DEF vars
<1> QED
  BY <1>u, <1>5, <1>6, <1>7, <1>8, <1>9, <1>10, <1>11, <1>12 DEF Next

\* A step outside these operations connects no camera and leaves the states of
\* the cameras somebody holds alone.
LEMMA OtherStepStates ==
  ASSUME TypeOK, ControlInv, NamedInv,
         \/ \E p \in Owners : OwnerStep(p)
         \/ LoopStep \/ Refresh \/ HealthCheck
         \/ \E S \in SUBSET Objects : ReconnectErrored(S)
         \/ \E u \in Users : Command(u)
         \/ \E c \in Accounts : CloudChange(c)
         \/ \E n \in Names : ProducerDies(n)
  PROVE  \A o \in Objects : \/ o \in Free /\ cam'[o].state = "Offline"
                            \/ cam'[o].state = cam[o].state /\ cam'[o].name = cam[o].name
<1> USE DEF objVars
<1> DEFINE Same == \A o \in Objects : cam'[o].state = cam[o].state /\ cam'[o].name = cam[o].name
<1>1. ASSUME NEW p \in Owners, Fetch(p) \/ MarkOffline(p) \/ Unlock(p) \/ ConnectAll(p) \/ Wait(p)
      PROVE  Same
  BY <1>1 DEF Fetch, MarkOffline, Unlock, ConnectAll, Wait
<1>2. ASSUME LoopStep \/ Refresh \/ HealthCheck PROVE Same
  BY <1>2 DEF LoopStep, Attach, Wire, HealthCams, HealthVisit, HealthHold, HealthDone,
     Refresh, HealthCheck
<1>3. ASSUME NEW S \in SUBSET Objects, ReconnectErrored(S) PROVE Same
  BY <1>3 DEF ReconnectErrored
<1>4. ASSUME NEW u \in Users, NEW o \in Objects, NEW q \in Quality, SetQuality(u, o, q)
      PROVE  Same
  <2>1. Touches(o) /\ Spares(o)
    BY <1>4, Zenon DEF SetQuality, Touches, Spares
  <2> QED BY <2>1, CamKept, StateSpared DEF SameNames
<1>5. ASSUME NEW u \in Users, NEW o \in Objects,
             RestartStream(u, o) \/ StartStream(u, o) \/ StopStream(u, o)
      PROVE  Same
  BY <1>5 DEF RestartStream, StartStream, StopStream
<1>6. ASSUME NEW u \in Users, Rediscover(u) PROVE Same
  BY <1>6 DEF Rediscover
<1>7. ASSUME NEW c \in Accounts, CloudChange(c) PROVE Same
  BY <1>7 DEF CloudChange
<1>8. ASSUME NEW n \in Names, ProducerDies(n) PROVE Same
  BY <1>8 DEF ProducerDies
<1>9. ASSUME NEW p \in Owners, OwnerStep(p) PROVE Apply(p) \/ Same
  BY <1>1, <1>9 DEF OwnerStep
<1> HIDE DEF Same
<1>10. (\E p \in Owners : Apply(p)) \/ Same
  BY <1>2, <1>3, <1>4, <1>5, <1>6, <1>7, <1>8, <1>9 DEF Command
<1> QED
  BY <1>10, ApplyEffect DEF Same

LEMMA StuckPreserved ==
  ASSUME TypeOK, ControlInv, NamedInv, QualityInv, WorkersInv, BootInv,
         NeverStuckConnecting, [Next]_vars
  PROVE  NeverStuckConnecting'
<1>1. ASSUME NEW p \in Proc, CameraStep(p) PROVE NeverStuckConnecting'
  <2>1. pc[p] = "source" => attached
    BY DEF BootInv
  <2>2. Answers(p) /\ Advance(p)
    BY <1>1, <2>1, CameraStepAnswers, CameraStepAdvances
  <2>3. ASSUME NEW o \in Objects, cam'[o].state = "Connecting"
        PROVE  \E q \in Proc : Resolves(q, o)'
    <3>1. CASE Resolves(p, o)'
      BY <3>1
    <3>2. CASE ~Resolves(p, o)'
      <4>1. PICK q \in Proc : Resolves(q, o)
        BY <2>2, <2>3, <3>2 DEF Answers, NeverStuckConnecting
      <4>2. q # p
        BY <2>2, <2>3, <3>2, <4>1 DEF Answers
      <4>3. Resolves(q, o)'
        BY <2>2, <4>1, <4>2 DEF Advance, Resolves
      <4> QED BY <4>3
    <3> QED BY <3>1, <3>2
  <2> QED BY <2>3 DEF NeverStuckConnecting
<1>2. ASSUME Undisturbed,
             \A o \in Objects : cam'[o].state \in {"Offline", cam[o].state}
      PROVE  NeverStuckConnecting'
  <2>1. ASSUME NEW o \in Objects, cam'[o].state = "Connecting"
        PROVE  \E q \in Proc : Resolves(q, o)'
    <3>1. PICK q \in Proc : Resolves(q, o)
      BY <1>2, <2>1 DEF NeverStuckConnecting
    <3>2. pc[q] \in BusyLabels
      BY <3>1 DEF Resolves, BusyLabels, CamLabels
    <3>3. Resolves(q, o)'
      BY <1>2, <3>1, <3>2 DEF Undisturbed, Resolves
    <3> QED BY <3>3
  <2> QED BY <2>1 DEF NeverStuckConnecting
<1>3. CASE UNCHANGED vars
  BY <1>2, <1>3 DEF vars, objVars, Undisturbed
<1> QED
  BY <1>1, <1>2, <1>3, OtherStepStates, OtherStepOrderly DEF Next

LEMMA BootInitially == Init => BootInv /\ NeverStuckConnecting
<1> SUFFICES ASSUME Init PROVE BootInv /\ NeverStuckConnecting
  OBVIOUS
<1>1. Loop \in Proc /\ [NoLoc EXCEPT !.cmd = "boot"].cmd = "boot"
  BY DEF Proc, Owners, NoLoc
<1>2. BootInv
  BY <1>1 DEF Init, BootInv
<1>3. \A o \in Objects : cam[o].state = "Offline"
  BY DEF Init, NewCamera
<1> QED
  BY <1>2, <1>3 DEF NeverStuckConnecting

(* connectCamera, changeState and the failure path: whatever commands, health
   checks, reconnects and discoveries cross each other, a camera is in
   Connecting only while some goroutine will still give its verdict, Streaming
   or Error (manager.go:267-331).  It needs what manager.go:25-27 promises,
   that nothing is operated before go2rtc is attached: connectCamera enters
   Connecting before it looks for the client.                              *)
THEOREM NeverStranded ==
  ASSUME EarlyCommands = FALSE
  PROVE  Spec => []NeverStuckConnecting
<1>1. IInv => TypeOK /\ ControlInv /\ NamedInv
  BY DEF IInv
<1>2. IInv /\ (QualityInv /\ WorkersInv) /\ (BootInv /\ NeverStuckConnecting) /\ [Next]_vars
        => (BootInv /\ NeverStuckConnecting)'
  BY <1>1, BootPreserved, StuckPreserved
<1> QED
  BY <1>2, BootInitially, Placed, Inductive, PTL DEF Spec

-----------------------------------------------------------------------------
(* Errors reported and recovered from.                                     *)

\* The callbacks under way are counted, and the balance is kept name by name.
AlertsInv ==
  \A n \in Names :
    /\ IsFiniteSet(Reporting(n)) /\ IsFiniteSet(Recovering(n))
    /\ alerts[n] + Cardinality(Reporting(n)) - Cardinality(Recovering(n))
         = IF chronic[n] THEN 1 ELSE 0

\* q is about to make callback l for name n.
About(q, l, n) == pc[q] = l /\ cam[loc[q].obj].name = n

LEMMA CallbacksByStep ==
  ASSUME ControlInv, NEW p \in Proc, Advance(p), SameNames(cam'), NEW n
  PROVE  /\ Reporting(n)' = IF About(p, "report", n)' THEN Reporting(n) \cup {p}
                            ELSE Reporting(n) \ {p}
         /\ Recovering(n)' = IF About(p, "recover", n)' THEN Recovering(n) \cup {p}
                             ELSE Recovering(n) \ {p}
<1>1. ASSUME NEW l \in {"report", "recover"}, NEW q \in Proc \ {p}
      PROVE  About(q, l, n)' <=> About(q, l, n)
  <2>1. pc'[q] = pc[q] /\ loc'[q] = loc[q]
    BY DEF Advance
  <2>2. pc[q] = l => loc[q].obj \in Objects
    BY <1>1 DEF ControlInv, CamLabels
  <2> QED BY <2>1, <2>2 DEF About, SameNames
<1>2. /\ Reporting(n) = {q \in Proc : About(q, "report", n)}
      /\ Reporting(n)' = {q \in Proc : About(q, "report", n)'}
      /\ Recovering(n) = {q \in Proc : About(q, "recover", n)}
      /\ Recovering(n)' = {q \in Proc : About(q, "recover", n)'}
  BY DEF Reporting, Recovering, About
<1>3. \A q \in Proc \ {p} : /\ About(q, "report", n)' <=> About(q, "report", n)
                            /\ About(q, "recover", n)' <=> About(q, "recover", n)
  BY <1>1
<1> HIDE DEF About, Reporting, Recovering
<1>4. Reporting(n)' = IF About(p, "report", n)' THEN Reporting(n) \cup {p}
                      ELSE Reporting(n) \ {p}
  BY <1>2, <1>3
<1>5. Recovering(n)' = IF About(p, "recover", n)' THEN Recovering(n) \cup {p}
                       ELSE Recovering(n) \ {p}
  BY <1>2, <1>3
<1> QED BY <1>4, <1>5

LEMMA CallbacksUndisturbed ==
  ASSUME ControlInv, Undisturbed, NEW n,
         \A o \in Objects : o \in Free \/ cam'[o].name = cam[o].name
  PROVE  Reporting(n)' = Reporting(n) /\ Recovering(n)' = Recovering(n)
<1>1. ASSUME NEW l \in {"report", "recover"}, NEW q \in Proc
      PROVE  About(q, l, n)' <=> About(q, l, n)
  <2>1. pc'[q] = l <=> pc[q] = l
    BY <1>1 DEF Undisturbed, BusyLabels, CamLabels
  <2>2. pc[q] = l => loc'[q] = loc[q] /\ loc[q].obj \in Objects /\ loc[q].obj \notin Free
    BY <1>1 DEF Undisturbed, BusyLabels, CamLabels, ControlInv, Free
  <2> QED BY <1>1, <2>1, <2>2 DEF About
<1> QED
  BY <1>1 DEF Reporting, Recovering, About

\* The steps that count: entering a callback moves the flag, leaving it the count.
LEMMA AlertsByCameraStep ==
  ASSUME TypeOK, ControlInv, QualityInv, AlertsInv, NEW p \in Proc, CameraStep(p)
  PROVE  AlertsInv'
<1>a. Advance(p) /\ SameNames(cam')
  BY CameraStepAdvances, CameraStepFrame DEF KeepsIdentity
<1>t. /\ chronic \in [Names -> BOOLEAN] /\ alerts \in [Names -> Int]
      /\ pc \in [Proc -> Labels]
  BY DEF TypeOK
<1> SUFFICES ASSUME NEW n \in Names
             PROVE  /\ IsFiniteSet(Reporting(n)') /\ IsFiniteSet(Recovering(n)')
                    /\ alerts'[n] + Cardinality(Reporting(n)') - Cardinality(Recovering(n)')
                         = IF chronic'[n] THEN 1 ELSE 0
  BY DEF AlertsInv
<1> DEFINE R == Reporting(n)
           V == Recovering(n)
           m == cam[loc[p].obj].name
<1>i. /\ IsFiniteSet(R) /\ IsFiniteSet(V)
      /\ alerts[n] + Cardinality(R) - Cardinality(V) = IF chronic[n] THEN 1 ELSE 0
  BY DEF AlertsInv
<1>s. /\ R' = IF About(p, "report", n)' THEN R \cup {p} ELSE R \ {p}
      /\ V' = IF About(p, "recover", n)' THEN V \cup {p} ELSE V \ {p}
  BY <1>a, CallbacksByStep
<1>m. /\ p \in R <=> About(p, "report", n)
      /\ p \in V <=> About(p, "recover", n)
  BY DEF Reporting, Recovering, About
<1>f. /\ IsFiniteSet(R \cup {p}) /\ IsFiniteSet(R \ {p})
      /\ IsFiniteSet(V \cup {p}) /\ IsFiniteSet(V \ {p})
      /\ p \notin R => Cardinality(R \cup {p}) = Cardinality(R) + 1
      /\ p \in R => Cardinality(R \ {p}) = Cardinality(R) - 1
      /\ p \notin V => Cardinality(V \cup {p}) = Cardinality(V) + 1
      /\ p \in V => Cardinality(V \ {p}) = Cardinality(V) - 1
      /\ Cardinality(R) \in Nat /\ Cardinality(V) \in Nat
  BY <1>i, FS_AddElement, FS_RemoveElement, FS_CardinalityType
<1>g. IsFiniteSet(R') /\ IsFiniteSet(V')
  BY <1>f, <1>s
<1> HIDE DEF R, V
<1>1. CASE MarkChronic(p)
  <2>1. /\ pc[p] = "chronic" /\ loc' = loc /\ cam' = cam /\ alerts' = alerts
        /\ chronic' = [chronic EXCEPT ![m] = TRUE]
        /\ pc'[p] = IF chronic[m] THEN "protocol" ELSE "report"
    BY <1>1, <1>t DEF MarkChronic, observers, Goto
  <2>2. p \notin R /\ p \notin V /\ V' = V
    BY <1>m, <1>s, <2>1 DEF About
  <2>3. CASE m # n \/ chronic[n]
    <3>1. ~About(p, "report", n)'
      BY <2>1, <2>3 DEF About
    <3>2. R' = R
      BY <1>s, <2>2, <3>1
    <3>3. chronic'[n] = chronic[n]
      BY <1>t, <2>1, <2>3
    <3> QED BY <1>i, <1>g, <2>1, <2>2, <3>2, <3>3 DEF R, V
  <2>4. CASE m = n /\ ~chronic[n]
    <3>1. R' = R \cup {p} /\ chronic'[n] = TRUE
      BY <1>s, <1>t, <2>1, <2>4 DEF About
    <3>2. Cardinality(R') = Cardinality(R) + 1
      BY <1>f, <2>2, <3>1
    <3> QED BY <1>i, <1>f, <1>g, <1>t, <2>1, <2>2, <2>4, <3>1, <3>2 DEF R, V
  <2> QED BY <2>3, <2>4
<1>2. CASE ReportChronic(p)
  <2>1. /\ pc[p] = "report" /\ chronic' = chronic
        /\ alerts' = [alerts EXCEPT ![m] = @ + 1] /\ pc'[p] = "protocol"
    BY <1>2, <1>t DEF ReportChronic, objVars, Goto
  <2>2. p \notin V /\ V' = V /\ R' = R \ {p}
    BY <1>m, <1>s, <2>1 DEF About
  <2>3. CASE m # n
    <3>1. R' = R /\ alerts'[n] = alerts[n]
      BY <1>m, <1>t, <2>1, <2>2, <2>3 DEF About
    <3> QED BY <1>i, <1>g, <2>1, <2>2, <3>1 DEF R, V
  <2>4. CASE m = n
    <3>1. Cardinality(R') = Cardinality(R) - 1 /\ alerts'[n] = alerts[n] + 1
      BY <1>f, <1>m, <1>t, <2>1, <2>2, <2>4 DEF About
    <3> QED BY <1>i, <1>f, <1>g, <1>t, <2>1, <2>2, <3>1 DEF R, V
  <2> QED BY <2>3, <2>4
<1>3. CASE ClearChronic(p)
  <2>1. /\ pc[p] = "clear" /\ loc' = loc /\ cam' = cam /\ alerts' = alerts
        /\ chronic' = [chronic EXCEPT ![m] = FALSE]
        /\ pc'[p] = IF chronic[m] THEN "recover" ELSE "notify"
    BY <1>3, <1>t DEF ClearChronic, observers, Goto
  <2>2. p \notin R /\ p \notin V /\ R' = R
    BY <1>m, <1>s, <2>1 DEF About
  <2>3. CASE m # n \/ ~chronic[n]
    <3>1. ~About(p, "recover", n)'
      BY <2>1, <2>3 DEF About
    <3>2. V' = V
      BY <1>s, <2>2, <3>1
    <3>3. chronic'[n] = chronic[n]
      BY <1>t, <2>1, <2>3
    <3> QED BY <1>i, <1>g, <2>1, <2>2, <3>2, <3>3 DEF R, V
  <2>4. CASE m = n /\ chronic[n]
    <3>1. V' = V \cup {p} /\ chronic'[n] = FALSE
      BY <1>s, <1>t, <2>1, <2>4 DEF About
    <3>2. Cardinality(V') = Cardinality(V) + 1
      BY <1>f, <2>2, <3>1
    <3> QED BY <1>i, <1>f, <1>g, <1>t, <2>1, <2>2, <2>4, <3>1, <3>2 DEF R, V
  <2> QED BY <2>3, <2>4
<1>4. CASE Recover(p)
  <2>1. /\ pc[p] = "recover" /\ chronic' = chronic
        /\ alerts' = [alerts EXCEPT ![m] = @ - 1] /\ pc'[p] = "notify"
    BY <1>4, <1>t DEF Recover, objVars, Goto
  <2>2. p \notin R /\ R' = R /\ V' = V \ {p}
    BY <1>m, <1>s, <2>1 DEF About
  <2>3. CASE m # n
    <3>1. V' = V /\ alerts'[n] = alerts[n]
      BY <1>m, <1>t, <2>1, <2>2, <2>3 DEF About
    <3> QED BY <1>i, <1>g, <2>1, <2>2, <3>1 DEF R, V
  <2>4. CASE m = n
    <3>1. Cardinality(V') = Cardinality(V) - 1 /\ alerts'[n] = alerts[n] - 1
      BY <1>f, <1>m, <1>t, <2>1, <2>2, <2>4 DEF About
    <3> QED BY <1>i, <1>f, <1>g, <1>t, <2>1, <2>2, <3>1 DEF R, V
  <2> QED BY <2>3, <2>4
<1>5. CASE ~(MarkChronic(p) \/ ReportChronic(p) \/ ClearChronic(p) \/ Recover(p))
  <2>1. pc[p] \notin {"report", "recover"} /\ chronic' = chronic /\ alerts' = alerts
    BY <1>5 DEF CameraStep, ChangeRead, ChangeSet, Notify, PickSource, DeleteFirst, AddStream,
       AddStreamFails, IncrementError, NotifyLost, CountErrors, CheckProtocol, BumpStreak,
       Promote, Fallback, DropStream, objVars, observers
  <2>2. pc'[p] \notin {"report", "recover"}
    BY <1>5, CameraStepOrderly DEF Orderly
  <2>3. R' = R /\ V' = V
    BY <1>m, <1>s, <2>1, <2>2 DEF About
  <2> QED BY <1>i, <1>g, <2>1, <2>3 DEF R, V
<1> QED
  BY <1>1, <1>2, <1>3, <1>4, <1>5

LEMMA AlertsPreserved ==
  ASSUME TypeOK, ControlInv, NamedInv, QualityInv, WorkersInv, AlertsInv, [Next]_vars
  PROVE  AlertsInv'
<1>1. ASSUME Undisturbed, UNCHANGED <<chronic, alerts>>,
             \A o \in Objects : o \in Free \/ cam'[o].name = cam[o].name
      PROVE  AlertsInv'
  <2>1. \A n \in Names : Reporting(n)' = Reporting(n) /\ Recovering(n)' = Recovering(n)
    BY <1>1, CallbacksUndisturbed
  <2> QED BY <1>1, <2>1 DEF AlertsInv
<1>2. ASSUME NEW p \in Proc, CameraStep(p) PROVE AlertsInv'
  BY <1>2, AlertsByCameraStep
<1>3. CASE UNCHANGED vars
  BY <1>1, <1>3 DEF vars, objVars, observers, Undisturbed
<1>4. CASE \/ \E p \in Owners : OwnerStep(p)
           \/ LoopStep \/ Refresh \/ HealthCheck
           \/ \E S \in SUBSET Objects : ReconnectErrored(S)
           \/ \E u \in Users : Command(u)
           \/ \E c \in Accounts : CloudChange(c)
           \/ \E n \in Names : ProducerDies(n)
  <2> USE DEF objVars, observers
  <2>1. ASSUME NEW p \in Owners, OwnerStep(p) PROVE UNCHANGED <<chronic, alerts>>
    BY <2>1 DEF OwnerStep, Fetch, Apply, MarkOffline, Unlock, ConnectAll, Wait
  <2>2. ASSUME LoopStep \/ Refresh \/ HealthCheck PROVE UNCHANGED <<chronic, alerts>>
    BY <2>2 DEF LoopStep, Attach, Wire, HealthCams, HealthVisit, HealthHold, HealthDone,
       Refresh, HealthCheck
  <2>3. ASSUME NEW S \in SUBSET Objects, ReconnectErrored(S) PROVE UNCHANGED <<chronic, alerts>>
    BY <2>3 DEF ReconnectErrored
  <2>4. ASSUME NEW u \in Users, Command(u) PROVE UNCHANGED <<chronic, alerts>>
    BY <2>4 DEF Command, RestartStream, StartStream, StopStream, SetQuality, Rediscover
  <2>5. ASSUME NEW c \in Accounts, CloudChange(c) PROVE UNCHANGED <<chronic, alerts>>
    BY <2>5 DEF CloudChange
  <2>6. ASSUME NEW n \in Names, ProducerDies(n) PROVE UNCHANGED <<chronic, alerts>>
    BY <2>6 DEF ProducerDies
  <2>7. UNCHANGED <<chronic, alerts>>
    BY <1>4, <2>1, <2>2, <2>3, <2>4, <2>5, <2>6
  <2> QED BY <1>1, <1>4, <2>7, OtherStepStates, OtherStepOrderly
<1> QED
  BY <1>2, <1>3, <1>4 DEF Next

LEMMA AlertsInitially == Init => AlertsInv
<1> SUFFICES ASSUME Init, NEW n \in Names
             PROVE  /\ IsFiniteSet(Reporting(n)) /\ IsFiniteSet(Recovering(n))
                    /\ alerts[n] + Cardinality(Reporting(n)) - Cardinality(Recovering(n))
                         = IF chronic[n] THEN 1 ELSE 0
  BY DEF AlertsInv
<1>1. Reporting(n) = {} /\ Recovering(n) = {}
  BY DEF Init, Reporting, Recovering
<1>2. alerts[n] = 0 /\ chronic[n] = FALSE
  BY DEF Init
<1> QED
  BY <1>1, <1>2, FS_EmptySet

(* maybeReportChronic and clearChronic: the test of chronicReported and its
   change are one step under the lock, the callback comes after it.  So, name
   by name, reports and recoveries alternate up to the callbacks under way,
   however many goroutines see a camera fail and recover and however it is
   renamed meanwhile (manager.go:578-613).                                 *)
THEOREM Balanced == Spec => []AlertsBalance
<1>1. IInv => TypeOK /\ ControlInv /\ NamedInv
  BY DEF IInv
<1>2. IInv /\ (QualityInv /\ WorkersInv) /\ AlertsInv /\ [Next]_vars => AlertsInv'
  BY <1>1, AlertsPreserved
<1>3. AlertsInv => AlertsBalance
  BY DEF AlertsInv, AlertsBalance
<1> QED
  BY <1>2, <1>3, AlertsInitially, Placed, Inductive, PTL DEF Spec
-----------------------------------------------------------------------------
(* Without commands: main() and its discovery loop, with the goroutines they
   wait for, are the only ones in the manager.                             *)

Worker(o) == <<Loop, o>>

\* o has a stream that go2rtc can serve, over WebRTC once it is pinned.
HasStream(o) ==
  LET s == stream[cam[o].name] IN s # NoStream /\ (cam[o].force => s.proto = "webrtc")

\* What a process at each label of an operation knows of its camera.
Sound(p) ==
  LET o == loc[p].obj  s == cam[o].state  c == loc[p].cmd  l == pc[p]  g == loc[p].goal IN
    /\ l \in {"read", "set", "notify"} =>
         \/ g \in {"Connecting", "Streaming"} /\ c = "connect"
         \/ g = "Offline" /\ c \in {"boot", "refresh"} /\ p = Loop
    /\ l \in {"read", "set"} /\ g = "Streaming" => HasStream(o)
    /\ l = "notify" => s = g
    /\ l \in {"clear", "recover"} => s = "Streaming" /\ g = "Streaming" /\ c = "connect"
    /\ l \in {"source", "delete", "add"} => s = "Connecting" /\ c = "connect"
    /\ l \in {"delete", "add"} =>
         attached /\ loc[p].src # NoStream /\ (cam[o].force => loc[p].src.proto = "webrtc")
    /\ l = "hold" => c = "health"
    /\ l = "fail" => \/ c = "connect" /\ s = "Connecting"
                     \/ c = "health" /\ s = loc[p].old
    /\ l \in {"lost", "count", "chronic", "report", "protocol", "bump", "promote", "fallback"} =>
         s = "Error" /\ c \in {"connect", "health"}
    /\ l # "drop"

\* Processes are inside operations on cameras of the registry only, each
\* goroutine on that of its own.
SoleInv ==
  /\ todo[Loop] \subseteq RegisteredObjects
  /\ \A o \in Objects : pc[Worker(o)] # "idle" =>
       /\ pc[Worker(o)] \in CamLabels
       /\ loc[Worker(o)].obj = o /\ loc[Worker(o)].cmd = "connect"
  /\ \A p \in Proc : pc[p] \in CamLabels => Registered(loc[p].obj) /\ Sound(p)
  /\ loc[Loop].cmd = "boot" => ~wired
  /\ pc[Loop] \in DiscoverLabels \cup {"gather", "attach", "wire"} =>
       loc[Loop].cmd \in {"boot", "refresh"}
  /\ pc[Loop] \in {"cams", "check"} => loc[Loop].cmd = "health"

\* Whatever streams has a stream, and what has one is in the registry.
StreamsInv == \A n \in Names : registry[n] # Nil /\ cam[registry[n]].state = "Streaming"
                                 => HasStream(registry[n])

GhostInv ==
  /\ \A n \in Names : registry[n] = Nil => stream[n] = NoStream
  /\ ~attached => \A n \in Names : stream[n] = NoStream

\* The observers will be told that o does not stream: by whoever changed its
\* state, or, when o is new, by the goroutine that will connect it.
Untold(o) ==
  \/ \E p \in Proc : /\ loc[p].obj = o
                     /\ pc[p] = "lost" \/ (pc[p] = "notify" /\ loc[p].goal # "Streaming")
  \/ /\ cam[o].state = "Offline" /\ loc[Loop].cmd = "refresh"
     /\ pc[Loop] \in {"mark", "read", "set", "notify", "gather"}
  \/ /\ cam[o].state = "Offline" /\ pc[Worker(o)] \in {"read", "set"}
     /\ loc[Worker(o)].goal = "Connecting"

ToldInv ==
  \A n \in Names : told[n] = "Streaming" =>
    /\ wired
    /\ registry[n] # Nil => cam[registry[n]].state = "Streaming" \/ Untold(registry[n])

LEMMA SoleOwner ==
  ASSUME Users = {}
  PROVE  /\ Owners = {Loop} /\ Loop \in Proc
         /\ \A o \in Objects : Worker(o) \in Proc /\ Worker(o) # Loop
         /\ \A p \in Proc : p # Loop => \E o \in Objects : p = Worker(o)
         /\ \A o, x : Worker(o) = Worker(x) => o = x
<1>1. Owners = {Loop}
  BY DEF Owners
<1>2. Loop \in Proc /\ \A o \in Objects : Worker(o) \in Proc /\ Worker(o) \in Workers
  BY <1>1 DEF Proc, Workers, Worker
<1>3. \A o \in Objects : Worker(o) # Loop
  BY <1>1, <1>2
<1>4. \A p \in Proc : p # Loop => \E o \in Objects : p = Worker(o)
  BY <1>1 DEF Proc, Workers, Worker
<1> QED
  BY <1>1, <1>2, <1>3, <1>4 DEF Worker

\* One process at most is inside an operation on a camera.
LEMMA Exclusive ==
  ASSUME Users = {}, WorkersInv, SoleInv, NEW p \in Proc, pc[p] \in CamLabels
  PROVE  /\ \A q \in Proc : pc[q] \in CamLabels /\ loc[q].obj = loc[p].obj => q = p
         /\ p # Loop => /\ pc[Loop] = "wait" /\ loc[p].obj \in Objects
                        /\ p = Worker(loc[p].obj) /\ loc[p].cmd = "connect"
<1>0. "idle" \notin CamLabels /\ "wait" \notin CamLabels
  BY DEF CamLabels
<1>1. ASSUME NEW q \in Proc, pc[q] \in CamLabels, q # Loop
      PROVE  /\ pc[Loop] = "wait" /\ loc[q].obj \in Objects
             /\ q = Worker(loc[q].obj) /\ loc[q].cmd = "connect"
  <2>1. PICK o \in Objects : q = Worker(o)
    BY <1>1, SoleOwner
  <2>2. loc[q].obj = o /\ loc[q].cmd = "connect"
    BY <1>0, <1>1, <2>1 DEF SoleInv
  <2>3. pc[Loop] = "wait"
    BY <1>0, <1>1, <2>1, SoleOwner DEF WorkersInv, Worker
  <2> QED BY <2>1, <2>2, <2>3
<1>2. ASSUME NEW q \in Proc, pc[q] \in CamLabels, loc[q].obj = loc[p].obj PROVE q = p
  BY <1>0, <1>1, <1>2
<1> QED BY <1>1, <1>2

\* Entries with different cameras have different names.
LEMMA NameOfEntry ==
  ASSUME TypeOK, NamedInv, NEW o \in Objects, Registered(o)
  PROVE  cam[o].name \in Names /\ registry[cam[o].name] = o
BY DEF TypeOK, NamedInv, Registered

\* What Untold says of the camera p is at work on.
Pending(p, o) ==
  \/ pc[p] = "lost" \/ (pc[p] = "notify" /\ loc[p].goal # "Streaming")
  \/ /\ cam[o].state = "Offline" /\ p = Loop /\ loc[p].cmd = "refresh"
     /\ pc[p] \in {"mark", "read", "set", "notify"}
  \/ /\ cam[o].state = "Offline" /\ p # Loop /\ loc[p].goal = "Connecting"
     /\ pc[p] \in {"read", "set"}

LEMMA UntoldIsPending ==
  ASSUME Users = {}, ControlInv, WorkersInv, SoleInv, NEW p \in Proc,
         pc[p] \in CamLabels, Untold(loc[p].obj)
  PROVE  Pending(p, loc[p].obj)
<1> DEFINE o == loc[p].obj
<1>0. {"lost", "notify", "read", "set"} \subseteq CamLabels
      /\ {"wait", "mark", "gather"} \cap CamLabels = {}
  BY DEF CamLabels
<1>1. ASSUME NEW q \in Proc, loc[q].obj = o,
             pc[q] = "lost" \/ (pc[q] = "notify" /\ loc[q].goal # "Streaming")
      PROVE  Pending(p, o)
  <2>1. q = p
    BY <1>0, <1>1, Exclusive
  <2> QED BY <1>1, <2>1 DEF Pending
<1>2. CASE /\ cam[o].state = "Offline" /\ loc[Loop].cmd = "refresh"
           /\ pc[Loop] \in {"mark", "read", "set", "notify", "gather"}
  <2>1. p = Loop
    BY <1>0, <1>2, Exclusive
  <2> QED BY <1>0, <1>2, <2>1 DEF Pending
<1>3. CASE /\ cam[o].state = "Offline" /\ pc[Worker(o)] \in {"read", "set"}
           /\ loc[Worker(o)].goal = "Connecting"
  <2>1. o \in Objects
    BY DEF ControlInv
  <2>2. Worker(o) \in Proc /\ Worker(o) # Loop /\ pc[Worker(o)] \in CamLabels
    BY <1>0, <1>3, <2>1, SoleOwner
  <2>3. loc[Worker(o)].obj = o
    BY <2>1, <2>2 DEF SoleInv, CamLabels
  <2>4. Worker(o) = p
    BY <2>2, <2>3, Exclusive
  <2> QED BY <1>3, <2>2, <2>4 DEF Pending
<1> QED
  BY <1>1, <1>2, <1>3 DEF Untold

\* A step of p on camera o touches nothing but o, its stream and what is told of it ...
Frame(p, o) ==
  /\ UNCHANGED <<registry, todo, attached, wired>>
  /\ cam'[o].name = cam[o].name
  /\ \A x \in Objects \ {o} : cam'[x] = cam[x]
  /\ \A m \in Names \ {cam[o].name} : stream'[m] = stream[m] /\ told'[m] = told[m]
  /\ \A q \in Proc \ {p} : pc'[q] = pc[q] /\ loc'[q] = loc[q]

\* ... takes p where it belongs ...
Places(p) ==
  /\ pc'[p] \in CamLabels \cup {"mark", "check", "idle"}
  /\ pc'[p] \in CamLabels => loc'[p].obj = loc[p].obj /\ Sound(p)'
  /\ p # Loop => pc'[p] = "idle" \/ (pc'[p] \in CamLabels /\ loc'[p].cmd = "connect")
  /\ loc'[p].cmd \in {loc[p].cmd, "none", "health"}
  /\ pc'[p] = "mark" => loc'[p].cmd \in {"boot", "refresh"}
  /\ pc'[p] = "check" => loc'[p].cmd = "health"
  /\ p = Loop /\ loc[p].cmd = "refresh" /\ pc[p] \in {"read", "set", "notify"} =>
       loc'[p].cmd = "refresh" /\ pc'[p] \in {"mark", "read", "set", "notify"}

\* ... and leaves o as it should be.
Leaves(p, o) ==
  /\ cam'[o].state = "Streaming" => HasStream(o)'
  /\ ~attached => stream'[cam[o].name] = stream[cam[o].name]
  /\ told'[cam[o].name] = "Streaming" =>
       wired /\ (cam'[o].state = "Streaming" \/ Pending(p, o)')

StepInv == SoleInv /\ StreamsInv /\ ToldInv

LEMMA SoundKept ==
  ASSUME NEW p, Sound(p), pc'[p] = pc[p], loc'[p] = loc[p], attached' = attached,
         cam'[loc[p].obj] = cam[loc[p].obj],
         stream'[cam[loc[p].obj].name] = stream[cam[loc[p].obj].name]
  PROVE  Sound(p)'
BY DEF Sound, HasStream

LEMMA FramedSole ==
  ASSUME Users = {}, TypeOK, ControlInv, NamedInv, WorkersInv, SoleInv,
         NEW p \in Proc, pc[p] \in CamLabels, NEW o \in Objects, o = loc[p].obj,
         Frame(p, o), Places(p)
  PROVE  SoleInv'
<1>0. {"idle", "wait", "mark", "check", "cams", "gather", "attach", "wire"} \cap CamLabels = {}
      /\ DiscoverLabels \cap CamLabels = {}
  BY DEF CamLabels, DiscoverLabels
<1>1. \A x : Registered(x) => \E n \in Names : registry'[n] = x
  BY DEF Registered, Frame
<1>2. todo'[Loop] \subseteq RegisteredObjects'
  BY <1>1 DEF RegisteredObjects, Registered, Frame, SoleInv
<1>3. ASSUME NEW x \in Objects, pc'[Worker(x)] # "idle"
      PROVE  /\ pc'[Worker(x)] \in CamLabels
             /\ loc'[Worker(x)].obj = x /\ loc'[Worker(x)].cmd = "connect"
  <2>1. Worker(x) \in Proc /\ Worker(x) # Loop
    BY SoleOwner
  <2>2. CASE Worker(x) = p
    BY <1>0, <1>3, <2>1, <2>2 DEF Places, SoleInv
  <2>3. CASE Worker(x) # p
    BY <1>3, <2>1, <2>3 DEF Frame, SoleInv
  <2> QED BY <2>2, <2>3
<1>4. ASSUME NEW q \in Proc, pc'[q] \in CamLabels
      PROVE  (\E n \in Names : registry'[n] = loc'[q].obj) /\ Sound(q)'
  <2>1. CASE q = p
    <3>1. Sound(q)' /\ loc'[q].obj = o
      BY <1>4, <2>1 DEF Places
    <3>2. Registered(o)
      BY DEF SoleInv
    <3> QED BY <1>1, <3>1, <3>2
  <2>2. CASE q # p
    <3> DEFINE x == loc[q].obj
    <3>1. pc'[q] = pc[q] /\ loc'[q] = loc[q]
      BY <2>2 DEF Frame
    <3>2. Registered(x) /\ Sound(q) /\ x \in Objects /\ Registered(o)
      BY <1>4, <3>1 DEF SoleInv, ControlInv
    <3>3. x # o
      BY <1>4, <2>2, <3>1, Exclusive
    <3>4. cam[x].name \in Names /\ cam[x].name # cam[o].name
      BY <3>2, <3>3, NameOfEntry
    <3>5. cam'[x] = cam[x] /\ stream'[cam[x].name] = stream[cam[x].name]
      BY <3>2, <3>3, <3>4 DEF Frame
    <3>6. attached' = attached
      BY DEF Frame
    <3>7. Sound(q)'
      BY <3>1, <3>2, <3>5, <3>6, SoundKept
    <3> QED BY <1>1, <3>1, <3>2, <3>7
  <2> QED BY <2>1, <2>2
<1>5. loc'[Loop].cmd = "boot" => ~wired'
  <2>1. CASE p = Loop
    BY <2>1 DEF Places, Frame, SoleInv
  <2>2. CASE p # Loop
    BY <2>2, SoleOwner DEF Frame, SoleInv
  <2> QED BY <2>1, <2>2
<1>6. ASSUME pc'[Loop] \in DiscoverLabels \cup {"gather", "attach", "wire"}
      PROVE  loc'[Loop].cmd \in {"boot", "refresh"}
  <2>1. CASE p = Loop
    BY <1>0, <1>6, <2>1 DEF Places, DiscoverLabels
  <2>2. CASE p # Loop
    BY <1>6, <2>2, SoleOwner DEF Frame, SoleInv
  <2> QED BY <2>1, <2>2
<1>7. ASSUME pc'[Loop] \in {"cams", "check"}
      PROVE  loc'[Loop].cmd = "health"
  <2>1. CASE p = Loop
    BY <1>0, <1>7, <2>1 DEF Places
  <2>2. CASE p # Loop
    BY <1>7, <2>2, SoleOwner DEF Frame, SoleInv
  <2> QED BY <2>1, <2>2
<1> QED
  BY <1>2, <1>3, <1>4, <1>5, <1>6, <1>7 DEF SoleInv, Registered, Worker

LEMMA FramedStreams ==
  ASSUME TypeOK, NamedInv, StreamsInv, NEW p \in Proc, NEW o \in Objects, Registered(o),
         Frame(p, o), Leaves(p, o)
  PROVE  StreamsInv' /\ (GhostInv => GhostInv')
<1>1. cam[o].name \in Names /\ registry[cam[o].name] = o /\ o # Nil
  BY NameOfEntry
<1>2. ASSUME NEW n \in Names, NEW x \in Objects, registry[n] = x, cam'[x].state = "Streaming"
      PROVE  HasStream(x)'
  <2>1. CASE x = o
    BY <1>2, <2>1 DEF Leaves
  <2>2. CASE x # o
    <3>1. cam[x].name = n /\ n # cam[o].name
      BY <1>1, <1>2, <2>2 DEF NamedInv
    <3>2. cam'[x] = cam[x] /\ stream'[n] = stream[n]
      BY <2>2, <3>1 DEF Frame
    <3>3. HasStream(x)
      BY <1>2, <3>2 DEF StreamsInv
    <3> QED BY <3>1, <3>2, <3>3 DEF HasStream
  <2> QED BY <2>1, <2>2
<1>3. registry' = registry /\ attached' = attached
  BY DEF Frame
<1>4. StreamsInv'
  <2>1. SUFFICES ASSUME NEW n \in Names, registry'[n] # Nil,
                        cam'[registry'[n]].state = "Streaming"
                 PROVE  HasStream(registry[n])'
    BY DEF StreamsInv
  <2>2. PICK x \in Objects : x = registry[n]
    BY <1>3, <2>1 DEF TypeOK
  <2>3. HasStream(x)'
    BY <1>2, <1>3, <2>1, <2>2
  <2> QED BY <1>3, <2>2, <2>3 DEF HasStream
<1>5. ASSUME GhostInv PROVE GhostInv'
  BY <1>1, <1>3, <1>5 DEF GhostInv, Frame, Leaves
<1> QED
  BY <1>4, <1>5

LEMMA FramedTold ==
  ASSUME Users = {}, TypeOK, ControlInv, NamedInv, WorkersInv, SoleInv, ToldInv,
         NEW p \in Proc, pc[p] \in CamLabels, NEW o \in Objects, o = loc[p].obj,
         Frame(p, o), Places(p), Leaves(p, o)
  PROVE  ToldInv'
<1>0. /\ registry' = registry /\ wired' = wired
      /\ {"lost", "notify", "read", "set"} \subseteq CamLabels /\ "idle" \notin CamLabels
      /\ {"mark", "gather", "wait"} \cap CamLabels = {}
  BY DEF Frame, CamLabels
<1>1. Registered(o)
  BY DEF SoleInv
<1>2. cam[o].name \in Names /\ registry[cam[o].name] = o /\ o # Nil
  BY <1>1, NameOfEntry
<1>3. ASSUME Pending(p, o)' PROVE Untold(o)'
  <2>1. pc'[p] \in CamLabels => loc'[p].obj = o
    BY DEF Places
  <2>2. p # Loop => p = Worker(o)
    BY Exclusive
  <2> QED BY <1>0, <1>3, <2>1, <2>2 DEF Pending, Untold, Worker
<1>4. ASSUME NEW x \in Objects \ {o}, Untold(x) PROVE Untold(x)'
  <2>1. cam'[x] = cam[x]
    BY DEF Frame
  <2>2. ASSUME NEW q \in Proc, loc[q].obj = x,
               pc[q] = "lost" \/ (pc[q] = "notify" /\ loc[q].goal # "Streaming")
        PROVE  Untold(x)'
    <3>1. q # p
      BY <2>2
    <3>2. pc'[q] = pc[q] /\ loc'[q] = loc[q]
      BY <3>1 DEF Frame
    <3> QED BY <2>2, <3>2 DEF Untold
  <2>3. CASE /\ cam[x].state = "Offline" /\ loc[Loop].cmd = "refresh"
             /\ pc[Loop] \in {"mark", "read", "set", "notify", "gather"}
    <3>1. p = Loop
      BY <2>3, Exclusive
    <3>2. loc'[Loop].cmd = "refresh" /\ pc'[Loop] \in {"mark", "read", "set", "notify"}
      BY <1>0, <2>3, <3>1 DEF Places
    <3> QED BY <2>1, <2>3, <3>2 DEF Untold
  <2>4. CASE /\ cam[x].state = "Offline" /\ pc[Worker(x)] \in {"read", "set"}
             /\ loc[Worker(x)].goal = "Connecting"
    <3>1. Worker(x) \in Proc /\ loc[Worker(x)].obj = x
      BY <1>0, <2>4, SoleOwner DEF SoleInv
    <3>2. Worker(x) # p
      BY <3>1
    <3>3. pc'[Worker(x)] = pc[Worker(x)] /\ loc'[Worker(x)] = loc[Worker(x)]
      BY <3>1, <3>2 DEF Frame
    <3> QED BY <2>1, <2>4, <3>3 DEF Untold, Worker
  <2> QED BY <1>4, <2>2, <2>3, <2>4 DEF Untold
<1>5. SUFFICES ASSUME NEW n \in Names, told'[n] = "Streaming"
               PROVE  /\ wired'
                      /\ registry'[n] # Nil =>
                           cam'[registry'[n]].state = "Streaming" \/ Untold(registry[n])'
  BY DEF ToldInv
<1>6. CASE n = cam[o].name
  <2>1. wired /\ (cam'[o].state = "Streaming" \/ Untold(o)')
    BY <1>3, <1>5, <1>6 DEF Leaves
  <2> QED BY <1>0, <1>2, <1>6, <2>1 DEF Untold
<1>7. CASE n # cam[o].name
  <2>1. told[n] = "Streaming"
    BY <1>5, <1>7 DEF Frame
  <2>2. wired
    BY <2>1 DEF ToldInv
  <2>3. ASSUME registry[n] # Nil
        PROVE  cam'[registry[n]].state = "Streaming" \/ Untold(registry[n])'
    <3>1. PICK x \in Objects : x = registry[n]
      BY <2>3 DEF TypeOK
    <3>2. x # o
      BY <1>7, <2>3, <3>1 DEF NamedInv
    <3>3. cam[x].state = "Streaming" \/ Untold(x)
      BY <2>1, <2>3, <3>1 DEF ToldInv
    <3>4. cam'[x].state = "Streaming" \/ Untold(x)'
      BY <1>4, <3>2, <3>3 DEF Frame
    <3> QED BY <1>0, <3>1, <3>4 DEF Untold
  <2> QED BY <1>0, <2>2, <2>3
<1> QED
  BY <1>6, <1>7

\* Where p is to go from.
Start(p, o) ==
  /\ Users = {} /\ TypeOK /\ ControlInv /\ NamedInv /\ WorkersInv /\ StepInv
  /\ p \in Proc /\ o \in Objects /\ o = loc[p].obj

LEMMA Before ==
  ASSUME NEW p, NEW o, Start(p, o), pc[p] \in CamLabels
  PROVE  /\ Sound(p) /\ cam[o].name \in Names
         /\ cam[o].state = "Streaming" => HasStream(o)
         /\ told[cam[o].name] = "Streaming" =>
              wired /\ (cam[o].state = "Streaming" \/ Pending(p, o))
         /\ p # Loop => loc[p].cmd = "connect"
<1>1. /\ Users = {} /\ TypeOK /\ ControlInv /\ NamedInv /\ WorkersInv
      /\ SoleInv /\ StreamsInv /\ ToldInv
  BY DEF Start, StepInv
<1>2. p \in Proc /\ o \in Objects /\ o = loc[p].obj
  BY DEF Start
<1>3. Sound(p) /\ Registered(o)
  BY <1>1, <1>2 DEF SoleInv
<1>4. cam[o].name \in Names /\ registry[cam[o].name] = o /\ o # Nil
  BY <1>1, <1>2, <1>3, NameOfEntry
<1>5. cam[o].state = "Streaming" => HasStream(o)
  BY <1>1, <1>4 DEF StreamsInv
<1>6. Untold(o) => Pending(p, o)
  BY <1>1, <1>2, UntoldIsPending
<1>7. told[cam[o].name] = "Streaming" =>
        wired /\ (cam[o].state = "Streaming" \/ Pending(p, o))
  BY <1>1, <1>4, <1>6 DEF ToldInv
<1>8. p # Loop => loc[p].cmd = "connect"
  BY <1>1, <1>2, Exclusive
<1> QED
  BY <1>3, <1>4, <1>5, <1>7, <1>8

\* What a step on a camera does when it is as it should be.
Good(p, o) == Frame(p, o) /\ Places(p) /\ Leaves(p, o)

LEMMA FinishChecks ==
  ASSUME NEW p \in Proc, TypeOK, Finish(p)
  PROVE  /\ pc'[p] = "check" => loc'[p].cmd = "health"
         /\ loc[p].cmd # "health" => pc'[p] = "idle"
<1>1. NoLoc \in Local /\ [NoLoc EXCEPT !.cmd = "health"].cmd = "health"
  BY LocalFacts DEF NoLoc
<1>2. CASE loc[p].cmd = "health"
  <2>1. loc' = [loc EXCEPT ![p] = [NoLoc EXCEPT !.cmd = "health"]]
    BY <1>2 DEF Finish
  <2> QED BY <1>1, <1>2, <2>1 DEF TypeOK
<1>3. CASE loc[p].cmd # "health"
  BY <1>3 DEF Finish, Goto, TypeOK
<1> QED
  BY <1>2, <1>3

LEMMA FinishPlaces ==
  ASSUME NEW p \in Proc, TypeOK, Finish(p), p # Loop => loc[p].cmd = "connect",
         ~(loc[p].cmd = "refresh" /\ pc[p] \in {"read", "set", "notify"})
  PROVE  Places(p)
<1>1. loc'[p].cmd \in {"none", "health"} /\ pc'[p] \in {"check", "idle"}
  BY FinishOrderly
<1>2. loc[p].cmd = "connect" => pc'[p] = "idle"
  BY DEF Finish, Goto, TypeOK
<1>3. {"check", "idle", "mark"} \cap CamLabels = {}
  BY DEF CamLabels
<1>4. pc'[p] = "check" => loc'[p].cmd = "health"
  BY FinishChecks
<1> QED
  BY <1>1, <1>2, <1>3, <1>4 DEF Places

LEMMA GotoPlaces ==
  ASSUME NEW p \in Proc, TypeOK, NEW l \in CamLabels, Goto(p, l),
         loc'[p].obj = loc[p].obj, loc'[p].cmd = loc[p].cmd, Sound(p)',
         p # Loop => loc[p].cmd = "connect",
         ~(loc[p].cmd = "refresh" /\ pc[p] \in {"read", "set", "notify"})
           \/ l \in {"read", "set", "notify"}
  PROVE  Places(p)
<1>1. pc'[p] = l
  BY DEF Goto, TypeOK
<1>2. "mark" \notin CamLabels /\ "check" \notin CamLabels
  BY DEF CamLabels
<1> QED
  BY <1>1, <1>2 DEF Places

\* changeState returns.
LEMMA ReturnGoes ==
  ASSUME TypeOK, NEW p \in Proc, pc[p] \in {"read", "notify"}, Sound(p), Return(p)
  PROVE  \/ loc[p].goal = "Connecting" /\ Goto(p, "source") /\ loc' = loc
         \/ loc[p].goal = "Streaming" /\ Finish(p)
         \/ /\ loc[p].goal = "Offline" /\ pc'[p] = "mark" /\ p = Loop
            /\ loc[p].cmd \in {"boot", "refresh"} /\ loc'[p].cmd = loc[p].cmd
<1>1. \/ loc[p].goal \in {"Connecting", "Streaming"}
      \/ loc[p].goal = "Offline" /\ loc[p].cmd \in {"boot", "refresh"} /\ p = Loop
  BY DEF Sound
<1>2. CASE loc[p].goal = "Connecting"
  BY <1>2 DEF Return
<1>3. CASE loc[p].goal = "Streaming"
  BY <1>3 DEF Return
<1>4. CASE loc[p].goal = "Offline" /\ loc[p].cmd \in {"boot", "refresh"} /\ p = Loop
  <2>1. Goto(p, "mark") /\ loc' = [loc EXCEPT ![p].obj = Nil]
    BY <1>4 DEF Return
  <2>2. pc'[p] = "mark" /\ loc'[p].cmd = loc[p].cmd
    BY <2>1, LocFields DEF Goto, TypeOK
  <2> QED BY <1>4, <2>2
<1> QED
  BY <1>1, <1>2, <1>3, <1>4

LEMMA LocSet ==
  ASSUME TypeOK, NEW p \in Proc, NEW v
  PROVE  [loc EXCEPT ![p].src = v][p].src = v /\ [loc EXCEPT ![p].old = v][p].old = v
<1>1. loc \in [Proc -> Local] /\ loc[p] \in Local
  BY DEF TypeOK
<1> QED
  BY <1>1 DEF Local

LEMMA ChangeReadGood ==
  ASSUME NEW p, NEW o, Start(p, o), Advance(p), ChangeRead(p)
  PROVE  Good(p, o)
<1>1. /\ pc[p] = "read" /\ p \in Proc /\ o = loc[p].obj /\ o \in Objects /\ TypeOK
      /\ cam' = cam /\ stream' = stream /\ attached' = attached
      /\ UNCHANGED <<registry, todo, wired, told>>
  BY DEF Start, ChangeRead, objVars, bootVars, go2rtc, ownerVars, observers
<1>2. pc[p] \in CamLabels /\ {"read", "set", "source", "mark"} \cap {"idle", "lost", "notify"} = {}
      /\ "mark" \notin CamLabels /\ {"set", "source"} \subseteq CamLabels
  BY <1>1 DEF CamLabels
<1>3. Frame(p, o)
  BY <1>1 DEF Frame, Advance
<1>4. /\ Sound(p) /\ cam[o].name \in Names
      /\ cam[o].state = "Streaming" => HasStream(o)
      /\ told[cam[o].name] = "Streaming" =>
           wired /\ (cam[o].state = "Streaming" \/ Pending(p, o))
      /\ p # Loop => loc[p].cmd = "connect"
  BY <1>2, Before
<1>5. HasStream(o)' <=> HasStream(o)
  BY <1>1 DEF HasStream
<1>6. CASE cam[o].state = loc[p].goal /\ Return(p)
  <2>1. CASE loc[p].goal = "Connecting" /\ Goto(p, "source") /\ loc' = loc
    <3>1. pc'[p] = "source" /\ cam'[loc'[p].obj].state = "Connecting" /\ loc'[p].cmd = "connect"
      BY <1>1, <1>4, <1>6, <2>1 DEF Goto, TypeOK, Sound
    <3>2. Sound(p)'
      BY <3>1 DEF Sound
    <3>3. loc[p].cmd # "refresh"
      BY <2>1, <3>1
    <3>4. Places(p)
      BY <1>1, <1>2, <1>4, <2>1, <3>2, <3>3, GotoPlaces
    <3>5. ~Pending(p, o)
      BY <1>1, <1>6, <2>1 DEF Pending
    <3>6. Leaves(p, o)
      BY <1>1, <1>4, <1>6, <2>1, <3>5 DEF Leaves
    <3> QED BY <1>3, <3>4, <3>6 DEF Good
  <2>2. CASE loc[p].goal = "Streaming" /\ Finish(p)
    <3>1. loc[p].cmd = "connect"
      BY <1>1, <1>4, <2>2 DEF Sound
    <3>2. Places(p)
      BY <1>1, <1>4, <2>2, <3>1, FinishPlaces
    <3>3. Leaves(p, o)
      BY <1>1, <1>4, <1>5, <1>6, <2>2 DEF Leaves
    <3> QED BY <1>3, <3>2, <3>3 DEF Good
  <2>3. CASE /\ loc[p].goal = "Offline" /\ pc'[p] = "mark" /\ p = Loop
             /\ loc[p].cmd \in {"boot", "refresh"} /\ loc'[p].cmd = loc[p].cmd
    <3>1. Places(p)
      BY <1>1, <1>2, <2>3 DEF Places
    <3>2. told[cam[o].name] = "Streaming" => wired /\ Pending(p, o)
      BY <1>4, <1>6, <2>3
    <3>3. Pending(p, o) => Pending(p, o)'
      BY <1>1, <2>3 DEF Pending
    <3>4. Leaves(p, o)
      BY <1>1, <1>4, <1>6, <2>3, <3>2, <3>3 DEF Leaves
    <3> QED BY <1>3, <3>1, <3>4 DEF Good
  <2> QED BY <1>1, <1>4, <1>6, <2>1, <2>2, <2>3, ReturnGoes
<1>7. CASE cam[o].state # loc[p].goal /\ Goto(p, "set") /\ \E s : loc' = [loc EXCEPT ![p].old = s]
  <2>1. /\ pc'[p] = "set" /\ loc'[p].obj = o /\ loc'[p].cmd = loc[p].cmd
        /\ loc'[p].goal = loc[p].goal
    BY <1>1, <1>7, LocFields DEF Goto, TypeOK
  <2>2. Sound(p)'
    <3>1. /\ \/ loc'[p].goal \in {"Connecting", "Streaming"} /\ loc'[p].cmd = "connect"
             \/ loc'[p].goal = "Offline" /\ loc'[p].cmd \in {"boot", "refresh"} /\ p = Loop
          /\ loc'[p].goal = "Streaming" => HasStream(o)
      BY <1>1, <1>4, <2>1 DEF Sound
    <3>2. /\ stream'[cam'[loc'[p].obj].name] = stream[cam[o].name]
          /\ cam'[loc'[p].obj].force = cam[o].force
      BY <1>1, <2>1
    <3> QED BY <2>1, <3>1, <3>2 DEF Sound, HasStream
  <2>3. Places(p)
    BY <1>1, <1>2, <1>4, <1>7, <2>1, <2>2, GotoPlaces
  <2>4. Pending(p, o) => Pending(p, o)'
    BY <1>1, <2>1 DEF Pending
  <2>5. Leaves(p, o)
    BY <1>1, <1>4, <1>5, <2>4 DEF Leaves
  <2> QED BY <1>3, <2>3, <2>5 DEF Good
<1> QED
  BY <1>1, <1>6, <1>7 DEF ChangeRead

LEMMA ChangeSetGood ==
  ASSUME NEW p, NEW o, Start(p, o), Advance(p), ChangeSet(p)
  PROVE  Good(p, o)
<1>1. /\ pc[p] = "set" /\ p \in Proc /\ o = loc[p].obj /\ o \in Objects /\ TypeOK
      /\ loc' = loc /\ stream' = stream /\ attached' = attached
      /\ UNCHANGED <<registry, todo, wired, told>>
  BY DEF Start, ChangeSet, bootVars, go2rtc, ownerVars, observers
<1>2. pc[p] \in CamLabels /\ {"clear", "notify"} \subseteq CamLabels
  BY <1>1 DEF CamLabels
<1>4. /\ Sound(p) /\ cam[o].name \in Names
      /\ cam[o].state = "Streaming" => HasStream(o)
      /\ told[cam[o].name] = "Streaming" =>
           wired /\ (cam[o].state = "Streaming" \/ Pending(p, o))
      /\ p # Loop => loc[p].cmd = "connect"
  BY <1>2, Before
<1>5. SetsState(o, loc[p].goal) /\ Touches(o)
  BY <1>1 DEF ChangeSet, SetsState, Touches
<1>6. loc[p].goal \in States
  BY <1>1 DEF TypeOK, Local
<1>7. cam'[o].state = loc[p].goal /\ \A x \in Objects \ {o} : cam'[x] = cam[x]
  <2>1. cam'[o].state = loc[p].goal
    BY <1>1, <1>5, <1>6, StateSet
  <2>2. \A x \in Objects \ {o} : cam'[x] = cam[x]
    BY <1>1, <1>5 DEF SetsState, TypeOK
  <2> QED BY <2>1, <2>2
<1>8. cam'[o].name = cam[o].name /\ cam'[o].force = cam[o].force
  BY <1>1, <1>5, CamKept DEF SameNames, SameForce
<1>3. Frame(p, o)
  BY <1>1, <1>7, <1>8 DEF Frame, Advance
<1>9. HasStream(o)' <=> HasStream(o)
  BY <1>1, <1>8 DEF HasStream
<1>10. CASE loc[p].goal = "Streaming" /\ Goto(p, "clear")
  <2>1. pc'[p] = "clear" /\ loc[p].cmd = "connect"
    BY <1>1, <1>4, <1>10 DEF Goto, TypeOK, Sound
  <2>2. Sound(p)'
    BY <1>1, <1>7, <1>10, <2>1 DEF Sound
  <2>3. Places(p)
    BY <1>1, <1>2, <1>4, <1>10, <2>1, <2>2, GotoPlaces
  <2>4. HasStream(o)
    BY <1>1, <1>4, <1>10 DEF Sound
  <2>5. Leaves(p, o)
    BY <1>1, <1>4, <1>7, <1>9, <1>10, <2>4 DEF Leaves
  <2> QED BY <1>3, <2>3, <2>5 DEF Good
<1>11. CASE loc[p].goal # "Streaming" /\ Goto(p, "notify")
  <2>1. pc'[p] = "notify"
    BY <1>1, <1>11 DEF Goto, TypeOK
  <2>2. Sound(p)'
    <3>1. \/ loc[p].goal \in {"Connecting", "Streaming"} /\ loc[p].cmd = "connect"
          \/ loc[p].goal = "Offline" /\ loc[p].cmd \in {"boot", "refresh"} /\ p = Loop
      BY <1>1, <1>4 DEF Sound
    <3> QED BY <1>1, <1>7, <2>1, <3>1 DEF Sound
  <2>3. Places(p)
    BY <1>1, <1>2, <1>4, <1>11, <2>2, GotoPlaces
  <2>4. Pending(p, o)'
    BY <1>1, <1>11, <2>1 DEF Pending
  <2>5. Leaves(p, o)
    BY <1>1, <1>4, <1>7, <1>11, <2>4 DEF Leaves
  <2> QED BY <1>3, <2>3, <2>5 DEF Good
<1> QED
  BY <1>10, <1>11 DEF ChangeSet

\* A step that only moves p.
LEMMA PassGood ==
  ASSUME NEW p, NEW o, Start(p, o), Advance(p), pc[p] \in CamLabels,
         pc[p] \notin {"read", "set", "notify", "lost"},
         UNCHANGED <<registry, todo, attached, wired, cam, stream, told>>, Places(p)
  PROVE  Good(p, o)
<1>1. ~Pending(p, o)
  <2>1. pc[p] # "mark"
    BY DEF CamLabels
  <2> QED BY <2>1 DEF Pending
<1>2. Leaves(p, o)
  BY <1>1, Before DEF Leaves, HasStream
<1>3. Frame(p, o)
  BY DEF Frame, Advance
<1> QED
  BY <1>2, <1>3 DEF Good

LEMMA StreamingGood ==
  ASSUME NEW p, NEW o, Start(p, o), Advance(p), ClearChronic(p) \/ Recover(p)
  PROVE  Good(p, o)
<1>1. /\ p \in Proc /\ o = loc[p].obj /\ TypeOK /\ loc' = loc
      /\ UNCHANGED <<registry, todo, attached, wired, cam, stream, told>>
      /\ pc[p] \in {"clear", "recover"}
  BY DEF Start, ClearChronic, Recover, objVars, bootVars, go2rtc, ownerVars, observers
<1>2. pc[p] \in CamLabels /\ {"recover", "notify"} \subseteq CamLabels
  BY <1>1 DEF CamLabels
<1>3. PICK l \in {"recover", "notify"} : Goto(p, l)
  BY DEF ClearChronic, Recover
<1>4. pc'[p] = l
  BY <1>1, <1>3 DEF Goto, TypeOK
<1>5. Sound(p) /\ (p # Loop => loc[p].cmd = "connect")
  BY <1>2, Before
<1>6. Sound(p)'
  BY <1>1, <1>4, <1>5 DEF Sound
<1>7. Places(p)
  BY <1>1, <1>2, <1>3, <1>5, <1>6, GotoPlaces
<1> QED
  BY <1>1, <1>2, <1>7, PassGood

\* The labels of the failure path after IncrementError.
FailedLabels == {"count", "chronic", "report", "protocol", "bump", "promote", "fallback"}

LEMMA FailedPlaces ==
  ASSUME NEW p, NEW o, Start(p, o), pc[p] \in FailedLabels \cup {"lost"},
         cam'[o].state = "Error", attached' = attached,
         Finish(p) \/ \E l \in FailedLabels : Goto(p, l) /\ loc' = loc
  PROVE  Places(p)
<1>1. p \in Proc /\ o = loc[p].obj /\ TypeOK
  BY DEF Start
<1>2. pc[p] \in CamLabels /\ FailedLabels \subseteq CamLabels
  BY DEF CamLabels, FailedLabels
<1>3. Sound(p) /\ (p # Loop => loc[p].cmd = "connect")
  BY <1>2, Before
<1>4. loc[p].cmd \in {"connect", "health"}
  BY <1>3 DEF Sound, FailedLabels
<1>5. CASE Finish(p)
  BY <1>1, <1>3, <1>4, <1>5, FinishPlaces
<1>6. ASSUME NEW l \in FailedLabels, Goto(p, l), loc' = loc
      PROVE  Places(p)
  <2>1. pc'[p] = l
    BY <1>1, <1>6 DEF Goto, TypeOK
  <2>2. Sound(p)'
    BY <1>1, <1>4, <1>6, <2>1 DEF Sound, FailedLabels
  <2> QED BY <1>1, <1>2, <1>3, <1>4, <1>6, <2>2, GotoPlaces
<1> QED
  BY <1>5, <1>6

LEMMA FailedGood ==
  ASSUME NEW p, NEW o, Start(p, o), Advance(p),
         CountErrors(p) \/ MarkChronic(p) \/ ReportChronic(p) \/ CheckProtocol(p)
  PROVE  Good(p, o)
<1>1. /\ p \in Proc /\ o = loc[p].obj
      /\ UNCHANGED <<registry, todo, attached, wired, cam, stream, told>>
      /\ pc[p] \in {"count", "chronic", "report", "protocol"}
  BY DEF Start, CountErrors, MarkChronic, ReportChronic, CheckProtocol, objVars, bootVars,
     go2rtc, ownerVars, observers
<1>2. pc[p] \in CamLabels /\ pc[p] \in FailedLabels
  BY <1>1 DEF CamLabels, FailedLabels
<1>3. Finish(p) \/ \E l \in FailedLabels : Goto(p, l) /\ loc' = loc
  <2>1. CASE CountErrors(p)
    BY <2>1 DEF CountErrors, FailedLabels
  <2>2. CASE MarkChronic(p)
    BY <2>2 DEF MarkChronic, FailedLabels
  <2>3. CASE ReportChronic(p)
    BY <2>3 DEF ReportChronic, FailedLabels
  <2>4. CASE CheckProtocol(p)
    BY <2>4 DEF CheckProtocol, FailedLabels
  <2> QED BY <2>1, <2>2, <2>3, <2>4
<1>4. cam[o].state = "Error"
  BY <1>1, <1>2, Before DEF Sound
<1>5. Places(p)
  BY <1>1, <1>2, <1>3, <1>4, FailedPlaces
<1> QED
  BY <1>1, <1>2, <1>5, PassGood

LEMMA PinningGood ==
  ASSUME NEW p, NEW o, Start(p, o), Advance(p), BumpStreak(p) \/ Promote(p) \/ Fallback(p)
  PROVE  Good(p, o)
<1>1. /\ p \in Proc /\ o = loc[p].obj /\ o \in Objects /\ TypeOK
      /\ UNCHANGED <<registry, todo, attached, wired, stream, told>>
      /\ pc[p] \in {"bump", "promote", "fallback"}
  BY DEF Start, BumpStreak, Promote, Fallback, bootVars, go2rtc, ownerVars, observers
<1>2. pc[p] \in CamLabels /\ pc[p] \in FailedLabels
  BY <1>1 DEF CamLabels, FailedLabels
<1>3. Finish(p) \/ \E l \in FailedLabels : Goto(p, l) /\ loc' = loc
  BY DEF BumpStreak, Promote, Fallback, FailedLabels
<1>4. \/ cam' = cam \/ cam' = [cam EXCEPT ![o].streak = @ + 1]
      \/ cam' = [cam EXCEPT ![o].streak = 0] \/ cam' = [cam EXCEPT ![o].force = TRUE]
  BY <1>1 DEF BumpStreak, Promote, Fallback
<1>5. Spares(o) \/ cam' = cam
  BY <1>4 DEF Spares
<1>6. /\ cam'[o].state = cam[o].state /\ cam'[o].name = cam[o].name
      /\ \A x \in Objects \ {o} : cam'[x] = cam[x]
  <2>1. cam[o] \in Camera /\ cam \in [Objects -> Camera]
    BY <1>1 DEF TypeOK
  <2> QED BY <1>1, <1>4, <2>1 DEF Camera
<1>7. /\ cam[o].state = "Error" /\ cam[o].name \in Names
      /\ told[cam[o].name] = "Streaming" => cam[o].state = "Streaming" \/ Pending(p, o)
  BY <1>1, <1>2, Before DEF Sound
<1>8. ~Pending(p, o)
  BY <1>1 DEF Pending
<1>9. Leaves(p, o)
  BY <1>1, <1>6, <1>7, <1>8 DEF Leaves
<1>10. Places(p)
  BY <1>1, <1>2, <1>3, <1>6, <1>7, FailedPlaces
<1>11. Frame(p, o)
  BY <1>1, <1>6 DEF Frame, Advance
<1> QED
  BY <1>9, <1>10, <1>11 DEF Good

LEMMA NotifyLostGood ==
  ASSUME NEW p, NEW o, Start(p, o), Advance(p), NotifyLost(p)
  PROVE  Good(p, o)
<1>1. /\ p \in Proc /\ o = loc[p].obj /\ TypeOK /\ pc[p] = "lost"
      /\ UNCHANGED <<registry, todo, attached, wired, stream, cam>>
      /\ told' = IF wired THEN [told EXCEPT ![cam[o].name] = "Error"] ELSE told
      /\ Goto(p, "count") /\ loc' = loc
  BY DEF Start, NotifyLost, Tell, objVars, bootVars, go2rtc, ownerVars
<1>2. pc[p] \in CamLabels /\ "count" \in FailedLabels
  BY <1>1 DEF CamLabels, FailedLabels
<1>3. /\ cam[o].state = "Error" /\ cam[o].name \in Names
      /\ told[cam[o].name] = "Streaming" => wired
  BY <1>1, <1>2, Before DEF Sound
<1>4. told'[cam[o].name] # "Streaming"
  BY <1>1, <1>3 DEF TypeOK
<1>5. Leaves(p, o)
  BY <1>1, <1>3, <1>4 DEF Leaves
<1>6. Places(p)
  BY <1>1, <1>2, <1>3, FailedPlaces
<1>7. Frame(p, o)
  BY <1>1, <1>3 DEF Frame, Advance, TypeOK
<1> QED
  BY <1>5, <1>6, <1>7 DEF Good

LEMMA NotifyGood ==
  ASSUME NEW p, NEW o, Start(p, o), Advance(p), Notify(p)
  PROVE  Good(p, o)
<1>1. /\ p \in Proc /\ o = loc[p].obj /\ TypeOK /\ pc[p] = "notify"
      /\ UNCHANGED <<registry, todo, attached, wired, stream, cam>>
      /\ told' = IF wired THEN [told EXCEPT ![cam[o].name] = loc[p].goal] ELSE told
      /\ Return(p)
  BY DEF Start, Notify, Tell, objVars, bootVars, go2rtc, ownerVars
<1>2. pc[p] \in CamLabels /\ "source" \in CamLabels /\ "mark" \notin CamLabels
  BY <1>1 DEF CamLabels
<1>3. /\ cam[o].state = loc[p].goal /\ cam[o].name \in Names /\ Sound(p)
      /\ cam[o].state = "Streaming" => HasStream(o)
      /\ told[cam[o].name] = "Streaming" => wired
      /\ p # Loop => loc[p].cmd = "connect"
  BY <1>1, <1>2, Before DEF Sound
<1>4. wired => told'[cam[o].name] = loc[p].goal
  BY <1>1, <1>3 DEF TypeOK
<1>5. Leaves(p, o)
  BY <1>1, <1>3, <1>4 DEF Leaves, HasStream
<1>6. Frame(p, o)
  BY <1>1, <1>3 DEF Frame, Advance, TypeOK
<1>7. Places(p)
  <2>1. CASE loc[p].goal = "Connecting" /\ Goto(p, "source") /\ loc' = loc
    <3>1. pc'[p] = "source" /\ loc[p].cmd = "connect"
      BY <1>1, <1>3, <2>1 DEF Goto, TypeOK, Sound
    <3>2. Sound(p)'
      BY <1>1, <1>3, <2>1, <3>1 DEF Sound
    <3> QED BY <1>1, <1>2, <1>3, <2>1, <3>1, <3>2, GotoPlaces
  <2>2. CASE loc[p].goal = "Streaming" /\ Finish(p)
    <3>1. loc[p].cmd = "connect"
      BY <1>1, <1>3, <2>2 DEF Sound
    <3> QED BY <1>1, <1>3, <2>2, <3>1, FinishPlaces
  <2>3. CASE /\ loc[p].goal = "Offline" /\ pc'[p] = "mark" /\ p = Loop
             /\ loc[p].cmd \in {"boot", "refresh"} /\ loc'[p].cmd = loc[p].cmd
    BY <1>1, <1>2, <2>3 DEF Places
  <2> QED BY <1>1, <1>3, <2>1, <2>2, <2>3, ReturnGoes
<1> QED
  BY <1>5, <1>6, <1>7 DEF Good

LEMMA PickSourceGood ==
  ASSUME NEW p, NEW o, Start(p, o), Advance(p), PickSource(p)
  PROVE  Good(p, o)
<1>1. /\ p \in Proc /\ o = loc[p].obj /\ o \in Objects /\ TypeOK /\ pc[p] = "source"
      /\ UNCHANGED <<registry, todo, attached, wired, stream, cam, told>>
  BY DEF Start, PickSource, objVars, bootVars, go2rtc, ownerVars, observers
<1>2. pc[p] \in CamLabels /\ {"add", "delete"} \subseteq CamLabels
  BY <1>1 DEF CamLabels
<1>3. /\ cam[o].state = "Connecting" /\ loc[p].cmd = "connect"
      /\ p # Loop => loc[p].cmd = "connect"
  BY <1>1, <1>2, Before DEF Sound
<1>4. CASE ~attached /\ Finish(p)
  <2>1. Places(p)
    BY <1>1, <1>3, <1>4, FinishPlaces
  <2> QED BY <1>1, <1>2, <2>1, PassGood
<1>5. CASE /\ attached /\ loc' = [loc EXCEPT ![p].src = SourceFor(o)]
           /\ \E l \in {"add", "delete"} : Goto(p, l)
  <2>1. PICK l \in {"add", "delete"} : Goto(p, l)
    BY <1>5
  <2>2. /\ pc'[p] = l /\ loc'[p].obj = o /\ loc'[p].cmd = "connect"
        /\ loc'[p].src = SourceFor(o)
    BY <1>1, <1>3, <1>5, <2>1, LocFields, LocSet DEF Goto, TypeOK
  <2>3. SourceFor(o) # NoStream
    BY DEF SourceFor, TutkSource, Protocol, NoStream
  <2>4. cam[o].force => SourceFor(o).proto = "webrtc"
    BY DEF SourceFor, TutkSource, Protocol
  <2>5. Sound(p)'
    BY <1>1, <1>3, <1>5, <2>2, <2>3, <2>4 DEF Sound
  <2>6. Places(p)
    BY <1>1, <1>2, <1>3, <2>1, <2>2, <2>5, GotoPlaces
  <2> QED BY <1>1, <1>2, <2>6, PassGood
<1> QED
  BY <1>1, <1>4, <1>5 DEF PickSource

\* Steps on the stream of a camera that is being connected.
LEMMA StreamGood ==
  ASSUME NEW p, NEW o, Start(p, o), Advance(p), pc[p] \in {"delete", "add"},
         UNCHANGED <<registry, todo, attached, wired, cam, told>>, Places(p),
         \/ stream' = stream
         \/ \E v : stream' = [stream EXCEPT ![cam[o].name] = v]
  PROVE  Good(p, o)
<1>1. p \in Proc /\ o = loc[p].obj /\ o \in Objects /\ TypeOK
  BY DEF Start
<1>2. pc[p] \in CamLabels
  BY DEF CamLabels
<1>3. /\ cam[o].state = "Connecting" /\ attached
      /\ told[cam[o].name] = "Streaming" => cam[o].state = "Streaming" \/ Pending(p, o)
  BY <1>1, <1>2, Before DEF Sound
<1>4. ~Pending(p, o)
  BY DEF Pending
<1>5. Leaves(p, o)
  BY <1>3, <1>4 DEF Leaves
<1>6. \A m \in Names \ {cam[o].name} : stream'[m] = stream[m]
  BY <1>1 DEF TypeOK
<1>7. Frame(p, o)
  BY <1>6 DEF Frame, Advance
<1> QED
  BY <1>5, <1>7 DEF Good

LEMMA DeleteFirstGood ==
  ASSUME NEW p, NEW o, Start(p, o), Advance(p), DeleteFirst(p)
  PROVE  Good(p, o)
<1>1. /\ p \in Proc /\ o = loc[p].obj /\ o \in Objects /\ TypeOK /\ pc[p] = "delete"
      /\ UNCHANGED <<registry, todo, attached, wired, cam, told>> /\ Goto(p, "add")
  BY DEF Start, DeleteFirst, objVars, bootVars, ownerVars, observers
<1>2. pc[p] \in CamLabels /\ "add" \in CamLabels
  BY <1>1 DEF CamLabels
<1>3. Sound(p) /\ loc[p].cmd = "connect"
  BY <1>1, <1>2, Before DEF Sound
<1>4. loc' = loc
  BY <1>3 DEF DeleteFirst
<1>5. pc'[p] = "add"
  BY <1>1 DEF Goto, TypeOK
<1>6. Sound(p)'
  BY <1>1, <1>3, <1>4, <1>5 DEF Sound
<1>7. Places(p)
  BY <1>1, <1>2, <1>3, <1>4, <1>6, GotoPlaces
<1>8. stream' = stream \/ \E v : stream' = [stream EXCEPT ![cam[o].name] = v]
  BY <1>1 DEF DeleteFirst, DeleteStream, go2rtc
<1> QED
  BY <1>1, <1>7, <1>8, StreamGood

LEMMA AddStreamGood ==
  ASSUME NEW p, NEW o, Start(p, o), Advance(p), AddStream(p)
  PROVE  Good(p, o)
<1>1. /\ p \in Proc /\ o = loc[p].obj /\ o \in Objects /\ TypeOK /\ pc[p] = "add"
      /\ UNCHANGED <<registry, todo, attached, wired, cam, told>>
      /\ stream' = [stream EXCEPT ![cam[o].name] = loc[p].src]
  BY DEF Start, AddStream, PutStream, objVars, bootVars, ownerVars, observers
<1>2. pc[p] \in CamLabels /\ "read" \in CamLabels
  BY <1>1 DEF CamLabels
<1>3. /\ loc[p].cmd = "connect" /\ loc[p].src # NoStream /\ cam[o].name \in Names
      /\ cam[o].force => loc[p].src.proto = "webrtc"
  BY <1>1, <1>2, Before DEF Sound
<1>4. Goto(p, "read") /\ loc' = [loc EXCEPT ![p].goal = "Streaming"]
  BY <1>3 DEF AddStream
<1>5. pc'[p] = "read" /\ loc'[p].obj = o /\ loc'[p].cmd = "connect" /\ loc'[p].goal = "Streaming"
  BY <1>1, <1>3, <1>4, LocFields DEF Goto, TypeOK
<1>6. stream'[cam'[loc'[p].obj].name] = loc[p].src /\ cam'[loc'[p].obj].force = cam[o].force
  BY <1>1, <1>3, <1>5 DEF TypeOK
<1>7. Sound(p)'
  BY <1>3, <1>5, <1>6 DEF Sound, HasStream
<1>8. Places(p)
  BY <1>1, <1>2, <1>3, <1>4, <1>5, <1>7, GotoPlaces
<1> QED
  BY <1>1, <1>8, StreamGood

LEMMA AddStreamFailsGood ==
  ASSUME NEW p, NEW o, Start(p, o), Advance(p), AddStreamFails(p)
  PROVE  Good(p, o)
<1>1. /\ p \in Proc /\ o = loc[p].obj /\ o \in Objects /\ TypeOK /\ pc[p] = "add"
      /\ UNCHANGED <<registry, todo, attached, wired, cam, told>>
      /\ stream' = stream \/ \E v : stream' = [stream EXCEPT ![cam[o].name] = v]
  BY DEF Start, AddStreamFails, PutStream, objVars, bootVars, ownerVars, observers, go2rtc
<1>2. pc[p] \in CamLabels /\ "fail" \in CamLabels
  BY <1>1 DEF CamLabels
<1>3. Sound(p) /\ loc[p].cmd = "connect" /\ cam[o].state = "Connecting"
  BY <1>1, <1>2, Before DEF Sound
<1>4. Goto(p, "fail") /\ loc' = loc
  BY <1>3 DEF AddStreamFails
<1>5. pc'[p] = "fail"
  BY <1>1, <1>4 DEF Goto, TypeOK
<1>6. Sound(p)'
  BY <1>1, <1>3, <1>4, <1>5 DEF Sound
<1>7. Places(p)
  BY <1>1, <1>2, <1>3, <1>4, <1>6, GotoPlaces
<1> QED
  BY <1>1, <1>7, StreamGood

LEMMA IncrementErrorGood ==
  ASSUME NEW p, NEW o, Start(p, o), Advance(p), IncrementError(p)
  PROVE  Good(p, o)
<1>1. /\ p \in Proc /\ o = loc[p].obj /\ o \in Objects /\ TypeOK /\ pc[p] = "fail"
      /\ UNCHANGED <<registry, todo, attached, wired, stream, told>> /\ loc' = loc
      /\ cam' = [cam EXCEPT ![o].errors = @ + 1, ![o].state = "Error"]
      /\ Goto(p, IF loc[p].cmd = "health" /\ loc[p].old # "Error" THEN "lost" ELSE "count")
  BY DEF Start, IncrementError, bootVars, go2rtc, ownerVars, observers
<1>2. pc[p] \in CamLabels /\ {"lost", "count"} \subseteq CamLabels
  BY <1>1 DEF CamLabels
<1>3. /\ \/ loc[p].cmd = "connect" /\ cam[o].state = "Connecting"
         \/ loc[p].cmd = "health" /\ cam[o].state = loc[p].old
      /\ cam[o].name \in Names /\ (p # Loop => loc[p].cmd = "connect")
      /\ told[cam[o].name] = "Streaming" =>
           wired /\ (cam[o].state = "Streaming" \/ Pending(p, o))
  BY <1>1, <1>2, Before DEF Sound
<1>4. ~Pending(p, o)
  BY <1>1 DEF Pending
<1>5. cam'[o].state = "Error" /\ \A x \in Objects \ {o} : cam'[x] = cam[x]
  <2>1. TypeOK /\ o \in Objects /\ cam' = [cam EXCEPT ![o].errors = @ + 1, ![o].state = "Error"]
    BY <1>1
  <2>2. cam'[o].state = "Error"
    <3>1. SetsState(o, "Error")
      BY <2>1 DEF SetsState
    <3>2. "Error" \in States
      BY DEF States
    <3> QED BY <2>1, <3>1, <3>2, StateSet
  <2>3. \A x \in Objects \ {o} : cam'[x] = cam[x]
    BY <1>1 DEF TypeOK
  <2> QED BY <2>2, <2>3
<1>6. Touches(o)
  BY <1>1 DEF Touches
<1>7. cam'[o].name = cam[o].name
  BY <1>1, <1>6, CamKept DEF SameNames
<1>8. PICK l \in {"lost", "count"} :
        Goto(p, l) /\ (loc[p].cmd = "health" /\ loc[p].old # "Error" => l = "lost")
  BY <1>1
<1>9. pc'[p] = l
  BY <1>1, <1>8 DEF Goto, TypeOK
<1>10. Sound(p)'
  BY <1>1, <1>3, <1>5, <1>9 DEF Sound
<1>11. Places(p)
  BY <1>1, <1>2, <1>3, <1>8, <1>10, GotoPlaces
<1>12. told[cam[o].name] = "Streaming" => wired /\ l = "lost"
  BY <1>3, <1>4, <1>8
<1>13. Leaves(p, o)
  <2>1. l = "lost" => Pending(p, o)'
    BY <1>9 DEF Pending
  <2> QED BY <1>1, <1>5, <1>12, <2>1 DEF Leaves
<1>14. Frame(p, o)
  BY <1>1, <1>5, <1>7 DEF Frame, Advance
<1> QED
  BY <1>11, <1>13, <1>14 DEF Good

LEMMA HealthHoldGood ==
  ASSUME NEW o, Start(Loop, o), Advance(Loop), HealthHold
  PROVE  Good(Loop, o)
<1>1. /\ Loop \in Proc /\ o = loc[Loop].obj /\ o \in Objects /\ TypeOK /\ pc[Loop] = "hold"
      /\ UNCHANGED <<registry, todo, attached, wired, stream, cam, told>>
      /\ Goto(Loop, "fail") /\ loc' = [loc EXCEPT ![Loop].old = cam[o].state]
  BY DEF Start, HealthHold, objVars, bootVars, go2rtc, ownerVars, observers
<1>2. pc[Loop] \in CamLabels /\ "fail" \in CamLabels
  BY <1>1 DEF CamLabels
<1>3. loc[Loop].cmd = "health"
  BY <1>1, <1>2, Before DEF Sound
<1>4. /\ pc'[Loop] = "fail" /\ loc'[Loop].obj = o /\ loc'[Loop].cmd = "health"
      /\ loc'[Loop].old = cam[o].state
  BY <1>1, <1>3, LocFields, LocSet DEF Goto, TypeOK
<1>5. Sound(Loop)'
  BY <1>1, <1>4 DEF Sound
<1>6. Places(Loop)
  BY <1>1, <1>2, <1>3, <1>4, <1>5, GotoPlaces
<1> QED
  BY <1>1, <1>2, <1>6, PassGood

LEMMA CameraStepGood ==
  ASSUME NEW p, NEW o, Start(p, o), Advance(p), CameraStep(p)
  PROVE  Good(p, o) /\ pc[p] \in CamLabels
<1>1. pc[p] \in CamLabels
  BY DEF CameraStep, ChangeRead, ChangeSet, ClearChronic, Recover, Notify, PickSource,
     DeleteFirst, AddStream, AddStreamFails, IncrementError, NotifyLost, CountErrors,
     MarkChronic, ReportChronic, CheckProtocol, BumpStreak, Promote, Fallback, DropStream,
     CamLabels
<1>2. pc[p] # "drop"
  BY <1>1, Before DEF Sound
<1>3. ~DropStream(p)
  BY <1>2 DEF DropStream
<1> QED
  BY <1>1, <1>3, ChangeReadGood, ChangeSetGood, StreamingGood, NotifyGood, PickSourceGood,
     DeleteFirstGood, AddStreamGood, AddStreamFailsGood, IncrementErrorGood,
     NotifyLostGood, FailedGood, PinningGood DEF CameraStep

LEMMA GoodKeeps ==
  ASSUME NEW p, NEW o, Start(p, o), Good(p, o), pc[p] \in CamLabels
  PROVE  StepInv' /\ (GhostInv => GhostInv')
<1>1. /\ Users = {} /\ TypeOK /\ ControlInv /\ NamedInv /\ WorkersInv
      /\ SoleInv /\ StreamsInv /\ ToldInv /\ p \in Proc /\ o \in Objects /\ o = loc[p].obj
      /\ Frame(p, o) /\ Places(p) /\ Leaves(p, o)
  BY DEF Start, StepInv, Good
<1>2. Registered(o)
  BY <1>1 DEF SoleInv
<1>3. SoleInv'
  BY <1>1, FramedSole
<1>4. StreamsInv' /\ (GhostInv => GhostInv')
  BY <1>1, <1>2, FramedStreams
<1>5. ToldInv'
  BY <1>1, FramedTold
<1> QED
  BY <1>3, <1>4, <1>5 DEF StepInv

-----------------------------------------------------------------------------
(* The steps of main() and the discovery loop between operations.          *)

Resting == pc[Loop] \notin CamLabels /\ \A o \in Objects : pc[Worker(o)] = "idle"

LEMMA NoneInside ==
  ASSUME Users = {}, Resting
  PROVE  \A p \in Proc : pc[p] \notin CamLabels
<1>1. "idle" \notin CamLabels
  BY DEF CamLabels
<1> QED
  BY <1>1, SoleOwner DEF Resting

LEMMA UntoldResting ==
  ASSUME Users = {}, Resting, ControlInv, NEW o \in Objects, Untold(o)
  PROVE  /\ cam[o].state = "Offline" /\ loc[Loop].cmd = "refresh"
         /\ pc[Loop] \in {"mark", "gather"}
<1>1. {"lost", "notify", "read", "set"} \subseteq CamLabels
  BY DEF CamLabels
<1>2. \A p \in Proc : pc[p] \notin {"lost", "notify", "read", "set"}
  BY <1>1, NoneInside
<1>3. Loop \in Proc /\ pc[Worker(o)] = "idle"
  BY SoleOwner DEF Resting
<1> QED
  BY <1>2, <1>3 DEF Untold

\* A step of Loop that moves Loop only, and touches no camera.
Paces ==
  /\ Alone(Loop) /\ UNCHANGED <<registry, cam, stream, told>>
  /\ wired => wired'
  /\ attached => attached'
  /\ \A o \in todo'[Loop] : o \in RegisteredObjects
  /\ pc'[Loop] \in CamLabels => Registered(loc'[Loop].obj) /\ Sound(Loop)'
  /\ loc'[Loop].cmd = "boot" => ~wired'
  /\ pc'[Loop] \in DiscoverLabels \cup {"gather", "attach", "wire"} =>
       loc'[Loop].cmd \in {"boot", "refresh"}
  /\ pc'[Loop] \in {"cams", "check"} => loc'[Loop].cmd = "health"
  /\ loc[Loop].cmd = "refresh" /\ pc[Loop] \in {"mark", "gather"} =>
       \/ loc'[Loop].cmd = "refresh" /\ pc'[Loop] \in {"mark", "read", "gather"}
       \/ \A o \in RegisteredObjects : cam[o].state # "Offline"

LEMMA PacesKeeps ==
  ASSUME Users = {}, TypeOK, ControlInv, StepInv, Resting, Paces
  PROVE  StepInv' /\ (GhostInv => GhostInv')
<1>1. SoleInv /\ StreamsInv /\ ToldInv
  BY DEF StepInv
<1>2. /\ registry' = registry /\ cam' = cam /\ stream' = stream /\ told' = told
      /\ \A q \in Proc \ {Loop} : pc'[q] = pc[q] /\ loc'[q] = loc[q]
  BY DEF Paces, Alone
<1>3. \A q \in Proc : pc[q] \notin CamLabels
  BY NoneInside
<1>4. SoleInv'
  <2>1. todo'[Loop] \subseteq RegisteredObjects'
    BY <1>2 DEF Paces, RegisteredObjects, Registered
  <2>2. \A o \in Objects : pc'[Worker(o)] = "idle"
    BY <1>2, SoleOwner DEF Resting
  <2>3. ASSUME NEW q \in Proc, pc'[q] \in CamLabels
        PROVE  (\E n \in Names : registry'[n] = loc'[q].obj) /\ Sound(q)'
    <3>1. q = Loop
      BY <1>2, <1>3, <2>3
    <3>2. Registered(loc'[Loop].obj) /\ Sound(Loop)'
      BY <2>3, <3>1 DEF Paces
    <3> QED BY <1>2, <3>1, <3>2 DEF Registered
  <2>4. /\ loc'[Loop].cmd = "boot" => ~wired'
        /\ pc'[Loop] \in DiscoverLabels \cup {"gather", "attach", "wire"} =>
             loc'[Loop].cmd \in {"boot", "refresh"}
        /\ pc'[Loop] \in {"cams", "check"} => loc'[Loop].cmd = "health"
    BY DEF Paces
  <2> QED BY <2>1, <2>2, <2>3, <2>4 DEF SoleInv, Registered, Worker
<1>5. StreamsInv'
  BY <1>1, <1>2 DEF StreamsInv, HasStream
<1>6. GhostInv => GhostInv'
  BY <1>2 DEF GhostInv, Paces
<1>7. ToldInv'
  <2>1. ASSUME NEW x \in RegisteredObjects, Untold(x) PROVE Untold(x)'
    <3>1. /\ cam[x].state = "Offline" /\ loc[Loop].cmd = "refresh"
          /\ pc[Loop] \in {"mark", "gather"}
      BY <2>1, UntoldResting DEF RegisteredObjects
    <3>2. loc'[Loop].cmd = "refresh" /\ pc'[Loop] \in {"mark", "read", "gather"}
      BY <2>1, <3>1 DEF Paces
    <3> QED BY <1>2, <3>1, <3>2 DEF Untold
  <2>2. ASSUME NEW n \in Names, told'[n] = "Streaming", registry[n] # Nil
        PROVE  cam'[registry[n]].state = "Streaming" \/ Untold(registry[n])'
    <3>1. PICK x \in Objects : x = registry[n]
      BY <2>2 DEF TypeOK
    <3>2. x \in RegisteredObjects
      BY <3>1 DEF RegisteredObjects, Registered
    <3>3. cam[x].state = "Streaming" \/ Untold(x)
      BY <1>1, <1>2, <2>2, <3>1 DEF ToldInv
    <3>4. cam'[x].state = "Streaming" \/ Untold(x)'
      BY <1>2, <2>1, <3>2, <3>3
    <3> QED BY <1>2, <3>1, <3>4 DEF Untold
  <2>3. \A n \in Names : told'[n] = "Streaming" => wired'
    BY <1>1, <1>2 DEF ToldInv, Paces
  <2> QED BY <1>2, <2>2, <2>3 DEF ToldInv, Untold
<1> QED
  BY <1>4, <1>5, <1>6, <1>7 DEF StepInv

LEMMA IdleWorkers ==
  ASSUME Users = {}, WorkersInv, pc[Loop] \notin CamLabels, pc[Loop] # "wait"
  PROVE  Resting
BY SoleOwner DEF Resting, WorkersInv, Worker

\* Where Loop is when nobody is inside an operation.
Between == Users = {} /\ TypeOK /\ ControlInv /\ QualityInv /\ WorkersInv /\ SoleInv

LEMMA DiscoverPaces ==
  ASSUME Between, Fetch(Loop) \/ Unlock(Loop)
  PROVE  Resting /\ Paces
<1>1. Users = {} /\ TypeOK /\ ControlInv /\ QualityInv /\ WorkersInv /\ SoleInv
  BY DEF Between
<1>2. Loop \in Proc /\ Loop \in Owners
  BY <1>1, SoleOwner
<1>3. /\ pc[Loop] \in {"fetch", "mark"}
      /\ UNCHANGED <<registry, cam, stream, told, wired, attached, todo>>
  BY DEF Fetch, Unlock, objVars, bootVars, go2rtc, observers, ownerVars
<1>4. Resting
  <2>1. pc[Loop] \notin CamLabels
    BY <1>3 DEF CamLabels
  <2> QED BY <1>1, <1>3, <2>1, IdleWorkers
<1>5. loc[Loop].cmd \in {"boot", "refresh"}
  BY <1>1, <1>3 DEF SoleInv, DiscoverLabels
<1>6. Alone(Loop)
  BY <1>1, <1>2, FetchMoves, UnlockMoves DEF Moves
<1>7. loc' = loc /\ \/ Goto(Loop, "apply") /\ pc[Loop] = "fetch"
                    \/ loc[Loop].cmd = "boot" /\ Goto(Loop, "attach")
                    \/ loc[Loop].cmd = "refresh" /\ Goto(Loop, "gather")
  BY <1>5 DEF Fetch, Unlock, AfterDiscover
<1>8. \/ pc'[Loop] = "apply" /\ pc[Loop] = "fetch"
      \/ loc[Loop].cmd = "boot" /\ pc'[Loop] = "attach"
      \/ loc[Loop].cmd = "refresh" /\ pc'[Loop] = "gather"
  BY <1>1, <1>2, <1>7 DEF Goto, TypeOK
<1>9. {"apply", "attach", "gather"} \cap CamLabels = {}
  BY DEF CamLabels
<1> QED
  BY <1>1, <1>3, <1>4, <1>5, <1>6, <1>7, <1>8, <1>9 DEF Paces, SoleInv

LEMMA MarkOfflinePaces ==
  ASSUME Between, MarkOffline(Loop)
  PROVE  Resting /\ Paces
<1>1. Users = {} /\ TypeOK /\ ControlInv /\ QualityInv /\ WorkersInv /\ SoleInv
  BY DEF Between
<1>2. Loop \in Proc /\ Loop \in Owners
  BY <1>1, SoleOwner
<1>3. /\ pc[Loop] = "mark"
      /\ UNCHANGED <<registry, cam, stream, told, wired, attached>>
  BY DEF MarkOffline, objVars, bootVars, go2rtc, observers
<1>4. Resting
  <2>1. pc[Loop] \notin CamLabels
    BY <1>3 DEF CamLabels
  <2> QED BY <1>1, <1>3, <2>1, IdleWorkers
<1>5. loc[Loop].cmd \in {"boot", "refresh"}
  BY <1>1, <1>3 DEF SoleInv, DiscoverLabels
<1>6. /\ Alone(Loop) /\ loc'[Loop].cmd = loc[Loop].cmd
      /\ pc'[Loop] = "mark" \/ (pc'[Loop] = "read" /\ loc'[Loop].goal = "Offline")
  BY <1>1, <1>2, MarkOfflineMoves DEF Moves
<1>7. todo'[Loop] \subseteq todo[Loop]
  BY <1>1, <1>2 DEF MarkOffline, TypeOK
<1>8. ASSUME pc'[Loop] = "read" PROVE loc'[Loop].obj \in todo[Loop]
  <2>1. PICK o \in todo[Loop] : loc' = [loc EXCEPT ![Loop].obj = o, ![Loop].goal = "Offline"]
    BY <1>1, <1>2, <1>3, <1>8 DEF MarkOffline, TypeOK
  <2>2. loc[Loop] \in Local /\ loc \in [Proc -> Local]
    BY <1>1, <1>2 DEF TypeOK
  <2>3. loc'[Loop].obj = o
    BY <1>2, <2>1, <2>2 DEF Local
  <2> QED BY <2>3
<1>9. pc'[Loop] = "read" => Registered(loc'[Loop].obj)
  BY <1>1, <1>8 DEF SoleInv, RegisteredObjects
<1>10. pc'[Loop] = "read" => Sound(Loop)'
  BY <1>5, <1>6 DEF Sound
<1>11. "mark" \notin CamLabels /\ "read" \notin DiscoverLabels
  BY DEF CamLabels, DiscoverLabels
<1>12. pc'[Loop] \in CamLabels => Registered(loc'[Loop].obj) /\ Sound(Loop)'
  BY <1>6, <1>9, <1>10, <1>11
<1>13. \A o \in todo'[Loop] : o \in RegisteredObjects
  BY <1>1, <1>7 DEF SoleInv
<1> QED
  BY <1>1, <1>3, <1>4, <1>5, <1>6, <1>12, <1>13 DEF Paces, SoleInv

LEMMA TickerPaces ==
  ASSUME Between, Attach \/ Wire \/ HealthCams \/ HealthDone \/ Refresh \/ HealthCheck
  PROVE  Resting /\ Paces
<1>1. Users = {} /\ TypeOK /\ ControlInv /\ QualityInv /\ WorkersInv /\ SoleInv
  BY DEF Between
<1>2. Loop \in Proc /\ Loop \in Owners
  BY <1>1, SoleOwner
<1>3. /\ pc[Loop] \in {"attach", "wire", "cams", "check", "idle"}
      /\ UNCHANGED <<registry, cam, stream, told>>
      /\ attached => attached'
      /\ wired => wired'
      /\ todo'[Loop] \in {todo[Loop], RegisteredObjects}
  BY <1>1, <1>2 DEF Attach, Wire, HealthCams, HealthDone, Refresh, HealthCheck, TypeOK,
     objVars, bootVars, go2rtc, observers, ownerVars
<1>4. Resting
  <2>1. pc[Loop] \notin CamLabels /\ pc[Loop] # "wait"
    BY <1>3 DEF CamLabels
  <2> QED BY <1>1, <2>1, IdleWorkers
<1>5. Alone(Loop)
  BY <1>1, LoopMoves DEF LoopStep, Moves
<1>6. /\ pc'[Loop] \in {"wire", "fetch", "cams", "check", "idle"}
      /\ loc'[Loop].cmd = "boot" => ~wired'
      /\ pc'[Loop] \in {"wire", "fetch"} => loc'[Loop].cmd \in {"boot", "refresh"}
      /\ pc'[Loop] \in {"cams", "check"} => loc'[Loop].cmd = "health"
  <2>1. CASE Attach
    BY <1>1, <1>2, <2>1 DEF Attach, Goto, TypeOK, SoleInv
  <2>2. CASE Wire \/ Refresh
    <3>1. Goto(Loop, "fetch") /\ loc' = [loc EXCEPT ![Loop].cmd = "refresh"]
      BY <2>2 DEF Wire, Refresh, StartFetch
    <3>2. loc'[Loop].cmd = "refresh"
      BY <1>1, <1>2, <3>1, SetCmd DEF Cmds
    <3> QED BY <1>1, <1>2, <3>1, <3>2 DEF Goto, TypeOK
  <2>3. CASE HealthCheck
    <3>1. Goto(Loop, "cams") /\ loc' = [loc EXCEPT ![Loop].cmd = "health"]
      BY <2>3 DEF HealthCheck
    <3>2. loc'[Loop].cmd = "health"
      BY <1>1, <1>2, <3>1, SetCmd DEF Cmds
    <3> QED BY <1>1, <1>2, <3>1, <3>2 DEF Goto, TypeOK
  <2>4. CASE HealthCams
    BY <1>1, <1>2, <2>4 DEF HealthCams, Goto, TypeOK, SoleInv
  <2>5. CASE HealthDone
    <3>1. Goto(Loop, "idle") /\ loc' = [loc EXCEPT ![Loop] = NoLoc]
      BY <2>5 DEF HealthDone
    <3> QED BY <1>1, <1>2, <3>1 DEF Goto, TypeOK, NoLoc
  <2> QED BY <2>1, <2>2, <2>3, <2>4, <2>5
<1>7. pc'[Loop] \notin CamLabels
  BY <1>6 DEF CamLabels
<1>8. \A o \in todo'[Loop] : o \in RegisteredObjects
  BY <1>1, <1>3 DEF SoleInv
<1> QED
  BY <1>3, <1>4, <1>5, <1>6, <1>7, <1>8 DEF Paces, DiscoverLabels

LEMMA HealthVisitPaces ==
  ASSUME Between, HealthVisit
  PROVE  Resting /\ Paces
<1>1. Users = {} /\ TypeOK /\ ControlInv /\ QualityInv /\ WorkersInv /\ SoleInv
  BY DEF Between
<1>2. Loop \in Proc /\ Loop \in Owners
  BY <1>1, SoleOwner
<1>3. /\ pc[Loop] = "check"
      /\ UNCHANGED <<registry, cam, stream, told, wired, attached>>
  BY DEF HealthVisit, objVars, bootVars, go2rtc, observers
<1>4. Resting
  <2>1. pc[Loop] \notin CamLabels
    BY <1>3 DEF CamLabels
  <2> QED BY <1>1, <1>3, <2>1, IdleWorkers
<1>5. Alone(Loop)
  BY <1>1, LoopMoves DEF LoopStep, Moves
<1>6. loc[Loop].cmd = "health"
  BY <1>1, <1>3 DEF SoleInv
<1>7. PICK o \in todo[Loop] :
        /\ todo' = [todo EXCEPT ![Loop] = @ \ {o}]
        /\ \/ UNCHANGED <<pc, loc>>
           \/ Goto(Loop, "hold") /\ loc' = [loc EXCEPT ![Loop].obj = o]
  BY DEF HealthVisit
<1>8. \A x \in todo'[Loop] : x \in RegisteredObjects
  BY <1>1, <1>2, <1>7 DEF SoleInv, TypeOK
<1>9. Registered(o) /\ o \in Objects
  BY <1>1, <1>7 DEF SoleInv, RegisteredObjects
<1>10. /\ loc'[Loop].cmd = "health"
       /\ \/ pc'[Loop] = "check"
          \/ pc'[Loop] = "hold" /\ loc'[Loop].obj = o
  <2>1. CASE UNCHANGED <<pc, loc>>
    BY <1>3, <1>6, <2>1
  <2>2. CASE Goto(Loop, "hold") /\ loc' = [loc EXCEPT ![Loop].obj = o]
    <3>1. loc'[Loop].obj = o
      BY <1>1, <1>2, <1>9, <2>2, SetObj
    <3>2. loc'[Loop].cmd = "health"
      BY <1>1, <1>2, <1>6, <2>2, LocFields
    <3> QED BY <1>1, <1>2, <2>2, <3>1, <3>2 DEF Goto, TypeOK
  <2> QED BY <1>7, <2>1, <2>2
<1>11. "check" \notin CamLabels /\ {"check", "hold"} \cap DiscoverLabels = {}
  BY DEF CamLabels, DiscoverLabels
<1>12. pc'[Loop] = "hold" => Sound(Loop)'
  BY <1>10 DEF Sound
<1>13. pc'[Loop] \in CamLabels => Registered(loc'[Loop].obj) /\ Sound(Loop)'
  BY <1>9, <1>10, <1>11, <1>12
<1> QED
  BY <1>3, <1>4, <1>5, <1>8, <1>10, <1>11, <1>13 DEF Paces

LEMMA WaitPaces ==
  ASSUME Between, Wait(Loop)
  PROVE  Resting /\ Paces
<1>1. Users = {} /\ TypeOK /\ ControlInv /\ QualityInv /\ WorkersInv /\ SoleInv
  BY DEF Between
<1>2. Loop \in Proc /\ Loop \in Owners
  BY <1>1, SoleOwner
<1>3. /\ pc[Loop] = "wait" /\ Finish(Loop) /\ todo' = [todo EXCEPT ![Loop] = {}]
      /\ UNCHANGED <<registry, cam, stream, told, wired, attached>>
  BY DEF Wait, objVars, bootVars, go2rtc, observers
<1>4. Resting
  <2>1. pc[Loop] \notin CamLabels
    BY <1>3 DEF CamLabels
  <2>2. \A o \in Objects : pc[Worker(o)] = "idle"
    BY <1>1, <1>2 DEF Wait, WorkersInv, Worker
  <2> QED BY <2>1, <2>2 DEF Resting
<1>5. Alone(Loop)
  BY <1>1, <1>2, <1>3, FinishAlone
<1>6. /\ loc'[Loop].cmd \in {"none", "health"} /\ pc'[Loop] \in {"check", "idle"}
      /\ pc'[Loop] = "check" => loc'[Loop].cmd = "health"
  BY <1>1, <1>2, <1>3, FinishOrderly, FinishChecks
<1>7. {"check", "idle"} \cap CamLabels = {} /\ {"check", "idle"} \cap DiscoverLabels = {}
  BY DEF CamLabels, DiscoverLabels
<1>8. todo'[Loop] = {}
  BY <1>1, <1>2, <1>3 DEF TypeOK
<1> QED
  BY <1>3, <1>4, <1>5, <1>6, <1>7, <1>8 DEF Paces

\* ConnectAll finds nothing to connect.
LEMMA NoConnectPaces ==
  ASSUME Between, ConnectAll(Loop), Finish(Loop), todo' = todo,
         \A o \in RegisteredObjects : cam[o].state # "Offline"
  PROVE  Resting /\ Paces
<1>1. Users = {} /\ TypeOK /\ ControlInv /\ QualityInv /\ WorkersInv /\ SoleInv
  BY DEF Between
<1>2. Loop \in Proc /\ Loop \in Owners
  BY <1>1, SoleOwner
<1>3. /\ pc[Loop] = "gather"
      /\ UNCHANGED <<registry, cam, stream, told, wired, attached>>
  BY DEF ConnectAll, objVars, bootVars, go2rtc, observers
<1>4. Resting
  <2>1. pc[Loop] \notin CamLabels
    BY <1>3 DEF CamLabels
  <2> QED BY <1>1, <1>3, <2>1, IdleWorkers
<1>5. Alone(Loop)
  BY <1>1, <1>2, FinishAlone
<1>6. /\ loc'[Loop].cmd \in {"none", "health"} /\ pc'[Loop] \in {"check", "idle"}
      /\ pc'[Loop] = "check" => loc'[Loop].cmd = "health"
  BY <1>1, <1>2, FinishOrderly, FinishChecks
<1>7. {"check", "idle"} \cap CamLabels = {} /\ {"check", "idle"} \cap DiscoverLabels = {}
  BY DEF CamLabels, DiscoverLabels
<1>8. \A o \in todo'[Loop] : o \in RegisteredObjects
  BY <1>1 DEF SoleInv
<1> QED
  BY <1>3, <1>4, <1>5, <1>6, <1>7, <1>8 DEF Paces

\* One goroutine per camera.
LEMMA SpawnKeeps ==
  ASSUME Between, StepInv, NEW S \in SUBSET Objects, Spawn(Loop, S),
         pc[Loop] \in {"gather", "idle"}, \A o \in S : Registered(o),
         UNCHANGED <<registry, cam, stream, told, wired, attached>>,
         pc[Loop] = "gather" =>
           \A o \in RegisteredObjects : cam[o].state = "Offline" => o \in S
  PROVE  StepInv' /\ (GhostInv => GhostInv')
<1>1. /\ Users = {} /\ TypeOK /\ ControlInv /\ QualityInv /\ WorkersInv
      /\ SoleInv /\ StreamsInv /\ ToldInv
  BY DEF Between, StepInv
<1>2. Loop \in Proc /\ Loop \in Owners
  BY <1>1, SoleOwner
<1>3. pc[Loop] \notin BusyLabels /\ pc[Loop] \notin CamLabels /\ "idle" \notin CamLabels
      /\ "read" \in CamLabels /\ "wait" \notin CamLabels \cup DiscoverLabels
  BY DEF BusyLabels, CamLabels, DiscoverLabels
<1>4. Resting
  BY <1>1, <1>3, IdleWorkers
<1>5. /\ todo' = [todo EXCEPT ![Loop] = S] /\ pc'[Loop] = "wait" /\ loc'[Loop] = loc[Loop]
      /\ \A o \in Objects \ S : pc'[Worker(o)] = "idle"
      /\ \A o \in S : pc'[Worker(o)] = "read"
  <2>1. /\ todo' = [todo EXCEPT ![Loop] = S] /\ pc'[Loop] = "wait" /\ loc'[Loop] = loc[Loop]
        /\ \A o \in Objects :
             /\ pc[<<Loop, o>>] = "idle"
             /\ o \in S => pc'[<<Loop, o>>] = "read" /\ loc'[<<Loop, o>>].cmd = "connect"
             /\ o \notin S => pc'[<<Loop, o>>] = pc[<<Loop, o>>]
    BY <1>1, <1>2, <1>3, SpawnFacts
  <2> QED BY <2>1 DEF Worker
<1>6. ASSUME NEW o \in S
      PROVE  /\ loc'[Worker(o)].obj = o /\ loc'[Worker(o)].cmd = "connect"
             /\ loc'[Worker(o)].goal = "Connecting"
  <2> DEFINE v(q) == [NoLoc EXCEPT !.cmd = "connect", !.obj = q[2], !.goal = "Connecting"]
  <2>1. /\ v(Worker(o)).obj = o /\ v(Worker(o)).cmd = "connect"
        /\ v(Worker(o)).goal = "Connecting"
    BY DEF NoLoc, Worker
  <2>2. Worker(o) \in Proc
    BY <1>1, SoleOwner
  <2>3. Worker(o) \in {<<Loop, x>> : x \in S}
    BY DEF Worker
  <2>4. loc' = [q \in Proc |-> IF q \in {<<Loop, x>> : x \in S} THEN v(q) ELSE loc[q]]
    BY DEF Spawn
  <2> HIDE DEF v
  <2>5. loc'[Worker(o)] = v(Worker(o))
    BY <2>2, <2>3, <2>4
  <2> QED BY <2>1, <2>5
<1>7. SoleInv'
  <2>1. todo'[Loop] \subseteq RegisteredObjects'
    BY <1>1, <1>2, <1>5 DEF RegisteredObjects, Registered, TypeOK
  <2>2. ASSUME NEW o \in Objects, pc'[Worker(o)] # "idle"
        PROVE  /\ pc'[Worker(o)] \in CamLabels
               /\ loc'[Worker(o)].obj = o /\ loc'[Worker(o)].cmd = "connect"
    BY <1>3, <1>5, <1>6, <2>2
  <2>3. ASSUME NEW q \in Proc, pc'[q] \in CamLabels
        PROVE  (\E n \in Names : registry'[n] = loc'[q].obj) /\ Sound(q)'
    <3>1. PICK o \in S : q = Worker(o)
      BY <1>1, <1>3, <1>5, <2>3, SoleOwner
    <3>2. /\ pc'[q] = "read" /\ loc'[q].obj = o /\ loc'[q].cmd = "connect"
          /\ loc'[q].goal = "Connecting"
      BY <1>5, <1>6, <3>1
    <3>3. Sound(q)'
      BY <3>2 DEF Sound
    <3> QED BY <3>2, <3>3 DEF Registered
  <2>4. loc'[Loop].cmd = "boot" => ~wired'
    BY <1>1, <1>5 DEF SoleInv
  <2> QED BY <1>3, <1>5, <2>1, <2>2, <2>3, <2>4 DEF SoleInv, Registered, Worker
<1>8. StreamsInv' /\ (GhostInv => GhostInv')
  BY <1>1 DEF StreamsInv, HasStream, GhostInv
<1>9. ToldInv'
  <2>1. ASSUME NEW x \in RegisteredObjects, Untold(x) PROVE Untold(x)'
    <3>1. cam[x].state = "Offline" /\ pc[Loop] \in {"mark", "gather"} /\ x \in Objects
      BY <1>1, <1>4, <2>1, UntoldResting DEF RegisteredObjects
    <3>2. x \in S
      BY <2>1, <3>1
    <3>3. pc'[Worker(x)] = "read" /\ loc'[Worker(x)].goal = "Connecting"
      BY <1>5, <1>6, <3>2
    <3> QED BY <3>1, <3>3 DEF Untold, Worker
  <2>2. ASSUME NEW n \in Names, told'[n] = "Streaming", registry[n] # Nil
        PROVE  cam'[registry[n]].state = "Streaming" \/ Untold(registry[n])'
    <3>1. PICK x \in Objects : x = registry[n]
      BY <1>1, <2>2 DEF TypeOK
    <3>2. x \in RegisteredObjects
      BY <3>1 DEF RegisteredObjects, Registered
    <3>3. cam[x].state = "Streaming" \/ Untold(x)
      BY <1>1, <2>2, <3>1 DEF ToldInv
    <3>4. cam'[x].state = "Streaming" \/ Untold(x)'
      BY <2>1, <3>2, <3>3
    <3> QED BY <3>1, <3>4 DEF Untold
  <2>3. \A n \in Names : told'[n] = "Streaming" => wired'
    BY <1>1 DEF ToldInv
  <2> QED BY <2>2, <2>3 DEF ToldInv, Untold
<1> QED
  BY <1>7, <1>8, <1>9 DEF StepInv

LEMMA ApplyKeeps ==
  ASSUME Between, NamedInv, StepInv, Apply(Loop)
  PROVE  StepInv' /\ (GhostInv /\ DeleteMayFail = FALSE => GhostInv')
<1>1. /\ Users = {} /\ TypeOK /\ ControlInv /\ QualityInv /\ WorkersInv
      /\ SoleInv /\ StreamsInv /\ ToldInv
  BY DEF Between, StepInv
<1>2. Loop \in Proc /\ Loop \in Owners
  BY <1>1, SoleOwner
<1> DEFINE listed  == found[Loop]
           seen    == {listed[d] : d \in Devices} \ {Nil}
           fresh   == {n \in seen : registry[n] = Nil}
           orphans == Orphans(listed, seen)
<1>3. PICK last \in {f \in [seen -> Devices] : \A n \in seen : listed[f[n]] = n},
           new \in {f \in [fresh -> Free] : \A m, n \in fresh : f[m] = f[n] => m = n},
           gone \in Reaped(orphans) :
          /\ registry' = [n \in Names |-> IF n \in fresh THEN new[n]
                                          ELSE IF n \in orphans THEN Nil ELSE registry[n]]
          /\ cam' = [o \in Objects |->
               IF \E n \in fresh : new[n] = o
               THEN LET n == CHOOSE n \in fresh : new[n] = o IN NewCamera(n, last[n])
               ELSE IF Registered(o) /\ cam[o].name \in seen
               THEN [cam[o] EXCEPT !.mac = last[cam[o].name]] ELSE cam[o]]
          /\ fired' = [o \in Objects |-> IF \E n \in fresh : new[n] = o THEN 0 ELSE fired[o]]
          /\ stream' = [n \in Names |-> IF n \in gone THEN NoStream ELSE stream[n]]
          /\ dead' = dead \ gone
          /\ todo' = [todo EXCEPT ![Loop] =
               {registry[n] : n \in {m \in Names \ (seen \cup orphans) : registry[m] # Nil}}]
  BY Zenon DEF Apply
<1>4. /\ pc[Loop] = "apply" /\ Goto(Loop, "mark") /\ loc' = loc
      /\ UNCHANGED <<attached, wired, told>>
  BY DEF Apply, bootVars
<1>5. seen \subseteq Names /\ fresh \subseteq seen /\ orphans \subseteq Names
      /\ orphans \cap fresh = {}
  BY <1>1, <1>2 DEF TypeOK, Orphans
<1>6. gone \subseteq orphans /\ (~attached => gone = {})
      /\ (attached /\ DeleteMayFail = FALSE => gone = orphans)
  BY <1>3 DEF Reaped
<1>7. \A n \in Names : registry[n] # Nil => registry[n] \in Objects /\ registry[n] \notin Free
  BY <1>1 DEF TypeOK, Free, Registered
<1>8. \A n \in fresh : new[n] \in Free /\ new[n] \in Objects
  BY <1>3 DEF Free
\* A camera that stays keeps what matters; a new one is Offline.
<1>9. ASSUME NEW x \in Objects, x \notin Free
      PROVE  cam'[x].state = cam[x].state /\ cam'[x].name = cam[x].name
             /\ cam'[x].force = cam[x].force
  <2>1. cam[x] \in Camera
    BY <1>1 DEF TypeOK
  <2>2. ~\E n \in fresh : new[n] = x
    BY <1>8, <1>9
  <2>3. cam'[x] = IF Registered(x) /\ cam[x].name \in seen
                  THEN [cam[x] EXCEPT !.mac = last[cam[x].name]] ELSE cam[x]
    BY <1>3, <2>2
  <2> QED BY <2>1, <2>3 DEF Camera
<1>10. ASSUME NEW n \in fresh PROVE cam'[new[n]].state = "Offline"
  <2>1. PICK m, d : cam'[new[n]] = NewCamera(m, d)
    BY <1>3, <1>8
  <2> QED BY <2>1 DEF NewCamera
<1>11. ASSUME NEW n \in Names
       PROVE  \/ n \in fresh /\ registry'[n] = new[n]
              \/ n \in orphans /\ registry'[n] = Nil
              \/ n \notin fresh /\ n \notin orphans /\ registry'[n] = registry[n]
                 /\ stream'[n] = stream[n]
  <2>1. n \notin fresh /\ n \notin orphans => stream'[n] = stream[n]
    BY <1>3, <1>6
  <2> QED BY <1>3, <1>5, <2>1
<1>12. todo'[Loop] = {registry[n] : n \in {m \in Names \ (seen \cup orphans) : registry[m] # Nil}}
  BY <1>1, <1>2, <1>3 DEF TypeOK
<1>13. \A n \in Names : stream'[n] = IF n \in gone THEN NoStream ELSE stream[n]
  BY <1>3
<1> HIDE DEF listed, seen, fresh, orphans
<1>14. Resting
  <2>1. pc[Loop] \notin CamLabels
    BY <1>4 DEF CamLabels
  <2> QED BY <1>1, <1>4, <2>1, IdleWorkers
<1>15. /\ pc'[Loop] = "mark" /\ \A q \in Proc \ {Loop} : pc'[q] = pc[q]
  BY <1>1, <1>2, <1>4 DEF Goto, TypeOK
<1>16. "mark" \notin CamLabels
  BY DEF CamLabels
<1>17. loc[Loop].cmd \in {"boot", "refresh"}
  BY <1>1, <1>4 DEF SoleInv, DiscoverLabels
<1>18. SoleInv'
  <2>1. \A o \in todo'[Loop] : o \in Objects /\ \E n \in Names : registry'[n] = o
    BY <1>5, <1>7, <1>11, <1>12
  <2>2. \A o \in Objects : pc'[Worker(o)] = "idle"
    BY <1>1, <1>14, <1>15, SoleOwner DEF Resting
  <2>3. \A q \in Proc : pc'[q] \notin CamLabels
    BY <1>1, <1>14, <1>15, <1>16, NoneInside
  <2>4. loc'[Loop].cmd = "boot" => ~wired'
    BY <1>1, <1>4 DEF SoleInv
  <2>5. todo'[Loop] \subseteq RegisteredObjects'
    BY <2>1 DEF RegisteredObjects, Registered
  <2> QED BY <1>4, <1>15, <1>17, <2>2, <2>3, <2>4, <2>5 DEF SoleInv, Worker
<1>19. StreamsInv'
  <2>1. ASSUME NEW n \in Names, registry'[n] # Nil, cam'[registry'[n]].state = "Streaming"
        PROVE  /\ registry'[n] = registry[n]
               /\ LET s == stream'[cam'[registry'[n]].name] IN
                    s # NoStream /\ (cam'[registry'[n]].force => s.proto = "webrtc")
    <3>1. /\ n \notin fresh /\ n \notin orphans /\ registry'[n] = registry[n]
          /\ stream'[n] = stream[n]
      BY <1>10, <1>11, <2>1
    <3>2. PICK x \in Objects : x = registry[n] /\ x \notin Free
      BY <1>7, <2>1, <3>1
    <3>3. /\ cam'[x].state = cam[x].state /\ cam'[x].name = cam[x].name
          /\ cam'[x].force = cam[x].force
      BY <1>9, <3>2
    <3>4. cam[x].name = n
      BY <2>1, <3>1, <3>2 DEF NamedInv
    <3>5. HasStream(x)
      BY <1>1, <2>1, <3>1, <3>2, <3>3 DEF StreamsInv
    <3>6. stream[n] # NoStream /\ (cam[x].force => stream[n].proto = "webrtc")
      BY <3>4, <3>5 DEF HasStream
    <3> QED BY <3>1, <3>2, <3>3, <3>4, <3>6
  <2> QED BY <2>1 DEF StreamsInv, HasStream
<1>20. ASSUME GhostInv, DeleteMayFail = FALSE PROVE GhostInv'
  <2>1. ASSUME NEW n \in Names, registry'[n] = Nil PROVE stream'[n] = NoStream
    <3>1. n \notin fresh
      BY <1>5, <1>8, <1>11, <2>1
    <3>2. CASE n \in orphans
      <4>1. CASE attached
        BY <1>6, <1>13, <1>20, <3>2, <4>1
      <4>2. CASE ~attached
        BY <1>13, <1>20, <4>2 DEF GhostInv
      <4> QED BY <4>1, <4>2
    <3>3. CASE n \notin orphans
      BY <1>11, <1>20, <2>1, <3>1, <3>3 DEF GhostInv
    <3> QED BY <3>2, <3>3
  <2>2. ~attached' => \A n \in Names : stream'[n] = NoStream
    BY <1>4, <1>13, <1>20 DEF GhostInv
  <2> QED BY <2>1, <2>2 DEF GhostInv
<1>21. ToldInv'
  <2>1. ASSUME NEW n \in Names, told'[n] = "Streaming"
        PROVE  /\ wired'
               /\ registry'[n] # Nil =>
                    \/ cam'[registry'[n]].state = "Streaming"
                    \/ /\ cam'[registry'[n]].state = "Offline" /\ loc'[Loop].cmd = "refresh"
                       /\ pc'[Loop] = "mark"
    <3>1. told[n] = "Streaming" /\ wired /\ loc[Loop].cmd = "refresh"
      BY <1>1, <1>4, <1>17, <2>1 DEF ToldInv, SoleInv
    <3>2. CASE n \in fresh
      BY <1>4, <1>10, <1>11, <1>15, <3>1, <3>2
    <3>3. CASE registry'[n] = registry[n] /\ registry[n] # Nil
      <4>1. PICK x \in Objects : x = registry[n] /\ x \notin Free
        BY <1>7, <3>3
      <4>2. cam[x].state = "Streaming" \/ Untold(x)
        BY <1>1, <3>1, <3>3, <4>1 DEF ToldInv
      <4>3. ~Untold(x)
        BY <1>1, <1>4, <1>14, UntoldResting
      <4> QED BY <1>4, <1>9, <3>1, <3>3, <4>1, <4>2, <4>3
    <3> QED BY <1>4, <1>11, <3>1, <3>2, <3>3
  <2> QED BY <2>1 DEF ToldInv, Untold
<1> QED
  BY <1>18, <1>19, <1>20, <1>21 DEF StepInv

LEMMA NothingMoves ==
  ASSUME StepInv, UNCHANGED <<registry, cam, stream, told, wired, attached, todo, pc, loc>>
  PROVE  StepInv' /\ (GhostInv => GhostInv')
<1>1. SoleInv'
  BY DEF StepInv, SoleInv, RegisteredObjects, Registered, Sound, HasStream, Worker
<1>2. StreamsInv' /\ (GhostInv => GhostInv')
  BY DEF StepInv, StreamsInv, HasStream, GhostInv
<1>3. ToldInv'
  BY DEF StepInv, ToldInv, Untold, Worker
<1> QED
  BY <1>1, <1>2, <1>3 DEF StepInv

-----------------------------------------------------------------------------
(* The theorems about a manager without commands.                          *)

LEMMA StepKept ==
  ASSUME Users = {}, IInv, QualityInv, WorkersInv, StepInv, [Next]_vars
  PROVE  StepInv' /\ (GhostInv /\ DeleteMayFail = FALSE => GhostInv')
<1>1. TypeOK /\ ControlInv /\ NamedInv /\ SoleInv
  BY DEF IInv, StepInv
<1>2. Between /\ Owners = {Loop} /\ Loop \in Proc
  BY <1>1, SoleOwner DEF Between
<1>p. Resting /\ Paces => StepInv' /\ (GhostInv => GhostInv')
  BY <1>1, PacesKeeps
<1>3. ASSUME NEW p \in Proc, CameraStep(p) PROVE StepInv' /\ (GhostInv => GhostInv')
  <2>1. pc[p] \in CamLabels
    BY <1>3 DEF CameraStep, ChangeRead, ChangeSet, ClearChronic, Recover, Notify, PickSource,
       DeleteFirst, AddStream, AddStreamFails, IncrementError, NotifyLost, CountErrors,
       MarkChronic, ReportChronic, CheckProtocol, BumpStreak, Promote, Fallback, DropStream,
       CamLabels
  <2>2. PICK o \in Objects : o = loc[p].obj
    BY <1>1, <2>1 DEF ControlInv
  <2>3. Start(p, o)
    BY <1>1, <2>2 DEF Start
  <2>4. Advance(p)
    BY <1>1, <1>3, CameraStepAdvances
  <2> QED BY <1>3, <2>1, <2>3, <2>4, CameraStepGood, GoodKeeps
<1>4. ASSUME OwnerStep(Loop)
      PROVE  StepInv' /\ (GhostInv /\ DeleteMayFail = FALSE => GhostInv')
  <2>1. CASE Fetch(Loop) \/ Unlock(Loop)
    BY <1>2, <1>p, <2>1, DiscoverPaces
  <2>2. CASE Apply(Loop)
    BY <1>1, <1>2, <2>2, ApplyKeeps
  <2>3. CASE MarkOffline(Loop)
    BY <1>2, <1>p, <2>3, MarkOfflinePaces
  <2>4. CASE ConnectAll(Loop)
    <3> DEFINE S == {o \in RegisteredObjects : cam[o].state \in {"Offline", "Error"}}
    <3>1. /\ pc[Loop] = "gather"
          /\ UNCHANGED <<registry, cam, stream, told, wired, attached>>
          /\ Spawn(Loop, S) \/ (S = {} /\ Finish(Loop) /\ todo' = todo)
      BY <2>4 DEF ConnectAll, objVars, bootVars, go2rtc, observers
    <3>2. S \subseteq Objects /\ \A o \in S : Registered(o)
      BY DEF RegisteredObjects
    <3>3. \A o \in RegisteredObjects : cam[o].state = "Offline" => o \in S
      OBVIOUS
    <3> HIDE DEF S
    <3>4. CASE Spawn(Loop, S)
      BY <1>2, <3>1, <3>2, <3>3, <3>4, SpawnKeeps
    <3>5. CASE S = {} /\ Finish(Loop) /\ todo' = todo
      BY <1>2, <1>p, <2>4, <3>3, <3>5, NoConnectPaces
    <3> QED BY <3>1, <3>4, <3>5
  <2>5. CASE Wait(Loop)
    BY <1>2, <1>p, <2>5, WaitPaces
  <2> QED BY <1>4, <2>1, <2>2, <2>3, <2>4, <2>5 DEF OwnerStep
<1>5. ASSUME LoopStep \/ Refresh \/ HealthCheck PROVE StepInv' /\ (GhostInv => GhostInv')
  <2>1. CASE Attach \/ Wire \/ HealthCams \/ HealthDone \/ Refresh \/ HealthCheck
    BY <1>2, <1>p, <2>1, TickerPaces
  <2>2. CASE HealthVisit
    BY <1>2, <1>p, <2>2, HealthVisitPaces
  <2>3. CASE HealthHold
    <3>1. pc[Loop] \in CamLabels
      BY <2>3 DEF HealthHold, CamLabels
    <3>2. PICK o \in Objects : o = loc[Loop].obj
      BY <1>1, <1>2, <3>1 DEF ControlInv
    <3>3. Start(Loop, o)
      BY <1>1, <1>2, <3>2 DEF Start
    <3>4. Advance(Loop)
      BY <1>1, <2>3, LoopAdvances DEF LoopStep
    <3> QED BY <2>3, <3>1, <3>3, <3>4, HealthHoldGood, GoodKeeps
  <2> QED BY <1>5, <2>1, <2>2, <2>3 DEF LoopStep
<1>6. ASSUME NEW S \in SUBSET Objects, ReconnectErrored(S)
      PROVE  StepInv' /\ (GhostInv => GhostInv')
  <2>1. /\ pc[Loop] = "idle" /\ Spawn(Loop, S) /\ \A o \in S : Registered(o)
        /\ UNCHANGED <<registry, cam, stream, told, wired, attached>>
    BY <1>6 DEF ReconnectErrored, objVars, bootVars, go2rtc, observers
  <2> QED BY <1>2, <2>1, SpawnKeeps
<1>7. ASSUME \/ \E c \in Accounts : CloudChange(c)
             \/ \E n \in Names : ProducerDies(n)
             \/ UNCHANGED vars
      PROVE  StepInv' /\ (GhostInv => GhostInv')
  <2>1. UNCHANGED <<registry, cam, stream, told, wired, attached, todo, pc, loc>>
    BY <1>7 DEF CloudChange, ProducerDies, vars, objVars, bootVars, go2rtc, ownerVars, observers
  <2> QED BY <2>1, NothingMoves
<1> QED
  BY <1>2, <1>3, <1>4, <1>5, <1>6, <1>7 DEF Next

LEMMA StepInitially == ASSUME Init, Users = {} PROVE StepInv /\ GhostInv
<1>1. Loop \in Proc /\ \A o \in Objects : Worker(o) \in Proc /\ Worker(o) # Loop
  BY SoleOwner
<1>2. pc[Loop] = "fetch" /\ loc[Loop].cmd = "boot" /\ \A p \in Proc \ {Loop} : pc[p] = "idle"
  BY <1>1 DEF Init, NoLoc
<1>3. "fetch" \notin CamLabels /\ "idle" \notin CamLabels
  BY DEF CamLabels
<1>4. todo[Loop] = {} /\ ~wired
  BY DEF Init, Owners
<1>5. SoleInv
  BY <1>1, <1>2, <1>3, <1>4 DEF SoleInv
<1>6. StreamsInv /\ GhostInv /\ ToldInv
  BY DEF Init, StreamsInv, GhostInv, ToldInv
<1> QED
  BY <1>5, <1>6 DEF StepInv

LEMMA StepHolds == ASSUME Users = {} PROVE Spec => []StepInv
<1>1. IInv /\ (QualityInv /\ WorkersInv) /\ StepInv /\ [Next]_vars => StepInv'
  BY StepKept
<1> QED
  BY <1>1, StepInitially, Placed, Inductive, PTL DEF Spec

(* connectCamera and HealthCheck: without commands, what the manager says
   streams has a stream in go2rtc, and a WebRTC one once it is pinned: between
   DELETE and PUT a camera is Connecting, and only AddStream leads to Streaming
   (manager.go:267-331).                                                   *)
THEOREM StreamsAreThere ==
  ASSUME Users = {}
  PROVE  Spec => []StreamingHasStream
<1>1. IInv /\ StepInv => StreamingHasStream
  <2>1. SUFFICES ASSUME IInv, StepInv, NEW n \in Names, registry[n] # Nil,
                        cam[registry[n]].state = "Streaming"
                 PROVE  /\ stream[n] # NoStream
                        /\ cam[registry[n]].force => stream[n].proto = "webrtc"
    BY DEF StreamingHasStream
  <2>2. HasStream(registry[n]) /\ cam[registry[n]].name = n
    BY <2>1 DEF StepInv, StreamsInv, IInv, NamedInv
  <2> QED BY <2>2 DEF HasStream
<1> QED
  BY <1>1, StepHolds, Inductive, PTL

(* The onChange callback: without commands, an observer that was told Streaming
   last is wrong only while the process that changed the state, or the
   goroutine that will connect a camera found anew, has yet to tell it.    *)
THEOREM ToldTheTruth ==
  ASSUME Users = {}
  PROVE  Spec => []ToldStreamingIsStreaming
<1>1. IInv /\ StepInv => ToldStreamingIsStreaming
  <2>1. SUFFICES ASSUME IInv, StepInv, AtRest, NEW n \in Names, told[n] = "Streaming",
                        registry[n] # Nil
                 PROVE  cam[registry[n]].state = "Streaming"
    BY DEF ToldStreamingIsStreaming
  <2>2. cam[registry[n]].state = "Streaming" \/ Untold(registry[n])
    BY <2>1 DEF StepInv, ToldInv
  <2>3. registry[n] \in Objects
    BY <2>1 DEF IInv, TypeOK
  <2>4. Loop \in Proc /\ Worker(registry[n]) \in Proc
    BY <2>3, SoleOwner
  <2>5. ~Untold(registry[n])
    BY <2>1, <2>4 DEF AtRest, Untold
  <2> QED BY <2>2, <2>5
<1> QED
  BY <1>1, StepHolds, Inductive, PTL

(* reapRenameOrphans: without commands, and as long as DELETE works, go2rtc
   keeps no stream of a name the registry has dropped.                     *)
THEOREM NoGhosts ==
  ASSUME Users = {}, DeleteMayFail = FALSE
  PROVE  Spec => []NoGhostStreams
<1>1. IInv /\ (QualityInv /\ WorkersInv) /\ StepInv /\ GhostInv /\ [Next]_vars => GhostInv'
  BY StepKept
<1>2. GhostInv => NoGhostStreams
  BY DEF GhostInv, NoGhostStreams
<1> QED
  BY <1>1, <1>2, StepInitially, StepHolds, Placed, Inductive, PTL DEF Spec

-----------------------------------------------------------------------------
(* Without commands: the issue of a camera in trouble.                     *)

\* An issue is open for a name in trouble, or for one whose recovery is under
\* way; only a name in trouble is reported; a camera that streams has got out
\* of trouble, but for a process that is about to clear it.
ChronicInv ==
  \A n \in Names :
    /\ issue[n] /\ ~chronic[n] => \E p \in Proc : About(p, "recover", n)
    /\ \A p \in Proc : About(p, "report", n) => chronic[n]
    /\ registry[n] # Nil /\ cam[registry[n]].state = "Streaming" /\ (chronic[n] \/ issue[n]) =>
         \E p \in Proc : About(p, "clear", n) \/ (About(p, "recover", n) /\ ~chronic[n])

\* The same of p, the one process at work on the camera of m.
Clears(p, m, s) ==
  /\ issue[m] /\ ~chronic[m] => pc[p] = "recover"
  /\ pc[p] = "report" => chronic[m]
  /\ s = "Streaming" /\ (chronic[m] \/ issue[m]) =>
       pc[p] = "clear" \/ (pc[p] = "recover" /\ ~chronic[m])

\* Only changeState makes a camera stream, on the way to clearChronic.
LEMMA StreamsByChange ==
  ASSUME NEW p, NEW o, Start(p, o), CameraStep(p), ~ChangeSet(p), cam'[o].state = "Streaming"
  PROVE  cam[o].state = "Streaming"
<1>1. TypeOK /\ p \in Proc /\ o \in Objects /\ o = loc[p].obj
  BY DEF Start
<1>2. CASE IncrementError(p)
  <2>1. SetsState(o, "Error")
    BY <1>1, <1>2 DEF IncrementError, SetsState
  <2>2. "Error" \in States
    BY DEF States
  <2> QED BY <1>1, <2>1, <2>2, StateSet
<1>3. CASE BumpStreak(p) \/ Promote(p) \/ Fallback(p)
  <2>1. Spares(o)
    BY <1>1, <1>3 DEF BumpStreak, Promote, Fallback, Spares
  <2> QED BY <1>1, <2>1, StateSpared
<1>4. CASE ~(IncrementError(p) \/ BumpStreak(p) \/ Promote(p) \/ Fallback(p))
  <2>1. cam' = cam
    BY <1>4 DEF CameraStep, ChangeRead, ClearChronic, Recover, Notify, PickSource,
       DeleteFirst, AddStream, AddStreamFails, NotifyLost, CountErrors, MarkChronic,
       ReportChronic, CheckProtocol, DropStream, objVars
  <2> QED BY <2>1
<1> QED
  BY <1>2, <1>3, <1>4

LEMMA ClearsKept ==
  ASSUME NEW p, NEW o, Start(p, o), QualityInv, CameraStep(p),
         Clears(p, cam[o].name, cam[o].state)
  PROVE  /\ issue'[cam[o].name] /\ ~chronic'[cam[o].name] => pc'[p] = "recover"
         /\ pc'[p] = "report" => chronic'[cam[o].name]
         /\ cam'[o].state = "Streaming" /\ (chronic'[cam[o].name] \/ issue'[cam[o].name]) =>
              pc'[p] = "clear" \/ (pc'[p] = "recover" /\ ~chronic'[cam[o].name])
         /\ \A n \in Names \ {cam[o].name} : issue'[n] = issue[n] /\ chronic'[n] = chronic[n]
<1> DEFINE m == cam[o].name
<1>1. TypeOK /\ ControlInv /\ p \in Proc /\ o \in Objects /\ o = loc[p].obj
  BY DEF Start
<1>2. /\ chronic \in [Names -> BOOLEAN] /\ issue \in [Names -> BOOLEAN]
      /\ pc \in [Proc -> Labels]
  BY <1>1 DEF TypeOK
<1>3. pc[p] \in CamLabels
  BY DEF CameraStep, ChangeRead, ChangeSet, ClearChronic, Recover, Notify, PickSource,
     DeleteFirst, AddStream, AddStreamFails, IncrementError, NotifyLost, CountErrors,
     MarkChronic, ReportChronic, CheckProtocol, BumpStreak, Promote, Fallback, DropStream,
     CamLabels
<1>4. Sound(p) /\ m \in Names
  BY <1>3, Before
<1>5. CASE MarkChronic(p)
  <2>1. /\ pc[p] = "chronic" /\ cam' = cam /\ issue' = issue
        /\ chronic' = [chronic EXCEPT ![m] = TRUE] /\ pc'[p] \in {"protocol", "report"}
    BY <1>1, <1>2, <1>5 DEF MarkChronic, observers, Goto
  <2>2. cam[o].state = "Error"
    BY <1>1, <1>4, <2>1 DEF Sound
  <2> QED BY <1>2, <1>4, <2>1, <2>2
<1>6. CASE ReportChronic(p)
  <2>1. /\ pc[p] = "report" /\ cam' = cam /\ chronic' = chronic
        /\ issue' = [issue EXCEPT ![m] = TRUE] /\ pc'[p] = "protocol"
    BY <1>1, <1>2, <1>6 DEF ReportChronic, objVars, Goto
  <2>2. cam[o].state = "Error" /\ chronic[m]
    BY <1>1, <1>4, <2>1 DEF Sound, Clears
  <2> QED BY <1>2, <1>4, <2>1, <2>2
<1>7. CASE ClearChronic(p)
  <2>1. /\ pc[p] = "clear" /\ cam' = cam /\ issue' = issue
        /\ chronic' = [chronic EXCEPT ![m] = FALSE]
        /\ pc'[p] = IF chronic[m] THEN "recover" ELSE "notify"
    BY <1>1, <1>2, <1>7 DEF ClearChronic, observers, Goto
  <2> QED BY <1>2, <1>4, <2>1 DEF Clears
<1>8. CASE Recover(p)
  <2>1. /\ pc[p] = "recover" /\ cam' = cam /\ chronic' = chronic
        /\ issue' = [issue EXCEPT ![m] = FALSE] /\ pc'[p] = "notify"
    BY <1>1, <1>2, <1>8 DEF Recover, objVars, Goto
  <2>2. cam[o].state = "Streaming"
    BY <1>1, <1>4, <2>1 DEF Sound
  <2> QED BY <1>2, <1>4, <2>1, <2>2 DEF Clears
<1>9. CASE ChangeSet(p)
  <2>1. /\ pc[p] = "set" /\ issue' = issue /\ chronic' = chronic
        /\ SetsState(o, loc[p].goal) /\ loc[p].goal \in States
    BY <1>1, <1>9 DEF ChangeSet, observers, SetsState, TypeOK, Local
  <2>2. cam'[o].state = loc[p].goal
    BY <1>1, <2>1, StateSet
  <2>3. pc'[p] = IF loc[p].goal = "Streaming" THEN "clear" ELSE "notify"
    BY <1>1, <1>2, <1>9 DEF ChangeSet, Goto
  <2> QED BY <2>1, <2>2, <2>3 DEF Clears
<1>10. CASE ~(\/ MarkChronic(p) \/ ReportChronic(p) \/ ClearChronic(p)
              \/ Recover(p) \/ ChangeSet(p))
  <2>1. /\ pc[p] \notin {"report", "recover", "clear"}
        /\ chronic' = chronic /\ issue' = issue
    BY <1>10 DEF CameraStep, ChangeRead, Notify, PickSource, DeleteFirst, AddStream,
       AddStreamFails, IncrementError, NotifyLost, CountErrors, CheckProtocol, BumpStreak,
       Promote, Fallback, DropStream, objVars, observers
  <2>2. pc'[p] \notin {"report", "recover"}
    BY <1>1, <1>10, CameraStepOrderly DEF Orderly
  <2>3. cam'[o].state = "Streaming" => cam[o].state = "Streaming"
    BY <1>10, StreamsByChange
  <2> QED BY <2>1, <2>2, <2>3 DEF Clears
<1> QED
  BY <1>5, <1>6, <1>7, <1>8, <1>9, <1>10

LEMMA ChronicByCameraStep ==
  ASSUME NEW p, NEW o, Start(p, o), QualityInv, ChronicInv, Advance(p), CameraStep(p)
  PROVE  ChronicInv'
<1> DEFINE m == cam[o].name
           L == {"clear", "report", "recover"}
<1>1. /\ Users = {} /\ TypeOK /\ ControlInv /\ NamedInv /\ WorkersInv /\ SoleInv
      /\ p \in Proc /\ o \in Objects /\ o = loc[p].obj
  BY DEF Start, StepInv
<1>2. pc[p] \in CamLabels /\ Frame(p, o) /\ Places(p)
  BY CameraStepGood DEF Good
<1>3. m \in Names /\ registry[m] = o /\ o # Nil
  <2>1. Registered(o)
    BY <1>1, <1>2 DEF SoleInv
  <2>2. m \in Names /\ registry[m] = o
    BY Zenon, <1>1, <2>1, NameOfEntry
  <2>3. Nil \notin Objects
    BY ConstantsAssumption DEF ConstantsAssumption
  <2> QED BY <1>1, <2>2, <2>3
<1>4. /\ registry' = registry /\ cam'[o].name = m
      /\ \A x \in Objects \ {o} : cam'[x] = cam[x]
      /\ \A q \in Proc \ {p} : pc'[q] = pc[q] /\ loc'[q] = loc[q]
  BY <1>2 DEF Frame
<1>5. L \subseteq CamLabels
  BY DEF CamLabels
<1>6. ASSUME NEW q \in Proc \ {p}, NEW l \in L, NEW n \in Names
      PROVE  (About(q, l, n)' <=> About(q, l, n)) /\ (n = m => ~About(q, l, n))
  <2>1. ASSUME pc[q] = l
        PROVE  /\ loc[q].obj \in Objects \ {o} /\ registry[cam[loc[q].obj].name] = loc[q].obj
    <3>1. pc[q] \in CamLabels
      BY <1>5, <2>1
    <3>2. loc[q].obj \in Objects /\ Registered(loc[q].obj)
      BY <1>1, <3>1 DEF ControlInv, SoleInv
    <3>3. loc[q].obj # o
      BY <1>1, <1>2, <3>1, Exclusive
    <3> QED BY <1>1, <3>2, <3>3, NameOfEntry
  <2> QED BY <1>3, <1>4, <2>1 DEF About
<1>7. ASSUME NEW l \in L, NEW n \in Names
      PROVE  /\ About(p, l, n) <=> pc[p] = l /\ n = m
             /\ About(p, l, n)' <=> pc'[p] = l /\ n = m
  <2>1. pc'[p] = l => loc'[p].obj = o
    BY <1>1, <1>2, <1>5 DEF Places
  <2> QED BY <1>1, <1>4, <2>1 DEF About
<1> HIDE DEF About
<1>8. Clears(p, m, cam[o].state)
  BY <1>1, <1>3, <1>6, <1>7 DEF ChronicInv, Clears
<1>9. /\ issue'[m] /\ ~chronic'[m] => pc'[p] = "recover"
      /\ pc'[p] = "report" => chronic'[m]
      /\ cam'[o].state = "Streaming" /\ (chronic'[m] \/ issue'[m]) =>
           pc'[p] = "clear" \/ (pc'[p] = "recover" /\ ~chronic'[m])
      /\ \A n \in Names \ {m} : issue'[n] = issue[n] /\ chronic'[n] = chronic[n]
  BY <1>8, ClearsKept
<1>10. SUFFICES ASSUME NEW n \in Names
       PROVE  /\ issue'[n] /\ ~chronic'[n] => \E q \in Proc : About(q, "recover", n)'
              /\ \A q \in Proc : About(q, "report", n)' => chronic'[n]
              /\ registry'[n] # Nil /\ cam'[registry'[n]].state = "Streaming"
                   /\ (chronic'[n] \/ issue'[n]) =>
                   \E q \in Proc : \/ About(q, "clear", n)'
                                   \/ About(q, "recover", n)' /\ ~chronic'[n]
  BY DEF ChronicInv
<1>11. CASE n = m
  BY <1>1, <1>3, <1>4, <1>6, <1>7, <1>9, <1>11
<1>12. CASE n # m
  <2>1. issue'[n] = issue[n] /\ chronic'[n] = chronic[n]
    BY <1>9, <1>12
  <2>2. ASSUME registry[n] # Nil PROVE cam'[registry[n]] = cam[registry[n]]
    <3>1. registry[n] \in Objects /\ cam[registry[n]].name = n
      BY <1>1, <2>2 DEF TypeOK, NamedInv
    <3> QED BY <1>4, <1>12, <3>1
  <2>3. \A q \in Proc, l \in L : About(q, l, n)' <=> About(q, l, n)
    BY <1>6, <1>7, <1>12
  <2> QED BY <1>4, <2>1, <2>2, <2>3 DEF ChronicInv
<1> QED
  BY <1>11, <1>12

\* What Discover enters into the registry is Offline.
LEMMA ApplyEntries ==
  ASSUME TypeOK, NEW p \in Owners, Apply(p), NEW n \in Names, registry'[n] # Nil,
         cam'[registry'[n]].state # "Offline"
  PROVE  registry'[n] = registry[n]
<1> DEFINE listed  == found[p]
           seen    == {listed[d] : d \in Devices} \ {Nil}
           fresh   == {m \in seen : registry[m] = Nil}
           orphans == Orphans(listed, seen)
<1>1. PICK last \in {f \in [seen -> Devices] : \A m \in seen : listed[f[m]] = m},
           new \in {f \in [fresh -> Free] : \A m, k \in fresh : f[m] = f[k] => m = k},
           gone \in Reaped(orphans) :
          /\ registry' = [m \in Names |-> IF m \in fresh THEN new[m]
                                          ELSE IF m \in orphans THEN Nil ELSE registry[m]]
          /\ cam' = [o \in Objects |->
               IF \E m \in fresh : new[m] = o
               THEN LET m == CHOOSE m \in fresh : new[m] = o IN NewCamera(m, last[m])
               ELSE IF Registered(o) /\ cam[o].name \in seen
               THEN [cam[o] EXCEPT !.mac = last[cam[o].name]] ELSE cam[o]]
          /\ fired' = [o \in Objects |-> IF \E m \in fresh : new[m] = o THEN 0 ELSE fired[o]]
          /\ stream' = [m \in Names |-> IF m \in gone THEN NoStream ELSE stream[m]]
          /\ dead' = dead \ gone
          /\ todo' = [todo EXCEPT ![p] =
               {registry[m] : m \in {k \in Names \ (seen \cup orphans) : registry[k] # Nil}}]
  BY Zenon DEF Apply
<1>2. \A k \in fresh : new[k] \in Objects
  BY <1>1 DEF Free
<1>3. ASSUME NEW k \in fresh PROVE cam'[new[k]].state = "Offline"
  <2>1. PICK j, d : cam'[new[k]] = NewCamera(j, d)
    BY <1>1, <1>2
  <2> QED BY <2>1 DEF NewCamera
<1>4. \/ n \in fresh /\ registry'[n] = new[n]
      \/ registry'[n] = Nil
      \/ registry'[n] = registry[n]
  BY <1>1
<1> HIDE DEF fresh
<1> QED
  BY <1>3, <1>4

LEMMA ChronicElsewhere ==
  ASSUME TypeOK, ControlInv, NamedInv, QualityInv, WorkersInv, ChronicInv,
         \/ \E p \in Owners : OwnerStep(p)
         \/ LoopStep \/ Refresh \/ HealthCheck
         \/ \E S \in SUBSET Objects : ReconnectErrored(S)
         \/ \E u \in Users : Command(u)
         \/ \E c \in Accounts : CloudChange(c)
         \/ \E n \in Names : ProducerDies(n)
  PROVE  ChronicInv'
<1>1. Undisturbed
  BY OtherStepOrderly
<1>2. \A o \in Objects : \/ o \in Free /\ cam'[o].state = "Offline"
                         \/ cam'[o].state = cam[o].state /\ cam'[o].name = cam[o].name
  BY OtherStepStates
<1>3. UNCHANGED <<chronic, issue>>
  <2> USE DEF objVars, observers
  <2>1. ASSUME NEW p \in Owners, OwnerStep(p) PROVE UNCHANGED <<chronic, issue>>
    BY <2>1 DEF OwnerStep, Fetch, Apply, MarkOffline, Unlock, ConnectAll, Wait
  <2>2. ASSUME LoopStep \/ Refresh \/ HealthCheck PROVE UNCHANGED <<chronic, issue>>
    BY <2>2 DEF LoopStep, Attach, Wire, HealthCams, HealthVisit, HealthHold, HealthDone,
       Refresh, HealthCheck
  <2>3. ASSUME NEW S \in SUBSET Objects, ReconnectErrored(S) PROVE UNCHANGED <<chronic, issue>>
    BY <2>3 DEF ReconnectErrored
  <2>4. ASSUME NEW u \in Users, Command(u) PROVE UNCHANGED <<chronic, issue>>
    BY <2>4 DEF Command, RestartStream, StartStream, StopStream, SetQuality, Rediscover
  <2>5. ASSUME NEW c \in Accounts, CloudChange(c) PROVE UNCHANGED <<chronic, issue>>
    BY <2>5 DEF CloudChange
  <2>6. ASSUME NEW n \in Names, ProducerDies(n) PROVE UNCHANGED <<chronic, issue>>
    BY <2>6 DEF ProducerDies
  <2> QED BY <2>1, <2>2, <2>3, <2>4, <2>5, <2>6
<1>4. ASSUME NEW n \in Names, registry'[n] # Nil, cam'[registry'[n]].state = "Streaming"
      PROVE  registry'[n] = registry[n] /\ cam[registry[n]].state = "Streaming"
  <2>1. registry'[n] = registry[n]
    <3>1. CASE \E p \in Owners : Apply(p)
      BY <1>4, <3>1, ApplyEntries
    <3>2. CASE ~\E p \in Owners : Apply(p)
      BY <3>2, OtherStepFrame DEF OwnerStep, KeepsIdentity
    <3> QED BY <3>1, <3>2
  <2>2. registry[n] \in Objects
    BY <1>4, <2>1 DEF TypeOK
  <2> QED BY <1>2, <1>4, <2>1, <2>2
<1>5. ASSUME NEW q \in Proc, NEW l \in {"clear", "recover"}, NEW n \in Names, About(q, l, n)
      PROVE  About(q, l, n)'
  <2>1. pc[q] \in BusyLabels /\ loc[q].obj \in Objects
    BY <1>5 DEF About, BusyLabels, CamLabels, ControlInv
  <2>2. pc'[q] = pc[q] /\ loc'[q] = loc[q]
    BY <1>1, <2>1 DEF Undisturbed
  <2>3. loc[q].obj \notin Free
    BY DEF Free
  <2> QED BY <1>2, <1>5, <2>1, <2>2, <2>3 DEF About
<1>6. ASSUME NEW q \in Proc, NEW n \in Names, About(q, "report", n)'
      PROVE  About(q, "report", n)
  <2>1. pc[q] = "report" /\ loc'[q] = loc[q]
    BY <1>1, <1>6 DEF About, Undisturbed, BusyLabels, CamLabels
  <2>2. loc[q].obj \in Objects
    BY <2>1 DEF ControlInv, CamLabels
  <2>3. loc[q].obj \notin Free
    BY DEF Free
  <2> QED BY <1>2, <1>6, <2>1, <2>2, <2>3 DEF About
<1> HIDE DEF About
<1> QED
  BY <1>3, <1>4, <1>5, <1>6 DEF ChronicInv

LEMMA ChronicKept ==
  ASSUME Users = {}, IInv, QualityInv, WorkersInv, StepInv, ChronicInv, [Next]_vars
  PROVE  ChronicInv'
<1>1. TypeOK /\ ControlInv /\ NamedInv
  BY DEF IInv
<1>2. ASSUME NEW p \in Proc, CameraStep(p) PROVE ChronicInv'
  <2>1. pc[p] \in CamLabels
    BY <1>2 DEF CameraStep, ChangeRead, ChangeSet, ClearChronic, Recover, Notify, PickSource,
       DeleteFirst, AddStream, AddStreamFails, IncrementError, NotifyLost, CountErrors,
       MarkChronic, ReportChronic, CheckProtocol, BumpStreak, Promote, Fallback, DropStream,
       CamLabels
  <2>2. PICK o \in Objects : o = loc[p].obj
    BY <1>1, <2>1 DEF ControlInv
  <2>3. Start(p, o)
    BY <1>1, <2>2 DEF Start
  <2>4. Advance(p)
    BY <1>1, <1>2, CameraStepAdvances
  <2> QED BY <1>2, <2>3, <2>4, ChronicByCameraStep
<1>3. CASE UNCHANGED vars
  BY <1>3 DEF vars, objVars, observers, ChronicInv, About
<1> QED
  BY <1>1, <1>2, <1>3, ChronicElsewhere DEF Next

(* "Auto-clears when the camera next reaches streaming" (README.md:492) is true
   of a manager without commands, for any number of cameras, renames and
   failures: the issue outlives the recovery (see the README, known
   divergences) only because a command's recovery overtakes the report of a
   failure (manager.go:578-613).                                           *)
THEOREM AloneClearsTheIssue ==
  ASSUME Users = {}
  PROVE  Spec => []StreamingClearsChronicIssue
<1>1. Init => ChronicInv
  BY DEF Init, ChronicInv, About
<1>2. IInv /\ (QualityInv /\ WorkersInv) /\ StepInv /\ ChronicInv /\ [Next]_vars => ChronicInv'
  BY ChronicKept
<1>3. ChronicInv => StreamingClearsChronicIssue
  BY DEF ChronicInv, About, StreamingClearsChronicIssue, AtRest
<1> QED
  BY <1>1, <1>2, <1>3, StepHolds, Placed, Inductive, PTL DEF Spec
=============================================================================
