-------------------------- MODULE WyzeCloudProofs --------------------------
(***************************************************************************)
(* Theorems about what the bridge knows from the Wyze cloud: EventPoller,  *)
(* and WyzeAuth, the client it polls with.  The two modules share nothing: *)
(* Spec is about the first, AuthSpec about the second.                     *)
(***************************************************************************)
EXTENDS EventPoller, WyzeAuth, FiniteSetTheorems, TLAPS

\* Nothing occurs in the future; the account lists what has occurred, and an
\* answer holds what is listed.
LogInv ==
  /\ \A e \in Occurred : log[e].ts <= now
  /\ listed \subseteq Occurred
  /\ \A r \in batch : r.id \in listed

\* A press that has rung moved lastRingAt of its camera to its own time or later.
RungInv ==
  LiveRing =>
    \A e \in Events :
      \/ rang[e] = 0
      \/ /\ rang[e] = 1
         /\ e \in Occurred
         /\ lastRing[log[e].cam] # Nil
         /\ lastRing[log[e].cam] >= log[e].ts

IInv == TypeOK /\ LogInv /\ RungInv


USE PollerAssumption DEF PollerAssumption

-----------------------------------------------------------------------------
(* The announcement of a press that occurred, at its own time or up to
   LiveDelay later, keeps the types and announces no press a second time:
   that time is less than the dedupe window after the one RungInv speaks of. *)
LEMMA AnnounceKeeps ==
  ASSUME IInv, NEW e \in Occurred, NEW at \in Nat,
         log[e].ts <= at, at <= log[e].ts + LiveDelay,
         Announce(e, at), UNCHANGED log
  PROVE  /\ lastRing' \in [Cams -> Nat \cup {Nil}]
         /\ rang' \in [Events -> Nat]
         /\ RungInv'
<1> DEFINE c == log[e].cam
<1>1. e \in Events /\ c \in Cams /\ log[e].ts \in Nat
  BY DEF IInv, TypeOK, Occurred
<1>2. /\ lastRing \in [Cams -> Nat \cup {Nil}]
      /\ rang \in [Events -> Nat]
      /\ log \in [Events -> [cam : Cams \cup {Nil}, kind : Kinds, ts : Nat]]
  BY DEF IInv, TypeOK
<1>3. CASE UNCHANGED rings
  BY <1>2, <1>3 DEF rings, IInv, RungInv, Occurred
<1>4. CASE ~UNCHANGED rings
  <2>1. /\ ~LiveRing \/ ShouldDispatch(c, at)
        /\ rang' = [rang EXCEPT ![e] = @ + 1]
        /\ lastRing' = IF LiveRing THEN [lastRing EXCEPT ![c] = at] ELSE lastRing
    BY <1>4 DEF Announce
  <2>2. lastRing' \in [Cams -> Nat \cup {Nil}] /\ rang' \in [Events -> Nat]
    BY <1>1, <1>2, <2>1
  <2>3. ASSUME LiveRing, NEW f \in Events, rang'[f] # 0
        PROVE  /\ rang'[f] = 1
               /\ f \in Occurred'
               /\ lastRing'[log'[f].cam] # Nil
               /\ lastRing'[log'[f].cam] >= log'[f].ts
    <3>1. lastRing' = [lastRing EXCEPT ![c] = at] /\ ShouldDispatch(c, at)
      BY <2>1, <2>3
    <3>2. lastRing'[c] = at /\ at # Nil
      BY <1>1, <1>2, <3>1
    <3>3. CASE f = e
      <4>1. rang[e] = 0
        BY <1>1, <1>2, <2>3, <3>1 DEF IInv, RungInv, ShouldDispatch
      <4> QED
        BY <1>1, <1>2, <2>1, <3>2, <3>3, <4>1 DEF Occurred
    <3>4. CASE f # e
      <4>1. rang'[f] = rang[f]
        BY <1>1, <1>2, <2>1, <3>4
      <4>2. /\ rang[f] = 1
            /\ f \in Occurred
            /\ lastRing[log[f].cam] # Nil
            /\ lastRing[log[f].cam] >= log[f].ts
        BY <2>3, <4>1 DEF IInv, RungInv
      <4>3. log[f].cam \in Cams /\ log[f].ts \in Nat
        BY <1>2, <4>2 DEF Occurred
      <4>4. CASE log[f].cam = c
        BY <1>1, <1>2, <3>1, <3>2, <4>1, <4>2, <4>3, <4>4 DEF Occurred, ShouldDispatch
      <4>5. CASE log[f].cam # c
        BY <1>1, <1>2, <3>1, <4>1, <4>2, <4>3, <4>5 DEF Occurred
      <4> QED
        BY <4>4, <4>5
    <3> QED
      BY <3>3, <3>4
  <2> QED
    BY <2>2, <2>3 DEF RungInv
<1> QED
  BY <1>3, <1>4

-----------------------------------------------------------------------------
LEMMA InitIInv == Init => IInv
<1> SUFFICES ASSUME Init PROVE IInv
  OBVIOUS
<1>1. TypeOK
  BY DEF Init, TypeOK, NoEvent, Kinds, Tick
<1>2. LogInv /\ RungInv
  BY DEF Init, LogInv, RungInv, Occurred, NoEvent
<1> QED
  BY <1>1, <1>2 DEF IInv

LEMMA LiveRingHeardIInv == ASSUME IInv, NEW e \in Events, LiveRingHeard(e) PROVE IInv'
<1>1. /\ e \in Occurred
      /\ UNCHANGED <<now, log, open, listed, tracked, lastTS, seen, batch, took, handled>>
      /\ heard' \in SUBSET Events
  BY DEF LiveRingHeard, Presses, world, poller, IInv, TypeOK
<1>2. PICK at \in {log[e].ts, now} : Announce(e, at)
  BY DEF LiveRingHeard
<1>3. at \in Nat /\ log[e].ts <= at /\ at <= log[e].ts + LiveDelay
  BY <1>1 DEF LiveRingHeard, IInv, TypeOK, LogInv, Occurred
<1>4. /\ lastRing' \in [Cams -> Nat \cup {Nil}]
      /\ rang' \in [Events -> Nat]
      /\ RungInv'
  BY <1>1, <1>2, <1>3, AnnounceKeeps
<1>5. TypeOK'
  BY <1>1, <1>4 DEF IInv, TypeOK
<1>6. LogInv'
  BY <1>1 DEF IInv, LogInv, Occurred
<1> QED
  BY <1>4, <1>5, <1>6 DEF IInv

LEMMA PollIInv == ASSUME IInv, Poll PROVE IInv'
<1> USE DEF Poll, world, rings
<1>1. UNCHANGED <<now, log, open, listed, tracked, heard, lastRing, rang, lastTS, seen, handled>>
  OBVIOUS
<1>2. took' \in Nat
  BY DEF IInv, TypeOK
<1>3. batch' = {[id |-> e, open |-> e \in open] : e \in Newest(Wanted)}
  OBVIOUS
<1>4. Newest(Wanted) \subseteq listed
  BY DEF Newest, Wanted
<1>5. listed \subseteq Events
  BY DEF IInv, TypeOK
<1>6. batch' \in SUBSET [id : Events, open : BOOLEAN]
  <2>1. \A e \in Newest(Wanted) :
          [id |-> e, open |-> e \in open] \in [id : Events, open : BOOLEAN]
    <3> TAKE e \in Newest(Wanted)
    <3>1. e \in Events /\ (e \in open) \in BOOLEAN
      BY <1>4, <1>5
    <3> QED
      BY <3>1
  <2> QED
    BY <1>3, <2>1
<1>7. \A r \in batch' : r.id \in listed
  BY <1>3, <1>4
<1>8. TypeOK'
  BY <1>1, <1>2, <1>6 DEF IInv, TypeOK
<1>9. LogInv'
  BY <1>1, <1>7 DEF IInv, LogInv, Occurred
<1>10. RungInv'
  BY <1>1 DEF IInv, RungInv, Occurred
<1> QED
  BY <1>8, <1>9, <1>10 DEF IInv

\* Remembering an id keeps the memory a sequence of at most MaxSeen ids.
LEMMA MarkSeenBounded ==
  ASSUME NEW s \in Seq(Events), Len(s) <= MaxSeen, NEW e \in Events
  PROVE  MarkSeen(s, e) \in Seq(Events) /\ Len(MarkSeen(s, e)) <= MaxSeen
<1> DEFINE t == Append(s, e)
<1>1. t \in Seq(Events) /\ Len(t) = Len(s) + 1 /\ Len(s) \in Nat
  OBVIOUS
<1>2. t # <<>>
  BY <1>1
<1>3. Tail(t) \in Seq(Events) /\ Len(Tail(t)) = Len(t) - 1
  BY <1>1, <1>2
<1> QED
  BY <1>1, <1>3 DEF MarkSeen

LEMMA ProcessIInv == ASSUME IInv, NEW r \in batch, Process(r) PROVE IInv'
<1> DEFINE e == r.id
           ev == log[e]
<1>1. /\ UNCHANGED <<now, log, open, listed, tracked, heard>>
      /\ batch' = batch \ {r}
      /\ lastTS' = Advance(r)
      /\ seen' = IF IsSeen(e) THEN seen ELSE MarkSeen(seen, e)
      /\ took' = IF batch' = {} THEN 0 ELSE took
  BY DEF Process, world
<1>2. e \in Events /\ e \in Occurred /\ ev.ts \in Nat
  BY DEF IInv, TypeOK, LogInv, Occurred
<1>3. lastTS' \in Nat
  <2>1. lastTS \in Nat
    BY DEF IInv, TypeOK
  <2> QED
    BY <1>1, <1>2, <2>1 DEF Advance
<1>4. seen' \in Seq(Events) /\ Len(seen') <= MaxSeen
  BY <1>1, <1>2, MarkSeenBounded DEF IInv, TypeOK
<1>5. took' \in Nat /\ batch' \in SUBSET [id : Events, open : BOOLEAN]
  BY <1>1 DEF IInv, TypeOK
<1>6. handled' \in [Events -> Nat]
  <2>1. handled \in [Events -> Nat]
    BY DEF IInv, TypeOK
  <2>2. handled' = handled \/ handled' = [handled EXCEPT ![e] = @ + 1]
    BY DEF Process
  <2> QED
    BY <1>2, <2>1, <2>2
<1>7. /\ lastRing' \in [Cams -> Nat \cup {Nil}]
      /\ rang' \in [Events -> Nat]
      /\ RungInv'
  <2>1. CASE UNCHANGED rings
    BY <1>1, <2>1 DEF rings, IInv, TypeOK, RungInv, Occurred
  <2>2. CASE Announce(e, ev.ts)
    BY <1>1, <1>2, <2>2, AnnounceKeeps
  <2> QED
    BY <2>1, <2>2 DEF Process
<1>8. TypeOK'
  BY <1>1, <1>3, <1>4, <1>5, <1>6, <1>7 DEF IInv, TypeOK
<1>9. LogInv'
  BY <1>1 DEF IInv, LogInv, Occurred
<1> QED
  BY <1>7, <1>8, <1>9 DEF IInv

LEMMA OccurIInv == ASSUME IInv, NEW c \in Cams, NEW k \in Kinds, Occur(c, k) PROVE IInv'
<1>1. UNCHANGED <<now, listed, tracked, heard, lastTS, seen, batch, took, handled, lastRing, rang>>
  BY DEF Occur, poller, rings
<1>2. PICK e \in Events \ Occurred :
        /\ log' = [log EXCEPT ![e] = [cam |-> c, kind |-> k, ts |-> now]]
        /\ open' = open \/ open' = open \cup {e}
  BY DEF Occur
<1>3. /\ log \in [Events -> [cam : Cams \cup {Nil}, kind : Kinds, ts : Nat]]
      /\ now \in Nat
  BY DEF IInv, TypeOK
<1>4. log' \in [Events -> [cam : Cams \cup {Nil}, kind : Kinds, ts : Nat]]
  BY <1>2, <1>3
<1>5. \A f \in Occurred : log'[f] = log[f]
  BY <1>2, <1>3 DEF Occurred
<1>6. log'[e].ts = now /\ Occurred' = Occurred \cup {e}
  BY <1>2, <1>3 DEF Occurred
<1>7. TypeOK'
  BY <1>1, <1>2, <1>4 DEF IInv, TypeOK
<1>8. LogInv'
  BY <1>1, <1>3, <1>5, <1>6 DEF IInv, LogInv
<1>9. RungInv'
  BY <1>1, <1>2, <1>5, <1>6 DEF IInv, RungInv
<1> QED
  BY <1>7, <1>8, <1>9 DEF IInv

\* The rest of the world changes neither the log nor what rang.
LEMMA WorldIInv ==
  ASSUME IInv,
         \/ \E e \in Events : List(e) \/ CloseRecording(e)
         \/ \E c \in Cams : Drop(c)
         \/ Pass
  PROVE  IInv'
<1>1. UNCHANGED <<log, heard, lastTS, seen, batch, took, handled, lastRing, rang>>
  BY DEF List, CloseRecording, Drop, Pass, poller, rings
<1>2. /\ now \in Nat /\ now' \in Nat /\ now <= now'
      /\ listed \subseteq listed' /\ listed' \subseteq Occurred
      /\ open' \in SUBSET Events /\ tracked' \in SUBSET Cams
  BY DEF List, CloseRecording, Drop, Pass, IInv, TypeOK, LogInv, Tick
<1>3. Occurred' = Occurred /\ Occurred \subseteq Events
  BY <1>1 DEF Occurred
<1>4. TypeOK'
  BY <1>1, <1>2, <1>3 DEF IInv, TypeOK
<1>5. \A e \in Occurred : log[e].ts <= now'
  <2> TAKE e \in Occurred
  <2>1. log[e].ts \in Nat /\ log[e].ts <= now
    BY <1>3 DEF IInv, TypeOK, LogInv
  <2> QED
    BY <1>2, <2>1
<1>6. LogInv'
  BY <1>1, <1>2, <1>3, <1>5 DEF IInv, LogInv
<1>7. RungInv'
  BY <1>1, <1>3 DEF IInv, RungInv
<1> QED
  BY <1>4, <1>6, <1>7 DEF IInv

LEMMA StutterIInv == ASSUME IInv, UNCHANGED vars PROVE IInv'
<1> USE DEF vars, world, poller, rings
<1>1. TypeOK'
  BY DEF IInv, TypeOK
<1>2. LogInv' /\ RungInv'
  BY DEF IInv, LogInv, RungInv, Occurred
<1> QED
  BY <1>1, <1>2 DEF IInv

LEMMA Invariance == Spec => []IInv
<1>1. Init => IInv
  BY InitIInv
<1>2. IInv /\ [Next]_vars => IInv'
  BY LiveRingHeardIInv, PollIInv, ProcessIInv, OccurIInv, WorldIInv, StutterIInv DEF Next, World
<1> QED
  BY <1>1, <1>2, PTL DEF Spec

-----------------------------------------------------------------------------
(* The memory of ids.                                                      *)

\* Events occur Tick apart, and none after the present.
SpacedInv ==
  /\ now \in Nat /\ now >= Tick
  /\ \A e \in Occurred :
       /\ log[e].ts >= Tick
       /\ log[e].ts = now \/ log[e].ts + Tick <= now
  /\ \A e, f \in Occurred :
       e = f \/ log[e].ts + Tick <= log[f].ts \/ log[f].ts + Tick <= log[e].ts

\* An answer is a page at most, and names no event twice.
BatchInv ==
  /\ IsFiniteSet(batch) /\ Cardinality(batch) <= Page
  /\ \A q, r \in batch : q.id = r.id => q = r

\* At most n ids have been remembered after that of e.
Behind(e, n) == \E i \in 1..Len(seen) : seen[i] = e /\ Len(seen) - i <= n

\* The window has moved past e for ever.
Gone(e) == lastTS > log[e].ts /\ \A q \in batch : q.id # e

\* Nothing newer than e has been handled after it: what is left of the answer is
\* older, and each of it adds an id at most.
OnlyOlder(e) ==
  /\ \A q \in batch : log[q.id].ts < log[e].ts
  /\ Behind(e, Page - 1 - Cardinality(batch))

\* A later answer names e again, as its oldest event ...
Again(e) ==
  /\ \E q \in batch : q.id = e
  /\ \A q \in batch : log[q.id].ts >= log[e].ts
  /\ Behind(e, 2 * Page - 1 - Cardinality(batch))
  /\ lastTS > log[e].ts \/ Behind(e, Page - 1)

\* ... or newer ones only.
OnlyNewer(e) == batch # {} /\ \A q \in batch : log[q.id].ts > log[e].ts

\* What became of an event that was handled.
Remembered(e) ==
  Gone(e) \/ (lastTS >= log[e].ts - 1 /\ (OnlyOlder(e) \/ Again(e) \/ OnlyNewer(e)))

\* An event that was handled was handled once, and is one of those.
OnceInv ==
  \A e \in Events : handled[e] = 0 \/ (handled[e] = 1 /\ e \in Occurred /\ Remembered(e))

LEMMA LeastNatural ==
  ASSUME NEW T \in SUBSET Nat, T # {}
  PROVE  \E x \in T : \A y \in T : x <= y
<1> DEFINE R == OpToRel(<, Nat)
<1>0. IsWellFoundedOn(R, Nat)
  BY NatLessThanWellFounded, Zenon
<1>1. \A x, y \in Nat : y < x => <<y, x>> \in R
  BY Zenon DEF OpToRel
<1> HIDE DEF R
<1>2. PICK x \in T : \A y \in T : ~ (<<y, x>> \in R)
  BY <1>0, WFMin
<1>3. ASSUME NEW y \in T PROVE x <= y
  <2>1. x \in Nat /\ y \in Nat
    OBVIOUS
  <2>2. ~(y < x)
    BY <1>1, <1>2, <2>1, Zenon
  <2> QED BY <2>1, <2>2
<1> QED BY <1>3

\* The newest of a set of events fill a page at most: all but the oldest of them
\* are newer than that one.
LEMMA NewestFillAPage ==
  ASSUME TypeOK, SpacedInv, NEW S \in SUBSET Occurred
  PROVE  IsFiniteSet(Newest(S)) /\ Cardinality(Newest(S)) <= Page
<1> DEFINE T == Newest(S)
           times == {log[e].ts : e \in T}
<1>1. T \subseteq S /\ S \subseteq Events /\ S \subseteq Occurred
  BY DEF Newest, Occurred
<1>2. IsFiniteSet(Events)
  BY FS_Interval DEF Events
<1>3. IsFiniteSet(S) /\ IsFiniteSet(T)
  <2>1. T \in SUBSET Events /\ S \in SUBSET Events
    BY <1>1
  <2> HIDE DEF T
  <2> QED BY <1>2, <2>1, FS_Subset
<1>4. CASE T = {}
  BY <1>3, <1>4, FS_EmptySet
<1>5. CASE T # {}
  <2>1. times \in SUBSET Nat /\ times # {}
    BY <1>1, <1>5 DEF TypeOK
  <2>2. PICK x \in times : \A y \in times : x <= y
    <3> HIDE DEF times
    <3> QED BY <2>1, LeastNatural
  <2>3. PICK e \in T : x = log[e].ts
    BY <2>2
  <2>4. \A f \in T : log[e].ts <= log[f].ts
    BY <2>2, <2>3
  <2> DEFINE U == {f \in S : log[f].ts > log[e].ts}
  <2>5. ASSUME NEW f \in T \ {e} PROVE f \in U
    <3> HIDE DEF T
    <3>1. e \in Occurred /\ f \in Occurred /\ f \in S /\ log[e].ts <= log[f].ts
      BY <1>1, <2>3, <2>4
    <3>2. log[e].ts \in Nat /\ log[f].ts \in Nat
      BY <3>1 DEF TypeOK, Occurred
    <3> QED BY <3>1, <3>2 DEF SpacedInv, Tick
  <2>6. Cardinality(U) < Page
    BY <2>3 DEF Newest
  <2>7. IsFiniteSet(U)
    <3>1. U \in SUBSET S
      OBVIOUS
    <3> QED BY <1>3, <3>1, FS_Subset
  <2> HIDE DEF T, U
  <2>8. Cardinality(T \ {e}) <= Cardinality(U) /\ IsFiniteSet(T \ {e})
    <3>1. T \ {e} \in SUBSET U
      BY <2>5
    <3> QED BY <2>7, <3>1, FS_Subset
  <2>9. Cardinality(T \ {e}) = Cardinality(T) - 1
    BY <1>3, <2>3, FS_RemoveElement
  <2>10. Cardinality(T) \in Nat /\ Cardinality(U) \in Nat
    BY <1>3, <2>7, FS_CardinalityType
  <2> QED BY <1>3, <2>6, <2>8, <2>9, <2>10 DEF T
<1> QED BY <1>4, <1>5

LEMMA BehindWeaker ==
  ASSUME TypeOK, NEW e, NEW m \in Int, NEW n \in Int, m <= n, Behind(e, m)
  PROVE  Behind(e, n)
<1>1. Len(seen) \in Nat
  BY DEF TypeOK
<1> QED BY <1>1 DEF Behind

LEMMA BehindIsSeen ==
  ASSUME NEW e, NEW n, Behind(e, n)
  PROVE  IsSeen(e)
  BY DEF Behind, IsSeen

\* One more id pushes an id at most one place back, and off the end only when
\* MaxSeen ids have come after it.
LEMMA BehindOneMore ==
  ASSUME TypeOK, NEW e, NEW d \in Events, NEW n \in Int, n <= MaxSeen - 2, Behind(e, n),
         seen' = seen \/ seen' = MarkSeen(seen, d)
  PROVE  Behind(e, n + 1)'
<1>1. seen \in Seq(Events) /\ Len(seen) \in Nat /\ Len(seen) <= MaxSeen
  BY DEF TypeOK
<1>2. PICK i \in 1..Len(seen) : seen[i] = e /\ Len(seen) - i <= n
  BY DEF Behind
<1> DEFINE t == Append(seen, d)
<1>3. /\ t \in Seq(Events) /\ Len(t) = Len(seen) + 1
      /\ t[i] = e /\ i \in 1..Len(t) /\ Len(t) - i <= n + 1
  BY <1>1, <1>2
<1>4. CASE seen' = seen
  BY <1>1, <1>2, <1>4 DEF Behind
<1>5. CASE seen' = t
  BY <1>3, <1>5 DEF Behind
<1>6. CASE seen' = Tail(t) /\ Len(t) > MaxSeen
  <2>1. i >= 2
    BY <1>1, <1>2, <1>3, <1>6
  <2>2. Len(Tail(t)) = Len(t) - 1 /\ Tail(t)[i - 1] = t[i]
    <3> HIDE DEF t
    <3>1. t # <<>>
      BY <1>3
    <3> QED BY <1>3, <2>1, <3>1
  <2>3. i - 1 \in 1..Len(seen') /\ seen'[i - 1] = e /\ Len(seen') - (i - 1) <= n + 1
    BY <1>1, <1>2, <1>3, <1>6, <2>1, <2>2
  <2> QED BY <2>3 DEF Behind
<1> QED
  BY <1>4, <1>5, <1>6 DEF MarkSeen

\* The id just handled is the last one remembered.
LEMMA BehindNone ==
  ASSUME TypeOK, NEW e \in Events, seen' = MarkSeen(seen, e)
  PROVE  Behind(e, 0)'
<1>1. seen \in Seq(Events) /\ Len(seen) \in Nat /\ Len(seen) <= MaxSeen
  BY DEF TypeOK
<1> DEFINE t == Append(seen, e)
<1>2. t \in Seq(Events) /\ Len(t) = Len(seen) + 1 /\ t[Len(t)] = e
  BY <1>1
<1>3. CASE seen' = t
  BY <1>1, <1>2, <1>3 DEF Behind
<1>4. CASE seen' = Tail(t) /\ Len(t) > MaxSeen
  <2>1. Len(t) >= 2 /\ t # <<>>
    BY <1>1, <1>2, <1>4
  <2>2. Len(Tail(t)) = Len(t) - 1 /\ Tail(t)[Len(t) - 1] = t[Len(t)]
    <3> HIDE DEF t
    <3> QED BY <1>2, <2>1
  <2> QED BY <1>1, <1>2, <1>4, <2>1, <2>2 DEF Behind
<1> QED
  BY <1>3, <1>4 DEF MarkSeen

MemoryInv == SpacedInv /\ BatchInv /\ OnceInv

LEMMA MemoryInitially == Init => MemoryInv
<1> SUFFICES ASSUME Init PROVE MemoryInv
  OBVIOUS
<1>1. Occurred = {} /\ batch = {} /\ now = Tick
  BY DEF Init, Occurred, NoEvent
<1>2. SpacedInv
  BY <1>1 DEF SpacedInv, Tick
<1>3. BatchInv
  BY <1>1, FS_EmptySet DEF BatchInv
<1>4. OnceInv
  BY DEF Init, OnceInv
<1> QED
  BY <1>2, <1>3, <1>4 DEF MemoryInv

\* What the account answers when the poller asks again.
LEMMA MemoryByPoll == ASSUME IInv, MemoryInv, Poll PROVE MemoryInv'
<1> USE DEF IInv
<1>1. /\ UNCHANGED <<now, log, lastTS, seen, handled>>
      /\ batch = {} /\ batch' = {[id |-> e, open |-> e \in open] : e \in Newest(Wanted)}
  BY DEF Poll, world
<1> DEFINE N == Newest(Wanted)
<1>2. Wanted \in SUBSET Occurred /\ N \subseteq Wanted
  BY DEF Wanted, Newest, LogInv
<1>3. IsFiniteSet(N) /\ Cardinality(N) <= Page
  BY <1>2, NewestFillAPage DEF MemoryInv
<1>4. \A q \in batch' : q.id \in N
  BY <1>1
<1>5. \A q, r \in batch' : q.id = r.id => q = r
  BY <1>1
<1> HIDE DEF N
<1>6. IsFiniteSet(batch') /\ Cardinality(batch') <= Page /\ Cardinality(batch') \in Nat
  <2> DEFINE f == [q \in batch' |-> q.id]
  <2>1. f \in Injection(batch', N)
    BY <1>4, <1>5 DEF Injection, IsInjective
  <2> HIDE DEF f
  <2>2. IsFiniteSet(batch') /\ Cardinality(batch') <= Cardinality(N)
    BY <1>3, <2>1, FS_Injection
  <2>3. Cardinality(batch') \in Nat /\ Cardinality(N) \in Nat
    BY <1>3, <2>2, FS_CardinalityType
  <2> QED BY <1>3, <2>2, <2>3
<1>7. BatchInv'
  BY <1>5, <1>6 DEF BatchInv
<1>8. SpacedInv'
  BY <1>1 DEF MemoryInv, SpacedInv, Occurred
<1>9. \A q \in batch' : q.id \in Occurred /\ log[q.id].ts >= Begin
  <2> TAKE q \in batch'
  <2>1. q.id \in Wanted
    BY <1>2, <1>4
  <2>2. q.id \in Occurred /\ log[q.id].ts \in Begin..now
    BY <1>2, <2>1 DEF Wanted
  <2>3. Begin \in Int /\ now \in Int
    BY DEF Begin, TypeOK
  <2> QED BY <2>2, <2>3
<1>10. ASSUME NEW e \in Events, handled[e] = 1, e \in Occurred, Remembered(e)
       PROVE  Remembered(e)'
  <2>1. log[e].ts \in Nat /\ log[e].ts >= Tick /\ lastTS \in Nat
    BY <1>10 DEF TypeOK, MemoryInv, SpacedInv
  <2>2. \A q \in batch' : log[q.id].ts \in Nat
    BY <1>9 DEF TypeOK, Occurred
  <2>3. CASE Gone(e)
    <3>1. Begin = lastTS
      BY <2>1, <2>3 DEF Gone, Begin, Tick
    <3>2. \A q \in batch' : q.id # e
      BY <1>9, <2>1, <2>3, <3>1 DEF Gone
    <3> QED BY <1>1, <2>3, <3>2 DEF Gone, Remembered
  <2>4. CASE ~Gone(e)
    <3>1. lastTS >= log[e].ts - 1 /\ Behind(e, Page - 1)
      <4>1. lastTS >= log[e].ts - 1 /\ OnlyOlder(e)
        BY <1>1, <1>10, <2>4 DEF Remembered, Again, OnlyNewer
      <4> QED BY <1>1, <4>1, FS_EmptySet DEF OnlyOlder
    <3>2. Begin = lastTS
      BY <2>1, <3>1 DEF Begin, Tick
    <3>3. \A q \in batch' : log[q.id].ts >= log[e].ts /\ (q.id # e => log[q.id].ts > log[e].ts)
      <4> TAKE q \in batch'
      <4>1. q.id \in Occurred /\ log[q.id].ts >= log[e].ts - 1 /\ log[q.id].ts \in Nat
        BY <1>9, <2>1, <2>2, <3>1, <3>2
      <4>2. q.id = e \/ log[e].ts + Tick <= log[q.id].ts \/ log[q.id].ts + Tick <= log[e].ts
        BY <1>10, <4>1 DEF MemoryInv, SpacedInv
      <4> QED BY <2>1, <4>1, <4>2 DEF Tick
    <3>4. \E i \in 1..Len(seen') : seen'[i] = e /\ Len(seen') - i <= Page - 1
      BY <1>1, <3>1 DEF Behind
    <3>5. CASE batch' = {}
      <4>1. Cardinality(batch') = 0
        BY <3>5, FS_EmptySet
      <4>2. OnlyOlder(e)'
        BY <3>4, <3>5, <4>1 DEF OnlyOlder, Behind
      <4> QED BY <1>1, <3>1, <4>2 DEF Remembered
    <3>6. CASE \E q \in batch' : q.id = e
      <4>1. PICK i \in 1..Len(seen') : seen'[i] = e /\ Len(seen') - i <= Page - 1
        BY <3>4
      <4>2. Len(seen') - i <= 2 * Page - 1 - Cardinality(batch')
        <5>1. Len(seen') \in Nat
          BY <1>1 DEF TypeOK
        <5> QED BY <1>6, <4>1, <5>1
      <4>3. Again(e)'
        BY <1>1, <3>3, <3>4, <3>6, <4>1, <4>2 DEF Again, Behind
      <4> QED BY <1>1, <3>1, <4>3 DEF Remembered
    <3>7. CASE batch' # {} /\ \A q \in batch' : q.id # e
      BY <1>1, <3>1, <3>3, <3>7 DEF OnlyNewer, Remembered
    <3> QED BY <3>5, <3>6, <3>7
  <2> QED BY <2>3, <2>4
<1>11. OnceInv'
  <2>1. ASSUME NEW e \in Events, handled'[e] # 0
        PROVE  handled'[e] = 1 /\ e \in Occurred' /\ Remembered(e)'
    <3>1. handled[e] = 1 /\ e \in Occurred /\ Remembered(e)
      BY <1>1, <2>1 DEF MemoryInv, OnceInv
    <3> QED BY <1>1, <1>10, <3>1 DEF Occurred
  <2> QED BY <2>1 DEF OnceInv
<1> QED
  BY <1>7, <1>8, <1>11 DEF MemoryInv

-----------------------------------------------------------------------------
\* What one step of processEvents does to the window, the answer and the memory.
LEMMA ProcessFacts ==
  ASSUME IInv, MemoryInv, NEW r \in batch, Process(r)
  PROVE  /\ r.id \in Events /\ r.id \in Occurred /\ log[r.id].ts \in Nat
         /\ lastTS' \in Nat /\ lastTS' >= lastTS /\ lastTS' >= log[r.id].ts - 1
         /\ IsFiniteSet(batch') /\ Cardinality(batch) \in 1..Page
         /\ Cardinality(batch') = Cardinality(batch) - 1
         /\ \A q \in batch : log[q.id].ts \in Nat /\ log[q.id].ts <= log[r.id].ts
         /\ \A q \in batch' : q.id # r.id /\ log[q.id].ts < log[r.id].ts
         /\ seen' = seen \/ seen' = MarkSeen(seen, r.id)
<1> USE DEF IInv
<1>1. /\ batch' = batch \ {r} /\ lastTS' = Advance(r)
      /\ \A q \in batch : log[q.id].ts <= log[r.id].ts
      /\ seen' = seen \/ seen' = MarkSeen(seen, r.id)
  BY DEF Process
<1>2. \A q \in batch : q.id \in Occurred /\ q.id \in Events /\ log[q.id].ts \in Nat
  BY DEF TypeOK, LogInv, Occurred
<1>3. lastTS' \in Nat /\ lastTS' >= lastTS /\ lastTS' >= log[r.id].ts - 1
  <2>1. lastTS \in Nat /\ log[r.id].ts \in Nat /\ log[r.id].ts >= Tick
    BY <1>2 DEF TypeOK, MemoryInv, SpacedInv
  <2> QED BY <1>1, <2>1 DEF Advance, Tick
<1>4. IsFiniteSet(batch) /\ Cardinality(batch) \in Nat /\ Cardinality(batch) <= Page
  BY FS_CardinalityType DEF MemoryInv, BatchInv
<1>5. IsFiniteSet(batch') /\ Cardinality(batch') = Cardinality(batch) - 1
  BY <1>1, <1>4, FS_RemoveElement
<1>6. Cardinality(batch') \in Nat
  BY <1>5, FS_CardinalityType
<1>7. ASSUME NEW q \in batch' PROVE q.id # r.id /\ log[q.id].ts < log[r.id].ts
  <2>1. q \in batch /\ q.id # r.id
    BY <1>1 DEF MemoryInv, BatchInv
  <2>2. log[q.id].ts \in Nat /\ log[r.id].ts \in Nat /\ log[q.id].ts <= log[r.id].ts
    BY <1>1, <1>2, <2>1
  <2>3. log[q.id].ts + Tick <= log[r.id].ts \/ log[r.id].ts + Tick <= log[q.id].ts
    BY <1>2, <2>1 DEF MemoryInv, SpacedInv
  <2> QED BY <2>1, <2>2, <2>3 DEF Tick
<1> QED
  BY <1>1, <1>2, <1>3, <1>4, <1>5, <1>6, <1>7

\* An event that was handled is not handled when an answer names it again, and
\* stays remembered.
LEMMA RememberedByProcess ==
  ASSUME IInv, MemoryInv, NEW r \in batch, Process(r),
         NEW e \in Events, e \in Occurred, Remembered(e)
  PROVE  /\ Remembered(e)'
         /\ r.id = e => IsSeen(e)
<1> USE DEF IInv
<1> DEFINE d == r.id
           n == Cardinality(batch)
<1>1. /\ d \in Events /\ d \in Occurred /\ log[d].ts \in Nat
      /\ lastTS' \in Nat /\ lastTS' >= lastTS /\ lastTS' >= log[d].ts - 1
      /\ IsFiniteSet(batch') /\ n \in 1..Page /\ Cardinality(batch') = n - 1
      /\ \A q \in batch : log[q.id].ts \in Nat /\ log[q.id].ts <= log[d].ts
      /\ \A q \in batch' : q.id # d /\ log[q.id].ts < log[d].ts
      /\ seen' = seen \/ seen' = MarkSeen(seen, d)
  BY ProcessFacts
<1>2. /\ log' = log /\ batch' = batch \ {r} /\ batch' \in SUBSET batch
      /\ lastTS \in Nat /\ log[e].ts \in Nat
      /\ IsSeen(d) => seen' = seen
  BY DEF Process, world, TypeOK
<1>3. Page \in Nat /\ MaxSeen \in Nat /\ 2 * Page <= MaxSeen + 1
  OBVIOUS
<1>4. d # e => log[e].ts + Tick <= log[d].ts \/ log[d].ts + Tick <= log[e].ts
  BY <1>1 DEF MemoryInv, SpacedInv
<1> HIDE DEF d, n
<1>5. CASE Gone(e)
  <2>1. \A q \in batch : q.id # e
    BY <1>5 DEF Gone
  <2>2. Gone(e)'
    BY <1>1, <1>2, <1>5, <2>1 DEF Gone
  <2> QED BY <2>1, <2>2 DEF Remembered
<1>6. CASE lastTS >= log[e].ts - 1 /\ OnlyOlder(e)
  <2>1. log[d].ts < log[e].ts /\ d # e
    BY <1>2, <1>6 DEF OnlyOlder, d
  <2>2. Page - 1 - n \in Int /\ Page - 1 - n <= MaxSeen - 2
    BY <1>1, <1>3
  <2>3. Behind(e, Page - 1 - n)
    BY <1>6 DEF OnlyOlder, n
  <2>4. \E i \in 1..Len(seen') : seen'[i] = e /\ Len(seen') - i <= Page - 1 - n + 1
    BY <1>1, <2>2, <2>3, BehindOneMore DEF Behind
  <2>5. Page - 1 - n + 1 = Page - 1 - Cardinality(batch')
    BY <1>1
  <2>6. OnlyOlder(e)'
    <3>1. \A q \in batch' : log[q.id].ts < log[e].ts
      BY <1>2, <1>6 DEF OnlyOlder
    <3> QED BY <1>2, <2>4, <2>5, <3>1 DEF OnlyOlder, Behind
  <2>7. lastTS' >= log[e].ts - 1
    BY <1>1, <1>2, <1>6
  <2> QED BY <1>2, <2>1, <2>6, <2>7 DEF Remembered, d
<1>7. CASE Again(e) /\ d = e
  <2>1. IsSeen(e)
    BY <1>7, BehindIsSeen DEF Again
  <2>2. batch' = {}
    <3> SUFFICES ASSUME NEW q \in batch' PROVE FALSE
      OBVIOUS
    <3>1. log[q.id].ts < log[e].ts /\ log[q.id].ts \in Nat /\ log[q.id].ts >= log[e].ts
      BY <1>1, <1>2, <1>7 DEF Again
    <3> QED BY <1>2, <3>1
  <2>3. CASE lastTS > log[e].ts
    BY <1>1, <1>2, <2>1, <2>2, <2>3 DEF Gone, Remembered
  <2>4. CASE Behind(e, Page - 1)
    <3>1. Cardinality(batch') = 0
      BY <2>2, FS_EmptySet
    <3>2. \E i \in 1..Len(seen') : seen'[i] = e /\ Len(seen') - i <= Page - 1
      BY <1>2, <1>7, <2>1, <2>4 DEF Behind
    <3>3. OnlyOlder(e)'
      BY <2>2, <3>1, <3>2 DEF OnlyOlder, Behind
    <3> QED BY <1>1, <1>2, <1>7, <2>1, <3>3 DEF Remembered
  <2> QED BY <1>7, <2>3, <2>4 DEF Again
<1>8. CASE Again(e) /\ d # e
  <2>1. PICK q \in batch' : q.id = e
    BY <1>2, <1>8 DEF Again, d
  <2>2. n >= 2
    <3>1. Cardinality(batch') # 0
      BY <1>1, <2>1, FS_EmptySet
    <3> QED BY <1>1, <3>1
  <2>3. 2 * Page - 1 - n \in Int /\ 2 * Page - 1 - n <= MaxSeen - 2
    BY <1>1, <1>3, <2>2
  <2>4. Behind(e, 2 * Page - 1 - n)
    BY <1>8 DEF Again, n
  <2>5. \E i \in 1..Len(seen') : seen'[i] = e /\ Len(seen') - i <= 2 * Page - 1 - n + 1
    BY <1>1, <2>3, <2>4, BehindOneMore DEF Behind
  <2>6. 2 * Page - 1 - n + 1 = 2 * Page - 1 - Cardinality(batch')
    BY <1>1
  <2>7. log[d].ts >= log[e].ts
    BY <1>8 DEF Again, d
  <2>8. lastTS' > log[e].ts
    BY <1>1, <1>2, <1>4, <1>8, <2>7 DEF Tick
  <2>9. \A p \in batch' : log[p.id].ts >= log[e].ts
    BY <1>2, <1>8 DEF Again
  <2>10. Again(e)'
    BY <1>2, <2>1, <2>5, <2>6, <2>8, <2>9 DEF Again, Behind
  <2> QED BY <1>1, <1>2, <1>8, <2>8, <2>10 DEF Remembered, d
<1>9. CASE OnlyNewer(e)
  <2>1. log[d].ts > log[e].ts /\ \A q \in batch' : log[q.id].ts > log[e].ts
    BY <1>2, <1>9 DEF OnlyNewer, d
  <2>2. d # e /\ \A q \in batch' : q.id # e
    BY <1>2, <2>1
  <2>3. lastTS' > log[e].ts
    BY <1>1, <1>2, <1>4, <2>1, <2>2 DEF Tick
  <2> QED BY <1>2, <2>2, <2>3 DEF Gone, Remembered, d
<1> QED
  BY <1>5, <1>6, <1>7, <1>8, <1>9 DEF Remembered

LEMMA MemoryByProcess ==
  ASSUME IInv, MemoryInv, NEW r \in batch, Process(r) PROVE MemoryInv'
<1> USE DEF IInv
<1> DEFINE d == r.id
<1>1. /\ d \in Events /\ d \in Occurred /\ log[d].ts \in Nat
      /\ lastTS' \in Nat /\ lastTS' >= log[d].ts - 1
      /\ IsFiniteSet(batch') /\ Cardinality(batch) \in 1..Page
      /\ Cardinality(batch') = Cardinality(batch) - 1
      /\ \A q \in batch' : log[q.id].ts < log[d].ts
  BY ProcessFacts
<1>2. UNCHANGED <<now, log>> /\ batch' = batch \ {r}
  BY DEF Process, world
<1>3. \/ handled' = handled
      \/ handled' = [handled EXCEPT ![d] = @ + 1] /\ ~IsSeen(d) /\ seen' = MarkSeen(seen, d)
  BY DEF Process
<1>4. handled \in [Events -> Nat]
  BY DEF TypeOK
<1> HIDE DEF d
<1>5. SpacedInv'
  BY <1>2 DEF MemoryInv, SpacedInv, Occurred
<1>6. BatchInv'
  BY <1>1, <1>2 DEF MemoryInv, BatchInv
<1>7. ASSUME NEW e \in Events, handled'[e] # 0
      PROVE  handled'[e] = 1 /\ e \in Occurred' /\ Remembered(e)'
  <2>1. CASE handled[e] # 0
    <3>1. handled[e] = 1 /\ e \in Occurred /\ Remembered(e)
      BY <2>1 DEF MemoryInv, OnceInv
    <3>2. Remembered(e)' /\ (d = e => IsSeen(e))
      BY <3>1, RememberedByProcess DEF d
    <3>3. handled'[e] = handled[e]
      BY <1>3, <1>4, <3>2
    <3> QED BY <1>2, <3>1, <3>2, <3>3 DEF Occurred
  <2>2. CASE handled[e] = 0
    <3>1. e = d /\ handled'[e] = 1 /\ seen' = MarkSeen(seen, e)
      BY <1>1, <1>3, <1>4, <1>7, <2>2
    <3>2. PICK i \in 1..Len(seen') : seen'[i] = e /\ Len(seen') - i <= 0
      BY <3>1, BehindNone DEF Behind
    <3>3. Len(seen') \in Nat
      BY <1>1, <3>1, MarkSeenBounded DEF TypeOK
    <3>4. Len(seen') - i <= Page - 1 - Cardinality(batch')
      BY <1>1, <3>2, <3>3
    <3>5. OnlyOlder(e)'
      BY <1>1, <1>2, <3>1, <3>2, <3>4 DEF OnlyOlder, Behind
    <3> QED BY <1>1, <1>2, <3>1, <3>5 DEF Remembered, Occurred
  <2> QED BY <2>1, <2>2
<1>8. OnceInv'
  BY <1>7 DEF OnceInv
<1> QED
  BY <1>5, <1>6, <1>8 DEF MemoryInv

\* What happened keeps its time, and so the poller its memory.
LEMMA RememberedKept ==
  ASSUME NEW e, e \in Occurred, UNCHANGED <<lastTS, seen, batch>>,
         \A q \in batch : log'[q.id] = log[q.id],
         log'[e] = log[e], Remembered(e)
  PROVE  Remembered(e)'
BY DEF Remembered, Gone, OnlyOlder, Again, OnlyNewer, Behind

LEMMA MemoryByOccur ==
  ASSUME IInv, MemoryInv, NEW c \in Cams, NEW k \in Kinds, Occur(c, k) PROVE MemoryInv'
<1> USE DEF IInv
<1>1. /\ UNCHANGED <<now, lastTS, seen, batch, handled>>
      /\ \A f \in Occurred : log[f].ts # now
  BY DEF Occur, poller
<1>2. PICK g \in Events \ Occurred :
        log' = [log EXCEPT ![g] = [cam |-> c, kind |-> k, ts |-> now]]
  BY DEF Occur
<1>3. /\ Occurred' = Occurred \cup {g} /\ log'[g].ts = now
      /\ \A f \in Occurred : log'[f] = log[f]
  BY <1>2 DEF TypeOK, Occurred
<1>4. SpacedInv'
  <2>1. \A f \in Occurred : log'[f].ts = log[f].ts /\ log[f].ts >= Tick /\ log[f].ts + Tick <= now
    BY <1>1, <1>3 DEF MemoryInv, SpacedInv
  <2>2. \A f \in Occurred' : /\ log'[f].ts >= Tick
                             /\ log'[f].ts = now \/ log'[f].ts + Tick <= now
    BY <1>3, <2>1 DEF MemoryInv, SpacedInv
  <2>3. ASSUME NEW e \in Occurred', NEW f \in Occurred', e # f
        PROVE  log'[e].ts + Tick <= log'[f].ts \/ log'[f].ts + Tick <= log'[e].ts
    <3>1. CASE e \in Occurred /\ f \in Occurred
      BY <1>3, <2>3, <3>1 DEF MemoryInv, SpacedInv
    <3>2. CASE e = g \/ f = g
      BY <1>3, <2>1, <2>3, <3>2
    <3> QED BY <1>3, <3>1, <3>2
  <2> QED BY <1>1, <2>2, <2>3 DEF MemoryInv, SpacedInv
<1>5. BatchInv'
  BY <1>1 DEF MemoryInv, BatchInv
<1>6. ASSUME NEW e \in Events, handled'[e] # 0
      PROVE  handled'[e] = 1 /\ e \in Occurred' /\ Remembered(e)'
  <2>1. handled[e] = 1 /\ e \in Occurred /\ Remembered(e)
    BY <1>1, <1>6 DEF MemoryInv, OnceInv
  <2>2. \A q \in batch : q.id \in Occurred
    BY DEF LogInv
  <2>3. Remembered(e)'
    BY <1>1, <1>3, <2>1, <2>2, RememberedKept
  <2> QED BY <1>1, <1>3, <2>1, <2>3
<1>7. OnceInv'
  BY <1>6 DEF OnceInv
<1> QED
  BY <1>4, <1>5, <1>7 DEF MemoryInv

\* No other step touches the window, the answer or the memory.
LEMMA MemoryKept ==
  ASSUME IInv, MemoryInv,
         \/ \E e \in Events : LiveRingHeard(e) \/ List(e) \/ CloseRecording(e)
         \/ \E c \in Cams : Drop(c)
         \/ Pass
         \/ UNCHANGED vars
  PROVE  MemoryInv'
<1>1. UNCHANGED <<log, lastTS, seen, batch, handled>>
  BY DEF LiveRingHeard, List, CloseRecording, Drop, Pass, vars, world, poller
<1>2. now' = now \/ now' = now + Tick
  BY DEF LiveRingHeard, List, CloseRecording, Drop, Pass, vars, world
<1>3. Occurred' = Occurred /\ Occurred \subseteq Events
  BY <1>1 DEF Occurred
<1>4. SpacedInv'
  <2>1. /\ now \in Nat /\ now' \in Nat /\ now' >= Tick
        /\ \A e \in Occurred : log[e].ts \in Nat
    BY <1>2, <1>3 DEF IInv, TypeOK, MemoryInv, SpacedInv, Tick
  <2>2. \A e \in Occurred : log[e].ts = now' \/ log[e].ts + Tick <= now'
    BY <1>2, <2>1 DEF MemoryInv, SpacedInv, Tick
  <2> QED BY <1>1, <1>3, <2>1, <2>2 DEF MemoryInv, SpacedInv
<1>5. BatchInv'
  BY <1>1 DEF MemoryInv, BatchInv
<1>6. OnceInv'
  <2>1. ASSUME NEW e \in Events, handled'[e] # 0
        PROVE  handled'[e] = 1 /\ e \in Occurred' /\ Remembered(e)'
    <3>1. handled[e] = 1 /\ e \in Occurred /\ Remembered(e)
      BY <1>1, <2>1 DEF MemoryInv, OnceInv
    <3> QED BY <1>1, <1>3, <3>1, RememberedKept
  <2> QED BY <2>1 DEF OnceInv
<1> QED
  BY <1>4, <1>5, <1>6 DEF MemoryInv

-----------------------------------------------------------------------------
(* The poller's and the deduper's variables keep their types, the memory of
   ids its bound, for any number of cameras and events.                     *)
THEOREM TypeCorrect == Spec => []TypeOK
<1>1. IInv => TypeOK
  BY DEF IInv
<1> QED
  BY <1>1, Invariance, PTL

(* dispatchButtonPress announces a press at most once although two feeds report
   it, whatever the order, for any windows as long as the live channel is less
   than the dedupe window late.                                             *)
THEOREM OneRing == Spec => []OnePressOneRing
<1>1. IInv => OnePressOneRing
  BY DEF IInv, RungInv, OnePressOneRing
<1> QED
  BY <1>1, Invariance, PTL

(* processEvents gives an event to its sink at most once, for any number of
   events and any page and window, although every poll returns the newest one
   again and the memory of ids is bounded: two pages fit into the memory
   (PollerAssumption), so that an id is forgotten only when the window has moved
   past its event.                                                          *)
THEOREM HandledOnce == Spec => []OncePerEvent
<1>1. Init => MemoryInv
  BY MemoryInitially
<1>2. IInv /\ MemoryInv /\ [Next]_vars => MemoryInv'
  BY MemoryByPoll, MemoryByProcess, MemoryByOccur, MemoryKept DEF Next, World
<1>3. MemoryInv => OncePerEvent
  BY DEF MemoryInv, OnceInv, OncePerEvent
<1> QED
  BY <1>1, <1>2, <1>3, Invariance, PTL DEF Spec

-----------------------------------------------------------------------------
(* What the deduper swallows.                                              *)

\* The press f rang, on the camera of e, and e follows it closely or precedes it.
Excuses(f, e) ==
  /\ f \in Presses /\ rang[f] > 0 /\ log[f].cam = log[e].cam
  /\ log[e].ts - log[f].ts < DedupeWindow + LiveDelay

\* lastRingAt is the time at which some press of the camera was announced.
LastInv ==
  \A c \in Cams : lastRing[c] # Nil =>
    \E f \in Presses : rang[f] > 0 /\ log[f].cam = c /\ lastRing[c] <= log[f].ts + LiveDelay

OnlyExcused ==
  \A e \in Events :
    handled[e] > 0 /\ log[e].kind = "press" /\ rang[e] = 0 =>
      LiveRing /\ \E f \in Presses : Excuses(f, e)

SwallowInv == (\A e \in Events : handled[e] > 0 => e \in Occurred) /\ LastInv /\ OnlyExcused

LEMMA AnnounceSwallows ==
  ASSUME IInv, SwallowInv, NEW e \in Presses, NEW at \in Nat,
         at <= log[e].ts + LiveDelay, at >= log[e].ts,
         Announce(e, at), UNCHANGED log
  PROVE  /\ LastInv'
         /\ \A f \in Events : rang'[f] >= rang[f]
         /\ \/ rang'[e] > 0
            \/ /\ LiveRing /\ lastRing[log[e].cam] # Nil
               /\ at - lastRing[log[e].cam] < DedupeWindow
<1> DEFINE c == log[e].cam
<1>1. /\ e \in Events /\ c \in Cams
      /\ lastRing \in [Cams -> Nat \cup {Nil}] /\ rang \in [Events -> Nat]
      /\ log \in [Events -> [cam : Cams \cup {Nil}, kind : Kinds, ts : Nat]]
      /\ Presses' = Presses /\ Presses \subseteq Events
  BY DEF IInv, TypeOK, Presses, Occurred
<1>2. CASE LiveRing /\ ~ShouldDispatch(c, at)
  <2>1. UNCHANGED <<lastRing, rang>>
    BY <1>2 DEF Announce, rings
  <2> QED BY <1>1, <1>2, <2>1 DEF SwallowInv, LastInv, ShouldDispatch
<1>3. CASE ~LiveRing \/ ShouldDispatch(c, at)
  <2>1. /\ rang' = [rang EXCEPT ![e] = @ + 1]
        /\ lastRing' = IF LiveRing THEN [lastRing EXCEPT ![c] = at] ELSE lastRing
    BY <1>3 DEF Announce
  <2>2. (\A f \in Events : rang'[f] >= rang[f]) /\ rang'[e] > 0
    BY <1>1, <2>1
  <2>3. LastInv'
    <3> SUFFICES ASSUME NEW d \in Cams, lastRing'[d] # Nil
                 PROVE  \E f \in Presses : /\ rang'[f] > 0 /\ log[f].cam = d
                                           /\ lastRing'[d] <= log[f].ts + LiveDelay
      BY <1>1 DEF LastInv
    <3>1. CASE lastRing'[d] = lastRing[d]
      <4>1. PICK f \in Presses : /\ rang[f] > 0 /\ log[f].cam = d
                                 /\ lastRing[d] <= log[f].ts + LiveDelay
        BY <3>1 DEF SwallowInv, LastInv
      <4>2. rang'[f] > 0
        BY <1>1, <2>1, <4>1
      <4> QED BY <3>1, <4>1, <4>2
    <3>2. CASE lastRing'[d] # lastRing[d]
      <4>1. d = c /\ lastRing'[d] = at
        BY <1>1, <2>1, <3>2
      <4> QED BY <2>2, <4>1, <1>1
    <3> QED BY <3>1, <3>2
  <2> QED BY <1>1, <2>2, <2>3
<1> QED
  BY <1>2, <1>3

LEMMA SwallowKept ==
  IInv /\ SwallowInv /\ [Next]_vars => SwallowInv'
<1> SUFFICES ASSUME IInv, SwallowInv, [Next]_vars PROVE SwallowInv'
  OBVIOUS
<1>1. /\ lastRing \in [Cams -> Nat \cup {Nil}] /\ rang \in [Events -> Nat]
      /\ handled \in [Events -> Nat] /\ Presses \subseteq Occurred /\ Occurred \subseteq Events
      /\ log \in [Events -> [cam : Cams \cup {Nil}, kind : Kinds, ts : Nat]]
  BY DEF IInv, TypeOK, Presses, Occurred
<1>2. ASSUME NEW e \in Events, LiveRingHeard(e) PROVE SwallowInv'
  <2>1. /\ e \in Presses /\ UNCHANGED <<now, log, handled>> /\ now - log[e].ts <= LiveDelay
        /\ log[e].ts <= now /\ now \in Nat /\ log[e].ts \in Nat
    BY <1>1, <1>2 DEF LiveRingHeard, world, poller, IInv, TypeOK, LogInv
  <2>2. PICK at \in {log[e].ts, now} : Announce(e, at)
    BY <1>2 DEF LiveRingHeard
  <2>3. at \in Nat /\ at <= log[e].ts + LiveDelay /\ at >= log[e].ts
    BY <2>1
  <2>4. LastInv' /\ \A f \in Events : rang'[f] >= rang[f]
    BY <2>1, <2>2, <2>3, AnnounceSwallows
  <2>5. rang' \in [Events -> Nat] /\ Presses' = Presses /\ Occurred' = Occurred
    BY <1>2, <2>1, LiveRingHeardIInv DEF IInv, TypeOK, Presses, Occurred
  <2>6. \A f \in Presses, g \in Events : Excuses(f, g) => Excuses(f, g)'
    BY <1>1, <2>1, <2>4, <2>5 DEF Excuses
  <2>7. OnlyExcused'
    BY <1>1, <2>1, <2>4, <2>5, <2>6 DEF SwallowInv, OnlyExcused
  <2> QED BY <2>1, <2>4, <2>5, <2>7 DEF SwallowInv
<1>3. ASSUME NEW r \in batch, Process(r) PROVE SwallowInv'
  <2> DEFINE e == r.id
  <2>1. e \in Occurred /\ e \in Events /\ log' = log /\ log[e].ts \in Nat
    BY <1>1, <1>3 DEF Process, world, IInv, LogInv, TypeOK
  <2>2. Presses' = Presses /\ Occurred' = Occurred
    BY <2>1 DEF Presses, Occurred
  <2>3. rang' \in [Events -> Nat] /\ handled' \in [Events -> Nat]
    BY <1>3, ProcessIInv DEF IInv, TypeOK
  <2>4. CASE UNCHANGED <<handled, rings>>
    BY <2>1, <2>2, <2>4 DEF rings, SwallowInv, LastInv, OnlyExcused, Excuses
  <2>5. CASE handled' = [handled EXCEPT ![e] = @ + 1] /\ log[e].kind = "motion" /\ UNCHANGED rings
    <3>1. \A g \in Events : g # e => handled'[g] = handled[g]
      BY <1>1, <2>5
    <3>2. OnlyExcused'
      BY <2>1, <2>2, <2>5, <3>1 DEF rings, SwallowInv, OnlyExcused, Excuses
    <3> QED BY <2>1, <2>2, <2>5, <3>1, <3>2 DEF rings, SwallowInv, LastInv
  <2>6. CASE /\ handled' = [handled EXCEPT ![e] = @ + 1]
             /\ log[e].kind = "press" /\ Announce(e, log[e].ts)
    <3>1. e \in Presses /\ \A g \in Events : g # e => handled'[g] = handled[g]
      BY <1>1, <2>1, <2>6 DEF Presses
    <3>2. log[e].ts <= log[e].ts + LiveDelay /\ log[e].ts >= log[e].ts
      BY <2>1
    <3>3. /\ LastInv' /\ \A f \in Events : rang'[f] >= rang[f]
          /\ \/ rang'[e] > 0
             \/ /\ LiveRing /\ lastRing[log[e].cam] # Nil
                /\ log[e].ts - lastRing[log[e].cam] < DedupeWindow
      BY <2>1, <2>6, <3>1, <3>2, AnnounceSwallows
    <3>4. \A f \in Presses, g \in Events : Excuses(f, g) => Excuses(f, g)'
      BY <1>1, <2>1, <2>2, <2>3, <3>3 DEF Excuses
    <3>5. rang'[e] = 0 => LiveRing /\ \E f \in Presses : Excuses(f, e)
      <4> SUFFICES ASSUME rang'[e] = 0 PROVE LiveRing /\ \E f \in Presses : Excuses(f, e)
        OBVIOUS
      <4>1. /\ LiveRing /\ log[e].ts - lastRing[log[e].cam] < DedupeWindow
            /\ lastRing[log[e].cam] # Nil
        BY <3>3
      <4>2. log[e].cam \in Cams
        BY <1>1, <2>1 DEF Occurred
      <4>3. PICK f \in Presses : /\ rang[f] > 0 /\ log[f].cam = log[e].cam
                                 /\ lastRing[log[e].cam] <= log[f].ts + LiveDelay
        BY <4>1, <4>2 DEF SwallowInv, LastInv
      <4>4. lastRing[log[e].cam] \in Nat /\ log[f].ts \in Nat
        BY <1>1, <4>1, <4>2
      <4> QED BY <2>1, <4>1, <4>3, <4>4 DEF Excuses
    <3>6. OnlyExcused'
      <4> SUFFICES ASSUME NEW g \in Events, handled'[g] > 0, log[g].kind = "press", rang'[g] = 0
                   PROVE  LiveRing /\ \E f \in Presses : Excuses(f, g)'
        BY <2>1, <2>2 DEF OnlyExcused
      <4>1. CASE g = e
        BY <3>4, <3>5, <4>1
      <4>2. CASE g # e
        BY <1>1, <2>3, <3>1, <3>3, <3>4, <4>2 DEF SwallowInv, OnlyExcused
      <4> QED BY <4>1, <4>2
    <3> QED BY <2>1, <2>2, <3>1, <3>3, <3>6 DEF SwallowInv
  <2> QED BY <1>3, <2>4, <2>5, <2>6 DEF Process
<1>4. ASSUME NEW c \in Cams, NEW k \in Kinds, Occur(c, k) PROVE SwallowInv'
  <2>1. UNCHANGED <<handled, lastRing, rang>>
    BY <1>4 DEF Occur, poller, rings
  <2>2. \A f \in Occurred : log'[f] = log[f] /\ f \in Occurred' /\ (f \in Presses => f \in Presses')
    BY <1>1, <1>4 DEF Occur, Occurred, Presses
  <2>3. \A f \in Presses, g \in Occurred : Excuses(f, g) => Excuses(f, g)'
    BY <1>1, <2>1, <2>2 DEF Excuses
  <2>4. LastInv'
    <3> SUFFICES ASSUME NEW d \in Cams, lastRing[d] # Nil
                 PROVE  \E f \in Presses' : /\ rang[f] > 0 /\ log'[f].cam = d
                                            /\ lastRing[d] <= log'[f].ts + LiveDelay
      BY <2>1 DEF LastInv
    <3>1. PICK f \in Presses : /\ rang[f] > 0 /\ log[f].cam = d
                               /\ lastRing[d] <= log[f].ts + LiveDelay
      BY DEF SwallowInv, LastInv
    <3> QED BY <1>1, <2>2, <3>1
  <2>5. OnlyExcused'
    <3> SUFFICES ASSUME NEW g \in Events, handled[g] > 0, log'[g].kind = "press", rang[g] = 0
                 PROVE  LiveRing /\ \E f \in Presses' : Excuses(f, g)'
      BY <2>1 DEF OnlyExcused
    <3>1. g \in Occurred /\ log'[g] = log[g]
      BY <2>2 DEF SwallowInv
    <3>2. LiveRing /\ \E f \in Presses : Excuses(f, g)
      BY <3>1 DEF SwallowInv, OnlyExcused
    <3> QED BY <1>1, <2>2, <2>3, <3>1, <3>2
  <2> QED BY <2>1, <2>2, <2>4, <2>5 DEF SwallowInv
<1>5. CASE \/ Poll \/ UNCHANGED vars \/ Pass
           \/ \E e \in Events : List(e) \/ CloseRecording(e)
           \/ \E c \in Cams : Drop(c)
  <2>1. UNCHANGED <<log, handled, lastRing, rang>>
    BY <1>5 DEF Poll, List, CloseRecording, Drop, Pass, vars, world, poller, rings
  <2> QED BY <2>1 DEF SwallowInv, LastInv, OnlyExcused, Excuses, Presses, Occurred
<1> QED
  BY <1>2, <1>3, <1>4, <1>5 DEF Next, World

(* config.go:152-157: "a second legitimate press" is not swallowed, with the
   exception the README names (known divergences): a press that the poller
   delivered without a ring shares its camera with a press that rang less than
   the window, and the delay of the live channel, before it, or after it.
   Without live rings none is swallowed.  The delay counts because the deduper
   may remember the time of receipt (ringwatcher.go:97-100, 147-157).      *)
THEOREM OnlyCloseOrLate == Spec => []OnlyExcused
<1>1. Init => SwallowInv
  BY DEF Init, SwallowInv, LastInv, OnlyExcused
<1>2. SwallowInv => OnlyExcused
  BY DEF SwallowInv
<1> QED
  BY <1>1, <1>2, SwallowKept, Invariance, PTL DEF Spec

-----------------------------------------------------------------------------
(* The client. *)

\* Everyone inside a call waits for one request at a time, and a bridge that is
\* down has no callers.
WaitInv ==
  /\ \A c \in Callers : pc[c] # "idle" => since[c] <= clock /\ clock <= since[c] + Patience
  /\ ~up => \A c \in Callers : pc[c] = "idle"

\* A token, wherever it is kept, was stamped no later than now, and at most two
\* requests after the cloud issued it.
Honest(a) ==
  a \in Auths => /\ a.expires <= clock + Claim
                 /\ a.expires <= a.access + Claim + 2 * Patience

\* ... so is every token in memory, in the document being saved and in the file.
StampedInv == Honest(auth) /\ Honest(state) /\ Honest(doc) /\ Honest(disk) /\ doc # Same

\* Who is about to stamp a token, or to use one, holds one issued not long
\* before it began to wait, whoever wrote it.
HeldInv ==
  \A c \in Callers : auth # None =>
    /\ pc[c] = "stamp" => since[c] <= auth.access + Patience
    /\ pc[c] \in {"recover", "ready"} => since[c] + Patience < auth.access + Life

ClientInv == AuthTypeOK /\ WaitInv /\ StampedInv /\ HeldInv

USE AuthAssumption DEF AuthAssumption

LEMMA ClientInitially ==
  AuthInit => ClientInv
<1> SUFFICES ASSUME AuthInit PROVE ClientInv
  OBVIOUS
<1>1. AuthTypeOK
  BY DEF AuthInit, AuthTypeOK, Labels
<1>2. WaitInv
  BY DEF AuthInit, WaitInv
<1>3. StampedInv
  BY DEF AuthInit, StampedInv, Honest
<1>4. HeldInv
  BY DEF AuthInit, HeldInv
<1> QED BY <1>1, <1>2, <1>3, <1>4 DEF ClientInv

\* A caller inside a call goes on without a request, makes one, or returns.
LEMMA Moves ==
  ASSUME ClientInv, NEW c \in Callers,
         NEW l \in Labels \ {"idle"}, GoTo(c, l)
  PROVE  /\ pc' \in [Callers -> Labels] /\ since' \in [Callers -> Nat]
         /\ WaitInv'
         /\ since' = since /\ pc'[c] = l
         /\ \A x \in Callers \ {c} : pc'[x] = pc[x]
BY DEF ClientInv, AuthTypeOK, WaitInv, GoTo, Labels

LEMMA Asks ==
  ASSUME ClientInv, NEW c \in Callers,
         NEW l \in Labels \ {"idle"}, Ask(c, l), pc[c] # "idle"
  PROVE  /\ pc' \in [Callers -> Labels] /\ since' \in [Callers -> Nat]
         /\ WaitInv'
         /\ pc'[c] = l
         /\ \A x \in Callers \ {c} : pc'[x] = pc[x] /\ since'[x] = since[x]
BY DEF ClientInv, AuthTypeOK, WaitInv, Ask, Labels

LEMMA Returns ==
  ASSUME ClientInv, NEW c \in Callers, pc[c] # "idle",
         pc' = [pc EXCEPT ![c] = "idle"], since' = [since EXCEPT ![c] = 0],
         UNCHANGED <<clock, up>>
  PROVE  /\ pc' \in [Callers -> Labels] /\ since' \in [Callers -> Nat]
         /\ WaitInv'
         /\ pc'[c] = "idle"
         /\ \A x \in Callers \ {c} : pc'[x] = pc[x] /\ since'[x] = since[x]
BY DEF ClientInv, AuthTypeOK, WaitInv, Labels

\* A step that leaves every token alone.
LEMMA TokensKept ==
  ASSUME StampedInv, clock' = clock, UNCHANGED <<auth, state, doc, disk>>
  PROVE  StampedInv'
BY DEF StampedInv, Honest

\* A new object, or none, takes the place of the one c.auth points to.
LEMMA Repointed ==
  ASSUME AuthTypeOK, StampedInv, clock' = clock,
         NEW a \in Auths \cup {None}, Repoint(a), Honest(a)
  PROVE  /\ StampedInv'
         /\ auth' = a
         /\ state' \in Auths \cup {None, Same} /\ doc' \in Auths \cup {None, Same}
BY DEF AuthTypeOK, StampedInv, Honest, Repoint, Content

\* However the process ends, with the file as it was or saved once more.
LEMMA GoesDown ==
  ASSUME ClientInv, Down, upsets' \in Nat, disk' \in {disk, auth}
  PROVE  ClientInv'
<1>1. /\ auth' = None /\ state' = None /\ doc' = None /\ early' = None /\ clock' = clock
      /\ issue' = FALSE /\ up' = FALSE /\ pending' = 0 /\ saver' = "idle"
      /\ pc' = [c \in Callers |-> "idle"] /\ since' = [c \in Callers |-> 0]
  BY DEF Down
<1>2. AuthTypeOK'
  BY <1>1 DEF ClientInv, AuthTypeOK, Labels
<1>3. WaitInv' /\ HeldInv'
  BY <1>1 DEF WaitInv, HeldInv
<1>4. StampedInv'
  BY <1>1 DEF ClientInv, StampedInv, Honest
<1> QED BY <1>2, <1>3, <1>4 DEF ClientInv

\* EnsureAuth and the call proper.
LEMMA CallKeeps ==
  ASSUME ClientInv, NEW c \in Callers, CallerStep(c)
  PROVE  ClientInv'
<1> USE DEF ClientInv
<1>1. CASE Call(c)
  <2>1. AuthTypeOK' BY <1>1 DEF Call, AuthTypeOK, Labels, file
  <2>2. WaitInv' BY <1>1 DEF Call, WaitInv, AuthTypeOK
  <2>3. StampedInv' BY <1>1, TokensKept DEF Call, file
  <2>4. HeldInv' BY <1>1 DEF Call, HeldInv, AuthTypeOK, file
  <2> QED BY <2>1, <2>2, <2>3, <2>4
<1>2. CASE Expiry(c)
  <2>1. /\ pc[c] = "expiry" /\ auth # None
        /\ UNCHANGED <<auth, issue, file, clock, up, upsets>>
    BY <1>2 DEF Expiry, GoTo
  <2>2. PICK l \in {"refresh", "ready"} :
           GoTo(c, l) /\ (l = "ready" => ~NeedsRefresh)
    BY <1>2 DEF Expiry
  <2>3. /\ AuthTypeOK' /\ WaitInv' /\ since' = since /\ pc'[c] = l
        /\ \A x \in Callers \ {c} : pc'[x] = pc[x]
    BY <2>1, <2>2, Moves DEF AuthTypeOK, Labels, file
  <2>4. l = "ready" => since[c] + Patience < auth.access + Life
    <3>1. SUFFICES ASSUME l = "ready" PROVE since[c] + Patience < auth.access + Life
      OBVIOUS
    <3>2. /\ auth \in Auths /\ auth.access \in Nat /\ auth.expires \in Nat
          /\ since[c] \in Nat /\ clock \in Nat
      BY <2>1 DEF AuthTypeOK, Auths
    <3>3. clock <= auth.expires - Margin
      BY <2>2, <3>1, <3>2 DEF NeedsRefresh
    <3>4. auth.expires <= auth.access + Claim + 2 * Patience
      BY <3>2 DEF StampedInv, Honest
    <3>5. since[c] <= clock
      BY <2>1 DEF WaitInv
    <3> QED BY <3>2, <3>3, <3>4, <3>5
  <2>5. HeldInv'
    BY <2>1, <2>2, <2>3, <2>4 DEF HeldInv
  <2> QED BY <2>1, <2>3, <2>5, TokensKept DEF file
<1>3. CASE Refresh(c)
  <2>1. pc[c] = "refresh" /\ Ask(c, "refreshing") /\ UNCHANGED <<auth, file, clock>>
    BY <1>3 DEF Refresh, Ask
  <2>2. /\ AuthTypeOK' /\ WaitInv' /\ pc'[c] = "refreshing"
        /\ \A x \in Callers \ {c} : pc'[x] = pc[x] /\ since'[x] = since[x]
    BY <2>1, Asks DEF AuthTypeOK, Labels, file, Ask
  <2>3. HeldInv'
    BY <2>1, <2>2 DEF HeldInv
  <2> QED BY <2>1, <2>2, <2>3, TokensKept DEF file
<1>4. CASE RefreshFails(c)
  <2>1. pc[c] # "idle" /\ Ask(c, "login") /\ Repoint(None) /\ clock' = clock
    BY <1>4 DEF RefreshFails, Ask
  <2>2. Honest(None) BY DEF Honest
  <2>3. /\ StampedInv' /\ auth' = None
        /\ state' \in Auths \cup {None, Same} /\ doc' \in Auths \cup {None, Same}
    BY <2>1, <2>2, Repointed
  <2>4. AuthTypeOK' /\ WaitInv'
    BY <2>1, <2>3, Asks DEF AuthTypeOK, Labels, Ask, Repoint
  <2> QED BY <2>3, <2>4 DEF HeldInv
<1>5. CASE RefreshOk(c)
  <2>1. PICK t \in IssueTimes(c) : auth' = [auth EXCEPT !.access = t]
    BY <1>5 DEF RefreshOk
  <2>2. /\ pc[c] = "refreshing" /\ auth \in Auths /\ GoTo(c, "stamp")
        /\ UNCHANGED <<issue, file, clock, up, upsets>>
    BY <1>5 DEF RefreshOk, GoTo, AuthTypeOK
  <2>3. /\ t \in Nat /\ since[c] \in Nat /\ clock \in Nat
        /\ since[c] <= t /\ t <= clock /\ clock <= since[c] + Patience
    BY <2>2 DEF IssueTimes, AuthTypeOK, WaitInv
  <2>4. auth' \in Auths /\ auth'.access = t /\ auth'.expires = auth.expires
    BY <2>1, <2>2, <2>3 DEF Auths
  <2>5. /\ AuthTypeOK' /\ WaitInv' /\ since' = since /\ pc'[c] = "stamp"
        /\ \A x \in Callers \ {c} : pc'[x] = pc[x]
    BY <2>2, <2>4, Moves DEF AuthTypeOK, Labels, file
  <2>6. StampedInv'
    <3>1. auth.expires <= clock + Claim /\ auth.expires \in Nat
      BY <2>2 DEF StampedInv, Honest, Auths
    <3>2. Honest(auth)'
      BY <2>2, <2>3, <2>4, <3>1 DEF Honest
    <3> QED BY <2>2, <3>2 DEF StampedInv, Honest, file
  <2>7. ASSUME NEW x \in Callers
        PROVE  /\ pc'[x] = "stamp" => since'[x] <= t + Patience
               /\ pc'[x] \in {"recover", "ready"} => since'[x] + Patience < t + Life
    <3>1. since[x] \in Nat /\ (pc[x] # "idle" => since[x] <= clock)
      BY DEF AuthTypeOK, WaitInv
    <3>2. CASE x = c BY <2>3, <2>5, <3>2
    <3>3. CASE x # c BY <2>3, <2>5, <3>1, <3>3
    <3> QED BY <3>2, <3>3
  <2> QED BY <2>4, <2>5, <2>6, <2>7 DEF HeldInv
<1>6. CASE Stamp(c)
  <2>1. /\ pc[c] = "stamp" /\ auth \in Auths /\ auth # None /\ GoTo(c, "recover")
        /\ auth' = [auth EXCEPT !.expires = clock + Claim]
        /\ UNCHANGED <<issue, file, clock, up, upsets>>
    BY <1>6 DEF Stamp, GoTo, AuthTypeOK
  <2>2. /\ since[c] \in Nat /\ clock \in Nat /\ clock <= since[c] + Patience
        /\ since[c] <= auth.access + Patience /\ auth.access \in Nat
    BY <2>1 DEF AuthTypeOK, WaitInv, HeldInv, Auths
  <2>3. auth' \in Auths /\ auth'.access = auth.access /\ auth'.expires = clock + Claim
    BY <2>1, <2>2 DEF Auths
  <2>4. /\ AuthTypeOK' /\ WaitInv' /\ since' = since /\ pc'[c] = "recover"
        /\ \A x \in Callers \ {c} : pc'[x] = pc[x]
    BY <2>1, <2>3, Moves DEF AuthTypeOK, Labels, file
  <2>5. StampedInv'
    <3>1. Honest(auth)'
      BY <2>1, <2>2, <2>3 DEF Honest
    <3> QED BY <2>1, <3>1 DEF StampedInv, Honest, file
  <2>6. since[c] + Patience < auth.access + Life
    BY <2>2
  <2>7. HeldInv'
    BY <2>1, <2>3, <2>4, <2>6 DEF HeldInv
  <2> QED BY <2>4, <2>5, <2>7
<1>7. CASE MfaAsked(c)
  <2>1. pc[c] = "login" /\ Ask(c, "totp") /\ UNCHANGED <<auth, file, clock>>
    BY <1>7 DEF MfaAsked, Ask
  <2>2. /\ AuthTypeOK' /\ WaitInv' /\ pc'[c] = "totp"
        /\ \A x \in Callers \ {c} : pc'[x] = pc[x] /\ since'[x] = since[x]
    BY <2>1, Asks DEF AuthTypeOK, Labels, file, Ask
  <2>3. HeldInv'
    BY <2>1, <2>2 DEF HeldInv
  <2> QED BY <2>1, <2>2, <2>3, TokensKept DEF file
<1>8. CASE LoginOk(c)
  <2>1. PICK t \in IssueTimes(c) :
           Repoint([access |-> t, expires |-> clock + Claim])
    BY <1>8 DEF LoginOk
  <2> DEFINE a == [access |-> t, expires |-> clock + Claim]
  <2>2. /\ pc[c] \in {"login", "totp"}
        /\ GoTo(c, "recover") /\ UNCHANGED <<issue, clock, up, upsets>>
    BY <1>8 DEF LoginOk, GoTo
  <2>3. /\ t \in Nat /\ since[c] \in Nat /\ clock \in Nat
        /\ since[c] <= t /\ t <= clock /\ clock <= since[c] + Patience
    BY <2>2 DEF IssueTimes, AuthTypeOK, WaitInv
  <2>4. a \in Auths /\ Honest(a)
    BY <2>3 DEF Auths, Honest
  <2>5. /\ StampedInv' /\ auth' = a
        /\ state' \in Auths \cup {None, Same} /\ doc' \in Auths \cup {None, Same}
    BY <2>1, <2>2, <2>4, Repointed
  <2>6. /\ AuthTypeOK' /\ WaitInv' /\ since' = since /\ pc'[c] = "recover"
        /\ \A x \in Callers \ {c} : pc'[x] = pc[x]
    BY <2>1, <2>2, <2>4, <2>5, Moves DEF AuthTypeOK, Labels, Repoint
  <2>7. ASSUME NEW x \in Callers
        PROVE  /\ pc'[x] = "stamp" => since'[x] <= t + Patience
               /\ pc'[x] \in {"recover", "ready"} => since'[x] + Patience < t + Life
    <3>1. since[x] \in Nat /\ (pc[x] # "idle" => since[x] <= clock)
      BY DEF AuthTypeOK, WaitInv
    <3>2. CASE x = c BY <2>3, <2>6, <3>2
    <3>3. CASE x # c BY <2>3, <2>6, <3>1, <3>3
    <3> QED BY <3>2, <3>3
  <2> QED BY <2>5, <2>6, <2>7 DEF HeldInv
<1>9. CASE LoginFails(c)
  <2>1. /\ pc[c] # "idle" /\ GoTo(c, "alarm")
        /\ UNCHANGED <<auth, issue, file, clock, up, upsets>>
    BY <1>9 DEF LoginFails, GoTo
  <2>2. /\ AuthTypeOK' /\ WaitInv' /\ since' = since /\ pc'[c] = "alarm"
        /\ \A x \in Callers \ {c} : pc'[x] = pc[x]
    BY <2>1, Moves DEF AuthTypeOK, Labels, file
  <2>3. HeldInv'
    BY <2>1, <2>2 DEF HeldInv
  <2> QED BY <2>1, <2>2, <2>3, TokensKept DEF file
<1>10. CASE Recover(c)
  <2>1. /\ pc[c] = "recover" /\ GoTo(c, "ready") /\ issue' = FALSE
        /\ UNCHANGED <<auth, file, clock, up, upsets>>
    BY <1>10 DEF Recover, GoTo
  <2>2. /\ AuthTypeOK' /\ WaitInv' /\ since' = since /\ pc'[c] = "ready"
        /\ \A x \in Callers \ {c} : pc'[x] = pc[x]
    BY <2>1, Moves DEF AuthTypeOK, Labels, file
  <2>3. HeldInv'
    BY <2>1, <2>2 DEF HeldInv
  <2> QED BY <2>1, <2>2, <2>3, TokensKept DEF file
<1>11. ASSUME \/ Alarm(c) \/ Request(c)
              \/ GoTo(c, "idle") /\ UNCHANGED <<auth, issue, file>>
       PROVE  ClientInv'
  <2>1. /\ pc[c] # "idle" /\ pc' = [pc EXCEPT ![c] = "idle"]
        /\ since' = [since EXCEPT ![c] = 0]
        /\ issue' \in BOOLEAN /\ UNCHANGED <<auth, file, clock, up, upsets>>
    BY <1>11 DEF Alarm, Request, GoTo, AuthTypeOK
  <2>2. /\ AuthTypeOK' /\ WaitInv' /\ pc'[c] = "idle"
        /\ \A x \in Callers \ {c} : pc'[x] = pc[x] /\ since'[x] = since[x]
    BY <2>1, Returns DEF AuthTypeOK, file
  <2>3. HeldInv'
    BY <2>1, <2>2 DEF HeldInv
  <2> QED BY <2>1, <2>2, <2>3, TokensKept DEF file
<1>12. CASE Panic(c) /\ Down
  <2>1. Down /\ UNCHANGED <<disk, upsets>>
    BY <1>12 DEF Panic, Down, GoTo, AuthTypeOK
  <2> QED BY <2>1, GoesDown DEF AuthTypeOK
<1> QED
  BY <1>1, <1>2, <1>3, <1>4, <1>5, <1>6, <1>7, <1>8, <1>9, <1>10, <1>11, <1>12
  DEF CallerStep, EnsureAuth, Panic

\* The state file, the process and the clock.
LEMMA ClientStepKeeps ==
  ClientInv /\ [AuthNext]_authVars => ClientInv'
<1> SUFFICES ASSUME ClientInv, [AuthNext]_authVars PROVE ClientInv'
  OBVIOUS
<1> USE DEF ClientInv
<1>1. ASSUME NEW c \in Callers, CallerStep(c) PROVE ClientInv'
  BY <1>1, CallKeeps
<1>2. CASE Note
  BY <1>2
  DEF Note, Upset, AuthTypeOK, WaitInv, StampedInv, Honest, HeldInv, calls
<1>3. CASE EncodeWhole
  BY <1>3 DEF EncodeWhole, Content, AuthTypeOK, WaitInv, StampedInv, Honest,
     HeldInv, calls
<1>4. CASE Rename
  BY <1>4 DEF Rename, AuthTypeOK, WaitInv, StampedInv, Honest, HeldInv, calls
<1>5. CASE Die
  BY <1>5, GoesDown DEF Die, Upset, AuthTypeOK
<1>6. CASE Shutdown
  BY <1>6, GoesDown DEF Shutdown, Upset, AuthTypeOK
<1>7. CASE Boot
  BY <1>7 DEF Boot, AuthTypeOK, WaitInv, StampedInv, Honest, HeldInv, calls
<1>8. CASE ClockTick
  <2>1. /\ clock \in Nat /\ clock' = clock + 1
        /\ UNCHANGED <<auth, pc, since, issue, file, up, upsets>>
    BY <1>8 DEF ClockTick, AuthTypeOK, calls
  <2>2. AuthTypeOK'
    BY <2>1 DEF AuthTypeOK, file
  <2>3. WaitInv'
    <3>1. ASSUME NEW c \in Callers, pc[c] # "idle"
          PROVE  since[c] <= clock + 1 /\ clock + 1 <= since[c] + Patience
      <4>1. clock < since[c] + Patience /\ since[c] <= clock /\ since[c] \in Nat
        BY <1>8, <3>1 DEF ClockTick, WaitInv, AuthTypeOK
      <4> QED BY <2>1, <4>1
    <3> QED BY <2>1, <3>1 DEF WaitInv
  <2>4. HeldInv'
    BY <2>1 DEF HeldInv
  <2>5. ASSUME NEW a, Honest(a), a \in Auths
        PROVE  /\ a.expires <= clock + 1 + Claim
               /\ a.expires <= a.access + Claim + 2 * Patience
    BY <2>1, <2>5 DEF Honest, Auths
  <2>6. StampedInv'
    BY <2>1, <2>5 DEF StampedInv, Honest, file
  <2> QED BY <2>2, <2>3, <2>4, <2>6
<1>9. CASE UNCHANGED authVars
  BY <1>9
  DEF authVars, calls, file, AuthTypeOK, WaitInv, StampedInv, Honest, HeldInv
<1> QED
  BY <1>1, <1>2, <1>3, <1>4, <1>5, <1>6, <1>7, <1>8, <1>9 DEF AuthNext, Save

LEMMA ClientInductive ==
  AuthSpec => []ClientInv
BY ClientInitially, ClientStepKeeps, PTL DEF AuthSpec

(* EnsureAuth lets no caller go on with a token the cloud has let expire, for any
   number of goroutines that refresh, drop or replace it in place meanwhile,
   and for a state file of any age, as long as a save encodes the token at one
   moment and the 23 hours the client trusts it, with three requests, fit into
   what the cloud allows (auth.go:258-293, state.go:53-85).                *)
THEOREM TokensAreLive ==
  AuthSpec => []TokenIsLive
<1>1. ClientInv => TokenIsLive
  <2>1. SUFFICES ASSUME ClientInv, NEW c \in Callers, pc[c] = "ready", auth # None
                 PROVE  clock < auth.access + Life
    BY DEF TokenIsLive
  <2>2. auth.access \in Nat /\ since[c] \in Nat /\ clock \in Nat
    BY <2>1 DEF ClientInv, AuthTypeOK, Auths
  <2>3. clock <= since[c] + Patience /\ since[c] + Patience < auth.access + Life
    BY <2>1 DEF ClientInv, WaitInv, HeldInv
  <2> QED BY <2>2, <2>3
<1> QED
  BY <1>1, ClientInductive, PTL

-----------------------------------------------------------------------------
(* The issue. *)

\* What a lock around the client would ensure.
OneAtATime == \A c, d \in Callers : pc[c] # "idle" /\ pc[d] # "idle" => c = d

\* Whoever logs in, or has failed to, has dropped the token; a token that comes
\* while the issue is open is one whose caller has yet to close it.
IssueInv ==
  /\ \A c \in Callers : pc[c] \in {"login", "totp", "alarm"} => auth = None
  /\ issue /\ auth # None => \E c \in Callers : pc[c] = "recover"
  /\ issue => up

LEMMA IssueByCaller ==
  ASSUME ClientInv, IssueInv, OneAtATime, NEW c \in Callers, CallerStep(c)
  PROVE  IssueInv'
<1>1. up /\ auth \in Auths \cup {None} /\ pc \in [Callers -> Labels]
  BY DEF ClientInv, WaitInv, AuthTypeOK, CallerStep, Call, EnsureAuth, Expiry, Refresh,
     RefreshFails, RefreshOk, Stamp, MfaAsked, LoginOk, LoginFails, Recover, Alarm,
     Request, Panic, GoTo
<1>2. ASSUME pc[c] # "idle" PROVE \A d \in Callers \ {c} : pc[d] = "idle"
  BY <1>2 DEF OneAtATime
<1>3. ASSUME pc[c] \notin {"idle", "recover"}, auth # None PROVE ~issue
  BY <1>1, <1>2, <1>3 DEF IssueInv
<1>4. CASE Call(c)
  BY <1>1, <1>4 DEF Call, IssueInv, Labels
<1>5. CASE Expiry(c)
  <2>1. PICK l \in {"refresh", "ready"} : GoTo(c, l)
    BY <1>5 DEF Expiry
  <2> QED
    BY <1>1, <1>2, <1>5, <1>3, <2>1 DEF Expiry, GoTo, IssueInv, Labels
<1>6. CASE Refresh(c)
  BY <1>1, <1>2, <1>3, <1>6 DEF Refresh, Ask, IssueInv, Labels
<1>7. CASE RefreshFails(c)
  BY <1>1, <1>2, <1>7 DEF RefreshFails, Repoint, Ask, IssueInv, Labels
<1>8. CASE RefreshOk(c) \/ Stamp(c)
  <2>1. /\ pc[c] \in {"refreshing", "stamp"} /\ auth # None /\ UNCHANGED <<issue, up>>
        /\ \E l \in {"stamp", "recover"} : pc' = [pc EXCEPT ![c] = l]
    BY <1>8 DEF RefreshOk, Stamp, GoTo
  <2>2. ~issue
    BY <1>3, <2>1
  <2> QED
    BY <1>1, <1>2, <2>1, <2>2 DEF IssueInv, Labels
<1>9. CASE MfaAsked(c)
  BY <1>1, <1>2, <1>9 DEF MfaAsked, Ask, IssueInv, Labels
<1>10. CASE LoginOk(c)
  BY <1>1, <1>2, <1>10 DEF LoginOk, Repoint, GoTo, IssueInv, Labels
<1>11. CASE LoginFails(c)
  BY <1>1, <1>2, <1>11 DEF LoginFails, GoTo, IssueInv, Labels
<1>12. CASE Recover(c)
  BY <1>1, <1>2, <1>12 DEF Recover, GoTo, IssueInv, Labels
<1>13. CASE Alarm(c)
  BY <1>1, <1>2, <1>13 DEF Alarm, GoTo, IssueInv, Labels
<1>14. CASE Request(c)
  BY <1>1, <1>2, <1>3, <1>14 DEF Request, GoTo, IssueInv, Labels
<1>15. CASE Panic(c)
  <2>1. CASE GoTo(c, "idle") /\ UNCHANGED <<auth, issue>>
    BY <1>1, <1>2, <1>15, <2>1 DEF Panic, GoTo, IssueInv, Labels
  <2>2. CASE Down
    BY <2>2 DEF Down, IssueInv
  <2> QED BY <1>15, <2>1, <2>2 DEF Panic
<1> QED
  BY <1>4, <1>5, <1>6, <1>7, <1>8, <1>9, <1>10, <1>11, <1>12, <1>13, <1>14, <1>15
  DEF CallerStep, EnsureAuth

LEMMA IssueKept ==
  ClientInv /\ IssueInv /\ OneAtATime /\ [AuthNext]_authVars => IssueInv'
<1> SUFFICES ASSUME ClientInv, IssueInv, OneAtATime, [AuthNext]_authVars
             PROVE  IssueInv'
  OBVIOUS
<1>1. ASSUME NEW c \in Callers, CallerStep(c) PROVE IssueInv'
  BY <1>1, IssueByCaller
<1>2. CASE Note \/ Save \/ ClockTick \/ UNCHANGED authVars
  BY <1>2
  DEF Note, Save, EncodeWhole, Rename, ClockTick, authVars, calls, file, IssueInv
<1>3. CASE Die \/ Shutdown
  BY <1>3 DEF Die, Shutdown, Down, IssueInv
<1>4. CASE Boot
  BY <1>4 DEF Boot, calls, IssueInv, ClientInv, WaitInv
<1> QED
  BY <1>1, <1>2, <1>3, <1>4 DEF AuthNext

(* "Cleared automatically when the next attempt succeeds" (README.md:489) is true
   of callers that take turns, for any number of them: the issue outlives a
   login (see the README, known divergences) only because one caller fails
   while another succeeds, and the client has no lock (auth.go:258-293).   *)
THEOREM TurnsCloseTheIssue == AuthSpec /\ []OneAtATime => []IssueMeansNoToken
<1>1. AuthInit => IssueInv
  BY DEF AuthInit, IssueInv
<1>2. IssueInv => IssueMeansNoToken
  BY DEF IssueInv, IssueMeansNoToken
<1> QED
  BY <1>1, <1>2, IssueKept, ClientInductive, PTL DEF AuthSpec
=============================================================================
