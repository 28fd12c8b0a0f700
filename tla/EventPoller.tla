---------------------------- MODULE EventPoller ----------------------------
(***************************************************************************)
(* internal/events, and the ring deduper of internal/go2rtcmgr: how motion *)
(* and doorbell presses reach the sinks.                                   *)
(*                                                                         *)
(* The poller goroutine asks the account for the events since lastTS and   *)
(* handles the answer one event at a time, newest first.  The goroutine    *)
(* that reads go2rtc's output announces presses heard on the live control  *)
(* channel.  Both go through the deduper when live rings are enabled.      *)
(* Times are milliseconds; the clock moves in steps of Tick, so that "one  *)
(* millisecond before an event" is a time of its own.                      *)
(***************************************************************************)
EXTENDS Integers, FiniteSets, Sequences

CONSTANTS
  Cams,          \* cameras, by MAC
  Nil,           \* no camera, no press yet
  LiveRing,      \* EVENTS_LIVE_RING: is there a deduper?
  RecentWindow,  \* EVENT_RECENT_WINDOW
  DedupeWindow,  \* EVENTS_LIVE_RING_DEDUPE_WINDOW
  Page,          \* events in one answer of the API (20)
  MaxSeen,       \* maxSeen (256)
  LiveDelay,     \* bound: a live ring is heard at most this much later
  ListDelay,     \* bound: the account lists an event at most this much later
  MaxEvents,     \* bound: events that ever occur
  MaxPresses,    \* bound: how many of them are presses
  MaxTime        \* bound: the clock stops here

Tick   == 2
Events == 1..MaxEvents
Kinds  == {"press", "motion"}

ASSUME PollerAssumption ==
  /\ Nil \notin Cams \cup Int
  /\ LiveRing \in BOOLEAN
  /\ RecentWindow \in Nat /\ DedupeWindow \in Nat /\ LiveDelay \in Nat /\ ListDelay \in Nat
  /\ LiveDelay < DedupeWindow
  /\ Page \in Nat /\ MaxSeen \in Nat \ {0} /\ 2 * Page <= MaxSeen + 1
  /\ MaxEvents \in Nat /\ MaxPresses \in Nat /\ MaxTime \in Nat

VARIABLES
  now,       \* the wall clock
  log,       \* what has happened: event -> camera, kind and event_ts
  open,      \* events whose recording is still open (end_time = 0)
  listed,    \* events the account's API returns
  heard,     \* presses the live channel has reported
  tracked,   \* MACs in the camera manager's registry
  lastTS,    \* Poller.lastTS
  seen,      \* Poller.seenBuf; Poller.seen is the set of its elements
  batch,     \* the rest of the answer being processed
  took,      \* the time processEvents was called with, 0 outside it
  lastRing,  \* RingDeduper.lastRingAt
  handled,   \* how often the poller gave an event to its sink
  rang       \* how often a press was announced

world  == <<now, log, open, listed, tracked>>
poller == <<lastTS, seen, batch, took, handled>>
rings  == <<lastRing, rang>>
vars   == <<world, heard, poller, rings>>

NoEvent == [cam |-> Nil, kind |-> "motion", ts |-> 0]
Occurred == {e \in Events : log[e].cam # Nil}
Presses  == {e \in Occurred : log[e].kind = "press"}

-----------------------------------------------------------------------------
(* The deduper.                                                            *)

ShouldDispatch(c, at) == lastRing[c] = Nil \/ at - lastRing[c] >= DedupeWindow

\* (mutant) The deduper is asked for nothing.
AnnounceUndeduped(e, at) ==
  LET c == log[e].cam IN
    /\ rang' = [rang EXCEPT ![e] = @ + 1]
    /\ lastRing' = [lastRing EXCEPT ![c] = at]

\* dispatchButtonPress
Announce(e, at) ==
  LET c == log[e].cam IN
    IF LiveRing /\ ~ShouldDispatch(c, at) THEN UNCHANGED rings
    ELSE /\ rang' = [rang EXCEPT ![e] = @ + 1]
         /\ lastRing' = IF LiveRing THEN [lastRing EXCEPT ![c] = at] ELSE lastRing

\* HandleLogLine and OnRing: the camera's own time, or that of the receipt.
LiveRingHeard(e) ==
  /\ LiveRing
  /\ e \in Presses \ heard
  /\ now - log[e].ts <= LiveDelay
  /\ heard' = heard \cup {e}
  /\ \E at \in {log[e].ts, now} : Announce(e, at)
  /\ UNCHANGED <<world, poller>>

-----------------------------------------------------------------------------
(* The poller.                                                             *)

\* (mutant) The first window is empty.
BeginNow == IF lastTS = 0 THEN now ELSE lastTS

Begin == IF lastTS = 0 THEN now - RecentWindow ELSE lastTS

\* What the API answers when more than a page of events falls into the window.
Newest(S) == {e \in S : Cardinality({f \in S : log[f].ts > log[e].ts}) < Page}

Wanted == {e \in listed : log[e].cam \in tracked /\ log[e].ts \in Begin..now}

\* poll: macs(), the window, and the answer, the newest first and no more than
\* a page.  Without cameras, and after an error, nothing changes.
Poll ==
  /\ batch = {}
  /\ batch' = {[id |-> e, open |-> e \in open] : e \in Newest(Wanted)}
  /\ took' = IF batch' = {} THEN 0 ELSE now
  /\ UNCHANGED <<world, heard, rings, lastTS, seen, handled>>

\* The window moves up to an event, but stops short of an open press.
Advance(r) ==
  LET ts == log[r.id].ts
      ms == IF r.open /\ log[r.id].kind = "press" THEN ts - 1 ELSE ts
  IN  IF ms > lastTS THEN ms ELSE lastTS

\* (mutant) A full buffer is emptied.
MarkSeenFlush(s, id) == IF Len(s) = MaxSeen THEN <<id>> ELSE Append(s, id)

MarkSeen(s, id) ==
  LET t == Append(s, id) IN IF Len(t) > MaxSeen THEN Tail(t) ELSE t

IsSeen(id) == \E i \in 1..Len(seen) : seen[i] = id

\* One event of processEvents: seen before, too old or of an unknown camera,
\* or dispatched.
Process(r) ==
  LET e == r.id  ev == log[r.id] IN
    /\ r \in batch
    /\ \A q \in batch : log[q.id].ts <= ev.ts
    /\ batch' = batch \ {r}
    /\ lastTS' = Advance(r)
    /\ seen' = IF IsSeen(e) THEN seen ELSE MarkSeen(seen, e)
    /\ IF IsSeen(e) \/ took - ev.ts > RecentWindow \/ ev.cam \notin tracked
       THEN UNCHANGED <<handled, rings>>
       ELSE /\ handled' = [handled EXCEPT ![e] = @ + 1]
            /\ \/ ev.kind = "press" /\ Announce(e, ev.ts)
               \/ ev.kind = "motion" /\ UNCHANGED rings
    /\ took' = IF batch' = {} THEN 0 ELSE took
    /\ UNCHANGED <<world, heard>>

-----------------------------------------------------------------------------
(* The cameras and the account.  No two events share a millisecond, and only
   for a press does it matter whether its recording is still open.  The account
   lists an event any time after it occurred.                              *)

Occur(c, k) ==
  /\ k = "press" => Cardinality(Presses) < MaxPresses
  /\ \A f \in Occurred : log[f].ts # now
  /\ \E e \in Events \ Occurred :
       /\ \A f \in Events : f < e => f \in Occurred
       /\ log' = [log EXCEPT ![e] = [cam |-> c, kind |-> k, ts |-> now]]
       /\ \/ open' = open
          \/ k = "press" /\ open' = open \cup {e}
  /\ UNCHANGED <<now, listed, tracked, heard, poller, rings>>

List(e) ==
  /\ e \in Occurred \ listed
  /\ now - log[e].ts <= ListDelay
  /\ listed' = listed \cup {e}
  /\ UNCHANGED <<now, log, open, tracked, heard, poller, rings>>

CloseRecording(e) ==
  /\ e \in open
  /\ open' = open \ {e}
  /\ UNCHANGED <<now, log, listed, tracked, heard, poller, rings>>

\* A MAC leaves the registry when Discover gives its entry to another device of
\* the same name; one the account no longer lists stays, offline.  It matters
\* while an answer is processed: between answers it only shortens the next one.
Drop(c) ==
  /\ c \in tracked /\ batch # {}
  /\ tracked' = tracked \ {c}
  /\ UNCHANGED <<now, log, open, listed, heard, poller, rings>>

Pass ==
  /\ now + Tick <= MaxTime
  /\ now' = now + Tick
  /\ UNCHANGED <<log, open, listed, tracked, heard, poller, rings>>

-----------------------------------------------------------------------------
Init ==
  /\ now = Tick
  /\ log = [e \in Events |-> NoEvent]
  /\ open = {} /\ listed = {} /\ heard = {}
  /\ tracked = Cams
  /\ lastTS = 0 /\ seen = <<>> /\ batch = {} /\ took = 0
  /\ lastRing = [c \in Cams |-> Nil]
  /\ handled = [e \in Events |-> 0]
  /\ rang = [e \in Events |-> 0]

World == \/ \E c \in Cams, k \in Kinds : Occur(c, k)
         \/ \E e \in Events : List(e) \/ CloseRecording(e)
         \/ \E c \in Cams : Drop(c)
         \/ Pass

Next == \/ Poll
        \/ \E r \in batch : Process(r)
        \/ \E e \in Events : LiveRingHeard(e)
        \/ World

Spec == Init /\ [][Next]_vars

\* The ticker keeps firing and calls of the API do not fail for ever.
FairSpec == Spec /\ WF_vars(Poll) /\ WF_vars(\E r \in batch : Process(r))

-----------------------------------------------------------------------------
TypeOK ==
  /\ now \in Nat /\ took \in Nat /\ lastTS \in Nat
  /\ log \in [Events -> [cam : Cams \cup {Nil}, kind : Kinds, ts : Nat]]
  /\ open \in SUBSET Events /\ listed \in SUBSET Events /\ heard \in SUBSET Events
  /\ tracked \in SUBSET Cams
  /\ seen \in Seq(Events) /\ Len(seen) <= MaxSeen
  /\ batch \in SUBSET [id : Events, open : BOOLEAN]
  /\ lastRing \in [Cams -> Nat \cup {Nil}]
  /\ handled \in [Events -> Nat]
  /\ rang \in [Events -> Nat]

(* The sinks get every event at most once, although the account returns it again
   with every poll while it is the newest, and the memory of ids is bounded. *)
OncePerEvent == \A e \in Events : handled[e] <= 1

(* With live rings, one press of the button is announced at most once: the live
   channel and the account may report it in either order, with other presses in
   between, and with times that differ by less than the dedupe window.     *)
OnePressOneRing == LiveRing => \A e \in Events : rang[e] <= 1

\* How many events the account still has to hand over, e and newer ones.
Backlog(e) == {f \in listed : log[f].ts >= log[e].ts}

Awaited(e) ==
  batch = {} /\ e \in listed /\ ~IsSeen(e) /\ log[e].cam \in tracked /\ log[e].ts >= lastTS

(* A new event that the account lists before the window has moved past it reaches
   its sink, unless its camera leaves the registry, it gets older than the
   recent window first, or a page of newer ones is listed before the poller
   asks.                                                                   *)
InWindowIsDelivered ==
  \A e \in Events :
    Awaited(e) ~> \/ handled[e] > 0
                  \/ log[e].cam \notin tracked
                  \/ now - log[e].ts > RecentWindow
                  \/ Cardinality(Backlog(e)) > Page

(* config.go:152-157: the dedupe window does not swallow a second legitimate
   press a few seconds later.  A press that was delivered without a ring has a
   press of the same camera near it that rang.                             *)
SwallowedOnlyWithinWindow ==
  \A e \in Events :
    handled[e] > 0 /\ log[e].kind = "press" /\ rang[e] = 0 =>
      \E f \in Events :
        /\ rang[f] > 0 /\ log[f].cam = log[e].cam
        /\ log[e].ts - log[f].ts \in (-DedupeWindow)..DedupeWindow
=============================================================================
