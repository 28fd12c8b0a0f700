------------------------------ MODULE Streams ------------------------------
(***************************************************************************)
(* go2rtc/internal/streams: one stream, its producers and its consumers.   *)
(*                                                                         *)
(* A consumer's goroutine calls AddConsumer and later RemoveConsumer; each *)
(* started producer has a worker goroutine, or the timer that will call    *)
(* reconnect again.  Producer.mu and Stream.mu are held over whole steps   *)
(* here, except where a goroutine waits or another one reads without the   *)
(* lock: stopProducers looks at the receivers of a producer whose worker   *)
(* may be moving tracks to a new connection.                               *)
(*                                                                         *)
(* A receiver is the pair of a connection and a media kind, so the list of *)
(* a producer's receivers gives a connection for each kind.  A receiver    *)
(* that left the list gets no packets and does not come back: the senders  *)
(* attached to it are forgotten.  Worker ids are only compared with the    *)
(* current one, so a worker is current or it is not; the connection of one *)
(* that is not has been stopped.                                           *)
(***************************************************************************)
EXTENDS Integers, Sequences, FiniteSets

CONSTANTS
  Consumers,
  NProducers,  \* length of Stream.producers
  Kinds,       \* of media
  Wants,       \* the medias of a consumer, in order
  Offers,      \* what each producer has
  MatchAll,    \* consumers that take a media from every producer (probe)
  Conns,       \* bound: connections
  Slots,       \* bound: goroutines of workers
  Nil

Producers == 1 .. NProducers

ASSUME StreamsAssumption ==
  /\ NProducers \in Nat \ {0}
  /\ Wants \in Seq(Kinds) /\ Len(Wants) > 0
  /\ Offers \in [Producers -> SUBSET Kinds]
  /\ MatchAll \subseteq Consumers
  /\ Nil \notin Conns

VARIABLES
  state,      \* Producer.state
  conn,       \* Producer.conn
  receivers,  \* Producer.receivers: kind -> connection or Nil
  open,       \* connections that were made and not stopped
  worker,     \* goroutines of worker and reconnect, and reconnect's timers
  feeds,      \* consumer -> the listed receivers its senders are attached to
  pc,         \* where the goroutine of a consumer is
  at,         \* AddConsumer: media and producer looked at
  track,      \* AddConsumer: the receiver it got, Nil once that is delisted
  errs,       \* AddConsumer: prodErrors
  starts,     \* AddConsumer: prodStarts
  sweep       \* stopProducers: the producer looked at

producer == <<state, conn, receivers>>
adding   == <<at, track, errs, starts>>
vars == <<producer, open, worker, feeds, pc, adding, sweep>>

Free == [at |-> "free", current |-> FALSE]
Work(p) == [at |-> "run", prod |-> p, new |-> Nil, found |-> {}, current |-> TRUE]
Moved(w, a) ==
  [at |-> a, prod |-> worker[w].prod, new |-> worker[w].new, found |-> worker[w].found,
   current |-> worker[w].current]

Kind(c)  == Wants[at[c][1]]
Prod(c)  == at[c][2]
NoReceivers == [k \in Kinds |-> Nil]

\* reconnect is moving the tracks of p with Producer.mu held.
Reconnecting(p) == \E w \in Slots : worker[w].at \in {"move", "assign"} /\ worker[w].prod = p

\* Stream.mu is held by stopProducers of a consumer.
Sweeping == \E c \in Consumers : pc[c] \in {"check", "stop"}

\* A connection no part of the program refers to.
Fresh(x) ==
  /\ x \notin open
  /\ \A p \in Producers : conn[p] # x /\ \A k \in Kinds : receivers[p][k] # x
  /\ \A c \in Consumers : track[c] # x /\ \A k \in Kinds : <<x, k>> \notin feeds[c]
  /\ \A w \in Slots : worker[w].at # "free" => worker[w].new # x
NewConn == CHOOSE x \in Conns : Fresh(x)
HasNewConn == \E x \in Conns : Fresh(x)
NewSlot == CHOOSE w \in Slots : worker[w] = Free
HasSlot == \E w \in Slots : worker[w] = Free

\* Receivers that leave their producer's list.
Delist(R) ==
  /\ feeds' = [c \in Consumers |-> feeds[c] \ R]
  /\ track' = [c \in Consumers |-> IF <<track[c], Kind(c)>> \in R THEN Nil ELSE track[c]]

\* The pending counter.
Adding == {c \in Consumers : pc[c] \in {"dial", "medias", "track", "bind", "done"}}

-----------------------------------------------------------------------------
(* AddConsumer.                                                            *)

Add(c) ==
  /\ pc[c] = "out"
  /\ pc' = [pc EXCEPT ![c] = "dial"]
  /\ UNCHANGED <<producer, open, worker, feeds, adding, sweep>>

\* The loops over medias and producers go on, after "broken" with the next media;
\* producers that have failed this consumer are skipped.
Advance(c, broken, failed) ==
  LET i == at[c][1]
      later == {q \in (1 .. Len(Wants)) \X (Producers \ failed) :
                  q[1] > i \/ (~broken /\ q[1] = i /\ q[2] > Prod(c))}
      First(q) == \A r \in later : q[1] < r[1] \/ (q[1] = r[1] /\ q[2] <= r[2])
  IN  \/ /\ later = {}
         /\ pc' = [pc EXCEPT ![c] = "done"]
         /\ at' = [at EXCEPT ![c] = <<1, 1>>]
         /\ errs' = [errs EXCEPT ![c] = {}]
      \/ \E q \in later :
           /\ First(q)
           /\ pc' = [pc EXCEPT ![c] = "dial"]
           /\ at' = [at EXCEPT ![c] = q]
           /\ errs' = [errs EXCEPT ![c] = failed]

\* Producer.Dial.  In any state but None there is nothing to do.
Dial(c) ==
  LET p == Prod(c) IN
  /\ pc[c] = "dial"
  /\ ~Reconnecting(p)
  /\ \/ /\ state[p] # "none"
        /\ pc' = [pc EXCEPT ![c] = "medias"]
        /\ UNCHANGED <<producer, open, at, errs>>
     \/ /\ state[p] = "none"
        /\ HasNewConn
        /\ conn' = [conn EXCEPT ![p] = NewConn]
        /\ open' = open \cup {NewConn}
        /\ state' = [state EXCEPT ![p] = "medias"]
        /\ pc' = [pc EXCEPT ![c] = "medias"]
        /\ UNCHANGED <<receivers, at, errs>>
     \/ /\ state[p] = "none"
        /\ Advance(c, FALSE, errs[c] \cup {p})
        /\ UNCHANGED <<producer, open>>
  /\ UNCHANGED <<worker, feeds, track, starts, sweep>>

\* GetMedias, none without a connection, and MatchMedia.
Match(c) ==
  LET p == Prod(c) IN
  /\ pc[c] = "medias"
  /\ ~Reconnecting(p)
  /\ IF conn[p] # Nil /\ Kind(c) \in Offers[p]
     THEN pc' = [pc EXCEPT ![c] = "track"] /\ UNCHANGED <<at, errs>>
     ELSE Advance(c, FALSE, errs[c])
  /\ UNCHANGED <<producer, open, worker, feeds, track, starts, sweep>>

\* Producer.GetTrack: refused in state None, else the receiver there is or a new one.
GetTrack(c) ==
  LET p == Prod(c)
      k == Kind(c)
      x == IF receivers[p][k] # Nil THEN receivers[p][k] ELSE conn[p]
  IN
  /\ pc[c] = "track"
  /\ ~Reconnecting(p)
  /\ IF state[p] = "none"
     THEN /\ Advance(c, FALSE, errs[c] \cup {p})
          /\ UNCHANGED <<producer, track>>
     ELSE /\ receivers' = [receivers EXCEPT ![p][k] = x]
          /\ state' = [state EXCEPT ![p] = IF @ = "medias" THEN "tracks" ELSE @]
          /\ track' = [track EXCEPT ![c] = x]
          /\ pc' = [pc EXCEPT ![c] = "bind"]
          /\ UNCHANGED <<conn, at, errs>>
  /\ UNCHANGED <<open, worker, feeds, starts, sweep>>

\* The consumer's AddTrack attaches a sender to the receiver, or fails.
Bind(c) ==
  /\ pc[c] = "bind"
  /\ \/ /\ feeds' = [feeds EXCEPT ![c] = @ \cup ({<<track[c], Kind(c)>>} \ {<<Nil, Kind(c)>>})]
        /\ starts' = [starts EXCEPT ![c] = @ \cup {Prod(c)}]
        /\ Advance(c, c \notin MatchAll, errs[c])
     \/ /\ Advance(c, FALSE, errs[c])
        /\ UNCHANGED <<feeds, starts>>
  /\ track' = [track EXCEPT ![c] = Nil]
  /\ UNCHANGED <<producer, open, worker, sweep>>

\* (mutant) The error of a consumer that matched nothing is returned first.
DoneIfMatched(c) ==
  /\ pc[c] = "done"
  /\ pc' = [pc EXCEPT ![c] = IF Adding = {c} /\ starts[c] # {} THEN "load" ELSE "added"]
  /\ UNCHANGED <<producer, open, worker, feeds, adding, sweep>>

\* pending.Add(-1), and stopProducers up to its own look at pending.
Done(c) ==
  /\ pc[c] = "done"
  /\ pc' = [pc EXCEPT ![c] = IF Adding = {c} THEN "load" ELSE "added"]
  /\ UNCHANGED <<producer, open, worker, feeds, adding, sweep>>

\* Stream.consumers; AddConsumer has failed when nothing was matched.
Admit(c) ==
  /\ pc[c] = "added"
  /\ starts[c] # {} => ~Sweeping
  /\ pc' = [pc EXCEPT ![c] = IF starts[c] = {} THEN "out" ELSE "start"]
  /\ UNCHANGED <<producer, open, worker, feeds, adding, sweep>>

\* (mutant) A producer that runs is started again.
StartAgain(c) ==
  /\ pc[c] = "start"
  /\ \E p \in starts[c] :
       /\ ~Reconnecting(p)
       /\ starts' = [starts EXCEPT ![c] = @ \ {p}]
       /\ pc' = [pc EXCEPT ![c] = IF starts[c] = {p} THEN "in" ELSE @]
       /\ \/ state[p] = "none" /\ UNCHANGED <<state, worker>>
          \/ /\ state[p] # "none"
             /\ state' = [state EXCEPT ![p] = "start"]
             /\ HasSlot
             /\ worker' = [worker EXCEPT ![NewSlot] = Work(p)]
  /\ UNCHANGED <<conn, receivers, open, feeds, at, track, errs, sweep>>

\* Producer.start: only in state Tracks.
Start(c) ==
  /\ pc[c] = "start"
  /\ \E p \in starts[c] :
       /\ ~Reconnecting(p)
       /\ starts' = [starts EXCEPT ![c] = @ \ {p}]
       /\ pc' = [pc EXCEPT ![c] = IF starts[c] = {p} THEN "in" ELSE @]
       /\ \/ state[p] # "tracks" /\ UNCHANGED <<state, worker>>
          \/ /\ state[p] = "tracks"
             /\ state' = [state EXCEPT ![p] = "start"]
             /\ HasSlot
             /\ worker' = [worker EXCEPT ![NewSlot] = Work(p)]
  /\ UNCHANGED <<conn, receivers, open, feeds, at, track, errs, sweep>>

-----------------------------------------------------------------------------
(* RemoveConsumer: the consumer's Stop detaches its senders.               *)

Remove(c) ==
  /\ pc[c] = "in"
  /\ feeds' = [feeds EXCEPT ![c] = {}]
  /\ pc' = [pc EXCEPT ![c] = "remove"]
  /\ UNCHANGED <<producer, open, worker, adding, sweep>>

(* stopProducers.  An AddConsumer with something to start goes on after it; one
   that matched nothing fails, and RemoveConsumer returns.                 *)
Return(c) == IF starts[c] = {} THEN "out" ELSE "added"

\* RemoveConsumer has had Stream.mu before, to take the consumer off the list.
LoadPending(c) ==
  /\ pc[c] \in {"load", "remove"}
  /\ pc[c] = "remove" => ~Sweeping
  /\ IF Adding # {}
     THEN pc' = [pc EXCEPT ![c] = Return(c)]
     ELSE ~Sweeping /\ pc' = [pc EXCEPT ![c] = "check"]
  /\ UNCHANGED <<producer, open, worker, feeds, adding, sweep>>

NextProducer(c) ==
  IF sweep[c] < NProducers
  THEN /\ pc' = [pc EXCEPT ![c] = "check"]
       /\ sweep' = [sweep EXCEPT ![c] = @ + 1]
  ELSE /\ pc' = [pc EXCEPT ![c] = Return(c)]
       /\ sweep' = [sweep EXCEPT ![c] = 1]

HasReaders(p) == \E k \in Kinds, c \in Consumers : <<receivers[p][k], k>> \in feeds[c]

\* The receivers and their senders are read without Producer.mu.
CheckReaders(c) ==
  /\ pc[c] = "check"
  /\ IF HasReaders(sweep[c])
     THEN NextProducer(c)
     ELSE pc' = [pc EXCEPT ![c] = "stop"] /\ UNCHANGED sweep
  /\ UNCHANGED <<producer, open, worker, feeds, adding>>

\* workerID++: the workers of p are of the past.
Outdate(p) ==
  [w \in Slots |-> IF worker[w].at # "free" /\ worker[w].prod = p
                   THEN [worker[w] EXCEPT !.current = FALSE] ELSE worker[w]]

\* Producer.stop.
StopProducer(c) ==
  LET p == sweep[c] IN
  /\ pc[c] = "stop"
  /\ ~Reconnecting(p)
  /\ NextProducer(c)
  /\ \/ state[p] = "none" /\ UNCHANGED <<producer, open, worker, feeds, track>>
     \/ /\ state[p] # "none"
        /\ worker' = IF state[p] = "start" THEN Outdate(p) ELSE worker
        /\ open' = open \ {conn[p]}
        /\ conn' = [conn EXCEPT ![p] = Nil]
        /\ state' = [state EXCEPT ![p] = "none"]
        /\ receivers' = [receivers EXCEPT ![p] = NoReceivers]
        /\ Delist({<<receivers[p][k], k>> : k \in Kinds})
  /\ UNCHANGED <<at, errs, starts>>

-----------------------------------------------------------------------------
(* worker and reconnect.                                                   *)

\* conn.Start returns: it was stopped, or the camera hung up.  A worker of the
\* past that got an error returns, one that did not goes on to reconnect.
ConnEnds(w) ==
  /\ worker[w].at = "run"
  /\ \/ worker' = [worker EXCEPT ![w] = Moved(w, "retry")]
     \/ ~worker[w].current /\ worker' = [worker EXCEPT ![w] = Free]
  /\ UNCHANGED <<producer, open, feeds, pc, adding, sweep>>

\* (mutant) A reconnect that finds nobody home is the last.
GiveUpEarly(w) ==
  /\ worker[w].at = "retry"
  /\ ~Reconnecting(worker[w].prod)
  /\ worker' = [worker EXCEPT ![w] = Free]
  /\ UNCHANGED <<producer, open, feeds, pc, adding, sweep>>

\* reconnect by a worker of the past.
GiveUp(w) ==
  /\ worker[w].at = "retry"
  /\ ~Reconnecting(worker[w].prod)
  /\ ~worker[w].current
  /\ worker' = [worker EXCEPT ![w] = Free]
  /\ UNCHANGED <<producer, open, feeds, pc, adding, sweep>>

\* GetProducer succeeds; when it fails the timer is set and nothing else changes.
\* The new connection has a matching media for some of the receivers.
Redial(w) ==
  LET p == worker[w].prod IN
  /\ worker[w].at = "retry"
  /\ worker[w].current
  /\ ~Reconnecting(p)
  /\ HasNewConn
  /\ open' = open \cup {NewConn}
  /\ \E found \in SUBSET {k \in Kinds : receivers[p][k] # Nil} :
       worker' = [worker EXCEPT ![w] = [at |-> "move", prod |-> p, new |-> NewConn,
                                        found |-> found, current |-> TRUE]]
  /\ UNCHANGED <<producer, feeds, pc, adding, sweep>>

\* Receiver.Replace moves the senders to the receivers of the new connection.
MoveTracks(w) ==
  LET p == worker[w].prod
      To(f) == IF f[2] \in worker[w].found /\ f[1] = receivers[p][f[2]]
               THEN <<worker[w].new, f[2]>> ELSE f
  IN
  /\ worker[w].at = "move"
  /\ feeds' = [c \in Consumers |-> {To(f) : f \in feeds[c]}]
  /\ worker' = [worker EXCEPT ![w] = Moved(w, "assign")]
  /\ UNCHANGED <<producer, open, pc, adding, sweep>>

\* (mutant) The old connection goes on.
SwapKeepsOld(w) ==
  LET p == worker[w].prod
      x == worker[w].new
  IN
  /\ worker[w].at = "assign"
  /\ receivers' = [receivers EXCEPT ![p] = [k \in Kinds |-> IF k \in worker[w].found THEN x ELSE @[k]]]
  /\ conn' = [conn EXCEPT ![p] = x]
  /\ worker' = [worker EXCEPT ![w] = Work(p)]
  /\ Delist({<<receivers[p][k], k>> : k \in worker[w].found})
  /\ UNCHANGED <<state, open, pc, at, errs, starts, sweep>>

\* p.receivers[i] = track; the old connection is stopped and the new one served
\* by a worker of the same id.
Swap(w) ==
  LET p == worker[w].prod
      x == worker[w].new
  IN
  /\ worker[w].at = "assign"
  /\ receivers' = [receivers EXCEPT ![p] = [k \in Kinds |-> IF k \in worker[w].found THEN x ELSE @[k]]]
  /\ open' = open \ {conn[p]}
  /\ conn' = [conn EXCEPT ![p] = x]
  /\ worker' = [worker EXCEPT ![w] = Work(p)]
  /\ Delist({<<receivers[p][k], k>> : k \in worker[w].found})
  /\ UNCHANGED <<state, pc, at, errs, starts, sweep>>

-----------------------------------------------------------------------------
Init ==
  /\ state = [p \in Producers |-> "none"]
  /\ conn = [p \in Producers |-> Nil]
  /\ receivers = [p \in Producers |-> NoReceivers]
  /\ open = {}
  /\ worker = [w \in Slots |-> Free]
  /\ feeds = [c \in Consumers |-> {}]
  /\ pc = [c \in Consumers |-> "out"]
  /\ at = [c \in Consumers |-> <<1, 1>>]
  /\ track = [c \in Consumers |-> Nil]
  /\ errs = [c \in Consumers |-> {}]
  /\ starts = [c \in Consumers |-> {}]
  /\ sweep = [c \in Consumers |-> 1]

ConsumerStep(c) ==
  \/ Dial(c) \/ Match(c) \/ GetTrack(c) \/ Bind(c) \/ Done(c)
  \/ Admit(c) \/ Start(c)
  \/ LoadPending(c) \/ CheckReaders(c) \/ StopProducer(c)

\* The steps of a worker that do not depend on the camera.
WorkerStep(w) ==
  \/ ~worker[w].current /\ ConnEnds(w)
  \/ GiveUp(w) \/ Redial(w) \/ MoveTracks(w) \/ Swap(w)

Next ==
  \/ \E c \in Consumers : Add(c) \/ Remove(c) \/ ConsumerStep(c)
  \/ \E w \in Slots : ConnEnds(w) \/ WorkerStep(w)

Spec == Init /\ [][Next]_vars

\* Workers run; the camera is dialled again and again, so it is reached if it
\* answers often enough.
FairSpec == Spec /\ \A w \in Slots : SF_vars(WorkerStep(w))

-----------------------------------------------------------------------------
TypeOK ==
  /\ state \in [Producers -> {"none", "medias", "tracks", "start"}]
  /\ conn \in [Producers -> Conns \cup {Nil}]
  /\ receivers \in [Producers -> [Kinds -> Conns \cup {Nil}]]
  /\ open \subseteq Conns
  /\ worker \in [Slots -> {Free} \cup
       [at : {"run", "retry", "move", "assign"}, prod : Producers, new : Conns \cup {Nil}, found : SUBSET Kinds, current : BOOLEAN]]
  /\ feeds \in [Consumers -> SUBSET (Conns \X Kinds)]
  /\ pc \in [Consumers -> {"out", "dial", "medias", "track", "bind", "done", "added", "start",
                           "in", "remove", "load", "check", "stop"}]
  /\ at \in [Consumers -> (1 .. Len(Wants)) \X Producers]
  /\ track \in [Consumers -> Conns \cup {Nil}]
  /\ errs \in [Consumers -> SUBSET Producers] /\ starts \in [Consumers -> SUBSET Producers]
  /\ sweep \in [Consumers -> Producers]

Current(p) == {w \in Slots : worker[w].at # "free" /\ worker[w].prod = p /\ worker[w].current}

(* A started producer has one goroutine or timer that reconnects it, and only a
   started one has: reconnect stops p.conn without looking whether there is one. *)
OneWorker ==
  \A p \in Producers :
    /\ state[p] = "start" => Cardinality(Current(p)) = 1
    /\ Current(p) # {} => state[p] = "start" /\ conn[p] # Nil

(* Every connection that was made and not stopped is some producer's, or is
   about to be: none is lost when a stop, a dial and a reconnect meet.     *)
NoLeak ==
  \A x \in open : \/ \E p \in Producers : conn[p] = x /\ state[p] # "none"
                  \/ \E w \in Slots : worker[w].at \in {"move", "assign"} /\ worker[w].new = x

AtRest == /\ \A c \in Consumers : pc[c] \in {"out", "in"}
          /\ \A p \in Producers : ~Reconnecting(p)

(* When nobody watches and no call is under way, no producer has a connection:
   a stopProducers that stood back for a pending consumer is made up for, and
   what was dialled for a consumer that failed is stopped again.           *)
IdleIsStopped == (\A c \in Consumers : pc[c] = "out") => \A p \in Producers : state[p] = "none"

(* A started producer whose connection ends gets a new one, or is stopped. *)
StartedIsServed ==
  \A p \in Producers :
    state[p] = "start" ~> \/ state[p] # "start"
                         \/ \E w \in Current(p) : worker[w].at = "run" /\ conn[p] \in open

(* The comments in AddConsumer: only producers without readers are stopped, and
   pending consumers are taken care of.  A consumer that was added has a running
   producer.                                                               *)
AddedIsFed ==
  AtRest => \A c \in Consumers : pc[c] = "in" =>
    \E p \in Producers, k \in Kinds : state[p] = "start" /\ <<receivers[p][k], k>> \in feeds[c]
=============================================================================
