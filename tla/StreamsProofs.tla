---------------------------- MODULE StreamsProofs ----------------------------
(***************************************************************************)
(* What holds of a go2rtc stream for any number of producers, consumers,   *)
(* connections and goroutines.                                             *)
(***************************************************************************)
EXTENDS Streams, FiniteSetTheorems, TLAPS

\* Where the loops of AddConsumer and stopProducers are.
PlaceInv ==
  /\ at \in [Consumers -> (1 .. Len(Wants)) \X Producers]
  /\ starts \in [Consumers -> SUBSET Producers]
  /\ sweep \in [Consumers -> Producers]

\* A producer has a connection exactly when it is not in state None.
ConnInv ==
  /\ state \in [Producers -> {"none", "medias", "tracks", "start"}]
  /\ conn \in [Producers -> Conns \cup {Nil}]
  /\ \A p \in Producers : state[p] # "none" => conn[p] # Nil

IsCurrent(w, p) == worker[w].at # "free" /\ worker[w].prod = p /\ worker[w].current

\* Nobody outdates a worker while it moves tracks.
SlotInv ==
  /\ DOMAIN worker = Slots
  /\ \A w \in Slots :
       /\ worker[w].at \in {"free", "run", "retry", "move", "assign"}
       /\ worker[w].at # "free" => worker[w].prod \in Producers
       /\ worker[w].at \in {"move", "assign"} => worker[w].current /\ worker[w].new \in Conns

\* The worker of a started producer.
WorkerInv ==
  \A p \in Producers :
    /\ state[p] = "start" => \E w \in Slots : IsCurrent(w, p)
    /\ \A w \in Slots : IsCurrent(w, p) =>
         state[p] = "start" /\ \A v \in Slots : IsCurrent(v, p) => v = w

IInv == PlaceInv /\ ConnInv /\ SlotInv /\ WorkerInv /\ NoLeak

USE StreamsAssumption DEF StreamsAssumption, Producers

LEMMA InitIInv == Init => IInv
<1> SUFFICES ASSUME Init PROVE IInv
  OBVIOUS
<1>1. PlaceInv
  BY DEF Init, PlaceInv
<1>2. ConnInv
  BY DEF Init, ConnInv
<1>3. SlotInv /\ WorkerInv
  BY DEF Init, SlotInv, WorkerInv, IsCurrent, Free
<1>4. NoLeak
  BY DEF Init, NoLeak
<1> QED
  BY <1>1, <1>2, <1>3, <1>4 DEF IInv

LEMMA ChosenConn == HasNewConn => NewConn \in Conns
  BY DEF HasNewConn, NewConn

LEMMA ChosenSlot == HasSlot => NewSlot \in Slots /\ worker[NewSlot] = Free
  BY DEF HasSlot, NewSlot

(* Consumers' steps that leave producers and workers alone. *)
Quiet == UNCHANGED <<state, conn, open, worker>>

LEMMA QuietKeeps ==
  ASSUME ConnInv, SlotInv, WorkerInv, NoLeak, Quiet
  PROVE  ConnInv' /\ SlotInv' /\ WorkerInv' /\ NoLeak'
  BY DEF Quiet, ConnInv, SlotInv, WorkerInv, NoLeak, IsCurrent

LEMMA AdvanceKeeps ==
  ASSUME PlaceInv, NEW c \in Consumers, NEW b, NEW e, Advance(c, b, e)
  PROVE  at' \in [Consumers -> (1 .. Len(Wants)) \X Producers]
<1>1. ASSUME NEW q \in (1 .. Len(Wants)) \X Producers, at' = [at EXCEPT ![c] = q]
      PROVE  at' \in [Consumers -> (1 .. Len(Wants)) \X Producers]
  BY <1>1 DEF PlaceInv
<1>2. <<1, 1>> \in (1 .. Len(Wants)) \X Producers
  OBVIOUS
<1>3. \E q \in (1 .. Len(Wants)) \X Producers : at' = [at EXCEPT ![c] = q]
  BY <1>2 DEF Advance
<1> QED
  BY <1>1, <1>3

LEMMA NextPlace == PlaceInv /\ [Next]_vars => PlaceInv'
<1> SUFFICES ASSUME PlaceInv, [Next]_vars PROVE PlaceInv'
  OBVIOUS
<1>1. CASE UNCHANGED vars
  BY <1>1 DEF vars, adding, PlaceInv
<1>2. ASSUME NEW c \in Consumers, Add(c) \/ Remove(c) \/ Done(c) \/ Admit(c) \/ LoadPending(c)
      PROVE  PlaceInv'
  BY <1>2 DEF PlaceInv, Add, Remove, Done, Admit, LoadPending, adding
<1>3. ASSUME NEW c \in Consumers, Dial(c) \/ Match(c) \/ GetTrack(c)
      PROVE  PlaceInv'
  <2>1. UNCHANGED <<starts, sweep>>
    BY <1>3 DEF Dial, Match, GetTrack
  <2>2. UNCHANGED at \/ \E b, e : Advance(c, b, e)
    BY <1>3 DEF Dial, Match, GetTrack
  <2> QED
    BY <2>1, <2>2, AdvanceKeeps DEF PlaceInv
<1>4. ASSUME NEW c \in Consumers, Bind(c) PROVE PlaceInv'
  <2>1. UNCHANGED sweep /\ \E b, e : Advance(c, b, e)
    BY <1>4 DEF Bind
  <2>2. Prod(c) \in Producers
    BY DEF PlaceInv, Prod
  <2>3. starts' = starts \/ starts' = [starts EXCEPT ![c] = @ \cup {Prod(c)}]
    BY <1>4 DEF Bind
  <2>4. starts' \in [Consumers -> SUBSET Producers]
    <3>1. starts[c] \cup {Prod(c)} \in SUBSET Producers
      BY <2>2 DEF PlaceInv
    <3> QED
      BY <2>3, <3>1 DEF PlaceInv
  <2> QED
    BY <2>1, <2>4, AdvanceKeeps DEF PlaceInv
<1>5. ASSUME NEW c \in Consumers, Start(c) PROVE PlaceInv'
  <2>1. UNCHANGED <<at, sweep>> /\ \E p : starts' = [starts EXCEPT ![c] = @ \ {p}]
    BY <1>5 DEF Start
  <2> QED
    BY <2>1 DEF PlaceInv
<1>6. ASSUME NEW c \in Consumers, CheckReaders(c) \/ StopProducer(c) PROVE PlaceInv'
  <2>1. UNCHANGED <<at, starts>> /\ (UNCHANGED sweep \/ NextProducer(c))
    BY <1>6 DEF CheckReaders, StopProducer, adding
  <2>2. UNCHANGED sweep \/ \E p \in Producers : sweep' = [sweep EXCEPT ![c] = p]
    <3>1. CASE NextProducer(c) /\ sweep[c] < NProducers
      <4>1. sweep[c] + 1 \in Producers
        BY <3>1 DEF PlaceInv
      <4>2. sweep' = [sweep EXCEPT ![c] = sweep[c] + 1]
        BY <3>1 DEF NextProducer
      <4> QED
        BY <4>1, <4>2
    <3>2. CASE NextProducer(c) /\ ~(sweep[c] < NProducers)
      BY <3>2 DEF NextProducer
    <3> QED
      BY <2>1, <3>1, <3>2
  <2> QED
    BY <2>1, <2>2 DEF PlaceInv
<1>7. ASSUME NEW w \in Slots, ConnEnds(w) \/ WorkerStep(w) PROVE PlaceInv'
  BY <1>7 DEF PlaceInv, ConnEnds, WorkerStep, GiveUp, Redial, MoveTracks, Swap, adding
<1> QED
  BY <1>1, <1>2, <1>3, <1>4, <1>5, <1>6, <1>7 DEF Next, ConsumerStep

Core == ConnInv /\ SlotInv /\ WorkerInv /\ NoLeak

(* A producer is in state None without a worker, so a dial loses nothing. *)
LEMMA DialKeeps ==
  ASSUME IInv, NEW c \in Consumers, Dial(c)
  PROVE  Core'
<1> USE DEF IInv
<1> PICK p \in Producers : p = Prod(c)
  BY DEF PlaceInv, Prod
<1>2. CASE Quiet
  BY <1>2, QuietKeeps DEF Core
<1>3. CASE ~Quiet
  <2>1. /\ state[p] = "none" /\ HasNewConn /\ conn' = [conn EXCEPT ![p] = NewConn]
        /\ open' = open \cup {NewConn} /\ state' = [state EXCEPT ![p] = "medias"]
        /\ worker' = worker
    BY <1>3 DEF Dial, Quiet, producer
  <2> PICK x \in Conns : x = NewConn
    BY <2>1, ChosenConn
  <2>2. /\ DOMAIN conn' = Producers /\ DOMAIN state' = Producers
        /\ conn'[p] = x /\ state'[p] = "medias"
        /\ \A q \in Producers : q # p => conn'[q] = conn[q] /\ state'[q] = state[q]
    BY <2>1 DEF ConnInv
  <2>3. ConnInv'
    <3>1. conn' \in [Producers -> Conns \cup {Nil}]
      BY <2>1 DEF ConnInv
    <3>2. state' \in [Producers -> {"none", "medias", "tracks", "start"}]
      BY <2>1 DEF ConnInv
    <3> QED
      BY <2>2, <3>1, <3>2 DEF ConnInv
  <2>4. SlotInv'
    BY <2>1 DEF SlotInv
  <2>5. WorkerInv'
    <3>1. \A w \in Slots, q \in Producers : IsCurrent(w, q)' <=> IsCurrent(w, q)
      BY <2>1 DEF IsCurrent
    <3>2. \A q \in Producers : state'[q] = "start" <=> state[q] = "start"
      BY <2>1, <2>2
    <3> QED
      BY <3>1, <3>2 DEF WorkerInv
  <2>6. NoLeak'
    <3> SUFFICES ASSUME NEW y \in open'
                 PROVE  \/ \E q \in Producers : conn'[q] = y /\ state'[q] # "none"
                        \/ \E w \in Slots : worker[w].at \in {"move", "assign"} /\ worker[w].new = y
      BY <2>1 DEF NoLeak
    <3>1. CASE y = x
      BY <2>2, <3>1
    <3>2. CASE y # x
      BY <2>1, <2>2, <3>2 DEF NoLeak
    <3> QED
      BY <3>1, <3>2
  <2> QED
    BY <2>3, <2>4, <2>5, <2>6 DEF Core
<1> QED
  BY <1>2, <1>3

LEMMA GetTrackKeeps ==
  ASSUME IInv, NEW c \in Consumers, GetTrack(c)
  PROVE  Core'
<1> USE DEF IInv
<1>1. UNCHANGED <<conn, open, worker>>
  BY DEF GetTrack, producer
<1>2. CASE UNCHANGED state
  BY <1>1, <1>2, QuietKeeps DEF Quiet, Core
<1>3. CASE state' # state
  <2> PICK p : p = Prod(c)
    OBVIOUS
  <2>1. /\ state[p] # "none"
        /\ state' = [state EXCEPT ![p] = IF @ = "medias" THEN "tracks" ELSE @]
    BY <1>3 DEF GetTrack, producer
  <2>2. p \in Producers
    BY DEF PlaceInv, Prod
  <2>3. \A q \in Producers : /\ state'[q] \in {"none", "medias", "tracks", "start"}
                             /\ state'[q] = "start" <=> state[q] = "start"
                             /\ state'[q] = "none" <=> state[q] = "none"
    BY <2>1, <2>2 DEF ConnInv
  <2>4. ConnInv'
    BY <1>1, <2>1, <2>2, <2>3 DEF ConnInv
  <2>5. SlotInv'
    BY <1>1 DEF SlotInv
  <2>6. WorkerInv'
    BY <1>1, <2>3 DEF WorkerInv, IsCurrent
  <2>7. NoLeak'
    BY <1>1, <2>3 DEF NoLeak
  <2> QED
    BY <2>4, <2>5, <2>6, <2>7 DEF Core
<1> QED
  BY <1>2, <1>3

(* start makes a worker only for a producer that has none. *)
LEMMA StartKeeps ==
  ASSUME IInv, NEW c \in Consumers, Start(c)
  PROVE  Core'
<1> USE DEF IInv
<1>1. UNCHANGED <<conn, open>>
  BY DEF Start
<1>2. CASE UNCHANGED <<state, worker>>
  BY <1>1, <1>2, QuietKeeps DEF Quiet, Core
<1>3. ASSUME NEW p \in starts[c], state[p] = "tracks", HasSlot,
             state' = [state EXCEPT ![p] = "start"],
             worker' = [worker EXCEPT ![NewSlot] = Work(p)]
      PROVE  Core'
  <2>1. p \in Producers
    BY DEF PlaceInv
  <2> PICK s \in Slots : s = NewSlot /\ worker[s] = Free
    BY <1>3, ChosenSlot
  <2>2. worker[s].at = "free"
    BY DEF Free
  <2>3. /\ worker'[s].at = "run" /\ worker'[s].prod = p /\ worker'[s].current
        /\ \A w \in Slots : w # s => worker'[w] = worker[w]
        /\ DOMAIN worker' = Slots
    BY <1>3 DEF SlotInv, Work
  <2>4. ConnInv'
    BY <1>1, <1>3, <2>1 DEF ConnInv
  <2>5. SlotInv'
    BY <2>1, <2>3 DEF SlotInv
  <2>6. WorkerInv'
    <3>1. \A w \in Slots : ~IsCurrent(w, p)
      BY <1>3, <2>1 DEF WorkerInv
    <3>2. \A w \in Slots, q \in Producers :
            IsCurrent(w, q)' <=> (w = s /\ q = p) \/ (w # s /\ IsCurrent(w, q))
      BY <2>1, <2>3 DEF IsCurrent
    <3>3. \A q \in Producers : state'[q] = "start" <=> q = p \/ state[q] = "start"
      BY <1>3, <2>1 DEF ConnInv
    <3>4. \A q \in Producers : ~IsCurrent(s, q)
      BY <2>2 DEF IsCurrent
    <3> QED
      BY <3>1, <3>2, <3>3, <3>4, <2>1 DEF WorkerInv
  <2>7. NoLeak'
    <3>1. \A q \in Producers : state'[q] = "none" <=> state[q] = "none"
      BY <1>3, <2>1 DEF ConnInv
    <3>2. \A w \in Slots : worker[w].at \in {"move", "assign"} => worker'[w] = worker[w]
      BY <2>2, <2>3
    <3> QED
      BY <1>1, <3>1, <3>2 DEF NoLeak
  <2> QED
    BY <2>4, <2>5, <2>6, <2>7 DEF Core
<1> QED
  BY <1>2, <1>3 DEF Start

(* stop outdates the workers, none of which is moving tracks. *)
LEMMA StopKeeps ==
  ASSUME IInv, NEW c \in Consumers, StopProducer(c)
  PROVE  Core'
<1> USE DEF IInv
<1> PICK p \in Producers : p = sweep[c]
  BY DEF PlaceInv
<1>1. CASE Quiet
  BY <1>1, QuietKeeps DEF Core
<1>2. CASE ~Quiet
  <2>1. /\ state[p] # "none" /\ ~Reconnecting(p)
        /\ worker' = IF state[p] = "start" THEN Outdate(p) ELSE worker
        /\ open' = open \ {conn[p]}
        /\ conn' = [conn EXCEPT ![p] = Nil]
        /\ state' = [state EXCEPT ![p] = "none"]
    BY <1>2 DEF StopProducer, Quiet, producer
  <2>2. /\ DOMAIN worker' = Slots
        /\ \A w \in Slots : /\ worker'[w].at = worker[w].at
                            /\ worker[w].at # "free" => worker'[w].prod = worker[w].prod
                            /\ worker[w].at # "free" /\ worker[w].prod = p =>
                                 ~IsCurrent(w, p)'
                            /\ worker[w].prod # p \/ worker[w].at = "free" =>
                                 worker'[w] = worker[w]
                            /\ worker'[w].new = worker[w].new
    <3>1. CASE state[p] = "start"
      <4>1. worker' = Outdate(p)
        BY <2>1, <3>1
      <4> QED
        BY <4>1 DEF Outdate, IsCurrent, SlotInv
    <3>2. CASE state[p] # "start"
      <4>1. worker' = worker
        BY <2>1, <3>2
      <4>2. \A w \in Slots : ~IsCurrent(w, p)
        BY <3>2 DEF WorkerInv
      <4> QED
        BY <4>1, <4>2 DEF IsCurrent, SlotInv
    <3> QED
      BY <3>1, <3>2
  <2>3. \A w \in Slots : worker[w].at \in {"move", "assign"} => worker[w].prod # p
    BY <2>1 DEF Reconnecting
  <2>4. ConnInv'
    BY <2>1 DEF ConnInv
  <2>5. SlotInv'
    BY <2>2, <2>3 DEF SlotInv
  <2>6. WorkerInv'
    <3>1. \A w \in Slots, q \in Producers : IsCurrent(w, q)' <=> q # p /\ IsCurrent(w, q)
      BY <2>2 DEF IsCurrent
    <3>2. \A q \in Producers : state'[q] = "start" <=> q # p /\ state[q] = "start"
      BY <2>1 DEF ConnInv
    <3> QED
      BY <3>1, <3>2 DEF WorkerInv
  <2>7. NoLeak'
    <3>1. \A q \in Producers : q # p => conn'[q] = conn[q] /\ state'[q] = state[q]
      BY <2>1 DEF ConnInv
    <3>2. \A w \in Slots : worker[w].at \in {"move", "assign"} => worker'[w] = worker[w]
      BY <2>2, <2>3
    <3> SUFFICES ASSUME NEW y \in open'
                 PROVE  \/ \E q \in Producers : conn'[q] = y /\ state'[q] # "none"
                        \/ \E w \in Slots : worker'[w].at \in {"move", "assign"} /\ worker'[w].new = y
      BY DEF NoLeak
    <3>3. y \in open /\ y # conn[p]
      BY <2>1
    <3> QED
      BY <3>1, <3>2, <3>3 DEF NoLeak
  <2> QED
    BY <2>4, <2>5, <2>6, <2>7 DEF Core
<1> QED
  BY <1>1, <1>2

(* A worker that is of the past may go. *)
LEMMA EndKeeps ==
  ASSUME IInv, NEW w \in Slots, ConnEnds(w) \/ GiveUp(w)
  PROVE  Core'
<1> USE DEF IInv
<1>1. UNCHANGED <<state, conn, open>>
  BY DEF ConnEnds, GiveUp, producer
<1>2. worker[w].at \in {"run", "retry"}
  BY DEF ConnEnds, GiveUp
<1>3. /\ DOMAIN worker' = Slots
      /\ \A v \in Slots : v # w => worker'[v] = worker[v]
      /\ \/ /\ worker'[w].at = "retry" /\ worker'[w].prod = worker[w].prod
            /\ worker'[w].current = worker[w].current
         \/ worker'[w].at = "free" /\ ~worker[w].current
  <2>1. CASE ConnEnds(w)
    BY <2>1 DEF ConnEnds, SlotInv, Free, Moved
  <2>2. CASE GiveUp(w)
    BY <2>2 DEF GiveUp, SlotInv, Free
  <2> QED
    BY <2>1, <2>2
<1>4. \A v \in Slots, q \in Producers : IsCurrent(v, q)' <=> IsCurrent(v, q)
  BY <1>2, <1>3 DEF IsCurrent
<1>5. ConnInv'
  BY <1>1 DEF ConnInv
<1>6. SlotInv'
  BY <1>2, <1>3 DEF SlotInv
<1>7. WorkerInv'
  BY <1>1, <1>4 DEF WorkerInv
<1>8. NoLeak'
  BY <1>1, <1>2, <1>3 DEF NoLeak
<1> QED
  BY <1>5, <1>6, <1>7, <1>8 DEF Core

(* reconnect has the new connection before it gives up the old one. *)
LEMMA ReconnectKeeps ==
  ASSUME IInv, NEW w \in Slots, Redial(w) \/ MoveTracks(w) \/ Swap(w)
  PROVE  Core'
<1> USE DEF IInv
<1> PICK p : p = worker[w].prod
  OBVIOUS
<1>1. worker[w].at \in {"retry", "move", "assign"} /\ worker[w].current
  BY DEF Redial, MoveTracks, Swap, SlotInv
<1>2. p \in Producers /\ IsCurrent(w, p) /\ state[p] = "start"
  BY <1>1 DEF SlotInv, WorkerInv, IsCurrent
<1>3. /\ DOMAIN worker' = Slots
      /\ \A v \in Slots : v # w => worker'[v] = worker[v]
      /\ worker'[w].at \in {"run", "move", "assign"}
      /\ worker'[w].prod = p /\ worker'[w].current
  <2>1. CASE Redial(w)
    BY <2>1 DEF Redial, SlotInv
  <2>2. CASE MoveTracks(w)
    BY <1>1, <2>2 DEF MoveTracks, SlotInv, Moved
  <2>3. CASE Swap(w)
    BY <2>3 DEF Swap, SlotInv, Work
  <2> QED
    BY <2>1, <2>2, <2>3
<1>4. \A v \in Slots, q \in Producers : IsCurrent(v, q)' <=> IsCurrent(v, q)
  BY <1>1, <1>2, <1>3 DEF IsCurrent
<1>5. UNCHANGED state
  BY DEF Redial, MoveTracks, Swap, producer
<1>6. WorkerInv'
  BY <1>4, <1>5 DEF WorkerInv
<1>7. CASE Redial(w)
  <2> PICK x \in Conns : x = NewConn
    BY <1>7, ChosenConn DEF Redial
  <2>1. /\ open' = open \cup {x} /\ conn' = conn
        /\ worker'[w].at = "move" /\ worker'[w].new = x
    BY <1>7 DEF Redial, producer, SlotInv
  <2>2. ConnInv' /\ SlotInv'
    BY <1>2, <1>3, <1>5, <2>1 DEF ConnInv, SlotInv
  <2>3. worker[w].at = "retry"
    BY <1>7 DEF Redial
  <2>4. NoLeak'
    BY <1>3, <1>5, <2>1, <2>3 DEF NoLeak
  <2> QED
    BY <1>6, <2>2, <2>4 DEF Core
<1>8. CASE MoveTracks(w)
  <2>1. /\ UNCHANGED <<open, conn>> /\ worker[w].at = "move"
        /\ worker'[w].at = "assign" /\ worker'[w].new = worker[w].new
    BY <1>8 DEF MoveTracks, producer, SlotInv, Moved
  <2>2. ConnInv' /\ SlotInv'
    BY <1>3, <1>5, <2>1 DEF ConnInv, SlotInv
  <2>3. NoLeak'
    BY <1>3, <1>5, <2>1 DEF NoLeak
  <2> QED
    BY <1>6, <2>2, <2>3 DEF Core
<1>9. CASE Swap(w)
  <2>1. /\ worker[w].at = "assign" /\ worker[w].new \in Conns
        /\ open' = open \ {conn[p]} /\ conn' = [conn EXCEPT ![p] = worker[w].new]
        /\ worker'[w].at = "run"
    BY <1>9 DEF Swap, SlotInv, Work
  <2>2. ConnInv' /\ SlotInv'
    BY <1>2, <1>3, <1>5, <2>1 DEF ConnInv, SlotInv
  <2>3. NoLeak'
    <3>1. \A q \in Producers : q # p => conn'[q] = conn[q]
      BY <2>1 DEF ConnInv
    <3>2. conn'[p] = worker[w].new /\ state'[p] # "none"
      BY <1>2, <1>5, <2>1 DEF ConnInv
    <3> SUFFICES ASSUME NEW y \in open'
                 PROVE  \/ \E q \in Producers : conn'[q] = y /\ state'[q] # "none"
                        \/ \E v \in Slots : worker'[v].at \in {"move", "assign"} /\ worker'[v].new = y
      BY DEF NoLeak
    <3>3. y \in open /\ y # conn[p]
      BY <2>1
    <3> QED
      BY <1>2, <1>3, <1>5, <3>1, <3>2, <3>3, SMTT(40) DEF NoLeak
  <2> QED
    BY <1>6, <2>2, <2>3 DEF Core
<1> QED
  BY <1>7, <1>8, <1>9

LEMMA NextCore == IInv /\ [Next]_vars => Core'
<1> SUFFICES ASSUME IInv, [Next]_vars PROVE Core'
  OBVIOUS
<1>1. CASE UNCHANGED vars
  BY <1>1, QuietKeeps DEF vars, producer, Quiet, IInv, Core
<1>2. ASSUME NEW c \in Consumers,
             \/ Add(c) \/ Remove(c) \/ Match(c) \/ Bind(c) \/ Done(c) \/ Admit(c)
             \/ LoadPending(c) \/ CheckReaders(c)
      PROVE  Core'
  <2>1. Quiet
    BY <1>2 DEF Add, Remove, Match, Bind, Done, Admit, LoadPending, CheckReaders, producer, Quiet
  <2> QED
    BY <2>1, QuietKeeps DEF IInv, Core
<1> QED
  BY <1>1, <1>2, DialKeeps, GetTrackKeeps, StartKeeps, StopKeeps, EndKeeps, ReconnectKeeps
     DEF Next, ConsumerStep, WorkerStep

THEOREM Inductive == Spec => []IInv
<1>1. Init => IInv
  BY InitIInv
<1>2. IInv /\ [Next]_vars => IInv'
  BY NextPlace, NextCore DEF IInv, Core
<1> QED
  BY <1>1, <1>2, PTL DEF Spec

(* A started producer has exactly one worker that will reconnect it, and no
   other producer has one (producer.go:141-245).                           *)
THEOREM WorksAlone == Spec => []OneWorker
<1>1. IInv => OneWorker
  <2> SUFFICES ASSUME IInv, NEW p \in Producers
               PROVE  /\ state[p] = "start" => Cardinality(Current(p)) = 1
                      /\ Current(p) # {} => state[p] = "start" /\ conn[p] # Nil
    BY DEF OneWorker
  <2>1. \A w : w \in Current(p) <=> w \in Slots /\ IsCurrent(w, p)
    BY DEF Current, IsCurrent
  <2>2. ASSUME state[p] = "start" PROVE Cardinality(Current(p)) = 1
    <3> PICK w \in Slots : IsCurrent(w, p)
      BY <2>2 DEF IInv, WorkerInv
    <3>1. Current(p) = {w}
      BY <2>1 DEF IInv, WorkerInv
    <3> QED
      BY <3>1, FS_Singleton
  <2>3. Current(p) # {} => state[p] = "start" /\ conn[p] # Nil
    BY <2>1 DEF IInv, WorkerInv, ConnInv
  <2> QED
    BY <2>2, <2>3
<1> QED
  BY <1>1, Inductive, PTL

(* No connection is lost when a stop, a dial and a reconnect meet
   (producer.go:173-270).                                                  *)
THEOREM NothingLeaks == Spec => []NoLeak
<1>1. IInv => NoLeak
  BY DEF IInv
<1> QED
  BY <1>1, Inductive, PTL

-----------------------------------------------------------------------------
(* Who will look after a producer that is not in state None.               *)

\* A consumer has senders only while there is something it will start, or is in;
\* it starts a sweep at the first producer.
FeedsInv ==
  /\ DOMAIN pc = Consumers /\ DOMAIN feeds = Consumers
  /\ \A c \in Consumers :
       /\ pc[c] \in {"out", "in", "remove"} => starts[c] = {}
       /\ feeds[c] # {} => starts[c] # {} \/ pc[c] \in {"start", "in"}
       /\ pc[c] \notin {"check", "stop"} => sweep[c] = 1

\* c has still to look at p: in the sweep it is at, or in the one that its Remove
\* or the last pending AddConsumer will make.
Responsible(c, p) ==
  \/ pc[c] \in {"dial", "medias", "track", "bind", "done", "load", "start", "in", "remove"}
  \/ starts[c] # {}
  \/ pc[c] \in {"check", "stop"} /\ p >= sweep[c]

IdleInv == \A p \in Producers : state[p] # "none" => \E c \in Consumers : Responsible(c, p)

WatchInv == FeedsInv /\ IdleInv

\* A step of the goroutine of c leaves the others as they are.
Own(c) ==
  /\ DOMAIN pc' = Consumers /\ DOMAIN feeds' = Consumers
  /\ \A d \in Consumers : d # c =>
       /\ pc'[d] = pc[d] /\ starts'[d] = starts[d] /\ sweep'[d] = sweep[d]
       /\ feeds'[d] \subseteq feeds[d]

\* What c must make sure of.
OwnFeeds(c) ==
  /\ pc'[c] \in {"out", "in", "remove"} => starts'[c] = {}
  /\ feeds'[c] # {} => starts'[c] # {} \/ pc'[c] \in {"start", "in"}
  /\ pc'[c] \notin {"check", "stop"} => sweep'[c] = 1

LEMMA OwnKeepsFeeds ==
  ASSUME FeedsInv, NEW c \in Consumers, Own(c), OwnFeeds(c) PROVE FeedsInv'
<1>1. ASSUME NEW d \in Consumers, d # c
      PROVE  /\ pc'[d] \in {"out", "in", "remove"} => starts'[d] = {}
             /\ feeds'[d] # {} => starts'[d] # {} \/ pc'[d] \in {"start", "in"}
             /\ pc'[d] \notin {"check", "stop"} => sweep'[d] = 1
  BY <1>1 DEF FeedsInv, Own
<1> QED
  BY <1>1 DEF FeedsInv, Own, OwnFeeds

LEMMA OwnKeepsOthers ==
  ASSUME NEW c \in Consumers, Own(c), NEW d \in Consumers, d # c, NEW p
  PROVE  Responsible(d, p) => Responsible(d, p)'
BY DEF Own, Responsible

\* The label a step of AddConsumer's loops leads to.
AddingLabels == {"dial", "medias", "track", "bind", "done"}

LEMMA AdvanceLabel ==
  ASSUME NEW c \in Consumers, NEW b, NEW e, Advance(c, b, e)
  PROVE  \E l \in AddingLabels : pc' = [pc EXCEPT ![c] = l]
BY DEF Advance, AddingLabels

\* While a consumer is in AddConsumer it answers for every producer.
LEMMA AddingWatches ==
  ASSUME PlaceInv, WatchInv, NEW c \in Consumers,
         Add(c) \/ Dial(c) \/ Match(c) \/ GetTrack(c) \/ Bind(c)
  PROVE  WatchInv'
<1>1. PICK l \in AddingLabels : pc' = [pc EXCEPT ![c] = l]
  BY AdvanceLabel DEF Add, Dial, Match, GetTrack, Bind, AddingLabels
<1>2. UNCHANGED sweep /\ pc[c] \in AddingLabels \cup {"out"}
  BY DEF Add, Dial, Match, GetTrack, Bind, AddingLabels
<1>3. \/ UNCHANGED <<starts, feeds>>
      \/ /\ starts' = [starts EXCEPT ![c] = @ \cup {Prod(c)}]
         /\ \E S : feeds' = [feeds EXCEPT ![c] = S]
  BY DEF Add, Dial, Match, GetTrack, Bind, adding
<1>4. pc'[c] = l /\ l \in AddingLabels
  BY <1>1 DEF WatchInv, FeedsInv
<1>5. Own(c)
  BY <1>1, <1>2, <1>3 DEF Own, WatchInv, FeedsInv, PlaceInv
<1>6. feeds'[c] # {} => starts'[c] # {}
  <2>1. CASE UNCHANGED <<starts, feeds>>
    BY <1>2, <2>1 DEF WatchInv, FeedsInv, AddingLabels
  <2>2. CASE starts' = [starts EXCEPT ![c] = @ \cup {Prod(c)}]
    BY <2>2 DEF PlaceInv
  <2> QED BY <1>3, <2>1, <2>2
<1>7. OwnFeeds(c)
  BY <1>2, <1>4, <1>6 DEF OwnFeeds, WatchInv, FeedsInv, AddingLabels
<1>8. IdleInv'
  BY <1>4 DEF IdleInv, Responsible, AddingLabels
<1> QED
  BY <1>5, <1>7, <1>8, OwnKeepsFeeds DEF WatchInv

\* pending reaches zero with the last of them, which then sweeps.
LEMMA DoneWatches ==
  ASSUME WatchInv, NEW c \in Consumers, Done(c) PROVE WatchInv'
<1>1. /\ pc[c] = "done" /\ UNCHANGED <<state, feeds, starts, sweep>>
      /\ pc' = [pc EXCEPT ![c] = IF Adding = {c} THEN "load" ELSE "added"]
  BY DEF Done, producer, adding
<1>2. Own(c)
  BY <1>1 DEF Own, WatchInv, FeedsInv
<1>3. OwnFeeds(c)
  BY <1>1 DEF OwnFeeds, WatchInv, FeedsInv
<1>4. IdleInv'
  <2>1. CASE Adding = {c}
    BY <1>1, <2>1 DEF IdleInv, Responsible, WatchInv, FeedsInv
  <2>2. CASE Adding # {c}
    <3>1. PICK d \in Consumers : d # c /\ pc[d] \in AddingLabels
      BY <1>1, <2>2 DEF Adding, AddingLabels
    <3>2. pc'[d] = pc[d]
      BY <1>2, <3>1 DEF Own
    <3> QED BY <3>1, <3>2 DEF IdleInv, Responsible, AddingLabels
  <2> QED BY <2>1, <2>2
<1> QED
  BY <1>2, <1>3, <1>4, OwnKeepsFeeds DEF WatchInv

LEMMA AdmitWatches ==
  ASSUME WatchInv, NEW c \in Consumers, Admit(c) PROVE WatchInv'
<1>1. /\ pc[c] = "added" /\ UNCHANGED <<state, feeds, starts, sweep>>
      /\ pc' = [pc EXCEPT ![c] = IF starts[c] = {} THEN "out" ELSE "start"]
  BY DEF Admit, producer, adding
<1>2. Own(c)
  BY <1>1 DEF Own, WatchInv, FeedsInv
<1>3. OwnFeeds(c)
  BY <1>1 DEF OwnFeeds, WatchInv, FeedsInv
<1>4. ASSUME NEW p \in Producers, state'[p] # "none"
      PROVE  \E d \in Consumers : Responsible(d, p)'
  <2>1. PICK d \in Consumers : Responsible(d, p)
    BY <1>1, <1>4 DEF WatchInv, IdleInv
  <2>2. CASE d = c
    BY <1>1, <2>1, <2>2 DEF Responsible, WatchInv, FeedsInv
  <2>3. CASE d # c
    BY <1>2, <2>1, <2>3, OwnKeepsOthers
  <2> QED BY <2>2, <2>3
<1>5. IdleInv'
  BY <1>4 DEF IdleInv
<1> QED
  BY <1>2, <1>3, <1>5, OwnKeepsFeeds DEF WatchInv

LEMMA StartWatches ==
  ASSUME PlaceInv, WatchInv, NEW c \in Consumers, Start(c) PROVE WatchInv'
<1>1. PICK p \in starts[c] :
        /\ pc[c] = "start" /\ UNCHANGED <<feeds, sweep>>
        /\ starts' = [starts EXCEPT ![c] = @ \ {p}]
        /\ pc' = [pc EXCEPT ![c] = IF starts[c] = {p} THEN "in" ELSE @]
  BY DEF Start
<1>2. pc'[c] \in {"start", "in"} /\ starts'[c] = starts[c] \ {p}
  BY <1>1 DEF WatchInv, FeedsInv, PlaceInv
<1>3. pc'[c] = "in" => starts'[c] = {}
  BY <1>1, <1>2 DEF WatchInv, FeedsInv
<1>4. Own(c)
  BY <1>1 DEF Own, WatchInv, FeedsInv, PlaceInv
<1>5. OwnFeeds(c)
  BY <1>1, <1>2, <1>3 DEF OwnFeeds, WatchInv, FeedsInv
<1>6. IdleInv'
  BY <1>2 DEF IdleInv, Responsible
<1> QED
  BY <1>4, <1>5, <1>6, OwnKeepsFeeds DEF WatchInv

LEMMA RemoveWatches ==
  ASSUME WatchInv, NEW c \in Consumers, Remove(c) PROVE WatchInv'
<1>1. /\ pc[c] = "in" /\ UNCHANGED <<starts, sweep>>
      /\ feeds' = [feeds EXCEPT ![c] = {}] /\ pc' = [pc EXCEPT ![c] = "remove"]
  BY DEF Remove, adding
<1>2. pc'[c] = "remove" /\ feeds'[c] = {}
  BY <1>1 DEF WatchInv, FeedsInv
<1>3. Own(c)
  BY <1>1 DEF Own, WatchInv, FeedsInv
<1>4. OwnFeeds(c)
  BY <1>1, <1>2 DEF OwnFeeds, WatchInv, FeedsInv
<1>5. IdleInv'
  BY <1>2 DEF IdleInv, Responsible
<1> QED
  BY <1>3, <1>4, <1>5, OwnKeepsFeeds DEF WatchInv

\* A stopProducers that stands back leaves the producers to a pending consumer;
\* one that does not begins with the first.
LEMMA LoadWatches ==
  ASSUME WatchInv, NEW c \in Consumers, LoadPending(c) PROVE WatchInv'
<1>1. /\ pc[c] \in {"load", "remove"} /\ UNCHANGED <<state, feeds, starts, sweep>>
      /\ pc' = [pc EXCEPT ![c] = IF Adding # {} THEN Return(c) ELSE "check"]
  BY DEF LoadPending, producer, adding
<1>2. Own(c)
  BY <1>1 DEF Own, WatchInv, FeedsInv
<1>3. OwnFeeds(c)
  BY <1>1 DEF OwnFeeds, WatchInv, FeedsInv, Return
<1>4. IdleInv'
  <2>1. CASE Adding = {}
    <3>1. pc'[c] = "check" /\ sweep'[c] = 1
      BY <1>1, <2>1 DEF WatchInv, FeedsInv
    <3> QED BY <3>1 DEF IdleInv, Responsible
  <2>2. CASE Adding # {}
    <3>1. PICK d \in Consumers : pc[d] \in AddingLabels
      BY <2>2 DEF Adding, AddingLabels
    <3>2. d # c
      BY <1>1, <3>1 DEF AddingLabels
    <3>3. pc'[d] = pc[d]
      BY <1>2, <3>2 DEF Own
    <3> QED BY <3>1, <3>3 DEF IdleInv, Responsible, AddingLabels
  <2> QED BY <2>1, <2>2
<1> QED
  BY <1>2, <1>3, <1>4, OwnKeepsFeeds DEF WatchInv

\* The sweep of c goes on after a producer that is somebody else's or stopped.
LEMMA SweepWatches ==
  ASSUME PlaceInv, ConnInv, WatchInv, NEW c \in Consumers, CheckReaders(c) \/ StopProducer(c)
  PROVE  WatchInv'
<1> DEFINE s == sweep[c]
<1>0. s \in Producers
  BY DEF PlaceInv
<1>1. /\ pc[c] \in {"check", "stop"} /\ UNCHANGED starts
      /\ DOMAIN feeds' = Consumers
      /\ \A d \in Consumers : feeds'[d] \subseteq feeds[d]
  BY DEF CheckReaders, StopProducer, Delist, WatchInv, FeedsInv, adding
<1>2. \/ NextProducer(c) /\ HasReaders(s) /\ UNCHANGED state
      \/ pc' = [pc EXCEPT ![c] = "stop"] /\ UNCHANGED <<sweep, state>>
      \/ NextProducer(c) /\ state'[s] = "none"
         /\ \A p \in Producers : state'[p] # "none" => state[p] # "none"
  <2>1. CASE CheckReaders(c)
    BY <2>1 DEF CheckReaders, producer
  <2>2. CASE StopProducer(c)
    <3>1. (UNCHANGED state /\ state[s] = "none") \/ state' = [state EXCEPT ![s] = "none"]
      BY <2>2 DEF StopProducer, producer
    <3>2. NextProducer(c)
      BY <2>2 DEF StopProducer
    <3> QED BY <1>0, <3>1, <3>2 DEF ConnInv
  <2> QED BY <2>1, <2>2
<1> HIDE DEF s
<1>3. \/ pc' = [pc EXCEPT ![c] = "stop"] /\ sweep' = sweep
      \/ pc' = [pc EXCEPT ![c] = "check"] /\ sweep' = [sweep EXCEPT ![c] = s + 1]
      \/ ~(s < NProducers) /\ pc' = [pc EXCEPT ![c] = Return(c)] /\ sweep' = [sweep EXCEPT ![c] = 1]
  BY <1>2 DEF NextProducer, s
<1>4. \/ pc'[c] = "stop" /\ sweep'[c] = s
      \/ pc'[c] = "check" /\ sweep'[c] = s + 1
      \/ ~(s < NProducers) /\ pc'[c] = Return(c) /\ sweep'[c] = 1
  BY <1>3 DEF WatchInv, FeedsInv, PlaceInv, s
<1>5. Own(c)
  <2>1. \A d \in Consumers : d # c => pc'[d] = pc[d] /\ sweep'[d] = sweep[d]
    BY <1>3 DEF WatchInv, FeedsInv, PlaceInv
  <2>2. DOMAIN pc' = Consumers
    BY <1>3 DEF WatchInv, FeedsInv
  <2> QED BY <1>1, <2>1, <2>2 DEF Own
<1>6. feeds[c] # {} => starts[c] # {}
  BY <1>1 DEF WatchInv, FeedsInv
<1>7. OwnFeeds(c)
  <2>1. feeds'[c] # {} => starts'[c] # {}
    BY <1>1, <1>6
  <2> QED BY <1>1, <1>4, <2>1 DEF OwnFeeds, Return
<1>8. ASSUME NEW p \in Producers, state'[p] # "none"
      PROVE  \E d \in Consumers : Responsible(d, p)'
  <2>1. state[p] # "none"
    BY <1>2, <1>8
  <2>2. PICK d \in Consumers : Responsible(d, p)
    BY <2>1 DEF WatchInv, IdleInv
  <2>3. CASE d # c
    BY <1>5, <2>2, <2>3, OwnKeepsOthers
  <2>4. CASE starts[c] # {}
    BY <1>1, <2>4 DEF Responsible
  <2>5. CASE d = c /\ starts[c] = {}
    <3>1. p >= s
      BY <1>1, <2>2, <2>5 DEF Responsible, s
    <3>2. CASE pc'[c] = "stop" /\ sweep'[c] = s
      BY <3>1, <3>2 DEF Responsible
    <3>3. CASE p > s
      <4>1. s < NProducers
        BY <1>0, <3>3
      <4>2. p >= s + 1
        BY <1>0, <3>3
      <4> QED BY <1>4, <3>1, <4>1, <4>2 DEF Responsible
    <3>4. CASE p = s /\ pc'[c] # "stop"
      <4>1. pc' # [pc EXCEPT ![c] = "stop"]
        BY <3>4 DEF WatchInv, FeedsInv
      <4>2. HasReaders(s)
        BY <1>2, <1>8, <3>4, <4>1
      <4>3. PICK e \in Consumers : feeds[e] # {}
        BY <4>2 DEF HasReaders
      <4>4. e # c /\ Responsible(e, p)
        BY <1>6, <2>5, <4>3 DEF WatchInv, FeedsInv, Responsible
      <4> QED BY <1>5, <4>4, OwnKeepsOthers
    <3>5. p = s \/ p > s
      BY <1>0, <3>1
    <3> QED BY <1>4, <3>2, <3>3, <3>4, <3>5 DEF Return
  <2> QED BY <2>3, <2>4, <2>5
<1>9. IdleInv'
  BY <1>8 DEF IdleInv
<1> QED
  BY <1>5, <1>7, <1>9, OwnKeepsFeeds DEF WatchInv

\* A worker moves senders, and forgets those of receivers that left the list.
NoNewSenders ==
  DOMAIN feeds' = Consumers /\ \A c \in Consumers : feeds[c] = {} => feeds'[c] = {}

LEMMA WorkerWatches ==
  ASSUME WatchInv, (\E w \in Slots : ConnEnds(w) \/ WorkerStep(w)) \/ UNCHANGED vars
  PROVE  WatchInv'
<1>1. UNCHANGED <<state, pc, starts, sweep>>
  BY DEF ConnEnds, WorkerStep, GiveUp, Redial, MoveTracks, Swap, vars, producer, adding
<1>2. NoNewSenders
  <2>1. CASE UNCHANGED feeds
    BY <2>1 DEF NoNewSenders, WatchInv, FeedsInv
  <2>2. ASSUME NEW w \in Slots, MoveTracks(w) PROVE NoNewSenders
    BY <2>2 DEF MoveTracks, NoNewSenders
  <2>3. ASSUME NEW w \in Slots, Swap(w) PROVE NoNewSenders
    BY <2>3 DEF Swap, Delist, NoNewSenders
  <2> QED BY <2>1, <2>2, <2>3 DEF ConnEnds, WorkerStep, GiveUp, Redial, vars
<1>3. FeedsInv'
  BY <1>1, <1>2 DEF NoNewSenders, WatchInv, FeedsInv
<1>4. IdleInv'
  BY <1>1 DEF WatchInv, IdleInv, Responsible
<1> QED
  BY <1>3, <1>4 DEF WatchInv

LEMMA InitWatchInv == Init => WatchInv
BY DEF Init, WatchInv, FeedsInv, IdleInv

LEMMA Watched == Spec => []WatchInv
<1>1. Init => WatchInv
  BY InitWatchInv
<1>2. IInv /\ WatchInv /\ [Next]_vars => WatchInv'
  BY AddingWatches, DoneWatches, AdmitWatches, StartWatches, RemoveWatches, LoadWatches,
     SweepWatches, WorkerWatches DEF Next, ConsumerStep, IInv
<1> QED
  BY <1>1, <1>2, Inductive, PTL DEF Spec

(* Once nobody is in a call or a consumer, every producer has been stopped: a
   stopProducers that stood back for a pending AddConsumer, or skipped a producer
   that still had readers, was made up for by another (add_consumer.go, stream.go). *)
THEOREM NothingRunsIdle == Spec => []IdleIsStopped
<1>1. WatchInv => IdleIsStopped
  BY DEF WatchInv, FeedsInv, IdleInv, IdleIsStopped, Responsible
<1> QED
  BY <1>1, Watched, PTL

-----------------------------------------------------------------------------
(* When an added consumer is fed.                                          *)

(* No stopProducers is under way while an AddConsumer has yet to count itself
   out of pending or a reconnect is moving tracks, and no consumer binds a
   track that is being moved: the overlaps that the locks do not exclude.  *)
Apart ==
  /\ Sweeping => Adding = {} /\ \A p \in Producers : ~Reconnecting(p)
  /\ \A c \in Consumers : pc[c] = "bind" => ~Reconnecting(Prod(c))

\* Only a producer with tracks has receivers.
ListInv ==
  /\ receivers \in [Producers -> [Kinds -> Conns \cup {Nil}]]
  /\ track \in [Consumers -> Conns \cup {Nil}]
  /\ \A p \in Producers, k \in Kinds : receivers[p][k] # Nil => state[p] \in {"tracks", "start"}
  /\ \A c \in Consumers, k \in Kinds : <<Nil, k>> \notin feeds[c]

Moving(w, p) == worker[w].at \in {"move", "assign"} /\ worker[w].prod = p

\* The connections of p: the one it has, those of its receivers, the coming one.
Has(p, x) ==
  \/ conn[p] = x
  \/ \E k \in Kinds : receivers[p][k] = x
  \/ \E w \in Slots : Moving(w, p) /\ worker[w].new = x

\* Producers share no connection, and a new connection has no receivers yet.
OwnInv ==
  /\ \A p, q \in Producers, x \in Conns : Has(p, x) /\ Has(q, x) => p = q
  /\ \A w \in Slots, p \in Producers, k \in Kinds :
       Moving(w, p) => receivers[p][k] # worker[w].new

\* The receiver that AddConsumer got is on the list until it binds it.
BindInv ==
  \A c \in Consumers :
    pc[c] = "bind" => track[c] # Nil /\ track[c] = receivers[Prod(c)][Kind(c)]

\* The producer that is about to be stopped has got no readers meanwhile.
StopInv == \A c \in Consumers : pc[c] = "stop" => ~HasReaders(sweep[c])

\* The receiver of p has been moved and is not on the list yet.
Swaps(w, p, k) == worker[w].at = "assign" /\ worker[w].prod = p /\ k \in worker[w].found

Feeding(c, p, k) ==
  \/ <<receivers[p][k], k>> \in feeds[c] /\ \A w \in Slots : ~Swaps(w, p, k)
  \/ \E w \in Slots : Swaps(w, p, k) /\ <<worker[w].new, k>> \in feeds[c]

Matched(c) == starts[c] # {} \/ pc[c] \in {"start", "in"}

\* What feeds a consumer that has matched is started, or will be.
FedInv ==
  \A c \in Consumers : Matched(c) =>
    \E p \in Producers, k \in Kinds : Feeding(c, p, k) /\ (state[p] = "start" \/ p \in starts[c])

ReadersInv == ListInv /\ OwnInv /\ BindInv /\ StopInv /\ FedInv

LEMMA PlaceOf ==
  ASSUME PlaceInv, NEW c \in Consumers
  PROVE  Kind(c) \in Kinds /\ Prod(c) \in Producers
<1>1. at[c] \in (1 .. Len(Wants)) \X Producers
  BY DEF PlaceInv
<1>2. at[c][1] \in 1 .. Len(Wants) /\ at[c][2] \in Producers
  BY <1>1
<1>3. Wants \in Seq(Kinds)
  OBVIOUS
<1> QED
  BY <1>2, <1>3 DEF Kind, Prod

LEMMA FeedingRuns ==
  ASSUME SlotInv, WorkerInv, ListInv,
         NEW c \in Consumers, NEW p \in Producers, NEW k \in Kinds, Feeding(c, p, k)
  PROVE  state[p] \in {"tracks", "start"}
<1>1. CASE \E w \in Slots : Swaps(w, p, k)
  <2> PICK w \in Slots : Swaps(w, p, k)
    BY <1>1
  <2>1. IsCurrent(w, p)
    BY DEF Swaps, SlotInv, IsCurrent
  <2> QED BY <2>1 DEF WorkerInv
<1>2. CASE ~\E w \in Slots : Swaps(w, p, k)
  <2>1. receivers[p][k] # Nil
    BY <1>2 DEF Feeding, ListInv
  <2> QED BY <2>1 DEF ListInv
<1> QED
  BY <1>1, <1>2

\* Connections that a step keeps or takes from nobody stay apart.
LEMMA OwnKept ==
  ASSUME OwnInv,
         NEW r \in Producers,
         \A p \in Producers, x \in Conns : Has(p, x)' => Has(p, x) \/ (p = r /\ Fresh(x))
  PROVE  \A p, q \in Producers, x \in Conns : Has(p, x)' /\ Has(q, x)' => p = q
<1>1. ASSUME NEW x \in Conns, Fresh(x), NEW p \in Producers PROVE ~Has(p, x)
  BY <1>1 DEF Fresh, Has, Moving
<1> QED
  BY <1>1 DEF OwnInv

\* Feeding does not look at other producers, or at other kinds.
LEMMA FeedingKept ==
  ASSUME NEW c \in Consumers, NEW p \in Producers, NEW k \in Kinds,
         receivers'[p][k] = receivers[p][k],
         \A w \in Slots : Swaps(w, p, k)' <=> Swaps(w, p, k),
         \A w \in Slots : Swaps(w, p, k) => worker'[w].new = worker[w].new,
         \A x : Has(p, x) /\ <<x, k>> \in feeds[c] => <<x, k>> \in feeds'[c],
         Feeding(c, p, k)
  PROVE  Feeding(c, p, k)'
<1>1. CASE \E w \in Slots : Swaps(w, p, k) /\ <<worker[w].new, k>> \in feeds[c]
  <2> PICK w \in Slots : Swaps(w, p, k) /\ <<worker[w].new, k>> \in feeds[c]
    BY <1>1
  <2>1. Has(p, worker[w].new)
    BY DEF Swaps, Has, Moving
  <2> QED BY <2>1 DEF Feeding
<1>2. CASE /\ <<receivers[p][k], k>> \in feeds[c]
           /\ \A w \in Slots : ~Swaps(w, p, k)
  <2>1. Has(p, receivers[p][k])
    BY DEF Has
  <2> QED BY <1>2, <2>1 DEF Feeding
<1> QED
  BY <1>1, <1>2 DEF Feeding

Base == IInv /\ FeedsInv /\ ReadersInv

\* Steps of a consumer that leave producers and workers alone.
LEMMA QuietReaders ==
  ASSUME Base, NEW c \in Consumers,
         \/ Add(c) \/ Match(c) \/ Done(c) \/ Admit(c) \/ LoadPending(c) \/ Remove(c)
         \/ CheckReaders(c)
  PROVE  ReadersInv'
<1> USE DEF Base, ReadersInv
<1>1. UNCHANGED <<state, conn, receivers, worker, track, starts>>
  BY DEF Add, Match, Done, Admit, LoadPending, Remove, CheckReaders, producer, adding
<1>2. DOMAIN pc = Consumers /\ DOMAIN feeds = Consumers
  BY DEF FeedsInv
<1>3. \A d \in Consumers : feeds'[d] \subseteq feeds[d]
  BY <1>2 DEF Add, Match, Done, Admit, LoadPending, Remove, CheckReaders
<1>4. \A d \in Consumers \ {c} : pc'[d] = pc[d] /\ at'[d] = at[d] /\ sweep'[d] = sweep[d]
                               /\ feeds'[d] = feeds[d]
  BY <1>2 DEF Add, Match, Advance, Done, Admit, LoadPending, Remove, CheckReaders, NextProducer,
     adding, IInv, PlaceInv
<1>5. /\ pc'[c] # "bind"
      /\ pc'[c] = "stop" => ~HasReaders(sweep[c]) /\ sweep' = sweep
      /\ Matched(c)' => Matched(c) /\ feeds'[c] = feeds[c]
  <2>1. CASE Add(c) \/ Match(c)
    <3>1. PICK l \in {"dial", "medias", "track", "done"} : pc' = [pc EXCEPT ![c] = l]
      BY <2>1 DEF Add, Match, Advance
    <3>2. feeds' = feeds
      BY <2>1 DEF Add, Match
    <3> QED BY <1>1, <1>2, <3>1, <3>2 DEF Matched
  <2>2. CASE Done(c)
    BY <1>1, <1>2, <2>2 DEF Done, Matched
  <2>3. CASE Admit(c)
    BY <1>1, <1>2, <2>3 DEF Admit, Matched
  <2>4. CASE LoadPending(c)
    BY <1>1, <1>2, <2>4 DEF LoadPending, Return, Matched
  <2>5. CASE Remove(c)
    BY <1>1, <1>2, <2>5 DEF Remove, Matched, FeedsInv
  <2>6. CASE CheckReaders(c)
    BY <1>1, <1>2, <2>6 DEF CheckReaders, NextProducer, Return, Matched
  <2> QED BY <2>1, <2>2, <2>3, <2>4, <2>5, <2>6
<1>6. ListInv'
  BY <1>1, <1>3 DEF ListInv
<1>7. OwnInv'
  BY <1>1 DEF OwnInv, Has, Moving
<1>8. BindInv'
  BY <1>1, <1>4, <1>5 DEF BindInv, Prod, Kind
<1>9. StopInv'
  <2>1. \A p : HasReaders(p)' => HasReaders(p)
    BY <1>1, <1>3 DEF HasReaders
  <2> QED BY <1>4, <1>5, <2>1 DEF StopInv
<1>10. FedInv'
  <2>1. \A d \in Consumers : Matched(d)' => Matched(d) /\ feeds'[d] = feeds[d]
    BY <1>1, <1>4, <1>5 DEF Matched
  <2>2. \A d \in Consumers, p \in Producers, k \in Kinds :
          feeds'[d] = feeds[d] => (Feeding(d, p, k)' <=> Feeding(d, p, k))
    BY <1>1 DEF Feeding, Swaps
  <2> QED BY <1>1, <2>1, <2>2 DEF FedInv
<1> QED
  BY <1>6, <1>7, <1>8, <1>9, <1>10

\* What is dialled had no receivers.
LEMMA DialReaders ==
  ASSUME Base, NEW c \in Consumers, Dial(c) PROVE ReadersInv'
<1> USE DEF Base, ReadersInv
<1> PICK r \in Producers : r = Prod(c)
  BY PlaceOf DEF IInv
<1>1. UNCHANGED <<receivers, worker, feeds, track, starts, sweep>>
  BY DEF Dial, producer
<1>2. DOMAIN pc = Consumers
  BY DEF FeedsInv
<1>3. \A d \in Consumers \ {c} : pc'[d] = pc[d] /\ at'[d] = at[d]
  BY <1>2 DEF Dial, Advance, IInv, PlaceInv
<1>4. pc'[c] \in {"dial", "medias", "done"}
  <2>1. \E l \in {"dial", "medias", "done"} : pc' = [pc EXCEPT ![c] = l]
    BY DEF Dial, Advance
  <2> QED BY <1>2, <2>1
<1>5. /\ \A p \in Producers : \/ state'[p] = state[p] /\ conn'[p] = conn[p]
                              \/ p = r /\ state[p] = "none" /\ conn'[p] = NewConn /\ HasNewConn
  BY DEF Dial, producer, IInv, ConnInv
<1>6. ListInv'
  BY <1>1, <1>5 DEF ListInv
<1>7. OwnInv'
  <2>1. \A x \in Conns, p \in Producers : Has(p, x)' => Has(p, x) \/ (p = r /\ Fresh(x))
    <3>1. HasNewConn => Fresh(NewConn)
      BY DEF HasNewConn, NewConn
    <3> QED BY <1>1, <1>5, <3>1 DEF Has, Moving
  <2>2. \A w \in Slots, p \in Producers, k \in Kinds :
          Moving(w, p)' => receivers'[p][k] # worker'[w].new
    BY <1>1 DEF OwnInv, Moving
  <2> QED BY <2>1, <2>2, OwnKept DEF OwnInv
<1>8. BindInv'
  BY <1>1, <1>3, <1>4 DEF BindInv, Prod, Kind
<1>9. StopInv'
  BY <1>1, <1>3, <1>4 DEF StopInv, HasReaders
<1>10. FedInv'
  <2>1. \A d \in Consumers : Matched(d)' => Matched(d)
    BY <1>1, <1>3, <1>4 DEF Matched
  <2>2. \A d \in Consumers, p \in Producers, k \in Kinds : Feeding(d, p, k)' <=> Feeding(d, p, k)
    BY <1>1 DEF Feeding, Swaps
  <2>3. \A p \in Producers : state[p] = "start" => state'[p] = "start"
    BY <1>5
  <2> QED BY <1>1, <2>1, <2>2, <2>3 DEF FedInv
<1> QED
  BY <1>6, <1>7, <1>8, <1>9, <1>10

\* A receiver is only entered where there was none, and nobody sweeps.
LEMMA TrackReaders ==
  ASSUME Base, Apart, NEW c \in Consumers, GetTrack(c) PROVE ReadersInv'
<1> USE DEF Base, ReadersInv
<1> PICK r \in Producers, l \in Kinds : r = Prod(c) /\ l = Kind(c)
  BY PlaceOf DEF IInv
<1>1. /\ pc[c] = "track" /\ UNCHANGED <<conn, worker, feeds, starts, sweep>>
      /\ ~Reconnecting(r)
  BY DEF GetTrack, producer
<1>2. DOMAIN pc = Consumers
  BY DEF FeedsInv
<1>3. \A d \in Consumers \ {c} : pc'[d] = pc[d] /\ at'[d] = at[d]
  BY <1>2 DEF GetTrack, Advance, IInv, PlaceInv
<1>4. pc'[c] \in {"dial", "done", "bind"}
  <2>1. \E m \in {"dial", "done", "bind"} : pc' = [pc EXCEPT ![c] = m]
    BY DEF GetTrack, Advance
  <2> QED BY <1>2, <2>1
<1>5. CASE state[r] = "none"
  <2>1. UNCHANGED <<state, receivers, track>> /\ pc'[c] # "bind"
    <3>1. \E m \in {"dial", "done"} : pc' = [pc EXCEPT ![c] = m]
      BY <1>5 DEF GetTrack, Advance
    <3> QED BY <1>2, <1>5, <3>1 DEF GetTrack, producer
  <2>2. ListInv' /\ OwnInv'
    BY <1>1, <2>1 DEF ListInv, OwnInv, Has, Moving
  <2>3. BindInv' /\ StopInv'
    BY <1>1, <1>3, <1>4, <2>1 DEF BindInv, Prod, Kind, StopInv, HasReaders
  <2>4. FedInv'
    <3>1. \A d \in Consumers : Matched(d)' => Matched(d)
      BY <1>1, <1>3, <1>4 DEF Matched
    <3>2. \A d \in Consumers, p \in Producers, k \in Kinds : Feeding(d, p, k)' <=> Feeding(d, p, k)
      BY <1>1, <2>1 DEF Feeding, Swaps
    <3> QED BY <1>1, <2>1, <3>1, <3>2 DEF FedInv
  <2> QED BY <2>2, <2>3, <2>4
<1>6. CASE state[r] # "none"
  <2> PICK x : x = IF receivers[r][l] # Nil THEN receivers[r][l] ELSE conn[r]
    OBVIOUS
  <2>1. /\ receivers' = [receivers EXCEPT ![r][l] = x]
        /\ state' = [state EXCEPT ![r] = IF @ = "medias" THEN "tracks" ELSE @]
        /\ track' = [track EXCEPT ![c] = x]
        /\ at' = at
    BY <1>6 DEF GetTrack
  <2>2. x \in Conns /\ Has(r, x)
    BY <1>6 DEF ListInv, IInv, ConnInv, Has
  <2>3. /\ receivers' \in [Producers -> [Kinds -> Conns \cup {Nil}]]
        /\ receivers'[r][l] = x
        /\ \A p \in Producers, k \in Kinds :
             \/ receivers'[p][k] = receivers[p][k]
             \/ p = r /\ k = l /\ receivers[p][k] = Nil
    BY <2>1, <2>2 DEF ListInv
  <2>4. /\ state'[r] \in {"tracks", "start"}
        /\ \A p \in Producers : state[p] = "start" => state'[p] = "start"
        /\ \A p \in Producers \ {r} : state'[p] = state[p]
    BY <1>6, <2>1 DEF IInv, ConnInv
  <2>5. track' \in [Consumers -> Conns \cup {Nil}] /\ track'[c] = x
        /\ \A d \in Consumers \ {c} : track'[d] = track[d]
    BY <2>1, <2>2 DEF ListInv
  <2>6. ListInv'
    BY <1>1, <2>3, <2>4, <2>5 DEF ListInv
  <2>7. \A p \in Producers, y \in Conns : Has(p, y)' => Has(p, y)
    BY <1>1, <2>2, <2>3 DEF Has, Moving
  <2>8. OwnInv'
    <3>1. \A w \in Slots, p \in Producers, k \in Kinds :
            Moving(w, p)' => receivers'[p][k] # worker'[w].new
      <4>1. \A w \in Slots, p \in Producers : Moving(w, p) => p # r
        BY <1>1 DEF Moving, Reconnecting
      <4>2. \A w \in Slots, p \in Producers : Moving(w, p)' <=> Moving(w, p)
        BY <1>1 DEF Moving
      <4> QED BY <1>1, <2>3, <4>1, <4>2 DEF OwnInv
    <3> QED BY <2>7, <3>1, OwnKept DEF OwnInv
  <2>9. BindInv'
    <3>1. ASSUME NEW d \in Consumers \ {c}, pc'[d] = "bind"
          PROVE  track'[d] # Nil /\ track'[d] = receivers'[Prod(d)][Kind(d)] /\ at'[d] = at[d]
      <4>1. /\ track[d] # Nil /\ track[d] = receivers[Prod(d)][Kind(d)]
            /\ Prod(d) \in Producers /\ Kind(d) \in Kinds
        BY <1>3, <3>1, PlaceOf DEF BindInv, IInv
      <4> QED BY <1>3, <2>3, <2>5, <3>1, <4>1
    <3>2. track'[c] = x /\ x # Nil /\ receivers'[r][l] = x
      BY <2>2, <2>3, <2>5
    <3>3. at' = at
      BY <2>1
    <3> QED BY <3>1, <3>2, <3>3 DEF BindInv, Prod, Kind
  <2>10. StopInv'
    BY <1>1, <1>3, <1>4 DEF Apart, Sweeping, Adding, StopInv
  <2>11. FedInv'
    <3>1. \A d \in Consumers : Matched(d)' => Matched(d)
      BY <1>1, <1>3, <1>4 DEF Matched
    <3>2. ASSUME NEW d \in Consumers, NEW p \in Producers, NEW k \in Kinds, Feeding(d, p, k)
          PROVE  Feeding(d, p, k)'
      BY <1>1, <2>3, <3>2 DEF Feeding, Swaps, ListInv
    <3> QED BY <1>1, <2>4, <3>1, <3>2 DEF FedInv
  <2> QED BY <2>6, <2>8, <2>9, <2>10, <2>11
<1> QED
  BY <1>5, <1>6

\* The receiver bound is on the list of a producer that will be started.
LEMMA BindReaders ==
  ASSUME Base, Apart, NEW c \in Consumers, Bind(c) PROVE ReadersInv'
<1> USE DEF Base, ReadersInv
<1> PICK r \in Producers, l \in Kinds : r = Prod(c) /\ l = Kind(c)
  BY PlaceOf DEF IInv
<1>1. /\ pc[c] = "bind" /\ UNCHANGED <<state, conn, receivers, open, worker, sweep>>
      /\ track' = [track EXCEPT ![c] = Nil]
  BY DEF Bind, producer
<1>2. DOMAIN pc = Consumers /\ DOMAIN feeds = Consumers
  BY DEF FeedsInv
<1>3. \A d \in Consumers \ {c} : /\ pc'[d] = pc[d] /\ at'[d] = at[d]
                                 /\ feeds'[d] = feeds[d] /\ starts'[d] = starts[d]
  BY <1>2 DEF Bind, Advance, IInv, PlaceInv
<1>4. pc'[c] \in {"dial", "done"}
  <2>1. \E m \in {"dial", "done"} : pc' = [pc EXCEPT ![c] = m]
    BY DEF Bind, Advance
  <2> QED BY <1>2, <2>1
<1>5. track[c] # Nil /\ track[c] = receivers[r][l] /\ ~Reconnecting(r)
  BY <1>1 DEF BindInv, Apart
<1>6. \/ feeds'[c] = feeds[c] /\ starts'[c] = starts[c]
      \/ /\ feeds'[c] = feeds[c] \cup {<<receivers[r][l], l>>}
         /\ starts'[c] = starts[c] \cup {r}
  <2>1. {<<track[c], Kind(c)>>} \ {<<Nil, Kind(c)>>} = {<<receivers[r][l], l>>}
    BY <1>5
  <2> QED BY <1>2, <2>1 DEF Bind, IInv, PlaceInv
<1>7. ListInv'
  BY <1>1, <1>3, <1>5, <1>6 DEF ListInv
<1>8. OwnInv'
  BY <1>1 DEF OwnInv, Has, Moving
<1>9. BindInv'
  <2>1. \A d \in Consumers \ {c} : track'[d] = track[d]
    BY <1>1 DEF ListInv
  <2> QED BY <1>1, <1>3, <1>4, <2>1 DEF BindInv, Prod, Kind
<1>10. StopInv'
  BY <1>1, <1>3, <1>4 DEF Apart, Sweeping, Adding, StopInv
<1>11. FedInv'
  <2>1. \A d \in Consumers, p \in Producers, k \in Kinds : Feeding(d, p, k) => Feeding(d, p, k)'
    BY <1>1, <1>3, <1>6 DEF Feeding, Swaps
  <2>2. ASSUME NEW d \in Consumers, Matched(d)'
        PROVE  \E p \in Producers, k \in Kinds :
                 Feeding(d, p, k)' /\ (state'[p] = "start" \/ p \in starts'[d])
    <3>1. CASE Matched(d)
      BY <1>1, <1>3, <1>6, <2>1, <3>1 DEF FedInv
    <3>2. CASE ~Matched(d)
      <4>1. d = c /\ <<receivers[r][l], l>> \in feeds'[c] /\ r \in starts'[c]
        BY <1>3, <1>4, <1>6, <2>2, <3>2 DEF Matched
      <4>2. Feeding(c, r, l)'
        BY <1>1, <1>5, <4>1 DEF Feeding, Swaps, Reconnecting
      <4> QED BY <4>1, <4>2
    <3> QED BY <3>1, <3>2
  <2> QED BY <2>2 DEF FedInv
<1> QED
  BY <1>7, <1>8, <1>9, <1>10, <1>11

\* A producer is started once it has tracks.
LEMMA StartReaders ==
  ASSUME Base, NEW c \in Consumers, Start(c) PROVE ReadersInv'
<1> USE DEF Base, ReadersInv
<1>1. PICK r \in starts[c] :
        /\ pc[c] = "start"
        /\ starts' = [starts EXCEPT ![c] = @ \ {r}]
        /\ pc' = [pc EXCEPT ![c] = IF starts[c] = {r} THEN "in" ELSE @]
        /\ \/ state[r] # "tracks" /\ UNCHANGED <<state, worker>>
           \/ /\ state[r] = "tracks" /\ state' = [state EXCEPT ![r] = "start"] /\ HasSlot
              /\ worker' = [worker EXCEPT ![NewSlot] = Work(r)]
  BY DEF Start
<1>2. r \in Producers
  BY DEF IInv, PlaceInv
<1>3. UNCHANGED <<conn, receivers, open, feeds, at, track, sweep>>
  BY DEF Start
<1>4. DOMAIN pc = Consumers
  BY DEF FeedsInv
<1>5. /\ \A d \in Consumers \ {c} : pc'[d] = pc[d] /\ starts'[d] = starts[d]
      /\ pc'[c] \in {"start", "in"} /\ starts'[c] = starts[c] \ {r}
  BY <1>1, <1>4 DEF IInv, PlaceInv
<1>6. \A p \in Producers : \/ state'[p] = state[p] /\ (p = r => state[p] # "tracks")
                           \/ p = r /\ state[p] = "tracks" /\ state'[p] = "start"
  BY <1>1, <1>2 DEF IInv, ConnInv
<1>7. \A w \in Slots : \/ worker'[w] = worker[w]
                       \/ worker[w].at = "free" /\ worker'[w].at = "run"
  <2>1. HasSlot => worker[NewSlot].at = "free" /\ NewSlot \in Slots
    BY ChosenSlot DEF Free
  <2> QED BY <1>1, <2>1 DEF Work, IInv, SlotInv
<1>8. ListInv'
  BY <1>3, <1>6 DEF ListInv
<1>9. \A w \in Slots, p \in Producers :
        Moving(w, p)' <=> Moving(w, p) /\ worker'[w] = worker[w]
  BY <1>7 DEF Moving
<1>10. OwnInv'
  BY <1>3, <1>9 DEF OwnInv, Has
<1>11. BindInv' /\ StopInv'
  BY <1>3, <1>5 DEF BindInv, Prod, Kind, StopInv, HasReaders
<1>12. FedInv'
  <2>1. \A d \in Consumers : Matched(d)' => Matched(d)
    BY <1>1, <1>5 DEF Matched
  <2>2. \A d \in Consumers, p \in Producers, k \in Kinds : Feeding(d, p, k) => Feeding(d, p, k)'
    BY <1>3, <1>7 DEF Feeding, Swaps
  <2>3. ASSUME NEW d \in Consumers, Matched(d)'
        PROVE  \E p \in Producers, k \in Kinds :
                 Feeding(d, p, k)' /\ (state'[p] = "start" \/ p \in starts'[d])
    <3>1. PICK p \in Producers, k \in Kinds :
            Feeding(d, p, k) /\ (state[p] = "start" \/ p \in starts[d])
      BY <2>1, <2>3 DEF FedInv
    <3>2. state[p] \in {"tracks", "start"}
      BY <3>1, FeedingRuns DEF IInv
    <3>3. state'[p] = "start" \/ p \in starts'[d]
      BY <1>5, <1>6, <3>1, <3>2
    <3> QED BY <2>2, <3>1, <3>3
  <2> QED BY <2>3 DEF FedInv
<1> QED
  BY <1>8, <1>10, <1>11, <1>12

\* Nobody reads from what is stopped.
LEMMA StopReaders ==
  ASSUME Base, Apart, NEW c \in Consumers, StopProducer(c) PROVE ReadersInv'
<1> USE DEF Base, ReadersInv
<1> PICK r \in Producers : r = sweep[c]
  BY DEF IInv, PlaceInv
<1>1. pc[c] = "stop" /\ UNCHANGED <<at, starts>> /\ ~Reconnecting(r) /\ ~HasReaders(r)
  BY DEF StopProducer, StopInv
<1>2. DOMAIN pc = Consumers /\ DOMAIN feeds = Consumers
  BY DEF FeedsInv
<1>3. /\ \A d \in Consumers \ {c} : pc'[d] = pc[d] /\ sweep'[d] = sweep[d]
      /\ pc'[c] \in {"check", "out", "added"}
      /\ pc'[c] = "added" => starts[c] # {}
  <2>1. NextProducer(c)
    BY DEF StopProducer
  <2> QED BY <1>2, <2>1 DEF NextProducer, Return, IInv, PlaceInv
<1>4. \A d \in Consumers : pc[d] # "bind" /\ (pc[d] = "stop" => ~HasReaders(sweep[d]))
  BY <1>1 DEF Apart, Sweeping, Adding, StopInv
<1>5. /\ \A p \in Producers \ {r} : /\ state'[p] = state[p] /\ conn'[p] = conn[p]
                                    /\ receivers'[p] = receivers[p]
      /\ \/ receivers'[r] = receivers[r] /\ state'[r] = state[r] /\ conn'[r] = conn[r]
         \/ conn'[r] = Nil /\ \A k \in Kinds : receivers'[r][k] = Nil
      /\ receivers' \in [Producers -> [Kinds -> Conns \cup {Nil}]]
  <2>1. NoReceivers \in [Kinds -> Conns \cup {Nil}]
    BY DEF NoReceivers
  <2>2. CASE UNCHANGED producer
    BY <2>2 DEF producer, ListInv
  <2>3. CASE ~UNCHANGED producer
    <3>1. /\ conn' = [conn EXCEPT ![r] = Nil] /\ state' = [state EXCEPT ![r] = "none"]
          /\ receivers' = [receivers EXCEPT ![r] = NoReceivers]
      BY <2>3 DEF StopProducer
    <3>2. conn'[r] = Nil /\ \A p \in Producers \ {r} : state'[p] = state[p] /\ conn'[p] = conn[p]
      BY <3>1 DEF IInv, ConnInv
    <3>3. receivers'[r] = NoReceivers /\ \A p \in Producers \ {r} : receivers'[p] = receivers[p]
      BY <3>1 DEF ListInv
    <3>4. receivers' \in [Producers -> [Kinds -> Conns \cup {Nil}]]
      BY <2>1, <3>1 DEF ListInv
    <3> QED BY <3>2, <3>3, <3>4 DEF NoReceivers
  <2> QED BY <2>2, <2>3
<1>6. \A w \in Slots : /\ worker'[w].at = worker[w].at
                       /\ worker[w].at # "free" => /\ worker'[w].prod = worker[w].prod
                                                   /\ worker'[w].new = worker[w].new
                                                   /\ worker'[w].found = worker[w].found
  <2>1. CASE worker' = worker
    BY <2>1
  <2>2. CASE worker' = Outdate(r)
    BY <2>2 DEF Outdate, IInv, SlotInv
  <2> QED BY <2>1, <2>2 DEF StopProducer
<1>7. /\ track' \in [Consumers -> Conns \cup {Nil}]
      /\ \A d \in Consumers : /\ feeds'[d] \subseteq feeds[d]
                              /\ \A x, k : <<x, k>> \in feeds[d] \ feeds'[d] =>
                                   k \in Kinds /\ x = receivers[r][k]
  <2>1. CASE UNCHANGED <<feeds, track>>
    BY <2>1 DEF ListInv
  <2>2. CASE Delist({<<receivers[r][k], k>> : k \in Kinds})
    BY <2>2 DEF Delist, ListInv
  <2> QED BY <2>1, <2>2 DEF StopProducer
<1>8. \A w \in Slots, p \in Producers : Moving(w, p)' <=> Moving(w, p)
  BY <1>6 DEF Moving
<1>9. \A p \in Producers, x \in Conns : Has(p, x)' => Has(p, x)
  <2> SUFFICES ASSUME NEW p \in Producers, NEW x \in Conns, Has(p, x)' PROVE Has(p, x)
    OBVIOUS
  <2>1. conn'[p] = x => conn[p] = x
    BY <1>5
  <2>2. ASSUME NEW k \in Kinds, receivers'[p][k] = x PROVE receivers[p][k] = x
    BY <1>5, <2>2
  <2>3. \A w \in Slots : Moving(w, p)' => Moving(w, p) /\ worker'[w].new = worker[w].new
    BY <1>6, <1>8 DEF Moving
  <2> QED BY <2>1, <2>2, <2>3 DEF Has
<1>10. ListInv'
  <2>1. ASSUME NEW p \in Producers, NEW k \in Kinds, receivers'[p][k] # Nil
        PROVE  state'[p] \in {"tracks", "start"}
    <3>1. receivers'[p] = receivers[p] /\ state'[p] = state[p]
      BY <1>5, <2>1
    <3> QED BY <2>1, <3>1 DEF ListInv
  <2>2. \A d \in Consumers, k \in Kinds : <<Nil, k>> \notin feeds'[d]
    BY <1>7 DEF ListInv
  <2> QED BY <1>5, <1>7, <2>1, <2>2 DEF ListInv
<1>11. OwnInv'
  <2>1. \A w \in Slots, p \in Producers, k \in Kinds :
          Moving(w, p)' => receivers'[p][k] # worker'[w].new
    <3>1. \A w \in Slots, p \in Producers : Moving(w, p) => p # r
      BY <1>1 DEF Moving, Reconnecting
    <3> QED BY <1>5, <1>6, <1>8, <3>1 DEF OwnInv, Moving
  <2> QED BY <1>9, <2>1, OwnKept DEF OwnInv
<1>12. BindInv'
  BY <1>3, <1>4 DEF BindInv
<1>13. StopInv'
  <2>1. ASSUME NEW p \in Producers, HasReaders(p)' PROVE HasReaders(p)
    <3>1. PICK k \in Kinds, d \in Consumers : <<receivers'[p][k], k>> \in feeds'[d]
      BY <2>1 DEF HasReaders
    <3>2. <<receivers'[p][k], k>> \in feeds[d]
      BY <1>7, <3>1
    <3>3. receivers'[p][k] = receivers[p][k] \/ receivers'[p][k] = Nil
      BY <1>5
    <3>4. <<Nil, k>> \notin feeds[d]
      BY DEF ListInv
    <3> QED BY <3>2, <3>3, <3>4 DEF HasReaders
  <2> QED BY <1>3, <1>4, <2>1 DEF StopInv, IInv, PlaceInv
<1>14. FedInv'
  <2>1. \A d \in Consumers : Matched(d)' => Matched(d)
    BY <1>1, <1>3 DEF Matched
  <2>2. ASSUME NEW d \in Consumers, NEW p \in Producers, NEW k \in Kinds, Feeding(d, p, k)
        PROVE  Feeding(d, p, k)' /\ state'[p] = state[p]
    <3>1. p # r
      BY <1>1, <2>2 DEF Feeding, Swaps, Reconnecting, HasReaders
    <3>2. \A x : Has(p, x) /\ <<x, k>> \in feeds[d] => <<x, k>> \in feeds'[d]
      <4> SUFFICES ASSUME NEW x, Has(p, x), <<x, k>> \in feeds[d], <<x, k>> \notin feeds'[d]
                   PROVE  FALSE
        OBVIOUS
      <4>1. x = receivers[r][k]
        BY <1>7
      <4>2. Has(r, x)
        BY <4>1 DEF Has
      <4>3. x \in Conns
        BY <4>1 DEF ListInv
      <4> QED BY <3>1, <4>2, <4>3 DEF OwnInv
    <3>3. \A w \in Slots : /\ Swaps(w, p, k)' <=> Swaps(w, p, k)
                           /\ Swaps(w, p, k) => worker'[w].new = worker[w].new
      BY <1>6 DEF Swaps
    <3> QED BY <1>5, <2>2, <3>1, <3>2, <3>3, FeedingKept
  <2> QED BY <1>1, <2>1, <2>2 DEF FedInv
<1> QED
  BY <1>10, <1>11, <1>12, <1>13, <1>14

\* A worker that waits or is of the past.
LEMMA WorkerReaders ==
  ASSUME Base, NEW w \in Slots, ConnEnds(w) \/ GiveUp(w) \/ Redial(w)
  PROVE  ReadersInv'
<1> USE DEF Base, ReadersInv
<1>1. UNCHANGED <<producer, feeds, pc, at, track, starts, sweep>>
  BY DEF ConnEnds, GiveUp, Redial, adding
<1>2. /\ worker[w].at \in {"run", "retry"}
      /\ \A v \in Slots \ {w} : worker'[v] = worker[v]
      /\ \/ worker'[w].at \in {"retry", "free"}
         \/ /\ worker'[w].at = "move" /\ worker'[w].prod = worker[w].prod
            /\ worker'[w].new = NewConn /\ HasNewConn
  <2>1. CASE ConnEnds(w)
    BY <2>1 DEF ConnEnds, Moved, Free, IInv, SlotInv
  <2>2. CASE GiveUp(w)
    BY <2>2 DEF GiveUp, Free, IInv, SlotInv
  <2>3. CASE Redial(w)
    BY <2>3 DEF Redial, IInv, SlotInv
  <2> QED BY <2>1, <2>2, <2>3
<1> PICK r \in Producers : r = worker[w].prod
  BY <1>2 DEF IInv, SlotInv
<1>3. HasNewConn => NewConn \in Conns /\ Fresh(NewConn)
  BY DEF HasNewConn, NewConn
<1>4. \A v \in Slots, p \in Producers :
        Moving(v, p)' => \/ Moving(v, p) /\ worker'[v] = worker[v]
                         \/ p = r /\ worker'[v].new = NewConn /\ HasNewConn
  BY <1>2 DEF Moving
<1>5. ListInv'
  BY <1>1 DEF producer, ListInv
<1>6. OwnInv'
  <2>1. \A p \in Producers, x \in Conns : Has(p, x)' => Has(p, x) \/ (p = r /\ Fresh(x))
    BY <1>1, <1>3, <1>4 DEF Has, producer
  <2>2. \A v \in Slots, p \in Producers, k \in Kinds :
          Moving(v, p)' => receivers'[p][k] # worker'[v].new
    BY <1>1, <1>3, <1>4 DEF OwnInv, producer, Fresh
  <2> QED BY <2>1, <2>2, OwnKept DEF OwnInv
<1>7. BindInv' /\ StopInv'
  BY <1>1 DEF BindInv, Prod, Kind, StopInv, HasReaders, producer
<1>8. FedInv'
  <2>1. \A v \in Slots, p \in Producers, k \in Kinds :
          Swaps(v, p, k)' <=> Swaps(v, p, k) /\ worker'[v] = worker[v]
    BY <1>2 DEF Swaps
  <2>2. \A d \in Consumers, p \in Producers, k \in Kinds : Feeding(d, p, k) => Feeding(d, p, k)'
    BY <1>1, <1>2, <2>1 DEF Feeding, producer, Swaps
  <2> QED BY <1>1, <2>2 DEF FedInv, Matched, producer
<1> QED
  BY <1>5, <1>6, <1>7, <1>8

\* The tracks of the one who reconnects are moved, and no others.
LEMMA MoveReaders ==
  ASSUME Base, Apart, NEW w \in Slots, MoveTracks(w) PROVE ReadersInv'
<1> USE DEF Base, ReadersInv
<1>1. /\ UNCHANGED <<producer, open, pc, at, track, starts, sweep>>
      /\ worker[w].at = "move" /\ worker' = [worker EXCEPT ![w] = Moved(w, "assign")]
  BY DEF MoveTracks, adding
<1> PICK r \in Producers, x \in Conns : r = worker[w].prod /\ x = worker[w].new
  BY <1>1 DEF IInv, SlotInv
<1>2. /\ \A v \in Slots \ {w} : worker'[v] = worker[v]
      /\ worker'[w].at = "assign" /\ worker'[w].prod = r /\ worker'[w].new = x
      /\ worker'[w].found = worker[w].found
  BY <1>1 DEF IInv, SlotInv, Moved
<1>3. Moving(w, r)
  BY <1>1 DEF Moving
<1>4. \A v \in Slots : Moving(v, r) => v = w
  <2>1. \A v \in Slots : Moving(v, r) => IsCurrent(v, r)
    BY DEF Moving, IsCurrent, IInv, SlotInv
  <2> QED BY <1>3, <2>1 DEF IInv, WorkerInv
<1> DEFINE To(f) == IF f[2] \in worker[w].found /\ f[1] = receivers[r][f[2]]
                    THEN <<x, f[2]>> ELSE f
<1>5. feeds' = [c \in Consumers |-> {To(f) : f \in feeds[c]}]
  BY DEF MoveTracks
<1>6. \A y, k : \A d \in Consumers : <<y, k>> \in feeds[d] =>
        IF k \in worker[w].found /\ y = receivers[r][k]
        THEN <<x, k>> \in feeds'[d] ELSE <<y, k>> \in feeds'[d]
  <2> SUFFICES ASSUME NEW d \in Consumers, NEW y, NEW k, <<y, k>> \in feeds[d]
               PROVE  To(<<y, k>>) \in feeds'[d]
    OBVIOUS
  <2> QED BY <1>5
<1>7. ASSUME NEW d \in Consumers, NEW k \in Kinds PROVE <<Nil, k>> \notin feeds'[d]
  <2> SUFFICES ASSUME NEW f \in feeds[d], To(f) = <<Nil, k>> PROVE FALSE
    BY <1>5
  <2>1. f # <<Nil, k>>
    BY DEF ListInv
  <2>2. <<x, f[2]>> # <<Nil, k>>
    OBVIOUS
  <2> QED BY <2>1, <2>2
<1> HIDE DEF To
<1>8. ListInv'
  BY <1>1, <1>7 DEF ListInv, producer
<1>9. \A v \in Slots, p \in Producers :
        (Moving(v, p)' <=> Moving(v, p)) /\ (Moving(v, p) => worker'[v].new = worker[v].new)
  BY <1>1, <1>2 DEF Moving
<1>10. OwnInv'
  BY <1>1, <1>9 DEF OwnInv, Has, producer
<1>11. BindInv'
  BY <1>1 DEF BindInv, Prod, Kind, producer
<1>12. StopInv'
  BY <1>1, <1>3 DEF Apart, Sweeping, Reconnecting, Moving, StopInv
<1>13. ASSUME NEW d \in Consumers, NEW p \in Producers, NEW k \in Kinds, Feeding(d, p, k)
       PROVE  Feeding(d, p, k)'
  <2>1. CASE p # r
    <3>1. \A y : Has(p, y) /\ <<y, k>> \in feeds[d] => <<y, k>> \in feeds'[d]
      <4> SUFFICES ASSUME NEW y, Has(p, y), <<y, k>> \in feeds[d] PROVE <<y, k>> \in feeds'[d]
        OBVIOUS
      <4>1. y # receivers[r][k]
        <5> SUFFICES ASSUME y = receivers[r][k] PROVE FALSE
          OBVIOUS
        <5>1. y \in Conns
          BY DEF ListInv
        <5>2. Has(r, y)
          BY DEF Has
        <5> QED BY <2>1, <5>1, <5>2 DEF OwnInv
      <4> QED BY <1>6, <4>1
    <3>2. \A v \in Slots : /\ Swaps(v, p, k)' <=> Swaps(v, p, k)
                           /\ Swaps(v, p, k) => worker'[v].new = worker[v].new
      BY <1>1, <1>2, <2>1 DEF Swaps
    <3>3. receivers'[p][k] = receivers[p][k]
      BY <1>1 DEF producer
    <3> QED BY <1>13, <3>1, <3>2, <3>3, FeedingKept
  <2>2. CASE p = r
    <3>1. \A v \in Slots : ~Swaps(v, p, k)
      BY <1>1, <1>4, <2>2 DEF Swaps, Moving
    <3>2. <<receivers[r][k], k>> \in feeds[d]
      BY <1>13, <2>2, <3>1 DEF Feeding
    <3>3. CASE k \in worker[w].found
      <4>1. Swaps(w, r, k)' /\ <<x, k>> \in feeds'[d]
        BY <1>2, <1>6, <3>2, <3>3 DEF Swaps
      <4> QED BY <1>2, <2>2, <4>1 DEF Feeding
    <3>4. CASE k \notin worker[w].found
      <4>1. <<receivers'[r][k], k>> \in feeds'[d]
        BY <1>1, <1>6, <3>2, <3>4 DEF producer
      <4>2. \A v \in Slots : ~Swaps(v, r, k)'
        BY <1>2, <2>2, <3>1, <3>4 DEF Swaps
      <4> QED BY <2>2, <4>1, <4>2 DEF Feeding
    <3> QED BY <3>3, <3>4
  <2> QED BY <2>1, <2>2
<1>14. FedInv'
  BY <1>1, <1>13 DEF FedInv, Matched, producer
<1> QED
  BY <1>8, <1>10, <1>11, <1>12, <1>14

\* The receivers that are entered have the senders by now.
LEMMA SwapReaders ==
  ASSUME Base, Apart, NEW w \in Slots, Swap(w) PROVE ReadersInv'
<1> USE DEF Base, ReadersInv
<1>1. UNCHANGED <<state, pc, at, starts, sweep>> /\ worker[w].at = "assign"
  BY DEF Swap
<1> PICK r \in Producers, x \in Conns : r = worker[w].prod /\ x = worker[w].new
  BY <1>1 DEF IInv, SlotInv
<1> DEFINE found == worker[w].found
<1>2. /\ receivers' = [receivers EXCEPT ![r] = [k \in Kinds |-> IF k \in found THEN x ELSE @[k]]]
      /\ conn' = [conn EXCEPT ![r] = x]
      /\ worker' = [worker EXCEPT ![w] = Work(r)]
      /\ Delist({<<receivers[r][k], k>> : k \in found})
  BY DEF Swap
<1>3. Moving(w, r) /\ Has(r, x)
  BY <1>1 DEF Moving, Has
<1>4. \A v \in Slots : Moving(v, r) => v = w
  <2>1. \A v \in Slots : Moving(v, r) => IsCurrent(v, r)
    BY DEF Moving, IsCurrent, IInv, SlotInv
  <2> QED BY <1>3, <2>1 DEF IInv, WorkerInv
<1>5. /\ \A v \in Slots \ {w} : worker'[v] = worker[v]
      /\ worker'[w].at = "run"
  BY <1>2 DEF IInv, SlotInv, Work
<1>6. /\ \A p \in Producers \ {r} : conn'[p] = conn[p] /\ receivers'[p] = receivers[p]
      /\ conn'[r] = x
      /\ \A k \in Kinds : receivers'[r][k] = IF k \in found THEN x ELSE receivers[r][k]
      /\ receivers' \in [Producers -> [Kinds -> Conns \cup {Nil}]]
  BY <1>2 DEF IInv, ConnInv, ListInv
<1>7. /\ track' \in [Consumers -> Conns \cup {Nil}]
      /\ \A d \in Consumers :
           /\ feeds'[d] = feeds[d] \ {<<receivers[r][k], k>> : k \in found}
           /\ track'[d] = track[d] \/ track[d] = receivers[r][Kind(d)]
  BY <1>2 DEF Delist, ListInv
<1> HIDE DEF found
<1>8. state[r] = "start"
  <2>1. IsCurrent(w, r)
    BY <1>1 DEF IsCurrent, IInv, SlotInv
  <2> QED BY <2>1 DEF IInv, WorkerInv
<1>9. ListInv'
  <2>1. \A p \in Producers, k \in Kinds :
          receivers'[p][k] # Nil => state'[p] \in {"tracks", "start"}
    BY <1>1, <1>6, <1>8 DEF ListInv
  <2>2. \A d \in Consumers, k \in Kinds : <<Nil, k>> \notin feeds'[d]
    BY <1>7 DEF ListInv
  <2> QED BY <1>6, <1>7, <2>1, <2>2 DEF ListInv
<1>10. \A v \in Slots, p \in Producers :
         Moving(v, p)' => p # r /\ Moving(v, p) /\ worker'[v] = worker[v]
  BY <1>4, <1>5 DEF Moving
<1>11. OwnInv'
  <2>1. \A p \in Producers, y \in Conns : Has(p, y)' => Has(p, y)
    <3> SUFFICES ASSUME NEW p \in Producers, NEW y \in Conns, Has(p, y)' PROVE Has(p, y)
      OBVIOUS
    <3>1. conn'[p] = y => Has(p, y)
      BY <1>3, <1>6 DEF Has
    <3>2. ASSUME NEW k \in Kinds, receivers'[p][k] = y PROVE Has(p, y)
      <4>1. CASE receivers'[p][k] = receivers[p][k]
        BY <3>2, <4>1 DEF Has
      <4>2. CASE p = r /\ y = x
        BY <1>3, <4>2
      <4> QED BY <1>6, <3>2, <4>1, <4>2
    <3> QED BY <1>10, <3>1, <3>2 DEF Has
  <2>2. \A v \in Slots, p \in Producers, k \in Kinds :
          Moving(v, p)' => receivers'[p][k] # worker'[v].new
    BY <1>6, <1>10 DEF OwnInv
  <2> QED BY <2>1, <2>2, OwnKept DEF OwnInv
<1>12. BindInv'
  <2> SUFFICES ASSUME NEW d \in Consumers, pc[d] = "bind"
               PROVE  track'[d] # Nil /\ track'[d] = receivers'[Prod(d)][Kind(d)]
    BY <1>1 DEF BindInv, Prod, Kind
  <2>1. /\ track[d] # Nil /\ track[d] = receivers[Prod(d)][Kind(d)] /\ ~Reconnecting(Prod(d))
        /\ Prod(d) \in Producers /\ Kind(d) \in Kinds
    BY PlaceOf DEF BindInv, Apart, IInv
  <2>2. Prod(d) # r
    BY <1>3, <2>1 DEF Reconnecting, Moving
  <2>3. track[d] # receivers[r][Kind(d)]
    <3>1. track[d] \in Conns /\ Has(Prod(d), track[d])
      BY <2>1 DEF ListInv, Has
    <3> SUFFICES ASSUME track[d] = receivers[r][Kind(d)] PROVE FALSE
      OBVIOUS
    <3>2. Has(r, track[d])
      BY <2>1 DEF Has
    <3> QED BY <2>1, <2>2, <3>1, <3>2 DEF OwnInv
  <2> QED BY <1>6, <1>7, <2>1, <2>2, <2>3
<1>13. StopInv'
  BY <1>1, <1>3 DEF Apart, Sweeping, Reconnecting, Moving, StopInv
<1>14. ASSUME NEW d \in Consumers, NEW p \in Producers, NEW k \in Kinds, Feeding(d, p, k)
       PROVE  Feeding(d, p, k)'
  <2>1. CASE p # r
    <3>1. \A y : Has(p, y) /\ <<y, k>> \in feeds[d] => <<y, k>> \in feeds'[d]
      <4> SUFFICES ASSUME NEW y, Has(p, y), <<y, k>> \in feeds[d], y = receivers[r][k]
                   PROVE  FALSE
        BY <1>7
      <4>1. y \in Conns
        BY DEF ListInv
      <4>2. Has(r, y)
        BY DEF Has
      <4> QED BY <2>1, <4>1, <4>2 DEF OwnInv
    <3>2. \A v \in Slots : /\ Swaps(v, p, k)' <=> Swaps(v, p, k)
                           /\ Swaps(v, p, k) => worker'[v].new = worker[v].new
      BY <1>1, <1>5, <2>1 DEF Swaps
    <3>3. receivers'[p][k] = receivers[p][k]
      BY <1>6, <2>1
    <3> QED BY <1>14, <3>1, <3>2, <3>3, FeedingKept
  <2>2. CASE p = r
    <3>1. \A v \in Slots : Swaps(v, r, k) => v = w
      BY <1>4 DEF Swaps, Moving
    <3>2. \A v \in Slots : ~Swaps(v, r, k)'
      BY <1>5, <3>1 DEF Swaps
    <3>3. CASE k \in found
      <4>1. <<x, k>> \in feeds[d]
        BY <1>1, <1>14, <2>2, <3>1, <3>3 DEF Feeding, Swaps, found
      <4>2. receivers[r][k] # x
        BY <1>3 DEF OwnInv
      <4>3. <<x, k>> \in feeds'[d]
        BY <1>7, <4>1, <4>2
      <4> QED BY <1>6, <2>2, <3>2, <3>3, <4>3 DEF Feeding
    <3>4. CASE k \notin found
      <4>1. <<receivers[r][k], k>> \in feeds[d]
        BY <1>14, <2>2, <3>1, <3>4 DEF Feeding, Swaps, found
      <4>2. <<receivers[r][k], k>> \in feeds'[d]
        BY <1>7, <3>4, <4>1
      <4> QED BY <1>6, <2>2, <3>2, <3>4, <4>2 DEF Feeding
    <3> QED BY <3>3, <3>4
  <2> QED BY <2>1, <2>2
<1>15. FedInv'
  BY <1>1, <1>14 DEF FedInv, Matched
<1> QED
  BY <1>9, <1>11, <1>12, <1>13, <1>15

LEMMA InitReaders == Init => ReadersInv
<1> SUFFICES ASSUME Init PROVE ReadersInv
  OBVIOUS
<1>1. ListInv /\ BindInv /\ StopInv
  BY DEF Init, ListInv, NoReceivers, BindInv, StopInv
<1>2. OwnInv
  BY DEF Init, OwnInv, Has, Moving, NoReceivers, Free
<1>3. FedInv
  BY DEF Init, FedInv, Matched
<1> QED
  BY <1>1, <1>2, <1>3 DEF ReadersInv

LEMMA NextReaders ==
  ASSUME Base, Apart, [Next]_vars PROVE ReadersInv'
<1>1. CASE UNCHANGED vars
  <2>1. UNCHANGED <<state, conn, receivers, worker, feeds, pc, at, track, starts, sweep>>
    BY <1>1 DEF vars, producer, adding
  <2>2. ListInv' /\ OwnInv' /\ BindInv' /\ StopInv'
    BY <2>1 DEF Base, ReadersInv, ListInv, OwnInv, Has, Moving, BindInv, Prod, Kind, StopInv,
       HasReaders
  <2>3. FedInv'
    BY <2>1 DEF Base, ReadersInv, FedInv, Matched, Feeding, Swaps
  <2> QED BY <2>2, <2>3 DEF ReadersInv
<1> QED
  BY <1>1, QuietReaders, DialReaders, TrackReaders, BindReaders, StartReaders, StopReaders,
     WorkerReaders, MoveReaders, SwapReaders DEF Next, ConsumerStep, WorkerStep

(* The comments in AddConsumer hold of a stream whose calls and reconnects stay
   apart, for any number of producers and consumers: a consumer that was added
   goes without packets only when a stopProducers overlaps an AddConsumer that
   began after it had looked at pending, or a reconnect, or when a track is bound
   while it is being moved (add_consumer.go:104-153, producer.go:173-270).    *)
THEOREM ApartAllAreFed == Spec /\ []Apart => []AddedIsFed
<1>1. WatchInv => FeedsInv
  BY DEF WatchInv
<1>2. IInv /\ FeedsInv /\ ReadersInv /\ Apart /\ [Next]_vars => ReadersInv'
  BY NextReaders DEF Base
<1>3. IInv /\ FeedsInv /\ ReadersInv => AddedIsFed
  <2> SUFFICES ASSUME IInv, FeedsInv, ReadersInv, AtRest, NEW c \in Consumers, pc[c] = "in"
               PROVE  \E p \in Producers, k \in Kinds :
                        state[p] = "start" /\ <<receivers[p][k], k>> \in feeds[c]
    BY DEF AddedIsFed
  <2>1. PICK p \in Producers, k \in Kinds :
          Feeding(c, p, k) /\ (state[p] = "start" \/ p \in starts[c])
    BY DEF ReadersInv, FedInv, Matched
  <2>2. starts[c] = {}
    BY DEF FeedsInv
  <2>3. <<receivers[p][k], k>> \in feeds[c]
    BY <2>1 DEF Feeding, Swaps, AtRest, Reconnecting
  <2> QED BY <2>1, <2>2, <2>3
<1> QED
  BY <1>1, <1>2, <1>3, InitReaders, Inductive, Watched, PTL DEF Spec
=============================================================================
