SPECIFICATION FairSpec
CONSTANTS
  Consumers = {c1, c2}
  NProducers = 1
  Kinds = {"audio", "video"}
  Wants <- AudioVideo
  Offers <- VideoOnly
  MatchAll = {}
  Conns = {x1, x2, x3}
  Slots = {w1, w2}
  Nil = Nil
INVARIANTS OneWorker NoLeak IdleIsStopped
PROPERTIES StartedIsServed
