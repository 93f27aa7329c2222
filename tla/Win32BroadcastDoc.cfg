CONSTANTS
  Waiters = {w1, w2, w3}
  Producers = {p1, p2}
  MaxItems = 2
  MaxLeaks = 0
SPECIFICATION Spec
INVARIANT BroadcastReachesAll
