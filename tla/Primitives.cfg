CONSTANTS
  Threads = {t1, t2, t3, t4}
  Waiters = {w1, w2, w3}
  Producers = {p1, p2}
  MaxItems = 2
  MaxLeaks = 1
  Callers = {c1, c2, c3, c4}
  Keys = {k1, k2, k3}
  Values = {v1}
  TSS_DTOR_ITERATIONS = 2
  Deletable = {k1, k2, k3}
  MaxResets = 1
  Failing = {1, 2}
SPECIFICATION MCSpec
INVARIANTS
  CountersExact
  NobodyForgotten
  ConditionKeepsCount
  OnceAndBefore
  ThreadExitCleansUp
PROPERTIES
  ImplementsSharedLock
  WaitersServed
CHECK_DEADLOCK FALSE
