CONSTANTS
  Keys = {k1, k2, k3}
  Values = {v1}
  TSS_DTOR_ITERATIONS = 4
  MaxResets = 0
  Deletable = {}
  Failing = {}
SPECIFICATION Spec
INVARIANT DestructorsRun
CHECK_DEADLOCK FALSE
