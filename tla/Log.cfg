SPECIFICATION Spec
CONSTANTS
  Threads = {t1, t2}
  Levels = {0}
  Paths = {log, p1}
  Archives = {a1}
  DefaultPath = log
  None = None
  MaxMessages = 2
  MaxSize = 1
  Limits = {0, 1}
  MayFail = TRUE
SYMMETRY ThreadSymmetry
INVARIANTS
  RateLimited
  CountsWritten
  MessagesKept
