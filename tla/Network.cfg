CONSTANTS
  SizeMax = 63
  MaxBody = 4
  MaxHeader = 8
  ReadChunk = 3
  MaxChunks = 2
  Requests <- AllRequests
  Threads = {t1, t2}
  Sockets = {f1, f2, f3}
  Slots = {1, 2}
  Objects = {o1, o2, o3}
  None = None
  MayCleanUp = TRUE
SPECIFICATION MCSpec
CHECK_DEADLOCK FALSE
INVARIANTS
  FindsTheRequest
  DecodesAnySplit
  SessionsOfConnections
  VerifiedIsTrusted
