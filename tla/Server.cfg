CONSTANTS
  Tasks = {t1, t2}
  Clients = {c1, c2}
  NumThreads = 2
  NoTask = NoTask
  Servers = {s1, s2}
  Stops = {p1, p2}
  Visitors = {v1}
  Port <- SamePort
  None = None
  Overlap = FALSE
  WakerMayFail = TRUE
SPECIFICATION MCSpec
INVARIANTS
  PendingIsOutstanding
  WaitCoversEarlierTasks
  FreedOnlyAfterWorkers
  NoLostWakeup
  PublishedIsOpen
  DrainedBeforeReturn
PROPERTIES
  ImplementsFairExecutor
  CallsReturn
  StopSticks
  ServedOnce
  StopEndsServer
