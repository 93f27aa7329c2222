CONSTANTS
  Tasks = {t1, t2}
  Clients = {c1}
  NumThreads = 1
  NoTask = NoTask
SPECIFICATION FairSpec
PROPERTIES
  DestroyDiscardsQueue
