CONSTANTS
  Threads = {t1, t2}
  Processes = {p1, p2}
  ProcessOf <- OwnProcess
  Readers = {r1}
  Inodes = {i1, i2, i3, i4, i5}
  NoInode = NoInode
  Payloads <- TwoPayloads
  Faults = {"open", "write", "rename"}
  MaxCalls = 2
  MaxCrashes = 1
VIEW Seen
SPECIFICATION Spec
INVARIANTS
  NeverHalfWritten
  ReadersSeeOneWrite
  TempsOnlyLeftByCrash
PROPERTIES
  ImplementsFileRegister
CHECK_DEADLOCK FALSE
