CONSTANTS
  Threads = {t1}
  Processes = {p1}
  ProcessOf <- OwnProcess
  Readers = {r1}
  Inodes = {i1, i2, i3}
  NoInode = NoInode
  Payloads <- TwoPayloads
  Faults = {"flush"}
  MaxCalls = 2
  MaxCrashes = 0
VIEW Seen
SPECIFICATION Spec
INVARIANTS
  NeverHalfWritten
CHECK_DEADLOCK FALSE
