CONSTANTS
  InitialCapacity = 2
  EmptyCapacity = 1
  ItemSize = 1
  SizeMax = 3
  Zero = 0
  Objects = {a, b}
  Items = {0, 1}
  MaxLength = 3
  BlockSize = 2
  MaxNodes = 4
  MoreItems = {0, 1, 2}
  MaxLonger = 4
  MaxTogether = 4
  HeapSizeMax = 7
  FirstSlabCap = 1
  MaxSlabCap = 2
  Elements = {1, 2, 3, 4, 5}
  MapKeys = {1, 2}
  MapValues = {1, 2}
  HashKeys = {1, 3, 4}
  HashValues = {1}
  Counts = {3}
  MaxBuckets = 4
SPECIFICATION MCSpec
VIEW View
CONSTRAINT FewItems
INVARIANTS
  WellFormed
  ComparesByContent
PROPERTIES
  ContainersImplement
  IteratorsSurvive
CHECK_DEADLOCK FALSE
