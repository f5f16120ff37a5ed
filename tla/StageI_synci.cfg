SPECIFICATION MCSpec
CONSTANTS
  Words = 2
  Sets = 1
  Tags = 2
  Ways = {w1, w2}
  Stored <- FirstWord
  Targets <- EachLine
  SbSize = 1
  BusyCycles = 5
  None = None
  WayCount = 2
  CacheLines = {0}
  LineWords = {0, 1}
  MemoryTags = {1, 2, 3}
  Written <- WrittenWords
  Nothing = Nothing
SYMMETRY WaySymmetry
INVARIANTS
  TypeOK
  OneHot
  FillInStep
  FetchesInOrder
PROPERTIES
  CodeIsSynchronised
  FetchesAllowed
