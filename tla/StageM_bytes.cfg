SPECIFICATION Spec
CONSTANTS
  None = None
  t1 = t1
  t2 = t2
  io1 = io1
  Ways = {w1, w2}
  Csis = {0}
  Tags <- TwoTags
  LastWord = 1
  Lanes <- Two
  SbSize = 3
  IoAddr <- Io1
  Program <- BytesAndWords
  DevSize = 2
  SlowPeripherals = FALSE
  LoadBehindStore = "hits"
SYMMETRY SymmetricWays
INVARIANTS CoreInv CacheCoherent RestartEnds StoreBufferSlots
PROPERTIES NothingLost SequentialSpec
