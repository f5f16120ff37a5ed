SPECIFICATION MCSpec
CONSTANTS
  burst_bits = 2
  Words = 8
  FlashFrom = 4
  Stored = {3}
  Values = {16}
  Ids = {1, 3}
  None = None
  FlashDelay = 1
  ResetCycles = 2
  wait_cycles = 3
  FB_BEGIN = 0
  FB_SIZE = 32
  AddressMod = 4
  Threshold = 16
  FifoSize = 64
  WordTime = 4
  Porch = 60
  SyncCycles = 10
INVARIANTS MCTypeOK FifoHasRoom  YariAsked YariGetsItsTurn
PROPERTIES BlockramBursts SramBursts Sram16Bursts 
