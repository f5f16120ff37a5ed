SPECIFICATION Spec
CONSTANTS
  burst_bits = 2
  Words = 8
  FlashFrom = 8
  Stored = {0}
  Values = {16}
  Ids = {1, 3}
  None = None
  FlashDelay = 1
  ResetCycles = 2
  FB_BEGIN = 4
  FB_SIZE = 16
  AddressMod = 128
  Threshold = 16
  FifoSize = 64
  WordTime = 1
  Porch = 16
  SyncCycles = 10
INVARIANTS ReadsTheFrameBuffer
