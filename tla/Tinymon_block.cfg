SPECIFICATION MCSpec
CONSTANTS
  None = None
  WordMod = 64
  WordBytes = 2
  ChkMod = 16
  Digits = 2
  LineWords = 1
  Programs <- ClearLike
  Flaw <- NumbersAndBlocks
  a = a
  nl = nl
  BufSize = 4
  Tags = 6
  ByteTime = 3
  Windows = {3, 5}
PROPERTIES
  StartsWhatWasSent
