SPECIFICATION FairSpec
CONSTANTS
  None = None
  t1 = t1
  t2 = t2
  io1 = io1
  Ways = {w1}
  Csis = {0}
  Tags <- TwoTags
  LastWord = 1
  Lanes <- One
  SbSize = 4
  IoAddr <- Io1
  Program <- Few
  DevSize = 3
  SlowPeripherals = TRUE
  LoadBehindStore = "hits"
PROPERTIES RestartedRetires
