SPECIFICATION Spec
CONSTANTS
  r1 = r1
  r2 = r2
  Regs = {r1, r2}
  R0 = r0
  Size = 4
  Handler = 3
  Programs <- MCRacePrograms
  None = None
  SettleBound = 6
  OneShotRaces = TRUE
PROPERTIES
  RetiresInOrder
