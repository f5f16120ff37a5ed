SPECIFICATION MCSpec
CONSTANTS
  r1 = r1
  r2 = r2
  Regs = {r1, r2}
  R0 = r0
  Size = 4
  Handler = 3
  Programs <- MCPrograms
  None = None
  SettleBound = 6
  OneShotRaces = FALSE
  Width = 3
  Operands = {0, 1, 3, 4, 6}
INVARIANTS
  TypeOK
  DelaySlotInv
  HiIsCommitted
  RestartsAgree
  Settles
  ProductsExact
  QuotientsExact
PROPERTIES
  OnlyTransfersReplay
  RetiresInOrder
  UnitProgresses
