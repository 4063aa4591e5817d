SPECIFICATION FairSpec
CONSTANTS
  Capacity = 3
  Values = {v1, v2}
  NoValue = NoValue
INVARIANTS
  IInv
  NoDataRace
PROPERTIES
  PushAfterNotFull
  PopAfterNotEmpty
  IsFifo
  IsFairFifo
