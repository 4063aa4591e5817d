SPECIFICATION Spec
CONSTANTS
  MaxOrders = 4
  Ids = {1, 2}
  Qtys = {1, 2}
INVARIANTS
  WellLinked
  CountersMatch
PROPERTIES
  IsLevel
