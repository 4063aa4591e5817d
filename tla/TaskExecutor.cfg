SPECIFICATION FairSpec
CONSTANTS
  Capacity = 2
  MaxTasks = 5
  MaxStores = 3
  Killers = {}
INVARIANTS
  StopDrains
  AnswersInOrder
PROPERTIES
  HardStopHeeded
  CallsReturn
CHECK_DEADLOCK FALSE
