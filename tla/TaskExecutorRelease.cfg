SPECIFICATION FairRelease
CONSTANTS
  Capacity = 2
  MaxTasks = 2
  MaxStores = 1
  Killers = {}
PROPERTIES
  ResultRetrieved
CHECK_DEADLOCK FALSE
