SPECIFICATION WorkSpec
CONSTANTS
  Capacity = 2
  MaxTasks = 2
  MaxStores = 3
  Killers = {1}
PROPERTIES
  HardStopHeeded
CHECK_DEADLOCK FALSE
