SPECIFICATION FairSpec
CONSTANTS
  Capacity = 2
  Producers = {p1, p2, p3}
  Consumers = {c1, c2, c3}
  Values = {v1, v2}
  NoValue = NoValue
INVARIANTS
  IInv
PROPERTIES
  IsFairFifo
  WaitingPushEnters
