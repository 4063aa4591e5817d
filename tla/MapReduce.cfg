SPECIFICATION FairSpec
CONSTANTS
  N = 5
INVARIANTS
  IInv
PROPERTIES
  IsSequentialFold
  CallEnds
