SPECIFICATION BitsSpec
CONSTANTS
  Chunks = 3
  Word = 3
  Half = 8
  Promoted = FALSE
INVARIANTS
  FindsEnds
  MinMaxExact
PROPERTIES
  IsBitSet
