SPECIFICATION SpecAny
CONSTANTS
  TreeCapacity = 5
  TreeKeys = {1, 2, 3, 4, 5, 6}
  ListCapacity = 4
  Values = {v1, v2}
  NoValue = NoValue
  Capacity = 4
  Keys = {0, 1, 4, 5, 8}
  TallErases = 2
INVARIANTS
  ListLinked
  EveryKeyFound
  TreesOrdered
  StaysBalanced
PROPERTIES
  IsList
  IsMap
  IsSet
