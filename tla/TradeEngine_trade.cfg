SPECIFICATION Spec
CONSTANTS
  MaxOrders = 2
  Size = 8
  Shift = 1
  MinPrice = 1
  MaxPrice = 8
  CenterPrice = 4
  Ids = {1, 2, 3}
  MinQty = 1
  MaxQty = 2
  Requests = {"limit", "fok", "cancel"}
  ClientPrices = {1, 2, 6, 8}
INVARIANTS
  Uncrossed
  SidesAgree
  FokAllOrNothing
PROPERTIES
  IsMatchingBook
