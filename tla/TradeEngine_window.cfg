SPECIFICATION Spec
CONSTANTS
  MaxOrders = 2
  Size = 8
  Shift = 1
  MinPrice = 1
  MaxPrice = 10
  CenterPrice = 6
  Ids = {1, 2}
  MinQty = 1
  MaxQty = 2
  Requests = {"limit", "ioc", "fok", "update", "cancel"}
  ClientPrices = {1, 2, 3, 4, 5, 6, 7, 8, 9, 10}
INVARIANTS
  WindowFollows
  BookSound
PROPERTIES
  IsMatchingBook
