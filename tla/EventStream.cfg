SPECIFICATION FairStream
CONSTANTS
  QueueSize = 1
  MaxOrders = 1
  Size = 10
  Shift = 2
  MinPrice = 1
  MaxPrice = 11
  CenterPrice = 5
  Ids = {1, 2, 3}
  MinQty = 1
  MaxQty = 1
  Requests = {"limit", "cancel"}
  ClientPrices = {1, 2, 4, 8, 10}
INVARIANTS
  BookSound
  ReaderKnows
PROPERTIES
  RequestsEnd
