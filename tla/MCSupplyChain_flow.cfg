SPECIFICATION FairSpec
CONSTANTS
  item1 = item1
  order1 = order1
  Product = {item1}
  Order = {order1}
  Items <- MCItems
  Capacity <- MCCapacity
  Quantity <- NoQuantity
  Deletable = {item1}
  Web = {w1}
  Thread = {t1}
  Staff = {s1}
  MaxLate = 0
  MaxPublished = 1
  MaxAttempts = 2
  NoReq = NoReq
  NoOrder = NoOrder
  NoEvent = NoEvent
INVARIANTS TypeOK DeliveredWasShipped FulfilledOrdersExist OnlyOvertakenCompletionsDie StockIsAccountedFor
PROPERTIES CompletionsSettle
CHECK_DEADLOCK FALSE
