SPECIFICATION Spec
CONSTANTS
  item1 = item1
  item2 = item2
  order1 = order1
  order2 = order2
  ev1 = ev1
  ev2 = ev2
  Product = {item1, item2}
  Order = {order1, order2}
  Req = {r1, r2}
  Items <- OneOfTwo
  Capacity <- OneOfItem2
  Quantity <- UpToOneOfItem2
  Deletable = {item1}
  Event = {ev1, ev2}
  EventOrder <- EventsOfOne
  EventStatus <- Statuses
  MaxLate = 1
  NoReq = NoReq
  NoOrder = NoOrder
  NoEvent = NoEvent
INVARIANTS TypeOK PublishedOrdersHoldTheirItems UndisturbedOrdersAddUp ReservesOncePerItem NoUnitIsPromisedTwice NoRequestIsStuck
PROPERTIES EventMovesOrderOnce RequestsGoForward
SYMMETRY ReqSymmetry
CHECK_DEADLOCK FALSE
