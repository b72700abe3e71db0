SPECIFICATION Spec
CONSTANTS
  item1 = item1
  item2 = item2
  order1 = order1
  order2 = order2
  ev1 = ev1
  ev2 = ev2
  Product = {item1}
  Order = {order1, order2}
  Req = {r1, r2}
  Items <- SharedItems
  Capacity <- Two
  Quantity <- NoQuantity
  Deletable = {}
  Event = {ev1, ev2}
  EventOrder <- EventsOfOne
  EventStatus <- Statuses
  MaxLate = 1
  NoReq = NoReq
  NoOrder = NoOrder
  NoEvent = NoEvent
SYMMETRY ReqSymmetry
PROPERTIES TransitionsAreEnforced
CHECK_DEADLOCK FALSE
