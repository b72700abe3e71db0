SPECIFICATION Spec
CONSTANTS
  order1 = order1
  Order = {order1}
  Req = {r1, r2, r3}
  Event = {e1, e2}
  EventOrder <- EventsOfOne
  MaxPublished = 3
  NoReq = NoReq
  NoOrder = NoOrder
  NoEvent = NoEvent
SYMMETRY ReqSymmetry
INVARIANTS TypeOK AssignedOncePerRecord CompletedWasShipped EventsWereCommitted
CHECK_DEADLOCK FALSE
