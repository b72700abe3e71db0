SPECIFICATION SmallSpec
CONSTANTS
  p1 = p1
  p2 = p2
  e1 = e1
  e2 = e2
  Product = {p1, p2}
  Event = {e1, e2}
  Tx = {t1, t2}
  Items <- CrossedItems
  Needed <- MCNeeded
  Quantity <- NoneOrTwo
  MaxVersion = 2
  NoTx = NoTx
  NoProduct = NoProduct
  NoEvent = NoEvent
INVARIANTS TypeOK ReservedMatchesLedger
PROPERTIES NeverOversell DeletedIsFinal ImplementsPool EveryTxEnds
CHECK_DEADLOCK FALSE
