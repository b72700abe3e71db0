SPECIFICATION Spec
CONSTANTS
  svc1 = svc1
  svc2 = svc2
  Service = {svc1, svc2}
  MaxRequests <- TwoAndOne
  Window = 5
  Grace = 1
  MaxLag = 2
  MaxTime = 7
INVARIANTS TypeOK NoBurst RefusalsAreEarned
