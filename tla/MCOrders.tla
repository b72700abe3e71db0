------------------------------- MODULE MCOrders -------------------------------
(* Instances of Orders for TLC: two orders that compete for the last units of *)
(* two products, or for one; an assigned and a completed event of order1.     *)
EXTENDS Orders, TLC

CONSTANTS item1, item2, order1, order2, ev1, ev2

OneOfTwo == order1 :> <<item1, item2>> @@ order2 :> <<item2>>
CrossedItems == order1 :> <<item1, item2>> @@ order2 :> <<item2, item1>>
SharedItems == order1 :> <<item1>> @@ order2 :> <<item1>>

One == [p \in Product |-> 1]
Two == [p \in Product |-> 2]
OneOfItem2 == [p \in Product |-> IF p = item2 THEN 1 ELSE 2]

\* What stock keeping sets quantities to.
NoQuantity == [p \in Product |-> {}]
UpToOneOfItem2 == [p \in Product |-> IF p = item2 THEN {0, 1} ELSE {}]

EventsOfOne == [e \in Event |-> order1]
Statuses == [e \in Event |-> IF e = ev2 THEN "delivered" ELSE "processing"]

\* No process dies, and stock keeping leaves the products alone.
CalmNext ==
  \/ \E r \in Req : Begin(r) \/ Advance(r) \/ Serve(r)
  \/ \E c \in late : ServeLate(c)

CalmSpec == Init /\ [][CalmNext]_vars

ReqSymmetry == Permutations(Req)
==============================================================================
