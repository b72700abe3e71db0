----------------------------- MODULE MCInventory -----------------------------
(* An instance of Inventory for TLC: two products, and two order.created    *)
(* events whose items name them in opposite orders, one of them p1 twice.   *)
EXTENDS Inventory, TLC

CONSTANTS p1, p2, e1, e2

I(p, q) == [product |-> p, quantity |-> q]

\* Needed as the fold that NeededAssumption describes.
RunningTotal(items) ==
  LET total[n \in 0 .. Len(items)] ==
        IF n = 0 THEN [p \in Product |-> 0]
        ELSE [p \in Product |-> total[n - 1][p] +
                (IF items[n].product = p THEN items[n].quantity ELSE 0)]
  IN total

MCNeeded == [e \in Event |-> RunningTotal(Items[e])]

CrossedItems == e1 :> <<I(p1, 1), I(p2, 1)>> @@ e2 :> <<I(p2, 1), I(p1, 1), I(p1, 1)>>
NoneOrTwo == {0, 2}

\* At the start there are two units of p2, and p1 is yet to be created or has two.
SmallInit == Init /\ row[p2] = NewRow(2) /\ row[p1] \in {NoRow, NewRow(2)}
SmallSpec == SmallInit /\ [][Next]_vars /\ Fairness
==============================================================================
