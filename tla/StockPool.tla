------------------------------ MODULE StockPool ------------------------------
(***************************************************************************)
(* What the Inventory service promises its callers: a pool of stock per    *)
(* product that changes by whole operations.  An operation happens at once *)
(* or not at all, a grant is covered by the stock on hand at that moment,  *)
(* and the reservation for an order.created event is made for all of its   *)
(* items together and at most once.  Transactions, locks, crashes and      *)
(* duplicate deliveries are Inventory's business.                          *)
(***************************************************************************)
EXTENDS Integers

CONSTANTS
  Product, Event,
  Amount,       \* the amounts a request may name
  Demand        \* Demand[e][p]: units of p that the order of event e asks for

VARIABLES
  stock,        \* per product: [state, available, reserved]
  granted,      \* net units granted to callers and events
  handled       \* the events whose reservation was made

poolVars == <<stock, granted, handled>>

Live(a) == [state |-> "live", available |-> a, reserved |-> 0]
Unborn == [state |-> "unborn", available |-> 0, reserved |-> 0]

IsLive(p) == stock[p].state = "live"
OnHand(p) == stock[p].available - stock[p].reserved

PoolInit ==
  /\ stock \in [Product -> {Unborn} \cup {Live(a) : a \in Amount}]
  /\ granted = [p \in Product |-> 0]
  /\ handled = {}

Add(p, a) ==
  /\ stock[p].state = "unborn"
  /\ stock' = [stock EXCEPT ![p] = Live(a)]
  /\ UNCHANGED <<granted, handled>>

Grant(d) ==     \* d[p] units of every product p, or nothing
  /\ \A p \in Product : d[p] > 0 => IsLive(p) /\ d[p] <= OnHand(p)
  /\ stock' = [p \in Product |-> [stock[p] EXCEPT !.reserved = @ + d[p]]]
  /\ granted' = [p \in Product |-> granted[p] + d[p]]

GrantOne(p, q) ==
  /\ Grant([r \in Product |-> IF r = p THEN q ELSE 0])
  /\ UNCHANGED handled

GrantOrder(e) ==
  /\ e \notin handled
  /\ handled' = handled \cup {e}
  /\ Grant(Demand[e])

TakeBack(p, q) ==
  /\ IsLive(p)
  /\ q <= stock[p].reserved
  /\ stock' = [stock EXCEPT ![p].reserved = @ - q]
  /\ granted' = [granted EXCEPT ![p] = @ - q]
  /\ UNCHANGED handled

Recount(p, a) ==   \* quantity_available is set by hand, also below reserved
  /\ IsLive(p)
  /\ stock' = [stock EXCEPT ![p].available = a]
  /\ UNCHANGED <<granted, handled>>

Drop(p) ==
  /\ IsLive(p)
  /\ stock' = [stock EXCEPT ![p].state = "deleted"]
  /\ UNCHANGED <<granted, handled>>

PoolNext ==
  \/ \E p \in Product, a \in Amount :
       Add(p, a) \/ GrantOne(p, a) \/ TakeBack(p, a) \/ Recount(p, a)
  \/ \E p \in Product : Drop(p)
  \/ \E e \in Event : GrantOrder(e)

PoolSpec == PoolInit /\ [][PoolNext]_poolVars
==============================================================================
