----------------------------- MODULE SupplyChain -----------------------------
(***************************************************************************)
(* The three services and the events between them.  The Order service is   *)
(* the module Orders, which includes Inventory's promise to HTTP callers   *)
(* (StockPool); the Fulfillment service is the module Fulfillment; and     *)
(* Inventory's order.created subscriber makes a whole reservation          *)
(* (GrantOrder).  Pub/Sub delivers a copy of every event to each service   *)
(* that consumes it, at least once and in any order, at most MaxAttempts   *)
(* times; a service that has processed an event acknowledges further       *)
(* deliveries without a step.                                              *)
(*                                                                         *)
(* Handlers of events run in threads of their own (Thread), requests in    *)
(* the event loop (Web).  Stock keeping sets quantities and deletes        *)
(* products.  Left out: Inventory's fulfillment.completed subscriber,      *)
(* which changes no stock; replays by hand; products that are new.         *)
(***************************************************************************)
EXTENDS Integers, Sequences, FiniteSets, Functions

CONSTANTS
  Product, Order, Items, Capacity, Quantity, Deletable,   \* see Orders
  Web, Thread,        \* slots of the Order service
  Staff,              \* slots of the Fulfillment service
  MaxLate, MaxPublished,
  MaxAttempts,        \* max_delivery_attempts of a subscription
  NoReq, NoOrder, NoEvent

VARIABLES
  \* Inventory and the Order service, see Orders
  stock, granted, handled, status, rowLock, req, call, late, published,
  processed, used, holds, troubled, cancelling, shorted,
  \* the Fulfillment service, see Fulfillment
  record, recordLock, job, recorded, assigned, completed, reached, undone,
  \* Pub/Sub
  attempts,    \* deliveries per copy of an event
  overtaken    \* history: orders whose completed event came before the assigned
               \* one, or for which an event waited in vain for the row

orderVars == <<stock, granted, handled, status, rowLock, req, call, late, published,
               processed, used, holds, troubled, cancelling, shorted>>
recordVars == <<record, recordLock, job, recorded, assigned, completed, reached, undone>>
vars == <<orderVars, recordVars, attempts, overtaken>>

\* The n-th fulfillment.assigned or fulfillment.completed of an order.
FulfillmentEvent == [kind : {"assigned", "completed"}, order : Order, n : 1 .. MaxPublished]
Sent(e) == e.n <= (IF e.kind = "assigned" THEN assigned ELSE completed)[e.order]

OrderOf == [e \in FulfillmentEvent |-> e.order]
Asks == [e \in FulfillmentEvent |->
           IF e.kind = "assigned" THEN "processing" ELSE "delivered"]
Handler == Web \cup Thread

O == INSTANCE Orders
  WITH Req <- Handler, Event <- FulfillmentEvent, EventOrder <- OrderOf, EventStatus <- Asks

\* Orders are numbered by an INTEGER column, so there are finitely many.
ASSUME SupplyChainAssumption ==
  /\ IsFiniteSet(Order)
  /\ Items \in [Order -> Seq(Product) \ {<<>>}]
  /\ Capacity \in [Product -> Nat]
  /\ Quantity \in [Product -> SUBSET Nat] /\ Deletable \subseteq Product
  /\ MaxLate \in Nat /\ {MaxAttempts, MaxPublished} \subseteq Nat \ {0}
  /\ NoReq \notin Web \cup Thread \cup Staff
  /\ NoOrder \notin Order
  /\ NoEvent \notin Order /\ NoEvent \notin FulfillmentEvent

\* An order.created event is named after its order.
Itself == [o \in Order |-> o]

F == INSTANCE Fulfillment
  WITH Req <- Staff, Event <- Order, EventOrder <- Itself,
       status <- record, lock <- recordLock, req <- job, processed <- recorded

Pool == INSTANCE StockPool WITH Event <- Order, Amount <- {1}, Demand <- O!Demand

\* The copies of the events, by consumer.
Copy == ({"inventory", "fulfillment"} \X Order) \cup ({"order"} \X FulfillmentEvent)

TypeOK ==
  /\ O!TypeOK /\ F!TypeOK
  /\ attempts \in [Copy -> 0 .. MaxAttempts]
  /\ overtaken \subseteq Order

Init ==
  /\ O!Init /\ F!Init
  /\ attempts = [c \in Copy |-> 0]
  /\ overtaken = {}

------------------------------------------------------------------------------
\* Mutant: a subscription without a dead-letter topic.
DeliverForEver(copy) == attempts' = [attempts EXCEPT ![copy] = @ + 1]

\* After MaxAttempts deliveries the copy goes to the dead-letter topic.
Deliver(copy) ==
  /\ attempts[copy] < MaxAttempts
  /\ attempts' = [attempts EXCEPT ![copy] = @ + 1]

\* History: the UPDATE for an event is given up, and its delivery lost.
NotesVainWaits ==
  overtaken' = overtaken \cup {req[r].order : r \in {t \in Thread : O!LockWaitFails(t)}}

\* HTTP requests to the Order service, and all work that is under way there.
OrderStep ==
  /\ \/ \E r \in Web, o \in Order : O!StartCreate(r, o) \/ O!CancelRead(r, o)
     \/ \E r \in Handler : O!Advance(r) \/ O!Serve(r) \/ O!Crash(r)
     \/ \E c \in late : O!ServeLate(c)
  /\ NotesVainWaits
  /\ UNCHANGED <<recordVars, attempts>>

\* fulfillment.assigned or fulfillment.completed comes to the Order service,
OrderAccepts(r, e) ==
  /\ Sent(e) /\ Deliver(<<"order", e>>)
  /\ O!EventRead(r, e)
  /\ UNCHANGED <<recordVars, overtaken>>

\* Mutant: the refusal is logged and the message acknowledged.
OrderSwallows(e) ==
  /\ Sent(e) /\ Deliver(<<"order", e>>)
  /\ e \notin processed
  /\ ~ O!CanTransition(e.order, Asks[e])
  /\ processed' = processed \cup {e}
  /\ UNCHANGED <<stock, granted, handled, status, rowLock, req, call, late, published,
                 used, holds, troubled, cancelling, shorted, recordVars, overtaken>>

\* which knows no such order or cannot make the transition: the handler raises.
OrderRefuses(e) ==
  /\ Sent(e) /\ Deliver(<<"order", e>>)
  /\ e \notin processed
  /\ ~ O!CanTransition(e.order, Asks[e])
  /\ overtaken' = IF e.kind = "completed" /\ status[e.order] \in {"absent", "confirmed"}
                  THEN overtaken \cup {e.order} ELSE overtaken
  /\ UNCHANGED <<orderVars, recordVars>>

\* Staff requests to the Fulfillment service, and all work under way there.
FulfillmentStep ==
  /\ \E r \in Staff :
       \/ \E o \in Order, s \in F!Target : F!TransitionRead(r, o, s)
       \/ F!Advance(r) \/ F!Crash(r)
  /\ UNCHANGED <<orderVars, attempts, overtaken>>

\* order.created comes to the Fulfillment service.
FulfillmentAccepts(r, o) ==
  /\ o \in published /\ Deliver(<<"fulfillment", o>>)
  /\ F!CreateRead(r, o)
  /\ UNCHANGED <<orderVars, overtaken>>

\* Mutant: the event is not marked.
InventoryReservesUnmarked(o) ==
  /\ o \in published /\ Deliver(<<"inventory", o>>)
  /\ Pool!Grant(O!Demand[o])
  /\ UNCHANGED <<handled, recordVars, overtaken>>
  /\ UNCHANGED <<status, rowLock, req, call, late, published, processed, used, holds,
                 troubled, cancelling, shorted>>

\* order.created comes to Inventory, which reserves all of the order's items,
InventoryReserves(o) ==
  /\ o \in published /\ Deliver(<<"inventory", o>>)
  /\ Pool!GrantOrder(o)
  /\ UNCHANGED <<status, rowLock, req, call, late, published, processed, used, holds,
                 troubled, cancelling, shorted, recordVars, overtaken>>

\* or raises: a product is gone, too few units are on hand, or the transaction is lost.
InventoryRaises(o) ==
  /\ o \in published /\ Deliver(<<"inventory", o>>)
  /\ o \notin handled
  /\ UNCHANGED <<orderVars, recordVars, overtaken>>

\* Stock keeping changes what Inventory holds.
StockStep == O!KeepStock /\ UNCHANGED <<recordVars, attempts, overtaken>>

------------------------------------------------------------------------------
OrderConsumes(e) == (\E r \in Thread : OrderAccepts(r, e)) \/ OrderRefuses(e)

Next ==
  \/ OrderStep \/ FulfillmentStep \/ StockStep
  \/ \E e \in FulfillmentEvent : OrderConsumes(e)
  \/ \E o \in Order :
       \/ \E r \in Staff : FulfillmentAccepts(r, o)
       \/ InventoryReserves(o) \/ InventoryRaises(o)

Completion == {e \in FulfillmentEvent : e.kind = "completed"}

\* A handler of an event goes on (see Orders), and Pub/Sub redelivers a completion
\* that was not acknowledged.  That is enough for CompletionsSettle: requests,
\* staff and Inventory owe nothing, and fulfillment.assigned may never come.
HandlerGoesOn(r) ==
  /\ O!EventFlush(r) \/ O!EventCommit(r) \/ O!EventDuplicate(r) \/ O!LockWaitFails(r)
  /\ NotesVainWaits
  /\ UNCHANGED <<recordVars, attempts>>

Fairness ==
  /\ \A r \in Thread : WF_vars(HandlerGoesOn(r))
  /\ \A e \in Completion : WF_vars(OrderConsumes(e))

Spec == Init /\ [][Next]_vars
FairSpec == Spec /\ Fairness

------------------------------------------------------------------------------
(* Properties *)

\* An order is DELIVERED only if its parcel was assigned, picked and shipped,
\* although two services, two queues and crashes lie in between, and the
\* services check their own tables only.
DeliveredWasShipped ==
  \A o \in Order :
    status[o] = "delivered" => {"assigned", "picking", "shipped"} \subseteq reached[o]

\* Fulfillment works only on orders that exist: order.created leaves before the
\* order's commit, but unless that is lost the order follows.
FulfilledOrdersExist ==
  \A o \in Order :
    record[o] # "absent" /\ O!Posted(o) /\ o \notin troubled => status[o] # "absent"

\* A fulfillment.completed that dies in the dead-letter topic was not needed any
\* more, since another one was handled, or an attempt was lost to a crash, to a
\* cancellation, to coming before fulfillment.assigned was handled, or to a row
\* that stayed locked: no other order of steps loses a delivery.
Dead(e) ==
  /\ attempts[<<"order", e>>] = MaxAttempts /\ e \notin processed
  /\ \A r \in Thread : req[r].event # e

CompletionHandled(o) == \E e \in processed : e.kind = "completed" /\ e.order = o
Excused(o) == CompletionHandled(o) \/ o \in cancelling \cup troubled \cup overtaken

OnlyOvertakenCompletionsDie ==
  \A e \in FulfillmentEvent : e.kind = "completed" /\ Dead(e) => Excused(e.order)

\* Every reserved unit is accounted for: by the saga of an order or by the
\* reservation for its order.created, each made at most once, and by no other.
AskedFor(o, p) == {i \in DOMAIN Items[o] : Items[o][i] = p}

ReservedFor(o, p) ==
  SumFunctionOnSet(holds[o], AskedFor(o, p)) + (IF o \in handled THEN O!Demand[o][p] ELSE 0)

StockIsAccountedFor ==
  \A p \in Product : stock[p].reserved = SumFunction([o \in Order |-> ReservedFor(o, p)])

\* What Fulfillment has reported as completed ends: the order is DELIVERED or
\* CANCELLED, or the event is in the dead-letter topic.
CompletionsSettle ==
  \A e \in Completion :
    Sent(e) ~>
      status[e.order] \in {"delivered", "cancelled"} \/ attempts[<<"order", e>>] = MaxAttempts

\* order_created.py:6, "The reservation itself is also idempotent via the
\* `reservations` check": no more units are reserved than were ordered.
ReservationIsIdempotent ==
  \A p \in Product :
    stock[p].reserved <= SumFunctionOnSet([o \in Order |-> O!Demand[o][p]], used)

------------------------------------------------------------------------------
(* The inductive invariant: why the properties hold *)

Handling(r, e) == req[r].op \in {"event", "moved"} /\ req[r].event = e

\* What the Order service handles or has handled was sent, and a row is DELIVERED
\* because a completion was handled.
EventsWereSent ==
  /\ \A r \in Handler, e \in FulfillmentEvent : Handling(r, e) => Sent(e)
  /\ \A e \in processed : Sent(e)
  /\ \A o \in Order : status[o] = "delivered" => CompletionHandled(o)

\* An order whose order.created has left has its row, or will have it, or has
\* met trouble; a CANCELLED one was cancelled.
PublishedOrdersCome ==
  /\ \A o \in published \ troubled :
       \/ status[o] # "absent"
       \/ \E r \in Handler : req[r].op = "created" /\ req[r].order = o
  /\ \A o \in Order : status[o] = "cancelled" => o \in cancelling

\* Fulfillment hears of an order from its order.created only.
RecordsArePublished ==
  /\ \A o \in Order : record[o] # "absent" => o \in published
  /\ \A r \in Staff : job[r].op # "idle" => job[r].order \in published

\* A completion that was delivered is in a handler's hands, or its end is excused.
AttemptsAreAccounted ==
  \A e \in FulfillmentEvent :
    e.kind = "completed" /\ attempts[<<"order", e>>] > 0 =>
      (\E r \in Thread : Handling(r, e)) \/ Excused(e.order)

IInv ==
  /\ TypeOK /\ O!IInv /\ F!IInv
  /\ EventsWereSent /\ PublishedOrdersCome /\ RecordsArePublished
  /\ AttemptsAreAccounted
==============================================================================
