-------------------------------- MODULE Orders --------------------------------
(***************************************************************************)
(* The Order service: the creation saga, cancellation, and the status      *)
(* updates that fulfillment events cause (services/order).                 *)
(*                                                                         *)
(* A member of Req is a slot in which one HTTP request or one message is   *)
(* handled after the other, each in one SQL transaction.  The Inventory    *)
(* service is seen through its promise, the StockPool, and through HTTP: a *)
(* call may be refused, fail, or time out in the client and be executed    *)
(* later all the same.  Stock keeping uses Inventory at the same time: it  *)
(* sets quantities and deletes products, whatever orders have reserved.    *)
(*                                                                         *)
(* An order stands for the POST body that asks for it and for the row that *)
(* auto-increment gives it; every item asks for one unit, and the body is  *)
(* posted once.  A request refused before it has written or sent anything  *)
(* (404, 409, an unknown order, a processed event) leaves no trace, so it  *)
(* is not a step.  PENDING and SHIPPED are in the table of transitions but *)
(* no step stores them.  Left out: prices, addresses, the version column   *)
(* (written, never compared), listing.                                     *)
(***************************************************************************)
EXTENDS Integers, Sequences, FiniteSets

CONSTANTS
  Product,
  Order,
  Req,          \* slots of requests and subscriber threads
  Items,        \* Items[o]: the sequence of the products of order o
  Capacity,     \* Capacity[p]: units on hand at first
  Quantity,     \* Quantity[p]: what a PUT may set quantity_available to
  Deletable,    \* products that may be deleted
  Event,        \* fulfillment event ids
  EventOrder,   \* EventOrder[e]: the order the event is about
  EventStatus,  \* EventStatus[e]: "processing" if assigned, "delivered" if completed
  MaxLate,      \* bound: abandoned calls under way, no two of them alike
  NoReq, NoOrder, NoEvent

ASSUME OrdersAssumption ==
  /\ Items \in [Order -> Seq(Product) \ {<<>>}]
  /\ Capacity \in [Product -> Nat]
  /\ Quantity \in [Product -> SUBSET Nat] /\ Deletable \subseteq Product
  /\ EventOrder \in [Event -> Order]
  /\ EventStatus \in [Event -> {"processing", "delivered"}]
  /\ MaxLate \in Nat
  /\ NoReq \notin Req /\ NoOrder \notin Order /\ NoEvent \notin Event

VARIABLES
  stock, granted, handled,   \* the Inventory service, see StockPool
  status,      \* the committed status of each order's row; "absent": no row
  rowLock,     \* the request that holds the row's lock, or NoReq
  req,         \* what each slot is doing
  call,        \* the HTTP call of each slot and its answer
  late,        \* abandoned calls that Inventory may still execute
  published,   \* orders whose order.created was published
  processed,   \* the committed processed_events of this service
  used,        \* history: orders that were posted
  holds,       \* history: reserves less releases, per order and item
  troubled,    \* history: orders that met a time-out, a 5xx or a crash
  cancelling,  \* history: orders some cancellation has written
  shorted      \* history: products whose last PUT left less than was reserved

poolVars == <<stock, granted, handled>>
rows == <<status, rowLock>>
net == <<stock, granted, handled, late, holds>>
history == <<used, troubled, cancelling, shorted>>
vars == <<stock, granted, handled, status, rowLock, req, call, late, published,
          processed, used, holds, troubled, cancelling, shorted>>

Status == {"absent", "pending", "confirmed", "processing", "shipped",
           "delivered", "cancelled"}

\* Mutant: a delivered order must have been SHIPPED, which no event says.
DeliveredAfterShipped(s) ==
  CASE s = "pending"    -> {"confirmed", "cancelled"}
    [] s = "confirmed"  -> {"processing", "cancelled"}
    [] s = "processing" -> {"shipped", "cancelled"}
    [] s = "shipped"    -> {"delivered"}
    [] OTHER            -> {}

\* ORDER_TRANSITIONS
Transitions(s) ==
  CASE s = "pending"    -> {"confirmed", "cancelled"}
    [] s = "confirmed"  -> {"processing", "cancelled"}
    [] s = "processing" -> {"shipped", "delivered", "cancelled"}
    [] s = "shipped"    -> {"delivered"}
    [] OTHER            -> {}

CanTransition(o, s) == s \in Transitions(status[o])

Op == {"idle",
       "validate", "reserve", "undo", "created",   \* create_order
       "cancel", "release",                        \* cancel_order
       "event", "moved"}                           \* update_status

ItemNo == Nat \ {0}

\* pos: the next item; last: the last item of the loop; seen: the status read.
ReqRecord == [op : Op, order : Order \cup {NoOrder}, pos : ItemNo, last : Nat,
              seen : Status, event : Event \cup {NoEvent}]
Idle == [op |-> "idle", order |-> NoOrder, pos |-> 1, last |-> 0,
         seen |-> "absent", event |-> NoEvent]

Call == [kind : {"reserve", "release"}, order : Order, item : ItemNo]

\* Items of o that ask for p: what handling its order.created would reserve.
Demand == [o \in Order |-> [p \in Product |->
             Cardinality({i \in DOMAIN Items[o] : Items[o][i] = p})]]
Pool == INSTANCE StockPool WITH Event <- Order, Amount <- {1}

Held == [o \in Order |-> [i \in DOMAIN Items[o] |-> 0]]

TypeOK ==
  /\ stock \in [Product -> [state : {"live", "deleted"}, available : Nat, reserved : Nat]]
  /\ granted \in [Product -> Int]
  /\ handled \subseteq Order
  /\ status \in [Order -> Status \ {"pending", "shipped"}]
  /\ rowLock \in [Order -> Req \cup {NoReq}]
  /\ req \in [Req -> ReqRecord]
  /\ call \in [Req -> {"none", "sent", "ok", "refused", "failed"}]
  /\ published \subseteq used /\ used \subseteq Order
  /\ processed \subseteq Event
  /\ troubled \subseteq Order /\ cancelling \subseteq Order
  /\ shorted \subseteq Product
  /\ late \subseteq Call
  /\ holds = [o \in Order |-> [i \in DOMAIN Items[o] |-> holds[o][i]]]
  /\ \A o \in Order : \A i \in DOMAIN Items[o] : holds[o][i] \in Int

Init ==
  /\ stock = [p \in Product |-> Pool!Live(Capacity[p])]
  /\ granted = [p \in Product |-> 0]
  /\ handled = {}
  /\ status = [o \in Order |-> "absent"]
  /\ rowLock = [o \in Order |-> NoReq]
  /\ req = [r \in Req |-> Idle]
  /\ call = [r \in Req |-> "none"]
  /\ late = {}
  /\ published = {}
  /\ processed = {}
  /\ used = {}
  /\ holds = Held
  /\ troubled = {}
  /\ cancelling = {}
  /\ shorted = {}

------------------------------------------------------------------------------
(* HTTP calls to the Inventory service *)

CallOf(r) == [kind  |-> IF req[r].op = "reserve" THEN "reserve" ELSE "release",
              order |-> req[r].order, item |-> req[r].pos]

Calling(r) == req[r].op \in {"reserve", "undo", "release"} /\ req[r].pos <= req[r].last

\* The POST leaves: _call_reserve, or one turn of the loop of _release_reserved.
Send(r) ==
  /\ Calling(r)
  /\ call[r] = "none"
  /\ call' = [call EXCEPT ![r] = "sent"]
  /\ UNCHANGED <<net, rows, req, published, processed, history>>

\* Mutant: Inventory does not check a release.
ExecutesUnchecked(c) ==
  LET p == Items[c.order][c.item]
      n == IF c.kind = "reserve" THEN 1 ELSE -1
  IN  /\ stock' = [stock EXCEPT ![p].reserved = @ + n]
      /\ granted' = [granted EXCEPT ![p] = @ + n]
      /\ holds' = [holds EXCEPT ![c.order][c.item] = @ + n]
      /\ UNCHANGED handled

\* Inventory executes c, in the name of c's order: it keeps no record of who
\* reserved what, so `holds` is history only.
Executes(c) ==
  LET p == Items[c.order][c.item]
      n == IF c.kind = "reserve" THEN 1 ELSE -1
  IN  /\ IF c.kind = "reserve" THEN Pool!GrantOne(p, 1) ELSE Pool!TakeBack(p, 1)
      /\ holds' = [holds EXCEPT ![c.order][c.item] = @ + n]

\* Inventory refuses c: 404, or 409 if too few units are on hand or reserved.
Refuses(c) ==
  LET p == Items[c.order][c.item]
  IN  /\ \/ ~ Pool!IsLive(p)
         \/ (IF c.kind = "reserve" THEN Pool!OnHand(p) ELSE stock[p].reserved) < 1
      /\ UNCHANGED <<poolVars, holds>>

Serve(r) ==
  /\ call[r] = "sent"
  /\ \/ Executes(CallOf(r)) /\ call' = [call EXCEPT ![r] = "ok"]
     \/ Refuses(CallOf(r)) /\ call' = [call EXCEPT ![r] = "refused"]
  /\ UNCHANGED <<late, rows, req, published, processed, history>>

\* An abandoned call arrives, and nobody reads the answer.
ServeLate(c) ==
  /\ c \in late
  /\ late' = late \ {c}
  /\ Executes(c) \/ Refuses(c)
  /\ UNCHANGED <<rows, req, call, published, processed, history>>

\* The call may still be executed although its sender has given it up.
Abandon(r) ==
  \/ UNCHANGED late
  \/ /\ call[r] = "sent"
     /\ Cardinality(late) < MaxLate
     /\ late' = late \cup {CallOf(r)}

\* Mutant: the client waits for its answer as long as it takes.
NoTimeout(r) ==
  /\ call[r] \in {"ok", "refused"}
  /\ call' = [call EXCEPT ![r] = "failed"]
  /\ troubled' = troubled \cup {req[r].order}
  /\ UNCHANGED <<net, rows, req, published, processed, used, cancelling, shorted>>

\* No usable answer: a 5xx, a lost connection, or five seconds without one.
NoAnswer(r) ==
  /\ call[r] \in {"sent", "ok", "refused"}
  /\ Abandon(r)
  /\ call' = [call EXCEPT ![r] = "failed"]
  /\ troubled' = troubled \cup {req[r].order}
  /\ UNCHANGED <<poolVars, holds, rows, req, published, processed, used, cancelling,
                 shorted>>

Answered(r) ==
  /\ call[r] \in {"ok", "refused", "failed"}
  /\ call' = [call EXCEPT ![r] = "none"]

------------------------------------------------------------------------------
(* The end of a transaction *)

Unlock(r) == rowLock' = [o \in Order |-> IF rowLock[o] = r THEN NoReq ELSE rowLock[o]]

EndRequest(r) ==
  /\ req' = [req EXCEPT ![r] = Idle]
  /\ call' = [call EXCEPT ![r] = "none"]
  /\ Unlock(r)

\* get_db and the subscribers: everything written since the start is undone.
Rollback(r) == EndRequest(r) /\ UNCHANGED <<status, published, processed>>

Store(r, s) ==
  /\ status' = [status EXCEPT ![req[r].order] = s]
  /\ EndRequest(r)

------------------------------------------------------------------------------
(* create_order *)

StartCreate(r, o) ==
  /\ req[r].op = "idle"
  /\ o \notin used
  /\ used' = used \cup {o}
  /\ req' = [req EXCEPT ![r] = [Idle EXCEPT !.op = "validate", !.order = o,
                                            !.last = Len(Items[o])]]
  /\ UNCHANGED <<net, rows, call, published, processed, troubled, cancelling, shorted>>

\* _validate_stock finds the product and enough of it not reserved.  After the
\* last item the order and its items are flushed, PENDING, visible to no one.
ValidateItem(r) ==
  LET x == req[r]
  IN  /\ x.op = "validate"
      /\ Pool!IsLive(Items[x.order][x.pos]) /\ Pool!OnHand(Items[x.order][x.pos]) >= 1
      /\ req' = [req EXCEPT ![r] =
                   IF x.pos < x.last THEN [x EXCEPT !.pos = @ + 1]
                   ELSE [x EXCEPT !.op = "reserve", !.pos = 1]]
      /\ UNCHANGED <<net, rows, call, published, processed, history>>

\* StockValidationError, or Inventory does not answer: nothing was written.
ValidateFails(r) ==
  /\ req[r].op = "validate"
  /\ Rollback(r)
  /\ UNCHANGED <<net, history>>

\* Mutant: a refused reservation is taken for a reservation.
ReservedUnread(r) ==
  /\ req[r].op = "reserve"
  /\ call[r] \in {"ok", "refused"}
  /\ Answered(r)
  /\ req' = [req EXCEPT ![r].pos = @ + 1]
  /\ UNCHANGED <<net, rows, published, processed, history>>

\* 2xx: the item joins the list `reserved`.
Reserved(r) ==
  /\ req[r].op = "reserve"
  /\ call[r] = "ok"
  /\ Answered(r)
  /\ req' = [req EXCEPT ![r].pos = @ + 1]
  /\ UNCHANGED <<net, rows, published, processed, history>>

\* Mutant: an unanswered reservation is tried again.
ReserveRetried(r) ==
  /\ req[r].op = "reserve"
  /\ call[r] \in {"refused", "failed"}
  /\ Answered(r)
  /\ req' = IF call[r] = "failed" THEN req
            ELSE [req EXCEPT ![r].op = "undo", ![r].pos = 1, ![r].last = req[r].pos - 1]
  /\ UNCHANGED <<net, rows, published, processed, history>>

\* Mutant: the compensation forgets the last item of the list.
UndoOneShort(r) ==
  /\ req[r].op = "reserve"
  /\ call[r] \in {"refused", "failed"}
  /\ Answered(r)
  /\ req' = [req EXCEPT ![r].op = "undo", ![r].pos = 1,
                        ![r].last = IF req[r].pos > 2 THEN req[r].pos - 2 ELSE 0]
  /\ UNCHANGED <<net, rows, published, processed, history>>

\* 404, 409 or no answer: compensate for the items in the list, not for this one.
ReserveRaises(r) ==
  /\ req[r].op = "reserve"
  /\ call[r] \in {"refused", "failed"}
  /\ Answered(r)
  /\ req' = [req EXCEPT ![r].op = "undo", ![r].pos = 1, ![r].last = req[r].pos - 1]
  /\ UNCHANGED <<net, rows, published, processed, history>>

\* _release_reserved goes on whatever the answer was.
Released(r) ==
  /\ req[r].op \in {"undo", "release"}
  /\ Answered(r)
  /\ req' = [req EXCEPT ![r].pos = @ + 1]
  /\ UNCHANGED <<net, rows, published, processed, history>>

\* CANCELLED is flushed, the exception goes on, and get_db rolls back.
CreateRaises(r) ==
  /\ req[r].op = "undo"
  /\ req[r].pos > req[r].last
  /\ Rollback(r)
  /\ UNCHANGED <<net, history>>

\* CONFIRMED is flushed and order.created published; a publisher that is
\* missing or fails is only logged.
ConfirmAndPublish(r) ==
  /\ req[r].op = "reserve"
  /\ req[r].pos > req[r].last
  /\ req' = [req EXCEPT ![r].op = "created"]
  /\ published' \in {published, published \cup {req[r].order}}
  /\ UNCHANGED <<net, rows, call, processed, history>>

\* Mutant: the session is closed without a commit.
CreateUncommitted(r) ==
  /\ req[r].op = "created"
  /\ Rollback(r)
  /\ UNCHANGED <<net, history>>

CreateCommit(r) ==
  /\ req[r].op = "created"
  /\ Store(r, "confirmed")
  /\ UNCHANGED <<net, published, processed, history>>

------------------------------------------------------------------------------
(* cancel_order *)

\* get_order is a plain SELECT.
CancelRead(r, o) ==
  /\ req[r].op = "idle"
  /\ CanTransition(o, "cancelled")
  /\ req' = [req EXCEPT ![r] = [Idle EXCEPT !.op = "cancel", !.order = o,
                                            !.seen = status[o]]]
  /\ UNCHANGED <<net, rows, call, published, processed, history>>

\* An UPDATE waits for the row lock, which is kept to the end.
Lock(r) ==
  /\ rowLock[req[r].order] \in {NoReq, r}
  /\ rowLock' = [rowLock EXCEPT ![req[r].order] = r]

\* CANCELLED is flushed; was_confirmed is what was read before.
CancelFlush(r) ==
  LET x == req[r]
  IN  /\ x.op = "cancel"
      /\ Lock(r)
      /\ cancelling' = cancelling \cup {x.order}
      /\ req' = [req EXCEPT ![r] =
                   [x EXCEPT !.op = "release",
                             !.last = IF x.seen = "confirmed" THEN Len(Items[x.order]) ELSE 0]]
      /\ UNCHANGED <<net, status, call, published, processed, used, troubled, shorted>>

CancelCommit(r) ==
  /\ req[r].op = "release"
  /\ req[r].pos > req[r].last
  /\ Store(r, "cancelled")
  /\ UNCHANGED <<net, published, processed, history>>

------------------------------------------------------------------------------
(* update_status, called for fulfillment.assigned and fulfillment.completed *)

\* is_already_processed and get_order read the same snapshot.  The Fulfillment
\* service knows an order only from its order.created.
EventRead(r, e) ==
  /\ req[r].op = "idle"
  /\ EventOrder[e] \in published
  /\ e \notin processed
  /\ CanTransition(EventOrder[e], EventStatus[e])
  /\ req' = [req EXCEPT ![r] = [Idle EXCEPT !.op = "event", !.order = EventOrder[e],
                                            !.event = e]]
  /\ UNCHANGED <<net, rows, call, published, processed, history>>

EventFlush(r) ==
  /\ req[r].op = "event"
  /\ Lock(r)
  /\ req' = [req EXCEPT ![r].op = "moved"]
  /\ UNCHANGED <<net, status, call, published, processed, history>>

\* Mutant: processed_events has no unique constraint.
EventCommitTwice(r) ==
  /\ req[r].op = "moved"
  /\ processed' = processed \cup {req[r].event}
  /\ Store(r, EventStatus[req[r].event])
  /\ UNCHANGED <<net, published, history>>

\* The ProcessedEvent is inserted by the flush of the commit.
EventCommit(r) ==
  /\ req[r].op = "moved"
  /\ req[r].event \notin processed
  /\ processed' = processed \cup {req[r].event}
  /\ Store(r, EventStatus[req[r].event])
  /\ UNCHANGED <<net, published, history>>

\* uq_processed_events: another delivery of the event committed meanwhile.
EventDuplicate(r) ==
  /\ req[r].op = "moved"
  /\ req[r].event \in processed
  /\ Rollback(r)
  /\ UNCHANGED <<net, history>>

------------------------------------------------------------------------------
(* Failures *)

\* innodb_lock_wait_timeout ends an UPDATE that waits for the row.
LockWaitFails(r) ==
  /\ req[r].op \in {"cancel", "event"}
  /\ rowLock[req[r].order] \notin {NoReq, r}
  /\ Rollback(r)
  /\ UNCHANGED <<net, history>>

\* The process, its connection or the commit fails.
Crash(r) ==
  /\ req[r].op # "idle"
  /\ Rollback(r)
  /\ Abandon(r)
  /\ troubled' = troubled \cup {req[r].order}
  /\ UNCHANGED <<poolVars, holds, used, cancelling, shorted>>

------------------------------------------------------------------------------
(* Stock keeping *)

\* PUT sets quantity_available, with no look at what is reserved,
SetQuantity(p, a) ==
  /\ Pool!Recount(p, a)
  /\ shorted' = IF a < stock[p].reserved THEN shorted \cup {p} ELSE shorted \ {p}
  /\ UNCHANGED <<late, holds, rows, req, call, published, processed, used, troubled,
                 cancelling>>

\* and DELETE removes the row: reserved stock "is the caller's concern".
DeleteProduct(p) ==
  /\ Pool!Drop(p)
  /\ UNCHANGED <<late, holds, rows, req, call, published, processed, history>>

KeepStock ==
  \/ \E p \in Product : \E a \in Quantity[p] : SetQuantity(p, a)
  \/ \E p \in Deletable : DeleteProduct(p)

------------------------------------------------------------------------------
Begin(r) ==
  \/ \E o \in Order : StartCreate(r, o) \/ CancelRead(r, o)
  \/ \E e \in Event : EventRead(r, e)

Advance(r) ==
  \/ Send(r) \/ NoAnswer(r)
  \/ ValidateItem(r) \/ ValidateFails(r)
  \/ Reserved(r) \/ ReserveRaises(r) \/ Released(r)
  \/ CreateRaises(r) \/ ConfirmAndPublish(r) \/ CreateCommit(r)
  \/ CancelFlush(r) \/ CancelCommit(r)
  \/ EventFlush(r) \/ EventCommit(r) \/ EventDuplicate(r)
  \/ LockWaitFails(r)

Next ==
  \/ \E r \in Req : Begin(r) \/ Advance(r) \/ Serve(r) \/ Crash(r)
  \/ \E c \in late : ServeLate(c)
  \/ KeepStock

Spec == Init /\ [][Next]_vars

------------------------------------------------------------------------------
(* Properties *)

Active == {"confirmed", "processing", "shipped", "delivered"}
Posted(o) == o \in used /\ \A r \in Req : req[r].order # o
HoldsNothing(o) == \A i \in DOMAIN Items[o] : holds[o][i] <= 0
HoldsAll(o) == \A i \in DOMAIN Items[o] : holds[o][i] = 1

\* order.created says that the stock is reserved: consumers may rely on it, and
\* so may the row, for as long as no cancellation is tried, whatever calls time
\* out, arrive late or fail, and whatever other orders do.
PublishedOrdersHoldTheirItems ==
  \A o \in Order :
    (o \in published \/ status[o] # "absent") /\ o \notin cancelling => HoldsAll(o)

\* No item is ever reserved twice by the saga, although answers get lost and
\* the reserve route is not idempotent.
ReservesOncePerItem == \A o \in Order : \A i \in DOMAIN Items[o] : holds[o][i] <= 1

\* No double cancellation has released what another order had reserved.
NoneNegative == \A o \in Order : \A i \in DOMAIN Items[o] : holds[o][i] >= 0

\* Between requests, the row and the stock of an order agree if each of its
\* calls was answered and no process died: a saga that failed has given back
\* exactly what it had reserved, and an order that is still CONFIRMED holds all
\* its items, provided no double cancellation has emptied the pool under it.
\* Of a product that was deleted meanwhile there is nothing to give back.
UndisturbedOrdersAddUp ==
  NoneNegative =>
    \A o \in Order :
      Posted(o) /\ o \notin troubled =>
        /\ status[o] = "absent" =>
             \A i \in DOMAIN Items[o] : Pool!IsLive(Items[o][i]) => holds[o][i] = 0
        /\ status[o] = "confirmed" => HoldsAll(o)

\* The items of p that were promised: their order is published or has its row, and
\* no cancellation has written it.
Promised(p) ==
  UNION {{<<o, i>> : i \in {j \in DOMAIN Items[o] : Items[o][j] = p}} :
         o \in {x \in Order \ cancelling : x \in published \/ status[x] # "absent"}}

\* No unit is promised to two orders: sagas that validate against the same stock,
\* calls that time out, arrive late or are undone, cancellations and stock keeping
\* leave every promised item a reserved unit of its own, and one that is there
\* unless stock keeping itself took it out, for as long as the product exists and
\* until a double cancellation.
NoUnitIsPromisedTwice ==
  NoneNegative =>
    \A p \in Product :
      Pool!IsLive(p) =>
        /\ Cardinality(Promised(p)) <= stock[p].reserved
        /\ p \notin shorted => Cardinality(Promised(p)) <= stock[p].available

\* An event moves its order once: a row becomes PROCESSING or DELIVERED only in
\* the transaction that first records the event, however many deliveries of it
\* are handled at the same time and whatever happened to the order since.
EventMovesOrderOnce ==
  [][\A o \in Order :
       status'[o] # status[o] /\ status'[o] \in {"processing", "delivered"}
         => \E e \in processed' \ processed :
              EventOrder[e] = o /\ EventStatus[e] = status'[o]]_vars

\* No request is ever stuck: httpx gives up a call after five seconds and InnoDB a
\* lock wait, so a request has a step of its own to take although Inventory owes
\* no answer, another transaction holds the row, or the product is gone.
NoRequestIsStuck == \A r \in Req : req[r].op # "idle" => ENABLED Advance(r)

\* How far an operation, and a call, has come.
Phase(op) == CASE op \in {"validate", "cancel", "event"} -> 1
               [] op \in {"reserve", "release", "moved"} -> 2
               [] op \in {"undo", "created"}             -> 3
               [] OTHER                                  -> 0
CallPhase(a) == CASE a = "none" -> 0 [] a = "sent" -> 1 [] a = "failed" -> 3 [] OTHER -> 2

\* Nor does a request go round in circles: whatever is refused or goes unanswered,
\* a step that does not end it leaves fewer items, calls or phases to come, so it
\* ends after finitely many, and it works on its own order throughout.
RequestsGoForward ==
  [][\A r \in Req :
       LET x == req[r]
           y == req'[r]
       IN  x.op # "idle" /\ y.op # "idle" /\ <<x, call[r]>> # <<y, call'[r]>> =>
             /\ y.order = x.order
             /\ \/ Phase(x.op) < Phase(y.op)
                \/ x.op = y.op /\ x.pos < y.pos
                \/ <<x.op, x.pos>> = <<y.op, y.pos>> /\ CallPhase(call[r]) < CallPhase(call'[r])]_vars

------------------------------------------------------------------------------
(* What comments say of the service *)

\* "If any reservation fails, release already-reserved items": a failed order
\* keeps no stock once its calls have been executed.
FailedOrderHoldsNothing ==
  \A o \in Order :
    Posted(o) /\ status[o] = "absent" /\ (\A c \in late : c.order # o) => HoldsNothing(o)

\* "Transitions are enforced in the service layer".
TransitionsAreEnforced ==
  [][\A o \in Order : status'[o] # status[o] /\ status[o] # "absent"
                        => CanTransition(o, status'[o])]_vars

------------------------------------------------------------------------------
(* The inductive invariant: why the properties hold *)

Saga == {"validate", "reserve", "undo", "created"}

\* Each slot is in a state its operation can be in, and so is its call.
SlotsAreSound ==
  \A r \in Req :
    LET x == req[r]
    IN  /\ x.op # "idle" => x.order \in Order /\ x.last \in 0 .. Len(Items[x.order])
        /\ x.op \in {"validate", "reserve"} => x.last = Len(Items[x.order])
        /\ x.op = "validate" => x.pos <= x.last
        /\ x.op \in {"event", "moved"} => x.event \in Event /\ EventOrder[x.event] = x.order
        /\ call[r] # "none" => x.op \in {"reserve", "undo", "release"} /\ x.pos <= x.last

\* A body is posted once, and only its saga works on an order without a row.
OneSagaPerOrder ==
  /\ \A r, s \in Req :
       req[r].op \in Saga /\ req[s].op \in Saga /\ req[r].order = req[s].order => r = s
  /\ \A r \in Req :
       /\ req[r].op \in Saga => req[r].order \in used /\ status[req[r].order] = "absent"
       /\ req[r].op \in Saga \ {"created"} => req[r].order \notin published
       /\ req[r].op \in {"cancel", "release", "event", "moved"} =>
            status[req[r].order] # "absent"
       /\ req[r].op = "release" => req[r].order \in cancelling
  /\ \A o \in Order : status[o] # "absent" => o \in used
  /\ \A o \in cancelling : status[o] # "absent"

\* An order whose creation has failed, or is failing.
Failed(o) ==
  /\ o \notin published /\ status[o] = "absent"
  /\ \A r \in Req : req[r].order = o => req[r].op \notin {"validate", "reserve", "created"}

\* What may still be executed was asked for an item of a posted order, and only
\* orders that failed or are cancelled are released.
LateCallsAreSound ==
  \A c \in late :
    /\ c.order \in used /\ c.item \in DOMAIN Items[c.order]
    /\ c.kind = "release" => c.order \in cancelling \/ Failed(c.order)

\* A slot that does x, with a call in state a, still has to reserve item i of o.
Pending(x, a, o, i) ==
  /\ x.order = o
  /\ \/ x.op = "validate"
     \/ /\ x.op = "reserve"
        /\ x.pos < i \/ (x.pos = i /\ a \in {"none", "sent"})

PendingLate(o, i) == \E c \in late : c.kind = "reserve" /\ c.order = o /\ c.item = i

\* Each item has one reserve to come, or has had it.
OneReservePerItem ==
  \A o \in Order : \A i \in DOMAIN Items[o] :
    /\ holds[o][i] <= 1
    /\ o \notin used => holds[o][i] = 0
    /\ PendingLate(o, i) => holds[o][i] <= 0
    /\ \A r \in Req : Pending(req[r], call[r], o, i) =>
         holds[o][i] = 0 /\ ~ PendingLate(o, i)

\* A slot that does x, with a call in state a, was granted item i of o.
Granted(x, a, o, i) ==
  /\ x.order = o
  /\ \/ x.op = "created"
     \/ x.op = "reserve" /\ (i < x.pos \/ (x.pos = i /\ a = "ok"))

\* What an order that is not cancelled was granted, it holds.
GrantedItemsAreHeld ==
  \A o \in Order \ cancelling : \A i \in DOMAIN Items[o] :
    /\ o \in published \/ status[o] # "absent" => holds[o][i] >= 1
    /\ \A r \in Req : Granted(req[r], call[r], o, i) => holds[o][i] >= 1

IInv ==
  /\ TypeOK /\ SlotsAreSound
  /\ OneSagaPerOrder /\ LateCallsAreSound
  /\ OneReservePerItem /\ GrantedItemsAreHeld

\* The late reserve of an item is the last call but for the compensation of the
\* items before it: its item is not released, and no other order can be at fault.
LateReservesAreLast ==
  \A c \in late : c.kind = "reserve" =>
    /\ status[c.order] = "absent" /\ holds[c.order][c.item] = 0
    /\ \A d \in late : d.kind = "release" /\ d.order = c.order => d.item # c.item
    /\ \A r \in Req : req[r].op \in Saga /\ req[r].order = c.order =>
         \/ req[r].op = "reserve" /\ req[r].pos = c.item /\ call[r] = "failed"
         \/ req[r].op = "undo" /\ req[r].last < c.item

\* A slot that does x, with a call in state a, still has to give back item i of o.
Owes(x, a, o, i) ==
  /\ x.order = o /\ x.op = "undo" /\ i <= x.last
  /\ x.pos < i \/ (x.pos = i /\ a \in {"none", "sent"})

\* The items of p that orders hold, each by its order and number.
HeldItems(p) ==
  UNION {{<<o, i>> : i \in {j \in DOMAIN Items[o] : Items[o][j] = p /\ holds[o][j] = 1}} :
         o \in Order}

\* A held item has its unit in the pool, so no release of it is refused but for
\* want of the product.
HeldItemsAreReserved ==
  NoneNegative =>
    \A p \in Product :
      IsFiniteSet(HeldItems(p)) /\ Cardinality(HeldItems(p)) <= stock[p].reserved

\* What is reserved is on hand: Inventory refuses the rest.
PoolIsCovered ==
  \A p \in Product \ shorted : stock[p].reserved <= stock[p].available

\* Until an order has a row, its items are held exactly if its saga was granted
\* them or has yet to give them back, but for products that are gone.
UntroubledSagasAddUp ==
  \A o \in Order \ troubled :
    /\ \A c \in late : c.order # o
    /\ \A r \in Req : req[r].order = o => call[r] # "failed"
    /\ NoneNegative /\ status[o] = "absent" =>
         \A i \in {j \in DOMAIN Items[o] : Pool!IsLive(Items[o][j])} :
           holds[o][i] =
             IF \E r \in Req : \/ Granted(req[r], call[r], o, i)
                               \/ Owes(req[r], call[r], o, i)
             THEN 1 ELSE 0

\* A confirmed order that met no trouble loses its items only to a cancellation
\* that is under way.
CancellationsGoOn ==
  \A o \in cancelling \ troubled :
    status[o] = "confirmed" => \E r \in Req : req[r].op = "release" /\ req[r].order = o

AIInv ==
  /\ IInv /\ LateReservesAreLast /\ HeldItemsAreReserved
  /\ UntroubledSagasAddUp /\ CancellationsGoOn
==============================================================================
