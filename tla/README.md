# Verification of the supply-chain services

TLA+ models, TLC runs and TLAPS proofs for the three FastAPI services of this
repository (Inventory, Order, Fulfillment) and the Pub/Sub library they share.
Paths are relative to the repository; `order_service.py:99` means line 99 of
`services/order/app/services/order_service.py`, and so on. `PROJECT.json` maps
every definition to the lines it models.

## 1. The system

| Component | State | Operations that change it |
|---|---|---|
| **Inventory**: `services/inventory` | `products` rows (`quantity_available`, `quantity_reserved`, `version`), `processed_events` | HTTP create, update, delete, reserve, release; `order.created` subscriber (`_reserve_all`); `fulfillment.completed` subscriber (records the event only) |
| **Order**: `services/order` | `orders` rows with a status, `order_items`, `processed_events` | HTTP create (the saga), cancel; subscribers of `fulfillment.assigned` and `fulfillment.completed` (`update_status`) |
| **Fulfillment**: `services/fulfillment` | `fulfillments` rows with a status, unique per order, `processed_events` | `order.created` subscriber (`create_from_order`); HTTP pick, ship, complete, fail |
| **Pull subscriber**: `shared/pubsub/subscriber.py` | thread alive or not, batch at hand, ack ids | pull, handle each message, acknowledge the batch |
| **Pub/Sub** (external) | per subscription: messages outstanding, leased, attempts | publish, deliver, redeliver after 30 s, dead-letter after five attempts |
| **Idempotency**: `shared/db/idempotency.py` | `processed_events`, unique on (service, event) | check at the start, insert at the commit |
| **Rate limiter**: `shared/middleware/rate_limit.py` | a Redis sorted set per client address | trim, add, count |
| **Schemas**: `services/*/alembic`, `services/*/entrypoint.sh` | per database: tables, indexes, the row of `alembic_version` | `alembic upgrade head` by every container that starts; `alembic downgrade -1` by an operator |
| **Inventory cache**, **inventory HTTP client** | — | never filled, never used |

**How they interact.** `POST /orders` calls Inventory over HTTP for each item
(GET to validate, POST to reserve, POST to release when it has to undo), then
publishes `order.created`. Inventory and Fulfillment both consume it.
Fulfillment publishes `fulfillment.assigned` when it has made its record and
`fulfillment.completed` when staff complete it; Order consumes both, Inventory
the second. Every request and every message is one SQL transaction in the
database of its service: `get_db` commits when the route handler has returned
and rolls back when it raised; the subscribers commit and roll back themselves.
Up to ten containers per service run, each with one thread per subscription, so
that any two handlers can interleave at every `await` on the database or on HTTP.

**What is hard.**
* *Interleaving.* Only reserve and release lock the row they read
  (`SELECT ... FOR UPDATE`). All other read-check-write sequences (product
  update and delete, order and fulfillment status changes) use a plain read.
* *Several databases, one operation.* The creation saga and cancellation change
  Inventory by HTTP inside their own uncommitted transaction; a time-out does not
  tell whether the call was executed; a rollback at the end does not undo it.
* *Delivery.* Events come at least once, in any order, to several containers at
  once, and stop coming after five attempts. Events leave before the commit of
  the transaction that caused them.
* *Crashes* between any two steps: rows roll back, HTTP effects stay, and so does
  every `CREATE` of a migration script.
* *Migrations* are run by every container that starts, several at once, and
  nothing locks the database.

**What makes each component correct.**
* Inventory: the counters are the balance of what was committed; a commit never
  grants more than there is; an order's items are reserved together and once;
  deleted rows stay deleted; no transaction waits for ever.
* Order: a published or stored order holds its items; nothing is reserved twice;
  a failed saga leaves nothing behind; statuses follow `ORDER_TRANSITIONS`; an
  event moves its order once; no request is stuck or goes round in circles.
* Fulfillment: one record per order; statuses follow the table; what was
  published was committed, unless a transaction was lost.
* Pull subscriber: every message is handled or dead-lettered; a handled message
  has its effect once; the thread goes on.
* Rate limiter: never more than `max_requests` let through in any window.
* Schemas: the version row says what is there; whoever serves finds the schema its
  code was written for.
* Together: an order is DELIVERED only after its parcel went through every stage;
  what Fulfillment does belongs to an order that exists; every reserved unit is
  accounted for; a completion reaches its order, or it is known why it does not.

## 2. Modules

| Module | Role | State |
|---|---|---|
| `StockPool` | abstract Inventory: a pool of stock that changes by whole operations | done |
| `Inventory` | rows, row locks, drafts, transactions; every operation | done |
| `MCInventory` | instances for TLC | done |
| `Inventory_proofs` | TLAPS proofs about `Inventory`: its invariants | done |
| `InventoryPool_proofs` | TLAPS proof that `Inventory` implements `StockPool` | done |
| `Orders` | Order service over the promise of `StockPool` and HTTP | done |
| `MCOrders` | instances for TLC | done |
| `Orders_proofs` | TLAPS proofs about `Orders` | done |
| `Delivery` | abstract subscription: an event takes effect at most once, before its message is acknowledged | done |
| `PullSubscriber` | pull loop and Pub/Sub, containers that stop and crash | done |
| `MCPullSubscriber` | instances for TLC | done |
| `PullSubscriber_proofs` | TLAPS proofs: types and the refinement of `Delivery` | done |
| `Fulfillment` | one record per order, transaction by transaction | done |
| `MCFulfillment` | instance for TLC | done |
| `Fulfillment_proofs` | TLAPS proofs about `Fulfillment` | done |
| `RateLimiter` | the sorted set of one client | done |
| `MCRateLimiter` | instance for TLC | done |
| `RateLimiter_proofs` | TLAPS proofs about `RateLimiter` | done |
| `Schemas` | the statements of the nine Alembic scripts | done |
| `Migrations` | containers that migrate a database, killed processes, a downgrade | done |
| `MCMigrations` | instance for TLC | done |
| `Migrations_proofs` | TLAPS proofs about `Migrations` | done |
| `SupplyChain` | `Orders`, `Fulfillment` and `StockPool` composed through their events | done |
| `MCSupplyChain` | instance for TLC | done |
| `SupplyChain_proofs` | TLAPS proofs about `SupplyChain`, from those about its parts | done |

### Inventory

A member of `Tx` is a slot in which one transaction after the other runs (a
request, or a subscriber thread). `row` is the committed table. `lock[p]` is the
exclusive InnoDB lock of a row and `draft[p]` the version its holder has flushed;
without a holder it equals the row. `tx[t]` says which operation runs, on what,
and, for a read that is used later, what was read (`snap`).

* `Reserve`, `Release`: lock, check and flush in one step, because the code reads
  with `FOR UPDATE` and nothing can come between (`inventory_service.py:171-250`);
  `Commit` is a step of its own.
* `UpdateRead`/`UpdateFlush` and `DeleteRead`/`DeleteFlush`: the plain `SELECT` of
  `get_product`, and the write. SQLAlchemy sends only the columns that differ from
  what was read, and the version computed from what was read; an `UPDATE` that
  finds no row raises (`UpdateStale`), a `DELETE` only warns.
* `HandleBegin`, `HandleItem`, `HandleRaises`, `HandleCommit`, `HandleDuplicate`:
  `_reserve_all`, item by item in one transaction, and the unique index on
  `processed_events` that decides between concurrent deliveries.
* `LockWaitFails` (deadlock victim or lock wait time-out) and `Crash` (anything
  that loses the connection, a commit that fails) roll back.

`ledger` is history: what the committed transactions say they reserved and
released. `Needed` is a constant that gives the running demand of an event's
items, so that the model and its proofs need no recursion; `NeededAssumption`
defines it, and TLC evaluates the assumption.

`StockPool` has one action per whole operation. `Inventory!ImplementsPool` is
that specification under the mapping `stock <- row` without the version,
`granted <- ledger`, `handled <- processed`.

### Orders

A member of `Req` is a slot for a request or a message. `status[o]` is the
committed row; an uncommitted order is not visible, so a failed one stays
`"absent"`. `rowLock` is the InnoDB lock that an `UPDATE` takes. `req[r]` is the
position in the handler. `stock`, `granted`, `handled` are the variables of
`StockPool`: the Order service is composed with what Inventory promises, and
`Inventory` is shown to keep that promise. Stock keeping is part of it: `SetQuantity`
is `PUT /products/{id}`, the `Recount` of the pool, to any of the numbers in
`Quantity[p]`, fewer than are reserved included; `DeleteProduct` is `DELETE`, the
pool's `Drop`, for the products in `Deletable`. `Refuses` is then both the 409 and the
404 of a product that is gone. Products that are created later are not ordered here.

* `call[r]` is the HTTP call of the slot: sent, answered (`ok`, `refused`) or
  without a usable answer (`failed`). `NoAnswer` stands for a 5xx, a lost
  connection and the 5 s time-out; the call may have been executed, may still be
  (it joins `late`), or never. `ServeLate` executes it at any later moment, also
  after its request has ended.
* `StartCreate`, `ValidateItem`, `ValidateFails`, `Send`, `Serve`, `Reserved`,
  `ReserveRaises`, `Released`, `CreateRaises`, `ConfirmAndPublish`,
  `CreateCommit`: the saga (`order_service.py:54-116`). `ReserveRaises` undoes
  the items whose answer was read, not the one that failed (line 98 is not
  reached for it); `CreateRaises` is the re-raise that makes `get_db` roll back.
* `CancelRead`, `CancelFlush`, `Released`, `CancelCommit`: `cancel_order`; what to
  release is decided by the status that was read, and released before the commit.
* `EventRead`, `EventFlush`, `EventCommit`, `EventDuplicate`: `update_status` for
  the two events, with the unique index on `processed_events`.

`used`, `holds`, `troubled`, `cancelling`, `shorted` are history; `shorted` are the
products whose last PUT left less than was reserved. `holds[o][i]` is reserves
minus releases executed in the name of item `i` of order `o`; Inventory itself
keeps no such record (`order_id` is only logged), so the code cannot use it.

### PullSubscriber and Delivery

`box[m]` is where Pub/Sub keeps a message of one subscription, `attempts[m]` how
often it was delivered. `thread[c]` is the position of container `c` in
`_run_loop`: at its head, in the `for` loop, in a handler that has found its event
unprocessed, or `"ended"`. `batch` and `acks` are `received_messages` still to be
handled and `ack_ids`.

* `Pull`, `HandleSkips`, `HandleBegins`, `HandleCommits`, `HandleRaises`,
  `BatchEnds`: `subscriber.py:61-128` with the frame every handler of the services
  has: `is_already_processed`, work, `mark_processed`, commit. A handler is two
  steps, so that another container can commit the same event in between; the
  unique index then refuses the second commit.
* `AcknowledgeRaises`: the one call outside of a `try`.
* `LeaseExpires`: the 30 s ack deadline passes at any moment, also while the
  message is being handled; after `MaxAttempts` deliveries it is dead-lettered.
  `BatchEnds` may fail to acknowledge any of the messages, as late ack ids do.
* `Stop`, `LoopEnds`, `Exit`, `Crash`, `Start`: `lifespan` and Cloud Run. The
  thread is a daemon, so a stopping process may end it anywhere.

`Delivery` has four actions: post, take effect, settle (acknowledge), bury.
`ImplementsDelivery` maps queued and leased messages to `"open"`.

### Fulfillment

`status[o]` is the committed record of order `o`, `"absent"` if there is none.
`req[r]` is the transaction of slot `r`: nothing, read with the status it is going
to write, or written and holding the lock. `assigned` and `completed` count the
events that left.

* `CreateRead`, `CreateInsert`, `CreateExisting`, `CreateDuplicate`: the
  subscriber and `create_from_order`. The `INSERT` waits for, or fails on, another
  record of the order; `fulfillment.assigned` leaves after the flush.
* `TransitionRead`, `TransitionWrite`: the four staff requests; the table is asked
  about a plain `SELECT`, and `fulfillment.completed` leaves after the flush.
* `Commit`, `Crash`, `LockWaitFails`: the ends of a transaction. What was
  published stays published.

`reached` and `undone` are history: statuses ever committed, and orders for
which a transaction that had written was lost. No property says what becomes of a
record after it was COMPLETED: see section 5.

### RateLimiter

One client's sorted set. `LetIn`, `Refuse` and `Bypass` run the pipeline of
`_check_limit` with a stamp between `now - MaxLag` and `now`: the stamp is taken
before the pipeline, in containers with clocks of their own. `Tick` lets the key
expire. `letIn`, `refused` and `seen` are history.

### Schemas and Migrations

`Schemas` lists what every script creates and drops, in the order it does. An
object is a table or an index of a table; columns decide no statement's outcome.
`Migrations` takes the scripts as a constant: TLC gets those of the three services,
the proofs need no more than that each script has a first statement and, where they
say exactly what the database holds, that a script succeeds on what its predecessors
made and its downgrade undoes it (`ScriptsAssumption`, which TLC evaluates on those
scripts).

`job[c]` is the position of a container in `entrypoint.sh`: waiting for the proxy,
reading the version row, creating `alembic_version`, in statement `next` of script
`rev`, or serving. `ReadVersion` plans from the row as it is then (`entrypoint.sh` calls `alembic upgrade head`; the reading, the
statements and the stamp are Alembic's, and mapped as external). `RunStatement`
is one `CREATE`, committed by MySQL at once; if the object exists Alembic raises and
`set -e` ends the container. `StampVersion` moves the row, which must be what the
process expects. `Kill` and `Interrupt` end a process anywhere; `ProxyTimedOut`,
`Stop` and `Start` are Cloud Run and the wait loop. `BeginRollback`, `RunDrop` and
`UnstampVersion` are `alembic downgrade -1` (`PRODUCTION_GUIDE.md:399-406`). One
restriction is an assumption about the operator: the first revision, which drops
all data, is not taken back while a container is migrating.

`kills` and `rollbacks` count against their bounds; `disturbed` is history: a
script was cut short, or a downgrade met an upgrade.

### SupplyChain

`O` is `Orders`, whose events are now the ones Fulfillment publishes, `F` is
`Fulfillment`, whose events are the orders published by `O`, and `Pool` is what
Inventory promises. Their variables are shared by name or renamed (`record`,
`recordLock`, `job`, `recorded`); nothing else connects them. What the composition
adds is Pub/Sub: a copy of every event per subscription (`Copy`,
`terraform/modules/pubsub/main.tf`), and `attempts` that each delivery counts.

* `OrderAccepts` and `FulfillmentAccepts` are a delivery together with the first
  step of the handler; the rest of the handler is `OrderStep` or
  `FulfillmentStep`, which include crashes. A handler that does not finish leaves
  its event unprocessed, so the next delivery finds it.
* `OrderRefuses` is `update_status` raising, for an order that is not there or in
  another state: a delivery is spent and nothing else happens.
* `InventoryReserves`, `InventoryRaises`: `_reserve_all` as one step, which is what
  `Inventory!ImplementsPool` allows.
* `StockStep` is stock keeping: the PUTs and DELETEs of `Orders`.

`overtaken` is history: orders whose `fulfillment.completed` was refused before
`fulfillment.assigned` was handled, or for which an event's `UPDATE` waited in vain
for the row (`NotesVainWaits`): with more than one container the duplicate of an
earlier event may hold it, and the delivery is spent. The step of a message through a batch, its
lease and its acknowledgement are `PullSubscriber`'s, and are not repeated here.

## 3. Hazards

`PROJECT.json` lists each at its line with the properties that cover it. Those
without a property have a note that says why: the code shows them in one step, or
they lie in the runtime library.

## 4. Runs

All are finite and exhaustive within their bounds. `CHECK_DEADLOCK FALSE`
everywhere: a system without requests may rest.

| Run | Question | Instance |
|---|---|---|
| `inventory` | Are counters exact, stock never oversold, deleted rows final? Does the row-level service implement `StockPool`, and does every transaction end? | 2 products, 2 transactions, 2 orders that lock in opposite orders, one naming a product twice, stock of 0 or 2, `MaxVersion` 2; 68 k states |
| `orders_saga` | Do published orders hold their items, do row and stock agree when nothing failed, is nothing reserved twice, is no unit promised to two orders, does an event move its order once, is no request stuck and does each go forward? | 2 orders competing for a single unit, one with 2 products, 2 requests, 2 events, 1 late call; a PUT of 0 or 1 on the contested product, a DELETE of the other; 1.05 M states |
| `orders_failed` | "If any reservation fails, release already-reserved items" | violated, without a crash: a reserve without an answer is executed late |
| `orders_transitions` | "Transitions are enforced in the service layer" | violated: check against a stale read |
| `pull_settle` | Does a subscription implement `Delivery`, and does every message settle? | 2 containers, 2 messages of one event, 3 attempts, 1 restart, 1 failing acknowledge; 60 k states |
| `pull_thread` | "failed messages eventually go to a DLQ topic" | violated: one container, one failing acknowledge |
| `fulfillment_record` | Is a record assigned once, nothing completed that was not shipped, was every stage committed that an event reported? | 1 order, 2 `order.created` events, 3 transactions; 116 k states |
| `limiter_window` | Does the sliding window hold, and is every refusal earned? | limits 2 and 1, window 5 ms, lag 2 ms, clock to 7; 163 k states |
| `migrations` | Does the version row keep its word, do scripts exclude each other, do the losers of a race serve in the end? | the scripts of each service, 3 containers, 1 kill, 1 downgrade; 195 k states |
| `migrations_killed` | "Runs Alembic migrations, then starts the uvicorn server." | violated: killed between two statements |
| `supply` | Is DELIVERED only what was shipped, does stock add up, what becomes of a completion? | 1 order for 1 of 2 units; a slot each for requests, events and staff; a DELETE of the product; no late calls, 2 attempts; 691 k states |
| `supply_double` | "The reservation itself is also idempotent" | violated: reserved by HTTP and by the subscriber |

**Bounds.** Two transactions or requests are enough for every race here, because
each one is between two readers of one row or between a waiter and a lock holder;
slots are reused, so longer histories (a duplicate that is overtaken by the
original *and* by the next event) need no third slot. Two products give lock
cycles and partially reserved orders; a repeated product gives the case where the
second check must see the first write. `MaxVersion` bounds how many operations a
row sees: 2 leaves room for a write between a PUT's read and its write, since the
version is compared when a request starts; releases need no bound, because each
one takes units that were reserved before. In `inventory` one product starts with
two units and the other is created or has two: an order that takes one unit leaves
too few for a request that takes two, and a PUT to 0 leaves less than is reserved. In `orders_saga` one product
has a single unit, so that one order's second item is refused after the first was
reserved; the other has two, so that a double reserve would not be refused.
A PUT of 0 takes the contested unit away whether or not it is reserved, a PUT of 1
puts it back. `orders_failed` has crossed items and single units, `orders_transitions`
one product. Both leave stock keeping out, and the first (`CalmSpec`) crashes too: what
they show needs neither, and the counterexample is the one the comment is about.
`MaxLate` bounds abandoned calls under way; no two of them are alike.
Two containers and two copies of one event give every race between a handler, its
lease and its twin; three attempts leave one after both have failed, and one
restart can fall between any two steps. `pull_settle` has one failing acknowledge
and two containers, so one thread is left; `pull_thread` has one container, and
shows what happens when none is left. Records of different orders share nothing,
so one is enough; the third transaction lets a request read between two others.
The limiter's window is long enough that a lag of 2 makes a difference (the window
without the lag subtracted is violated in this instance) and the clock runs past
the key's expiry. Three containers give two that race and one that starts after;
one kill and one downgrade can fall between any two statements, and a second kill
finds nothing new, since the first already stops the version row for good. In
`supply` orders share stock only, which `orders_saga` checks with two of them, so
one order is enough for the events; late calls are left to `orders_saga` and to the
theorems, which hold for any `MaxLate`; each of its two fulfillment events may be
delivered twice, which is one delivery to be lost and one to be handled.

**Fairness.** `Inventory!Fairness` is weak fairness of `Advance` per slot: a handler
that was begun goes on. The event loop schedules it, and InnoDB resolves lock waits by
deadlock detection or `innodb_lock_wait_timeout`. No fairness is assumed of requests
or crashes. `Orders` states none: that every request ends is split into two
safety properties instead, so that `orders_saga` can have stock keeping as well.
`NoRequestIsStuck` says that a request always has a step of its own to take, although
Inventory never answers, another transaction holds the row or the product is gone;
`RequestsGoForward` that each such step leaves less to be done. Under weak fairness
of `Advance` per slot (the event loop, httpx with `timeout=5.0`, InnoDB), they give that
every request ends. `PullSubscriber!Fairness` is weak fairness of a
container's start, of its thread (a blocking loop that nothing waits for) and of
each lease running out; none is assumed of stops, crashes or successful handlers,
so `EveryMessageSettles` holds for a message whose handler always raises.
`Migrations!Fairness` is weak fairness of a container's own steps and start (Cloud
Run replaces containers while there are requests) and of a downgrade that was
begun, and strong fairness of the proxy's answer: it may be late, not always.
`SupplyChain!Fairness` is weak fairness of the subscriber threads of the Order
service and of the redelivery of a completion; requests, staff and Inventory owe
nothing, and `fulfillment.assigned` may never come. It takes for
granted that those threads live, which is what `pull_settle` and `pull_thread` are
about.

**Mutants.** Each property of a passing run has a mutant beside the definition it
replaces, marked `Mutant:`: a missing `FOR UPDATE`, a missing flush, a missing
check, a commit per item, a retried POST, a compensation that stops one short, a
missing unique index, a client without time-out, a publish before the flush, an
unchecked transition, a count before the add, a version row that moves too early, a
script that tolerates existing objects, an entrypoint without `set -e`, a commit
that is forgotten, a refusal that is acknowledged, a transition missing from the
table. Mutants of a composition sit in the component they would be made in.

## 5. Where code and text disagree

The violated runs above, each quoted in `PROJECT.json`. Met while modelling, and
following from a single step, so not given a run:
* `CreateRaises`: the CANCELLED status of a failed saga is rolled back with
  everything else; `order_service.py:12` says the order is cancelled.
* The DELETE route calls `delete_product`, whose docstring leaves the check of
  reserved stock to "the caller" (`inventory_service.py:160`), and makes none: the
  reservations of orders go with the row.
* `order.created` leaves before the commit; a consumer may look up an order that
  is not there yet, or never will be.
* `deduct_stock` has no caller: units of delivered orders stay reserved.
* `models/order.py:30` says of CANCELLED "order cancelled, stock released", and the
  transitions let a PROCESSING order be cancelled; `cancel_order` releases stock
  only if it read CONFIRMED (`order_service.py:174`), and `order.cancelled` is
  declared and never published, so Fulfillment goes on.
* `update_product` adds 1 to the version it read without a lock, so a reservation
  committed in between is not counted, while `inventory_service.py:11` says that
  `version` "is incremented on every write". Nothing compares versions.
* `PRODUCTION_GUIDE.md:408` says that the `processed_events` table "can be dropped
  safely": the code that serves at that moment queries it in every handler, and
  its messages fail until they are dead-lettered or the table is back.
* `routers/health.py:55` says the readiness probe "Returns 200 only when all
  dependencies are healthy"; it returns 200 always and says `not_ready` in the body.
* Two concurrent cancellations both read CONFIRMED and both release: the second
  takes units that other orders hold (`order_service.py:163-176`).
* If the commit of `cancel_order` fails, its releases stay: the order is CONFIRMED
  without stock (`order_service.py:176`).
* A process that dies between two reservations leaves them behind: nothing of the
  order was committed, and nothing releases for it (`order_service.py:92`).
* PUT sets `quantity_available` to any number, fewer than are reserved included
  (`inventory_service.py:137-157`): until it is put back, more is promised than is
  there (`shorted`).
* `models/fulfillment.py:9` says "Any state → FAILED"; the table below it lets neither
  a COMPLETED nor a FAILED record become FAILED, and `mark_failed` obeys the table.
  The code does come to COMPLETED → FAILED in another way: `mark_completed` and
  `mark_failed` may both read SHIPPED, and the record ends FAILED while
  `fulfillment.completed` has told the Order service DELIVERED
  (`fulfillment_service.py:148-166`). So nothing is stated of what a completed record
  becomes, only that it was completed (`EventsWereCommitted`).
* `fulfillment.completed` leaves before the commit (`fulfillment_service.py:155`): if
  that fails, the Order service says DELIVERED and the record SHIPPED.
* `Retry-After` names the window. A refused request is a member too, and the next one
  may carry a stamp that lags, so that the refused one still counts: a client that waits
  for exactly a window may be refused again; whoever is silent for a window and the lag
  is let in.
* The limiter adds a request as the member `str(now_ms)`: requests of one
  millisecond are counted as one and let in together (`rate_limit.py:128`).
* The three services use one key per client with limits of their own, so requests
  to one count against the limit of another.

## 6. Proofs

### Inventory_proofs

`Inventory_proofs` proves, for any sets of products, transactions and events and
any item lists:

| Theorem | States |
|---|---|
| `TypeCorrect` | `Spec => []TypeOK`; in particular no counter goes below zero |
| `NoLostReservation` | `Spec => []ReservedMatchesLedger` |
| `ReservingNeverOversells` | `Spec => NeverOversell` |
| `DeletedStaysDeleted` | `Spec => DeletedIsFinal` |

Assumed: `ConstantsAssumption` and `NeededAssumption` only.

*Argument.* None of these is inductive: a commit publishes a draft written
earlier, so the invariant has to say what drafts are. `IInv` says that a draft
belongs to its lock holder and is the committed row plus what the holder did
(`DraftIsRowPlusDelta`), that unlocked rows have no draft
(`UnlockedRowsAreClean`), that whoever has something to add holds the lock of the
row (`OnlyHeldRowsChange`), that readers hold nothing (`ReadersHoldNothing`), and
that a draft which grants units covers them (`GrantIsCovered`). Four lemmas do
the work: a step that writes one draft, one that only reads, one that publishes a
transaction's drafts and one that drops them each preserve `IInv`
(`WriteIInv`, `ReadIInv`, `CommitRowsIInv`, `RollbackIInv`); every operation
instantiates one of them. The action properties follow from `RowBecomesDraft`:
a committed row changes only into its draft.

### InventoryPool_proofs

| Theorem | States |
|---|---|
| `ImplementsStockPool` | `Spec => ImplementsPool`: the service refines `StockPool` |

Assumed: the same two assumptions.

*Argument.* `IInv` speaks of reserved units only, but a commit publishes the whole
row. `DraftsAreOneOperation` adds what a draft is as a row: the product of the
request, and the committed row changed the way that operation changes it (a create
starts from a row that never was, a reservation from a live one whose stock it
leaves alone, a PUT sets a quantity that a body may name, a delete finds a row that
was). `PoolIInv` is the conjunction, and inductive (`InitFits`, `NextFits`, with one
lemma for a write, a read, a commit and a rollback). Then a step that leaves `row`,
`ledger` and `processed` alone is a stutter of the pool (`InvisibleStep`), and a
commit is exactly one of its operations: `CommitShows` says what is published, and
`CreateShows`, `ReserveShows`, `ReleaseShows`, `UpdateShows`, `DeleteShows` and
`HandleShows` name the operation. A grant is covered because the draft was
(`GrantIsCovered`); the units of an order are granted together because the running
total of its items is what its transaction has written, under locks it still holds.

### Orders_proofs

| Theorem | States |
|---|---|
| `TypeCorrect` | `Spec => []TypeOK` |
| `PublishedOrdersHold` | `Spec => []PublishedOrdersHoldTheirItems` |
| `ReservedOnce` | `Spec => []ReservesOncePerItem` |
| `EventsMoveOnce` | `Spec => EventMovesOrderOnce` |
| `UndisturbedOrders` | `Spec => []UndisturbedOrdersAddUp` |
| `NothingIsOversold` | `Spec => []NoUnitIsPromisedTwice` |
| `ForwardOnly` | `Spec => RequestsGoForward` |

Assumed: `OrdersAssumption` (orders have items, capacities and the quantities of a PUT
are natural numbers, an event is about an order and says processing or delivered). Any
number of slots, any `MaxLate`; any product may be deleted at any time, and any quantity
set.

*Argument.* That a published order holds its items says nothing of the calls that
could still take them away, so the invariant `IInv` follows each unit. A body is
posted once, and an order without a row has one saga at most (`OneSagaPerOrder`).
`OneReservePerItem`: as long as an item's reserve is still to come, from the saga or
as a late call, but never both, the order holds none of it; afterwards one at most.
`GrantedItemsAreHeld`: an item whose answer was read, or is there to be read, is
held. What would break that is a release that arrives late, so `LateCallsAreSound`
says whose they are: orders that some cancellation has written, or that have failed
for good (`Failed`), to which a saga never comes back. Most steps only move a slot
forward, and `SlotStep` handles these together: a step that neither takes on a
reserve to come nor claims a grant keeps the invariant, also when its call joins the
late ones. A unit moves in `ServeKeeps` and `ServeLateKeeps`, a row in `StoreKeeps`.

`UndisturbedOrders` needs more: that a compensation gives back *all* it took. `AIInv`
says for an order that met no trouble that its items are held exactly if its saga was
granted them or still owes them back (`UntroubledSagasAddUp`). That can fail in one
way: a release of the saga is refused because the pool is empty, since Inventory does
not know whose units it gives back. So `HeldItemsAreReserved` counts: the held items of a
product, as a set of pairs, are no more than its reserved units, and the release of a
held item is therefore executed, unless the product is gone; then there is nothing to
give back, and the property speaks of live products only. The count breaks once a double cancellation has
released the units of others, and what it broke stays visible as a negative balance:
`holds[o][i]` rises only by the one reserve of the item, which finds it at zero, so
`NoneNegative`, once false, stays false, and the property needs no other
exception. That a late reserve does not turn up behind the compensation of its own item
is `LateReservesAreLast`; that a row stays CONFIRMED under a cancellation only as long
as its request goes on is `CancellationsGoOn`. `QuietTurn` handles the steps that
move a slot, `ExecutionKeepsCount` a unit that moves.

`NothingIsOversold` follows from the same count. An item that was promised, because its
order is published or has its row, is held; the held items of a product are no more
than its reserved units; and these are there, as Inventory refuses the rest
(`PoolIsCovered`), unless the last PUT took them out: `shorted` names these products,
and for them only the reserved units are compared. A product that is deleted takes its
reservations along. So the unlocked stock check of `_validate_stock`, which several sagas may
pass for the same units, costs refusals but no unit that two orders count on. A
double cancellation is what can cost one, hence `NoneNegative`.

`ForwardOnly` needs little of the invariant: `SlotGoesForward` goes through the actions
of a slot, and `OthersRest` says that no action moves two.

### PullSubscriber_proofs

| Theorem | States |
|---|---|
| `TypeCorrect` | `Spec => []TypeOK` |
| `SubscriptionKeepsPromise` | `Spec => ImplementsDelivery` |

Assumed: `PullAssumption` (messages carry events, at least one attempt and one
message per pull).

*Argument.* Settling a message needs its event done, so the invariant says that an
ack id is kept only for a message whose event is processed or none of the
subscriber's (`AcksAreDone`), and that a processed event has had its effect exactly
once (`EffectsAreProcessed`); taking effect needs the message published
(`WorkIsDelivered`). One lemma per action preserves the invariant. The refinement
then has one lemma per action that is not a stutter: publish posts, the last lease
buries, the commit takes effect, the end of a batch settles. Pulling and requeueing
stutter because `Fate` does not tell queued from leased.

### Fulfillment_proofs

| Theorem | States |
|---|---|
| `TypeCorrect` | `Spec => []TypeOK`, with the lock of a record held by who has written it |
| `AssignedOnce` | `Spec => []AssignedOncePerRecord` |
| `CompletedAfterShipping` | `Spec => []CompletedWasShipped` |
| `EventsCommitted` | `Spec => []EventsWereCommitted` |

Assumed: `FulfillmentAssumption` (events belong to orders).

*Argument.* An event leaves before its transaction commits, so the count alone is
not inductive: `AssignedNeedsRecord` says that for an order without a record and
without a transaction that has written, nothing has left (or it is in `undone`).
A status is written long after it was checked, so `StagesWereReached` speaks of
the targets of running transactions as well as of committed rows; it survives
overtaking because what was reached stays reached. A completion leaves before its
commit too: `ReportsBelong` says that it was committed, or that the transaction which
reported it still holds the record and is about to write COMPLETED. With no lock held,
and no transaction lost, only the first is left, which is `EventsWereCommitted`; for
`fulfillment.assigned` the same follows from `AssignedNeedsRecord` and from every record
having been ASSIGNED once (`StagesWereReached`).

### RateLimiter_proofs

| Theorem | States |
|---|---|
| `TypeCorrect` | `Spec => []TypeOK`; what is in the set never outlives the key |
| `NoBurstEver` | `Spec => []NoBurst`, for every limit, window and lag |
| `RefusalsEarned` | `Spec => []RefusalsAreEarned` |

Assumed: `LimiterAssumption` (limits, window and grace are positive).

*Argument.* `NoBurst` is about stamps that were let in, the code about members of
the set. The two are tied by `StillCounted`: a stamp that was let in and is less
than a window old is still a member. A pipeline trims by a stamp of at most `now`,
so it keeps that; expiry keeps it because every member is a window older than the
key's end (the last part of `TypeOK`). When a request with stamp `t` is let in, the
stamps of the window around it are younger than `now - Window` because `t` lags by at
most `MaxLag`, so they were all counted.

### Migrations_proofs

| Theorem | States |
|---|---|
| `TypeCorrect` | `Spec => []TypeOK` |
| `VersionIsKept` | `Spec => []VersionMeansSchema` |
| `ScriptsExclude` | `Spec => []OneInsideAScript` |
| `ServersAreServed` | `Spec => []ServersHaveTheirSchema` |
| `UndisturbedSchemas` | `Spec => []UndisturbedSchemaIsItsVersion` |

Assumed: `MigrationsAssumption` (scripts are sequences of objects, and none is
empty): the theorems hold for scripts that are yet to be written. `UndisturbedSchemas`
also assumes `ScriptsAssumption`: every `CREATE` of a script finds its table and not
itself when the scripts before it have run, and `down` leaves what there was before `up`.

*Argument.* Nothing locks the database, so mutual exclusion has to come from the
statements. `RunnersMatchTheRow` says that a container within a script started from
the version row as it still is, and that every statement before its next one has
been executed. If two were within scripts, both would be within the script after
the row; the one that is about to execute the first statement would find its object
created by the other, and fail. So the row moves only when the script's objects
are all there, which keeps `VersionMeansSchema`, and a container serves only when it
has moved the row to the last revision, or has read it there. The facts hold until
the first downgrade, which drops objects before it moves the row.

`EIInv` goes on through downgrades, as long as nothing is cut short. It says which
objects there are, not only which at least: those before the next statement on the
way up (`UpgradesAreExact`, `Built`) or down (`DowngradesAreExact`, `Left`). A container
that lost the race is stopped by its first statement, so it has added nothing;
within a script no statement fails, so only a kill can leave one half done; and
after a downgrade the same argument starts again from an older row.

### SupplyChain_proofs

| Theorem | States |
|---|---|
| `TypeCorrect` | `Spec => []TypeOK` |
| `DeliveredAfterShipping` | `Spec => []DeliveredWasShipped` |
| `FulfilledOrdersFollow` | `Spec => []FulfilledOrdersExist` |
| `CompletionsDieExcused` | `Spec => []OnlyOvertakenCompletionsDie` |
| `StockAccounts` | `Spec => []StockIsAccountedFor` |
| `OrdersKeepsItsPromises` | `Spec => []` of `O!PublishedOrdersHoldTheirItems`, `O!ReservesOncePerItem`, `O!UndisturbedOrdersAddUp` |
| `NothingIsOversoldTogether` | `Spec => []O!NoUnitIsPromisedTwice` |
| `EventsMoveOnceTogether` | `Spec => O!EventMovesOrderOnce` |
| `FulfillmentImplemented` | `Spec => F!Spec`: the composition refines `Fulfillment` |
| `FulfillmentKeepsItsPromises` | `Spec => []` of `F!AssignedOncePerRecord`, `F!CompletedWasShipped`, `F!EventsWereCommitted` |

Assumed: `SupplyChainAssumption` only (of the orders, that they are finitely many). What `Orders` and `Fulfillment` assume of their
constants is proved to hold of what the composition gives them (`OrdersAssumed`,
`FulfillmentAssumed`).

*Argument.* `Orders_proofs` and `Fulfillment_proofs` are instances here, so that what
they prove need not be proved again: the first lemmas show that a step of a service
within the composition is a step of the service by itself. The exception is the
reservation for `order.created`, which changes the stock behind the back of
`Orders`; it only leaves more units reserved, and the invariant of `Orders` survives
that (`InventoryReservesKeepsOrders`). Stock keeping is a step of `Orders`
(`OrdersKeepStock`) and leaves everything else alone (`StockStepIsElsewhere`). Both inductive invariants are thereby
inherited, and `IInv` adds what ties the services together. `EventsWereSent`: an
order is DELIVERED because a completion was handled, which was sent, so staff
completed the record, and what `Fulfillment` proves of completed records applies.
`PublishedOrdersCome` and `RecordsArePublished`: a record has its `order.created`,
whose saga has written the row or is about to. `AttemptsAreAccounted`: a completion
that was delivered is in a thread's hands or has its excuse, which is not forgotten;
`RefusalsAreExcused` goes through the statuses in which `update_status` raises.
`Progress` is what a step of the Order service may do to events and rows, and `Steps`
sorts the steps of the composition by it. The run has one thread of the Order
service, the proof any number; it is with two that rows stay locked.

The last five theorems say that composing the services costs none of their promises.
Every step of the composition is a step of `Fulfillment` or leaves it alone
(`FulfillmentSteps`), hence the refinement. `Orders` is not refined, because
`InventoryReserves` is no step of it; but that step keeps `O!AIInv` as well
(`InventoryReservesKeepsAccounts`), reserves from the units on hand
(`PoolStaysCovered`), and moves no order.

`StockAccounts` is about a sum over the orders of sums over their items, and a sum
is a fold. What a fold computes is an induction over a set, and the library's induction
theorems cannot be used here. The section on sums does without: a set of subsets for
which a claim fails has a smallest member (`SmallestSet`, from the well-foundedness of
strict inclusion), and each lemma takes it to a contradiction. In this way the recursion of
`SumFunctionOnSet` is shown to have a solution (`SumsAgree`, `SumsExist`,
`SumTakesFirst`), and then what the accounts need: a sum is an integer, equal values
have equal sums, and when one value moves the sum moves by as much (`SumMoves`). A
call that is executed moves one item of one order (`ExecutionIsAccounted`), and the
subscriber's reservation moves one order (`ReservationIsAccounted`).
A PUT or DELETE reserves nothing (`StockKeepingReservesNothing`).
The run has one order for one unit, the theorem any finite number of orders of any
length.

### What is only model-checked

With that exception, every invariant and every action property that a passing run
checks is a theorem, and so are the refinements of `StockPool` and `Delivery`. Liveness stays with TLC, because it
needs `ENABLED`, which the provers do not handle: `EveryTxEnds`, `EveryMessageSettles`,
`UndisturbedContainersServe`, `CompletionsSettle`. So does `NoRequestIsStuck`, an
invariant that uses `ENABLED`. The violated
properties of section 5 are counterexamples, which TLC finds.

## 7. Plan

The modules, runs and theorems planned are done. Worth adding as the code grows:
1. `SupplyChain` with two threads of the Order service as a run of its own: safety
   alone, since it needs a symmetry that liveness does not allow.
2. Releasing the stock of cancelled and delivered orders, once the events for it
   (`order.cancelled`, `deduct_stock`) have a publisher and a caller.

## 8. Not modelled

Reads, health and metrics routes, logging, secrets, configuration and
infrastructure change no state the properties speak of. The Redis cache is never
filled and `shared/http/inventory_client.py` is used by no service. Prices,
addresses, names and the wire format of events are abstracted. One event loop per
message against a pool of connections made in another loop
(`asyncio.run` in every `handle`) is a matter of the runtime library.
