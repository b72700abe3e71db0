------------------------------ MODULE Inventory ------------------------------
(***************************************************************************)
(* The stock rows of the Inventory service and the database transactions   *)
(* that change them (services/inventory).                                  *)
(*                                                                         *)
(* Every HTTP request and every handling of an order.created message is    *)
(* one SQL transaction on one AsyncSession, and up to ten containers run   *)
(* them side by side on one MySQL (InnoDB, REPEATABLE READ).  A member of  *)
(* Tx is a slot in which one transaction after the other runs.             *)
(*                                                                         *)
(* InnoDB is external: `row` is the committed table, `lock` the exclusive  *)
(* row lock, and `draft` the uncommitted version of a row that the lock    *)
(* holder has flushed.  SELECT ... FOR UPDATE, UPDATE and DELETE wait for  *)
(* the lock; a plain SELECT reads the committed row and waits for nothing. *)
(* A request that is refused (404, 409) before it has written anything     *)
(* leaves no trace, so it is not a step.                                   *)
(*                                                                         *)
(* Left out: the descriptive columns, the reads (list, get), the Redis     *)
(* cache (which no code fills) and SKU uniqueness (a product is its id).   *)
(***************************************************************************)
EXTENDS Integers, Sequences

CONSTANTS
  Product,      \* product ids
  Tx,           \* transaction slots (requests and subscriber threads)
  Event,        \* order.created event ids
  Items,        \* Items[e]: the sequence of [product, quantity] of event e
  Needed,       \* Needed[e][n][p]: units of p in the first n items of e
  Quantity,     \* quantities a request may name
  MaxVersion,   \* bound: no request starts to change a row at this version,
                \* except to release: releases end by themselves
  NoTx, NoProduct, NoEvent

Item == [product : Product, quantity : Nat \ {0}]

ASSUME ConstantsAssumption ==
  /\ NoTx \notin Tx
  /\ NoProduct \notin Product
  /\ NoEvent \notin Event
  /\ Quantity \subseteq Nat
  /\ MaxVersion \in Nat
  /\ Items \in [Event -> Seq(Item)]

\* Needed is the running total of an event's items, product by product: an
\* order may name the same product in several items.
ASSUME NeededAssumption ==
  \A e \in Event :
    /\ Needed[e] \in [0 .. Len(Items[e]) -> [Product -> Nat]]
    /\ \A p \in Product :
         /\ Needed[e][0][p] = 0
         /\ \A n \in 0 .. Len(Items[e]) - 1 :
              LET item == Items[e][n + 1]
              IN  Needed[e][n + 1][p] =
                    Needed[e][n][p] + (IF item.product = p THEN item.quantity ELSE 0)

VARIABLES
  row,        \* the committed row of each product
  draft,      \* the row as its lock holder sees it; equal to `row` if unlocked
  lock,       \* the transaction that holds the row lock, or NoTx
  tx,         \* what each transaction slot is doing
  processed,  \* the committed processed_events of this service
  ledger      \* history: units of each product whose reservation was
              \* committed, less those whose release was

vars == <<row, draft, lock, tx, processed, ledger>>

Keep == -1    \* a PUT body that does not set quantity_available

RowState == {"unborn", "live", "deleted"}
Row == [state : RowState, available : Nat, reserved : Nat, version : Nat]
NewRow(a) == [state |-> "live", available |-> a, reserved |-> 0, version |-> 1]
NoRow == [state |-> "unborn", available |-> 0, reserved |-> 0, version |-> 0]

Op == {"idle", "create", "reserve", "release",      \* ready to commit
       "update", "updated", "delete", "deleted",    \* read, then written
       "handle"}                                    \* an order.created message

TxRecord == [op : Op, product : Product \cup {NoProduct}, quantity : Nat \cup {Keep},
             snap : Row, event : Event \cup {NoEvent}, pos : Nat]
Idle == [op |-> "idle", product |-> NoProduct, quantity |-> Keep,
         snap |-> NoRow, event |-> NoEvent, pos |-> 0]

TypeOK ==
  /\ row \in [Product -> Row]
  /\ draft \in [Product -> Row]
  /\ lock \in [Product -> Tx \cup {NoTx}]
  /\ tx \in [Tx -> TxRecord]
  /\ processed \subseteq Event
  /\ ledger \in [Product -> Int]

\* Any table of unreserved products, and nothing running.
Init ==
  /\ row \in [Product -> {NoRow} \cup {NewRow(a) : a \in Quantity}]
  /\ draft = row
  /\ lock = [p \in Product |-> NoTx]
  /\ tx = [t \in Tx |-> Idle]
  /\ processed = {}
  /\ ledger = [p \in Product |-> 0]

------------------------------------------------------------------------------
(* The session: flush, commit, rollback *)

\* Mutant: SELECT without FOR UPDATE, nobody waits for a row.
NoRowLock(t, p) == t \in Tx /\ p \in Product

CanLock(t, p) == lock[p] \in {NoTx, t}

\* Transaction t takes the lock of p and leaves the uncommitted row r there.
Write(t, p, r) ==
  /\ CanLock(t, p)
  /\ lock' = [lock EXCEPT ![p] = t]
  /\ draft' = [draft EXCEPT ![p] = r]

\* The units of p that committing the transaction x would reserve.
Delta(x, p) ==
  CASE x.op = "reserve" /\ x.product = p -> x.quantity
    [] x.op = "release" /\ x.product = p -> -x.quantity
    [] x.op = "handle" -> Needed[x.event][x.pos][p]
    [] OTHER -> 0

Unlock(t) == lock' = [p \in Product |-> IF lock[p] = t THEN NoTx ELSE lock[p]]

CommitRows(t) ==
  /\ row' = [p \in Product |-> IF lock[p] = t THEN draft[p] ELSE row[p]]
  /\ ledger' = [p \in Product |-> ledger[p] + Delta(tx[t], p)]
  /\ tx' = [tx EXCEPT ![t] = Idle]
  /\ Unlock(t)
  /\ UNCHANGED draft

Rollback(t) ==
  /\ draft' = [p \in Product |-> IF lock[p] = t THEN row[p] ELSE draft[p]]
  /\ tx' = [tx EXCEPT ![t] = Idle]
  /\ Unlock(t)
  /\ UNCHANGED <<row, processed, ledger>>

------------------------------------------------------------------------------
(* InventoryService *)

\* Mutant: the flush is forgotten, so a second item of the same product is
\* checked against the row as it was before the first.
ReserveRowUnflushed(t, p, q) ==
  /\ draft[p].state = "live"
  /\ row[p].available - row[p].reserved >= q
  /\ Write(t, p, [draft[p] EXCEPT !.reserved = @ + q, !.version = @ + 1])

\* reserve_stock: SELECT FOR UPDATE, the on-hand check and the flushed UPDATE.
ReserveRow(t, p, q) ==
  /\ draft[p].state = "live"
  /\ draft[p].available - draft[p].reserved >= q
  /\ Write(t, p, [draft[p] EXCEPT !.reserved = @ + q, !.version = @ + 1])

Reserve(t, p, q) ==
  /\ tx[t].op = "idle"
  /\ row[p].version < MaxVersion
  /\ ReserveRow(t, p, q)
  /\ tx' = [tx EXCEPT ![t] = [Idle EXCEPT !.op = "reserve", !.product = p, !.quantity = q]]
  /\ UNCHANGED <<row, processed, ledger>>

\* Mutant: releasing more than is reserved is not refused.
ReleaseUnchecked(t, p, q) ==
  /\ tx[t].op = "idle"
  /\ draft[p].state = "live"
  /\ Write(t, p, [draft[p] EXCEPT !.reserved = @ - q, !.version = @ + 1])
  /\ tx' = [tx EXCEPT ![t] = [Idle EXCEPT !.op = "release", !.product = p, !.quantity = q]]
  /\ UNCHANGED <<row, processed, ledger>>

\* release_stock: the order id is only logged, any order's units are released.
Release(t, p, q) ==
  /\ tx[t].op = "idle"
  /\ draft[p].state = "live"
  /\ q <= draft[p].reserved
  /\ Write(t, p, [draft[p] EXCEPT !.reserved = @ - q, !.version = @ + 1])
  /\ tx' = [tx EXCEPT ![t] = [Idle EXCEPT !.op = "release", !.product = p, !.quantity = q]]
  /\ UNCHANGED <<row, processed, ledger>>

\* Mutant: the id of a deleted product is given out again.
CreateReusesId(t, p, a) ==
  /\ tx[t].op = "idle"
  /\ draft[p].state # "live"
  /\ Write(t, p, NewRow(a))
  /\ tx' = [tx EXCEPT ![t] = [Idle EXCEPT !.op = "create", !.product = p]]
  /\ UNCHANGED <<row, processed, ledger>>

\* create_product: the id comes from auto-increment.
Create(t, p, a) ==
  /\ tx[t].op = "idle"
  /\ draft[p] = NoRow
  /\ Write(t, p, NewRow(a))
  /\ tx' = [tx EXCEPT ![t] = [Idle EXCEPT !.op = "create", !.product = p]]
  /\ UNCHANGED <<row, processed, ledger>>

\* update_product, first half: get_product is a plain SELECT.
UpdateRead(t, p, a) ==
  /\ tx[t].op = "idle"
  /\ row[p].state = "live"
  /\ row[p].version < MaxVersion
  /\ tx' = [tx EXCEPT ![t] = [Idle EXCEPT !.op = "update", !.product = p,
                                          !.quantity = a, !.snap = row[p]]]
  /\ UNCHANGED <<row, draft, lock, processed, ledger>>

\* Second half: the flushed UPDATE names only the columns that differ from what
\* was read, with the values computed from what was read.
UpdateFlush(t) ==
  LET p == tx[t].product
      a == tx[t].quantity
      changed == a # Keep /\ a # tx[t].snap.available
  IN  /\ tx[t].op = "update"
      /\ draft[p].state = "live"
      /\ Write(t, p, [draft[p] EXCEPT !.available = IF changed THEN a ELSE @,
                                      !.version = tx[t].snap.version + 1])
      /\ tx' = [tx EXCEPT ![t].op = "updated"]
      /\ UNCHANGED <<row, processed, ledger>>

\* The UPDATE matches no row any more: StaleDataError, and get_db rolls back.
UpdateStale(t) ==
  /\ tx[t].op = "update"
  /\ CanLock(t, tx[t].product)
  /\ draft[tx[t].product].state # "live"
  /\ Rollback(t)

\* delete_product: a plain SELECT, then the DELETE; reservations do not matter.
DeleteRead(t, p) ==
  /\ tx[t].op = "idle"
  /\ row[p].state = "live"
  /\ tx' = [tx EXCEPT ![t] = [Idle EXCEPT !.op = "delete", !.product = p]]
  /\ UNCHANGED <<row, draft, lock, processed, ledger>>

\* A DELETE that matches no row only logs a warning.
DeleteFlush(t) ==
  /\ tx[t].op = "delete"
  /\ LET p == tx[t].product IN Write(t, p, [draft[p] EXCEPT !.state = "deleted"])
  /\ tx' = [tx EXCEPT ![t].op = "deleted"]
  /\ UNCHANGED <<row, processed, ledger>>

\* get_db commits when the route handler has returned.
Commit(t) ==
  /\ tx[t].op \in {"create", "reserve", "release", "updated", "deleted"}
  /\ CommitRows(t)
  /\ UNCHANGED processed

------------------------------------------------------------------------------
(* OrderCreatedSubscriber *)

AlreadyProcessed(e) == e \in processed
MarkProcessed(e) == processed' = processed \cup {e}

\* _reserve_all opens its session and finds the event not processed; a
\* duplicate that finds it processed returns without a step.
HandleBegin(t, e) ==
  /\ tx[t].op = "idle"
  /\ ~ AlreadyProcessed(e)
  /\ tx' = [tx EXCEPT ![t] = [Idle EXCEPT !.op = "handle", !.event = e]]
  /\ UNCHANGED <<row, draft, lock, processed, ledger>>

NextItem(t) == Items[tx[t].event][tx[t].pos + 1]
HasItem(t) == tx[t].op = "handle" /\ tx[t].pos < Len(Items[tx[t].event])
AllItemsHeld(t) == tx[t].op = "handle" /\ tx[t].pos = Len(Items[tx[t].event])

\* Mutant: a commit after every item.
HandleItemCommits(t) ==
  /\ HasItem(t)
  /\ ReserveRow(t, NextItem(t).product, NextItem(t).quantity)
  /\ row' = [row EXCEPT ![NextItem(t).product] = draft'[NextItem(t).product]]
  /\ tx' = [tx EXCEPT ![t].pos = @ + 1]
  /\ UNCHANGED <<processed, ledger>>

\* The items are reserved one by one in the order's own order; the locks stay.
HandleItem(t) ==
  /\ HasItem(t)
  /\ ReserveRow(t, NextItem(t).product, NextItem(t).quantity)
  /\ tx' = [tx EXCEPT ![t].pos = @ + 1]
  /\ UNCHANGED <<row, processed, ledger>>

\* ProductNotFoundError or InsufficientStockError: roll back and re-raise.
HandleRaises(t) ==
  /\ HasItem(t)
  /\ LET p == NextItem(t).product
     IN  /\ CanLock(t, p)
         /\ \/ draft[p].state # "live"
            \/ draft[p].available - draft[p].reserved < NextItem(t).quantity
  /\ Rollback(t)

\* The ProcessedEvent is inserted by the flush of the commit itself.
HandleCommit(t) ==
  /\ AllItemsHeld(t)
  /\ tx[t].event \notin processed
  /\ MarkProcessed(tx[t].event)
  /\ CommitRows(t)

\* Mutant: the IntegrityError is swallowed and the session stays open.
DuplicateSwallowed(t) == AllItemsHeld(t) /\ tx[t].event \in processed /\ FALSE

\* uq_processed_events: another delivery of the event committed meanwhile.
HandleDuplicate(t) ==
  /\ AllItemsHeld(t)
  /\ tx[t].event \in processed
  /\ Rollback(t)

------------------------------------------------------------------------------
(* Failures *)

\* The row transaction t has to lock next.
Wanted(t) == IF HasItem(t) THEN NextItem(t).product ELSE tx[t].product

Waiting(t) ==
  /\ HasItem(t) \/ tx[t].op \in {"update", "delete"}
  /\ ~ CanLock(t, Wanted(t))

\* InnoDB ends a wait: a deadlock's victim, or innodb_lock_wait_timeout.
LockWaitFails(t) == Waiting(t) /\ Rollback(t)

\* The container, the connection or the commit itself fails.
Crash(t) == tx[t].op # "idle" /\ Rollback(t)

------------------------------------------------------------------------------
Advance(t) ==
  \/ Commit(t)
  \/ UpdateFlush(t) \/ UpdateStale(t)
  \/ DeleteFlush(t)
  \/ HandleItem(t) \/ HandleRaises(t)
  \/ HandleCommit(t) \/ HandleDuplicate(t)
  \/ LockWaitFails(t)

Begin(t) ==
  \/ \E p \in Product, q \in Quantity \ {0} : Reserve(t, p, q) \/ Release(t, p, q)
  \/ \E p \in Product, a \in Quantity : Create(t, p, a)
  \/ \E p \in Product, a \in Quantity \cup {Keep} : UpdateRead(t, p, a)
  \/ \E p \in Product : DeleteRead(t, p)
  \/ \E e \in Event : HandleBegin(t, e)

Next == \E t \in Tx : Begin(t) \/ Advance(t) \/ Crash(t)

Spec == Init /\ [][Next]_vars

\* InnoDB, the session and the handler keep going; requests and crashes need
\* not happen.
Fairness == \A t \in Tx : WF_vars(Advance(t))

FairSpec == Spec /\ Fairness

------------------------------------------------------------------------------
(* Properties *)

\* The number in quantity_reserved is what the committed transactions say it
\* is: no reservation or release is lost or counted twice, whatever PUTs,
\* deletes, duplicates and rollbacks run in between.
ReservedMatchesLedger == \A p \in Product : row[p].reserved = ledger[p]

\* Reserving never commits more than there is: the check made under the row
\* lock still holds when the transaction commits, also for an order that names
\* a product twice and while a PUT lowers the stock.
NeverOversell ==
  [][\A p \in Product : row'[p].reserved > row[p].reserved
                          => row'[p].reserved <= row'[p].available]_vars

\* A deleted product never comes back, and nothing is reserved or released on
\* it: a request that was waiting for its lock sees that the row is gone.
DeletedIsFinal ==
  [][\A p \in Product : row[p].state = "deleted" => row'[p] = row[p]]_vars

\* The service is a pool of stock that changes by whole operations: what a
\* transaction has written but not committed is invisible, an order's items
\* are reserved together, and duplicate deliveries of one event, on several
\* containers at once, reserve once.
Pool == INSTANCE StockPool WITH
  Amount <- Quantity,
  Demand <- [e \in Event |-> Needed[e][Len(Items[e])]],
  stock <- [p \in Product |-> [state |-> row[p].state, available |-> row[p].available,
                               reserved |-> row[p].reserved]],
  granted <- ledger,
  handled <- processed

ImplementsPool == Pool!PoolSpec

\* No transaction waits for ever: two orders that lock the same products in
\* opposite orders block each other, one of them is rolled back, and the other
\* goes on.
EveryTxEnds == \A t \in Tx : tx[t].op # "idle" ~> tx[t].op = "idle"

------------------------------------------------------------------------------
(* The inductive invariant: why the properties hold *)

\* Each transaction is in a state its operation can be in.
WellFormed(x) ==
  /\ x.op \notin {"idle", "handle"} => x.product \in Product
  /\ x.op \in {"reserve", "release"} => x.quantity \in Nat
  /\ x.op = "update" => x.quantity \in Quantity \cup {Keep}
  /\ x.op = "handle" => x.event \in Event /\ x.pos \in 0 .. Len(Items[x.event])

TxShape == \A t \in Tx : WellFormed(tx[t])

\* A transaction that has only read holds no row.
ReadersHoldNothing ==
  \A t \in Tx, p \in Product : lock[p] = t => tx[t].op \notin {"idle", "update", "delete"}

\* What a transaction would add it has written under a lock it still holds.
OnlyHeldRowsChange ==
  \A t \in Tx, p \in Product : lock[p] # t => Delta(tx[t], p) = 0

\* A draft is the committed row plus what its owner did: nobody else wrote.
UnlockedRowsAreClean == \A p \in Product : lock[p] = NoTx => draft[p] = row[p]
DraftIsRowPlusDelta ==
  \A t \in Tx, p \in Product :
    lock[p] = t => draft[p].reserved = row[p].reserved + Delta(tx[t], p)

\* A draft that grants units covers them.
GrantIsCovered ==
  \A p \in Product : draft[p].reserved > row[p].reserved
                        => draft[p].reserved <= draft[p].available

\* Nothing writes a deleted row, not even a draft of it.
DeletedRowsAreClean ==
  \A p \in Product : row[p].state = "deleted" => draft[p] = row[p]

IInv ==
  /\ TypeOK
  /\ TxShape
  /\ ReadersHoldNothing
  /\ OnlyHeldRowsChange
  /\ UnlockedRowsAreClean
  /\ DraftIsRowPlusDelta
  /\ GrantIsCovered
  /\ DeletedRowsAreClean
  /\ ReservedMatchesLedger

\* What the operation of transaction x makes of the committed row r.
OneOperation(x, d, r) ==
  \/ /\ x.op = "create"
     /\ r.state = "unborn" /\ d.state = "live" /\ d.available \in Quantity
  \/ /\ x.op \in {"reserve", "release", "handle"}
     /\ r.state = "live" /\ d.state = "live" /\ d.available = r.available
  \/ /\ x.op = "updated"
     /\ r.state = "live" /\ d.state = "live" /\ d.available \in Quantity \cup {r.available}
  \/ /\ x.op = "deleted"
     /\ r.state # "unborn" /\ d.state = "deleted" /\ d.available = r.available

\* A transaction does one thing to one product, or reserves the items of an order.
DraftsAreOneOperation ==
  /\ \A t \in Tx :
       /\ tx[t].op \in {"reserve", "release"} => tx[t].quantity \in Quantity \ {0}
       /\ tx[t].op \in {"delete", "deleted"} => row[tx[t].product].state # "unborn"
  /\ \A t \in Tx, p \in Product :
       lock[p] = t => /\ tx[t].op = "handle" \/ tx[t].product = p
                      /\ OneOperation(tx[t], draft[p], row[p])
  /\ \A p \in Product : row[p].state = "unborn" => row[p].reserved = 0

\* The invariant that the refinement of StockPool rests on.
PoolIInv == IInv /\ DraftsAreOneOperation
==============================================================================
