-------------------------- MODULE InventoryPool_proofs --------------------------
(* Proof that Inventory implements StockPool, for any number of products,  *)
(* transactions and events: every commit publishes exactly one operation   *)
(* of the pool, or nothing, and no other step changes what callers see.    *)
EXTENDS Inventory_proofs

------------------------------------------------------------------------------
(* Drafts are one operation *)

\* Nothing has been written at the start.
LEMMA InitFits == Init => PoolIInv
  <1> SUFFICES ASSUME Init PROVE PoolIInv
    OBVIOUS
  <1>1. \A t \in Tx : tx[t].op = "idle"
    BY DEF Init, Idle
  <1>2. \A p \in Product : lock[p] = NoTx
    BY DEF Init
  <1>3. \A p \in Product : row[p].state = "unborn" => row[p].reserved = 0
    <2> SUFFICES ASSUME NEW p \in Product PROVE row[p].reserved = 0
      OBVIOUS
    <2>1. row[p] \in {NoRow} \cup {NewRow(a) : a \in Quantity}
      BY DEF Init
    <2> QED
      BY <2>1 DEF NoRow, NewRow
  <1>4. DraftsAreOneOperation
    BY <1>1, <1>2, <1>3, ConstantsAssumption DEF DraftsAreOneOperation
  <1> QED
    BY <1>4, InitIInv DEF PoolIInv

\* A flush of one operation: transaction t writes the row r of p and goes on as x.
LEMMA WriteFits ==
  ASSUME PoolIInv, NEW t \in Tx, NEW p \in Product, NEW r, NEW x,
         Write(t, p, r), tx' = [tx EXCEPT ![t] = x], row' = row,
         x.op = "handle" \/ (x.product = p /\ \A y \in Product : lock[y] # t),
         x.op = "handle" => tx[t].op = "handle",
         OneOperation(x, r, row[p]),
         x.op \in {"reserve", "release"} => x.quantity \in Quantity \ {0},
         x.op \in {"delete", "deleted"} => row[x.product].state # "unborn"
  PROVE  DraftsAreOneOperation'
  <1>1. \A s \in Tx : tx'[s] = IF s = t THEN x ELSE tx[s]
    BY DEF PoolIInv, IInv, TypeOK
  <1>2. \A y \in Product : /\ lock'[y] = IF y = p THEN t ELSE lock[y]
                           /\ draft'[y] = IF y = p THEN r ELSE draft[y]
    BY DEF PoolIInv, IInv, TypeOK, Write
  <1>3. DraftsAreOneOperation
    BY DEF PoolIInv
  <1>4. ASSUME NEW s \in Tx, NEW y \in Product, lock'[y] = s
        PROVE  /\ tx'[s].op = "handle" \/ tx'[s].product = y
               /\ OneOperation(tx'[s], draft'[y], row[y])
    <2>1. CASE y = p
      BY <1>1, <1>2, <1>4, <2>1
    <2>2. CASE y # p /\ s # t
      BY <1>1, <1>2, <1>3, <1>4, <2>2 DEF DraftsAreOneOperation
    <2>3. CASE y # p /\ s = t
      <3>1. lock[y] = t /\ x.op = "handle" /\ tx[t].op = "handle"
        BY <1>2, <1>4, <2>3
      <3>2. OneOperation(tx[t], draft[y], row[y])
        BY <1>3, <3>1 DEF DraftsAreOneOperation
      <3> QED
        BY <1>1, <1>2, <2>3, <3>1, <3>2 DEF OneOperation
    <2> QED
      BY <2>1, <2>2, <2>3
  <1> QED
    BY <1>1, <1>3, <1>4 DEF DraftsAreOneOperation

\* A step of a transaction that had not begun, and that only reads.
LEMMA ReadFits ==
  ASSUME PoolIInv, NEW t \in Tx, NEW x, tx[t].op = "idle",
         tx' = [tx EXCEPT ![t] = x], UNCHANGED <<row, draft, lock>>,
         x.op \notin {"reserve", "release", "deleted"},
         x.op = "delete" => row[x.product].state # "unborn"
  PROVE  DraftsAreOneOperation'
  <1>1. \A s \in Tx : tx'[s] = IF s = t THEN x ELSE tx[s]
    BY DEF PoolIInv, IInv, TypeOK
  <1>2. \A p \in Product : lock[p] # t
    BY DEF PoolIInv, IInv, ReadersHoldNothing
  <1> QED
    BY <1>1, <1>2 DEF PoolIInv, DraftsAreOneOperation

\* The drafts of a transaction are dropped.
LEMMA RollbackFits ==
  ASSUME PoolIInv, NEW t \in Tx, Rollback(t)
  PROVE  DraftsAreOneOperation'
  <1>1. \A s \in Tx : tx'[s] = IF s = t THEN Idle ELSE tx[s]
    BY DEF PoolIInv, IInv, TypeOK, Rollback
  <1>2. \A p \in Product : /\ lock'[p] = IF lock[p] = t THEN NoTx ELSE lock[p]
                           /\ lock[p] # t => draft'[p] = draft[p]
                           /\ row' = row
    BY DEF PoolIInv, IInv, TypeOK, Rollback, Unlock
  <1>3. Idle.op = "idle"
    BY DEF Idle
  <1>4. \A s \in Tx, p \in Product : lock'[p] = s => s # t /\ lock[p] = s
    BY <1>2, ConstantsAssumption
  <1> QED
    BY <1>1, <1>2, <1>3, <1>4 DEF PoolIInv, DraftsAreOneOperation, Rollback

\* The drafts of a transaction become rows; the rows of others do not change.
LEMMA CommitFits ==
  ASSUME PoolIInv, NEW t \in Tx, CommitRows(t)
  PROVE  DraftsAreOneOperation'
  <1>1. \A s \in Tx : tx'[s] = IF s = t THEN Idle ELSE tx[s]
    BY DEF PoolIInv, IInv, TypeOK, CommitRows
  <1>2. \A p \in Product : /\ lock'[p] = IF lock[p] = t THEN NoTx ELSE lock[p]
                           /\ row'[p] = IF lock[p] = t THEN draft[p] ELSE row[p]
                           /\ draft' = draft
    BY DEF PoolIInv, IInv, TypeOK, CommitRows, Unlock
  <1>3. Idle.op = "idle"
    BY DEF Idle
  <1>4. \A s \in Tx, p \in Product : lock'[p] = s => s # t /\ lock[p] = s
    BY <1>2, ConstantsAssumption
  <1>5. \A p \in Product : lock[p] = t => draft[p].state # "unborn"
    BY DEF PoolIInv, DraftsAreOneOperation, OneOperation
  <1>6. ASSUME NEW s \in Tx, tx'[s].op \in {"delete", "deleted"}
        PROVE  row'[tx'[s].product].state # "unborn"
    <2>1. s # t /\ tx'[s] = tx[s]
      BY <1>1, <1>3, <1>6
    <2>2. tx[s].product \in Product /\ row[tx[s].product].state # "unborn"
      BY <1>6, <2>1 DEF PoolIInv, IInv, TxShape, WellFormed, DraftsAreOneOperation
    <2> QED
      BY <1>2, <1>5, <2>1, <2>2
  <1>7. ASSUME NEW s \in Tx, NEW p \in Product, lock'[p] = s
        PROVE  /\ tx'[s].op = "handle" \/ tx'[s].product = p
               /\ OneOperation(tx'[s], draft'[p], row'[p])
    <2>1. s # t /\ lock[p] = s
      BY <1>4, <1>7
    <2> QED
      BY <1>1, <1>2, <2>1 DEF PoolIInv, DraftsAreOneOperation
  <1>8. \A s \in Tx : tx'[s].op \in {"reserve", "release"} => tx'[s].quantity \in Quantity \ {0}
    BY <1>1, <1>3 DEF PoolIInv, DraftsAreOneOperation
  <1>9. \A p \in Product : row'[p].state = "unborn" => row'[p].reserved = 0
    BY <1>2, <1>5 DEF PoolIInv, DraftsAreOneOperation
  <1> QED
    BY <1>6, <1>7, <1>8, <1>9 DEF DraftsAreOneOperation

------------------------------------------------------------------------------
(* Each operation *)

\* What a transaction may lock without having read it is clean.
LEMMA UntouchedIsClean ==
  ASSUME PoolIInv, NEW t \in Tx, NEW p \in Product, CanLock(t, p),
         tx[t].op \in {"idle", "update", "delete"}
  PROVE  draft[p] = row[p] /\ \A y \in Product : lock[y] # t
  <1>1. \A y \in Product : lock[y] # t
    BY DEF PoolIInv, IInv, ReadersHoldNothing
  <1> QED
    BY <1>1 DEF CanLock, PoolIInv, IInv, UnlockedRowsAreClean

\* The requests that lock and write at once.
LEMMA RequestFits ==
  ASSUME PoolIInv, NEW t \in Tx, NEW p \in Product, NEW q \in Quantity,
         \/ q # 0 /\ (Reserve(t, p, q) \/ Release(t, p, q))
         \/ Create(t, p, q)
  PROVE  DraftsAreOneOperation'
  <1>1. draft[p] \in Row
    BY DEF PoolIInv, IInv, TypeOK
  <1>2. CASE q # 0 /\ Reserve(t, p, q)
    <2> DEFINE r == [draft[p] EXCEPT !.reserved = @ + q, !.version = @ + 1]
               x == [Idle EXCEPT !.op = "reserve", !.product = p, !.quantity = q]
    <2>1. /\ tx[t].op = "idle" /\ Write(t, p, r) /\ tx' = [tx EXCEPT ![t] = x] /\ row' = row
          /\ draft[p].state = "live"
      BY <1>2 DEF Reserve, ReserveRow
    <2>2. draft[p] = row[p] /\ \A y \in Product : lock[y] # t
      BY <2>1, UntouchedIsClean DEF Write
    <2>3. r.state = "live" /\ r.available = draft[p].available
      BY <1>1, <2>1 DEF Row
    <2>4. x.op = "reserve" /\ x.product = p /\ x.quantity = q
      BY DEF Idle
    <2> HIDE DEF r, x
    <2>5. OneOperation(x, r, row[p])
      BY <2>1, <2>2, <2>3, <2>4 DEF OneOperation
    <2> QED
      BY <1>2, <2>1, <2>2, <2>4, <2>5, WriteFits
  <1>3. CASE q # 0 /\ Release(t, p, q)
    <2> DEFINE r == [draft[p] EXCEPT !.reserved = @ - q, !.version = @ + 1]
               x == [Idle EXCEPT !.op = "release", !.product = p, !.quantity = q]
    <2>1. /\ tx[t].op = "idle" /\ Write(t, p, r) /\ tx' = [tx EXCEPT ![t] = x] /\ row' = row
          /\ draft[p].state = "live"
      BY <1>3 DEF Release
    <2>2. draft[p] = row[p] /\ \A y \in Product : lock[y] # t
      BY <2>1, UntouchedIsClean DEF Write
    <2>3. r.state = "live" /\ r.available = draft[p].available
      BY <1>1, <2>1 DEF Row
    <2>4. x.op = "release" /\ x.product = p /\ x.quantity = q
      BY DEF Idle
    <2> HIDE DEF r, x
    <2>5. OneOperation(x, r, row[p])
      BY <2>1, <2>2, <2>3, <2>4 DEF OneOperation
    <2> QED
      BY <1>3, <2>1, <2>2, <2>4, <2>5, WriteFits
  <1>4. CASE Create(t, p, q)
    <2> DEFINE r == NewRow(q)
               x == [Idle EXCEPT !.op = "create", !.product = p]
    <2>1. /\ tx[t].op = "idle" /\ Write(t, p, r) /\ tx' = [tx EXCEPT ![t] = x] /\ row' = row
          /\ draft[p] = NoRow
      BY <1>4 DEF Create
    <2>2. draft[p] = row[p] /\ \A y \in Product : lock[y] # t
      BY <2>1, UntouchedIsClean DEF Write
    <2>3. r.state = "live" /\ r.available = q /\ row[p].state = "unborn"
      BY <2>1, <2>2 DEF NewRow, NoRow
    <2>4. x.op = "create" /\ x.product = p
      BY DEF Idle
    <2> HIDE DEF r, x
    <2>5. OneOperation(x, r, row[p])
      BY <2>3, <2>4 DEF OneOperation
    <2> QED
      BY <2>1, <2>2, <2>4, <2>5, WriteFits
  <1> QED
    BY <1>2, <1>3, <1>4

\* The plain reads.
LEMMA ReadsFit ==
  ASSUME PoolIInv, NEW t \in Tx,
         \/ \E p \in Product, a \in Quantity \cup {Keep} : UpdateRead(t, p, a)
         \/ \E p \in Product : DeleteRead(t, p)
         \/ \E e \in Event : HandleBegin(t, e)
  PROVE  DraftsAreOneOperation'
  <1>1. ASSUME NEW p \in Product, NEW a \in Quantity \cup {Keep}, UpdateRead(t, p, a)
        PROVE  DraftsAreOneOperation'
    <2> DEFINE x == [Idle EXCEPT !.op = "update", !.product = p, !.quantity = a, !.snap = row[p]]
    <2>1. /\ tx[t].op = "idle" /\ tx' = [tx EXCEPT ![t] = x]
          /\ UNCHANGED <<row, draft, lock>>
      BY <1>1 DEF UpdateRead
    <2>2. x.op = "update"
      BY DEF Idle
    <2> HIDE DEF x
    <2> QED
      BY <2>1, <2>2, ReadFits
  <1>2. ASSUME NEW p \in Product, DeleteRead(t, p)
        PROVE  DraftsAreOneOperation'
    <2> DEFINE x == [Idle EXCEPT !.op = "delete", !.product = p]
    <2>1. /\ tx[t].op = "idle" /\ tx' = [tx EXCEPT ![t] = x]
          /\ UNCHANGED <<row, draft, lock>> /\ row[p].state = "live"
      BY <1>2 DEF DeleteRead
    <2>2. x.op = "delete" /\ x.product = p
      BY DEF Idle
    <2> HIDE DEF x
    <2> QED
      BY <2>1, <2>2, ReadFits
  <1>3. ASSUME NEW e \in Event, HandleBegin(t, e)
        PROVE  DraftsAreOneOperation'
    <2> DEFINE x == [Idle EXCEPT !.op = "handle", !.event = e]
    <2>1. /\ tx[t].op = "idle" /\ tx' = [tx EXCEPT ![t] = x]
          /\ UNCHANGED <<row, draft, lock>>
      BY <1>3 DEF HandleBegin
    <2>2. x.op = "handle"
      BY DEF Idle
    <2> HIDE DEF x
    <2> QED
      BY <2>1, <2>2, ReadFits
  <1> QED
    BY <1>1, <1>2, <1>3

\* The flushes that follow a plain read, and those of an order's items.
LEMMA UpdateFlushFits ==
  ASSUME PoolIInv, NEW t \in Tx, UpdateFlush(t)
  PROVE  DraftsAreOneOperation'
  <1> DEFINE p == tx[t].product
             a == IF tx[t].quantity # Keep /\ tx[t].quantity # tx[t].snap.available
                  THEN tx[t].quantity ELSE draft[p].available
             v == tx[t].snap.version + 1
             r == [draft[p] EXCEPT !.available = a, !.version = v]
             x == [tx[t] EXCEPT !.op = "updated"]
  <1>1. tx[t] \in TxRecord /\ tx[t].op = "update" /\ WellFormed(tx[t])
    BY DEF UpdateFlush, PoolIInv, IInv, TypeOK, TxShape
  <1>2. p \in Product
    BY <1>1 DEF WellFormed
  <1>3. draft[p] \in Row
    BY <1>2 DEF PoolIInv, IInv, TypeOK
  <1>4. /\ Write(t, p, r) /\ tx' = [tx EXCEPT ![t] = x] /\ row' = row
        /\ draft[p].state = "live"
    BY DEF UpdateFlush
  <1>5. draft[p] = row[p] /\ \A y \in Product : lock[y] # t
    BY <1>1, <1>2, <1>4, UntouchedIsClean DEF Write
  <1>6. a \in Quantity \cup {row[p].available}
    BY <1>1, <1>5 DEF WellFormed
  <1>7. x.op = "updated" /\ x.product = p
    BY <1>1 DEF TxRecord
  <1> HIDE DEF a, v, x
  <1>8. r.state = "live" /\ r.available = a
    BY <1>3, <1>4 DEF Row
  <1> HIDE DEF r
  <1>9. OneOperation(x, r, row[p])
    BY <1>4, <1>5, <1>6, <1>7, <1>8 DEF OneOperation
  <1> HIDE DEF p
  <1> QED
    BY <1>2, <1>4, <1>5, <1>7, <1>9, WriteFits

LEMMA DeleteFlushFits ==
  ASSUME PoolIInv, NEW t \in Tx, DeleteFlush(t)
  PROVE  DraftsAreOneOperation'
  <1> DEFINE p == tx[t].product
             r == [draft[p] EXCEPT !.state = "deleted"]
             x == [tx[t] EXCEPT !.op = "deleted"]
  <1>1. tx[t] \in TxRecord /\ tx[t].op = "delete" /\ WellFormed(tx[t])
    BY DEF DeleteFlush, PoolIInv, IInv, TypeOK, TxShape
  <1>2. p \in Product /\ row[p].state # "unborn"
    BY <1>1 DEF WellFormed, PoolIInv, DraftsAreOneOperation
  <1>3. draft[p] \in Row
    BY <1>2 DEF PoolIInv, IInv, TypeOK
  <1>4. Write(t, p, r) /\ tx' = [tx EXCEPT ![t] = x] /\ row' = row
    BY DEF DeleteFlush
  <1>5. draft[p] = row[p] /\ \A y \in Product : lock[y] # t
    BY <1>1, <1>2, <1>4, UntouchedIsClean DEF Write
  <1>6. x.op = "deleted" /\ x.product = p
    BY <1>1 DEF TxRecord
  <1>7. r.state = "deleted" /\ r.available = row[p].available
    BY <1>3, <1>5 DEF Row
  <1> HIDE DEF r, x
  <1>8. OneOperation(x, r, row[p])
    BY <1>2, <1>6, <1>7 DEF OneOperation
  <1> HIDE DEF p
  <1> QED
    BY <1>2, <1>4, <1>5, <1>6, <1>8, WriteFits

LEMMA HandleItemFits ==
  ASSUME PoolIInv, NEW t \in Tx, HandleItem(t)
  PROVE  DraftsAreOneOperation'
  <1> DEFINE p == NextItem(t).product
             q == NextItem(t).quantity
             r == [draft[p] EXCEPT !.reserved = @ + q, !.version = @ + 1]
             x == [tx[t] EXCEPT !.pos = @ + 1]
  <1>1. tx[t] \in TxRecord /\ tx[t].op = "handle" /\ WellFormed(tx[t])
    BY DEF HandleItem, HasItem, PoolIInv, IInv, TypeOK, TxShape
  <1>2. p \in Product
    <2>1. /\ tx[t].event \in Event /\ tx[t].pos \in 0 .. Len(Items[tx[t].event])
          /\ tx[t].pos < Len(Items[tx[t].event])
      BY <1>1 DEF WellFormed, HandleItem, HasItem
    <2>2. Items[tx[t].event] \in Seq(Item)
      BY <2>1, ConstantsAssumption
    <2>3. Items[tx[t].event][tx[t].pos + 1] \in Item
      BY <2>1, <2>2
    <2> QED
      BY <2>3 DEF Item, NextItem
  <1>3. draft[p] \in Row
    BY <1>2 DEF PoolIInv, IInv, TypeOK
  <1>4. /\ Write(t, p, r) /\ tx' = [tx EXCEPT ![t] = x] /\ row' = row
        /\ draft[p].state = "live"
    BY DEF HandleItem, ReserveRow
  <1>5. x.op = "handle"
    BY <1>1 DEF TxRecord
  <1>6. r.state = "live" /\ r.available = draft[p].available
    BY <1>3, <1>4 DEF Row
  <1>7. row[p].state = "live" /\ row[p].available = draft[p].available
    <2>1. lock[p] \in {NoTx, t}
      BY <1>4 DEF Write, CanLock
    <2>2. CASE lock[p] = NoTx
      BY <1>2, <1>4, <2>2 DEF PoolIInv, IInv, UnlockedRowsAreClean
    <2>3. CASE lock[p] = t
      <3>1. OneOperation(tx[t], draft[p], row[p])
        BY <1>2, <2>3 DEF PoolIInv, DraftsAreOneOperation
      <3> QED
        BY <1>1, <3>1 DEF OneOperation
    <2> QED
      BY <2>1, <2>2, <2>3
  <1> HIDE DEF q, r, x
  <1>8. OneOperation(x, r, row[p])
    BY <1>5, <1>6, <1>7 DEF OneOperation
  <1> HIDE DEF p
  <1> QED
    BY <1>1, <1>2, <1>4, <1>5, <1>8, WriteFits

LEMMA NextFits == PoolIInv /\ [Next]_vars => PoolIInv'
  <1> SUFFICES ASSUME PoolIInv, [Next]_vars PROVE PoolIInv'
    OBVIOUS
  <1>1. IInv'
    BY NextIInv DEF PoolIInv
  <1>2. ASSUME UNCHANGED vars PROVE DraftsAreOneOperation'
    BY <1>2 DEF vars, PoolIInv, DraftsAreOneOperation
  <1>3. ASSUME NEW t \in Tx, Begin(t) PROVE DraftsAreOneOperation'
    BY <1>3, RequestFits, ReadsFit DEF Begin
  <1>4. ASSUME NEW t \in Tx, Advance(t) \/ Crash(t) PROVE DraftsAreOneOperation'
    <2>1. CASE Commit(t) \/ HandleCommit(t)
      BY <2>1, CommitFits DEF Commit, HandleCommit
    <2>2. CASE UpdateFlush(t) \/ DeleteFlush(t) \/ HandleItem(t)
      BY <2>2, UpdateFlushFits, DeleteFlushFits, HandleItemFits
    <2>3. CASE \/ UpdateStale(t) \/ HandleRaises(t) \/ HandleDuplicate(t)
               \/ LockWaitFails(t) \/ Crash(t)
      BY <2>3, RollbackFits
         DEF UpdateStale, HandleRaises, HandleDuplicate, LockWaitFails, Crash
    <2> QED
      BY <1>4, <2>1, <2>2, <2>3 DEF Advance
  <1>5. DraftsAreOneOperation'
    BY <1>2, <1>3, <1>4 DEF Next, PoolIInv
  <1> QED
    BY <1>1, <1>5 DEF PoolIInv

------------------------------------------------------------------------------
(* The refinement *)

\* What callers see of a row.
Shown(r) == [state |-> r.state, available |-> r.available, reserved |-> r.reserved]
Stock == [p \in Product |-> [state |-> row[p].state, available |-> row[p].available,
                             reserved |-> row[p].reserved]]

LEMMA InitRefines == Init => Pool!PoolInit
  <1> SUFFICES ASSUME Init PROVE Pool!PoolInit
    OBVIOUS
  <1>1. ASSUME NEW p \in Product
        PROVE  Shown(row[p]) \in {Pool!Unborn} \cup {Pool!Live(a) : a \in Quantity}
    <2>1. row[p] \in {NoRow} \cup {NewRow(a) : a \in Quantity}
      BY DEF Init
    <2>2. CASE row[p] = NoRow
      BY <2>2 DEF Shown, NoRow, Pool!Unborn
    <2>3. CASE \E a \in Quantity : row[p] = NewRow(a)
      BY <2>3 DEF Shown, NewRow, Pool!Live
    <2> QED
      BY <2>1, <2>2, <2>3
  <1>2. Stock \in [Product -> {Pool!Unborn} \cup {Pool!Live(a) : a \in Quantity}]
    BY <1>1 DEF Stock, Shown
  <1> QED
    BY <1>2 DEF Pool!PoolInit, Stock, Init

\* A step that leaves the table, the ledger and the processed events alone.
LEMMA InvisibleStep ==
  ASSUME UNCHANGED <<row, ledger, processed>>
  PROVE  UNCHANGED Pool!poolVars
  BY DEF Pool!poolVars

\* What a commit changes: the rows that are locked, by what was written.
LEMMA CommitShows ==
  ASSUME PoolIInv, NEW t \in Tx, CommitRows(t)
  PROVE  /\ \A p \in Product :
              /\ row'[p] = IF lock[p] = t THEN draft[p] ELSE row[p]
              /\ ledger'[p] = ledger[p] + Delta(tx[t], p)
              /\ row[p] \in Row /\ draft[p] \in Row /\ ledger[p] \in Int
              /\ Delta(tx[t], p) \in Int
              /\ lock[p] # t => Delta(tx[t], p) = 0
              /\ lock[p] = t => /\ OneOperation(tx[t], draft[p], row[p])
                                /\ draft[p].reserved = row[p].reserved + Delta(tx[t], p)
              /\ row'[p].reserved = row[p].reserved + Delta(tx[t], p)
              /\ draft[p].reserved > row[p].reserved => draft[p].reserved <= draft[p].available
              /\ lock[p] = t /\ tx[t].op # "handle" => tx[t].product = p
         /\ ledger' = [p \in Product |-> ledger'[p]] /\ ledger = [p \in Product |-> ledger[p]]
  <1>1. IInv /\ DraftsAreOneOperation
    BY DEF PoolIInv
  <1>2. \A p \in Product : /\ row[p] \in Row /\ draft[p] \in Row /\ ledger[p] \in Int
                           /\ row[p].reserved \in Nat
    BY <1>1 DEF IInv, TypeOK, Row
  <1>3. \A p \in Product : Delta(tx[t], p) \in Int
    BY <1>1, DeltaType DEF IInv, TypeOK, TxShape
  <1>4. \A p \in Product :
          /\ lock[p] # t => Delta(tx[t], p) = 0
          /\ lock[p] = t => draft[p].reserved = row[p].reserved + Delta(tx[t], p)
    BY <1>1 DEF IInv, OnlyHeldRowsChange, DraftIsRowPlusDelta
  <1>5. \A p \in Product :
          /\ row'[p] = IF lock[p] = t THEN draft[p] ELSE row[p]
          /\ ledger'[p] = ledger[p] + Delta(tx[t], p)
    BY DEF CommitRows
  <1>6. \A p \in Product : row'[p].reserved = row[p].reserved + Delta(tx[t], p)
    BY <1>2, <1>4, <1>5
  <1>7. \A p \in Product :
          /\ lock[p] = t => OneOperation(tx[t], draft[p], row[p])
          /\ lock[p] = t /\ tx[t].op # "handle" => tx[t].product = p
          /\ draft[p].reserved > row[p].reserved => draft[p].reserved <= draft[p].available
    BY <1>1 DEF DraftsAreOneOperation, IInv, GrantIsCovered
  <1>8. ledger' = [p \in Product |-> ledger'[p]] /\ ledger = [p \in Product |-> ledger[p]]
    BY <1>1 DEF CommitRows, IInv, TypeOK
  <1> QED
    BY <1>2, <1>3, <1>4, <1>5, <1>6, <1>7, <1>8

\* A reservation is a grant.
LEMMA ReserveShows ==
  ASSUME PoolIInv, NEW t \in Tx, Commit(t), tx[t].op = "reserve"
  PROVE  Pool!GrantOne(tx[t].product, tx[t].quantity)
         /\ tx[t].product \in Product /\ tx[t].quantity \in Quantity
  <1> DEFINE p == tx[t].product
             q == tx[t].quantity
  <1>1. CommitRows(t) /\ processed' = processed
    BY DEF Commit
  <1>2. p \in Product /\ q \in Quantity \ {0} /\ q \in Nat
    BY ConstantsAssumption
       DEF PoolIInv, IInv, TxShape, WellFormed, DraftsAreOneOperation
  <1>3. \A y \in Product : Delta(tx[t], y) = IF y = p THEN q ELSE 0
    BY DEF Delta
  <1> HIDE DEF p, q
  <1>4. lock[p] = t /\ \A y \in Product : y # p => lock[y] # t
    BY <1>1, <1>2, <1>3, CommitShows DEF p
  <1>5. /\ row[p].state = "live" /\ draft[p].state = "live"
        /\ draft[p].available = row[p].available
    BY <1>1, <1>2, <1>4, CommitShows DEF OneOperation
  <1>6. draft[p].reserved = row[p].reserved + q /\ row[p].reserved \in Nat
        /\ row[p].available \in Nat
    BY <1>1, <1>2, <1>3, <1>4, CommitShows DEF Row
  <1>7. draft[p].reserved <= draft[p].available
    BY <1>1, <1>2, <1>6, CommitShows
  <1>8. q <= row[p].available - row[p].reserved
    BY <1>2, <1>5, <1>6, <1>7
  <1>9. \A y \in Product :
          /\ Shown(row'[y]) = [Shown(row[y]) EXCEPT !.reserved = @ + (IF y = p THEN q ELSE 0)]
          /\ ledger'[y] = ledger[y] + (IF y = p THEN q ELSE 0)
    <2> SUFFICES ASSUME NEW y \in Product
                 PROVE  /\ Shown(row'[y]) =
                             [Shown(row[y]) EXCEPT !.reserved = @ + (IF y = p THEN q ELSE 0)]
                        /\ ledger'[y] = ledger[y] + (IF y = p THEN q ELSE 0)
      OBVIOUS
    <2>1. ledger'[y] = ledger[y] + (IF y = p THEN q ELSE 0)
      BY <1>1, <1>3, CommitShows
    <2>2. CASE y = p
      <3>1. row'[y] = draft[y]
        BY <1>1, <1>4, <2>2, CommitShows
      <3> QED
        BY <2>1, <2>2, <3>1, <1>5, <1>6 DEF Shown
    <2>3. CASE y # p
      <3>1. row'[y] = row[y] /\ row[y].reserved \in Nat
        BY <1>1, <1>4, <2>3, CommitShows DEF Row
      <3> QED
        BY <2>1, <2>3, <3>1 DEF Shown
    <2> QED
      BY <2>2, <2>3
  <1>10. Pool!Grant([r \in Product |-> IF r = p THEN q ELSE 0])
    <2>1. \A y \in Product : (IF y = p THEN q ELSE 0) > 0 =>
            row[y].state = "live" /\ (IF y = p THEN q ELSE 0) <= row[y].available - row[y].reserved
      BY <1>2, <1>5, <1>8
    <2>2. Stock' = [y \in Product |->
                      [Stock[y] EXCEPT !.reserved = @ + (IF y = p THEN q ELSE 0)]]
      BY <1>9 DEF Stock, Shown
    <2>3. ledger' = [y \in Product |-> ledger[y] + (IF y = p THEN q ELSE 0)]
      BY <1>1, <1>9, CommitShows
    <2> QED
      BY <2>1, <2>2, <2>3 DEF Pool!Grant, Pool!IsLive, Pool!OnHand, Stock
  <1> QED
    BY <1>1, <1>2, <1>10 DEF Pool!GrantOne, p, q

\* A transaction that is not an order's shows in one row, if it has written it.
LEMMA OneRowShows ==
  ASSUME PoolIInv, NEW t \in Tx, Commit(t)
  PROVE  LET p == tx[t].product
         IN  /\ p \in Product
             /\ CommitRows(t) /\ processed' = processed
             /\ \A y \in Product : y # p => lock[y] # t
             /\ Stock' = [Stock EXCEPT ![p] = Shown(row'[p])]
             /\ ledger' = [ledger EXCEPT ![p] = ledger'[p]]
             /\ lock[p] # t => UNCHANGED Pool!poolVars
  <1> DEFINE p == tx[t].product
  <1>1. CommitRows(t) /\ processed' = processed
    BY DEF Commit
  <1>2. tx[t].op \in {"create", "reserve", "release", "updated", "deleted"}
    BY DEF Commit
  <1>3. p \in Product
    BY <1>2 DEF PoolIInv, IInv, TxShape, WellFormed
  <1>4. \A y \in Product : y # p => lock[y] # t
    BY <1>1, <1>2, CommitShows
  <1> HIDE DEF p
  <1>5. \A y \in Product : y # p => row'[y] = row[y] /\ ledger'[y] = ledger[y]
    <2> SUFFICES ASSUME NEW y \in Product, y # p
                 PROVE  row'[y] = row[y] /\ ledger'[y] = ledger[y]
      OBVIOUS
    <2>1. lock[y] # t
      BY <1>4
    <2>2. row'[y] = row[y] /\ ledger'[y] = ledger[y] + 0 /\ ledger[y] \in Int
      BY <1>1, <2>1, CommitShows
    <2> QED
      BY <2>2
  <1>6. Stock' = [Stock EXCEPT ![p] = Shown(row'[p])]
    BY <1>3, <1>5 DEF Stock, Shown
  <1>7. ledger' = [ledger EXCEPT ![p] = ledger'[p]]
    <2>1. ledger' = [y \in Product |-> ledger'[y]] /\ ledger = [y \in Product |-> ledger[y]]
      BY <1>1, CommitShows
    <2>2. DOMAIN ledger = Product /\ DOMAIN ledger' = Product
      BY <2>1
    <2>3. \A y \in Product : ledger'[y] = [ledger EXCEPT ![p] = ledger'[p]][y]
      BY <1>3, <1>5, <2>2
    <2> QED
      BY <2>1, <2>2, <2>3
  <1>8. ASSUME lock[p] # t PROVE UNCHANGED Pool!poolVars
    <2>1. row'[p] = row[p] /\ ledger'[p] = ledger[p] + 0 /\ ledger[p] \in Int
      BY <1>1, <1>3, <1>8, CommitShows
    <2>2. \A y \in Product : row'[y] = row[y] /\ ledger'[y] = ledger[y]
      BY <1>5, <2>1
    <2>3. Stock' = Stock
      BY <2>2 DEF Stock
    <2>4. ledger' = ledger
      <3>1. ledger' = [y \in Product |-> ledger'[y]] /\ ledger = [y \in Product |-> ledger[y]]
        BY <1>1, CommitShows
      <3> QED
        BY <2>2, <3>1
    <2> QED
      BY <1>1, <2>3, <2>4 DEF Pool!poolVars, Stock
  <1> QED
    BY <1>1, <1>3, <1>4, <1>6, <1>7, <1>8 DEF p

\* A release takes back.
LEMMA ReleaseShows ==
  ASSUME PoolIInv, NEW t \in Tx, Commit(t), tx[t].op = "release"
  PROVE  Pool!TakeBack(tx[t].product, tx[t].quantity)
         /\ tx[t].product \in Product /\ tx[t].quantity \in Quantity
  <1> DEFINE p == tx[t].product
             q == tx[t].quantity
  <1>1. CommitRows(t) /\ processed' = processed
    BY DEF Commit
  <1>2. p \in Product /\ q \in Quantity \ {0} /\ q \in Nat
    BY ConstantsAssumption
       DEF PoolIInv, IInv, TxShape, WellFormed, DraftsAreOneOperation
  <1>3. Delta(tx[t], p) = -q
    BY DEF Delta
  <1>4. /\ Stock' = [Stock EXCEPT ![p] = Shown(row'[p])]
        /\ ledger' = [ledger EXCEPT ![p] = ledger'[p]]
    BY OneRowShows
  <1>5. tx[t].op # "handle" /\ tx[t].op # "create" /\ tx[t].op # "updated" /\ tx[t].op # "deleted"
    OBVIOUS
  <1> HIDE DEF p, q
  <1>6. lock[p] = t
    BY <1>1, <1>2, <1>3, CommitShows
  <1>7. /\ row[p].state = "live" /\ draft[p].state = "live"
        /\ draft[p].available = row[p].available
    BY <1>1, <1>2, <1>5, <1>6, CommitShows DEF OneOperation
  <1>8. /\ row'[p] = draft[p] /\ row[p].reserved \in Nat /\ draft[p].reserved \in Nat
        /\ draft[p].reserved = row[p].reserved + (-q)
        /\ ledger'[p] = ledger[p] + (-q) /\ ledger[p] \in Int
    BY <1>1, <1>2, <1>3, <1>6, CommitShows DEF Row
  <1>9. /\ q <= row[p].reserved /\ draft[p].reserved = row[p].reserved - q
        /\ ledger'[p] = ledger[p] - q
    BY <1>2, <1>8
  <1>10. Shown(row'[p]) = [Stock[p] EXCEPT !.reserved = @ - q]
    BY <1>2, <1>7, <1>8, <1>9 DEF Shown, Stock
  <1>11. Stock' = [Stock EXCEPT ![p] = [Stock[p] EXCEPT !.reserved = @ - q]]
    BY <1>4, <1>10
  <1>12. ledger' = [ledger EXCEPT ![p] = ledger[p] - q]
    BY <1>4, <1>9
  <1>13. q <= Stock[p].reserved /\ Stock[p].state = "live"
    BY <1>2, <1>7, <1>9 DEF Stock
  <1>14. Pool!TakeBack(p, q)
    BY <1>1, <1>11, <1>12, <1>13 DEF Pool!TakeBack, Pool!IsLive, Stock
  <1> QED
    BY <1>2, <1>14 DEF p, q

\* A new product is added.
LEMMA CreateShows ==
  ASSUME PoolIInv, NEW t \in Tx, Commit(t), tx[t].op = "create"
  PROVE  \/ UNCHANGED Pool!poolVars
         \/ \E a \in Quantity : tx[t].product \in Product /\ Pool!Add(tx[t].product, a)
  <1> DEFINE p == tx[t].product
  <1>1. /\ CommitRows(t) /\ processed' = processed /\ p \in Product
        /\ Stock' = [Stock EXCEPT ![p] = Shown(row'[p])]
        /\ ledger' = [ledger EXCEPT ![p] = ledger'[p]]
        /\ lock[p] # t => UNCHANGED Pool!poolVars
    BY OneRowShows
  <1>2. Delta(tx[t], p) = 0
    BY DEF Delta
  <1> HIDE DEF p
  <1>3. CASE lock[p] = t
    <2>1. row[p].state = "unborn" /\ draft[p].state = "live" /\ draft[p].available \in Quantity
      BY <1>1, <1>3, CommitShows DEF OneOperation
    <2>2. row[p].reserved = 0
      BY <1>1, <2>1 DEF PoolIInv, DraftsAreOneOperation
    <2>3. draft[p].reserved = 0 /\ row'[p] = draft[p] /\ ledger'[p] = ledger[p]
      BY <1>1, <1>2, <1>3, <2>2, CommitShows
    <2> PICK a \in Quantity : draft[p].available = a
      BY <2>1
    <2>4. Shown(row'[p]) = Pool!Live(a)
      BY <2>1, <2>3 DEF Shown, Pool!Live
    <2>5. Stock' = [Stock EXCEPT ![p] = Pool!Live(a)] /\ Stock[p].state = "unborn"
      BY <1>1, <2>1, <2>4 DEF Stock
    <2>6. ledger' = ledger
      BY <1>1, <2>3, CommitShows
    <2>7. Pool!Add(p, a)
      BY <1>1, <2>5, <2>6 DEF Pool!Add, Stock
    <2> QED
      BY <1>1, <2>7 DEF p
  <1>4. CASE lock[p] # t
    BY <1>1, <1>4
  <1> QED
    BY <1>3, <1>4

\* A PUT recounts a product, or shows nothing.
LEMMA UpdateShows ==
  ASSUME PoolIInv, NEW t \in Tx, Commit(t), tx[t].op = "updated"
  PROVE  \/ UNCHANGED Pool!poolVars
         \/ \E a \in Quantity : tx[t].product \in Product /\ Pool!Recount(tx[t].product, a)
  <1> DEFINE p == tx[t].product
             a == draft[p].available
  <1>1. /\ CommitRows(t) /\ processed' = processed /\ p \in Product
        /\ Stock' = [Stock EXCEPT ![p] = Shown(row'[p])]
        /\ ledger' = [ledger EXCEPT ![p] = ledger'[p]]
        /\ lock[p] # t => UNCHANGED Pool!poolVars
    BY OneRowShows
  <1>2. Delta(tx[t], p) = 0
    BY DEF Delta
  <1> HIDE DEF p, a
  <1>3. CASE lock[p] = t
    <2>1. /\ row[p].state = "live" /\ draft[p].state = "live"
          /\ a \in Quantity \cup {row[p].available}
      BY <1>1, <1>3, CommitShows DEF OneOperation, a
    <2>2. /\ draft[p].reserved = row[p].reserved /\ row'[p] = draft[p]
          /\ ledger'[p] = ledger[p]
      BY <1>1, <1>2, <1>3, CommitShows DEF Row
    <2>3. Shown(row'[p]) = [Stock[p] EXCEPT !.available = a]
      BY <1>1, <2>1, <2>2 DEF Shown, Stock, a
    <2>4. Stock' = [Stock EXCEPT ![p] = [Stock[p] EXCEPT !.available = a]]
      BY <1>1, <2>3
    <2>5. ledger' = ledger
      BY <1>1, <2>2, CommitShows
    <2>6. Stock[p].state = "live" /\ Stock[p].available = row[p].available
      BY <1>1, <2>1 DEF Stock
    <2>7. CASE a \in Quantity
      <3> PICK b \in Quantity : a = b
        BY <2>7
      <3>1. Pool!Recount(p, b)
        BY <1>1, <2>4, <2>5, <2>6 DEF Pool!Recount, Pool!IsLive, Stock
      <3> QED
        BY <1>1, <3>1 DEF p
    <2>8. CASE a = row[p].available
      <3>1. Shown(row'[p]) = Stock[p]
        BY <1>1, <2>1, <2>2, <2>8 DEF Shown, Stock, a
      <3>2. Stock' = Stock
        BY <1>1, <3>1 DEF Stock
      <3> QED
        BY <1>1, <2>5, <3>2 DEF Pool!poolVars, Stock
    <2> QED
      BY <2>1, <2>7, <2>8
  <1>4. CASE lock[p] # t
    BY <1>1, <1>4
  <1> QED
    BY <1>3, <1>4

\* A DELETE drops a product, or finds it dropped.
LEMMA DeleteShows ==
  ASSUME PoolIInv, NEW t \in Tx, Commit(t), tx[t].op = "deleted"
  PROVE  \/ UNCHANGED Pool!poolVars
         \/ tx[t].product \in Product /\ Pool!Drop(tx[t].product)
  <1> DEFINE p == tx[t].product
  <1>1. /\ CommitRows(t) /\ processed' = processed /\ p \in Product
        /\ Stock' = [Stock EXCEPT ![p] = Shown(row'[p])]
        /\ ledger' = [ledger EXCEPT ![p] = ledger'[p]]
        /\ lock[p] # t => UNCHANGED Pool!poolVars
    BY OneRowShows
  <1>2. Delta(tx[t], p) = 0
    BY DEF Delta
  <1> HIDE DEF p
  <1>3. CASE lock[p] = t
    <2>1. /\ row[p].state # "unborn" /\ draft[p].state = "deleted"
          /\ draft[p].available = row[p].available
      BY <1>1, <1>3, CommitShows DEF OneOperation
    <2>2. /\ draft[p].reserved = row[p].reserved /\ row'[p] = draft[p]
          /\ ledger'[p] = ledger[p] /\ row[p].state \in RowState
      BY <1>1, <1>2, <1>3, CommitShows DEF Row
    <2>3. Shown(row'[p]) = [Stock[p] EXCEPT !.state = "deleted"]
      BY <1>1, <2>1, <2>2 DEF Shown, Stock
    <2>4. Stock' = [Stock EXCEPT ![p] = [Stock[p] EXCEPT !.state = "deleted"]]
      BY <1>1, <2>3
    <2>5. ledger' = ledger
      BY <1>1, <2>2, CommitShows
    <2>6. Stock[p].state = row[p].state
      BY <1>1 DEF Stock
    <2>7. CASE row[p].state = "live"
      <3>1. Pool!Drop(p)
        BY <1>1, <2>4, <2>5, <2>6, <2>7 DEF Pool!Drop, Pool!IsLive, Stock
      <3> QED
        BY <1>1, <3>1 DEF p
    <2>8. CASE row[p].state = "deleted"
      <3>1. Shown(row'[p]) = Stock[p]
        BY <1>1, <2>1, <2>2, <2>8 DEF Shown, Stock
      <3>2. Stock' = Stock
        BY <1>1, <3>1 DEF Stock
      <3> QED
        BY <1>1, <2>5, <3>2 DEF Pool!poolVars, Stock
    <2> QED
      BY <2>1, <2>2, <2>7, <2>8 DEF RowState
  <1>4. CASE lock[p] # t
    BY <1>1, <1>4
  <1> QED
    BY <1>3, <1>4

\* The reservation of an order's items is one grant for all of them.
LEMMA HandleShows ==
  ASSUME PoolIInv, NEW t \in Tx, HandleCommit(t)
  PROVE  \E e \in Event : Pool!GrantOrder(e)
  <1>1. CommitRows(t) /\ tx[t].op = "handle" /\ tx[t].pos = Len(Items[tx[t].event])
        /\ tx[t].event \notin processed /\ processed' = processed \cup {tx[t].event}
    BY DEF HandleCommit, AllItemsHeld, MarkProcessed
  <1>2. tx[t].event \in Event
    BY <1>1 DEF PoolIInv, IInv, TxShape, WellFormed
  <1> PICK e \in Event : tx[t].event = e
    BY <1>2
  <1> DEFINE d == Needed[e][Len(Items[e])]
  <1>3. \A y \in Product : Delta(tx[t], y) = d[y]
    BY <1>1 DEF Delta
  <1>4. \A y \in Product : d[y] \in Nat
    <2>1. Len(Items[e]) \in Nat
      BY ConstantsAssumption
    <2>2. d \in [Product -> Nat]
      BY <2>1, NeededAssumption
    <2> QED
      BY <2>2
  <1> HIDE DEF d
  <1>5. \A y \in Product :
          /\ d[y] > 0 => row[y].state = "live" /\ d[y] <= row[y].available - row[y].reserved
          /\ Shown(row'[y]) = [Shown(row[y]) EXCEPT !.reserved = @ + d[y]]
          /\ ledger'[y] = ledger[y] + d[y]
    <2> SUFFICES ASSUME NEW y \in Product
                 PROVE  /\ d[y] > 0 => /\ row[y].state = "live"
                                       /\ d[y] <= row[y].available - row[y].reserved
                        /\ Shown(row'[y]) = [Shown(row[y]) EXCEPT !.reserved = @ + d[y]]
                        /\ ledger'[y] = ledger[y] + d[y]
      OBVIOUS
    <2>1. /\ ledger'[y] = ledger[y] + d[y]
          /\ row'[y].reserved = row[y].reserved + d[y]
          /\ row[y].reserved \in Nat /\ row[y].available \in Nat
          /\ row[y] \in Row /\ draft[y] \in Row
      BY <1>1, <1>3, CommitShows DEF Row
    <2>2. CASE lock[y] = t
      <3>1. /\ row[y].state = "live" /\ draft[y].state = "live"
            /\ draft[y].available = row[y].available
        BY <1>1, <2>2, CommitShows DEF OneOperation
      <3>2. row'[y] = draft[y]
        BY <1>1, <2>2, CommitShows
      <3>3. draft[y].reserved > row[y].reserved => draft[y].reserved <= draft[y].available
        BY <1>1, CommitShows
      <3>4. d[y] > 0 => d[y] <= row[y].available - row[y].reserved
        BY <1>4, <2>1, <3>1, <3>2, <3>3
      <3> QED
        BY <2>1, <3>1, <3>2, <3>4 DEF Shown
    <2>3. CASE lock[y] # t
      <3>1. d[y] = 0 /\ row'[y] = row[y]
        BY <1>1, <1>3, <2>3, CommitShows
      <3> QED
        BY <2>1, <3>1 DEF Shown
    <2> QED
      BY <2>2, <2>3
  <1>6. Stock' = [y \in Product |-> [Stock[y] EXCEPT !.reserved = @ + d[y]]]
    BY <1>5 DEF Stock, Shown
  <1>7. ledger' = [y \in Product |-> ledger[y] + d[y]]
    BY <1>1, <1>5, CommitShows
  <1>8. [o \in Event |-> Needed[o][Len(Items[o])]][e] = d
    BY DEF d
  <1>9. Pool!Grant(d)
    BY <1>5, <1>6, <1>7 DEF Pool!Grant, Pool!IsLive, Pool!OnHand, Stock
  <1>10. Pool!GrantOrder(e)
    BY <1>1, <1>8, <1>9 DEF Pool!GrantOrder, Pool!Grant
  <1> QED
    BY <1>10

\* A commit is one operation of the pool, or none.
LEMMA CommitIsOneOperation ==
  ASSUME PoolIInv, NEW t \in Tx, Commit(t)
  PROVE  [Pool!PoolNext]_(Pool!poolVars)
  <1>1. tx[t].op \in {"create", "reserve", "release", "updated", "deleted"}
    BY DEF Commit
  <1>2. tx[t].product \in Product
    BY OneRowShows
  <1> PICK p \in Product : tx[t].product = p
    BY <1>2
  <1>3. CASE tx[t].op = "create"
    <2>1. UNCHANGED Pool!poolVars \/ \E a \in Quantity : Pool!Add(p, a)
      BY <1>3, CreateShows DEF Pool!Add
    <2> QED
      BY <2>1 DEF Pool!PoolNext
  <1>4. CASE tx[t].op = "reserve"
    <2>1. tx[t].quantity \in Quantity
      BY <1>4, ReserveShows
    <2> PICK q \in Quantity : tx[t].quantity = q
      BY <2>1
    <2>2. Pool!GrantOne(p, q)
      BY <1>4, ReserveShows DEF Pool!GrantOne, Pool!Grant
    <2> QED
      BY <2>2 DEF Pool!PoolNext
  <1>5. CASE tx[t].op = "release"
    <2>1. tx[t].quantity \in Quantity
      BY <1>5, ReleaseShows
    <2> PICK q \in Quantity : tx[t].quantity = q
      BY <2>1
    <2>2. Pool!TakeBack(p, q)
      BY <1>5, ReleaseShows DEF Pool!TakeBack
    <2> QED
      BY <2>2 DEF Pool!PoolNext
  <1>6. CASE tx[t].op = "updated"
    <2>1. UNCHANGED Pool!poolVars \/ \E a \in Quantity : Pool!Recount(p, a)
      BY <1>6, UpdateShows DEF Pool!Recount
    <2> QED
      BY <2>1 DEF Pool!PoolNext
  <1>7. CASE tx[t].op = "deleted"
    <2>1. UNCHANGED Pool!poolVars \/ Pool!Drop(p)
      BY <1>7, DeleteShows DEF Pool!Drop
    <2> QED
      BY <2>1 DEF Pool!PoolNext
  <1> QED
    BY <1>1, <1>3, <1>4, <1>5, <1>6, <1>7

\* Every step of the service is a step of the pool or none.
LEMMA StepRefines ==
  ASSUME PoolIInv, [Next]_vars
  PROVE  [Pool!PoolNext]_(Pool!poolVars)
  <1>1. CASE UNCHANGED vars
    BY <1>1, InvisibleStep DEF vars
  <1>2. ASSUME NEW t \in Tx, Begin(t)
        PROVE  [Pool!PoolNext]_(Pool!poolVars)
    <2>1. UNCHANGED <<row, ledger, processed>>
      BY <1>2 DEF Begin, Reserve, Release, Create, UpdateRead, DeleteRead, HandleBegin
    <2> QED
      BY <2>1, InvisibleStep
  <1>3. ASSUME NEW t \in Tx, Crash(t)
        PROVE  [Pool!PoolNext]_(Pool!poolVars)
    <2>1. UNCHANGED <<row, ledger, processed>>
      BY <1>3 DEF Crash, Rollback
    <2> QED
      BY <2>1, InvisibleStep
  <1>4. ASSUME NEW t \in Tx, Advance(t)
        PROVE  [Pool!PoolNext]_(Pool!poolVars)
    <2>1. CASE Commit(t)
      BY <2>1, CommitIsOneOperation
    <2>2. CASE HandleCommit(t)
      <3>1. \E e \in Event : Pool!GrantOrder(e)
        BY <2>2, HandleShows
      <3> QED
        BY <3>1 DEF Pool!PoolNext
    <2>3. CASE UpdateFlush(t) \/ DeleteFlush(t) \/ HandleItem(t)
      <3>1. UNCHANGED <<row, ledger, processed>>
        BY <2>3 DEF UpdateFlush, DeleteFlush, HandleItem
      <3> QED
        BY <3>1, InvisibleStep
    <2>4. CASE UpdateStale(t) \/ HandleRaises(t) \/ HandleDuplicate(t) \/ LockWaitFails(t)
      <3>1. Rollback(t)
        BY <2>4 DEF UpdateStale, HandleRaises, HandleDuplicate, LockWaitFails
      <3>2. UNCHANGED <<row, ledger, processed>>
        BY <3>1 DEF Rollback
      <3> QED
        BY <3>2, InvisibleStep
    <2> QED
      BY <1>4, <2>1, <2>2, <2>3, <2>4 DEF Advance
  <1> QED
    BY <1>1, <1>2, <1>3, <1>4 DEF Next

\* In every state a draft is the committed row changed by one operation.
LEMMA PoolInvariance == Spec => []PoolIInv
  <1>1. PoolIInv /\ [Next]_vars => PoolIInv'
    BY NextFits
  <1> QED
    BY InitFits, <1>1, PTL DEF Spec

\* The inventory service is a pool of stock that changes by whole operations:
\* get_db's commit publishes one operation or nothing, the items of an order
\* together, an event at most once; a flush, a rollback or a crash publishes
\* nothing.
THEOREM ImplementsStockPool == Spec => ImplementsPool
  <1>1. PoolIInv /\ [Next]_vars => [Pool!PoolNext]_(Pool!poolVars)
    BY StepRefines
  <1> QED
    BY InitRefines, PoolInvariance, <1>1, PTL DEF Spec, ImplementsPool, Pool!PoolSpec
==============================================================================
