--------------------------- MODULE Inventory_proofs ---------------------------
(* Proofs that Inventory keeps its invariants, for any number of products, *)
(* transactions and events.  A step writes one draft (WriteIInv), only     *)
(* reads (ReadIInv), publishes a transaction's drafts (CommitRowsIInv) or  *)
(* drops them (RollbackIInv); each operation is an instance of one of them.*)
EXTENDS Inventory, TLAPS

\* A transaction's contribution is a number.
LEMMA DeltaType ==
  ASSUME NEW x \in TxRecord, WellFormed(x), NEW p \in Product
  PROVE  Delta(x, p) \in Int
  <1>1. CASE x.op = "handle"
    <2>1. Needed[x.event][x.pos] \in [Product -> Nat]
      BY <1>1, NeededAssumption DEF WellFormed
    <2> QED
      BY <1>1, <2>1 DEF Delta
  <1>2. CASE x.op \in {"reserve", "release"}
    BY <1>2 DEF Delta, WellFormed
  <1>3. CASE x.op \notin {"handle", "reserve", "release"}
    BY <1>3 DEF Delta
  <1> QED
    BY <1>1, <1>2, <1>3

\* An idle slot is a well-formed transaction that contributes nothing.
LEMMA IdleFacts ==
  /\ Idle \in TxRecord /\ Idle.op = "idle" /\ WellFormed(Idle)
  /\ \A p \in Product : Delta(Idle, p) = 0
  BY DEF Idle, TxRecord, Op, NoRow, Row, RowState, Keep, WellFormed, Delta

\* The initial tables satisfy the inductive invariant.
LEMMA InitIInv == Init => IInv
  <1> SUFFICES ASSUME Init PROVE IInv
    OBVIOUS
  <1>1. \A p \in Product : row[p] \in Row /\ row[p].reserved = 0
    <2> SUFFICES ASSUME NEW p \in Product PROVE row[p] \in Row /\ row[p].reserved = 0
      OBVIOUS
    <2>1. row[p] \in {NoRow} \cup {NewRow(a) : a \in Quantity}
      BY DEF Init
    <2> QED
      BY <2>1, ConstantsAssumption DEF NoRow, NewRow, Row, RowState
  <1>2. TypeOK
    BY <1>1, IdleFacts DEF Init, TypeOK
  <1>3. \A t \in Tx : tx[t] = Idle
    BY DEF Init
  <1>4. \A p \in Product : lock[p] = NoTx /\ draft[p] = row[p] /\ ledger[p] = 0
    BY DEF Init
  <1>5. TxShape /\ OnlyHeldRowsChange
    BY <1>3, IdleFacts DEF TxShape, OnlyHeldRowsChange
  <1>6. ReadersHoldNothing /\ DraftIsRowPlusDelta
    BY <1>4, ConstantsAssumption DEF ReadersHoldNothing, DraftIsRowPlusDelta
  <1>7. UnlockedRowsAreClean /\ DeletedRowsAreClean /\ ReservedMatchesLedger
    BY <1>1, <1>4 DEF UnlockedRowsAreClean, DeletedRowsAreClean, ReservedMatchesLedger
  <1>8. GrantIsCovered
    BY <1>1, <1>4 DEF GrantIsCovered
  <1> QED
    BY <1>2, <1>5, <1>6, <1>7, <1>8 DEF IInv

\* Rolling back drops the drafts and the locks of a transaction, and nothing
\* else.
LEMMA RollbackIInv ==
  ASSUME IInv, NEW t \in Tx, Rollback(t)
  PROVE  IInv'
  <1> USE DEF IInv
  <1>1. \A s \in Tx : tx'[s] = IF s = t THEN Idle ELSE tx[s]
    BY DEF TypeOK, Rollback
  <1>2. \A p \in Product : /\ lock[p] = t => lock'[p] = NoTx /\ draft'[p] = row[p]
                           /\ lock[p] # t => lock'[p] = lock[p] /\ draft'[p] = draft[p]
                           /\ row'[p] = row[p] /\ ledger'[p] = ledger[p]
    BY DEF TypeOK, Rollback, Unlock
  <1>3. TypeOK'
    BY IdleFacts DEF TypeOK, Rollback, Unlock
  <1>4. TxShape'
    BY <1>1, IdleFacts DEF TxShape
  <1>5. ReadersHoldNothing'
    BY <1>1, <1>2, ConstantsAssumption DEF ReadersHoldNothing
  <1>6. OnlyHeldRowsChange'
    BY <1>1, <1>2, IdleFacts DEF OnlyHeldRowsChange
  <1>7. UnlockedRowsAreClean'
    BY <1>2 DEF UnlockedRowsAreClean
  <1>8. DraftIsRowPlusDelta'
    BY <1>1, <1>2, ConstantsAssumption DEF DraftIsRowPlusDelta
  <1>9. GrantIsCovered'
    <2>1. \A p \in Product : row[p].reserved \in Nat
      BY DEF TypeOK, Row
    <2> QED
      BY <1>2, <2>1 DEF GrantIsCovered
  <1>10. DeletedRowsAreClean' /\ ReservedMatchesLedger'
    BY <1>2 DEF DeletedRowsAreClean, ReservedMatchesLedger
  <1> QED
    BY <1>3, <1>4, <1>5, <1>6, <1>7, <1>8, <1>9, <1>10

\* Committing publishes the drafts of a transaction: each held row gains
\* exactly what the ledger gains.
LEMMA CommitRowsIInv ==
  ASSUME IInv, NEW t \in Tx, CommitRows(t), processed' \subseteq Event
  PROVE  IInv'
  <1> USE DEF IInv
  <1>1. \A s \in Tx : tx'[s] = IF s = t THEN Idle ELSE tx[s]
    BY DEF TypeOK, CommitRows
  <1>2. \A p \in Product : /\ lock[p] = t => lock'[p] = NoTx /\ row'[p] = draft[p]
                           /\ lock[p] # t => lock'[p] = lock[p] /\ row'[p] = row[p]
                           /\ draft'[p] = draft[p]
                           /\ ledger'[p] = ledger[p] + Delta(tx[t], p)
    BY DEF TypeOK, CommitRows, Unlock
  <1>3. \A p \in Product : Delta(tx[t], p) \in Int
    BY DeltaType DEF TypeOK, TxShape
  <1>4. TypeOK'
    <2>1. ledger' \in [Product -> Int]
      BY <1>3 DEF TypeOK, CommitRows
    <2>2. /\ row' \in [Product -> Row] /\ draft' \in [Product -> Row]
          /\ lock' \in [Product -> Tx \cup {NoTx}] /\ tx' \in [Tx -> TxRecord]
      BY IdleFacts DEF TypeOK, CommitRows, Unlock
    <2> QED
      BY <2>1, <2>2 DEF TypeOK
  <1>5. TxShape'
    BY <1>1, IdleFacts DEF TxShape
  <1>6. ReadersHoldNothing'
    BY <1>1, <1>2, ConstantsAssumption DEF ReadersHoldNothing
  <1>7. OnlyHeldRowsChange'
    BY <1>1, <1>2, IdleFacts DEF OnlyHeldRowsChange
  <1>8. UnlockedRowsAreClean'
    BY <1>2 DEF UnlockedRowsAreClean
  <1>9. DraftIsRowPlusDelta'
    BY <1>1, <1>2, ConstantsAssumption DEF DraftIsRowPlusDelta
  <1>10. GrantIsCovered'
    <2>1. \A p \in Product : draft[p].reserved \in Nat
      BY DEF TypeOK, Row
    <2> QED
      BY <1>2, <2>1 DEF GrantIsCovered
  <1>11. DeletedRowsAreClean'
    BY <1>2 DEF DeletedRowsAreClean
  <1>12. ReservedMatchesLedger'
    <2> SUFFICES ASSUME NEW p \in Product
                 PROVE  row'[p].reserved = ledger'[p]
      BY DEF ReservedMatchesLedger
    <2>1. CASE lock[p] = t
      BY <1>2, <2>1 DEF DraftIsRowPlusDelta, ReservedMatchesLedger
    <2>2. CASE lock[p] # t
      <3>1. Delta(tx[t], p) = 0 /\ ledger[p] \in Int
        BY <2>2 DEF OnlyHeldRowsChange, TypeOK
      <3> QED
        BY <1>2, <2>2, <3>1 DEF ReservedMatchesLedger
    <2> QED
      BY <2>1, <2>2
  <1> QED
    BY <1>4, <1>5, <1>6, <1>7, <1>8, <1>9, <1>10, <1>11, <1>12

\* A flush keeps the invariant if the draft moves by what the transaction adds,
\* covers what it grants, and leaves a deleted row as it is.
LEMMA WriteIInv ==
  ASSUME IInv, NEW t \in Tx, NEW p \in Product, NEW d \in Int,
         NEW r \in Row, NEW x \in TxRecord, WellFormed(x),
         x.op \notin {"idle", "update", "delete"},
         \A y \in Product : y # p => Delta(x, y) = Delta(tx[t], y),
         Delta(x, p) = Delta(tx[t], p) + d,
         r.reserved = draft[p].reserved + d,
         r.reserved > row[p].reserved => r.reserved <= r.available,
         row[p].state = "deleted" => r = draft[p],
         Write(t, p, r), tx' = [tx EXCEPT ![t] = x],
         UNCHANGED <<row, processed, ledger>>
  PROVE  IInv'
  <1> USE DEF IInv
  <1>1. TypeOK'
    BY DEF TypeOK, Write
  <1>2. \A s \in Tx : tx'[s] = IF s = t THEN x ELSE tx[s]
    BY DEF TypeOK
  <1>3. \A y \in Product : /\ lock'[y] = IF y = p THEN t ELSE lock[y]
                           /\ draft'[y] = IF y = p THEN r ELSE draft[y]
                           /\ row'[y] = row[y] /\ ledger'[y] = ledger[y]
    BY DEF TypeOK, Write
  <1>4. lock[p] # t => lock[p] = NoTx /\ Delta(tx[t], p) = 0 /\ draft[p] = row[p]
    BY DEF Write, CanLock, OnlyHeldRowsChange, UnlockedRowsAreClean
  <1>5. TxShape'
    BY <1>2 DEF TxShape
  <1>6. ReadersHoldNothing'
    BY <1>2, <1>3 DEF ReadersHoldNothing
  <1>7. OnlyHeldRowsChange'
    <2> SUFFICES ASSUME NEW s \in Tx, NEW y \in Product, lock'[y] # s
                 PROVE  Delta(tx'[s], y) = 0
      BY DEF OnlyHeldRowsChange
    <2>1. CASE y = p
      <3>1. s # t /\ lock[p] # s
        BY <1>3, <1>4, <2>1, ConstantsAssumption
      <3> QED
        BY <1>2, <2>1, <3>1 DEF OnlyHeldRowsChange
    <2>2. CASE y # p
      BY <1>2, <1>3, <2>2 DEF OnlyHeldRowsChange
    <2> QED
      BY <2>1, <2>2
  <1>8. UnlockedRowsAreClean'
    BY <1>3, ConstantsAssumption DEF UnlockedRowsAreClean
  <1>9. DraftIsRowPlusDelta'
    <2> SUFFICES ASSUME NEW s \in Tx, NEW y \in Product, lock'[y] = s
                 PROVE  draft'[y].reserved = row'[y].reserved + Delta(tx'[s], y)
      BY DEF DraftIsRowPlusDelta
    <2>1. CASE y = p
      <3>1. s = t
        BY <1>3, <2>1
      <3>2. /\ row[p].reserved \in Int /\ draft[p].reserved \in Int
            /\ Delta(tx[t], p) \in Int
        BY DeltaType DEF TypeOK, TxShape, Row
      <3>3. draft[p].reserved = row[p].reserved + Delta(tx[t], p)
        BY <1>4, <3>2 DEF DraftIsRowPlusDelta
      <3> QED
        BY <1>2, <1>3, <2>1, <3>1, <3>2, <3>3
    <2>2. CASE y # p
      BY <1>2, <1>3, <2>2 DEF DraftIsRowPlusDelta
    <2> QED
      BY <2>1, <2>2
  <1>10. GrantIsCovered'
    BY <1>3 DEF GrantIsCovered
  <1>11. DeletedRowsAreClean' /\ ReservedMatchesLedger'
    BY <1>3 DEF DeletedRowsAreClean, ReservedMatchesLedger
  <1> QED
    BY <1>1, <1>5, <1>6, <1>7, <1>8, <1>9, <1>10, <1>11

\* A step that only reads changes nothing but the transaction's own record.
LEMMA ReadIInv ==
  ASSUME IInv, NEW t \in Tx, NEW x \in TxRecord, WellFormed(x), tx[t].op = "idle",
         \A p \in Product : Delta(x, p) = 0,
         tx' = [tx EXCEPT ![t] = x],
         UNCHANGED <<row, draft, lock, processed, ledger>>
  PROVE  IInv'
  <1> USE DEF IInv
  <1>1. TypeOK'
    BY DEF TypeOK
  <1>2. \A s \in Tx : tx'[s] = IF s = t THEN x ELSE tx[s]
    BY DEF TypeOK
  <1>3. \A p \in Product : lock[p] # t
    BY DEF ReadersHoldNothing
  <1>4. TxShape'
    BY <1>2 DEF TxShape
  <1>5. ReadersHoldNothing'
    BY <1>2, <1>3 DEF ReadersHoldNothing
  <1>6. OnlyHeldRowsChange'
    BY <1>2 DEF OnlyHeldRowsChange
  <1>7. DraftIsRowPlusDelta'
    BY <1>2, <1>3 DEF DraftIsRowPlusDelta
  <1>8. /\ UnlockedRowsAreClean' /\ GrantIsCovered' /\ DeletedRowsAreClean'
        /\ ReservedMatchesLedger'
    BY DEF UnlockedRowsAreClean, GrantIsCovered, DeletedRowsAreClean, ReservedMatchesLedger
  <1> QED
    BY <1>1, <1>4, <1>5, <1>6, <1>7, <1>8

\* Rewriting the counters of a row gives a row.
LEMMA RowEdited ==
  ASSUME NEW d \in Row, NEW n \in Nat, NEW v \in Nat
  PROVE  /\ [d EXCEPT !.reserved = n, !.version = v] \in Row
         /\ [d EXCEPT !.available = n, !.version = v] \in Row
         /\ [d EXCEPT !.state = "deleted"] \in Row
         /\ NewRow(n) \in Row
  <1> DEFINE e == [d EXCEPT !.reserved = n]
             f == [d EXCEPT !.available = n]
  <1>1. e \in Row /\ f \in Row
    BY DEF Row
  <1> HIDE DEF e, f
  <1>2. [e EXCEPT !.version = v] \in Row /\ [f EXCEPT !.version = v] \in Row
    BY <1>1 DEF Row
  <1>3. [d EXCEPT !.state = "deleted"] \in Row /\ NewRow(n) \in Row
    BY DEF Row, RowState, NewRow
  <1> QED
    BY <1>2, <1>3 DEF e, f

\* What reserving q units of p leaves in the row.
LEMMA ReservedRow ==
  ASSUME NEW d \in Row, NEW q \in Nat, NEW r,
         r = [d EXCEPT !.reserved = @ + q, !.version = @ + 1],
         d.available - d.reserved >= q
  PROVE  r \in Row /\ r.reserved = d.reserved + q /\ r.reserved <= r.available
  <1>1. d.reserved + q \in Nat /\ d.version + 1 \in Nat
    BY DEF Row
  <1>2. r \in Row
    BY <1>1, RowEdited
  <1> QED
    BY <1>2 DEF Row

LEMMA ReserveIInv ==
  ASSUME IInv, NEW t \in Tx, NEW p \in Product, NEW q \in Quantity \ {0}, Reserve(t, p, q)
  PROVE  IInv'
  <1> DEFINE r == [draft[p] EXCEPT !.reserved = @ + q, !.version = @ + 1]
             x == [Idle EXCEPT !.op = "reserve", !.product = p, !.quantity = q]
  <1>1. q \in Nat /\ q \in Int /\ draft[p] \in Row
    BY ConstantsAssumption DEF IInv, TypeOK
  <1>2. r \in Row /\ r.reserved = draft[p].reserved + q /\ r.reserved <= r.available
    BY <1>1, ReservedRow DEF Reserve, ReserveRow
  <1>3. /\ x \in TxRecord /\ WellFormed(x) /\ x.op = "reserve"
        /\ \A y \in Product : Delta(x, y) = IF y = p THEN q ELSE 0
    BY <1>1 DEF Idle, TxRecord, Op, NoRow, Row, RowState, Keep, WellFormed, Delta
  <1>4. /\ Write(t, p, r) /\ tx' = [tx EXCEPT ![t] = x] /\ UNCHANGED <<row, processed, ledger>>
        /\ tx[t].op = "idle" /\ draft[p].state = "live"
    BY DEF Reserve, ReserveRow
  <1>5. \A y \in Product : Delta(tx[t], y) = 0
    BY <1>4 DEF Delta
  <1>6. row[p].state # "deleted"
    BY <1>4 DEF IInv, DeletedRowsAreClean
  <1>7. /\ Delta(x, p) = Delta(tx[t], p) + q
        /\ \A y \in Product : y # p => Delta(x, y) = Delta(tx[t], y)
    BY <1>1, <1>3, <1>5
  <1> HIDE DEF r, x
  <1> QED
    BY <1>1, <1>2, <1>3, <1>4, <1>6, <1>7, WriteIInv

LEMMA ReleaseIInv ==
  ASSUME IInv, NEW t \in Tx, NEW p \in Product, NEW q \in Quantity \ {0}, Release(t, p, q)
  PROVE  IInv'
  <1> DEFINE r == [draft[p] EXCEPT !.reserved = @ - q, !.version = @ + 1]
             x == [Idle EXCEPT !.op = "release", !.product = p, !.quantity = q]
  <1>1. q \in Nat /\ -q \in Int /\ draft[p] \in Row /\ row[p] \in Row
    BY ConstantsAssumption DEF IInv, TypeOK
  <1>2. /\ Write(t, p, r) /\ tx' = [tx EXCEPT ![t] = x] /\ UNCHANGED <<row, processed, ledger>>
        /\ tx[t].op = "idle" /\ draft[p].state = "live" /\ q <= draft[p].reserved
    BY DEF Release
  <1>3. r \in Row /\ r.reserved = draft[p].reserved - q
    <2>1. draft[p].reserved - q \in Nat /\ draft[p].version + 1 \in Nat
      BY <1>1, <1>2 DEF Row
    <2>2. r \in Row
      BY <1>1, <2>1, RowEdited
    <2> QED
      BY <1>1, <2>2 DEF Row
  <1>4. /\ x \in TxRecord /\ WellFormed(x) /\ x.op = "release"
        /\ \A y \in Product : Delta(x, y) = IF y = p THEN -q ELSE 0
    BY <1>1 DEF Idle, TxRecord, Op, NoRow, Row, RowState, Keep, WellFormed, Delta
  <1>5. \A y \in Product : Delta(tx[t], y) = 0
    BY <1>2 DEF Delta
  <1>6. row[p].state # "deleted"
    BY <1>2 DEF IInv, DeletedRowsAreClean
  <1>7. lock[p] # t
    BY <1>2 DEF IInv, ReadersHoldNothing
  <1>8. draft[p] = row[p]
    BY <1>2, <1>7 DEF Write, CanLock, IInv, UnlockedRowsAreClean
  <1>9. ~ r.reserved > row[p].reserved
    BY <1>1, <1>3, <1>8 DEF Row
  <1>10. r.reserved = draft[p].reserved + (-q)
    BY <1>1, <1>3 DEF Row
  <1>11. /\ Delta(x, p) = Delta(tx[t], p) + (-q)
         /\ \A y \in Product : y # p => Delta(x, y) = Delta(tx[t], y)
    BY <1>1, <1>4, <1>5
  <1> HIDE DEF r, x
  <1> QED
    BY <1>1, <1>2, <1>3, <1>4, <1>6, <1>9, <1>10, <1>11, WriteIInv

LEMMA CreateIInv ==
  ASSUME IInv, NEW t \in Tx, NEW p \in Product, NEW a \in Quantity, Create(t, p, a)
  PROVE  IInv'
  <1> DEFINE r == NewRow(a)
             x == [Idle EXCEPT !.op = "create", !.product = p]
  <1>1. a \in Nat /\ 0 \in Int /\ draft[p] \in Row /\ row[p] \in Row
    BY ConstantsAssumption DEF IInv, TypeOK
  <1>2. /\ Write(t, p, r) /\ tx' = [tx EXCEPT ![t] = x] /\ UNCHANGED <<row, processed, ledger>>
        /\ tx[t].op = "idle" /\ draft[p] = NoRow
    BY DEF Create
  <1>3. /\ x \in TxRecord /\ WellFormed(x) /\ x.op = "create"
        /\ \A y \in Product : Delta(x, y) = 0
    BY <1>1 DEF Idle, TxRecord, Op, NoRow, Row, RowState, Keep, WellFormed, Delta
  <1>4. \A y \in Product : Delta(tx[t], y) = 0
    BY <1>2 DEF Delta
  <1>5. draft[p] = row[p]
    <2>1. lock[p] # t
      BY <1>2 DEF IInv, ReadersHoldNothing
    <2> QED
      BY <1>2, <2>1 DEF Write, CanLock, IInv, UnlockedRowsAreClean
  <1>6. row[p].state # "deleted"
    BY <1>2, <1>5 DEF NoRow
  <1>7. r \in Row /\ r.reserved = draft[p].reserved + 0 /\ ~ r.reserved > row[p].reserved
    BY <1>1, <1>2, <1>5 DEF NewRow, NoRow, Row, RowState
  <1>8. /\ Delta(x, p) = Delta(tx[t], p) + 0
        /\ \A y \in Product : y # p => Delta(x, y) = Delta(tx[t], y)
    BY <1>3, <1>4
  <1> HIDE DEF r, x
  <1> QED
    BY <1>1, <1>2, <1>3, <1>6, <1>7, <1>8, WriteIInv

LEMMA UpdateReadIInv ==
  ASSUME IInv, NEW t \in Tx, NEW p \in Product, NEW a \in Quantity \cup {Keep},
         UpdateRead(t, p, a)
  PROVE  IInv'
  <1> DEFINE x == [Idle EXCEPT !.op = "update", !.product = p, !.quantity = a, !.snap = row[p]]
  <1>1. a \in Nat \cup {Keep} /\ row[p] \in Row
    BY ConstantsAssumption DEF IInv, TypeOK
  <1>2. x.op = "update" /\ x.product = p /\ x.quantity = a
    BY DEF Idle
  <1>3. x \in TxRecord
    BY <1>1 DEF Idle, TxRecord, Op, Keep
  <1>4. WellFormed(x) /\ \A y \in Product : Delta(x, y) = 0
    BY <1>2 DEF WellFormed, Delta
  <1>5. /\ tx' = [tx EXCEPT ![t] = x] /\ tx[t].op = "idle"
        /\ UNCHANGED <<row, draft, lock, processed, ledger>>
    BY DEF UpdateRead
  <1> HIDE DEF x
  <1> QED
    BY <1>3, <1>4, <1>5, ReadIInv

LEMMA UpdateFlushIInv ==
  ASSUME IInv, NEW t \in Tx, UpdateFlush(t)
  PROVE  IInv'
  <1> DEFINE p == tx[t].product
             a == IF tx[t].quantity # Keep /\ tx[t].quantity # tx[t].snap.available
                  THEN tx[t].quantity ELSE draft[p].available
             v == tx[t].snap.version + 1
             r == [draft[p] EXCEPT !.available = a, !.version = v]
             x == [tx[t] EXCEPT !.op = "updated"]
  <1>1. tx[t] \in TxRecord /\ tx[t].op = "update" /\ WellFormed(tx[t])
    BY DEF UpdateFlush, IInv, TypeOK, TxShape
  <1>2. p \in Product /\ 0 \in Int
    BY <1>1 DEF WellFormed
  <1>3. draft[p] \in Row /\ row[p] \in Row
    BY <1>2 DEF IInv, TypeOK
  <1>4. a \in Nat /\ v \in Nat
    BY <1>1, <1>3 DEF TxRecord, Row
  <1>5. /\ Write(t, p, r) /\ tx' = [tx EXCEPT ![t] = x] /\ UNCHANGED <<row, processed, ledger>>
        /\ draft[p].state = "live"
    BY DEF UpdateFlush
  <1>6. row[p].state # "deleted"
    BY <1>2, <1>5 DEF IInv, DeletedRowsAreClean
  <1>7. draft[p] = row[p]
    <2>1. lock[p] # t
      BY <1>1, <1>2 DEF IInv, ReadersHoldNothing
    <2> QED
      BY <1>2, <1>5, <2>1 DEF Write, CanLock, IInv, UnlockedRowsAreClean
  <1>8. r \in Row /\ r.reserved = draft[p].reserved
    BY <1>3, <1>4, RowEdited DEF Row
  <1>9. r.reserved = draft[p].reserved + 0 /\ ~ r.reserved > row[p].reserved
    BY <1>3, <1>7, <1>8 DEF Row
  <1>10. /\ x \in TxRecord /\ WellFormed(x) /\ x.op = "updated"
         /\ \A y \in Product : Delta(x, y) = 0
    BY <1>1, <1>2 DEF TxRecord, Op, WellFormed, Delta
  <1>11. \A y \in Product : Delta(tx[t], y) = 0
    BY <1>1 DEF Delta
  <1>12. /\ Delta(x, p) = Delta(tx[t], p) + 0
         /\ \A y \in Product : y # p => Delta(x, y) = Delta(tx[t], y)
    BY <1>2, <1>10, <1>11
  <1> HIDE DEF p, a, v, r, x
  <1> QED
    BY <1>2, <1>5, <1>6, <1>8, <1>9, <1>10, <1>12, WriteIInv

LEMMA DeleteReadIInv ==
  ASSUME IInv, NEW t \in Tx, NEW p \in Product, DeleteRead(t, p)
  PROVE  IInv'
  <1> DEFINE x == [Idle EXCEPT !.op = "delete", !.product = p]
  <1>1. x \in TxRecord /\ WellFormed(x) /\ \A y \in Product : Delta(x, y) = 0
    BY DEF Idle, TxRecord, Op, NoRow, Row, RowState, Keep, WellFormed, Delta
  <1>2. /\ tx' = [tx EXCEPT ![t] = x] /\ tx[t].op = "idle"
        /\ UNCHANGED <<row, draft, lock, processed, ledger>>
    BY DEF DeleteRead
  <1> HIDE DEF x
  <1> QED
    BY <1>1, <1>2, ReadIInv

LEMMA DeleteFlushIInv ==
  ASSUME IInv, NEW t \in Tx, DeleteFlush(t)
  PROVE  IInv'
  <1> DEFINE p == tx[t].product
             r == [draft[p] EXCEPT !.state = "deleted"]
             x == [tx[t] EXCEPT !.op = "deleted"]
  <1>1. tx[t] \in TxRecord /\ tx[t].op = "delete" /\ WellFormed(tx[t])
    BY DEF DeleteFlush, IInv, TypeOK, TxShape
  <1>2. p \in Product /\ 0 \in Int
    BY <1>1 DEF WellFormed
  <1>3. draft[p] \in Row /\ row[p] \in Row
    BY <1>2 DEF IInv, TypeOK
  <1>4. Write(t, p, r) /\ tx' = [tx EXCEPT ![t] = x] /\ UNCHANGED <<row, processed, ledger>>
    BY DEF DeleteFlush
  <1>5. draft[p] = row[p]
    <2>1. lock[p] # t
      BY <1>1, <1>2 DEF IInv, ReadersHoldNothing
    <2> QED
      BY <1>2, <1>4, <2>1 DEF Write, CanLock, IInv, UnlockedRowsAreClean
  <1>6. r \in Row /\ r.reserved = draft[p].reserved
    BY <1>3, RowEdited DEF Row
  <1>7. r.reserved = draft[p].reserved + 0 /\ ~ r.reserved > row[p].reserved
    BY <1>3, <1>5, <1>6 DEF Row
  <1>8. row[p].state = "deleted" => r = draft[p]
    BY <1>3, <1>5 DEF Row
  <1>9. /\ x \in TxRecord /\ WellFormed(x) /\ x.op = "deleted"
        /\ \A y \in Product : Delta(x, y) = 0
    BY <1>1, <1>2 DEF TxRecord, Op, WellFormed, Delta
  <1>10. \A y \in Product : Delta(tx[t], y) = 0
    BY <1>1 DEF Delta
  <1>11. /\ Delta(x, p) = Delta(tx[t], p) + 0
         /\ \A y \in Product : y # p => Delta(x, y) = Delta(tx[t], y)
    BY <1>2, <1>9, <1>10
  <1> HIDE DEF p, r, x
  <1> QED
    BY <1>2, <1>4, <1>6, <1>7, <1>8, <1>9, <1>11, WriteIInv

LEMMA HandleBeginIInv ==
  ASSUME IInv, NEW t \in Tx, NEW e \in Event, HandleBegin(t, e)
  PROVE  IInv'
  <1> DEFINE x == [Idle EXCEPT !.op = "handle", !.event = e]
  <1>1. x.op = "handle" /\ x.event = e /\ x.pos = 0
    BY DEF Idle
  <1>2. x \in TxRecord
    BY DEF Idle, TxRecord, Op, NoRow, Row, RowState, Keep
  <1>3. \A y \in Product : Delta(x, y) = 0
    BY <1>1, NeededAssumption DEF Delta
  <1>4. WellFormed(x)
    <2>1. Items[e] \in Seq(Item)
      BY ConstantsAssumption
    <2>2. Len(Items[e]) \in Nat
      BY <2>1
    <2> QED
      BY <1>1, <2>2 DEF WellFormed
  <1>5. /\ tx' = [tx EXCEPT ![t] = x] /\ tx[t].op = "idle"
        /\ UNCHANGED <<row, draft, lock, processed, ledger>>
    BY DEF HandleBegin
  <1> HIDE DEF x
  <1> QED
    BY <1>2, <1>3, <1>4, <1>5, ReadIInv

LEMMA HandleItemIInv ==
  ASSUME IInv, NEW t \in Tx, HandleItem(t)
  PROVE  IInv'
  <1> DEFINE e == tx[t].event
             n == tx[t].pos
             p == NextItem(t).product
             q == NextItem(t).quantity
             r == [draft[p] EXCEPT !.reserved = @ + q, !.version = @ + 1]
             x == [tx[t] EXCEPT !.pos = @ + 1]
  <1>1. tx[t] \in TxRecord /\ tx[t].op = "handle" /\ WellFormed(tx[t])
    BY DEF HandleItem, HasItem, IInv, TypeOK, TxShape
  <1>2. e \in Event /\ n \in Nat /\ n < Len(Items[e]) /\ n + 1 \in 1 .. Len(Items[e])
        /\ Len(Items[e]) \in Nat
    <2>1. e \in Event /\ n \in 0 .. Len(Items[e]) /\ n < Len(Items[e])
      BY <1>1 DEF WellFormed, HandleItem, HasItem
    <2>2. Items[e] \in Seq(Item)
      BY <2>1, ConstantsAssumption
    <2>3. Len(Items[e]) \in Nat
      BY <2>2
    <2> QED
      BY <2>1, <2>3
  <1>3. p \in Product /\ q \in Nat /\ q \in Int
    <2>1. Items[e] \in Seq(Item)
      BY <1>2, ConstantsAssumption
    <2>2. Items[e][n + 1] \in Item
      BY <1>2, <2>1
    <2> QED
      BY <2>2 DEF Item, NextItem
  <1>4. draft[p] \in Row
    BY <1>3 DEF IInv, TypeOK
  <1>5. r \in Row /\ r.reserved = draft[p].reserved + q /\ r.reserved <= r.available
    BY <1>3, <1>4, ReservedRow DEF HandleItem, ReserveRow
  <1>6. /\ Write(t, p, r) /\ tx' = [tx EXCEPT ![t] = x] /\ UNCHANGED <<row, processed, ledger>>
        /\ draft[p].state = "live"
    BY DEF HandleItem, ReserveRow
  <1>7. row[p].state # "deleted"
    BY <1>3, <1>6 DEF IInv, DeletedRowsAreClean
  <1>8. x \in TxRecord /\ x.op = "handle" /\ x.event = e /\ x.pos = n + 1
    BY <1>1, <1>2 DEF TxRecord
  <1>9. WellFormed(x)
    BY <1>2, <1>8 DEF WellFormed
  <1>10. \A y \in Product : Delta(x, y) = Delta(tx[t], y) + (IF p = y THEN q ELSE 0)
    <2> SUFFICES ASSUME NEW y \in Product
                 PROVE  Delta(x, y) = Delta(tx[t], y) + (IF p = y THEN q ELSE 0)
      OBVIOUS
    <2>1. Delta(x, y) = Needed[e][n + 1][y] /\ Delta(tx[t], y) = Needed[e][n][y]
      BY <1>1, <1>8 DEF Delta
    <2>2. n \in 0 .. Len(Items[e]) - 1
      BY <1>2
    <2> QED
      BY <1>2, <2>1, <2>2, NeededAssumption DEF NextItem
  <1>11. \A y \in Product : Delta(tx[t], y) \in Int
    BY <1>1, DeltaType
  <1>12. /\ Delta(x, p) = Delta(tx[t], p) + q
         /\ \A y \in Product : y # p => Delta(x, y) = Delta(tx[t], y)
    BY <1>3, <1>10, <1>11
  <1> HIDE DEF p, q, r, x, e, n
  <1> QED
    BY <1>3, <1>5, <1>6, <1>7, <1>8, <1>9, <1>12, WriteIInv

\* The steps that end a transaction.
LEMMA EndIInv ==
  ASSUME IInv, NEW t \in Tx,
         \/ Commit(t) \/ HandleCommit(t)
         \/ UpdateStale(t) \/ HandleRaises(t) \/ HandleDuplicate(t)
         \/ LockWaitFails(t) \/ Crash(t)
  PROVE  IInv'
  <1>1. CASE Commit(t)
    BY <1>1, CommitRowsIInv DEF Commit, IInv, TypeOK
  <1>2. CASE HandleCommit(t)
    <2>1. tx[t].event \in Event
      BY <1>2 DEF HandleCommit, AllItemsHeld, IInv, TxShape, WellFormed
    <2>2. processed' \subseteq Event
      BY <1>2, <2>1 DEF HandleCommit, MarkProcessed, IInv, TypeOK
    <2> QED
      BY <1>2, <2>2, CommitRowsIInv DEF HandleCommit
  <1>3. CASE \/ UpdateStale(t) \/ HandleRaises(t) \/ HandleDuplicate(t)
             \/ LockWaitFails(t) \/ Crash(t)
    BY <1>3, RollbackIInv
    DEF UpdateStale, HandleRaises, HandleDuplicate, LockWaitFails, Crash
  <1> QED
    BY <1>1, <1>2, <1>3

LEMMA NextIInv == IInv /\ [Next]_vars => IInv'
  <1> SUFFICES ASSUME IInv, [Next]_vars PROVE IInv'
    OBVIOUS
  <1>1. CASE UNCHANGED vars
    BY <1>1 DEF vars, IInv, TypeOK, TxShape, ReadersHoldNothing, OnlyHeldRowsChange,
       UnlockedRowsAreClean, DraftIsRowPlusDelta, GrantIsCovered, DeletedRowsAreClean,
       ReservedMatchesLedger
  <1>2. ASSUME NEW t \in Tx, Begin(t) PROVE IInv'
    BY <1>2, ReserveIInv, ReleaseIInv, CreateIInv, UpdateReadIInv, DeleteReadIInv,
       HandleBeginIInv DEF Begin
  <1>3. ASSUME NEW t \in Tx, Advance(t) \/ Crash(t) PROVE IInv'
    BY <1>3, EndIInv, UpdateFlushIInv, DeleteFlushIInv, HandleItemIInv DEF Advance
  <1> QED
    BY <1>1, <1>2, <1>3 DEF Next

LEMMA Invariance == Spec => []IInv
  BY InitIInv, NextIInv, PTL DEF Spec

\* Every variable keeps its type; in particular no counter of a row, nor a
\* transaction's draft of it, is ever negative.
THEOREM TypeCorrect == Spec => []TypeOK
  <1>1. IInv => TypeOK
    BY DEF IInv
  <1> QED
    BY <1>1, Invariance, PTL

\* reserve_stock and release_stock lose no update: quantity_reserved is the
\* balance of the committed reservations and releases.
THEOREM NoLostReservation == Spec => []ReservedMatchesLedger
  <1>1. IInv => ReservedMatchesLedger
    BY DEF IInv
  <1> QED
    BY <1>1, Invariance, PTL

\* A committed row is its old self or a transaction's draft of it.
LEMMA RowBecomesDraft ==
  ASSUME IInv, [Next]_vars, NEW p \in Product
  PROVE  row'[p] = row[p] \/ row'[p] = draft[p]
  <1>1. CASE UNCHANGED vars
    BY <1>1 DEF vars
  <1>2. ASSUME NEW t \in Tx, Begin(t) PROVE row'[p] = row[p]
    BY <1>2 DEF Begin, Reserve, Release, Create, UpdateRead, DeleteRead, HandleBegin
  <1>3. ASSUME NEW t \in Tx, Commit(t) \/ HandleCommit(t)
        PROVE  row'[p] = row[p] \/ row'[p] = draft[p]
    BY <1>3 DEF Commit, HandleCommit, CommitRows
  <1>4. ASSUME NEW t \in Tx, (Advance(t) /\ ~ Commit(t) /\ ~ HandleCommit(t)) \/ Crash(t)
        PROVE  row'[p] = row[p]
    BY <1>4 DEF Advance, UpdateFlush, UpdateStale, DeleteFlush, HandleItem, HandleRaises,
       HandleDuplicate, LockWaitFails, Crash, Rollback
  <1> QED
    BY <1>1, <1>2, <1>3, <1>4 DEF Next

\* A commit that raises quantity_reserved leaves it within quantity_available,
\* whatever other requests, deliveries and crashes are interleaved with it.
THEOREM ReservingNeverOversells == Spec => NeverOversell
  <1>1. IInv /\ [Next]_vars
          => [\A p \in Product : row'[p].reserved > row[p].reserved
                                    => row'[p].reserved <= row'[p].available]_vars
    <2> SUFFICES ASSUME IInv, [Next]_vars, NEW p \in Product,
                        row'[p].reserved > row[p].reserved
                 PROVE  row'[p].reserved <= row'[p].available
      OBVIOUS
    <2>1. row[p].reserved \in Nat
      BY DEF IInv, TypeOK, Row
    <2>2. row'[p] = draft[p]
      BY <2>1, RowBecomesDraft
    <2> QED
      BY <2>2 DEF IInv, GrantIsCovered
  <1> QED
    BY <1>1, Invariance, PTL DEF Spec, NeverOversell

\* No transaction, however long it waited or whatever it read before, changes
\* the row of a deleted product.
THEOREM DeletedStaysDeleted == Spec => DeletedIsFinal
  <1>1. IInv /\ [Next]_vars
          => [\A p \in Product : row[p].state = "deleted" => row'[p] = row[p]]_vars
    <2> SUFFICES ASSUME IInv, [Next]_vars, NEW p \in Product, row[p].state = "deleted"
                 PROVE  row'[p] = row[p]
      OBVIOUS
    <2>1. draft[p] = row[p]
      BY DEF IInv, DeletedRowsAreClean
    <2> QED
      BY <2>1, RowBecomesDraft
  <1> QED
    BY <1>1, Invariance, PTL DEF Spec, DeletedIsFinal
==============================================================================
