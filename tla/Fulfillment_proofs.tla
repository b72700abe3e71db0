-------------------------- MODULE Fulfillment_proofs --------------------------
(* Proofs about Fulfillment, for any orders, transactions and events.        *)
EXTENDS Fulfillment, TLAPS

\* The initial state satisfies the invariant.
LEMMA InitIInv == Init => IInv
  BY FulfillmentAssumption DEF Init, IInv, TypeOK, ReqRecord, Idle, Status, Target,
     StagesWereReached, TransactionsAreSound, AssignedNeedsRecord, ReportsBelong,
     AssignedOncePerRecord, CompletedWasShipped

\* Whoever writes gets the lock of its record, and the types stay.
LEMMA WrittenKeepsTypes ==
  ASSUME TypeOK, NEW r \in Req, req[r].order \in Order, req[r].op = "read", Written(r)
  PROVE  /\ lock' \in [Order -> Req \cup {NoReq}] /\ req' \in [Req -> ReqRecord]
         /\ \A o \in Order, r1 \in Req :
              lock'[o] = r1 <=> req'[r1].op = "written" /\ req'[r1].order = o
  <1>1. lock' = [lock EXCEPT ![req[r].order] = r] /\ req' = [req EXCEPT ![r].op = "written"]
    BY DEF Written
  <1>2. req[r] \in ReqRecord
    BY DEF TypeOK
  <1>3. [req[r] EXCEPT !.op = "written"] \in ReqRecord
    BY <1>2 DEF ReqRecord
  <1>4. /\ lock' \in [Order -> Req \cup {NoReq}] /\ req' \in [Req -> ReqRecord]
        /\ req'[r].op = "written" /\ req'[r].order = req[r].order
        /\ \A r1 \in Req : r1 # r => req'[r1] = req[r1]
    BY <1>1, <1>3 DEF TypeOK
  <1>5. ASSUME NEW o \in Order, NEW r1 \in Req
        PROVE  lock'[o] = r1 <=> req'[r1].op = "written" /\ req'[r1].order = o
    <2>1. lock[req[r].order] \in {NoReq, r}
      BY DEF Written, CanLock
    <2>2. lock[o] # r
      BY DEF TypeOK
    <2>3. CASE r1 = r
      BY <2>2, <2>3, <1>1, <1>4
    <2>4. CASE r1 # r
      BY <2>1, <1>1, FulfillmentAssumption DEF TypeOK
    <2> QED
      BY <2>3, <2>4
  <1> QED
    BY <1>4, <1>5

\* The end of a transaction frees its lock, and the types stay.
LEMMA EndTxKeepsTypes ==
  ASSUME TypeOK, NEW r \in Req, EndTx(r)
  PROVE  /\ lock' \in [Order -> Req \cup {NoReq}] /\ req' \in [Req -> ReqRecord]
         /\ \A o \in Order, r1 \in Req :
              lock'[o] = r1 <=> req'[r1].op = "written" /\ req'[r1].order = o
  <1>1. Idle \in ReqRecord /\ Idle.op = "idle"
    BY DEF Idle, ReqRecord, Status
  <1>2. /\ lock' = [o \in Order |-> IF lock[o] = r THEN NoReq ELSE lock[o]]
        /\ req' = [req EXCEPT ![r] = Idle]
    BY DEF EndTx
  <1>3. lock' \in [Order -> Req \cup {NoReq}] /\ req' \in [Req -> ReqRecord]
    BY <1>1, <1>2 DEF TypeOK
  <1>4. ASSUME NEW o \in Order, NEW r1 \in Req
        PROVE  lock'[o] = r1 <=> req'[r1].op = "written" /\ req'[r1].order = o
    BY <1>1, <1>2, FulfillmentAssumption DEF TypeOK
  <1> QED
    BY <1>3, <1>4

\* Reading changes no record.
LEMMA CreateReadStep == ASSUME IInv, NEW r \in Req, NEW e \in Event, CreateRead(r, e) PROVE IInv'
  <1> USE DEF IInv
  <1>1. TypeOK'
    BY FulfillmentAssumption DEF TypeOK, ReqRecord, Status, CreateRead, Read, out
  <1>2. StagesWereReached'
    BY DEF StagesWereReached, Before, CreateRead, Read
  <1>3. TransactionsAreSound'
    BY FulfillmentAssumption DEF TransactionsAreSound, Target, CreateRead, Read
  <1>4. AssignedNeedsRecord'
    BY DEF AssignedNeedsRecord, CreateRead, Read, out
  <1>5. AssignedOncePerRecord'
    BY DEF AssignedOncePerRecord, CreateRead, Read, out
  <1>6. CompletedWasShipped'
    BY DEF CompletedWasShipped, CreateRead, Read, out
  <1>7. ReportsBelong'
    BY FulfillmentAssumption DEF TypeOK, ReportsBelong, CreateRead, Read, out
  <1> QED
    BY <1>1, <1>2, <1>3, <1>4, <1>5, <1>6, <1>7

\* The table lets a record move only to a status whose stages were reached.
LEMMA TransitionReadStep ==
  ASSUME IInv, NEW r \in Req, NEW o \in Order, NEW s \in Target, TransitionRead(r, o, s)
  PROVE  IInv'
  <1> USE DEF IInv
  <1>1. TypeOK'
    BY DEF TypeOK, ReqRecord, Status, TransitionRead, Read, out, Transitions
  <1>2. StagesWereReached'
    BY DEF StagesWereReached, Before, TransitionRead, Read, Transitions
  <1>3. TransactionsAreSound'
    BY DEF TransactionsAreSound, TransitionRead, Read, Transitions
  <1>4. AssignedNeedsRecord'
    BY DEF AssignedNeedsRecord, TransitionRead, Read, out
  <1>5. AssignedOncePerRecord'
    BY DEF AssignedOncePerRecord, TransitionRead, Read, out
  <1>6. CompletedWasShipped'
    BY DEF CompletedWasShipped, TransitionRead, Read, out
  <1>7. ReportsBelong'
    BY FulfillmentAssumption DEF TypeOK, ReportsBelong, TransitionRead, Read, out
  <1> QED
    BY <1>1, <1>2, <1>3, <1>4, <1>5, <1>6, <1>7

\* The event leaves while nothing has left yet and the index entry is taken.
LEMMA CreateInsertStep == ASSUME IInv, NEW r \in Req, CreateInsert(r) PROVE IInv'
  <1> USE DEF IInv
  <1>1. TypeOK'
    <2>1. req[r].order \in Order /\ req[r] \in ReqRecord
      BY DEF TypeOK, TransactionsAreSound, CreateInsert, Creating
    <2>2. /\ lock' \in [Order -> Req \cup {NoReq}] /\ req' \in [Req -> ReqRecord]
          /\ \A o \in Order, r1 \in Req :
               lock'[o] = r1 <=> req'[r1].op = "written" /\ req'[r1].order = o
      BY <2>1, WrittenKeepsTypes DEF CreateInsert, Creating
    <2>3. /\ assigned' \in [Order -> 0 .. MaxPublished]
          /\ UNCHANGED <<status, processed, completed, reached, undone>>
      BY FulfillmentAssumption DEF TypeOK, CreateInsert, MayPublish
    <2> QED
      BY <2>2, <2>3 DEF TypeOK
  <1>2. StagesWereReached'
    BY DEF StagesWereReached, Before, CreateInsert, Creating, Written
  <1>3. TransactionsAreSound'
    BY DEF TransactionsAreSound, CreateInsert, Creating, Written
  <1>4. AssignedNeedsRecord'
    BY FulfillmentAssumption DEF TypeOK, AssignedNeedsRecord, CreateInsert, Written, MayPublish
  <1>5. AssignedOncePerRecord'
    BY DEF TypeOK, AssignedOncePerRecord, AssignedNeedsRecord, CreateInsert, Creating, Written,
       CanLock, MayPublish
  <1>6. CompletedWasShipped'
    BY DEF CompletedWasShipped, CreateInsert
  <1>7. ReportsBelong'
    BY FulfillmentAssumption DEF TypeOK, ReportsBelong, CreateInsert, Creating, Written, CanLock
  <1> QED
    BY <1>1, <1>2, <1>3, <1>4, <1>5, <1>6, <1>7

\* A refused insert held no lock.
LEMMA CreateDuplicateStep == ASSUME IInv, NEW r \in Req, CreateDuplicate(r) PROVE IInv'
  <1> USE DEF IInv
  <1>1. TypeOK'
    BY FulfillmentAssumption DEF TypeOK, ReqRecord, Status, Idle, CreateDuplicate, Rollback,
       EndTx, out
  <1>2. StagesWereReached'
    BY DEF StagesWereReached, Idle, CreateDuplicate, Rollback, EndTx
  <1>3. TransactionsAreSound'
    BY DEF TransactionsAreSound, Idle, Target, CreateDuplicate, Rollback, EndTx
  <1>4. AssignedNeedsRecord'
    BY DEF TypeOK, AssignedNeedsRecord, CreateDuplicate, Rollback, EndTx, out
  <1>5. AssignedOncePerRecord'
    BY DEF AssignedOncePerRecord, CreateDuplicate, Rollback, out
  <1>6. CompletedWasShipped'
    BY DEF CompletedWasShipped, CreateDuplicate, Rollback, out
  <1>7. ReportsBelong'
    BY FulfillmentAssumption DEF TypeOK, ReportsBelong, CreateDuplicate, Creating, Rollback, EndTx, out
  <1> QED
    BY <1>1, <1>2, <1>3, <1>4, <1>5, <1>6, <1>7

\* Neither does a delivery that found the record.
LEMMA CreateExistingStep == ASSUME IInv, NEW r \in Req, CreateExisting(r) PROVE IInv'
  <1> USE DEF IInv
  <1>1. TypeOK'
    <2>1. req[r].order \in Order /\ req[r] \in ReqRecord
      BY DEF TypeOK, TransactionsAreSound, CreateExisting
    <2>2. /\ lock' \in [Order -> Req \cup {NoReq}] /\ req' \in [Req -> ReqRecord]
          /\ \A o \in Order, r1 \in Req :
               lock'[o] = r1 <=> req'[r1].op = "written" /\ req'[r1].order = o
      BY EndTxKeepsTypes DEF CreateExisting
    <2>3. /\ processed' \subseteq Event
          /\ UNCHANGED <<status, assigned, completed, reached, undone>>
      BY DEF TypeOK, TransactionsAreSound, CreateExisting, out
    <2> QED
      BY <2>2, <2>3 DEF TypeOK
  <1>2. StagesWereReached'
    BY DEF StagesWereReached, Idle, CreateExisting, EndTx
  <1>3. TransactionsAreSound'
    BY DEF TransactionsAreSound, Idle, Target, CreateExisting, EndTx
  <1>4. AssignedNeedsRecord'
    BY DEF TypeOK, AssignedNeedsRecord, CreateExisting, EndTx, out
  <1>5. AssignedOncePerRecord'
    BY DEF AssignedOncePerRecord, CreateExisting, out
  <1>6. CompletedWasShipped'
    BY DEF CompletedWasShipped, CreateExisting, out
  <1>7. ReportsBelong'
    BY FulfillmentAssumption DEF TypeOK, ReportsBelong, CreateExisting, EndTx, out
  <1> QED
    BY <1>1, <1>2, <1>3, <1>4, <1>5, <1>6, <1>7

\* A completed record was read as shipped.
LEMMA TransitionWriteStep == ASSUME IInv, NEW r \in Req, TransitionWrite(r) PROVE IInv'
  <1> USE DEF IInv
  <1>1. TypeOK'
    <2>1. req[r].order \in Order /\ req[r] \in ReqRecord
      BY DEF TypeOK, TransactionsAreSound, TransitionWrite
    <2>2. /\ lock' \in [Order -> Req \cup {NoReq}] /\ req' \in [Req -> ReqRecord]
          /\ \A o \in Order, r1 \in Req :
               lock'[o] = r1 <=> req'[r1].op = "written" /\ req'[r1].order = o
      BY <2>1, WrittenKeepsTypes DEF TransitionWrite
    <2>3. /\ completed' \in [Order -> 0 .. MaxPublished]
          /\ UNCHANGED <<status, processed, assigned, reached, undone>>
      BY FulfillmentAssumption DEF TypeOK, TransitionWrite, MayPublish
    <2> QED
      BY <2>2, <2>3 DEF TypeOK
  <1>2. StagesWereReached'
    BY DEF StagesWereReached, Before, TransitionWrite, Written
  <1>3. TransactionsAreSound'
    BY DEF TransactionsAreSound, Target, TransitionWrite, Written
  <1>4. AssignedNeedsRecord'
    BY FulfillmentAssumption DEF AssignedNeedsRecord, TransitionWrite, Written
  <1>5. AssignedOncePerRecord'
    BY DEF AssignedOncePerRecord, TransitionWrite
  <1>6. CompletedWasShipped'
    BY DEF TypeOK, CompletedWasShipped, StagesWereReached, Before, TransitionWrite, MayPublish
  <1>7. ReportsBelong'
    BY FulfillmentAssumption DEF TypeOK, ReportsBelong, TransitionWrite, Written, CanLock, MayPublish
  <1> QED
    BY <1>1, <1>2, <1>3, <1>4, <1>5, <1>6, <1>7

\* What is committed was checked when it was read.
LEMMA CommitStep == ASSUME IInv, NEW r \in Req, Commit(r) PROVE IInv'
  <1> USE DEF IInv
  <1>1. TypeOK'
    <2>1. req[r].order \in Order /\ req[r] \in ReqRecord
      BY DEF TypeOK, TransactionsAreSound, Commit
    <2>2. /\ lock' \in [Order -> Req \cup {NoReq}] /\ req' \in [Req -> ReqRecord]
          /\ \A o \in Order, r1 \in Req :
               lock'[o] = r1 <=> req'[r1].op = "written" /\ req'[r1].order = o
      BY EndTxKeepsTypes DEF Commit
    <2>3. /\ status' \in [Order -> Status \ {"pending"}] /\ reached' \in [Order -> SUBSET Status]
          /\ processed' \subseteq Event /\ UNCHANGED <<assigned, completed, undone>>
      BY DEF TypeOK, TransactionsAreSound, ReqRecord, Commit, out
    <2> QED
      BY <2>2, <2>3 DEF TypeOK
  <1>2. StagesWereReached'
    <2>1. /\ req[r].order \in Order
          /\ req[r].target = "assigned" \/ status[req[r].order] # "absent"
      BY DEF TypeOK, TransactionsAreSound, ReqRecord, Status, Target, Commit
    <2> QED
      BY <2>1 DEF TypeOK, StagesWereReached, Before, Idle, Commit, EndTx
  <1>3. TransactionsAreSound'
    BY DEF TransactionsAreSound, Idle, Target, Commit, EndTx
  <1>4. AssignedNeedsRecord'
    BY DEF TypeOK, AssignedNeedsRecord, TransactionsAreSound, Commit, EndTx, out
  <1>5. AssignedOncePerRecord'
    BY DEF AssignedOncePerRecord, Commit, out
  <1>6. CompletedWasShipped'
    BY DEF CompletedWasShipped, Commit, out
  <1>7. ReportsBelong'
    BY FulfillmentAssumption DEF TypeOK, ReportsBelong, Commit, EndTx, out
  <1> QED
    BY <1>1, <1>2, <1>3, <1>4, <1>5, <1>6, <1>7

\* A transaction that gives up waiting has written nothing.
LEMMA LockWaitFailsStep == ASSUME IInv, NEW r \in Req, LockWaitFails(r) PROVE IInv'
  <1> USE DEF IInv
  <1>1. TypeOK'
    BY DEF TypeOK, ReqRecord, Status, Idle, LockWaitFails, Rollback, EndTx, out
  <1>2. StagesWereReached'
    BY DEF StagesWereReached, Idle, LockWaitFails, Rollback, EndTx
  <1>3. TransactionsAreSound'
    BY DEF TransactionsAreSound, Idle, Target, LockWaitFails, Rollback, EndTx
  <1>4. AssignedNeedsRecord'
    BY DEF TypeOK, AssignedNeedsRecord, LockWaitFails, Rollback, EndTx, out
  <1>5. AssignedOncePerRecord'
    BY DEF AssignedOncePerRecord, LockWaitFails, Rollback, out
  <1>6. CompletedWasShipped'
    BY DEF CompletedWasShipped, LockWaitFails, Rollback, out
  <1>7. ReportsBelong'
    BY FulfillmentAssumption DEF TypeOK, ReportsBelong, LockWaitFails, Rollback, EndTx, out
  <1> QED
    BY <1>1, <1>2, <1>3, <1>4, <1>5, <1>6, <1>7

\* What a lost transaction has published is set down as undone.
LEMMA CrashStep == ASSUME IInv, NEW r \in Req, Crash(r) PROVE IInv'
  <1> USE DEF IInv
  <1>1. TypeOK'
    <2>1. req[r].order \in Order /\ req[r] \in ReqRecord
      BY DEF TypeOK, TransactionsAreSound, Crash
    <2>2. /\ lock' \in [Order -> Req \cup {NoReq}] /\ req' \in [Req -> ReqRecord]
          /\ \A o \in Order, r1 \in Req :
               lock'[o] = r1 <=> req'[r1].op = "written" /\ req'[r1].order = o
      BY EndTxKeepsTypes DEF Crash, Rollback
    <2>3. /\ undone' \subseteq Order
          /\ UNCHANGED <<status, processed, assigned, completed, reached>>
      BY <2>1 DEF TypeOK, Crash, Rollback, out
    <2> QED
      BY <2>2, <2>3 DEF TypeOK
  <1>2. StagesWereReached'
    BY DEF StagesWereReached, Idle, Crash, Rollback, EndTx
  <1>3. TransactionsAreSound'
    BY DEF TransactionsAreSound, Idle, Target, Crash, Rollback, EndTx
  <1>4. AssignedNeedsRecord'
    BY DEF TypeOK, AssignedNeedsRecord, Crash, Rollback, EndTx, out
  <1>5. AssignedOncePerRecord'
    BY DEF AssignedOncePerRecord, Crash, Rollback, out
  <1>6. CompletedWasShipped'
    BY DEF CompletedWasShipped, Crash, Rollback, out
  <1>7. ReportsBelong'
    BY FulfillmentAssumption DEF TypeOK, ReportsBelong, Crash, Rollback, EndTx, out
  <1> QED
    BY <1>1, <1>2, <1>3, <1>4, <1>5, <1>6, <1>7

\* Every step keeps the invariant.
LEMMA NextIInv == IInv /\ [Next]_vars => IInv'
  <1> SUFFICES ASSUME IInv, [Next]_vars PROVE IInv'
    OBVIOUS
  <1>1. CASE \E r \in Req : Begin(r)
    BY <1>1, CreateReadStep, TransitionReadStep DEF Begin
  <1>2. CASE \E r \in Req : Advance(r)
    BY <1>2, CreateInsertStep, CreateDuplicateStep, CreateExistingStep, TransitionWriteStep,
       CommitStep, LockWaitFailsStep DEF Advance
  <1>3. CASE \E r \in Req : Crash(r)
    BY <1>3, CrashStep
  <1>4. CASE UNCHANGED vars
    BY <1>4 DEF vars, IInv, TypeOK, StagesWereReached, TransactionsAreSound,
       AssignedNeedsRecord, ReportsBelong, AssignedOncePerRecord, CompletedWasShipped
  <1> QED
    BY <1>1, <1>2, <1>3, <1>4 DEF Next

\* The invariant holds in every reachable state.
LEMMA Invariance == Spec => []IInv
  BY InitIInv, NextIInv, PTL DEF Spec

\* Variables keep their types, and a record's lock is held by the transaction
\* that has written it.
THEOREM TypeCorrect == Spec => []TypeOK
  BY Invariance, PTL DEF IInv

\* However many deliveries of order.created race, fulfillment.assigned leaves
\* once, unless a transaction that had written was lost.
THEOREM AssignedOnce == Spec => []AssignedOncePerRecord
  BY Invariance, PTL DEF IInv

\* fulfillment.completed leaves only for what passed every stage before.
THEOREM CompletedAfterShipping == Spec => []CompletedWasShipped
  BY Invariance, PTL DEF IInv

\* For any requests, deliveries and lock waits, what consumers are told was committed,
\* once the record is free again, unless a transaction that had written was lost.
THEOREM EventsCommitted == Spec => []EventsWereCommitted
  <1>1. IInv => EventsWereCommitted
    BY DEF IInv, EventsWereCommitted, ReportsBelong, AssignedNeedsRecord, StagesWereReached
  <1> QED
    BY <1>1, Invariance, PTL
==============================================================================
