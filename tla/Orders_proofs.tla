---------------------------- MODULE Orders_proofs ----------------------------
(***************************************************************************)
(* Proofs about the Order service, for any products, orders, slots and     *)
(* events: a published order holds its items, no item is reserved twice,   *)
(* no unit is promised to two orders, an event moves its order once, and a *)
(* saga that failed without trouble has given back what it took.           *)
(***************************************************************************)
EXTENDS Orders, FiniteSetTheorems, TLAPS

Answer == {"none", "sent", "ok", "refused", "failed"}

------------------------------------------------------------------------------
(* Small facts *)

\* Items are numbered from 1.
LEMMA ItemNumbering ==
  /\ 1 \in ItemNo /\ ItemNo \subseteq Nat
  /\ \A n \in ItemNo : n >= 1 /\ n + 1 \in ItemNo
  BY DEF ItemNo

\* An idle slot is a request record.
LEMMA IdleIsRecord == Idle \in ReqRecord
  BY ItemNumbering DEF Idle, ReqRecord, Op, Status

\* The items of an order are a finite sequence, numbered from 1.
LEMMA ItemNumbers ==
  ASSUME NEW o \in Order
  PROVE  Len(Items[o]) \in Nat /\ DOMAIN Items[o] = 1 .. Len(Items[o])
  <1>1. Items[o] \in Seq(Product)
    BY OrdersAssumption
  <1> QED
    BY <1>1

\* A call is about an item of its order.
LEMMA CallIsSound ==
  ASSUME TypeOK, SlotsAreSound, NEW r \in Req, call[r] # "none"
  PROVE  /\ CallOf(r) \in Call
         /\ CallOf(r).order = req[r].order /\ CallOf(r).item = req[r].pos
         /\ req[r].order \in Order /\ req[r].pos \in DOMAIN Items[req[r].order]
         /\ req[r].op \in {"reserve", "undo", "release"}
         /\ CallOf(r).kind = "reserve" <=> req[r].op = "reserve"
         /\ CallOf(r).kind = "release" <=> req[r].op \in {"undo", "release"}
  <1>1. req[r] \in ReqRecord /\ req[r].pos \in ItemNo
    BY DEF TypeOK, ReqRecord
  <1>2. /\ req[r].op \in {"reserve", "undo", "release"} /\ req[r].pos <= req[r].last
        /\ req[r].order \in Order /\ req[r].last \in 0 .. Len(Items[req[r].order])
    BY DEF SlotsAreSound
  <1>3. /\ Len(Items[req[r].order]) \in Nat
        /\ DOMAIN Items[req[r].order] = 1 .. Len(Items[req[r].order])
    BY <1>2, ItemNumbers
  <1>4. req[r].pos \in DOMAIN Items[req[r].order]
    BY <1>1, <1>2, <1>3 DEF ItemNo
  <1> QED
    BY <1>1, <1>2, <1>4 DEF CallOf, Call

------------------------------------------------------------------------------
(* A step of one slot that neither touches stock nor rows *)

\* What a slot may do next, x with a call in state a, without a new claim.
Follows(r, x, a) ==
  /\ x.op # "idle" => x.order \in Order /\ x.last \in 0 .. Len(Items[x.order])
  /\ x.op \in {"validate", "reserve"} => x.last = Len(Items[x.order])
  /\ x.op = "validate" => x.pos <= x.last
  /\ x.op \in {"event", "moved"} => x.event \in Event /\ EventOrder[x.event] = x.order
  /\ a # "none" => x.op \in {"reserve", "undo", "release"} /\ x.pos <= x.last
  /\ x.op \in Saga => req[r].op \in Saga /\ req[r].order = x.order
  /\ x.op = "created" => req[r].op = "created"
  /\ x.op \in {"validate", "reserve"} => req[r].op \in {"validate", "reserve"}
  /\ x.op = "undo" => req[r].op # "created"
  /\ x.op \in {"cancel", "release", "event", "moved"} => status[x.order] # "absent"
  /\ x.op = "release" => x.order \in cancelling
  /\ \A i \in Nat \ {0} :
       /\ Pending(x, a, x.order, i) => Pending(req[r], call[r], x.order, i)
       /\ Granted(x, a, x.order, i) => Granted(req[r], call[r], x.order, i)

\* The call of the slot may join the late ones when the slot is done with it.
Leaves(r, x, a) ==
  \/ late' = late
  \/ /\ call[r] = "sent" /\ late' = late \cup {CallOf(r)}
     /\ ~ Pending(x, a, req[r].order, req[r].pos)

SlotMoves(r, x, a) ==
  /\ req' = [req EXCEPT ![r] = x]
  /\ call' = [call EXCEPT ![r] = a]
  /\ UNCHANGED <<stock, granted, handled, holds, status, published, processed, used, cancelling, shorted>>
  /\ rowLock' \in [Order -> Req \cup {NoReq}]
  /\ troubled' \subseteq Order
  /\ Leaves(r, x, a)

\* Such a step keeps the invariant.
LEMMA SlotStep ==
  ASSUME IInv, NEW r \in Req, NEW x \in ReqRecord, NEW a \in Answer,
         Follows(r, x, a), SlotMoves(r, x, a)
  PROVE  IInv'
  <1>0. /\ req \in [Req -> ReqRecord] /\ call \in [Req -> Answer]
        /\ late \subseteq Call
    BY DEF IInv, TypeOK, Answer
  <1>1. /\ req'[r] = x /\ call'[r] = a
        /\ \A s \in Req \ {r} : req'[s] = req[s] /\ call'[s] = call[s]
        /\ req' \in [Req -> ReqRecord] /\ call' \in [Req -> Answer]
    BY <1>0 DEF SlotMoves
  <1>2. call[r] = "sent" =>
          /\ CallOf(r) \in Call
          /\ CallOf(r).order = req[r].order /\ CallOf(r).item = req[r].pos
          /\ req[r].order \in Order /\ req[r].pos \in DOMAIN Items[req[r].order]
          /\ req[r].op \in {"reserve", "undo", "release"}
          /\ CallOf(r).kind = "reserve" <=> req[r].op = "reserve"
          /\ CallOf(r).kind = "release" <=> req[r].op \in {"undo", "release"}
    BY CallIsSound DEF IInv
  <1>3. late' \subseteq Call
    BY <1>0, <1>2 DEF SlotMoves, Leaves
  <1>4. TypeOK'
    BY <1>1, <1>3 DEF IInv, TypeOK, SlotMoves, Answer
  <1>5. SlotsAreSound'
    BY <1>1 DEF IInv, SlotsAreSound, Follows
  <1>6. OneSagaPerOrder'
    BY <1>1 DEF IInv, OneSagaPerOrder, Follows, SlotMoves, Saga
  <1>7. ASSUME NEW o \in Order, Failed(o)
        PROVE  Failed(o)'
    BY <1>1, <1>7 DEF Failed, Follows, SlotMoves, Saga
  <1>8. LateCallsAreSound'
    <2> SUFFICES ASSUME NEW c \in late'
                 PROVE  /\ c.order \in used /\ c.item \in DOMAIN Items[c.order]
                        /\ c.kind = "release" => c.order \in cancelling \/ Failed(c.order)'
      BY DEF LateCallsAreSound, SlotMoves
    <2>1. c.order \in Order
      BY <1>3 DEF Call
    <2>2. CASE c \in late
      BY <2>1, <2>2, <1>7 DEF IInv, LateCallsAreSound
    <2>3. CASE c \notin late
      <3>1. call[r] = "sent" /\ c = CallOf(r)
        BY <2>3 DEF SlotMoves, Leaves
      <3>2. c.order \in used
        BY <3>1, <1>2 DEF IInv, OneSagaPerOrder, Saga
      <3>3. req[r].op = "release" => c.order \in cancelling
        BY <3>1, <1>2 DEF IInv, OneSagaPerOrder
      <3>4. req[r].op = "undo" => Failed(c.order)
        BY <3>1, <1>2 DEF IInv, OneSagaPerOrder, Failed, Saga
      <3> QED
        BY <3>1, <3>2, <3>3, <3>4, <2>1, <1>2, <1>7
    <2> QED
      BY <2>2, <2>3
  <1>9. OneReservePerItem'
    <2> SUFFICES ASSUME NEW o \in Order, NEW i \in DOMAIN Items[o]
                 PROVE  /\ holds[o][i] <= 1
                        /\ o \notin used => holds[o][i] = 0
                        /\ PendingLate(o, i)' => holds[o][i] <= 0
                        /\ \A s \in Req : Pending(req'[s], call'[s], o, i) =>
                             holds[o][i] = 0 /\ ~ PendingLate(o, i)'
      BY DEF OneReservePerItem, SlotMoves
    <2>0. i \in Nat \ {0}
      BY ItemNumbers
    <2>1. \A s \in Req : Pending(req'[s], call'[s], o, i) => Pending(req[s], call[s], o, i)
      BY <1>1, <2>0 DEF Follows, Pending
    <2>2. PendingLate(o, i)' =>
            \/ PendingLate(o, i)
            \/ /\ late' = late \cup {CallOf(r)} /\ call[r] = "sent"
               /\ req[r].op = "reserve" /\ req[r].order = o /\ req[r].pos = i
      BY <1>2 DEF PendingLate, SlotMoves, Leaves
    <2>3. CASE ~ PendingLate(o, i)' \/ PendingLate(o, i)
      BY <2>1, <2>3 DEF IInv, OneReservePerItem
    <2>4. CASE PendingLate(o, i)' /\ ~ PendingLate(o, i)
      <3>1. /\ late' = late \cup {CallOf(r)} /\ call[r] = "sent"
            /\ req[r].op = "reserve" /\ req[r].order = o /\ req[r].pos = i
        BY <2>2, <2>4
      <3>2. Pending(req[r], call[r], o, i)
        BY <3>1 DEF Pending
      <3>3. late' # late
        BY <2>4 DEF PendingLate
      <3>4. ~ Pending(req'[r], call'[r], o, i)
        BY <3>1, <3>3, <1>1 DEF SlotMoves, Leaves
      <3>5. \A s \in Req \ {r} : ~ Pending(req[s], call[s], o, i)
        BY <3>1 DEF Pending, IInv, OneSagaPerOrder, Saga
      <3> QED
        BY <3>2, <3>4, <3>5, <2>1 DEF IInv, OneReservePerItem
    <2> QED
      BY <2>3, <2>4
  <1>10. GrantedItemsAreHeld'
    <2> SUFFICES ASSUME NEW o \in Order \ cancelling, NEW i \in DOMAIN Items[o]
                 PROVE  /\ o \in published \/ status[o] # "absent" => holds[o][i] >= 1
                        /\ \A s \in Req : Granted(req'[s], call'[s], o, i) => holds[o][i] >= 1
      BY DEF GrantedItemsAreHeld, SlotMoves
    <2>0. i \in Nat \ {0}
      BY ItemNumbers
    <2>1. \A s \in Req : Granted(req'[s], call'[s], o, i) => Granted(req[s], call[s], o, i)
      BY <1>1, <2>0 DEF Follows, Granted
    <2> QED
      BY <2>1 DEF IInv, GrantedItemsAreHeld
  <1> QED
    BY <1>4, <1>5, <1>6, <1>8, <1>9, <1>10 DEF IInv

\* A slot whose request ends is of no further consequence.
LEMMA IdleFollows ==
  ASSUME NEW r \in Req
  PROVE  Follows(r, Idle, "none")
  BY DEF Follows, Idle, Pending, Granted, Saga

LEMMA UnlockKeepsType ==
  ASSUME TypeOK, NEW r \in Req, Unlock(r)
  PROVE  rowLock' \in [Order -> Req \cup {NoReq}]
  BY DEF TypeOK, Unlock

LEMMA LockKeepsType ==
  ASSUME TypeOK, NEW r \in Req, Lock(r)
  PROVE  rowLock' \in [Order -> Req \cup {NoReq}]
  BY DEF TypeOK, Lock

\* A call of no slot is "none" unless it reserves or releases.
LEMMA NoCall ==
  ASSUME SlotsAreSound, NEW r \in Req, req[r].op \notin {"reserve", "undo", "release"}
  PROVE  call[r] = "none"
  BY DEF SlotsAreSound

\* The order of a slot that is not idle is an order, and the slot's fields have
\* their types.
LEMMA SlotFields ==
  ASSUME TypeOK, SlotsAreSound, NEW r \in Req
  PROVE  /\ req[r] \in ReqRecord /\ call[r] \in Answer
         /\ req[r].op \in Op /\ req[r].pos \in ItemNo /\ req[r].last \in Nat
         /\ req[r].seen \in Status /\ req[r].event \in Event \cup {NoEvent}
         /\ req[r].op # "idle" =>
              /\ req[r].order \in Order
              /\ Len(Items[req[r].order]) \in Nat
              /\ req[r].last <= Len(Items[req[r].order])
  <1>1. req[r] \in ReqRecord /\ call[r] \in Answer
    BY DEF TypeOK, Answer
  <1>2. req[r].op # "idle" => Len(Items[req[r].order]) \in Nat
    BY ItemNumbers DEF SlotsAreSound
  <1> QED
    BY <1>1, <1>2 DEF ReqRecord, SlotsAreSound

\* Transactions that undo what they wrote.
LEMMA RollbackKeeps ==
  ASSUME IInv, NEW r \in Req, Rollback(r),
         UNCHANGED <<poolVars, holds, used, cancelling, shorted>>,
         Abandon(r), troubled' \in SUBSET Order
  PROVE  IInv'
  <1>1. rowLock' \in [Order -> Req \cup {NoReq}]
    BY UnlockKeepsType DEF Rollback, EndRequest, IInv
  <1>2. Leaves(r, Idle, "none")
    BY DEF Leaves, Abandon, Pending, Idle
  <1>3. SlotMoves(r, Idle, "none")
    BY <1>1, <1>2 DEF SlotMoves, Rollback, EndRequest, poolVars
  <1>4. Idle \in ReqRecord /\ "none" \in Answer
    BY IdleIsRecord DEF Answer
  <1> QED
    BY <1>3, <1>4, IdleFollows, SlotStep

------------------------------------------------------------------------------
(* Calls *)

\* One lemma for each action, here and below: it keeps the invariant.
LEMMA SendKeeps ==
  ASSUME IInv, NEW r \in Req, Send(r)
  PROVE  IInv'
  <1>1. TypeOK /\ SlotsAreSound /\ OneSagaPerOrder
    BY DEF IInv
  <1>2. req[r] \in ReqRecord /\ req \in [Req -> ReqRecord] /\ "sent" \in Answer
    BY <1>1 DEF TypeOK, Answer
  <1>3. Follows(r, req[r], "sent")
    BY <1>1 DEF Follows, Send, Calling, Pending, Granted, SlotsAreSound, OneSagaPerOrder
  <1>4. SlotMoves(r, req[r], "sent")
    BY <1>1, <1>2 DEF SlotMoves, Leaves, Send, net, rows, history, TypeOK
  <1> QED
    BY <1>2, <1>3, <1>4, SlotStep

LEMMA NoAnswerKeeps ==
  ASSUME IInv, NEW r \in Req, NoAnswer(r)
  PROVE  IInv'
  <1>1. TypeOK /\ SlotsAreSound /\ OneSagaPerOrder
    BY DEF IInv
  <1>2. req[r] \in ReqRecord /\ req \in [Req -> ReqRecord] /\ "failed" \in Answer
    BY <1>1 DEF TypeOK, Answer
  <1>3. /\ req[r].op \in {"reserve", "undo", "release"} /\ req[r].order \in Order
        /\ req[r].pos \in Nat
    BY <1>1, SlotFields DEF NoAnswer, SlotsAreSound, ItemNo
  <1>4. Follows(r, req[r], "failed")
    BY <1>1 DEF Follows, NoAnswer, Pending, Granted, SlotsAreSound, OneSagaPerOrder
  <1>5. Leaves(r, req[r], "failed")
    BY <1>3 DEF Leaves, NoAnswer, Abandon, Pending
  <1>6. SlotMoves(r, req[r], "failed")
    BY <1>1, <1>2, <1>3, <1>5 DEF SlotMoves, NoAnswer, poolVars, rows, TypeOK
  <1> QED
    BY <1>2, <1>4, <1>6, SlotStep

\* An executed call moves one unit of its item.
LEMMA ExecutesOne ==
  ASSUME TypeOK, NEW c \in Call, c.item \in DOMAIN Items[c.order], Executes(c)
  PROVE  /\ stock' \in [Product -> [state : {"live", "deleted"}, available : Nat, reserved : Nat]]
         /\ \A q \in Product : stock'[q].state = stock[q].state
         /\ granted' \in [Product -> Int]
         /\ handled' \subseteq Order
         /\ holds' = [o \in Order |-> [i \in DOMAIN Items[o] |-> holds'[o][i]]]
         /\ \A o \in Order : \A i \in DOMAIN Items[o] :
              /\ holds'[o][i] \in Int
              /\ holds'[o][i] = IF o = c.order /\ i = c.item
                                THEN holds[o][i] + (IF c.kind = "reserve" THEN 1 ELSE -1)
                                ELSE holds[o][i]
  <1> DEFINE p == Items[c.order][c.item]
             n == IF c.kind = "reserve" THEN 1 ELSE -1
  <1>1. c.order \in Order /\ c.kind \in {"reserve", "release"}
    BY DEF Call
  <1>2. p \in Product
    BY <1>1, ItemNumbers, OrdersAssumption
  <1>3. \A q \in Product : stock[q].available \in Nat /\ stock[q].reserved \in Nat
                           /\ stock[q] \in [state : {"live", "deleted"}, available : Nat, reserved : Nat]
    BY DEF TypeOK
  <1>4. IF c.kind = "reserve" THEN Pool!GrantOne(p, 1) ELSE Pool!TakeBack(p, 1)
    BY DEF Executes
  <1>5. holds' = [holds EXCEPT ![c.order][c.item] = @ + n]
    BY DEF Executes
  <1> HIDE DEF p, n
  <1>6. /\ stock' \in [Product -> [state : {"live", "deleted"}, available : Nat, reserved : Nat]]
        /\ granted' \in [Product -> Int] /\ handled' \subseteq Order
        /\ \A q \in Product : stock'[q].state = stock[q].state
    <2>1. CASE c.kind = "reserve"
      <3>1. /\ stock' = [q \in Product |-> [stock[q] EXCEPT !.reserved = @ + (IF q = p THEN 1 ELSE 0)]]
            /\ granted' = [q \in Product |-> granted[q] + (IF q = p THEN 1 ELSE 0)]
            /\ handled' = handled
        BY <2>1, <1>4 DEF Pool!GrantOne, Pool!Grant
      <3>2. \A q \in Product :
              [stock[q] EXCEPT !.reserved = @ + (IF q = p THEN 1 ELSE 0)]
                \in [state : {"live", "deleted"}, available : Nat, reserved : Nat]
        BY <1>3
      <3> QED
        BY <3>1, <3>2 DEF TypeOK
    <2>2. CASE c.kind # "reserve"
      <3>1. /\ 1 <= stock[p].reserved
            /\ stock' = [stock EXCEPT ![p] = [stock[p] EXCEPT !.reserved = @ - 1]]
            /\ granted' = [granted EXCEPT ![p] = granted[p] - 1]
            /\ handled' = handled
        BY <2>2, <1>4 DEF Pool!TakeBack
      <3>2. [stock[p] EXCEPT !.reserved = @ - 1]
              \in [state : {"live", "deleted"}, available : Nat, reserved : Nat]
        BY <1>2, <1>3, <3>1
      <3> QED
        BY <3>1, <3>2, <1>2 DEF TypeOK
    <2> QED
      BY <2>1, <2>2
  <1>7. n \in Int
    BY DEF n
  <1>8. holds' = [o \in Order |-> [i \in DOMAIN Items[o] |->
                    IF o = c.order /\ i = c.item THEN holds[o][i] + n ELSE holds[o][i]]]
    <2> DEFINE h == [holds[c.order] EXCEPT ![c.item] = holds[c.order][c.item] + n]
    <2>1. \A o \in Order : holds[o] = [i \in DOMAIN Items[o] |-> holds[o][i]]
      BY DEF TypeOK
    <2>2. h = [i \in DOMAIN Items[c.order] |->
                 IF i = c.item THEN holds[c.order][i] + n ELSE holds[c.order][i]]
      BY <2>1, <1>1
    <2>3. holds' = [holds EXCEPT ![c.order] = h]
      BY <1>5
    <2>4. DOMAIN holds = Order
      BY DEF TypeOK
    <2> HIDE DEF h
    <2>5. holds' = [o \in Order |-> IF o = c.order THEN h ELSE holds[o]]
      BY <2>3, <2>4, <1>1
    <2>6. \A o \in Order : (IF o = c.order THEN h ELSE holds[o])
            = [i \in DOMAIN Items[o] |->
                 IF o = c.order /\ i = c.item THEN holds[o][i] + n ELSE holds[o][i]]
      <3> SUFFICES ASSUME NEW o \in Order
                   PROVE  (IF o = c.order THEN h ELSE holds[o])
                            = [i \in DOMAIN Items[o] |->
                                 IF o = c.order /\ i = c.item THEN holds[o][i] + n ELSE holds[o][i]]
        OBVIOUS
      <3>1. CASE o = c.order
        BY <2>2, <3>1
      <3>2. CASE o # c.order
        BY <2>1, <3>2
      <3> QED
        BY <3>1, <3>2
    <2> QED
      BY <2>5, <2>6
  <1>9. \A o \in Order : \A i \in DOMAIN Items[o] :
          holds'[o][i] = IF o = c.order /\ i = c.item THEN holds[o][i] + n ELSE holds[o][i]
    BY <1>8
  <1>10. holds' = [o \in Order |-> [i \in DOMAIN Items[o] |-> holds'[o][i]]]
    BY <1>8
  <1>11. \A o \in Order : \A i \in DOMAIN Items[o] : holds'[o][i] \in Int
    <2>1. \A o \in Order : \A i \in DOMAIN Items[o] : holds[o][i] \in Int
      BY DEF TypeOK
    <2>2. \A o \in Order : \A i \in DOMAIN Items[o] : holds[o][i] + n \in Int
      BY <2>1, <1>7
    <2> QED
      BY <2>1, <2>2, <1>9
  <1> QED
    BY <1>6, <1>9, <1>10, <1>11 DEF n

\* What a slot asks for, it asks for an order that is posted.
LEMMA CallerIsPosted ==
  ASSUME IInv, NEW r \in Req, call[r] # "none"
  PROVE  req[r].order \in used
  BY CallIsSound DEF IInv, OneSagaPerOrder, Saga

LEMMA ServeKeeps ==
  ASSUME IInv, NEW r \in Req, Serve(r)
  PROVE  IInv'
  <1>1. /\ TypeOK /\ SlotsAreSound /\ OneSagaPerOrder
        /\ LateCallsAreSound /\ OneReservePerItem /\ GrantedItemsAreHeld
    BY DEF IInv
  <1>2. call[r] = "sent"
    BY DEF Serve
  <1> DEFINE c == CallOf(r)
             oc == req[r].order
             ic == req[r].pos
  <1>3. /\ c \in Call /\ c.order = oc /\ c.item = ic
        /\ oc \in Order /\ ic \in DOMAIN Items[oc]
        /\ req[r].op \in {"reserve", "undo", "release"}
        /\ c.kind = "reserve" <=> req[r].op = "reserve"
        /\ c.kind = "release" <=> req[r].op \in {"undo", "release"}
    BY <1>1, <1>2, CallIsSound
  <1>4. oc \in used
    BY <1>2, CallerIsPosted
  <1>5. req[r] \in ReqRecord /\ req \in [Req -> ReqRecord] /\ call \in [Req -> Answer]
    BY <1>1 DEF TypeOK, Answer
  <1>6. CASE Refuses(c) /\ call' = [call EXCEPT ![r] = "refused"]
    <2>1. Follows(r, req[r], "refused")
      BY <1>1, <1>2 DEF Follows, Pending, Granted, SlotsAreSound, OneSagaPerOrder
    <2>2. SlotMoves(r, req[r], "refused")
      BY <1>1, <1>5, <1>6
         DEF SlotMoves, Leaves, Serve, Refuses, poolVars, rows, history, TypeOK
    <2> QED
      BY <1>5, <2>1, <2>2, SlotStep DEF Answer
  <1>7. CASE Executes(c) /\ call' = [call EXCEPT ![r] = "ok"]
    <2>1. UNCHANGED <<late, status, rowLock, req, published, processed, used, troubled, cancelling, shorted>>
      BY DEF Serve, rows, history
    <2>2. /\ stock' \in [Product -> [state : {"live", "deleted"}, available : Nat, reserved : Nat]]
          /\ granted' \in [Product -> Int] /\ handled' \subseteq Order
          /\ holds' = [o \in Order |-> [i \in DOMAIN Items[o] |-> holds'[o][i]]]
      BY <1>1, <1>3, <1>7, ExecutesOne
    <2>3. \A o \in Order : \A i \in DOMAIN Items[o] :
            /\ holds'[o][i] \in Int
            /\ holds'[o][i] = IF o = oc /\ i = ic
                              THEN holds[o][i] + (IF c.kind = "reserve" THEN 1 ELSE -1)
                              ELSE holds[o][i]
      BY <1>1, <1>3, <1>7, ExecutesOne
    <2>4. /\ call' \in [Req -> Answer] /\ call'[r] = "ok"
          /\ \A s \in Req \ {r} : call'[s] = call[s]
      BY <1>5, <1>7 DEF Answer
    <2>5. TypeOK'
      BY <1>1, <2>1, <2>2, <2>3, <2>4 DEF TypeOK, Answer
    <2>6. SlotsAreSound'
      BY <1>1, <1>2, <2>1, <2>4 DEF SlotsAreSound
    <2>7. OneSagaPerOrder' /\ LateCallsAreSound'
      BY <1>1, <2>1 DEF OneSagaPerOrder, LateCallsAreSound, Failed
    <2>8. \A o \in Order : \A i \in DOMAIN Items[o] : holds[o][i] \in Int
      BY <1>1 DEF TypeOK
    <2>9. \A o, i, s : s \in Req /\ Pending(req'[s], call'[s], o, i) =>
                         Pending(req[s], call[s], o, i) /\ ~ (s = r /\ i = ic)
      <3>1. ic \in Nat
        BY <1>1, SlotFields DEF ItemNo
      <3> SUFFICES ASSUME NEW o, NEW i, NEW s \in Req, Pending(req'[s], call'[s], o, i)
                   PROVE  Pending(req[s], call[s], o, i) /\ ~ (s = r /\ i = ic)
        OBVIOUS
      <3>2. CASE s = r
        <4>1. req[r].op = "reserve" /\ ic < i /\ oc = o
          BY <3>2, <1>3, <2>1, <2>4 DEF Pending
        <4> QED
          BY <3>1, <3>2, <4>1 DEF Pending
      <3>3. CASE s # r
        BY <3>3, <2>1, <2>4
      <3> QED
        BY <3>2, <3>3
    <2>10. \A o, i : PendingLate(o, i)' = PendingLate(o, i)
      BY <2>1 DEF PendingLate
    <2>11. CASE req[r].op = "reserve"
      <3>1. Pending(req[r], call[r], oc, ic)
        BY <2>11, <1>2 DEF Pending
      <3>2. holds[oc][ic] = 0 /\ ~ PendingLate(oc, ic)
        BY <3>1, <1>1, <1>3 DEF OneReservePerItem
      <3>3. \A o \in Order : \A i \in DOMAIN Items[o] :
              holds'[o][i] = IF o = oc /\ i = ic THEN 1 ELSE holds[o][i]
        BY <2>3, <3>2, <2>11, <1>3
      <3>4. \A s \in Req : ~ Pending(req'[s], call'[s], oc, ic)
        <4>1. \A s \in Req \ {r} : ~ Pending(req[s], call[s], oc, ic)
          BY <2>11, <1>1 DEF Pending, OneSagaPerOrder, Saga
        <4> QED
          BY <4>1, <2>9
      <3>5. OneReservePerItem'
        <4> SUFFICES ASSUME NEW o \in Order, NEW i \in DOMAIN Items[o]
                     PROVE  /\ holds'[o][i] <= 1
                            /\ o \notin used => holds'[o][i] = 0
                            /\ PendingLate(o, i) => holds'[o][i] <= 0
                            /\ \A s \in Req : Pending(req'[s], call'[s], o, i) =>
                                 holds'[o][i] = 0 /\ ~ PendingLate(o, i)
          BY <2>1, <2>10 DEF OneReservePerItem
        <4>1. CASE o = oc /\ i = ic
          BY <4>1, <3>2, <3>3, <3>4, <1>4
        <4>2. CASE ~ (o = oc /\ i = ic)
          <5>1. holds'[o][i] = holds[o][i]
            BY <4>2, <3>3
          <5> QED
            BY <5>1, <2>9, <1>1 DEF OneReservePerItem
        <4> QED
          BY <4>1, <4>2
      <3>6. GrantedItemsAreHeld'
        <4> SUFFICES ASSUME NEW o \in Order \ cancelling, NEW i \in DOMAIN Items[o]
                     PROVE  /\ o \in published \/ status[o] # "absent" => holds'[o][i] >= 1
                            /\ \A s \in Req : Granted(req[s], call'[s], o, i) => holds'[o][i] >= 1
          BY <2>1 DEF GrantedItemsAreHeld
        <4>1. CASE o = oc /\ i = ic
          BY <4>1, <3>3
        <4>2. CASE ~ (o = oc /\ i = ic)
          <5>1. holds'[o][i] = holds[o][i]
            BY <4>2, <3>3
          <5>2. \A s \in Req : Granted(req[s], call'[s], o, i) => Granted(req[s], call[s], o, i)
            BY <4>2, <2>4 DEF Granted
          <5> QED
            BY <5>1, <5>2, <1>1 DEF GrantedItemsAreHeld
        <4> QED
          BY <4>1, <4>2
      <3> QED
        BY <2>5, <2>6, <2>7, <3>5, <3>6 DEF IInv
    <2>12. CASE req[r].op \in {"undo", "release"}
      <3>1. \A o \in Order : \A i \in DOMAIN Items[o] :
              holds'[o][i] = IF o = oc /\ i = ic THEN holds[o][i] - 1 ELSE holds[o][i]
        BY <2>3, <2>8, <2>12, <1>3
      <3>2. \A i : \A s \in Req : ~ Pending(req[s], call[s], oc, i)
        BY <2>12, <1>1 DEF Pending, OneSagaPerOrder, Saga
      <3>3. OneReservePerItem'
        <4> SUFFICES ASSUME NEW o \in Order, NEW i \in DOMAIN Items[o]
                     PROVE  /\ holds'[o][i] <= 1
                            /\ o \notin used => holds'[o][i] = 0
                            /\ PendingLate(o, i) => holds'[o][i] <= 0
                            /\ \A s \in Req : Pending(req'[s], call'[s], o, i) =>
                                 holds'[o][i] = 0 /\ ~ PendingLate(o, i)
          BY <2>1, <2>10 DEF OneReservePerItem
        <4>1. /\ holds[o][i] <= 1
              /\ o \notin used => holds[o][i] = 0
              /\ PendingLate(o, i) => holds[o][i] <= 0
              /\ \A s \in Req : Pending(req[s], call[s], o, i) =>
                   holds[o][i] = 0 /\ ~ PendingLate(o, i)
          BY <1>1 DEF OneReservePerItem
        <4>2. CASE o = oc /\ i = ic
          <5>1. holds'[o][i] = holds[o][i] - 1 /\ holds[o][i] \in Int
            BY <3>1, <2>8, <4>2
          <5>2. \A s \in Req : ~ Pending(req'[s], call'[s], o, i)
            BY <3>2, <2>9, <4>2
          <5> QED
            BY <5>1, <5>2, <4>1, <4>2, <1>4
        <4>3. CASE ~ (o = oc /\ i = ic)
          BY <4>1, <4>3, <3>1, <2>9
        <4> QED
          BY <4>2, <4>3
      <3>4. GrantedItemsAreHeld'
        <4> SUFFICES ASSUME NEW o \in Order \ cancelling, NEW i \in DOMAIN Items[o]
                     PROVE  /\ o \in published \/ status[o] # "absent" => holds'[o][i] >= 1
                            /\ \A s \in Req : Granted(req[s], call'[s], o, i) => holds'[o][i] >= 1
          BY <2>1 DEF GrantedItemsAreHeld
        <4>1. \A s \in Req : Granted(req[s], call'[s], o, i) => Granted(req[s], call[s], o, i)
          BY <2>12, <2>4 DEF Granted
        <4>2. CASE o # oc
          BY <4>1, <4>2, <3>1, <1>1 DEF GrantedItemsAreHeld
        <4>3. CASE o = oc
          <5>1. req[r].op = "undo"
            BY <4>3, <2>12, <1>1 DEF OneSagaPerOrder
          <5>2. o \notin published /\ status[o] = "absent"
            BY <5>1, <4>3, <1>1 DEF OneSagaPerOrder, Saga
          <5>3. \A s \in Req : ~ Granted(req[s], call[s], o, i)
            BY <5>1, <4>3, <1>1 DEF Granted, OneSagaPerOrder, Saga
          <5> QED
            BY <4>1, <5>2, <5>3
        <4> QED
          BY <4>2, <4>3
      <3> QED
        BY <2>5, <2>6, <2>7, <3>3, <3>4 DEF IInv
    <2> QED
      BY <2>11, <2>12, <1>3
  <1> QED
    BY <1>6, <1>7 DEF Serve

LEMMA ServeLateKeeps ==
  ASSUME IInv, NEW c \in late, ServeLate(c)
  PROVE  IInv'
  <1>1. /\ TypeOK /\ SlotsAreSound /\ OneSagaPerOrder
        /\ LateCallsAreSound /\ OneReservePerItem /\ GrantedItemsAreHeld
    BY DEF IInv
  <1> DEFINE oc == c.order
             ic == c.item
  <1>2. /\ UNCHANGED <<status, rowLock, req, call, published, processed, used, troubled, cancelling, shorted>>
        /\ late' = late \ {c}
    BY DEF ServeLate, rows, history
  <1>3. /\ c \in Call /\ oc \in Order /\ c.kind \in {"reserve", "release"}
        /\ oc \in used /\ ic \in DOMAIN Items[oc]
        /\ c.kind = "release" => oc \in cancelling \/ Failed(oc)
    BY <1>1 DEF TypeOK, LateCallsAreSound, Call
  <1>4. SlotsAreSound' /\ OneSagaPerOrder' /\ LateCallsAreSound'
    BY <1>1, <1>2 DEF SlotsAreSound, OneSagaPerOrder, LateCallsAreSound, Failed
  <1>5. \A o, i : PendingLate(o, i)' => PendingLate(o, i)
    BY <1>2 DEF PendingLate
  <1>6. \A o \in Order : \A i \in DOMAIN Items[o] : holds[o][i] \in Int
    BY <1>1 DEF TypeOK
  <1>7. CASE Refuses(c)
    <2>1. UNCHANGED <<stock, granted, handled, holds>>
      BY <1>7 DEF Refuses, poolVars
    <2>2. TypeOK'
      BY <1>1, <1>2, <2>1 DEF TypeOK
    <2>3. OneReservePerItem' /\ GrantedItemsAreHeld'
      BY <1>1, <1>2, <1>5, <2>1 DEF OneReservePerItem, GrantedItemsAreHeld
    <2> QED
      BY <1>4, <2>2, <2>3 DEF IInv
  <1>8. CASE Executes(c)
    <2>1. /\ stock' \in [Product -> [state : {"live", "deleted"}, available : Nat, reserved : Nat]]
          /\ granted' \in [Product -> Int] /\ handled' \subseteq Order
          /\ holds' = [o \in Order |-> [i \in DOMAIN Items[o] |-> holds'[o][i]]]
      BY <1>1, <1>3, <1>8, ExecutesOne
    <2>2. \A o \in Order : \A i \in DOMAIN Items[o] :
            /\ holds'[o][i] \in Int
            /\ holds'[o][i] = IF o = oc /\ i = ic
                              THEN holds[o][i] + (IF c.kind = "reserve" THEN 1 ELSE -1)
                              ELSE holds[o][i]
      BY <1>1, <1>3, <1>8, ExecutesOne
    <2>3. TypeOK'
      BY <1>1, <1>2, <2>1, <2>2 DEF TypeOK
    <2>4. CASE c.kind = "reserve"
      <3>1. \A o \in Order : \A i \in DOMAIN Items[o] :
              holds'[o][i] = IF o = oc /\ i = ic THEN holds[o][i] + 1 ELSE holds[o][i]
        BY <2>2, <2>4
      <3>2. PendingLate(oc, ic)
        BY <2>4 DEF PendingLate
      <3>3. holds[oc][ic] <= 0 /\ \A s \in Req : ~ Pending(req[s], call[s], oc, ic)
        BY <3>2, <1>1, <1>3 DEF OneReservePerItem
      <3>4. ~ PendingLate(oc, ic)'
        <4> SUFFICES ASSUME NEW d \in late, d # c, d.kind = "reserve", d.order = oc, d.item = ic
                     PROVE  FALSE
          BY <1>2 DEF PendingLate
        <4>1. d \in Call
          BY <1>1 DEF TypeOK
        <4> QED
          BY <4>1, <1>3, <2>4 DEF Call
      <3>5. OneReservePerItem'
        <4> SUFFICES ASSUME NEW o \in Order, NEW i \in DOMAIN Items[o]
                     PROVE  /\ holds'[o][i] <= 1
                            /\ o \notin used => holds'[o][i] = 0
                            /\ PendingLate(o, i)' => holds'[o][i] <= 0
                            /\ \A s \in Req : Pending(req[s], call[s], o, i) =>
                                 holds'[o][i] = 0 /\ ~ PendingLate(o, i)'
          BY <1>2 DEF OneReservePerItem
        <4>1. CASE o = oc /\ i = ic
          <5>1. holds'[o][i] = holds[o][i] + 1 /\ holds[o][i] <= 0 /\ holds[o][i] \in Int
            BY <3>1, <3>3, <1>6, <4>1
          <5> QED
            BY <5>1, <3>3, <3>4, <1>3, <4>1
        <4>2. CASE ~ (o = oc /\ i = ic)
          BY <4>2, <3>1, <1>5, <1>1 DEF OneReservePerItem
        <4> QED
          BY <4>1, <4>2
      <3>6. GrantedItemsAreHeld'
        <4> SUFFICES ASSUME NEW o \in Order \ cancelling, NEW i \in DOMAIN Items[o]
                     PROVE  /\ o \in published \/ status[o] # "absent" => holds'[o][i] >= 1
                            /\ \A s \in Req : Granted(req[s], call[s], o, i) => holds'[o][i] >= 1
          BY <1>2 DEF GrantedItemsAreHeld
        <4>1. holds[o][i] \in Int /\ (holds[o][i] >= 1 => holds'[o][i] >= 1)
          BY <3>1, <1>6
        <4> QED
          BY <4>1, <1>1 DEF GrantedItemsAreHeld
      <3> QED
        BY <1>4, <2>3, <3>5, <3>6 DEF IInv
    <2>5. CASE c.kind = "release"
      <3>1. \A o \in Order : \A i \in DOMAIN Items[o] :
              holds'[o][i] = IF o = oc /\ i = ic THEN holds[o][i] - 1 ELSE holds[o][i]
        BY <2>2, <2>5, <1>6
      <3>2. \A i : \A s \in Req : ~ Pending(req[s], call[s], oc, i)
        BY <1>3, <2>5, <1>1 DEF Pending, Failed, OneSagaPerOrder, Saga
      <3>3. OneReservePerItem'
        <4> SUFFICES ASSUME NEW o \in Order, NEW i \in DOMAIN Items[o]
                     PROVE  /\ holds'[o][i] <= 1
                            /\ o \notin used => holds'[o][i] = 0
                            /\ PendingLate(o, i)' => holds'[o][i] <= 0
                            /\ \A s \in Req : Pending(req[s], call[s], o, i) =>
                                 holds'[o][i] = 0 /\ ~ PendingLate(o, i)'
          BY <1>2 DEF OneReservePerItem
        <4>1. /\ holds[o][i] <= 1
              /\ o \notin used => holds[o][i] = 0
              /\ PendingLate(o, i) => holds[o][i] <= 0
              /\ \A s \in Req : Pending(req[s], call[s], o, i) =>
                   holds[o][i] = 0 /\ ~ PendingLate(o, i)
          BY <1>1 DEF OneReservePerItem
        <4>2. CASE o = oc /\ i = ic
          <5>1. holds'[o][i] = holds[o][i] - 1 /\ holds[o][i] \in Int
            BY <3>1, <1>6, <4>2
          <5> QED
            BY <5>1, <3>2, <4>1, <4>2, <1>3, <1>5
        <4>3. CASE ~ (o = oc /\ i = ic)
          BY <4>1, <4>3, <3>1, <1>5
        <4> QED
          BY <4>2, <4>3
      <3>4. GrantedItemsAreHeld'
        <4> SUFFICES ASSUME NEW o \in Order \ cancelling, NEW i \in DOMAIN Items[o]
                     PROVE  /\ o \in published \/ status[o] # "absent" => holds'[o][i] >= 1
                            /\ \A s \in Req : Granted(req[s], call[s], o, i) => holds'[o][i] >= 1
          BY <1>2 DEF GrantedItemsAreHeld
        <4>1. CASE o # oc
          BY <4>1, <3>1, <1>1 DEF GrantedItemsAreHeld
        <4>2. CASE o = oc
          BY <4>2, <1>3, <2>5 DEF Failed, Granted
        <4> QED
          BY <4>1, <4>2
      <3> QED
        BY <1>4, <2>3, <3>3, <3>4 DEF IInv
    <2> QED
      BY <2>4, <2>5, <1>3
  <1> QED
    BY <1>7, <1>8 DEF ServeLate

------------------------------------------------------------------------------
(* create_order *)

LEMMA StartCreateKeeps ==
  ASSUME IInv, NEW r \in Req, NEW o \in Order, StartCreate(r, o)
  PROVE  IInv'
  <1> DEFINE x == [Idle EXCEPT !.op = "validate", !.order = o, !.last = Len(Items[o])]
  <1>1. /\ TypeOK /\ SlotsAreSound /\ OneSagaPerOrder
        /\ LateCallsAreSound /\ OneReservePerItem /\ GrantedItemsAreHeld
    BY DEF IInv
  <1>2. /\ req[r].op = "idle" /\ o \notin used /\ used' = used \cup {o}
        /\ UNCHANGED <<stock, granted, handled, late, holds, status, rowLock, call, published,
                       processed, troubled, cancelling, shorted>>
    BY DEF StartCreate, net, rows
  <1>3. Len(Items[o]) \in Nat /\ Len(Items[o]) >= 1
    <2>1. Items[o] \in Seq(Product) /\ Items[o] # <<>>
      BY OrdersAssumption
    <2> QED
      BY <2>1
  <1>4. /\ x \in ReqRecord /\ x.op = "validate" /\ x.order = o /\ x.pos = 1
        /\ x.last = Len(Items[o])
    BY <1>3, IdleIsRecord DEF ReqRecord, Idle, Op
  <1>5. req \in [Req -> ReqRecord] /\ req' = [req EXCEPT ![r] = x]
    BY <1>1 DEF TypeOK, StartCreate
  <1> HIDE DEF x
  <1>6. /\ req'[r] = x /\ req' \in [Req -> ReqRecord]
        /\ \A s \in Req \ {r} : req'[s] = req[s]
    BY <1>4, <1>5
  <1>7. call[r] = "none"
    BY <1>1, <1>2, NoCall
  <1>8. TypeOK'
    BY <1>1, <1>2, <1>6 DEF TypeOK
  <1>9. SlotsAreSound'
    BY <1>1, <1>2, <1>3, <1>4, <1>6, <1>7 DEF SlotsAreSound
  <1>10. o \notin published /\ status[o] = "absent"
    BY <1>1, <1>2 DEF TypeOK, OneSagaPerOrder
  <1>11. \A s \in Req : req[s].op \in Saga => req[s].order # o
    BY <1>1, <1>2 DEF OneSagaPerOrder
  <1>12. OneSagaPerOrder'
    BY <1>1, <1>2, <1>4, <1>6, <1>10, <1>11 DEF OneSagaPerOrder, Saga
  <1>13. \A c \in late : c.order # o
    BY <1>1, <1>2 DEF LateCallsAreSound
  <1>14. LateCallsAreSound'
    BY <1>1, <1>2, <1>4, <1>6, <1>13 DEF LateCallsAreSound, Failed
  <1>15. OneReservePerItem'
    <2>1. \A i : ~ PendingLate(o, i)
      BY <1>13 DEF PendingLate
    <2>2. \A p, i : PendingLate(p, i)' = PendingLate(p, i)
      BY <1>2 DEF PendingLate
    <2>3. \A p, i : \A s \in Req : Pending(req'[s], call[s], p, i) =>
            p = o \/ Pending(req[s], call[s], p, i)
      BY <1>4, <1>6 DEF Pending
    <2> SUFFICES ASSUME NEW p \in Order, NEW i \in DOMAIN Items[p]
                 PROVE  /\ holds[p][i] <= 1
                        /\ p \notin used' => holds[p][i] = 0
                        /\ PendingLate(p, i) => holds[p][i] <= 0
                        /\ \A s \in Req : Pending(req'[s], call[s], p, i) =>
                             holds[p][i] = 0 /\ ~ PendingLate(p, i)
      BY <1>2, <2>2 DEF OneReservePerItem
    <2>4. CASE p = o
      BY <1>1, <1>2, <2>1, <2>4 DEF OneReservePerItem
    <2>5. CASE p # o
      BY <1>1, <1>2, <2>3, <2>5 DEF OneReservePerItem
    <2> QED
      BY <2>4, <2>5
  <1>16. GrantedItemsAreHeld'
    <2>1. \A p, i : \A s \in Req : Granted(req'[s], call[s], p, i) => Granted(req[s], call[s], p, i)
      BY <1>4, <1>6 DEF Granted
    <2> QED
      BY <1>1, <1>2, <2>1 DEF GrantedItemsAreHeld
  <1> QED
    BY <1>8, <1>9, <1>12, <1>14, <1>15, <1>16 DEF IInv

LEMMA ValidateItemKeeps ==
  ASSUME IInv, NEW r \in Req, ValidateItem(r)
  PROVE  IInv'
  <1> DEFINE x == IF req[r].pos < req[r].last THEN [req[r] EXCEPT !.pos = @ + 1]
                  ELSE [req[r] EXCEPT !.op = "reserve", !.pos = 1]
  <1>1. TypeOK /\ SlotsAreSound /\ OneSagaPerOrder
    BY DEF IInv
  <1>2. req[r].op = "validate" /\ call[r] = "none"
    BY <1>1, NoCall DEF ValidateItem
  <1>3. /\ req[r] \in ReqRecord /\ req[r].pos \in ItemNo /\ req[r].last \in Nat
        /\ req[r].order \in Order /\ req[r].last = Len(Items[req[r].order])
    BY <1>1, <1>2, SlotFields DEF SlotsAreSound
  <1>4. /\ x \in ReqRecord /\ x.order = req[r].order /\ x.last = req[r].last
        /\ x.op = "validate" => x.pos <= x.last
        /\ x.op = "validate" \/ (x.op = "reserve" /\ x.pos = 1)
    <2>1. CASE req[r].pos < req[r].last
      BY <1>2, <1>3, <2>1, ItemNumbering DEF ReqRecord, Op
    <2>2. CASE ~ (req[r].pos < req[r].last)
      BY <1>2, <1>3, <2>2, ItemNumbering DEF ReqRecord, Op
    <2> QED
      BY <2>1, <2>2
  <1>5. /\ req' = [req EXCEPT ![r] = x]
        /\ UNCHANGED <<stock, granted, handled, late, holds, status, rowLock, call, published,
                       processed, used, troubled, cancelling, shorted>>
    BY DEF ValidateItem, net, rows, history
  <1> HIDE DEF x
  <1>6. Follows(r, x, "none")
    BY <1>1, <1>2, <1>3, <1>4
       DEF Follows, Pending, Granted, Saga, SlotsAreSound
  <1>7. SlotMoves(r, x, "none")
    BY <1>1, <1>2, <1>5 DEF SlotMoves, Leaves, TypeOK
  <1> QED
    BY <1>4, <1>6, <1>7, SlotStep DEF Answer

LEMMA ReservedKeeps ==
  ASSUME IInv, NEW r \in Req, Reserved(r)
  PROVE  IInv'
  <1> DEFINE x == [req[r] EXCEPT !.pos = @ + 1]
  <1>1. TypeOK /\ SlotsAreSound /\ OneSagaPerOrder
    BY DEF IInv
  <1>2. req[r].op = "reserve" /\ call[r] = "ok"
    BY DEF Reserved
  <1>3. /\ req[r] \in ReqRecord /\ req[r].pos \in ItemNo /\ req[r].last \in Nat
        /\ req[r].order \in Order /\ req[r].last = Len(Items[req[r].order])
        /\ Len(Items[req[r].order]) \in Nat
    BY <1>1, <1>2, SlotFields DEF SlotsAreSound
  <1>4. /\ x \in ReqRecord /\ x.order = req[r].order /\ x.last = req[r].last
        /\ x.op = "reserve" /\ x.pos = req[r].pos + 1
    BY <1>2, <1>3, ItemNumbering DEF ReqRecord
  <1>5. /\ req' = [req EXCEPT ![r] = x] /\ call' = [call EXCEPT ![r] = "none"]
        /\ UNCHANGED <<stock, granted, handled, late, holds, status, rowLock, published,
                       processed, used, troubled, cancelling, shorted>>
    BY DEF Reserved, Answered, net, rows, history
  <1> HIDE DEF x
  <1>6. \A i \in Nat \ {0} :
          /\ Pending(x, "none", x.order, i) => Pending(req[r], call[r], x.order, i)
          /\ Granted(x, "none", x.order, i) => Granted(req[r], call[r], x.order, i)
    BY <1>2, <1>3, <1>4 DEF Pending, Granted, ItemNo
  <1>7. Follows(r, x, "none")
    BY <1>2, <1>3, <1>4, <1>6 DEF Follows, Saga
  <1>8. SlotMoves(r, x, "none")
    BY <1>1, <1>5 DEF SlotMoves, Leaves, TypeOK
  <1> QED
    BY <1>4, <1>7, <1>8, SlotStep DEF Answer

LEMMA ReserveRaisesKeeps ==
  ASSUME IInv, NEW r \in Req, ReserveRaises(r)
  PROVE  IInv'
  <1> DEFINE n == req[r].pos - 1
             x == [req[r] EXCEPT !.op = "undo", !.pos = 1, !.last = n]
  <1>1. TypeOK /\ SlotsAreSound /\ OneSagaPerOrder
    BY DEF IInv
  <1>2. req[r].op = "reserve" /\ call[r] # "none"
    BY DEF ReserveRaises
  <1>3. /\ req[r] \in ReqRecord /\ req[r].pos \in ItemNo /\ req[r].last \in Nat
        /\ req[r].order \in Order /\ req[r].pos <= req[r].last
        /\ Len(Items[req[r].order]) \in Nat /\ req[r].last <= Len(Items[req[r].order])
    BY <1>1, <1>2, SlotFields DEF SlotsAreSound
  <1>4. /\ x \in ReqRecord /\ x.order = req[r].order /\ x.op = "undo"
        /\ x.last \in 0 .. Len(Items[x.order])
    <2>1. n \in Nat /\ n <= Len(Items[req[r].order])
      BY <1>3 DEF ItemNo
    <2> HIDE DEF n
    <2>2. /\ x \in ReqRecord /\ x.order = req[r].order
          /\ x.op = "undo" /\ x.last = n
      BY <1>3, ItemNumbering, <2>1 DEF ReqRecord, Op
    <2> QED
      BY <1>3, <2>1, <2>2
  <1>5. /\ req' = [req EXCEPT ![r] = x] /\ call' = [call EXCEPT ![r] = "none"]
        /\ UNCHANGED <<stock, granted, handled, late, holds, status, rowLock, published,
                       processed, used, troubled, cancelling, shorted>>
    BY DEF ReserveRaises, Answered, net, rows, history
  <1> HIDE DEF x, n
  <1>6. Follows(r, x, "none")
    BY <1>2, <1>3, <1>4 DEF Follows, Pending, Granted, Saga
  <1>7. SlotMoves(r, x, "none")
    BY <1>1, <1>5 DEF SlotMoves, Leaves, TypeOK
  <1> QED
    BY <1>4, <1>6, <1>7, SlotStep DEF Answer

LEMMA ReleasedKeeps ==
  ASSUME IInv, NEW r \in Req, Released(r)
  PROVE  IInv'
  <1> DEFINE x == [req[r] EXCEPT !.pos = @ + 1]
  <1>1. TypeOK /\ SlotsAreSound /\ OneSagaPerOrder
    BY DEF IInv
  <1>2. req[r].op \in {"undo", "release"}
    BY DEF Released
  <1>3. /\ req[r] \in ReqRecord /\ req[r].pos \in ItemNo /\ req[r].last \in Nat
        /\ req[r].order \in Order /\ req[r].last \in 0 .. Len(Items[req[r].order])
    BY <1>1, <1>2, SlotFields DEF SlotsAreSound
  <1>4. x \in ReqRecord /\ x.order = req[r].order /\ x.op = req[r].op /\ x.last = req[r].last
    BY <1>3, ItemNumbering DEF ReqRecord
  <1>5. /\ req' = [req EXCEPT ![r] = x] /\ call' = [call EXCEPT ![r] = "none"]
        /\ UNCHANGED <<stock, granted, handled, late, holds, status, rowLock, published,
                       processed, used, troubled, cancelling, shorted>>
    BY DEF Released, Answered, net, rows, history
  <1> HIDE DEF x
  <1>6. Follows(r, x, "none")
    BY <1>1, <1>2, <1>3, <1>4 DEF Follows, Pending, Granted, Saga, OneSagaPerOrder
  <1>7. SlotMoves(r, x, "none")
    BY <1>1, <1>5 DEF SlotMoves, Leaves, TypeOK
  <1> QED
    BY <1>4, <1>6, <1>7, SlotStep DEF Answer

LEMMA ConfirmAndPublishKeeps ==
  ASSUME IInv, NEW r \in Req, ConfirmAndPublish(r)
  PROVE  IInv'
  <1> DEFINE x == [req[r] EXCEPT !.op = "created"]
             o == req[r].order
  <1>1. /\ TypeOK /\ SlotsAreSound /\ OneSagaPerOrder
        /\ LateCallsAreSound /\ OneReservePerItem /\ GrantedItemsAreHeld
    BY DEF IInv
  <1>2. /\ req[r].op = "reserve" /\ req[r].pos > req[r].last
        /\ published' \in {published, published \cup {o}}
        /\ UNCHANGED <<stock, granted, handled, late, holds, status, rowLock, call,
                       processed, used, troubled, cancelling, shorted>>
    BY DEF ConfirmAndPublish, net, rows, history
  <1>3. /\ req[r] \in ReqRecord /\ req[r].pos \in ItemNo /\ req[r].last \in Nat
        /\ o \in Order /\ req[r].last = Len(Items[o]) /\ Len(Items[o]) \in Nat
        /\ o \in used
    BY <1>1, <1>2, SlotFields DEF SlotsAreSound, OneSagaPerOrder, Saga
  <1>4. call[r] = "none"
    BY <1>1, <1>2, <1>3 DEF SlotsAreSound, ItemNo
  <1>5. x \in ReqRecord /\ x.op = "created" /\ x.order = o /\ x.last = req[r].last
    BY <1>3 DEF ReqRecord, Op
  <1>6. req \in [Req -> ReqRecord] /\ req' = [req EXCEPT ![r] = x]
    BY <1>1 DEF TypeOK, ConfirmAndPublish
  <1> HIDE DEF x
  <1>7. /\ req'[r] = x /\ req' \in [Req -> ReqRecord]
        /\ \A s \in Req \ {r} : req'[s] = req[s]
    BY <1>5, <1>6
  <1>8. TypeOK'
    BY <1>1, <1>2, <1>3, <1>7 DEF TypeOK
  <1>9. SlotsAreSound'
    BY <1>1, <1>2, <1>3, <1>4, <1>5, <1>7 DEF SlotsAreSound
  <1>10. \A s \in Req \ {r} : req[s].op \in Saga => req[s].order # o
    BY <1>1, <1>2 DEF OneSagaPerOrder, Saga
  <1>11. OneSagaPerOrder'
    BY <1>1, <1>2, <1>3, <1>5, <1>7, <1>10 DEF OneSagaPerOrder, Saga
  <1>12. \A p : Failed(p) => Failed(p)'
    BY <1>2, <1>5, <1>7 DEF Failed
  <1>13. LateCallsAreSound'
    BY <1>1, <1>2, <1>12 DEF LateCallsAreSound
  <1>14. OneReservePerItem'
    <2>1. \A p, i : \A s \in Req : Pending(req'[s], call[s], p, i) => Pending(req[s], call[s], p, i)
      BY <1>5, <1>7 DEF Pending
    <2>2. \A p, i : PendingLate(p, i)' = PendingLate(p, i)
      BY <1>2 DEF PendingLate
    <2> QED
      BY <1>1, <1>2, <2>1, <2>2 DEF OneReservePerItem
  <1>15. GrantedItemsAreHeld'
    <2> SUFFICES ASSUME NEW p \in Order \ cancelling, NEW i \in DOMAIN Items[p]
                 PROVE  /\ p \in published' \/ status[p] # "absent" => holds[p][i] >= 1
                        /\ \A s \in Req : Granted(req'[s], call[s], p, i) => holds[p][i] >= 1
      BY <1>2 DEF GrantedItemsAreHeld
    <2>1. i \in 1 .. Len(Items[p])
      BY ItemNumbers
    <2>2. CASE p = o
      <3>1. Granted(req[r], call[r], p, i)
        BY <1>2, <1>3, <2>1, <2>2 DEF Granted, ItemNo
      <3> QED
        BY <3>1, <1>1 DEF GrantedItemsAreHeld
    <2>3. CASE p # o
      <3>1. \A s \in Req : Granted(req'[s], call[s], p, i) => Granted(req[s], call[s], p, i)
        BY <2>3, <1>5, <1>7 DEF Granted
      <3> QED
        BY <3>1, <2>3, <1>1, <1>2 DEF GrantedItemsAreHeld
    <2> QED
      BY <2>2, <2>3
  <1> QED
    BY <1>8, <1>9, <1>11, <1>13, <1>14, <1>15 DEF IInv

------------------------------------------------------------------------------
(* cancel_order and update_status *)

LEMMA CancelReadKeeps ==
  ASSUME IInv, NEW r \in Req, NEW o \in Order, CancelRead(r, o)
  PROVE  IInv'
  <1> DEFINE x == [Idle EXCEPT !.op = "cancel", !.order = o, !.seen = status[o]]
  <1>1. TypeOK /\ SlotsAreSound
    BY DEF IInv
  <1>2. status[o] # "absent" /\ status[o] \in Status /\ req[r].op = "idle"
    BY <1>1 DEF CancelRead, CanTransition, Transitions, TypeOK
  <1>3. Len(Items[o]) \in Nat
    BY ItemNumbers
  <1>4. x \in ReqRecord /\ x.op = "cancel" /\ x.order = o /\ x.last = 0
    BY <1>2, IdleIsRecord DEF ReqRecord, Op, Idle
  <1>5. /\ req' = [req EXCEPT ![r] = x]
        /\ UNCHANGED <<stock, granted, handled, late, holds, status, rowLock, call, published,
                       processed, used, troubled, cancelling, shorted>>
    BY DEF CancelRead, net, rows, history
  <1> HIDE DEF x
  <1>6. Follows(r, x, "none")
    BY <1>2, <1>3, <1>4 DEF Follows, Pending, Granted, Saga
  <1>7. SlotMoves(r, x, "none")
    BY <1>1, <1>2, <1>5, NoCall DEF SlotMoves, Leaves, TypeOK
  <1> QED
    BY <1>4, <1>6, <1>7, SlotStep DEF Answer

LEMMA CancelFlushKeeps ==
  ASSUME IInv, NEW r \in Req, CancelFlush(r)
  PROVE  IInv'
  <1> DEFINE n == IF req[r].seen = "confirmed" THEN Len(Items[req[r].order]) ELSE 0
             x == [req[r] EXCEPT !.op = "release", !.last = n]
             o == req[r].order
  <1>1. /\ TypeOK /\ SlotsAreSound /\ OneSagaPerOrder
        /\ LateCallsAreSound /\ OneReservePerItem /\ GrantedItemsAreHeld
    BY DEF IInv
  <1>2. /\ req[r].op = "cancel" /\ cancelling' = cancelling \cup {o}
        /\ UNCHANGED <<stock, granted, handled, late, holds, status, call, published,
                       processed, used, troubled, shorted>>
    BY DEF CancelFlush, net
  <1>3. /\ req[r] \in ReqRecord /\ o \in Order /\ status[o] # "absent"
        /\ Len(Items[o]) \in Nat /\ call[r] = "none"
    BY <1>1, <1>2, SlotFields, NoCall DEF OneSagaPerOrder
  <1>4. rowLock' \in [Order -> Req \cup {NoReq}]
    BY <1>1, LockKeepsType DEF CancelFlush
  <1>5. /\ x \in ReqRecord /\ x.op = "release" /\ x.order = o
        /\ x.last \in 0 .. Len(Items[o])
    <2>1. n \in 0 .. Len(Items[o]) /\ n \in Nat
      BY <1>3
    <2> HIDE DEF n
    <2>2. x \in ReqRecord /\ x.op = "release" /\ x.order = o /\ x.last = n
      BY <1>3, <2>1 DEF ReqRecord, Op
    <2> QED
      BY <2>1, <2>2
  <1>6. req \in [Req -> ReqRecord] /\ req' = [req EXCEPT ![r] = x]
    BY <1>1 DEF TypeOK, CancelFlush
  <1> HIDE DEF x, n
  <1>7. /\ req'[r] = x /\ req' \in [Req -> ReqRecord]
        /\ \A s \in Req \ {r} : req'[s] = req[s]
    BY <1>5, <1>6
  <1>8. TypeOK'
    BY <1>1, <1>2, <1>3, <1>4, <1>7 DEF TypeOK
  <1>9. SlotsAreSound'
    BY <1>1, <1>2, <1>3, <1>5, <1>7 DEF SlotsAreSound
  <1>10. OneSagaPerOrder'
    BY <1>1, <1>2, <1>3, <1>5, <1>7 DEF OneSagaPerOrder, Saga
  <1>11. LateCallsAreSound'
    BY <1>1, <1>2, <1>5, <1>7 DEF LateCallsAreSound, Failed
  <1>12. OneReservePerItem'
    <2>1. \A p, i : \A s \in Req : Pending(req'[s], call[s], p, i) => Pending(req[s], call[s], p, i)
      BY <1>5, <1>7 DEF Pending
    <2>2. \A p, i : PendingLate(p, i)' = PendingLate(p, i)
      BY <1>2 DEF PendingLate
    <2> QED
      BY <1>1, <1>2, <2>1, <2>2 DEF OneReservePerItem
  <1>13. GrantedItemsAreHeld'
    <2>1. \A p, i : \A s \in Req : Granted(req'[s], call[s], p, i) => Granted(req[s], call[s], p, i)
      BY <1>5, <1>7 DEF Granted
    <2> QED
      BY <1>1, <1>2, <2>1 DEF GrantedItemsAreHeld
  <1> QED
    BY <1>8, <1>9, <1>10, <1>11, <1>12, <1>13 DEF IInv

LEMMA EventReadKeeps ==
  ASSUME IInv, NEW r \in Req, NEW e \in Event, EventRead(r, e)
  PROVE  IInv'
  <1> DEFINE o == EventOrder[e]
             x == [Idle EXCEPT !.op = "event", !.order = o, !.event = e]
  <1>1. TypeOK /\ SlotsAreSound
    BY DEF IInv
  <1>2. o \in Order /\ EventStatus[e] \in {"processing", "delivered"}
    BY OrdersAssumption
  <1>3. status[o] # "absent" /\ req[r].op = "idle"
    BY DEF EventRead, CanTransition, Transitions
  <1>4. Len(Items[o]) \in Nat
    BY <1>2, ItemNumbers
  <1>5. x \in ReqRecord /\ x.op = "event" /\ x.order = o /\ x.last = 0 /\ x.event = e
    BY <1>2, IdleIsRecord DEF ReqRecord, Op, Idle
  <1>6. /\ req' = [req EXCEPT ![r] = x]
        /\ UNCHANGED <<stock, granted, handled, late, holds, status, rowLock, call, published,
                       processed, used, troubled, cancelling, shorted>>
    BY DEF EventRead, net, rows, history
  <1> HIDE DEF x
  <1>7. Follows(r, x, "none")
    BY <1>2, <1>3, <1>4, <1>5 DEF Follows, Pending, Granted, Saga
  <1>8. SlotMoves(r, x, "none")
    BY <1>1, <1>3, <1>6, NoCall DEF SlotMoves, Leaves, TypeOK
  <1> QED
    BY <1>5, <1>7, <1>8, SlotStep DEF Answer

LEMMA EventFlushKeeps ==
  ASSUME IInv, NEW r \in Req, EventFlush(r)
  PROVE  IInv'
  <1> DEFINE x == [req[r] EXCEPT !.op = "moved"]
  <1>1. TypeOK /\ SlotsAreSound /\ OneSagaPerOrder
    BY DEF IInv
  <1>2. req[r].op = "event"
    BY DEF EventFlush
  <1>3. req[r] \in ReqRecord /\ call[r] = "none"
    BY <1>1, <1>2, SlotFields, NoCall
  <1>4. /\ x \in ReqRecord /\ x.op = "moved" /\ x.order = req[r].order
        /\ x.last = req[r].last /\ x.event = req[r].event
    BY <1>3 DEF ReqRecord, Op
  <1>5. rowLock' \in [Order -> Req \cup {NoReq}]
    BY <1>1, LockKeepsType DEF EventFlush
  <1>6. /\ req' = [req EXCEPT ![r] = x]
        /\ UNCHANGED <<stock, granted, handled, late, holds, status, call, published,
                       processed, used, troubled, cancelling, shorted>>
    BY DEF EventFlush, net, history
  <1> HIDE DEF x
  <1>7. Follows(r, x, "none")
    BY <1>1, <1>2, <1>4 DEF Follows, Pending, Granted, Saga, SlotsAreSound, OneSagaPerOrder
  <1>8. SlotMoves(r, x, "none")
    BY <1>1, <1>3, <1>5, <1>6 DEF SlotMoves, Leaves, TypeOK
  <1> QED
    BY <1>4, <1>7, <1>8, SlotStep DEF Answer

\* A commit that stores a status.
LEMMA StoreKeeps ==
  ASSUME IInv, NEW r \in Req, req[r].op \in {"created", "release", "moved"},
         NEW st \in Status \ {"absent", "pending", "shipped"}, Store(r, st),
         processed' \subseteq Event, UNCHANGED <<net, published, history>>
  PROVE  IInv'
  <1> DEFINE o == req[r].order
  <1>1. /\ TypeOK /\ SlotsAreSound /\ OneSagaPerOrder
        /\ LateCallsAreSound /\ OneReservePerItem /\ GrantedItemsAreHeld
    BY DEF IInv
  <1>2. UNCHANGED <<stock, granted, handled, late, holds, published, used, troubled, cancelling, shorted>>
    BY DEF net, history
  <1>3. o \in Order /\ o \in used
    BY <1>1, SlotFields DEF OneSagaPerOrder, Saga
  <1>4. /\ status' = [status EXCEPT ![o] = st] /\ status \in [Order -> Status \ {"pending", "shipped"}]
        /\ req' = [req EXCEPT ![r] = Idle] /\ req \in [Req -> ReqRecord]
        /\ call' = [call EXCEPT ![r] = "none"] /\ call \in [Req -> Answer]
    BY <1>1 DEF TypeOK, Store, EndRequest, Answer
  <1>5. /\ status'[o] = st /\ status' \in [Order -> Status \ {"pending", "shipped"}]
        /\ \A p \in Order \ {o} : status'[p] = status[p]
    BY <1>3, <1>4
  <1>6. /\ req'[r] = Idle /\ req' \in [Req -> ReqRecord]
        /\ \A s \in Req \ {r} : req'[s] = req[s]
        /\ call'[r] = "none" /\ call' \in [Req -> Answer]
        /\ \A s \in Req \ {r} : call'[s] = call[s]
    BY <1>4, IdleIsRecord DEF Answer
  <1>7. rowLock' \in [Order -> Req \cup {NoReq}]
    BY <1>1, UnlockKeepsType DEF Store, EndRequest
  <1>8. TypeOK'
    BY <1>1, <1>2, <1>5, <1>6, <1>7 DEF TypeOK, Answer
  <1>9. SlotsAreSound'
    BY <1>1, <1>6 DEF SlotsAreSound, Idle
  <1>10. \A s \in Req \ {r} : req[s].op \in Saga => req[s].order # o
    BY <1>1 DEF OneSagaPerOrder, Saga
  <1>11. OneSagaPerOrder'
    <2>1. \A s \in Req : s # r \/ req'[s].op = "idle"
      BY <1>6 DEF Idle
    <2>2. \A s \in Req : req'[s].op # "idle" => s # r /\ req'[s] = req[s]
      BY <2>1, <1>6
    <2>3. \A s, t \in Req :
            req'[s].op \in Saga /\ req'[t].op \in Saga /\ req'[s].order = req'[t].order => s = t
      BY <1>1, <2>2 DEF OneSagaPerOrder, Saga
    <2>4. \A s \in Req :
            /\ req'[s].op \in Saga => req'[s].order \in used /\ status'[req'[s].order] = "absent"
            /\ req'[s].op \in Saga \ {"created"} => req'[s].order \notin published
            /\ req'[s].op \in {"cancel", "release", "event", "moved"} =>
                 status'[req'[s].order] # "absent"
            /\ req'[s].op = "release" => req'[s].order \in cancelling
      <3> SUFFICES ASSUME NEW s \in Req, req'[s].op # "idle"
                   PROVE  /\ req'[s].op \in Saga =>
                               req'[s].order \in used /\ status'[req'[s].order] = "absent"
                          /\ req'[s].op \in Saga \ {"created"} => req'[s].order \notin published
                          /\ req'[s].op \in {"cancel", "release", "event", "moved"} =>
                               status'[req'[s].order] # "absent"
                          /\ req'[s].op = "release" => req'[s].order \in cancelling
        BY DEF Saga
      <3>1. s # r /\ req'[s] = req[s]
        BY <2>2
      <3>2. req[s].order \in Order
        BY <1>1, <3>1, SlotFields
      <3> QED
        BY <3>1, <3>2, <1>1, <1>5, <1>10 DEF OneSagaPerOrder
    <2>5. \A p \in Order : status'[p] # "absent" => p \in used
      BY <1>1, <1>3, <1>5 DEF OneSagaPerOrder
    <2>6. \A p \in cancelling : status'[p] # "absent"
      BY <1>1, <1>5 DEF OneSagaPerOrder, TypeOK
    <2> QED
      BY <1>2, <2>3, <2>4, <2>5, <2>6 DEF OneSagaPerOrder
  <1>12. \A p \in Order : Failed(p) => Failed(p)'
    <2>1. ~ Failed(o)
      BY <1>1 DEF Failed, OneSagaPerOrder
    <2> QED
      BY <2>1, <1>2, <1>5, <1>6 DEF Failed, Idle
  <1>13. LateCallsAreSound'
    <2>1. \A c \in late : c.order \in Order
      BY <1>1 DEF TypeOK, Call
    <2> QED
      BY <1>1, <1>2, <1>12, <2>1 DEF LateCallsAreSound
  <1>14. OneReservePerItem'
    <2>1. \A p, i : \A s \in Req :
            Pending(req'[s], call'[s], p, i) => Pending(req[s], call[s], p, i)
      BY <1>6 DEF Pending, Idle
    <2>2. \A p, i : PendingLate(p, i)' = PendingLate(p, i)
      BY <1>2 DEF PendingLate
    <2> QED
      BY <1>1, <1>2, <2>1, <2>2 DEF OneReservePerItem
  <1>15. GrantedItemsAreHeld'
    <2>1. \A p, i : \A s \in Req :
            Granted(req'[s], call'[s], p, i) => Granted(req[s], call[s], p, i)
      BY <1>6 DEF Granted, Idle
    <2> SUFFICES ASSUME NEW p \in Order \ cancelling, NEW i \in DOMAIN Items[p]
                 PROVE  /\ p \in published \/ status'[p] # "absent" => holds[p][i] >= 1
                        /\ \A s \in Req : Granted(req'[s], call'[s], p, i) => holds[p][i] >= 1
      BY <1>2 DEF GrantedItemsAreHeld
    <2>2. CASE p = o
      <3>1. status[o] # "absent" \/ Granted(req[r], call[r], o, i)
        BY <1>1, <2>2 DEF Granted, OneSagaPerOrder
      <3>2. holds[p][i] >= 1
        BY <3>1, <2>2, <1>1 DEF GrantedItemsAreHeld
      <3> QED
        BY <3>2
    <2>3. CASE p # o
      BY <2>1, <2>3, <1>1, <1>5 DEF GrantedItemsAreHeld
    <2> QED
      BY <2>2, <2>3
  <1> QED
    BY <1>8, <1>9, <1>11, <1>13, <1>14, <1>15 DEF IInv

------------------------------------------------------------------------------
(* The specification *)

LEMMA InitKeeps == Init => IInv
  <1> SUFFICES ASSUME Init
               PROVE  IInv
    OBVIOUS
  <1>1. \A r \in Req : req[r] = Idle /\ call[r] = "none"
    BY DEF Init
  <1>2. stock \in [Product -> [state : {"live", "deleted"}, available : Nat, reserved : Nat]]
    BY OrdersAssumption DEF Init, Pool!Live
  <1>3. \A o \in Order : \A i \in DOMAIN Items[o] : holds[o][i] = 0
    BY DEF Init, Held
  <1>4. TypeOK
    <2>1. \A o \in Order : \A i \in DOMAIN Items[o] : holds[o][i] \in Int
      BY <1>3
    <2>2. holds = [o \in Order |-> [i \in DOMAIN Items[o] |-> holds[o][i]]]
      BY DEF Init, Held
    <2>3. req \in [Req -> ReqRecord]
      BY IdleIsRecord DEF Init
    <2>4. /\ granted \in [Product -> Int] /\ handled \subseteq Order
          /\ status \in [Order -> Status \ {"pending", "shipped"}]
          /\ rowLock \in [Order -> Req \cup {NoReq}]
          /\ call \in [Req -> {"none", "sent", "ok", "refused", "failed"}]
          /\ published \subseteq used /\ used \subseteq Order /\ processed \subseteq Event
          /\ troubled \subseteq Order /\ cancelling \subseteq Order /\ late \subseteq Call
          /\ shorted \subseteq Product
      BY DEF Init, Status
    <2> QED
      BY <1>2, <2>1, <2>2, <2>3, <2>4, Zenon DEF TypeOK
  <1>5. SlotsAreSound
    BY <1>1 DEF SlotsAreSound, Idle
  <1>6. OneSagaPerOrder
    BY <1>1 DEF Init, OneSagaPerOrder, Idle, Saga
  <1>7. LateCallsAreSound
    BY DEF Init, LateCallsAreSound
  <1>8. OneReservePerItem
    <2>1. \A o, i : \A r \in Req : ~ Pending(req[r], call[r], o, i)
      BY <1>1 DEF Pending, Idle
    <2>2. \A o, i : ~ PendingLate(o, i)
      BY DEF Init, PendingLate
    <2> QED
      BY <1>3, <2>1, <2>2 DEF OneReservePerItem
  <1>9. GrantedItemsAreHeld
    BY <1>1 DEF Init, GrantedItemsAreHeld, Granted, Idle
  <1> QED
    BY <1>4, <1>5, <1>6, <1>7, <1>8, <1>9 DEF IInv

LEMMA CommitsKeep ==
  ASSUME IInv, NEW r \in Req, CreateCommit(r) \/ CancelCommit(r) \/ EventCommit(r)
  PROVE  IInv'
  <1>1. TypeOK /\ SlotsAreSound
    BY DEF IInv
  <1>2. CASE CreateCommit(r)
    <2>1. "confirmed" \in Status \ {"absent", "pending", "shipped"}
      BY DEF Status
    <2>2. /\ req[r].op = "created" /\ Store(r, "confirmed")
          /\ UNCHANGED <<net, published, history>> /\ processed' = processed
      BY <1>2 DEF CreateCommit
    <2>3. processed' \subseteq Event
      BY <1>1, <2>2 DEF TypeOK
    <2> QED
      BY <2>1, <2>2, <2>3, StoreKeeps
  <1>3. CASE CancelCommit(r)
    <2>1. "cancelled" \in Status \ {"absent", "pending", "shipped"}
      BY DEF Status
    <2>2. /\ req[r].op = "release" /\ Store(r, "cancelled")
          /\ UNCHANGED <<net, published, history>> /\ processed' = processed
      BY <1>3 DEF CancelCommit
    <2>3. processed' \subseteq Event
      BY <1>1, <2>2 DEF TypeOK
    <2> QED
      BY <2>1, <2>2, <2>3, StoreKeeps
  <1>4. CASE EventCommit(r)
    <2>1. req[r].op = "moved" /\ req[r].event \in Event
      BY <1>1, <1>4 DEF EventCommit, SlotsAreSound
    <2>2. EventStatus[req[r].event] \in Status \ {"absent", "pending", "shipped"}
      BY <2>1, OrdersAssumption DEF Status
    <2>3. processed' \subseteq Event
      BY <1>1, <1>4, <2>1 DEF EventCommit, TypeOK
    <2> QED
      BY <1>4, <2>1, <2>2, <2>3, StoreKeeps DEF EventCommit
  <1> QED
    BY <1>2, <1>3, <1>4

\* A request that ends without a commit.
LEMMA EndsKeep ==
  ASSUME IInv, NEW r \in Req,
         \/ ValidateFails(r) \/ CreateRaises(r) \/ EventDuplicate(r)
         \/ LockWaitFails(r) \/ Crash(r)
  PROVE  IInv'
  <1>1. TypeOK /\ SlotsAreSound
    BY DEF IInv
  <1>2. CASE ValidateFails(r) \/ CreateRaises(r) \/ EventDuplicate(r) \/ LockWaitFails(r)
    <2>1. /\ Rollback(r) /\ UNCHANGED <<poolVars, holds, used, cancelling, shorted>>
          /\ late' = late /\ troubled' = troubled
      BY <1>2 DEF ValidateFails, CreateRaises, EventDuplicate, LockWaitFails, net, history, poolVars
    <2> QED
      BY <1>1, <2>1, RollbackKeeps DEF Abandon, TypeOK
  <1>3. CASE Crash(r)
    <2>1. req[r].order \in Order
      BY <1>1, <1>3, SlotFields DEF Crash
    <2> QED
      BY <1>1, <1>3, <2>1, RollbackKeeps DEF Crash, TypeOK
  <1> QED
    BY <1>2, <1>3

\* A PUT or DELETE of a product touches neither slots nor rows of this service,
\* and reserves nothing.
StockIsKept ==
  /\ UNCHANGED <<granted, handled, late, holds, status, rowLock, req, call, published,
                 processed, used, troubled, cancelling>>
  /\ stock' \in [Product -> [state : {"live", "deleted"}, available : Nat, reserved : Nat]]
  /\ shorted' \subseteq Product
  /\ \A p \in Product :
       /\ stock'[p].reserved = stock[p].reserved
       /\ stock'[p].state = "live" => stock[p].state = "live"
       /\ p \notin shorted' =>
            \/ stock'[p].available = stock[p].available /\ p \notin shorted
            \/ stock[p].reserved <= stock'[p].available

LEMMA StockKeeping ==
  ASSUME TypeOK, KeepStock
  PROVE  StockIsKept
  <1>1. /\ stock \in [Product -> [state : {"live", "deleted"}, available : Nat, reserved : Nat]]
        /\ shorted \subseteq Product
    BY DEF TypeOK
  <1>2. CASE \E p \in Product : \E a \in Quantity[p] : SetQuantity(p, a)
    <2>0. PICK p \in Product : \E a \in Quantity[p] : SetQuantity(p, a)
      BY <1>2
    <2>1. PICK a \in Quantity[p] : SetQuantity(p, a)
      BY <2>0
    <2>2. a \in Nat
      BY OrdersAssumption
    <2>3. /\ UNCHANGED <<granted, handled, late, holds, status, rowLock, req, call, published,
                         processed, used, troubled, cancelling>>
          /\ stock' = [stock EXCEPT ![p].available = a]
          /\ shorted' = IF a < stock[p].reserved THEN shorted \cup {p} ELSE shorted \ {p}
      BY <2>1 DEF SetQuantity, Pool!Recount, rows
    <2>4. /\ stock'[p] = [stock[p] EXCEPT !.available = a]
          /\ \A q \in Product \ {p} : stock'[q] = stock[q]
          /\ stock' \in [Product -> [state : {"live", "deleted"}, available : Nat, reserved : Nat]]
      BY <1>1, <2>2, <2>3
    <2>5. p \notin shorted' => stock[p].reserved <= a
      BY <1>1, <2>2, <2>3
    <2> QED
      BY <1>1, <2>3, <2>4, <2>5 DEF StockIsKept
  <1>3. CASE \E p \in Deletable : DeleteProduct(p)
    <2>1. PICK p \in Deletable : DeleteProduct(p)
      BY <1>3
    <2>2. p \in Product
      BY OrdersAssumption
    <2>3. /\ UNCHANGED <<granted, handled, late, holds, status, rowLock, req, call, published,
                         processed, used, troubled, cancelling, shorted>>
          /\ stock' = [stock EXCEPT ![p].state = "deleted"]
      BY <2>1 DEF DeleteProduct, Pool!Drop, rows, history
    <2>4. /\ stock'[p] = [stock[p] EXCEPT !.state = "deleted"]
          /\ \A q \in Product \ {p} : stock'[q] = stock[q]
          /\ stock' \in [Product -> [state : {"live", "deleted"}, available : Nat, reserved : Nat]]
      BY <1>1, <2>2, <2>3
    <2> QED
      BY <1>1, <2>3, <2>4 DEF StockIsKept
  <1> QED
    BY <1>2, <1>3 DEF KeepStock

LEMMA KeepStockKeeps ==
  ASSUME IInv, KeepStock
  PROVE  IInv'
  <1>1. TypeOK
    BY DEF IInv
  <1>2. StockIsKept
    BY <1>1, StockKeeping
  <1>3. TypeOK'
    BY <1>1, <1>2 DEF TypeOK, StockIsKept
  <1>4. SlotsAreSound' /\ OneSagaPerOrder'
    BY <1>2 DEF IInv, SlotsAreSound, OneSagaPerOrder, StockIsKept
  <1>5. LateCallsAreSound'
    BY <1>2 DEF IInv, LateCallsAreSound, Failed, StockIsKept
  <1>6. OneReservePerItem'
    BY <1>2 DEF IInv, OneReservePerItem, Pending, PendingLate, StockIsKept
  <1>7. GrantedItemsAreHeld'
    BY <1>2 DEF IInv, GrantedItemsAreHeld, Granted, StockIsKept
  <1> QED
    BY <1>3, <1>4, <1>5, <1>6, <1>7 DEF IInv

LEMMA StutterKeeps ==
  ASSUME IInv, UNCHANGED vars
  PROVE  IInv'
  <1>1. UNCHANGED <<stock, granted, handled, status, rowLock, req, call, late, published,
                    processed, used, holds, troubled, cancelling, shorted>>
    BY DEF vars
  <1>2. TypeOK'
    BY <1>1 DEF IInv, TypeOK
  <1>3. SlotsAreSound' /\ OneSagaPerOrder'
    BY <1>1 DEF IInv, SlotsAreSound, OneSagaPerOrder
  <1>4. LateCallsAreSound'
    BY <1>1 DEF IInv, LateCallsAreSound, Failed
  <1>5. OneReservePerItem'
    BY <1>1 DEF IInv, OneReservePerItem, Pending, PendingLate
  <1>6. GrantedItemsAreHeld'
    BY <1>1 DEF IInv, GrantedItemsAreHeld, Granted
  <1> QED
    BY <1>2, <1>3, <1>4, <1>5, <1>6 DEF IInv

LEMMA NextKeeps == IInv /\ [Next]_vars => IInv'
  <1> SUFFICES ASSUME IInv, [Next]_vars
               PROVE  IInv'
    OBVIOUS
  <1>1. CASE UNCHANGED vars
    BY <1>1, StutterKeeps
  <1>2. CASE \E c \in late : ServeLate(c)
    BY <1>2, ServeLateKeeps
  <1>3. CASE \E r \in Req : Begin(r)
    BY <1>3, StartCreateKeeps, CancelReadKeeps, EventReadKeeps DEF Begin
  <1>4. CASE \E r \in Req : Serve(r)
    BY <1>4, ServeKeeps
  <1>5. CASE \E r \in Req : Crash(r)
    BY <1>5, EndsKeep
  <1>6. CASE \E r \in Req : Advance(r)
    <2> PICK r \in Req : Advance(r)
      BY <1>6
    <2>1. CASE Send(r) \/ NoAnswer(r)
      BY <2>1, SendKeeps, NoAnswerKeeps
    <2>2. CASE \/ ValidateItem(r) \/ Reserved(r) \/ ReserveRaises(r) \/ Released(r)
               \/ ConfirmAndPublish(r)
      BY <2>2, ValidateItemKeeps, ReservedKeeps, ReserveRaisesKeeps, ReleasedKeeps,
         ConfirmAndPublishKeeps
    <2>3. CASE ValidateFails(r) \/ CreateRaises(r) \/ EventDuplicate(r) \/ LockWaitFails(r)
      BY <2>3, EndsKeep
    <2>4. CASE CreateCommit(r) \/ CancelCommit(r) \/ EventCommit(r)
      BY <2>4, CommitsKeep
    <2>5. CASE CancelFlush(r) \/ EventFlush(r)
      BY <2>5, CancelFlushKeeps, EventFlushKeeps
    <2> QED
      BY <2>1, <2>2, <2>3, <2>4, <2>5 DEF Advance
  <1>7. CASE KeepStock
    BY <1>7, KeepStockKeeps
  <1> QED
    BY <1>1, <1>2, <1>3, <1>4, <1>5, <1>6, <1>7 DEF Next

\* The invariant of the Order service: one saga per posted order, one reserve
\* per item, and an order that is not cancelled holds what it was granted.
THEOREM Invariance == Spec => []IInv
  BY InitKeeps, NextKeeps, PTL DEF Spec

\* Every variable keeps its type, whatever the slots, calls and events do.
THEOREM TypeCorrect == Spec => []TypeOK
  <1>1. IInv => TypeOK
    BY DEF IInv
  <1> QED
    BY <1>1, Invariance, PTL

\* order.created and the row promise stock that is there, for any number of
\* orders, slots and calls that time out, arrive late or fail.
THEOREM PublishedOrdersHold == Spec => []PublishedOrdersHoldTheirItems
  <1>1. IInv => PublishedOrdersHoldTheirItems
    <2> SUFFICES ASSUME IInv, NEW o \in Order, o \in published \/ status[o] # "absent",
                        o \notin cancelling, NEW i \in DOMAIN Items[o]
                 PROVE  holds[o][i] = 1
      BY DEF PublishedOrdersHoldTheirItems, HoldsAll
    <2>1. holds[o][i] \in Int
      BY DEF IInv, TypeOK
    <2>2. holds[o][i] >= 1
      BY DEF IInv, GrantedItemsAreHeld
    <2>3. holds[o][i] <= 1
      BY DEF IInv, OneReservePerItem
    <2> QED
      BY <2>1, <2>2, <2>3
  <1> QED
    BY <1>1, Invariance, PTL

\* The saga reserves an item once, although the route is not idempotent.
THEOREM ReservedOnce == Spec => []ReservesOncePerItem
  <1>1. IInv => ReservesOncePerItem
    BY DEF IInv, OneReservePerItem, ReservesOncePerItem
  <1> QED
    BY <1>1, Invariance, PTL

\* A step that moves an order is the commit that records its event.
LEMMA EventMovesStep ==
  ASSUME IInv, [Next]_vars, NEW o \in Order, status'[o] # status[o],
         status'[o] \in {"processing", "delivered"}
  PROVE  \E e \in processed' \ processed : EventOrder[e] = o /\ EventStatus[e] = status'[o]
  <1>1. PICK r \in Req : CreateCommit(r) \/ CancelCommit(r) \/ EventCommit(r)
    <2>1. Next
      BY DEF vars
    <2>2. \A r \in Req : ~ Begin(r) /\ ~ Serve(r) /\ ~ Crash(r)
      BY DEF Begin, StartCreate, CancelRead, EventRead, Serve, Crash, Rollback, rows
    <2>3. ~ \E c \in late : ServeLate(c)
      BY DEF ServeLate, rows
    <2>4. ~ KeepStock
      BY StockKeeping DEF StockIsKept, IInv
    <2>5. PICK r \in Req : Advance(r)
      BY <2>1, <2>2, <2>3, <2>4 DEF Next
    <2> QED
      BY <2>5 DEF Advance, Send, NoAnswer, ValidateItem, ValidateFails, Reserved, ReserveRaises,
           Released, CreateRaises, ConfirmAndPublish, CancelFlush, EventFlush, EventDuplicate,
           LockWaitFails, Rollback, rows
  <1>2. \A s : Store(r, s) => s = status'[o] /\ req[r].order = o
    BY DEF Store, IInv, TypeOK
  <1>3. EventCommit(r)
    BY <1>1, <1>2 DEF CreateCommit, CancelCommit
  <1>4. req[r].event \in processed' \ processed /\ EventStatus[req[r].event] = status'[o]
    BY <1>2, <1>3 DEF EventCommit
  <1>5. EventOrder[req[r].event] = o
    BY <1>2, <1>3 DEF EventCommit, IInv, SlotsAreSound
  <1> QED
    BY <1>4, <1>5

\* Only the commit that records an event moves its order.
THEOREM EventsMoveOnce == Spec => EventMovesOrderOnce
  <1> DEFINE Moved ==
        \A o \in Order :
          status'[o] # status[o] /\ status'[o] \in {"processing", "delivered"}
            => \E e \in processed' \ processed :
                 EventOrder[e] = o /\ EventStatus[e] = status'[o]
  <1>1. IInv /\ [Next]_vars => [Moved]_vars
    BY EventMovesStep
  <1> HIDE DEF Moved
  <1>2. Spec => [][Moved]_vars
    BY <1>1, Invariance, PTL DEF Spec
  <1> QED
    BY <1>2 DEF Moved, EventMovesOrderOnce

------------------------------------------------------------------------------
(* Orders that met no trouble *)

\* Item i of o is held or owed on account of a slot that does x.
Accounts(x, a, o, i) == Granted(x, a, o, i) \/ Owes(x, a, o, i)

\* A step in which slot r turns to x, with a call in state a, and the pool rests:
\* what the slot accounts for stays the same.
SlotTurns(r, x, a) ==
  /\ req'[r] = x /\ call'[r] = a
  /\ \A s \in Req \ {r} : req'[s] = req[s] /\ call'[s] = call[s]
  /\ UNCHANGED <<stock, holds>> /\ troubled \subseteq troubled'
  /\ a = "failed" => x.order \in troubled'
  /\ \/ late' = late
     \/ /\ late' = late \cup {CallOf(r)} /\ call[r] = "sent" /\ req[r].order \in troubled'
        /\ x.op = "idle" \/ (x = req[r] /\ a = "failed")
  /\ \A c \in late : c.kind = "reserve" /\ x.op \in Saga /\ x.order = c.order =>
       \/ x.op = "reserve" /\ x.pos = c.item /\ a = "failed"
       \/ x.op = "undo" /\ x.last < c.item
  /\ \A o \in Order :
       /\ status'[o] = "absent" => status[o] = "absent"
       /\ status[o] = "absent" /\ status'[o] # "absent" => req[r].op = "created" /\ req[r].order = o
  /\ \A o \in Order \ troubled' : \A i \in DOMAIN Items[o] :
       NoneNegative /\ status'[o] = "absent" /\ Pool!IsLive(Items[o][i]) =>
         (Accounts(x, a, o, i) <=> Accounts(req[r], call[r], o, i))
  /\ \A o \in cancelling' \ troubled' : status'[o] = "confirmed" =>
       \/ x.op = "release" /\ x.order = o
       \/ /\ o \in cancelling /\ status[o] = "confirmed"
          /\ ~ (req[r].op = "release" /\ req[r].order = o)

LEMMA SlotTurnKeeps ==
  ASSUME AIInv, IInv', NEW r \in Req, NEW x, NEW a, SlotTurns(r, x, a)
  PROVE  AIInv'
  <1>1. /\ req'[r] = x /\ call'[r] = a
        /\ \A s \in Req \ {r} : req'[s] = req[s] /\ call'[s] = call[s]
    BY DEF SlotTurns
  <1>2. /\ TypeOK /\ SlotsAreSound /\ OneSagaPerOrder /\ LateCallsAreSound /\ OneReservePerItem
        /\ LateReservesAreLast /\ UntroubledSagasAddUp /\ CancellationsGoOn
        /\ \A c \in late : c.order \in Order /\ c.item \in Nat
    BY DEF AIInv, IInv, TypeOK, Call, ItemNo
  <1>3. call[r] = "sent" =>
          /\ CallOf(r).order = req[r].order /\ CallOf(r).item = req[r].pos
          /\ req[r].order \in Order /\ req[r].pos \in DOMAIN Items[req[r].order]
          /\ req[r].op \in {"reserve", "undo", "release"} /\ req[r].pos <= req[r].last
          /\ CallOf(r).kind = "reserve" <=> req[r].op = "reserve"
          /\ CallOf(r).kind = "release" <=> req[r].op \in {"undo", "release"}
    BY <1>2, CallIsSound DEF SlotsAreSound
  <1>4. UNCHANGED <<stock, holds>> /\ (NoneNegative' <=> NoneNegative)
    BY DEF SlotTurns, NoneNegative
  <1>5. HeldItemsAreReserved'
    BY <1>4 DEF AIInv, HeldItemsAreReserved, HeldItems
  <1>6. CancellationsGoOn'
    <2> SUFFICES ASSUME NEW o \in cancelling' \ troubled', status'[o] = "confirmed"
                 PROVE  \E s \in Req : req'[s].op = "release" /\ req'[s].order = o
      BY DEF CancellationsGoOn
    <2>1. CASE x.op = "release" /\ x.order = o
      BY <1>1, <2>1
    <2>2. CASE o \in cancelling /\ status[o] = "confirmed"
               /\ ~ (req[r].op = "release" /\ req[r].order = o)
      BY <1>1, <1>2, <2>2 DEF CancellationsGoOn, SlotTurns
    <2> QED
      BY <2>1, <2>2 DEF SlotTurns
  <1>7. UntroubledSagasAddUp'
    <2> SUFFICES ASSUME NEW o \in Order \ troubled'
                 PROVE  /\ \A c \in late' : c.order # o
                        /\ \A s \in Req : req'[s].order = o => call'[s] # "failed"
                        /\ NoneNegative /\ status'[o] = "absent" =>
                             \A i \in DOMAIN Items[o] : Pool!IsLive(Items[o][i]) =>
                               holds[o][i] = IF \E s \in Req : Accounts(req'[s], call'[s], o, i)
                                             THEN 1 ELSE 0
      BY <1>4 DEF UntroubledSagasAddUp, Accounts, Granted, Owes, Pool!IsLive
    <2>1. /\ o \notin troubled /\ \A c \in late : c.order # o
          /\ \A s \in Req : req[s].order = o => call[s] # "failed"
      BY <1>2 DEF UntroubledSagasAddUp, SlotTurns
    <2>2. \A c \in late' : c.order # o
      BY <1>3, <2>1 DEF SlotTurns
    <2>3. \A s \in Req : req'[s].order = o => call'[s] # "failed"
      BY <1>1, <2>1 DEF SlotTurns
    <2>4. ASSUME NoneNegative, status'[o] = "absent", NEW i \in DOMAIN Items[o],
                 Pool!IsLive(Items[o][i])
          PROVE  holds[o][i] = IF \E s \in Req : Accounts(req'[s], call'[s], o, i) THEN 1 ELSE 0
      <3>1. status[o] = "absent" /\ (Accounts(x, a, o, i) <=> Accounts(req[r], call[r], o, i))
        BY <2>4 DEF SlotTurns
      <3>2. holds[o][i] = IF \E s \in Req : Accounts(req[s], call[s], o, i) THEN 1 ELSE 0
        BY <1>2, <2>1, <2>4, <3>1 DEF UntroubledSagasAddUp, Accounts
      <3>3. (\E s \in Req : Accounts(req'[s], call'[s], o, i))
              <=> \E s \in Req : Accounts(req[s], call[s], o, i)
        BY <1>1, <3>1
      <3> QED
        BY <3>2, <3>3
    <2> QED
      BY <2>2, <2>3, <2>4
  <1>8. LateReservesAreLast'
    <2> SUFFICES ASSUME NEW c \in late', c.kind = "reserve"
                 PROVE  /\ status'[c.order] = "absent" /\ holds[c.order][c.item] = 0
                        /\ \A d \in late' : d.kind = "release" /\ d.order = c.order => d.item # c.item
                        /\ \A s \in Req : req'[s].op \in Saga /\ req'[s].order = c.order =>
                             \/ req'[s].op = "reserve" /\ req'[s].pos = c.item /\ call'[s] = "failed"
                             \/ req'[s].op = "undo" /\ req'[s].last < c.item
      BY <1>4 DEF LateReservesAreLast
    <2>1. CASE c \in late
      <3>1. /\ status[c.order] = "absent" /\ holds[c.order][c.item] = 0
            /\ \A d \in late : d.kind = "release" /\ d.order = c.order => d.item # c.item
            /\ \A s \in Req : req[s].op \in Saga /\ req[s].order = c.order =>
                 \/ req[s].op = "reserve" /\ req[s].pos = c.item /\ call[s] = "failed"
                 \/ req[s].op = "undo" /\ req[s].last < c.item
        BY <1>2, <2>1 DEF LateReservesAreLast
      <3>2. status'[c.order] = "absent"
        BY <1>2, <2>1, <3>1 DEF SlotTurns, Saga
      <3>3. ASSUME NEW d \in late', d.kind = "release", d.order = c.order PROVE d.item # c.item
        <4>1. CASE d \in late
          BY <3>1, <3>3, <4>1
        <4>2. CASE d \notin late
          <5>1. d = CallOf(r) /\ call[r] = "sent"
            BY <4>2 DEF SlotTurns
          <5>2. req[r].op = "undo" /\ req[r].order = c.order
            BY <1>2, <1>3, <3>1, <3>3, <5>1 DEF OneSagaPerOrder
          <5>3. req[r].last < c.item /\ req[r].pos <= req[r].last /\ d.item = req[r].pos
            BY <1>3, <3>1, <5>1, <5>2 DEF Saga
          <5>4. req[r].last \in Nat /\ req[r].pos \in Nat /\ c.item \in Nat
            BY <1>2, <2>1, SlotFields DEF ItemNo
          <5> QED
            BY <5>3, <5>4
        <4> QED
          BY <4>1, <4>2
      <3>4. \A s \in Req : req'[s].op \in Saga /\ req'[s].order = c.order =>
              \/ req'[s].op = "reserve" /\ req'[s].pos = c.item /\ call'[s] = "failed"
              \/ req'[s].op = "undo" /\ req'[s].last < c.item
        BY <1>1, <2>1, <3>1 DEF SlotTurns
      <3> QED
        BY <3>1, <3>2, <3>3, <3>4
    <2>2. CASE c \notin late
      <3>1. /\ c = CallOf(r) /\ call[r] = "sent" /\ late' = late \cup {CallOf(r)}
            /\ x.op = "idle" \/ (x = req[r] /\ a = "failed")
        BY <2>2 DEF SlotTurns
      <3>2. req[r].op = "reserve" /\ req[r].order = c.order /\ c.item = req[r].pos /\ c.order \in Order
        BY <1>3, <3>1
      <3>3. /\ status[c.order] = "absent" /\ c.order \notin cancelling
            /\ \A s \in Req \ {r} : ~ (req[s].op \in Saga /\ req[s].order = c.order)
        BY <1>2, <3>2 DEF OneSagaPerOrder, Saga
      <3>4. status'[c.order] = "absent"
        BY <3>2, <3>3 DEF SlotTurns
      <3>5. holds[c.order][c.item] = 0
        <4>1. Pending(req[r], call[r], c.order, c.item)
          BY <3>1, <3>2 DEF Pending
        <4> QED
          BY <1>2, <1>3, <3>1, <3>2, <4>1 DEF OneReservePerItem
      <3>6. \A d \in late' : d.kind = "release" => d.order # c.order
        BY <1>2, <3>1, <3>2, <3>3 DEF LateCallsAreSound, Failed
      <3>7. \A s \in Req : req'[s].op \in Saga /\ req'[s].order = c.order =>
              req'[s].op = "reserve" /\ req'[s].pos = c.item /\ call'[s] = "failed"
        BY <1>1, <3>1, <3>2, <3>3 DEF Saga
      <3> QED
        BY <3>4, <3>5, <3>6, <3>7
    <2> QED
      BY <2>1, <2>2
  <1> QED
    BY <1>5, <1>6, <1>7, <1>8 DEF AIInv

\* Who is among the held items.
LEMMA HeldItemsElements ==
  ASSUME NEW p
  PROVE  /\ \A o \in Order : \A i \in DOMAIN Items[o] :
              <<o, i>> \in HeldItems(p) <=> Items[o][i] = p /\ holds[o][i] = 1
         /\ \A x \in HeldItems(p) : \E o \in Order : \E i \in DOMAIN Items[o] : x = <<o, i>>
  BY DEF HeldItems

\* A held item has a unit in the pool, which a release of it can take.
LEMMA HeldItemHasItsUnit ==
  ASSUME AIInv, NoneNegative, NEW o \in Order, NEW i \in DOMAIN Items[o], holds[o][i] = 1
  PROVE  stock[Items[o][i]].reserved >= 1
  <1> DEFINE p == Items[o][i]
  <1>1. p \in Product /\ stock[p].reserved \in Nat
    <2>1. p \in Product
      BY ItemNumbers, OrdersAssumption
    <2> QED
      BY <2>1 DEF AIInv, IInv, TypeOK
  <1>2. <<o, i>> \in HeldItems(p)
    BY HeldItemsElements
  <1>3. IsFiniteSet(HeldItems(p)) /\ Cardinality(HeldItems(p)) <= stock[p].reserved
    BY <1>1 DEF AIInv, HeldItemsAreReserved
  <1>4. Cardinality(HeldItems(p)) \in Nat /\ Cardinality(HeldItems(p)) # 0
    BY <1>2, <1>3, FS_EmptySet, FS_CardinalityType
  <1> QED
    BY <1>1, <1>3, <1>4

\* Sets of items that differ in one item.
LEMMA SetsOfItems ==
  ASSUME NEW S, NEW T, NEW oc \in Order, NEW ic \in DOMAIN Items[oc],
         \A x \in S : \E o \in Order : \E i \in DOMAIN Items[o] : x = <<o, i>>,
         \A x \in T : \E o \in Order : \E i \in DOMAIN Items[o] : x = <<o, i>>,
         \A o \in Order : \A i \in DOMAIN Items[o] :
           ~ (o = oc /\ i = ic) => (<<o, i>> \in S <=> <<o, i>> \in T),
         <<oc, ic>> \in T
  PROVE  /\ IsFiniteSet(S) => IsFiniteSet(T) /\ Cardinality(T) <= Cardinality(S) + 1
         /\ <<oc, ic>> \notin S /\ IsFiniteSet(T) =>
              IsFiniteSet(S) /\ Cardinality(S) = Cardinality(T) - 1
  <1>1. \A o, i : <<o, i>> = <<oc, ic>> <=> o = oc /\ i = ic
    OBVIOUS
  <1>2. \A x \in S : x # <<oc, ic>> => x \in T
    <2> SUFFICES ASSUME NEW x \in S, x # <<oc, ic>> PROVE x \in T
      OBVIOUS
    <2>1. PICK o \in Order : \E i \in DOMAIN Items[o] : x = <<o, i>>
      OBVIOUS
    <2>2. PICK i \in DOMAIN Items[o] : x = <<o, i>>
      BY <2>1
    <2> QED
      BY <1>1, <2>1, <2>2
  <1>3. \A x \in T : x # <<oc, ic>> => x \in S
    <2> SUFFICES ASSUME NEW x \in T, x # <<oc, ic>> PROVE x \in S
      OBVIOUS
    <2>1. PICK o \in Order : \E i \in DOMAIN Items[o] : x = <<o, i>>
      OBVIOUS
    <2>2. PICK i \in DOMAIN Items[o] : x = <<o, i>>
      BY <2>1
    <2> QED
      BY <1>1, <2>1, <2>2
  <1> DEFINE e == <<oc, ic>>
  <1> HIDE DEF e
  <1>4. /\ \A x \in S : x # e => x \in T
        /\ \A x \in T : x # e => x \in S
        /\ e \in T
    BY <1>2, <1>3 DEF e
  <1>5. T = S \cup {e} /\ (e \notin S => S = T \ {e})
    BY <1>4
  <1>6. ASSUME IsFiniteSet(S) PROVE IsFiniteSet(T) /\ Cardinality(T) <= Cardinality(S) + 1
    <2>1. IsFiniteSet(S \cup {e})
          /\ Cardinality(S \cup {e}) = IF e \in S THEN Cardinality(S) ELSE Cardinality(S) + 1
      BY <1>6, FS_AddElement
    <2>2. Cardinality(S) \in Nat
      BY <1>6, FS_CardinalityType
    <2> QED
      BY <1>5, <2>1, <2>2
  <1>7. ASSUME e \notin S, IsFiniteSet(T)
        PROVE  IsFiniteSet(S) /\ Cardinality(S) = Cardinality(T) - 1
    <2>1. IsFiniteSet(T \ {e})
          /\ Cardinality(T \ {e}) = IF e \in T THEN Cardinality(T) - 1 ELSE Cardinality(T)
      BY <1>7, FS_RemoveElement
    <2> QED
      BY <1>4, <1>5, <1>7, <2>1
  <1> QED
    BY <1>6, <1>7 DEF e

\* An executed call moves one unit and one item: no count of held items exceeds
\* the pool's, and an order that has been robbed stays so.
LEMMA ExecutionKeepsCount ==
  ASSUME AIInv, NEW c \in Call, c.item \in DOMAIN Items[c.order], Executes(c),
         c.kind = "reserve" => holds[c.order][c.item] = 0
  PROVE  /\ NoneNegative' => NoneNegative
         /\ HeldItemsAreReserved'
  <1> DEFINE oc == c.order
             ic == c.item
             q == Items[oc][ic]
  <1>1. /\ TypeOK /\ OneReservePerItem /\ HeldItemsAreReserved
        /\ oc \in Order /\ c.kind \in {"reserve", "release"}
    BY DEF AIInv, IInv, Call
  <1>2. q \in Product /\ stock[q].reserved \in Nat
    <2>1. q \in Product
      BY <1>1, ItemNumbers, OrdersAssumption
    <2> QED
      BY <1>1, <2>1 DEF TypeOK
  <1>3. \A o \in Order : \A i \in DOMAIN Items[o] :
          /\ holds[o][i] \in Int /\ holds[o][i] <= 1
          /\ holds'[o][i] = IF o = oc /\ i = ic
                            THEN holds[o][i] + (IF c.kind = "reserve" THEN 1 ELSE -1)
                            ELSE holds[o][i]
    <2>1. \A o \in Order : \A i \in DOMAIN Items[o] :
            holds'[o][i] = IF o = oc /\ i = ic
                           THEN holds[o][i] + (IF c.kind = "reserve" THEN 1 ELSE -1)
                           ELSE holds[o][i]
      BY <1>1, ExecutesOne
    <2>2. \A o \in Order : \A i \in DOMAIN Items[o] : holds[o][i] \in Int /\ holds[o][i] <= 1
      BY <1>1 DEF OneReservePerItem, TypeOK
    <2> QED
      BY <2>1, <2>2
  <1>4. ASSUME NoneNegative' PROVE NoneNegative
    <2> SUFFICES ASSUME NEW o \in Order, NEW i \in DOMAIN Items[o] PROVE holds[o][i] >= 0
      BY DEF NoneNegative
    <2>1. holds'[o][i] >= 0
      BY <1>4 DEF NoneNegative
    <2>2. CASE o = oc /\ i = ic /\ c.kind = "reserve"
      BY <2>2
    <2>3. CASE o = oc /\ i = ic /\ c.kind = "release"
      <3>1. holds'[o][i] = holds[o][i] - 1 /\ holds[o][i] \in Int
        BY <1>3, <2>3
      <3> QED
        BY <2>1, <3>1
    <2>4. CASE ~ (o = oc /\ i = ic)
      <3>1. holds'[o][i] = holds[o][i]
        BY <1>3, <2>4
      <3> QED
        BY <2>1, <3>1
    <2> QED
      BY <1>1, <2>2, <2>3, <2>4
  <1>5. \A p \in Product :
          /\ stock[p].reserved \in Nat
          /\ stock'[p].reserved = stock[p].reserved +
               (IF p = q THEN IF c.kind = "reserve" THEN 1 ELSE -1 ELSE 0)
    <2>1. \A p \in Product : stock[p] \in [state : {"live", "deleted"}, available : Nat, reserved : Nat]
      BY <1>1 DEF TypeOK
    <2>2. CASE c.kind = "reserve"
      <3>1. stock' = [p \in Product |-> [stock[p] EXCEPT !.reserved = @ + (IF p = q THEN 1 ELSE 0)]]
        BY <2>2 DEF Executes, Pool!GrantOne, Pool!Grant
      <3> HIDE DEF q
      <3> QED
        BY <2>1, <2>2, <3>1
    <2>3. CASE c.kind # "reserve"
      <3>1. stock' = [stock EXCEPT ![q] = [stock[q] EXCEPT !.reserved = @ - 1]]
        BY <2>3 DEF Executes, Pool!TakeBack
      <3>2. DOMAIN stock = Product
        BY <1>1 DEF TypeOK
      <3> HIDE DEF q
      <3> QED
        BY <1>2, <2>1, <2>3, <3>1, <3>2
    <2> QED
      BY <2>2, <2>3
  <1>6. ASSUME NoneNegative', NEW p \in Product
        PROVE  /\ IsFiniteSet(HeldItems(p)')
               /\ Cardinality(HeldItems(p)') <= stock'[p].reserved
    <2>1. IsFiniteSet(HeldItems(p)) /\ Cardinality(HeldItems(p)) <= stock[p].reserved
      BY <1>1, <1>4, <1>6 DEF HeldItemsAreReserved
    <2>2. Cardinality(HeldItems(p)) \in Nat
      BY <2>1, FS_CardinalityType
    <2>3. /\ \A o \in Order : \A i \in DOMAIN Items[o] :
               <<o, i>> \in HeldItems(p)' <=> Items[o][i] = p /\ holds'[o][i] = 1
          /\ \A x \in HeldItems(p)' : \E o \in Order : \E i \in DOMAIN Items[o] : x = <<o, i>>
      BY DEF HeldItems
    <2>4. /\ \A o \in Order : \A i \in DOMAIN Items[o] :
               <<o, i>> \in HeldItems(p) <=> Items[o][i] = p /\ holds[o][i] = 1
          /\ \A x \in HeldItems(p) : \E o \in Order : \E i \in DOMAIN Items[o] : x = <<o, i>>
      BY HeldItemsElements
    <2>5. CASE p # q
      <3>1. \A o \in Order : \A i \in DOMAIN Items[o] :
              <<o, i>> \in HeldItems(p)' <=> <<o, i>> \in HeldItems(p)
        <4> SUFFICES ASSUME NEW o \in Order, NEW i \in DOMAIN Items[o]
                     PROVE  <<o, i>> \in HeldItems(p)' <=> <<o, i>> \in HeldItems(p)
          OBVIOUS
        <4>1. CASE o = oc /\ i = ic
          BY <2>3, <2>4, <2>5, <4>1
        <4>2. CASE ~ (o = oc /\ i = ic)
          <5>1. holds'[o][i] = holds[o][i]
            BY <1>3, <4>2
          <5> QED
            BY <2>3, <2>4, <5>1
        <4> QED
          BY <4>1, <4>2
      <3>2. HeldItems(p)' = HeldItems(p)
        BY <2>3, <2>4, <3>1
      <3> QED
        BY <1>5, <2>1, <2>5, <3>2
    <2>6. CASE p = q /\ c.kind = "reserve"
      <3>1. holds[oc][ic] = 0 /\ holds'[oc][ic] = 1
        BY <1>1, <1>3, <2>6
      <3>2. <<oc, ic>> \in HeldItems(p)'
        BY <1>1, <2>3, <2>6, <3>1
      <3>3. \A o \in Order : \A i \in DOMAIN Items[o] :
              ~ (o = oc /\ i = ic) => (<<o, i>> \in HeldItems(p) <=> <<o, i>> \in HeldItems(p)')
        BY <1>3, <2>3, <2>4
      <3>4. Cardinality(HeldItems(p)') <= Cardinality(HeldItems(p)) + 1 /\ IsFiniteSet(HeldItems(p)')
        <4> DEFINE S == HeldItems(p)
                   T == HeldItems(p)'
        <4>1. /\ \A x \in S : \E o \in Order : \E i \in DOMAIN Items[o] : x = <<o, i>>
              /\ \A x \in T : \E o \in Order : \E i \in DOMAIN Items[o] : x = <<o, i>>
              /\ \A o \in Order : \A i \in DOMAIN Items[o] :
                   ~ (o = oc /\ i = ic) => (<<o, i>> \in S <=> <<o, i>> \in T)
              /\ <<oc, ic>> \in T /\ IsFiniteSet(S)
              /\ oc \in Order /\ ic \in DOMAIN Items[oc]
          BY <1>1, <2>1, <2>3, <2>4, <3>2, <3>3
        <4> HIDE DEF S, T, oc, ic
        <4>2. IsFiniteSet(T) /\ Cardinality(T) <= Cardinality(S) + 1
          BY <4>1, SetsOfItems
        <4> QED
          BY <4>2 DEF S, T
      <3>5. stock'[p].reserved = stock[p].reserved + 1 /\ stock[p].reserved \in Nat
        BY <1>5, <2>6
      <3>6. Cardinality(HeldItems(p)') \in Nat
        BY <3>4, FS_CardinalityType
      <3> QED
        BY <2>1, <2>2, <3>4, <3>5, <3>6
    <2>7. CASE p = q /\ c.kind = "release"
      <3>1. holds[oc][ic] = 1 /\ holds'[oc][ic] = 0
        <4>1. holds'[oc][ic] >= 0
          BY <1>1, <1>6 DEF NoneNegative
        <4>2. holds'[oc][ic] = holds[oc][ic] - 1 /\ holds[oc][ic] \in Int /\ holds[oc][ic] <= 1
          BY <1>1, <1>3, <2>7
        <4> QED
          BY <4>1, <4>2
      <3>2. <<oc, ic>> \in HeldItems(p)
        BY <1>1, <2>4, <2>7, <3>1
      <3>3. <<oc, ic>> \notin HeldItems(p)'
        BY <1>1, <2>3, <3>1
      <3>4. \A o \in Order : \A i \in DOMAIN Items[o] :
              ~ (o = oc /\ i = ic) => (<<o, i>> \in HeldItems(p)' <=> <<o, i>> \in HeldItems(p))
        BY <1>3, <2>3, <2>4
      <3>5. Cardinality(HeldItems(p)') = Cardinality(HeldItems(p)) - 1 /\ IsFiniteSet(HeldItems(p)')
        BY <1>1, <2>1, <2>3, <2>4, <3>2, <3>3, <3>4, SetsOfItems
      <3>6. stock'[p].reserved = stock[p].reserved - 1 /\ stock[p].reserved \in Nat
        BY <1>5, <2>7
      <3> QED
        BY <2>1, <2>2, <3>5, <3>6
    <2> QED
      BY <1>1, <2>5, <2>6, <2>7
  <1>7. HeldItemsAreReserved'
    BY <1>6 DEF HeldItemsAreReserved
  <1> QED
    BY <1>4, <1>7

\* An answer of Inventory to the call of a slot.
LEMMA ServeAddsUp ==
  ASSUME AIInv, IInv', NEW r \in Req, Serve(r)
  PROVE  AIInv'
  <1> DEFINE c == CallOf(r)
             oc == req[r].order
             ic == req[r].pos
  <1>1. /\ TypeOK /\ SlotsAreSound /\ OneSagaPerOrder /\ OneReservePerItem
        /\ LateReservesAreLast /\ UntroubledSagasAddUp /\ CancellationsGoOn
        /\ call[r] = "sent"
        /\ UNCHANGED <<late, status, req, used, troubled, cancelling>>
    BY DEF AIInv, IInv, Serve, rows, history
  <1>2. /\ c \in Call /\ c.order = oc /\ c.item = ic
        /\ oc \in Order /\ ic \in DOMAIN Items[oc]
        /\ req[r].op \in {"reserve", "undo", "release"} /\ ic <= req[r].last
        /\ c.kind = "reserve" <=> req[r].op = "reserve"
        /\ c.kind = "release" <=> req[r].op \in {"undo", "release"}
    BY <1>1, CallIsSound DEF SlotsAreSound
  <1>3. /\ req[r] \in ReqRecord /\ req \in [Req -> ReqRecord] /\ call \in [Req -> Answer]
        /\ ic \in Nat /\ req[r].last \in Nat
    BY <1>1, SlotFields DEF TypeOK, Answer, ItemNo
  <1>4. ASSUME req[r].op = "undo", oc \notin troubled, NoneNegative,
               Pool!IsLive(Items[oc][ic])
        PROVE  holds[oc][ic] = 1
    <2>1. status[oc] = "absent"
      BY <1>1, <1>4 DEF OneSagaPerOrder, Saga
    <2>2. Owes(req[r], call[r], oc, ic)
      BY <1>1, <1>2, <1>4 DEF Owes
    <2> QED
      BY <1>1, <1>2, <1>4, <2>1, <2>2 DEF UntroubledSagasAddUp
  <1>5. CASE Refuses(c) /\ call' = [call EXCEPT ![r] = "refused"]
    <2>1. ASSUME NoneNegative, NEW o \in Order \ troubled, NEW i \in DOMAIN Items[o],
                 Pool!IsLive(Items[o][i])
          PROVE  Accounts(req[r], "refused", o, i) <=> Accounts(req[r], call[r], o, i)
      <3>1. ~ (req[r].op = "undo" /\ oc = o /\ ic = i)
        <4> SUFFICES ASSUME req[r].op = "undo", oc = o, ic = i PROVE FALSE
          OBVIOUS
        <4>1. stock[Items[oc][ic]].reserved >= 1
          BY <1>2, <1>4, <2>1, HeldItemHasItsUnit
        <4>2. stock[Items[oc][ic]].reserved < 1
          BY <1>2, <1>5, <2>1 DEF Refuses
        <4>3. stock[Items[oc][ic]].reserved \in Nat
          <5>1. Items[oc][ic] \in Product
            BY <1>2, ItemNumbers, OrdersAssumption
          <5> QED
            BY <1>1, <5>1 DEF TypeOK
        <4> QED
          BY <4>1, <4>2, <4>3
      <3> QED
        BY <1>1, <3>1 DEF Accounts, Granted, Owes
    <2>2. UNCHANGED <<stock, holds>>
      BY <1>5 DEF Refuses, poolVars
    <2>3. \A d \in late : d.kind = "reserve" /\ req[r].op \in Saga /\ oc = d.order =>
            req[r].op = "undo" /\ req[r].last < d.item
      BY <1>1 DEF LateReservesAreLast
    <2>4. \A o \in cancelling \ troubled : status[o] = "confirmed" =>
            \/ req[r].op = "release" /\ oc = o
            \/ ~ (req[r].op = "release" /\ oc = o)
      OBVIOUS
    <2>5. SlotTurns(r, req[r], "refused")
      BY <1>1, <1>3, <1>5, <2>1, <2>2, <2>3, <2>4 DEF SlotTurns
    <2> QED
      BY <1>3, <2>5, SlotTurnKeeps DEF Answer
  <1>6. CASE Executes(c) /\ call' = [call EXCEPT ![r] = "ok"]
    <2>1. call'[r] = "ok" /\ \A s \in Req \ {r} : call'[s] = call[s]
      BY <1>3, <1>6
    <2>2. \A o \in Order : \A i \in DOMAIN Items[o] :
            /\ holds[o][i] \in Int
            /\ holds'[o][i] = IF o = oc /\ i = ic
                              THEN holds[o][i] + (IF c.kind = "reserve" THEN 1 ELSE -1)
                              ELSE holds[o][i]
      <3>1. \A o \in Order : \A i \in DOMAIN Items[o] : holds[o][i] \in Int
        BY <1>1 DEF TypeOK
      <3> QED
        BY <1>1, <1>2, <1>6, <3>1, ExecutesOne
    <2>3. c.kind = "reserve" => holds[oc][ic] = 0
      <3>1. req[r].op = "reserve" => Pending(req[r], call[r], oc, ic)
        BY <1>1 DEF Pending
      <3> QED
        BY <1>1, <1>2, <3>1 DEF OneReservePerItem
    <2>4. (NoneNegative' => NoneNegative) /\ HeldItemsAreReserved'
      BY <1>2, <1>6, <2>3, ExecutionKeepsCount
    <2>5. \A s \in Req \ {r} : req[s].op \in Saga /\ req[r].op \in Saga => req[s].order # oc
      BY <1>1 DEF OneSagaPerOrder
    <2>6. UntroubledSagasAddUp'
      <3>0. \A o \in Order : \A i \in DOMAIN Items[o] :
              Pool!IsLive(Items[o][i])' => Pool!IsLive(Items[o][i])
        <4>1. \A q \in Product : stock'[q].state = stock[q].state
          BY <1>1, <1>2, <1>6, ExecutesOne
        <4>2. \A o \in Order : \A i \in DOMAIN Items[o] : Items[o][i] \in Product
          BY ItemNumbers, OrdersAssumption
        <4> QED
          BY <4>1, <4>2 DEF Pool!IsLive
      <3> SUFFICES ASSUME NEW o \in Order \ troubled
                   PROVE  /\ \A s \in Req : req[s].order = o => call'[s] # "failed"
                          /\ NoneNegative' /\ status[o] = "absent" =>
                               \A i \in DOMAIN Items[o] : Pool!IsLive(Items[o][i]) =>
                                 holds'[o][i] = IF \E s \in Req : Accounts(req[s], call'[s], o, i)
                                                THEN 1 ELSE 0
        BY <1>1, <3>0 DEF UntroubledSagasAddUp, Accounts, Granted, Owes
      <3>1. \A s \in Req : req[s].order = o => call'[s] # "failed"
        BY <1>1, <2>1 DEF UntroubledSagasAddUp
      <3>2. ASSUME NoneNegative', status[o] = "absent", NEW i \in DOMAIN Items[o],
                   Pool!IsLive(Items[o][i])
            PROVE  holds'[o][i] = IF \E s \in Req : Accounts(req[s], call'[s], o, i) THEN 1 ELSE 0
        <4>1. holds[o][i] = IF \E s \in Req : Accounts(req[s], call[s], o, i) THEN 1 ELSE 0
          BY <1>1, <2>4, <3>2 DEF UntroubledSagasAddUp, Accounts
        <4>2. CASE ~ (o = oc /\ i = ic)
          <5>1. Accounts(req[r], call'[r], o, i) <=> Accounts(req[r], call[r], o, i)
            BY <1>1, <2>1, <4>2 DEF Accounts, Granted, Owes
          <5>2. (\E s \in Req : Accounts(req[s], call'[s], o, i))
                  <=> \E s \in Req : Accounts(req[s], call[s], o, i)
            BY <2>1, <5>1
          <5>3. holds'[o][i] = holds[o][i]
            BY <2>2, <4>2
          <5> QED
            BY <4>1, <5>2, <5>3
        <4>3. CASE o = oc /\ i = ic /\ req[r].op = "reserve"
          <5>1. Accounts(req[r], call'[r], o, i)
            BY <2>1, <4>3 DEF Accounts, Granted
          <5>2. holds'[o][i] = 1
            BY <1>2, <2>2, <2>3, <4>3
          <5> QED
            BY <5>1, <5>2
        <4>4. CASE o = oc /\ i = ic /\ req[r].op = "undo"
          <5>1. holds[o][i] = 1
            BY <1>4, <2>4, <3>2, <4>4
          <5>2. holds'[o][i] = 0
            BY <1>2, <2>2, <4>4, <5>1
          <5>3. ~ Accounts(req[r], call'[r], o, i)
            BY <1>3, <2>1, <4>4 DEF Accounts, Granted, Owes
          <5>4. \A s \in Req \ {r} : ~ Accounts(req[s], call'[s], o, i)
            BY <2>5, <4>4 DEF Accounts, Granted, Owes, Saga
          <5> QED
            BY <5>2, <5>3, <5>4
        <4>5. ~ (o = oc /\ req[r].op = "release")
          BY <1>1, <3>2 DEF OneSagaPerOrder
        <4> QED
          BY <1>2, <4>2, <4>3, <4>4, <4>5
      <3> QED
        BY <3>1, <3>2
    <2>7. LateReservesAreLast'
      <3> SUFFICES ASSUME NEW d \in late, d.kind = "reserve"
                   PROVE  /\ holds'[d.order][d.item] = 0
                          /\ \A s \in Req : req[s].op \in Saga /\ req[s].order = d.order =>
                               \/ /\ req[s].op = "reserve" /\ req[s].pos = d.item
                                  /\ call'[s] = "failed"
                               \/ req[s].op = "undo" /\ req[s].last < d.item
        BY <1>1 DEF LateReservesAreLast
      <3>1. /\ status[d.order] = "absent" /\ holds[d.order][d.item] = 0
            /\ \A s \in Req : req[s].op \in Saga /\ req[s].order = d.order =>
                 \/ req[s].op = "reserve" /\ req[s].pos = d.item /\ call[s] = "failed"
                 \/ req[s].op = "undo" /\ req[s].last < d.item
            /\ d.order \in Order /\ d.item \in DOMAIN Items[d.order] /\ d.item \in Nat
        BY <1>1 DEF LateReservesAreLast, TypeOK, Call, ItemNo, AIInv, IInv, LateCallsAreSound
      <3>2. ~ (d.order = oc /\ d.item = ic)
        <4>1. req[r].op = "release" => status[oc] # "absent"
          BY <1>1 DEF OneSagaPerOrder
        <4> QED
          BY <1>1, <1>2, <1>3, <3>1, <4>1 DEF Saga
      <3>3. holds'[d.order][d.item] = 0
        BY <2>2, <3>1, <3>2
      <3> QED
        BY <1>1, <2>1, <3>1, <3>3
    <2>8. CancellationsGoOn'
      BY <1>1 DEF CancellationsGoOn
    <2> QED
      BY <2>4, <2>6, <2>7, <2>8 DEF AIInv
  <1> QED
    BY <1>5, <1>6 DEF Serve

\* A late call is of a troubled order, and meets no other call about its item.
LEMMA ServeLateAddsUp ==
  ASSUME AIInv, IInv', NEW c \in late, ServeLate(c)
  PROVE  AIInv'
  <1>1. /\ TypeOK /\ OneSagaPerOrder /\ LateCallsAreSound /\ OneReservePerItem
        /\ LateReservesAreLast /\ UntroubledSagasAddUp /\ CancellationsGoOn
        /\ UNCHANGED <<status, req, call, used, troubled, cancelling>> /\ late' = late \ {c}
    BY DEF AIInv, IInv, ServeLate, rows, history
  <1>2. /\ late \subseteq Call /\ c \in Call /\ c.order \in Order /\ c.item \in DOMAIN Items[c.order]
        /\ c.kind \in {"reserve", "release"}
    BY <1>1 DEF TypeOK, Call, LateCallsAreSound
  <1>3. CancellationsGoOn'
    BY <1>1 DEF CancellationsGoOn
  <1>4. CASE Refuses(c)
    <2>1. UNCHANGED <<stock, holds>>
      BY <1>4 DEF Refuses, poolVars
    <2>2. HeldItemsAreReserved'
      BY <2>1 DEF AIInv, HeldItemsAreReserved, HeldItems, NoneNegative
    <2>3. LateReservesAreLast'
      BY <1>1, <2>1 DEF LateReservesAreLast
    <2>4. UntroubledSagasAddUp'
      BY <1>1, <2>1 DEF UntroubledSagasAddUp, Granted, Owes, NoneNegative, Pool!IsLive
    <2> QED
      BY <1>3, <2>2, <2>3, <2>4 DEF AIInv
  <1>5. CASE Executes(c)
    <2>1. \A o \in Order : \A i \in DOMAIN Items[o] :
            holds'[o][i] = IF o = c.order /\ i = c.item
                           THEN holds[o][i] + (IF c.kind = "reserve" THEN 1 ELSE -1)
                           ELSE holds[o][i]
      BY <1>1, <1>2, <1>5, ExecutesOne
    <2>2. c.kind = "reserve" => holds[c.order][c.item] = 0
      BY <1>1 DEF LateReservesAreLast
    <2>3. (NoneNegative' => NoneNegative) /\ HeldItemsAreReserved'
      BY <1>2, <1>5, <2>2, ExecutionKeepsCount
    <2>4. UntroubledSagasAddUp'
      <3>0. \A o \in Order : \A i \in DOMAIN Items[o] :
              Pool!IsLive(Items[o][i])' => Pool!IsLive(Items[o][i])
        <4>1. \A q \in Product : stock'[q].state = stock[q].state
          BY <1>1, <1>2, <1>5, ExecutesOne
        <4>2. \A o \in Order : \A i \in DOMAIN Items[o] : Items[o][i] \in Product
          BY ItemNumbers, OrdersAssumption
        <4> QED
          BY <4>1, <4>2 DEF Pool!IsLive
      <3> SUFFICES ASSUME NEW o \in Order \ troubled
                   PROVE  /\ \A d \in late' : d.order # o
                          /\ \A s \in Req : req[s].order = o => call[s] # "failed"
                          /\ NoneNegative' /\ status[o] = "absent" =>
                               \A i \in DOMAIN Items[o] : Pool!IsLive(Items[o][i]) =>
                                 holds'[o][i] = IF \E s \in Req : Accounts(req[s], call[s], o, i)
                                                THEN 1 ELSE 0
        BY <1>1, <3>0 DEF UntroubledSagasAddUp, Accounts, Granted, Owes
      <3>1. c.order # o /\ (\A d \in late' : d.order # o)
        BY <1>1 DEF UntroubledSagasAddUp
      <3>2. \A i \in DOMAIN Items[o] : holds'[o][i] = holds[o][i]
        BY <2>1, <3>1
      <3> QED
        BY <1>1, <2>3, <3>1, <3>2 DEF UntroubledSagasAddUp, Accounts
    <2>5. LateReservesAreLast'
      <3> SUFFICES ASSUME NEW d \in late, d # c, d.kind = "reserve"
                   PROVE  holds'[d.order][d.item] = 0
        BY <1>1 DEF LateReservesAreLast
      <3>1. /\ holds[d.order][d.item] = 0
            /\ c.kind = "release" /\ c.order = d.order => c.item # d.item
            /\ d.order \in Order /\ d.item \in DOMAIN Items[d.order]
        BY <1>1, <1>2 DEF LateReservesAreLast, LateCallsAreSound, Call
      <3>2. ~ (d.order = c.order /\ d.item = c.item)
        <4>1. c.kind = "reserve" /\ d.order = c.order /\ d.item = c.item => d = c
          BY <1>2 DEF Call
        <4> QED
          BY <1>2, <3>1, <4>1
      <3> QED
        BY <2>1, <3>1, <3>2
    <2> QED
      BY <1>3, <2>3, <2>4, <2>5 DEF AIInv
  <1> QED
    BY <1>4, <1>5 DEF ServeLate

\* A step of a slot that disturbs nobody.
LEMMA QuietTurn ==
  ASSUME AIInv, IInv', NEW r \in Req,
         \A s \in Req \ {r} : req'[s] = req[s] /\ call'[s] = call[s],
         UNCHANGED <<stock, holds, late, status, troubled, cancelling>>,
         call'[r] # "failed",
         \A c \in late : c.kind = "reserve" /\ req'[r].op \in Saga /\ req'[r].order = c.order =>
           req'[r].op = "undo" /\ req'[r].last < c.item,
         \A o \in Order \ troubled : \A i \in DOMAIN Items[o] :
           Accounts(req'[r], call'[r], o, i) <=> Accounts(req[r], call[r], o, i),
         req[r].op = "release" => req'[r].op = "release" /\ req'[r].order = req[r].order
  PROVE  AIInv'
  <1>1. SlotTurns(r, req'[r], call'[r])
    BY DEF SlotTurns
  <1> QED
    BY <1>1, SlotTurnKeeps

\* What the invariant says of the slot that takes a step.
LEMMA SlotOfTurn ==
  ASSUME AIInv, NEW r \in Req
  PROVE  /\ req[r] \in ReqRecord /\ req \in [Req -> ReqRecord] /\ call \in [Req -> Answer]
         /\ req[r].pos \in Nat \ {0} /\ req[r].last \in Nat
         /\ req[r].op # "idle" => req[r].order \in Order
         /\ req[r].op \notin {"reserve", "undo", "release"} => call[r] = "none"
         /\ call[r] # "none" => req[r].pos <= req[r].last
         /\ req[r].op \in {"validate", "reserve"} => req[r].last = Len(Items[req[r].order])
         /\ \A c \in late : c.kind = "reserve" /\ req[r].op \in Saga /\ req[r].order = c.order =>
              /\ c.item \in Nat
              /\ \/ req[r].op = "reserve" /\ req[r].pos = c.item /\ call[r] = "failed"
                 \/ req[r].op = "undo" /\ req[r].last < c.item
  <1>1. TypeOK /\ SlotsAreSound /\ LateReservesAreLast
    BY DEF AIInv, IInv
  <1>2. /\ req[r] \in ReqRecord /\ req \in [Req -> ReqRecord] /\ call \in [Req -> Answer]
        /\ req[r].pos \in Nat \ {0} /\ req[r].last \in Nat
    BY <1>1, SlotFields DEF TypeOK, Answer, ItemNo
  <1>3. \A c \in late : c.item \in Nat
    BY <1>1 DEF TypeOK, Call, ItemNo
  <1> QED
    BY <1>1, <1>2, <1>3 DEF SlotsAreSound, LateReservesAreLast

\* One lemma for each group of actions: it keeps the accounts.
LEMMA CallsAddUp ==
  ASSUME AIInv, IInv', NEW r \in Req, Send(r) \/ Reserved(r) \/ Released(r)
  PROVE  AIInv'
  <1>1. CASE Send(r)
    <2>1. /\ call[r] = "none" /\ req' = req /\ call' = [call EXCEPT ![r] = "sent"]
          /\ UNCHANGED <<stock, holds, late, status, troubled, cancelling>>
      BY <1>1 DEF Send, net, rows, history
    <2>2. call'[r] = "sent" /\ \A s \in Req \ {r} : call'[s] = call[s]
      BY <2>1, SlotOfTurn
    <2>3. \A o, i : Accounts(req[r], "sent", o, i) <=> Accounts(req[r], call[r], o, i)
      BY <2>1 DEF Accounts, Granted, Owes
    <2> QED
      BY <2>1, <2>2, <2>3, SlotOfTurn, QuietTurn
  <1>2. CASE Reserved(r) \/ Released(r)
    <2>1. /\ req[r].op \in {"reserve", "undo", "release"}
          /\ call[r] \in {"ok", "refused", "failed"} /\ (req[r].op = "reserve" => call[r] = "ok")
          /\ req' = [req EXCEPT ![r].pos = @ + 1] /\ call' = [call EXCEPT ![r] = "none"]
          /\ UNCHANGED <<stock, holds, late, status, troubled, cancelling>>
      BY <1>2 DEF Reserved, Released, Answered, net, rows, history
    <2>2. /\ \A s \in Req \ {r} : req'[s] = req[s] /\ call'[s] = call[s]
          /\ req'[r].op = req[r].op /\ req'[r].order = req[r].order /\ req'[r].last = req[r].last
          /\ req'[r].pos = req[r].pos + 1 /\ call'[r] = "none"
      BY <2>1, SlotOfTurn DEF ReqRecord
    <2>3. ASSUME NEW o \in Order, NEW i \in DOMAIN Items[o]
          PROVE  Accounts(req'[r], call'[r], o, i) <=> Accounts(req[r], call[r], o, i)
      <3>1. i \in Nat /\ req[r].pos \in Nat
        BY ItemNumbers, SlotOfTurn
      <3> QED
        BY <2>1, <2>2, <3>1 DEF Accounts, Granted, Owes
    <2>4. \A c \in late : c.kind = "reserve" /\ req'[r].op \in Saga /\ req'[r].order = c.order =>
            req'[r].op = "undo" /\ req'[r].last < c.item
      BY <2>1, <2>2, SlotOfTurn
    <2> QED
      BY <2>1, <2>2, <2>3, <2>4, QuietTurn
  <1> QED
    BY <1>1, <1>2

LEMMA NoAnswerAddsUp ==
  ASSUME AIInv, IInv', NEW r \in Req, NoAnswer(r)
  PROVE  AIInv'
  <1>1. /\ call[r] \in {"sent", "ok", "refused"} /\ call' = [call EXCEPT ![r] = "failed"]
        /\ late' = late \/ (call[r] = "sent" /\ late' = late \cup {CallOf(r)})
        /\ troubled' = troubled \cup {req[r].order}
        /\ UNCHANGED <<stock, holds, req, status, cancelling>>
    BY DEF NoAnswer, Abandon, poolVars, rows
  <1>2. call'[r] = "failed" /\ \A s \in Req \ {r} : call'[s] = call[s]
    BY <1>1, SlotOfTurn
  <1>3. \A c \in late : c.kind = "reserve" /\ req[r].op \in Saga /\ req[r].order = c.order =>
          req[r].op = "undo" /\ req[r].last < c.item
    BY <1>1, SlotOfTurn
  <1>4. \A o \in Order \ troubled' : \A i :
          Accounts(req[r], "failed", o, i) <=> Accounts(req[r], call[r], o, i)
    BY <1>1 DEF Accounts, Granted, Owes
  <1>5. SlotTurns(r, req[r], "failed")
    BY <1>1, <1>2, <1>3, <1>4 DEF SlotTurns
  <1> QED
    BY <1>5, SlotTurnKeeps

LEMMA ValidateItemAddsUp ==
  ASSUME AIInv, IInv', NEW r \in Req, ValidateItem(r)
  PROVE  AIInv'
  <1>1. /\ req[r].op = "validate" /\ call' = call
        /\ req' = [req EXCEPT ![r] =
                     IF req[r].pos < req[r].last THEN [req[r] EXCEPT !.pos = @ + 1]
                     ELSE [req[r] EXCEPT !.op = "reserve", !.pos = 1]]
        /\ UNCHANGED <<stock, holds, late, status, troubled, cancelling>>
    BY DEF ValidateItem, net, rows, history
  <1>2. /\ \A s \in Req \ {r} : req'[s] = req[s]
        /\ req'[r].order = req[r].order
        /\ req'[r].op = "validate" \/ (req'[r].op = "reserve" /\ req'[r].pos = 1)
    BY <1>1, SlotOfTurn DEF ReqRecord
  <1>3. call[r] = "none"
    BY <1>1, SlotOfTurn
  <1>4. ASSUME NEW o \in Order, NEW i \in DOMAIN Items[o]
        PROVE  Accounts(req'[r], call'[r], o, i) <=> Accounts(req[r], call[r], o, i)
    <2>1. i \in Nat \ {0}
      BY ItemNumbers
    <2> QED
      BY <1>1, <1>2, <1>3, <2>1 DEF Accounts, Granted, Owes
  <1>5. \A c \in late : ~ (c.kind = "reserve" /\ req'[r].op \in Saga /\ req'[r].order = c.order)
    BY <1>1, <1>2, SlotOfTurn DEF Saga
  <1> QED
    BY <1>1, <1>2, <1>3, <1>4, <1>5, QuietTurn

LEMMA ReserveRaisesAddsUp ==
  ASSUME AIInv, IInv', NEW r \in Req, ReserveRaises(r)
  PROVE  AIInv'
  <1>1. /\ req[r].op = "reserve" /\ call[r] \in {"refused", "failed"}
        /\ req' = [req EXCEPT ![r].op = "undo", ![r].pos = 1, ![r].last = req[r].pos - 1]
        /\ call' = [call EXCEPT ![r] = "none"]
        /\ UNCHANGED <<stock, holds, late, status, troubled, cancelling>>
    BY DEF ReserveRaises, Answered, net, rows, history
  <1>2. /\ \A s \in Req \ {r} : req'[s] = req[s] /\ call'[s] = call[s]
        /\ req'[r].order = req[r].order /\ req'[r].op = "undo" /\ req'[r].pos = 1
        /\ req'[r].last = req[r].pos - 1 /\ call'[r] = "none"
    BY <1>1, SlotOfTurn DEF ReqRecord
  <1>3. ASSUME NEW o \in Order, NEW i \in DOMAIN Items[o]
        PROVE  Accounts(req'[r], call'[r], o, i) <=> Accounts(req[r], call[r], o, i)
    <2>1. i \in Nat \ {0} /\ req[r].pos \in Nat \ {0}
      BY ItemNumbers, SlotOfTurn
    <2> QED
      BY <1>1, <1>2, <2>1 DEF Accounts, Granted, Owes
  <1>4. ASSUME NEW c \in late, c.kind = "reserve", req'[r].op \in Saga, req'[r].order = c.order
        PROVE  req'[r].last < c.item
    <2>1. req[r].pos = c.item /\ req[r].pos \in Nat
      BY <1>1, <1>2, <1>4, SlotOfTurn DEF Saga
    <2> QED
      BY <1>2, <2>1
  <1> QED
    BY <1>1, <1>2, <1>3, <1>4, QuietTurn

LEMMA ConfirmAndPublishAddsUp ==
  ASSUME AIInv, IInv', NEW r \in Req, ConfirmAndPublish(r)
  PROVE  AIInv'
  <1>1. /\ req[r].op = "reserve" /\ req[r].pos > req[r].last /\ call' = call
        /\ req' = [req EXCEPT ![r].op = "created"]
        /\ UNCHANGED <<stock, holds, late, status, troubled, cancelling>>
    BY DEF ConfirmAndPublish, net, rows, history
  <1>2. /\ \A s \in Req \ {r} : req'[s] = req[s]
        /\ req'[r].order = req[r].order /\ req'[r].op = "created"
    BY <1>1, SlotOfTurn DEF ReqRecord
  <1>3. call[r] = "none" /\ req[r].last = Len(Items[req[r].order])
    BY <1>1, SlotOfTurn
  <1>4. ASSUME NEW o \in Order, NEW i \in DOMAIN Items[o]
        PROVE  Accounts(req'[r], call'[r], o, i) <=> Accounts(req[r], call[r], o, i)
    <2>1. i \in 1 .. Len(Items[o]) /\ Len(Items[o]) \in Nat /\ req[r].pos \in Nat
      BY ItemNumbers, SlotOfTurn
    <2> QED
      BY <1>1, <1>2, <1>3, <2>1 DEF Accounts, Granted, Owes
  <1>5. \A c \in late : ~ (c.kind = "reserve" /\ req'[r].op \in Saga /\ req'[r].order = c.order)
    BY <1>1, <1>2, <1>3, SlotOfTurn DEF Saga
  <1> QED
    BY <1>1, <1>2, <1>3, <1>4, <1>5, QuietTurn

LEMMA BeginsAddUp ==
  ASSUME AIInv, IInv', NEW r \in Req, Begin(r) \/ EventFlush(r)
  PROVE  AIInv'
  <1>1. /\ req[r].op \in {"idle", "event"} /\ call' = call
        /\ UNCHANGED <<stock, holds, late, status, troubled, cancelling>>
        /\ \A s \in Req \ {r} : req'[s] = req[s]
    BY SlotOfTurn DEF Begin, StartCreate, CancelRead, EventRead, EventFlush, net, rows, history
  <1>2. call[r] = "none"
    BY <1>1, SlotOfTurn
  <1>3. \/ req'[r].op \in {"cancel", "event", "moved"}
        \/ req'[r].op = "validate" /\ req'[r].order \notin used
    <2>1. req \in [Req -> ReqRecord]
      BY SlotOfTurn
    <2>2. CASE \E o \in Order : StartCreate(r, o)
      BY <2>1, <2>2 DEF StartCreate, Idle
    <2>3. CASE \E o \in Order : CancelRead(r, o)
      BY <2>1, <2>3 DEF CancelRead, Idle
    <2>4. CASE \E e \in Event : EventRead(r, e)
      BY <2>1, <2>4 DEF EventRead, Idle
    <2>5. CASE EventFlush(r)
      BY <2>1, <2>5 DEF EventFlush, ReqRecord
    <2> QED
      BY <2>2, <2>3, <2>4, <2>5 DEF Begin
  <1>4. \A o, i : ~ Accounts(req'[r], call'[r], o, i) /\ ~ Accounts(req[r], call[r], o, i)
    BY <1>1, <1>3 DEF Accounts, Granted, Owes
  <1>5. \A c \in late : ~ (c.kind = "reserve" /\ req'[r].op \in Saga /\ req'[r].order = c.order)
    BY <1>3 DEF Saga, AIInv, IInv, LateCallsAreSound
  <1> QED
    BY <1>1, <1>2, <1>4, <1>5, QuietTurn

LEMMA CancelFlushAddsUp ==
  ASSUME AIInv, IInv', NEW r \in Req, CancelFlush(r)
  PROVE  AIInv'
  <1>1. /\ req[r].op = "cancel" /\ call' = call /\ cancelling' = cancelling \cup {req[r].order}
        /\ UNCHANGED <<stock, holds, late, status, troubled>>
        /\ \A s \in Req \ {r} : req'[s] = req[s]
        /\ req'[r].op = "release" /\ req'[r].order = req[r].order
    BY SlotOfTurn DEF CancelFlush, net, ReqRecord
  <1>2. call[r] = "none"
    BY <1>1, SlotOfTurn
  <1>3. \A o, i : ~ Accounts(req'[r], call'[r], o, i) /\ ~ Accounts(req[r], call[r], o, i)
    BY <1>1 DEF Accounts, Granted, Owes
  <1>4. SlotTurns(r, req'[r], call'[r])
    BY <1>1, <1>2, <1>3 DEF SlotTurns, Saga
  <1> QED
    BY <1>4, SlotTurnKeeps

LEMMA EndsAddUp ==
  ASSUME AIInv, IInv', NEW r \in Req,
         \/ ValidateFails(r) \/ CreateRaises(r) \/ EventDuplicate(r)
         \/ LockWaitFails(r) \/ Crash(r)
  PROVE  AIInv'
  <1>1. /\ req' = [req EXCEPT ![r] = Idle] /\ call' = [call EXCEPT ![r] = "none"]
        /\ UNCHANGED <<stock, holds, status, cancelling>>
    BY DEF ValidateFails, CreateRaises, EventDuplicate, LockWaitFails, Crash, Rollback, EndRequest,
           net, history, poolVars
  <1>2. /\ \A s \in Req \ {r} : req'[s] = req[s] /\ call'[s] = call[s]
        /\ req'[r] = Idle /\ call'[r] = "none" /\ Idle.op = "idle"
    BY <1>1, SlotOfTurn DEF Idle
  <1>3. \A o, i : ~ Accounts(Idle, "none", o, i)
    BY <1>2 DEF Accounts, Granted, Owes
  <1>4. \/ /\ late' = late /\ troubled' = troubled
           /\ \/ req[r].op \in {"validate", "moved", "cancel", "event"}
              \/ req[r].op = "undo" /\ req[r].pos > req[r].last
        \/ /\ late' = late \/ (call[r] = "sent" /\ late' = late \cup {CallOf(r)})
           /\ troubled' = troubled \cup {req[r].order}
    BY DEF ValidateFails, CreateRaises, EventDuplicate, LockWaitFails, Crash, Abandon, net, history
  <1>5. ASSUME NEW o \in Order \ troubled', NEW i \in DOMAIN Items[o]
        PROVE  ~ Accounts(req[r], call[r], o, i)
    <2>1. i \in Nat /\ req[r].pos \in Nat /\ req[r].last \in Nat
      BY ItemNumbers, SlotOfTurn
    <2> QED
      BY <1>4, <2>1 DEF Accounts, Granted, Owes
  <1>6. \A o \in cancelling \ troubled' : ~ (req[r].op = "release" /\ req[r].order = o)
    BY <1>4
  <1>7. SlotTurns(r, Idle, "none")
    BY <1>1, <1>2, <1>3, <1>4, <1>5, <1>6 DEF SlotTurns, Saga
  <1> QED
    BY <1>7, SlotTurnKeeps

LEMMA CommitsAddUp ==
  ASSUME AIInv, IInv', NEW r \in Req, CreateCommit(r) \/ CancelCommit(r) \/ EventCommit(r)
  PROVE  AIInv'
  <1> DEFINE o == req[r].order
  <1>1. TypeOK /\ SlotsAreSound /\ OneSagaPerOrder
    BY DEF AIInv, IInv
  <1>2. /\ req' = [req EXCEPT ![r] = Idle] /\ call' = [call EXCEPT ![r] = "none"]
        /\ UNCHANGED <<stock, holds, late, troubled, cancelling>>
        /\ req[r].op \in {"created", "release", "moved"}
    BY DEF CreateCommit, CancelCommit, EventCommit, Store, EndRequest, net, history
  <1>3. /\ \A s \in Req \ {r} : req'[s] = req[s] /\ call'[s] = call[s]
        /\ req'[r] = Idle /\ call'[r] = "none" /\ Idle.op = "idle" /\ o \in Order
    BY <1>2, SlotOfTurn DEF Idle
  <1>4. PICK st : /\ status' = [status EXCEPT ![o] = st] /\ st # "absent"
                  /\ st = "confirmed" => req[r].op = "created"
    <2>1. EventCommit(r) => EventStatus[req[r].event] \in {"processing", "delivered"}
      BY <1>1, OrdersAssumption DEF EventCommit, SlotsAreSound
    <2> QED
      BY <2>1 DEF CreateCommit, CancelCommit, EventCommit, Store
  <1>5. status'[o] = st /\ \A b \in Order \ {o} : status'[b] = status[b]
    BY <1>1, <1>3, <1>4 DEF TypeOK
  <1>6. req[r].op = "created" => status[o] = "absent" /\ o \notin cancelling
    BY <1>1 DEF OneSagaPerOrder, Saga
  <1>7. req[r].op # "created" => status[o] # "absent"
    BY <1>1, <1>2 DEF OneSagaPerOrder
  <1>8. \A b \in Order : \A i : b # o =>
          ~ Accounts(Idle, "none", b, i) /\ ~ Accounts(req[r], call[r], b, i)
    BY <1>3 DEF Accounts, Granted, Owes
  <1>9. /\ \A b \in Order :
             /\ status'[b] = "absent" => status[b] = "absent" /\ b # o
             /\ status[b] = "absent" /\ status'[b] # "absent" => req[r].op = "created" /\ o = b
        /\ \A b \in cancelling : status'[b] = "confirmed" => status[b] = "confirmed" /\ b # o
    <2>1. cancelling \subseteq Order
      BY <1>1 DEF TypeOK
    <2> QED
      BY <1>4, <1>5, <1>6, <1>7, <2>1
  <1>10. SlotTurns(r, Idle, "none")
    BY <1>2, <1>3, <1>8, <1>9 DEF SlotTurns, Saga
  <1> QED
    BY <1>10, SlotTurnKeeps

\* Of a product that is deleted, nothing is claimed any more.
LEMMA KeepStockAddsUp ==
  ASSUME AIInv, IInv', KeepStock
  PROVE  AIInv'
  <1>1. StockIsKept
    BY StockKeeping DEF AIInv, IInv
  <1>2. LateReservesAreLast' /\ CancellationsGoOn'
    BY <1>1 DEF AIInv, LateReservesAreLast, CancellationsGoOn, StockIsKept
  <1>3. HeldItemsAreReserved'
    BY <1>1 DEF AIInv, HeldItemsAreReserved, HeldItems, NoneNegative, StockIsKept
  <1>4. \A o \in Order : \A i \in DOMAIN Items[o] :
          Pool!IsLive(Items[o][i])' => Pool!IsLive(Items[o][i])
    <2>1. \A o \in Order : \A i \in DOMAIN Items[o] : Items[o][i] \in Product
      BY ItemNumbers, OrdersAssumption
    <2> QED
      BY <1>1, <2>1 DEF Pool!IsLive, StockIsKept
  <1>5. UntroubledSagasAddUp'
    BY <1>1, <1>4 DEF AIInv, UntroubledSagasAddUp, Granted, Owes, NoneNegative, StockIsKept
  <1> QED
    BY <1>2, <1>3, <1>5 DEF AIInv

LEMMA InitAddsUp == Init => AIInv
  <1> SUFFICES ASSUME Init PROVE AIInv
    OBVIOUS
  <1>1. IInv
    BY InitKeeps
  <1>2. /\ late = {} /\ cancelling = {}
        /\ \A r \in Req : req[r] = Idle /\ call[r] = "none"
        /\ \A o \in Order : \A i \in DOMAIN Items[o] : holds[o][i] = 0
    BY DEF Init, Held
  <1>3. LateReservesAreLast /\ CancellationsGoOn
    BY <1>2 DEF LateReservesAreLast, CancellationsGoOn
  <1>4. HeldItemsAreReserved
    <2> SUFFICES ASSUME NEW p \in Product
                 PROVE  IsFiniteSet(HeldItems(p)) /\ Cardinality(HeldItems(p)) <= stock[p].reserved
      BY DEF HeldItemsAreReserved
    <2>1. HeldItems(p) = {}
      <3>1. \A x : x \notin HeldItems(p)
        BY <1>2 DEF HeldItems
      <3> QED
        BY <3>1
    <2>2. stock[p].reserved \in Nat
      BY <1>1 DEF IInv, TypeOK
    <2>3. IsFiniteSet({}) /\ Cardinality({}) = 0
      BY FS_EmptySet
    <2> QED
      BY <2>1, <2>2, <2>3
  <1>5. UntroubledSagasAddUp
    <2>1. \A o, i : \A r \in Req :
            ~ Granted(req[r], call[r], o, i) /\ ~ Owes(req[r], call[r], o, i)
      BY <1>2 DEF Granted, Owes, Idle
    <2> QED
      BY <1>2, <2>1 DEF UntroubledSagasAddUp
  <1> QED
    BY <1>1, <1>3, <1>4, <1>5 DEF AIInv

LEMMA NextAddsUp ==
  ASSUME AIInv, [Next]_vars
  PROVE  AIInv'
  <1>1. IInv'
    BY NextKeeps DEF AIInv
  <1>2. CASE UNCHANGED vars
    <2>1. UNCHANGED <<stock, status, req, call, late, holds, troubled, cancelling>>
      BY <1>2 DEF vars
    <2>2. LateReservesAreLast' /\ CancellationsGoOn'
      BY <2>1 DEF AIInv, LateReservesAreLast, CancellationsGoOn
    <2>3. HeldItemsAreReserved'
      BY <2>1 DEF AIInv, HeldItemsAreReserved, HeldItems, NoneNegative
    <2>4. UntroubledSagasAddUp'
      BY <2>1 DEF AIInv, UntroubledSagasAddUp, Granted, Owes, NoneNegative, Pool!IsLive
    <2> QED
      BY <1>1, <2>2, <2>3, <2>4 DEF AIInv
  <1>3. CASE \E c \in late : ServeLate(c)
    BY <1>1, <1>3, ServeLateAddsUp
  <1>4. CASE \E r \in Req : Begin(r)
    BY <1>1, <1>4, BeginsAddUp
  <1>5. CASE \E r \in Req : Serve(r)
    BY <1>1, <1>5, ServeAddsUp
  <1>6. CASE \E r \in Req : Crash(r)
    BY <1>1, <1>6, EndsAddUp
  <1>7. CASE \E r \in Req : Advance(r)
    <2> PICK r \in Req : Advance(r)
      BY <1>7
    <2>1. CASE Send(r) \/ Reserved(r) \/ Released(r)
      BY <1>1, <2>1, CallsAddUp
    <2>2. CASE NoAnswer(r)
      BY <1>1, <2>2, NoAnswerAddsUp
    <2>3. CASE ValidateItem(r) \/ ReserveRaises(r) \/ ConfirmAndPublish(r)
      BY <1>1, <2>3, ValidateItemAddsUp, ReserveRaisesAddsUp, ConfirmAndPublishAddsUp
    <2>4. CASE ValidateFails(r) \/ CreateRaises(r) \/ EventDuplicate(r) \/ LockWaitFails(r)
      BY <1>1, <2>4, EndsAddUp
    <2>5. CASE CreateCommit(r) \/ CancelCommit(r) \/ EventCommit(r)
      BY <1>1, <2>5, CommitsAddUp
    <2>6. CASE CancelFlush(r) \/ EventFlush(r)
      BY <1>1, <2>6, CancelFlushAddsUp, BeginsAddUp
    <2> QED
      BY <2>1, <2>2, <2>3, <2>4, <2>5, <2>6 DEF Advance
  <1>8. CASE KeepStock
    BY <1>1, <1>8, KeepStockAddsUp
  <1> QED
    BY <1>2, <1>3, <1>4, <1>5, <1>6, <1>7, <1>8 DEF Next

\* What the property claims follows from the accounts.
LEMMA AccountsMatch == AIInv => UndisturbedOrdersAddUp
  <1> SUFFICES ASSUME AIInv, NoneNegative, NEW o \in Order, Posted(o), o \notin troubled
               PROVE  /\ status[o] = "absent" =>
                           \A i \in DOMAIN Items[o] : Pool!IsLive(Items[o][i]) => holds[o][i] = 0
                      /\ status[o] = "confirmed" => HoldsAll(o)
    BY DEF UndisturbedOrdersAddUp
  <1>1. ASSUME status[o] = "absent", NEW i \in DOMAIN Items[o], Pool!IsLive(Items[o][i])
        PROVE  holds[o][i] = 0
    <2>1. \A r \in Req : ~ Granted(req[r], call[r], o, i) /\ ~ Owes(req[r], call[r], o, i)
      BY DEF Posted, Granted, Owes
    <2> QED
      BY <1>1, <2>1 DEF AIInv, UntroubledSagasAddUp
  <1>2. ASSUME status[o] = "confirmed" PROVE HoldsAll(o)
    <2>1. o \notin cancelling
      BY <1>2 DEF AIInv, CancellationsGoOn, Posted
    <2> SUFFICES ASSUME NEW i \in DOMAIN Items[o] PROVE holds[o][i] = 1
      BY DEF HoldsAll
    <2>2. holds[o][i] \in Int /\ holds[o][i] <= 1 /\ holds[o][i] >= 1
      BY <1>2, <2>1 DEF AIInv, IInv, TypeOK, OneReservePerItem, GrantedItemsAreHeld
    <2> QED
      BY <2>2
  <1> QED
    BY <1>1, <1>2

\* For any orders, slots and stock: unless a cancellation ran twice, an order
\* whose calls were all answered holds nothing if its saga failed, and every
\* item while it is CONFIRMED, whatever became of the others.
THEOREM UndisturbedOrders == Spec => []UndisturbedOrdersAddUp
  BY InitAddsUp, NextAddsUp, AccountsMatch, PTL DEF Spec

------------------------------------------------------------------------------
(* No unit is promised twice *)

\* A reserve is granted from the units on hand only, and a release takes back what
\* is reserved.
LEMMA ExecutionIsCovered ==
  ASSUME TypeOK, PoolIsCovered, NEW c, Executes(c) \/ Refuses(c), c.order \in Order,
         c.item \in DOMAIN Items[c.order], UNCHANGED shorted
  PROVE  PoolIsCovered'
  <1>1. stock \in [Product -> [state : {"live", "deleted"}, available : Nat, reserved : Nat]]
    BY DEF TypeOK
  <1>2. CASE Refuses(c)
    BY <1>2 DEF Refuses, poolVars, PoolIsCovered
  <1>3. CASE Executes(c) /\ c.kind = "reserve"
    BY <1>1, <1>3 DEF Executes, Pool!GrantOne, Pool!Grant, Pool!OnHand, PoolIsCovered
  <1>4. CASE Executes(c) /\ c.kind # "reserve"
    BY <1>1, <1>4 DEF Executes, Pool!TakeBack, PoolIsCovered
  <1> QED
    BY <1>2, <1>3, <1>4

\* No other step changes the stock, but for stock keeping, which tells what it
\* leaves short,
LEMMA NextIsCovered == ASSUME IInv, PoolIsCovered, [Next]_vars PROVE PoolIsCovered'
  <1>1. TypeOK /\ SlotsAreSound /\ LateCallsAreSound
    BY DEF IInv
  <1>2. ASSUME NEW r \in Req, Serve(r) PROVE PoolIsCovered'
    <2>1. req[r].order \in Order /\ req[r].pos \in DOMAIN Items[req[r].order]
      <3>1. /\ req[r].order \in Order /\ req[r].last \in 0 .. Len(Items[req[r].order])
            /\ req[r].pos <= req[r].last
        BY <1>1, <1>2 DEF SlotsAreSound, Serve
      <3>2. req[r].pos \in Nat \ {0}
        BY <1>1 DEF TypeOK, ReqRecord, ItemNo
      <3>3. /\ Len(Items[req[r].order]) \in Nat
            /\ DOMAIN Items[req[r].order] = 1 .. Len(Items[req[r].order])
        <4>1. Items[req[r].order] \in Seq(Product)
          BY <3>1, OrdersAssumption
        <4> QED
          BY <4>1
      <3> QED
        BY <3>1, <3>2, <3>3
    <2>2. CallOf(r).order = req[r].order /\ CallOf(r).item = req[r].pos
      BY DEF CallOf
    <2>3. Executes(CallOf(r)) \/ Refuses(CallOf(r))
      BY <1>2 DEF Serve
    <2> QED
      BY <1>1, <1>2, <2>1, <2>2, <2>3, ExecutionIsCovered DEF Serve, history
  <1>3. ASSUME NEW c \in late, ServeLate(c) PROVE PoolIsCovered'
    <2>1. c.order \in Order /\ c.item \in DOMAIN Items[c.order]
      BY <1>1 DEF LateCallsAreSound, TypeOK
    <2> QED
      BY <1>1, <1>3, <2>1, ExecutionIsCovered DEF ServeLate, history
  <1>4. ASSUME NEW r \in Req, Begin(r) \/ Advance(r) \/ Crash(r)
        PROVE  stock' = stock /\ shorted' = shorted
    BY <1>4 DEF Begin, StartCreate, CancelRead, EventRead, Advance, Crash, Send, NoAnswer,
       ValidateItem, ValidateFails, Reserved, ReserveRaises, Released, CreateRaises,
       ConfirmAndPublish, CreateCommit, CancelFlush, CancelCommit, EventFlush, EventCommit,
       EventDuplicate, LockWaitFails, net, poolVars, history
  <1>5. CASE stock' = stock /\ shorted' = shorted
    BY <1>5 DEF PoolIsCovered
  <1>6. CASE KeepStock
    BY <1>1, <1>6, StockKeeping DEF StockIsKept, PoolIsCovered
  <1>7. CASE Next
    BY <1>2, <1>3, <1>4, <1>5, <1>6, <1>7 DEF Next
  <1>8. CASE UNCHANGED vars
    BY <1>5, <1>8 DEF vars
  <1> QED
    BY <1>7, <1>8

\* and at start-up nothing is reserved.
LEMMA InitIsCovered == Init => PoolIsCovered
  BY OrdersAssumption DEF Init, PoolIsCovered, Pool!Live

\* Every promised item is held, and every held item has a unit that is on hand,
\* unless stock keeping took it out.
LEMMA PromisesAreCovered ==
  ASSUME AIInv, PoolIsCovered PROVE NoUnitIsPromisedTwice
  <1> SUFFICES ASSUME NoneNegative, NEW p \in Product
               PROVE  /\ Cardinality(Promised(p)) <= stock[p].reserved
                      /\ p \notin shorted => Cardinality(Promised(p)) <= stock[p].available
    BY DEF NoUnitIsPromisedTwice
  <1>1. IsFiniteSet(HeldItems(p)) /\ Cardinality(HeldItems(p)) <= stock[p].reserved
    BY DEF AIInv, HeldItemsAreReserved
  <1>2. Promised(p) \subseteq HeldItems(p)
    <2> SUFFICES ASSUME NEW o \in Order, o \notin cancelling,
                        o \in published \/ status[o] # "absent",
                        NEW i \in DOMAIN Items[o], Items[o][i] = p
                 PROVE  <<o, i>> \in HeldItems(p)
      BY DEF Promised
    <2>1. holds[o][i] >= 1 /\ holds[o][i] <= 1 /\ holds[o][i] \in Int
      BY DEF AIInv, IInv, TypeOK, GrantedItemsAreHeld, OneReservePerItem
    <2>2. holds[o][i] = 1
      BY <2>1
    <2> QED
      BY <2>2 DEF HeldItems
  <1>3. /\ Cardinality(Promised(p)) <= Cardinality(HeldItems(p))
        /\ Cardinality(Promised(p)) \in Nat /\ Cardinality(HeldItems(p)) \in Nat
    BY <1>1, <1>2, FS_Subset, FS_CardinalityType
  <1>4. /\ stock[p].reserved \in Nat /\ stock[p].available \in Nat
        /\ p \notin shorted => stock[p].reserved <= stock[p].available
    BY DEF PoolIsCovered, AIInv, IInv, TypeOK
  <1> QED
    BY <1>1, <1>3, <1>4

\* However many sagas compete for the last units, whatever becomes of their calls
\* and whatever PUT and DELETE do meanwhile, every promised item has a reserved unit
\* of its own, and one that is there unless the last PUT left less than was reserved.
THEOREM NothingIsOversold == Spec => []NoUnitIsPromisedTwice
  <1>1. Spec => []AIInv
    BY InitAddsUp, NextAddsUp, PTL DEF Spec
  <1>2. Spec => []PoolIsCovered
    BY InitIsCovered, NextIsCovered, Invariance, PTL DEF Spec
  <1> QED
    BY <1>1, <1>2, PromisesAreCovered, PTL

------------------------------------------------------------------------------
(* Requests go forward *)

\* A request goes on with its order: to a later phase, item or state of its call.
GoesForward(r) ==
  LET x == req[r]
      y == req'[r]
  IN  /\ y.order = x.order
      /\ \/ Phase(x.op) < Phase(y.op)
         \/ x.op = y.op /\ x.pos < y.pos
         \/ <<x.op, x.pos>> = <<y.op, y.pos>> /\ CallPhase(call[r]) < CallPhase(call'[r])

\* A slot takes steps of its own only.
LEMMA OthersRest ==
  ASSUME TypeOK, NEW r \in Req, NEW s \in Req, s # r,
         Begin(s) \/ Advance(s) \/ Serve(s) \/ Crash(s)
  PROVE  req'[r] = req[r] /\ call'[r] = call[r]
  <1>1. req \in [Req -> ReqRecord] /\ call \in [Req -> Answer]
    BY DEF TypeOK, Answer
  <1>2. CASE Begin(s)
    BY <1>1, <1>2 DEF Begin, StartCreate, CancelRead, EventRead
  <1>3. CASE Serve(s)
    BY <1>1, <1>3 DEF Serve
  <1>4. CASE Crash(s)
    BY <1>1, <1>4 DEF Crash, Rollback, EndRequest
  <1>5. CASE Send(s) \/ NoAnswer(s) \/ ValidateItem(s) \/ ValidateFails(s) \/ Reserved(s)
             \/ ReserveRaises(s) \/ Released(s) \/ CreateRaises(s) \/ ConfirmAndPublish(s)
    BY <1>1, <1>5 DEF Send, NoAnswer, ValidateItem, ValidateFails, Reserved, ReserveRaises,
       Released, CreateRaises, ConfirmAndPublish, Answered, Rollback, EndRequest
  <1>6. CASE CreateCommit(s) \/ CancelFlush(s) \/ CancelCommit(s) \/ EventFlush(s)
             \/ EventCommit(s) \/ EventDuplicate(s) \/ LockWaitFails(s)
    BY <1>1, <1>6 DEF CreateCommit, CancelFlush, CancelCommit, EventFlush, EventCommit,
       EventDuplicate, LockWaitFails, Store, Rollback, EndRequest
  <1> QED
    BY <1>2, <1>3, <1>4, <1>5, <1>6 DEF Advance

\* What a slot does in a request: it ends it, or goes forward.
LEMMA SlotGoesForward ==
  ASSUME TypeOK, NEW r \in Req, Advance(r) \/ Serve(r) \/ Crash(r)
  PROVE  req'[r].op = "idle" \/ GoesForward(r)
  <1>1. /\ req \in [Req -> ReqRecord] /\ call \in [Req -> Answer]
        /\ req[r] \in ReqRecord /\ req[r].pos \in Nat
    BY DEF TypeOK, Answer, ReqRecord, ItemNo
  <1>2. CASE Serve(r) \/ Send(r) \/ NoAnswer(r)
    <2>1. req' = req
      BY <1>2 DEF Serve, Send, NoAnswer, rows
    <2>2. CallPhase(call[r]) < CallPhase(call'[r])
      BY <1>1, <1>2 DEF Serve, Send, NoAnswer, CallPhase
    <2> QED
      BY <2>1, <2>2 DEF GoesForward
  <1>3. CASE ValidateItem(r)
    BY <1>1, <1>3 DEF ValidateItem, GoesForward, Phase, ReqRecord
  <1>4. CASE Reserved(r) \/ Released(r)
    BY <1>1, <1>4 DEF Reserved, Released, GoesForward, ReqRecord
  <1>5. CASE \/ ReserveRaises(r) \/ ConfirmAndPublish(r)
             \/ CancelFlush(r) \/ EventFlush(r)
    <2>1. CASE ReserveRaises(r)
      BY <1>1, <2>1 DEF ReserveRaises, GoesForward, Phase, ReqRecord
    <2>2. CASE ConfirmAndPublish(r)
      BY <1>1, <2>2 DEF ConfirmAndPublish, GoesForward, Phase, ReqRecord
    <2>3. CASE CancelFlush(r)
      BY <1>1, <2>3 DEF CancelFlush, GoesForward, Phase, ReqRecord
    <2>4. CASE EventFlush(r)
      BY <1>1, <2>4 DEF EventFlush, GoesForward, Phase, ReqRecord
    <2> QED
      BY <1>5, <2>1, <2>2, <2>3, <2>4
  <1>6. CASE Crash(r) \/ ValidateFails(r) \/ CreateRaises(r) \/ CreateCommit(r) \/ CancelCommit(r)
             \/ EventCommit(r) \/ EventDuplicate(r) \/ LockWaitFails(r)
    BY <1>1, <1>6 DEF Crash, ValidateFails, CreateRaises, CreateCommit, CancelCommit, EventCommit,
       EventDuplicate, LockWaitFails, Store, Rollback, EndRequest, Idle
  <1> QED
    BY <1>2, <1>3, <1>4, <1>5, <1>6 DEF Advance

LEMMA NextGoesForward ==
  ASSUME TypeOK, Next, NEW r \in Req, req[r].op # "idle", req'[r].op # "idle",
         <<req[r], call[r]>> # <<req'[r], call'[r]>>
  PROVE  GoesForward(r)
  <1>1. CASE KeepStock
    BY <1>1, StockKeeping DEF StockIsKept
  <1>2. CASE \E c \in late : ServeLate(c)
    BY <1>2 DEF ServeLate
  <1>3. CASE \E s \in Req : Begin(s) \/ Advance(s) \/ Serve(s) \/ Crash(s)
    <2>1. PICK s \in Req : Begin(s) \/ Advance(s) \/ Serve(s) \/ Crash(s)
      BY <1>3
    <2>2. s = r
      BY <2>1, OthersRest
    <2>3. ~ Begin(r)
      BY DEF Begin, StartCreate, CancelRead, EventRead
    <2> QED
      BY <2>1, <2>2, <2>3, SlotGoesForward
  <1> QED
    BY <1>1, <1>2, <1>3 DEF Next

\* Whatever is refused, lost, late or contended, a request works on one order and
\* comes nearer to its end with every step, for any number of items and slots.
THEOREM ForwardOnly == Spec => RequestsGoForward
  <1> DEFINE Forward ==
        \A r \in Req : req[r].op # "idle" /\ req'[r].op # "idle"
                      /\ <<req[r], call[r]>> # <<req'[r], call'[r]>> => GoesForward(r)
  <1>1. TypeOK /\ [Next]_vars => [Forward]_vars
    BY NextGoesForward
  <1> HIDE DEF Forward
  <1>2. Spec => [][Forward]_vars
    BY <1>1, TypeCorrect, PTL DEF Spec
  <1> QED
    BY <1>2 DEF Forward, GoesForward, RequestsGoForward
==============================================================================
