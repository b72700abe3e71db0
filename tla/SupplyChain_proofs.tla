--------------------------- MODULE SupplyChain_proofs ---------------------------
(* Proofs about the three services together, for any orders, slots and bounds. *)
(* What each service keeps by itself is taken from the proofs about it.        *)
EXTENDS SupplyChain, FiniteSetTheorems, TLAPS

Ord == INSTANCE Orders_proofs
  WITH Req <- Handler, Event <- FulfillmentEvent, EventOrder <- OrderOf, EventStatus <- Asks

Ful == INSTANCE Fulfillment_proofs
  WITH Req <- Staff, Event <- Order, EventOrder <- Itself,
       status <- record, lock <- recordLock, req <- job, processed <- recorded

\* The parts are instances of modules whose assumptions hold here.
LEMMA OrdersAssumed == Ord!OrdersAssumption
  BY SupplyChainAssumption DEF Ord!OrdersAssumption, FulfillmentEvent, OrderOf, Asks, Handler

\* What the constants of Fulfillment must satisfy, they do here.
LEMMA FulfillmentAssumed == Ful!FulfillmentAssumption
  BY SupplyChainAssumption DEF Ful!FulfillmentAssumption, Itself

------------------------------------------------------------------------------
(* Sums over finite sets *)

\* The element of s that a sum over s takes first.
First(s) == CHOOSE x \in s : TRUE

\* g gives the sum of f over every subset of T.
SumsUp(g, f, T) ==
  g = [s \in SUBSET T |-> IF s = {} THEN 0 ELSE f[First(s)] + g[s \ {First(s)}]]

\* It is an element.
LEMMA FirstIsElement == ASSUME NEW s, s # {} PROVE First(s) \in s
  BY DEF First

\* A property of the subsets of a finite set that fails for some fails for a
\* smallest one.
LEMMA SmallestSet ==
  ASSUME NEW S, IsFiniteSet(S), NEW Bad, Bad \subseteq SUBSET S, Bad # {}
  PROVE  \E T \in Bad : \A U \in Bad : U \subseteq T => U = T
  <1>1. IsWellFoundedOn(StrictSubsetOrdering(S), SUBSET S)
    BY FS_StrictSubsetOrderingWellFounded, FS_FiniteSubsetsOfFinite
  <1>2. PICK T \in Bad : \A U \in Bad : <<U, T>> \notin StrictSubsetOrdering(S)
    BY <1>1, WFMin
  <1>3. ASSUME NEW U \in Bad, U \subseteq T, U # T PROVE FALSE
    <2>1. <<U, T>> \in (SUBSET S) \X (SUBSET S)
      BY <1>3
    <2>2. <<U, T>> \in StrictSubsetOrdering(S)
      BY <1>3, <2>1 DEF StrictSubsetOrdering
    <2> QED
      BY <1>2, <1>3, <2>2
  <1> QED
    BY <1>3

\* Two such functions agree where both are defined,
LEMMA SumsAgree ==
  ASSUME NEW S, IsFiniteSet(S), NEW f, NEW T \in SUBSET S, NEW V \in SUBSET S,
         NEW g, SumsUp(g, f, T), NEW h, SumsUp(h, f, V),
         NEW s, s \subseteq T, s \subseteq V
  PROVE  g[s] = h[s]
  <1> DEFINE Bad == {u \in SUBSET S : u \subseteq T /\ u \subseteq V /\ g[u] # h[u]}
  <1>1. SUFFICES ASSUME Bad # {} PROVE FALSE
    <2>1. s \in SUBSET S
      OBVIOUS
    <2> QED
      BY <2>1
  <1>2. PICK u \in Bad : \A w \in Bad : w \subseteq u => w = u
    <2> HIDE DEF Bad
    <2>1. Bad \subseteq SUBSET S
      BY DEF Bad
    <2> QED
      BY <1>1, <2>1, SmallestSet
  <1>3. /\ g[u] = IF u = {} THEN 0 ELSE f[First(u)] + g[u \ {First(u)}]
        /\ h[u] = IF u = {} THEN 0 ELSE f[First(u)] + h[u \ {First(u)}]
    <2>1. u \in SUBSET T /\ u \in SUBSET V
      OBVIOUS
    <2> QED
      BY <2>1 DEF SumsUp
  <1>4. u # {} /\ First(u) \in u
    BY <1>3, FirstIsElement
  <1>5. u \ {First(u)} \notin Bad
    BY <1>2, <1>4
  <1>6. g[u \ {First(u)}] = h[u \ {First(u)}]
    BY <1>5
  <1> QED
    BY <1>3, <1>4, <1>6

\* and one exists for every finite set: the recursion of a sum has a solution,
LEMMA SumsExist ==
  ASSUME NEW S, IsFiniteSet(S), NEW f
  PROVE  \E g : SumsUp(g, f, S)
  <1> DEFINE Bad == {T \in SUBSET S : ~ \E g : SumsUp(g, f, T)}
  <1>1. SUFFICES ASSUME Bad # {} PROVE FALSE
    OBVIOUS
  <1>2. PICK T \in Bad : \A w \in Bad : w \subseteq T => w = T
    <2> HIDE DEF Bad
    <2>1. Bad \subseteq SUBSET S
      BY DEF Bad
    <2> QED
      BY <1>1, <2>1, SmallestSet
  <1> DEFINE Sum(u) == CHOOSE g : SumsUp(g, f, u)
             rest(u) == u \ {First(u)}
             G == [s \in SUBSET T |-> IF s = {} THEN 0 ELSE f[First(s)] + Sum(rest(s))[rest(s)]]
  <1>3. ASSUME NEW u \in SUBSET T, u # T PROVE SumsUp(Sum(u), f, u)
    <2>1. \E g : SumsUp(g, f, u)
      BY <1>2, <1>3
    <2> QED
      BY <2>1
  <1>4. ASSUME NEW u \in SUBSET T, u # T PROVE G[u] = Sum(u)[u]
    <2>1. SumsUp(Sum(u), f, u)
      BY <1>3, <1>4
    <2>2. Sum(u)[u] = IF u = {} THEN 0 ELSE f[First(u)] + Sum(u)[rest(u)]
      <3> HIDE DEF Sum
      <3>1. u \in SUBSET u
        OBVIOUS
      <3> QED
        BY <2>1, <3>1 DEF SumsUp
    <2>3. CASE u = {}
      <3> HIDE DEF Sum
      <3> QED
        BY <2>2, <2>3
    <2>4. CASE u # {}
      <3>1. rest(u) \in SUBSET T /\ rest(u) # T /\ rest(u) \subseteq u
        BY <2>4, FirstIsElement, <1>4
      <3>2. SumsUp(Sum(rest(u)), f, rest(u))
        <4> HIDE DEF Sum, rest
        <4> QED
          BY <1>3, <3>1
      <3>3. Sum(u)[rest(u)] = Sum(rest(u))[rest(u)]
        <4>1. u \in SUBSET S /\ rest(u) \in SUBSET S
          BY <3>1
        <4> HIDE DEF Sum, rest
        <4> QED
          BY <2>1, <3>1, <3>2, <4>1, SumsAgree
      <3> HIDE DEF Sum, rest
      <3> QED
        BY <2>2, <2>4, <3>3
    <2> QED
      BY <2>3, <2>4
  <1>5. SumsUp(G, f, T)
    <2>1. ASSUME NEW s \in SUBSET T, s # {} PROVE Sum(rest(s))[rest(s)] = G[rest(s)]
      <3>1. rest(s) \in SUBSET T /\ rest(s) # T
        BY <2>1, FirstIsElement
      <3> HIDE DEF Sum, rest, G
      <3> QED
        BY <1>4, <3>1
    <2>2. G = [s \in SUBSET T |-> IF s = {} THEN 0 ELSE f[First(s)] + G[rest(s)]]
      <3> HIDE DEF Sum
      <3> QED
        BY <2>1
    <2> HIDE DEF Sum, G
    <2> QED
      BY <2>2 DEF SumsUp
  <1> QED
    <2> HIDE DEF Sum, G
    <2> QED
      BY <1>5

\* which is what SumFunctionOnSet chooses.
LEMMA SumIsAFold ==
  ASSUME NEW f, NEW S PROVE SumFunctionOnSet(f, S) = (CHOOSE g : SumsUp(g, f, S))[S]
  BY DEF SumFunctionOnSet, FoldFunctionOnSet, MapThenFoldSet, SumsUp, First

\* A sum over a finite set is its first element's value and the sum over the rest.
LEMMA SumTakesFirst ==
  ASSUME NEW S, IsFiniteSet(S), NEW f
  PROVE  SumFunctionOnSet(f, S) =
           IF S = {} THEN 0 ELSE f[First(S)] + SumFunctionOnSet(f, S \ {First(S)})
  <1> DEFINE Sum(u) == CHOOSE g : SumsUp(g, f, u)
             rest == S \ {First(S)}
  <1>1. rest \in SUBSET S /\ IsFiniteSet(rest) /\ S \in SUBSET S
    BY FS_Subset
  <1>2. SumsUp(Sum(S), f, S) /\ SumsUp(Sum(rest), f, rest)
    BY <1>1, SumsExist
  <1>3. SumFunctionOnSet(f, S) = Sum(S)[S] /\ SumFunctionOnSet(f, rest) = Sum(rest)[rest]
    BY SumIsAFold
  <1> HIDE DEF Sum, rest
  <1>4. Sum(S)[S] = IF S = {} THEN 0 ELSE f[First(S)] + Sum(S)[rest]
    BY <1>1, <1>2 DEF SumsUp, rest
  <1>5. Sum(S)[rest] = Sum(rest)[rest]
    BY <1>1, <1>2, SumsAgree
  <1> QED
    BY <1>3, <1>4, <1>5 DEF rest

\* A sum of integers is an integer,
LEMMA SumIsInt ==
  ASSUME NEW S, IsFiniteSet(S), NEW f, \A i \in S : f[i] \in Int
  PROVE  SumFunctionOnSet(f, S) \in Int
  <1> DEFINE Bad == {T \in SUBSET S : SumFunctionOnSet(f, T) \notin Int}
  <1> SUFFICES ASSUME Bad # {} PROVE FALSE
    OBVIOUS
  <1>1. PICK T \in Bad : \A w \in Bad : w \subseteq T => w = T
    <2> HIDE DEF Bad
    <2>1. Bad \subseteq SUBSET S
      BY DEF Bad
    <2> QED
      BY <2>1, SmallestSet
  <1>2. SumFunctionOnSet(f, T) =
          IF T = {} THEN 0 ELSE f[First(T)] + SumFunctionOnSet(f, T \ {First(T)})
    BY FS_Subset, SumTakesFirst
  <1>3. CASE T # {}
    <2>1. First(T) \in T
      BY <1>3, FirstIsElement
    <2>2. SumFunctionOnSet(f, T \ {First(T)}) \in Int
      BY <1>1, <2>1
    <2> QED
      BY <1>2, <1>3, <2>1, <2>2
  <1> QED
    BY <1>2, <1>3

\* and one of zeros is zero.
LEMMA SumOfZeros ==
  ASSUME NEW S, IsFiniteSet(S), NEW f, \A i \in S : f[i] = 0
  PROVE  SumFunctionOnSet(f, S) = 0
  <1> DEFINE Bad == {T \in SUBSET S : SumFunctionOnSet(f, T) # 0}
  <1> SUFFICES ASSUME Bad # {} PROVE FALSE
    OBVIOUS
  <1>1. PICK T \in Bad : \A w \in Bad : w \subseteq T => w = T
    <2> HIDE DEF Bad
    <2>1. Bad \subseteq SUBSET S
      BY DEF Bad
    <2> QED
      BY <2>1, SmallestSet
  <1>2. SumFunctionOnSet(f, T) =
          IF T = {} THEN 0 ELSE f[First(T)] + SumFunctionOnSet(f, T \ {First(T)})
    BY FS_Subset, SumTakesFirst
  <1>3. CASE T # {}
    <2>1. First(T) \in T
      BY <1>3, FirstIsElement
    <2>2. SumFunctionOnSet(f, T \ {First(T)}) = 0
      BY <1>1, <2>1
    <2> QED
      BY <1>2, <1>3, <2>1, <2>2
  <1> QED
    BY <1>2, <1>3

\* Equal values have equal sums.
LEMMA SumsOfEquals ==
  ASSUME NEW S, IsFiniteSet(S), NEW f, NEW h, \A i \in S : h[i] = f[i]
  PROVE  SumFunctionOnSet(h, S) = SumFunctionOnSet(f, S)
  <1> DEFINE Bad == {T \in SUBSET S : SumFunctionOnSet(h, T) # SumFunctionOnSet(f, T)}
  <1> SUFFICES ASSUME Bad # {} PROVE FALSE
    OBVIOUS
  <1>1. PICK T \in Bad : \A w \in Bad : w \subseteq T => w = T
    <2> HIDE DEF Bad
    <2>1. Bad \subseteq SUBSET S
      BY DEF Bad
    <2> QED
      BY <2>1, SmallestSet
  <1> DEFINE rest == T \ {First(T)}
  <1>2. /\ SumFunctionOnSet(f, T) = IF T = {} THEN 0 ELSE f[First(T)] + SumFunctionOnSet(f, rest)
        /\ SumFunctionOnSet(h, T) = IF T = {} THEN 0 ELSE h[First(T)] + SumFunctionOnSet(h, rest)
    BY FS_Subset, SumTakesFirst
  <1>3. CASE T # {}
    <2>1. First(T) \in T
      BY <1>3, FirstIsElement
    <2>2. SumFunctionOnSet(h, rest) = SumFunctionOnSet(f, rest)
      BY <1>1, <2>1
    <2> QED
      BY <1>1, <1>2, <1>3, <2>1, <2>2
  <1> QED
    BY <1>1, <1>2, <1>3

\* When one value changes, a sum changes by as much.
LEMMA SumMoves ==
  ASSUME NEW S, IsFiniteSet(S), NEW f, NEW h, \A i \in S : f[i] \in Int /\ h[i] \in Int,
         NEW x \in S, \A i \in S \ {x} : h[i] = f[i]
  PROVE  SumFunctionOnSet(h, S) = SumFunctionOnSet(f, S) + (h[x] - f[x])
  <1> DEFINE Moves(T) == SumFunctionOnSet(h, T) = SumFunctionOnSet(f, T) + (h[x] - f[x])
             Bad == {T \in SUBSET S : x \in T /\ ~ Moves(T)}
  <1> SUFFICES ASSUME Bad # {} PROVE FALSE
    OBVIOUS
  <1>1. PICK T \in Bad : \A w \in Bad : w \subseteq T => w = T
    <2> HIDE DEF Bad
    <2>1. Bad \subseteq SUBSET S
      BY DEF Bad
    <2> QED
      BY <2>1, SmallestSet
  <1> DEFINE rest == T \ {First(T)}
  <1>2. IsFiniteSet(T) /\ IsFiniteSet(rest) /\ T # {} /\ First(T) \in T
    BY FS_Subset, FirstIsElement
  <1>3. /\ SumFunctionOnSet(f, T) = f[First(T)] + SumFunctionOnSet(f, rest)
        /\ SumFunctionOnSet(h, T) = h[First(T)] + SumFunctionOnSet(h, rest)
    BY <1>2, SumTakesFirst
  <1>4. SumFunctionOnSet(f, rest) \in Int
    BY <1>2, SumIsInt
  <1>5. CASE First(T) = x
    <2>1. SumFunctionOnSet(h, rest) = SumFunctionOnSet(f, rest)
      <3>1. \A i \in rest : h[i] = f[i]
        BY <1>5
      <3> HIDE DEF rest
      <3> QED
        BY <1>2, <3>1, SumsOfEquals
    <2> HIDE DEF rest
    <2>2. Moves(T)
      BY <1>3, <1>4, <1>5, <2>1
    <2> QED
      BY <1>1, <2>2
  <1>6. CASE First(T) # x
    <2>1. Moves(rest) /\ h[First(T)] = f[First(T)] /\ f[First(T)] \in Int
      BY <1>1, <1>2, <1>6
    <2> HIDE DEF rest
    <2>2. Moves(T)
      BY <1>3, <1>4, <2>1
    <2> QED
      BY <1>1, <2>2
  <1> QED
    BY <1>5, <1>6

------------------------------------------------------------------------------
(* The proved parts are the parts of SupplyChain *)

\* A request of the Order service goes on here as it does in Orders,
LEMMA OrdersAdvance ==
  ASSUME NEW r, O!Advance(r) PROVE Ord!Advance(r)
  <1>1. O!Send(r) => Ord!Send(r)
    BY DEF O!Send, Ord!Send, O!Calling, Ord!Calling, O!net, Ord!net, O!rows,
     Ord!rows, O!history, Ord!history
  <1>2. O!NoAnswer(r) => Ord!NoAnswer(r)
    <2>1. O!CallOf(r) = Ord!CallOf(r)
      BY DEF O!CallOf, Ord!CallOf
    <2>2. O!Abandon(r) => Ord!Abandon(r)
      BY <2>1 DEF O!Abandon, Ord!Abandon, O!Cardinality, Ord!Cardinality
    <2> QED
      BY <2>2 DEF O!NoAnswer, Ord!NoAnswer, O!poolVars, Ord!poolVars, O!rows, Ord!rows
  <1>3. O!ValidateItem(r) => Ord!ValidateItem(r)
    BY DEF O!ValidateItem, Ord!ValidateItem, O!net, Ord!net, O!rows, Ord!rows,
     O!history, Ord!history, O!Pool!OnHand, Ord!Pool!OnHand, O!Pool!IsLive, Ord!Pool!IsLive
  <1>4. O!ValidateFails(r) => Ord!ValidateFails(r)
    BY DEF O!ValidateFails, Ord!ValidateFails, O!Rollback, Ord!Rollback,
     O!EndRequest, Ord!EndRequest, O!Unlock, Ord!Unlock, O!Idle, Ord!Idle,
     O!net, Ord!net, O!history, Ord!history
  <1>5. O!Reserved(r) => Ord!Reserved(r)
    BY DEF O!Reserved, Ord!Reserved, O!Answered, Ord!Answered, O!net, Ord!net,
     O!rows, Ord!rows, O!history, Ord!history
  <1>6. O!ReserveRaises(r) => Ord!ReserveRaises(r)
    BY DEF O!ReserveRaises, Ord!ReserveRaises, O!Answered, Ord!Answered, O!net,
     Ord!net, O!rows, Ord!rows, O!history, Ord!history
  <1>7. O!Released(r) => Ord!Released(r)
    BY DEF O!Released, Ord!Released, O!Answered, Ord!Answered, O!net, Ord!net,
     O!rows, Ord!rows, O!history, Ord!history
  <1>8. O!CreateRaises(r) => Ord!CreateRaises(r)
    BY DEF O!CreateRaises, Ord!CreateRaises, O!Rollback, Ord!Rollback,
     O!EndRequest, Ord!EndRequest, O!Unlock, Ord!Unlock, O!Idle, Ord!Idle,
     O!net, Ord!net, O!history, Ord!history
  <1>9. O!ConfirmAndPublish(r) => Ord!ConfirmAndPublish(r)
    BY DEF O!ConfirmAndPublish, Ord!ConfirmAndPublish, O!net, Ord!net, O!rows,
     Ord!rows, O!history, Ord!history
  <1>10. O!CreateCommit(r) => Ord!CreateCommit(r)
    BY DEF O!CreateCommit, Ord!CreateCommit, O!Store, Ord!Store, O!EndRequest,
     Ord!EndRequest, O!Unlock, Ord!Unlock, O!Idle, Ord!Idle, O!net, Ord!net,
     O!history, Ord!history
  <1>11. O!CancelFlush(r) => Ord!CancelFlush(r)
    BY DEF O!CancelFlush, Ord!CancelFlush, O!Lock, Ord!Lock, O!net, Ord!net
  <1>12. O!CancelCommit(r) => Ord!CancelCommit(r)
    BY DEF O!CancelCommit, Ord!CancelCommit, O!Store, Ord!Store, O!EndRequest,
     Ord!EndRequest, O!Unlock, Ord!Unlock, O!Idle, Ord!Idle, O!net, Ord!net,
     O!history, Ord!history
  <1>13. O!EventFlush(r) => Ord!EventFlush(r)
    BY DEF O!EventFlush, Ord!EventFlush, O!Lock, Ord!Lock, O!net, Ord!net,
     O!history, Ord!history
  <1>14. O!EventCommit(r) => Ord!EventCommit(r)
    BY DEF O!EventCommit, Ord!EventCommit, O!Store, Ord!Store, O!EndRequest,
     Ord!EndRequest, O!Unlock, Ord!Unlock, O!Idle, Ord!Idle, O!net, Ord!net,
     O!history, Ord!history
  <1>15. O!EventDuplicate(r) => Ord!EventDuplicate(r)
    BY DEF O!EventDuplicate, Ord!EventDuplicate, O!Rollback, Ord!Rollback,
     O!EndRequest, Ord!EndRequest, O!Unlock, Ord!Unlock, O!Idle, Ord!Idle,
     O!net, Ord!net, O!history, Ord!history
  <1>16. O!LockWaitFails(r) => Ord!LockWaitFails(r)
    BY DEF O!LockWaitFails, Ord!LockWaitFails, O!Rollback, Ord!Rollback,
     O!EndRequest, Ord!EndRequest, O!Unlock, Ord!Unlock, O!Idle, Ord!Idle,
     O!net, Ord!net, O!history, Ord!history
  <1> QED
    BY <1>1, <1>2, <1>3, <1>4, <1>5, <1>6, <1>7, <1>8, <1>9, <1>10, <1>11, <1>12,
       <1>13, <1>14, <1>15, <1>16 DEF O!Advance, Ord!Advance

\* Inventory answers a call here as it does there,
LEMMA InventoryExecutes ==
  ASSUME NEW c PROVE (O!Executes(c) => Ord!Executes(c)) /\ (O!Refuses(c) => Ord!Refuses(c))
  BY DEF O!Executes, Ord!Executes, O!Refuses, Ord!Refuses, O!poolVars, Ord!poolVars,
     O!Pool!GrantOne, Ord!Pool!GrantOne, O!Pool!TakeBack, Ord!Pool!TakeBack,
     O!Pool!Grant, Ord!Pool!Grant, O!Pool!IsLive, Ord!Pool!IsLive,
     O!Pool!OnHand, Ord!Pool!OnHand

\* a call is executed within its time,
LEMMA OrdersServe ==
  ASSUME NEW r, O!Serve(r) PROVE Ord!Serve(r)
  <1>1. O!CallOf(r) = Ord!CallOf(r)
    BY DEF O!CallOf, Ord!CallOf
  <1> QED
    BY <1>1, InventoryExecutes DEF O!Serve, Ord!Serve, O!rows, Ord!rows, O!history, Ord!history

\* or after the caller gave up,
LEMMA OrdersServeLate ==
  ASSUME NEW c, O!ServeLate(c) PROVE Ord!ServeLate(c)
  BY InventoryExecutes DEF O!ServeLate, Ord!ServeLate, O!rows, Ord!rows, O!history, Ord!history

\* the container dies with its requests,
LEMMA OrdersCrash ==
  ASSUME NEW r, O!Crash(r) PROVE Ord!Crash(r)
  <1>1. O!CallOf(r) = Ord!CallOf(r)
    BY DEF O!CallOf, Ord!CallOf
  <1>2. O!Abandon(r) => Ord!Abandon(r)
    BY <1>1 DEF O!Abandon, Ord!Abandon, O!Cardinality, Ord!Cardinality
  <1>3. O!Rollback(r) => Ord!Rollback(r)
    BY DEF O!Rollback, Ord!Rollback, O!EndRequest, Ord!EndRequest, O!Unlock, Ord!Unlock,
       O!Idle, Ord!Idle
  <1> QED
    BY <1>2, <1>3 DEF O!Crash, Ord!Crash, O!poolVars, Ord!poolVars

\* and a request or the delivery of an event begins.
LEMMA OrdersBegin ==
  ASSUME NEW r
  PROVE  /\ \A o \in Order : /\ O!StartCreate(r, o) => Ord!StartCreate(r, o)
                             /\ O!CancelRead(r, o) => Ord!CancelRead(r, o)
         /\ \A e \in FulfillmentEvent : O!EventRead(r, e) => Ord!EventRead(r, e)
  BY DEF O!StartCreate, Ord!StartCreate, O!CancelRead, Ord!CancelRead, O!EventRead,
     Ord!EventRead, O!CanTransition, Ord!CanTransition, O!Transitions, Ord!Transitions,
     O!net, Ord!net, O!rows, Ord!rows, O!history, Ord!history, O!Idle, Ord!Idle

\* Stock keeping does the same here as there.
LEMMA OrdersKeepStock == O!KeepStock => Ord!KeepStock
  <1>1. ASSUME NEW p, NEW a PROVE O!SetQuantity(p, a) => Ord!SetQuantity(p, a)
    BY DEF O!SetQuantity, Ord!SetQuantity, O!Pool!Recount, Ord!Pool!Recount,
       O!Pool!IsLive, Ord!Pool!IsLive, O!rows, Ord!rows
  <1>2. ASSUME NEW p PROVE O!DeleteProduct(p) => Ord!DeleteProduct(p)
    BY DEF O!DeleteProduct, Ord!DeleteProduct, O!Pool!Drop, Ord!Pool!Drop,
       O!Pool!IsLive, Ord!Pool!IsLive, O!rows, Ord!rows, O!history, Ord!history
  <1> QED
    BY <1>1, <1>2 DEF O!KeepStock, Ord!KeepStock

\* The inductive invariants are one.
LEMMA OrdersInvariant == O!IInv <=> Ord!IInv
  <1>1. O!TypeOK <=> Ord!TypeOK
    BY DEF O!TypeOK, Ord!TypeOK, O!Status, Ord!Status, O!ReqRecord, Ord!ReqRecord, O!Op,
       Ord!Op, O!ItemNo, Ord!ItemNo, O!Call, Ord!Call
  <1>2. O!SlotsAreSound <=> Ord!SlotsAreSound
    BY DEF O!SlotsAreSound, Ord!SlotsAreSound
  <1>3. O!OneSagaPerOrder <=> Ord!OneSagaPerOrder
    BY DEF O!OneSagaPerOrder, Ord!OneSagaPerOrder, O!Saga, Ord!Saga
  <1>4. O!LateCallsAreSound <=> Ord!LateCallsAreSound
    BY DEF O!LateCallsAreSound, Ord!LateCallsAreSound, O!Failed, Ord!Failed
  <1>5. O!OneReservePerItem <=> Ord!OneReservePerItem
    BY DEF O!OneReservePerItem, Ord!OneReservePerItem, O!Pending, Ord!Pending,
       O!PendingLate, Ord!PendingLate
  <1>6. O!GrantedItemsAreHeld <=> Ord!GrantedItemsAreHeld
    BY DEF O!GrantedItemsAreHeld, Ord!GrantedItemsAreHeld, O!Granted, Ord!Granted
  <1> QED
    BY <1>1, <1>2, <1>3, <1>4, <1>5, <1>6 DEF O!IInv, Ord!IInv

\* Both start in the same states of Orders
LEMMA OrdersStart == O!Init => Ord!Init
  BY DEF O!Init, Ord!Init, O!Pool!Live, Ord!Pool!Live, O!Idle, Ord!Idle, O!Held, Ord!Held

\* and of Fulfillment.
LEMMA FulfillmentStart == F!Init => Ful!Init
  BY DEF F!Init, Ful!Init, F!Idle, Ful!Idle

\* A request of the Fulfillment service goes on, or dies,
LEMMA FulfillmentAdvance ==
  ASSUME NEW r PROVE (F!Advance(r) => Ful!Advance(r)) /\ (F!Crash(r) => Ful!Crash(r))
  <1>1. /\ F!Written(r) => Ful!Written(r)
        /\ F!EndTx(r) => Ful!EndTx(r)
        /\ F!Rollback(r) => Ful!Rollback(r)
        /\ F!Creating(r) <=> Ful!Creating(r)
        /\ F!CanLock(r) <=> Ful!CanLock(r)
    BY DEF F!Written, Ful!Written, F!EndTx, Ful!EndTx, F!Rollback, Ful!Rollback,
       F!Creating, Ful!Creating, F!CanLock, Ful!CanLock, F!Idle, Ful!Idle, F!out, Ful!out
  <1>2. F!CreateInsert(r) => Ful!CreateInsert(r)
    BY <1>1 DEF F!CreateInsert, Ful!CreateInsert, F!MayPublish, Ful!MayPublish
  <1>3. F!CreateDuplicate(r) => Ful!CreateDuplicate(r)
    BY <1>1 DEF F!CreateDuplicate, Ful!CreateDuplicate
  <1>4. F!CreateExisting(r) => Ful!CreateExisting(r)
    BY <1>1 DEF F!CreateExisting, Ful!CreateExisting, F!out, Ful!out
  <1>5. F!TransitionWrite(r) => Ful!TransitionWrite(r)
    BY <1>1 DEF F!TransitionWrite, Ful!TransitionWrite, F!MayPublish, Ful!MayPublish,
       F!Target, Ful!Target
  <1>6. F!Commit(r) => Ful!Commit(r)
    BY <1>1 DEF F!Commit, Ful!Commit, F!out, Ful!out
  <1>7. F!LockWaitFails(r) => Ful!LockWaitFails(r)
    BY <1>1 DEF F!LockWaitFails, Ful!LockWaitFails
  <1>8. F!Crash(r) => Ful!Crash(r)
    BY <1>1 DEF F!Crash, Ful!Crash
  <1> QED
    BY <1>2, <1>3, <1>4, <1>5, <1>6, <1>7, <1>8 DEF F!Advance, Ful!Advance

\* and begins, here as it does in Fulfillment.
LEMMA FulfillmentBegin ==
  ASSUME NEW r
  PROVE  /\ \A e \in Order : F!CreateRead(r, e) => Ful!CreateRead(r, e)
         /\ \A o \in Order, s \in F!Target :
              F!TransitionRead(r, o, s) => s \in Ful!Target /\ Ful!TransitionRead(r, o, s)
  <1>1. \A o, s, e : F!Read(r, o, s, e) => Ful!Read(r, o, s, e)
    BY DEF F!Read, Ful!Read, F!Target, Ful!Target, F!out, Ful!out
  <1> QED
    BY <1>1 DEF F!CreateRead, Ful!CreateRead, F!TransitionRead, Ful!TransitionRead,
       F!Target, Ful!Target, F!Transitions, Ful!Transitions

\* The inductive invariants are one.
LEMMA FulfillmentInvariant == F!IInv <=> Ful!IInv
  <1>1. F!TypeOK <=> Ful!TypeOK
    BY DEF F!TypeOK, Ful!TypeOK, F!Status, Ful!Status, F!ReqRecord, Ful!ReqRecord
  <1>2. /\ F!StagesWereReached <=> Ful!StagesWereReached
        /\ F!TransactionsAreSound <=> Ful!TransactionsAreSound
        /\ F!ReportsBelong <=> Ful!ReportsBelong
    BY DEF F!ReportsBelong, Ful!ReportsBelong, F!StagesWereReached, Ful!StagesWereReached, F!TransactionsAreSound,
       Ful!TransactionsAreSound, F!Before, Ful!Before, F!Target, Ful!Target
  <1>3. /\ F!AssignedNeedsRecord <=> Ful!AssignedNeedsRecord
        /\ F!AssignedOncePerRecord <=> Ful!AssignedOncePerRecord
        /\ F!CompletedWasShipped <=> Ful!CompletedWasShipped
    BY DEF F!AssignedNeedsRecord, Ful!AssignedNeedsRecord, F!AssignedOncePerRecord,
       Ful!AssignedOncePerRecord, F!CompletedWasShipped, Ful!CompletedWasShipped
  <1> QED
    BY <1>1, <1>2, <1>3 DEF F!IInv, Ful!IInv

------------------------------------------------------------------------------
(* What each service keeps, it keeps among the others *)

\* Inventory's reservation for an order.created is no step of the Order service:
\* it leaves more reserved units behind, which its invariant does not mind.
LEMMA DemandIsNat ==
  ASSUME NEW o \in Order, NEW p \in Product PROVE O!Demand[o][p] \in Nat
  <1> DEFINE asked == {i \in DOMAIN Items[o] : Items[o][i] = p}
  <1>1. Items[o] \in Seq(Product)
    BY SupplyChainAssumption
  <1>2. DOMAIN Items[o] = 1 .. Len(Items[o]) /\ Len(Items[o]) \in Nat
    BY <1>1
  <1>3. IsFiniteSet(1 .. Len(Items[o]))
    BY <1>2, FS_Interval
  <1>4. IsFiniteSet(asked)
    BY <1>2, <1>3, FS_Subset
  <1>5. Cardinality(asked) \in Nat
    BY <1>4, FS_CardinalityType
  <1>6. O!Cardinality(asked) = Cardinality(asked)
    BY DEF O!Cardinality, Cardinality
  <1>7. O!Demand[o][p] = O!Cardinality(asked)
    BY DEF O!Demand
  <1> QED
    BY <1>5, <1>6, <1>7

\* The subscriber's reservation leaves more units reserved and nothing less.
LEMMA InventoryReservesKeepsOrders ==
  ASSUME O!IInv, NEW o \in Order, InventoryReserves(o)
  PROVE  O!IInv'
  <1>1. UNCHANGED <<status, rowLock, req, call, late, published, processed, used, holds,
                    troubled, cancelling, shorted>>
    BY DEF InventoryReserves
  <1>2. handled' \subseteq Order /\ O!TypeOK
    BY DEF InventoryReserves, Pool!GrantOrder, O!IInv, O!TypeOK
  <1>3. \A p \in Product : O!Demand[o][p] \in Nat
    BY DemandIsNat
  <1>4. stock \in [Product -> [state : {"live", "deleted"}, available : Nat, reserved : Nat]]
        /\ granted \in [Product -> Int]
    BY <1>2 DEF O!TypeOK
  <1>5. stock' = [p \in Product |-> [stock[p] EXCEPT !.reserved = @ + O!Demand[o][p]]]
        /\ granted' = [p \in Product |-> granted[p] + O!Demand[o][p]]
    BY DEF InventoryReserves, Pool!GrantOrder, Pool!Grant
  <1>6. stock' \in [Product -> [state : {"live", "deleted"}, available : Nat, reserved : Nat]]
    <2>1. ASSUME NEW p \in Product
          PROVE  [stock[p] EXCEPT !.reserved = @ + O!Demand[o][p]]
                   \in [state : {"live", "deleted"}, available : Nat, reserved : Nat]
      <3>1. stock[p] \in [state : {"live", "deleted"}, available : Nat, reserved : Nat]
        BY <1>4
      <3>2. stock[p].reserved + O!Demand[o][p] \in Nat
        BY <1>3, <3>1
      <3> QED
        BY <3>1, <3>2
    <2> QED
      BY <1>5, <2>1
  <1>7. granted' \in [Product -> Int]
    BY <1>3, <1>4, <1>5
  <1>8. O!TypeOK'
    BY <1>1, <1>2, <1>6, <1>7 DEF O!TypeOK
  <1> QED
    BY <1>1, <1>8 DEF O!IInv, O!SlotsAreSound, O!OneSagaPerOrder, O!LateCallsAreSound,
       O!OneReservePerItem, O!GrantedItemsAreHeld, O!Failed, O!Pending, O!PendingLate, O!Granted

\* A step of the Order service within the system is a step of the Order service.
LEMMA OrdersStep ==
  ASSUME O!IInv, [Ord!Next]_(Ord!vars) PROVE O!IInv'
  <1>1. Ord!IInv'
    BY OrdersAssumed, OrdersInvariant, Ord!NextKeeps DEF Ord!NextKeeps
  <1>2. O!IInv' <=> Ord!IInv'
    BY OrdersInvariant, PTL
  <1> QED
    BY <1>1, <1>2

\* A step of the composition is one of the Order service alone, or none of it, or
\* the subscriber's reservation,
LEMMA OrdersSteps ==
  ASSUME [Next]_vars PROVE [Ord!Next]_(Ord!vars) \/ \E o \in Order : InventoryReserves(o)
  <1>1. CASE UNCHANGED orderVars
    BY <1>1 DEF orderVars, Ord!vars
  <1>2. CASE OrderStep
    <2>1. CASE \E r \in Web, o \in Order : O!StartCreate(r, o) \/ O!CancelRead(r, o)
      <3> PICK r \in Handler, o \in Order : O!StartCreate(r, o) \/ O!CancelRead(r, o)
        BY <2>1 DEF Handler
      <3> QED
        BY OrdersBegin DEF Ord!Next, Ord!Begin
    <2>2. CASE \E r \in Handler : O!Advance(r) \/ O!Serve(r) \/ O!Crash(r)
      <3> PICK r \in Handler : O!Advance(r) \/ O!Serve(r) \/ O!Crash(r)
        BY <2>2
      <3> QED
        BY OrdersAdvance, OrdersServe, OrdersCrash DEF Ord!Next
    <2>3. CASE \E c \in late : O!ServeLate(c)
      BY <2>3, OrdersServeLate DEF Ord!Next
    <2> QED
      BY <1>2, <2>1, <2>2, <2>3 DEF OrderStep
  <1>3. ASSUME NEW e \in FulfillmentEvent, NEW r \in Thread, OrderAccepts(r, e)
        PROVE  [Ord!Next]_(Ord!vars)
    <2>1. r \in Handler /\ Ord!EventRead(r, e)
      BY <1>3, OrdersBegin DEF OrderAccepts, Handler
    <2> QED
      BY <2>1 DEF Ord!Next, Ord!Begin
  <1>4. \/ FulfillmentStep \/ (\E e \in FulfillmentEvent : OrderRefuses(e))
        \/ (\E o \in Order, r \in Staff : FulfillmentAccepts(r, o))
        \/ (\E o \in Order : InventoryRaises(o)) \/ UNCHANGED vars
        => UNCHANGED orderVars
    BY DEF FulfillmentStep, OrderRefuses, FulfillmentAccepts, InventoryRaises, vars
  <1>5. StockStep => Ord!Next
    BY OrdersKeepStock DEF StockStep, Ord!Next
  <1> QED
    BY <1>1, <1>2, <1>3, <1>4, <1>5 DEF Next, OrderConsumes

\* so none breaks the invariant of Orders.
LEMMA OrdersKeep == ASSUME O!IInv, [Next]_vars PROVE O!IInv'
  BY OrdersSteps, OrdersStep, InventoryReservesKeepsOrders

\* A step of the composition is one of the Fulfillment service, or none of it,
LEMMA FulfillmentSteps == ASSUME [Next]_vars PROVE [Ful!Next]_(Ful!vars)
  <1>1. CASE UNCHANGED recordVars
    BY <1>1 DEF recordVars, Ful!vars
  <1>2. CASE FulfillmentStep
    <2> PICK r \in Staff : \/ \E o \in Order, s \in F!Target : F!TransitionRead(r, o, s)
                           \/ F!Advance(r) \/ F!Crash(r)
      BY <1>2 DEF FulfillmentStep
    <2>1. Ful!Begin(r) \/ Ful!Advance(r) \/ Ful!Crash(r)
      BY FulfillmentBegin, FulfillmentAdvance DEF Ful!Begin
    <2> QED
      BY <2>1 DEF Ful!Next
  <1>3. ASSUME NEW o \in Order, NEW r \in Staff, FulfillmentAccepts(r, o)
        PROVE  [Ful!Next]_(Ful!vars)
    <2>1. Ful!Begin(r)
      BY <1>3, FulfillmentBegin DEF FulfillmentAccepts, Ful!Begin
    <2> QED
      BY <2>1 DEF Ful!Next
  <1>4. \/ OrderStep \/ StockStep \/ (\E e \in FulfillmentEvent : OrderConsumes(e))
        \/ (\E o \in Order : InventoryReserves(o) \/ InventoryRaises(o)) \/ UNCHANGED vars
        => UNCHANGED recordVars
    BY DEF OrderStep, StockStep, OrderConsumes, OrderAccepts, OrderRefuses, InventoryReserves,
       InventoryRaises, vars
  <1> QED
    BY <1>1, <1>2, <1>3, <1>4 DEF Next

\* so none breaks the invariant of Fulfillment.
LEMMA FulfillmentKeeps == ASSUME F!IInv, [Next]_vars PROVE F!IInv'
  <1>1. Ful!IInv'
    BY FulfillmentSteps, FulfillmentAssumed, FulfillmentInvariant, Ful!NextIInv
       DEF Ful!NextIInv
  <1>2. F!IInv' <=> Ful!IInv'
    BY FulfillmentInvariant, PTL
  <1> QED
    BY <1>1, <1>2

------------------------------------------------------------------------------
(* What a step of the Order service may do to events and rows *)

\* No event comes from nowhere, none is dropped without an excuse, and no row or
\* history goes back.
Progress ==
  /\ \A s \in Handler, e \in FulfillmentEvent : Handling(s, e)' => Handling(s, e)
  /\ \A e \in processed' \ processed : \E s \in Handler : Handling(s, e)
  /\ \A s \in Thread, e \in FulfillmentEvent :
       Handling(s, e) => \/ Handling(s, e)' \/ e \in processed'
                         \/ e.order \in troubled' \cup overtaken'
  /\ \A o \in Order :
       \/ status'[o] = status[o] \/ status'[o] = "confirmed"
       \/ status'[o] = "cancelled" /\ o \in cancelling'
       \/ \E e \in processed' : e.order = o /\ Asks[e] = status'[o]
  /\ \A o \in published' \ published :
       \E s \in Handler : req'[s].op = "created" /\ req'[s].order = o
  /\ \A s \in Handler :
       req[s].op = "created" => \/ req'[s] = req[s]
                                \/ status'[req[s].order] # "absent"
                                \/ req[s].order \in troubled'
  /\ processed \subseteq processed' /\ published \subseteq published'
  /\ cancelling \subseteq cancelling' /\ troubled \subseteq troubled'

InEvent(x) == x.op \in {"event", "moved"}

\* A slot r that goes on as x.
LEMMA SlotProgress ==
  ASSUME O!IInv, NEW r \in Handler, NEW x, req' = [req EXCEPT ![r] = x],
         InEvent(x) => InEvent(req[r]) /\ x.event = req[r].event,
         InEvent(req[r]) /\ r \in Thread =>
           \/ InEvent(x) /\ x.event = req[r].event
           \/ req[r].event \in processed' \/ req[r].order \in troubled' \cup overtaken',
         \/ processed' = processed
         \/ req[r].op = "moved" /\ processed' = processed \cup {req[r].event},
         \/ status' = status
         \/ \E v : /\ status' = [status EXCEPT ![req[r].order] = v]
                   /\ \/ v = "confirmed"
                      \/ v = "cancelled" /\ req[r].order \in cancelling'
                      \/ /\ req[r].op = "moved" /\ req[r].event \in processed'
                         /\ Asks[req[r].event] = v,
         \/ published' = published
         \/ /\ x.op = "created" /\ x.order = req[r].order
            /\ published' = published \cup {req[r].order},
         req[r].op = "created" => \/ x = req[r] \/ status'[req[r].order] # "absent"
                                  \/ req[r].order \in troubled',
         cancelling \subseteq cancelling', troubled \subseteq troubled'
  PROVE  Progress
  <1>1. \A s \in Handler : req'[s] = IF s = r THEN x ELSE req[s]
    BY DEF O!IInv, O!TypeOK
  <1>2. InEvent(req[r]) => /\ req[r].event \in FulfillmentEvent
                           /\ req[r].event.order = req[r].order
    BY DEF O!IInv, O!SlotsAreSound, InEvent, OrderOf
  <1>3. \A s \in Handler, e \in FulfillmentEvent : Handling(s, e)' => Handling(s, e)
    BY <1>1 DEF Handling, InEvent
  <1>4. \A e \in processed' \ processed : \E s \in Handler : Handling(s, e)
    BY DEF Handling
  <1>5. \A s \in Thread, e \in FulfillmentEvent :
          Handling(s, e) => \/ Handling(s, e)' \/ e \in processed'
                            \/ e.order \in troubled' \cup overtaken'
    BY <1>1, <1>2 DEF Handling, InEvent, Handler
  <1>6. \A o \in Order :
          \/ status'[o] = status[o] \/ status'[o] = "confirmed"
          \/ status'[o] = "cancelled" /\ o \in cancelling'
          \/ \E e \in processed' : e.order = o /\ Asks[e] = status'[o]
    <2> SUFFICES ASSUME NEW o \in Order, status'[o] # status[o]
                 PROVE  \/ status'[o] = "confirmed"
                        \/ status'[o] = "cancelled" /\ o \in cancelling'
                        \/ \E e \in processed' : e.order = o /\ Asks[e] = status'[o]
      OBVIOUS
    <2> PICK v : /\ status' = [status EXCEPT ![req[r].order] = v]
                 /\ \/ v = "confirmed"
                    \/ v = "cancelled" /\ req[r].order \in cancelling'
                    \/ /\ req[r].op = "moved" /\ req[r].event \in processed'
                       /\ Asks[req[r].event] = v
      OBVIOUS
    <2>1. o = req[r].order /\ status'[o] = v
      BY DEF O!IInv, O!TypeOK
    <2> QED
      BY <1>2, <2>1 DEF InEvent
  <1>7. \A o \in published' \ published :
          \E s \in Handler : req'[s].op = "created" /\ req'[s].order = o
    BY <1>1
  <1>8. \A s \in Handler :
          req[s].op = "created" => \/ req'[s] = req[s]
                                   \/ status'[req[s].order] # "absent"
                                   \/ req[s].order \in troubled'
    BY <1>1
  <1> QED
    BY <1>3, <1>4, <1>5, <1>6, <1>7, <1>8 DEF Progress

\* Nothing that Progress speaks of has changed but a history.
LEMMA StillProgress ==
  ASSUME UNCHANGED <<req, status, processed, published, cancelling>>,
         troubled \subseteq troubled'
  PROVE  Progress
  BY DEF Progress, Handling

\* The actions of a slot that write no row and no event.
LEMMA WorkProgress ==
  ASSUME O!IInv, NEW r \in Handler, overtaken \subseteq overtaken',
         \/ O!Send(r) \/ O!NoAnswer(r) \/ O!Serve(r) \/ O!ValidateItem(r) \/ O!Reserved(r)
         \/ O!ReserveRaises(r) \/ O!Released(r) \/ O!CancelFlush(r) \/ O!EventFlush(r)
         \/ O!ConfirmAndPublish(r)
         \/ \E o \in Order : O!StartCreate(r, o) \/ O!CancelRead(r, o)
  PROVE  Progress
  <1>1. req \in [Handler -> O!ReqRecord]
    BY DEF O!IInv, O!TypeOK
  <1>2. CASE O!Send(r) \/ O!NoAnswer(r) \/ O!Serve(r)
    BY <1>2, StillProgress DEF O!Send, O!NoAnswer, O!Serve, O!rows, O!history
  <1>3. CASE O!ConfirmAndPublish(r)
    <2> PICK x : x = [req[r] EXCEPT !.op = "created"]
      OBVIOUS
    <2>1. req' = [req EXCEPT ![r] = x]
      BY <1>1, <1>3 DEF O!ConfirmAndPublish
    <2>2. req[r] \in O!ReqRecord /\ req[r].op = "reserve"
      BY <1>1, <1>3 DEF O!ConfirmAndPublish
    <2>3. /\ x.op = "created" /\ x.order = req[r].order
          /\ ~ InEvent(x) /\ ~ InEvent(req[r])
      BY <2>2 DEF InEvent, O!ReqRecord
    <2>4. /\ status' = status /\ processed' = processed
          /\ cancelling' = cancelling /\ troubled' = troubled
      BY <1>3 DEF O!ConfirmAndPublish, O!rows, O!history
    <2>5. published' = published \/ published' = published \cup {req[r].order}
      BY <1>3 DEF O!ConfirmAndPublish
    <2>6. req[r].op # "created" /\ cancelling \subseteq cancelling' /\ troubled \subseteq troubled'
      BY <2>2, <2>4
    <2> QED
      BY <2>1, <2>3, <2>4, <2>5, <2>6, SlotProgress
  <1>4. CASE O!EventFlush(r)
    <2> PICK x : x = [req[r] EXCEPT !.op = "moved"]
      OBVIOUS
    <2>1. req' = [req EXCEPT ![r] = x]
      BY <1>1, <1>4 DEF O!EventFlush
    <2>2. InEvent(x) /\ x.event = req[r].event /\ InEvent(req[r]) /\ req[r].op # "created"
      BY <1>1, <1>4 DEF O!EventFlush, O!ReqRecord, InEvent
    <2>3. /\ status' = status /\ processed' = processed /\ published' = published
          /\ cancelling' = cancelling /\ troubled' = troubled
      BY <1>4 DEF O!EventFlush, O!history
    <2> QED
      BY <2>1, <2>2, <2>3, SlotProgress
  <1>5. CASE \/ O!ValidateItem(r) \/ O!Reserved(r) \/ O!ReserveRaises(r) \/ O!Released(r)
             \/ O!CancelFlush(r)
             \/ \E o \in Order : O!StartCreate(r, o) \/ O!CancelRead(r, o)
    <2> PICK x : x = req'[r]
      OBVIOUS
    <2>1. req' = [req EXCEPT ![r] = x]
      BY <1>1, <1>5 DEF O!ValidateItem, O!Reserved, O!ReserveRaises, O!Released, O!CancelFlush,
         O!StartCreate, O!CancelRead
    <2>2. ~ InEvent(x) /\ ~ InEvent(req[r]) /\ req[r].op # "created"
      <3>1. ~ InEvent(req[r]) /\ req[r].op # "created"
        BY <1>5 DEF O!ValidateItem, O!Reserved, O!ReserveRaises, O!Released, O!CancelFlush,
           O!StartCreate, O!CancelRead, InEvent
      <3>2. CASE O!ValidateItem(r)
        <4>1. x.op = "validate" \/ x.op = "reserve"
          BY <1>1, <3>2 DEF O!ValidateItem, O!ReqRecord
        <4> QED
          BY <3>1, <4>1 DEF InEvent
      <3>3. CASE O!Reserved(r) \/ O!Released(r)
        <4>1. x.op = req[r].op
          BY <1>1, <3>3 DEF O!Reserved, O!Released, O!ReqRecord
        <4> QED
          BY <3>1, <4>1 DEF InEvent
      <3>4. CASE O!ReserveRaises(r)
        <4>1. x.op = "undo"
          BY <1>1, <3>4 DEF O!ReserveRaises, O!ReqRecord
        <4> QED
          BY <3>1, <4>1 DEF InEvent
      <3>5. CASE O!CancelFlush(r)
        <4>1. x.op = "release"
          BY <1>1, <3>5 DEF O!CancelFlush, O!ReqRecord
        <4> QED
          BY <3>1, <4>1 DEF InEvent
      <3>6. CASE \E o \in Order : O!StartCreate(r, o) \/ O!CancelRead(r, o)
        <4>1. x.op = "validate" \/ x.op = "cancel"
          BY <1>1, <3>6 DEF O!StartCreate, O!CancelRead, O!Idle
        <4> QED
          BY <3>1, <4>1 DEF InEvent
      <3> QED
        BY <1>5, <3>2, <3>3, <3>4, <3>5, <3>6
    <2>3. /\ UNCHANGED <<status, processed, published, troubled>>
          /\ cancelling \subseteq cancelling'
      BY <1>5 DEF O!ValidateItem, O!Reserved, O!ReserveRaises, O!Released, O!CancelFlush,
         O!StartCreate, O!CancelRead, O!rows, O!history
    <2> QED
      BY <2>1, <2>2, <2>3, SlotProgress
  <1> QED
    BY <1>2, <1>3, <1>4, <1>5

\* A slot that ends.
LEMMA EndProgress ==
  ASSUME O!IInv, NEW r \in Handler, NotesVainWaits,
         \/ O!ValidateFails(r) \/ O!CreateRaises(r) \/ O!CreateCommit(r) \/ O!CancelCommit(r)
         \/ O!EventCommit(r) \/ O!EventDuplicate(r) \/ O!LockWaitFails(r) \/ O!Crash(r)
  PROVE  Progress
  <1>1. req \in [Handler -> O!ReqRecord] /\ ~ InEvent(O!Idle)
    BY DEF O!IInv, O!TypeOK, InEvent, O!Idle
  <1>2. req' = [req EXCEPT ![r] = O!Idle]
    BY DEF O!ValidateFails, O!CreateRaises, O!CreateCommit, O!CancelCommit, O!EventCommit,
       O!EventDuplicate, O!LockWaitFails, O!Crash, O!Rollback, O!Store, O!EndRequest
  <1>3. CASE O!ValidateFails(r) \/ O!CreateRaises(r)
    BY <1>1, <1>2, <1>3, SlotProgress
       DEF O!ValidateFails, O!CreateRaises, O!Rollback, O!history, InEvent
  <1>4. CASE O!EventDuplicate(r)
    BY <1>1, <1>2, <1>4, SlotProgress DEF O!EventDuplicate, O!Rollback, O!history, InEvent
  <1>5. CASE O!LockWaitFails(r)
    <2>1. r \in Thread => req[r].order \in overtaken'
      BY <1>5 DEF NotesVainWaits
    <2>2. req[r].op # "created"
      BY <1>5 DEF O!LockWaitFails
    <2>3. UNCHANGED <<status, processed, published, cancelling, troubled>>
      BY <1>5 DEF O!LockWaitFails, O!Rollback, O!history
    <2> QED
      BY <1>1, <1>2, <2>1, <2>2, <2>3, SlotProgress
  <1>6. CASE O!Crash(r)
    BY <1>1, <1>2, <1>6, SlotProgress DEF O!Crash, O!Rollback
  <1>7. CASE O!CreateCommit(r)
    <2>1. /\ status' = [status EXCEPT ![req[r].order] = "confirmed"]
          /\ UNCHANGED <<processed, published, cancelling, troubled>> /\ req[r].op = "created"
      BY <1>7 DEF O!CreateCommit, O!Store, O!history
    <2>2. status'[req[r].order] # "absent" /\ ~ InEvent(req[r])
      BY <2>1 DEF O!IInv, O!TypeOK, O!SlotsAreSound, InEvent
    <2> QED
      BY <1>1, <1>2, <2>1, <2>2, SlotProgress
  <1>8. CASE O!CancelCommit(r)
    <2>1. /\ status' = [status EXCEPT ![req[r].order] = "cancelled"]
          /\ UNCHANGED <<processed, published, cancelling, troubled>> /\ req[r].op = "release"
      BY <1>8 DEF O!CancelCommit, O!Store, O!history
    <2>2. req[r].order \in cancelling' /\ ~ InEvent(req[r])
      BY <2>1 DEF O!IInv, O!OneSagaPerOrder, InEvent
    <2> QED
      BY <1>1, <1>2, <2>1, <2>2, SlotProgress
  <1>9. CASE O!EventCommit(r)
    <2>1. /\ status' = [status EXCEPT ![req[r].order] = Asks[req[r].event]]
          /\ processed' = processed \cup {req[r].event}
          /\ UNCHANGED <<published, cancelling, troubled>> /\ req[r].op = "moved"
      BY <1>9 DEF O!EventCommit, O!Store, O!history
    <2> QED
      BY <1>1, <1>2, <2>1, SlotProgress
  <1> QED
    BY <1>3, <1>4, <1>5, <1>6, <1>7, <1>8, <1>9

\* Work of the Order service that is under way.
LEMMA OrderStepProgress == ASSUME O!IInv, OrderStep PROVE Progress
  <1>1. NotesVainWaits /\ overtaken \subseteq overtaken'
    BY DEF OrderStep, NotesVainWaits
  <1>2. CASE \E r \in Web, o \in Order : O!StartCreate(r, o) \/ O!CancelRead(r, o)
    BY <1>1, <1>2, WorkProgress DEF Handler
  <1>3. CASE \E r \in Handler : O!Advance(r) \/ O!Serve(r) \/ O!Crash(r)
    BY <1>1, <1>3, WorkProgress, EndProgress DEF O!Advance
  <1>4. CASE \E c \in late : O!ServeLate(c)
    BY <1>4, StillProgress DEF O!ServeLate, O!rows, O!history
  <1> QED
    BY <1>2, <1>3, <1>4 DEF OrderStep

------------------------------------------------------------------------------
(* The system *)

\* Stock keeping changes what is on hand and which products there are.
LEMMA StockStepIsElsewhere ==
  ASSUME O!KeepStock
  PROVE  UNCHANGED <<granted, handled, late, holds, status, rowLock, req, call, published,
                     processed, used, troubled, cancelling>>
  BY DEF O!KeepStock, O!SetQuantity, O!DeleteProduct, O!Pool!Recount, O!Pool!Drop, O!rows,
     O!history

\* What is no concern of an event's delivery to the Order service.
Elsewhere ==
  /\ UNCHANGED <<status, req, processed, published, cancelling, troubled, overtaken>>
  /\ \A e \in FulfillmentEvent : attempts'[<<"order", e>>] = attempts[<<"order", e>>]

\* Every step, by what it does to the events and to the rows of orders.
LEMMA Steps ==
  ASSUME IInv, [Next]_vars
  PROVE  \/ OrderStep /\ Progress /\ UNCHANGED <<recordVars, attempts>>
         \/ \E e \in FulfillmentEvent, r \in Thread : OrderAccepts(r, e)
         \/ \E e \in FulfillmentEvent : OrderRefuses(e)
         \/ Elsewhere
  <1>1. OrderStep => Progress /\ UNCHANGED <<recordVars, attempts>>
    BY OrderStepProgress DEF IInv, OrderStep
  <1>2. FulfillmentStep \/ UNCHANGED vars => Elsewhere
    BY DEF FulfillmentStep, Elsewhere, orderVars, vars
  <1>3. ASSUME NEW o \in Order, NEW k \in {"inventory", "fulfillment"}, Deliver(<<k, o>>),
               UNCHANGED <<status, req, processed, published, cancelling, troubled, overtaken>>
        PROVE  Elsewhere
    <2>1. \A e \in FulfillmentEvent : <<"order", e>> # <<k, o>>
      OBVIOUS
    <2>2. attempts \in [Copy -> 0 .. MaxAttempts]
      BY DEF IInv, TypeOK
    <2>3. \A e \in FulfillmentEvent : <<"order", e>> \in Copy
      BY DEF Copy
    <2> QED
      BY <1>3, <2>1, <2>2, <2>3 DEF Elsewhere, Deliver
  <1>4. ASSUME NEW o \in Order, NEW r \in Staff, FulfillmentAccepts(r, o) PROVE Elsewhere
    BY <1>3, <1>4 DEF FulfillmentAccepts, orderVars
  <1>5. ASSUME NEW o \in Order, InventoryReserves(o) \/ InventoryRaises(o) PROVE Elsewhere
    BY <1>3, <1>5 DEF InventoryReserves, InventoryRaises, orderVars
  <1>6. StockStep => Elsewhere
    BY StockStepIsElsewhere DEF StockStep, Elsewhere
  <1> QED
    BY <1>1, <1>2, <1>4, <1>5, <1>6 DEF Next, OrderConsumes

\* Events are not unsent.
LEMMA SentForGood ==
  ASSUME IInv, [Next]_vars, NEW e \in FulfillmentEvent, Sent(e) PROVE Sent(e)'
  <1>1. /\ assigned \in [Order -> 0 .. MaxPublished] /\ completed \in [Order -> 0 .. MaxPublished]
        /\ MaxPublished \in Nat /\ e.order \in Order /\ e.n \in Nat
    BY SupplyChainAssumption DEF IInv, TypeOK, F!TypeOK, FulfillmentEvent
  <1>2. CASE UNCHANGED <<assigned, completed>>
    BY <1>2 DEF Sent
  <1>3. CASE FulfillmentStep
    <2> PICK r \in Staff : \/ \E o \in Order, s \in F!Target : F!TransitionRead(r, o, s)
                           \/ F!Advance(r) \/ F!Crash(r)
      BY <1>3 DEF FulfillmentStep
    <2>1. /\ UNCHANGED assigned \/ F!MayPublish(assigned, job[r].order)
          /\ UNCHANGED completed \/ F!MayPublish(completed, job[r].order)
      BY DEF F!TransitionRead, F!Read, F!Advance, F!CreateInsert, F!CreateDuplicate,
         F!CreateExisting, F!TransitionWrite, F!Commit, F!LockWaitFails, F!Crash, F!Rollback, F!out
    <2>2. /\ assigned'[e.order] >= assigned[e.order]
          /\ completed'[e.order] >= completed[e.order]
      BY <1>1, <2>1 DEF F!MayPublish
    <2>3. assigned'[e.order] \in Nat /\ completed'[e.order] \in Nat
      BY <1>1, <2>1 DEF F!MayPublish
    <2> QED
      BY <1>1, <2>2, <2>3 DEF Sent
  <1>4. ASSUME NEW o \in Order, NEW r \in Staff, FulfillmentAccepts(r, o)
        PROVE  UNCHANGED <<assigned, completed>>
    BY <1>4 DEF FulfillmentAccepts, F!CreateRead, F!Read, F!out
  <1>5. \/ OrderStep \/ StockStep \/ (\E f \in FulfillmentEvent : OrderConsumes(f))
        \/ (\E o \in Order : InventoryReserves(o) \/ InventoryRaises(o)) \/ UNCHANGED vars
        => UNCHANGED <<assigned, completed>>
    BY DEF OrderStep, StockStep, OrderConsumes, OrderAccepts, OrderRefuses, InventoryReserves,
       InventoryRaises, recordVars, vars
  <1> QED
    BY <1>2, <1>3, <1>4, <1>5 DEF Next

\* What was done and what was met is not forgotten.
LEMMA NothingIsForgotten ==
  ASSUME IInv, [Next]_vars
  PROVE  /\ processed \subseteq processed' /\ published \subseteq published'
         /\ cancelling \subseteq cancelling' /\ troubled \subseteq troubled'
         /\ overtaken \subseteq overtaken'
         /\ \A o \in Order : CompletionHandled(o) => CompletionHandled(o)'
         /\ \A o \in Order : Excused(o) => Excused(o)'
  <1>1. /\ processed \subseteq processed' /\ published \subseteq published'
        /\ cancelling \subseteq cancelling' /\ troubled \subseteq troubled'
        /\ overtaken \subseteq overtaken'
    <2>1. CASE OrderStep /\ Progress
      BY <2>1 DEF OrderStep, NotesVainWaits, Progress
    <2>2. CASE \E e \in FulfillmentEvent, r \in Thread : OrderAccepts(r, e)
      BY <2>2 DEF OrderAccepts, O!EventRead, O!history
    <2>3. CASE \E e \in FulfillmentEvent : OrderRefuses(e)
      BY <2>3 DEF OrderRefuses, orderVars
    <2>4. CASE Elsewhere
      BY <2>4 DEF Elsewhere
    <2> QED
      BY <2>1, <2>2, <2>3, <2>4, Steps
  <1>2. \A o \in Order : CompletionHandled(o) => CompletionHandled(o)'
    BY <1>1 DEF CompletionHandled
  <1> QED
    BY <1>1, <1>2 DEF Excused

\* What is delivered keeps its types.
LEMMA TypesKeep == ASSUME IInv, [Next]_vars PROVE TypeOK'
  <1>1. O!TypeOK' /\ F!TypeOK'
    BY OrdersKeep, FulfillmentKeeps DEF IInv, O!IInv, F!IInv
  <1>2. attempts \in [Copy -> 0 .. MaxAttempts] /\ overtaken \subseteq Order /\ MaxAttempts \in Nat
    BY SupplyChainAssumption DEF IInv, TypeOK
  <1>3. attempts' \in [Copy -> 0 .. MaxAttempts]
    <2>1. UNCHANGED attempts \/ \E copy \in Copy : Deliver(copy)
      <3>1. \A e \in FulfillmentEvent : <<"order", e>> \in Copy
        BY DEF Copy
      <3>2. \A o \in Order : <<"inventory", o>> \in Copy /\ <<"fulfillment", o>> \in Copy
        BY DEF Copy
      <3> QED
        BY <3>1, <3>2 DEF Next, OrderStep, FulfillmentStep, StockStep, OrderConsumes, OrderAccepts,
           OrderRefuses, FulfillmentAccepts, InventoryReserves, InventoryRaises, vars
    <2>2. ASSUME NEW copy \in Copy, Deliver(copy) PROVE attempts' \in [Copy -> 0 .. MaxAttempts]
      <3>1. attempts[copy] \in 0 .. MaxAttempts /\ attempts[copy] < MaxAttempts
        BY <1>2, <2>2 DEF Deliver
      <3>2. attempts[copy] + 1 \in 0 .. MaxAttempts
        BY <1>2, <3>1
      <3> QED
        BY <1>2, <2>2, <3>2 DEF Deliver
    <2> QED
      BY <1>2, <2>1, <2>2
  <1>4. overtaken' \subseteq Order
    <2>1. CASE OrderStep
      <3>1. ASSUME NEW t \in Thread, O!LockWaitFails(t) PROVE req[t].order \in Order
        BY <3>1 DEF O!LockWaitFails, IInv, O!IInv, O!SlotsAreSound, Handler
      <3> QED
        BY <1>2, <2>1, <3>1 DEF OrderStep, NotesVainWaits
    <2>2. CASE \E e \in FulfillmentEvent : OrderRefuses(e)
      BY <1>2, <2>2 DEF OrderRefuses, FulfillmentEvent
    <2>3. CASE (\E e \in FulfillmentEvent, r \in Thread : OrderAccepts(r, e)) \/ Elsewhere
      BY <1>2, <2>3 DEF OrderAccepts, Elsewhere
    <2> QED
      BY <2>1, <2>2, <2>3, Steps
  <1> QED
    BY <1>1, <1>3, <1>4 DEF TypeOK

\* A delivery of e begins in an idle slot r.
LEMMA Accepting ==
  ASSUME IInv, NEW e \in FulfillmentEvent, NEW r \in Thread, OrderAccepts(r, e)
  PROVE  /\ Sent(e) /\ req[r].op = "idle" /\ Handling(r, e)'
         /\ \A s \in Handler : s # r => req'[s] = req[s]
         /\ \A s \in Handler, f \in FulfillmentEvent :
              Handling(s, f)' <=> (s = r /\ f = e) \/ Handling(s, f)
         /\ UNCHANGED <<status, processed, published, cancelling, troubled, overtaken>>
  <1>1. req \in [Handler -> O!ReqRecord] /\ r \in Handler
    BY DEF IInv, O!IInv, O!TypeOK, Handler
  <1>2. /\ Sent(e) /\ req[r].op = "idle"
        /\ req' = [req EXCEPT ![r] = [O!Idle EXCEPT !.op = "event", !.order = OrderOf[e],
                                                    !.event = e]]
        /\ UNCHANGED <<status, processed, published, cancelling, troubled, overtaken>>
    BY DEF OrderAccepts, O!EventRead, O!rows, O!history
  <1>3. req'[r].op = "event" /\ req'[r].event = e
    BY <1>1, <1>2 DEF O!Idle
  <1>4. \A s \in Handler : s # r => req'[s] = req[s]
    BY <1>1, <1>2
  <1> QED
    BY <1>1, <1>2, <1>3, <1>4 DEF Handling

\* Events are handled after they were sent.
LEMMA EventsKeep == ASSUME IInv, [Next]_vars PROVE EventsWereSent'
  <1>1. \A e \in FulfillmentEvent : Sent(e) => Sent(e)'
    BY SentForGood
  <1>2. /\ \A r \in Handler, e \in FulfillmentEvent : Handling(r, e) => Sent(e)
        /\ \A e \in processed : Sent(e)
        /\ \A o \in Order : status[o] = "delivered" => CompletionHandled(o)
        /\ processed \subseteq FulfillmentEvent
    BY DEF IInv, EventsWereSent, TypeOK, O!TypeOK
  <1>3. processed' \subseteq FulfillmentEvent
    BY TypesKeep DEF TypeOK, O!TypeOK
  <1>4. \A r \in Handler, e \in FulfillmentEvent : Handling(r, e)' => Sent(e)'
    <2>1. CASE Progress
      BY <1>1, <1>2, <2>1 DEF Progress
    <2>2. CASE \E e \in FulfillmentEvent, r \in Thread : OrderAccepts(r, e)
      BY <1>1, <1>2, <2>2, Accepting
    <2>3. CASE (\E e \in FulfillmentEvent : OrderRefuses(e)) \/ Elsewhere
      <3>1. req' = req
        BY <2>3 DEF OrderRefuses, orderVars, Elsewhere
      <3> QED
        BY <1>1, <1>2, <3>1 DEF Handling
    <2> QED
      BY <2>1, <2>2, <2>3, Steps
  <1>5. \A e \in processed' : Sent(e)'
    <2>1. CASE Progress
      BY <1>1, <1>2, <1>3, <2>1 DEF Progress
    <2>2. CASE processed' = processed
      BY <1>1, <1>2, <2>2
    <2> QED
      BY <2>1, <2>2, Steps, Accepting DEF OrderRefuses, orderVars, Elsewhere
  <1>6. \A o \in Order : status'[o] = "delivered" => CompletionHandled(o)'
    <2>1. \A o \in Order : CompletionHandled(o) => CompletionHandled(o)'
      BY NothingIsForgotten
    <2>2. CASE Progress
      <3>1. \A e \in processed' : Asks[e] = "delivered" => e.kind = "completed"
        BY <1>3 DEF Asks, FulfillmentEvent
      <3> QED
        BY <1>2, <2>1, <2>2, <3>1 DEF Progress, CompletionHandled
    <2>3. CASE status' = status
      BY <1>2, <2>1, <2>3
    <2> QED
      BY <2>2, <2>3, Steps, Accepting DEF OrderRefuses, orderVars, Elsewhere
  <1> QED
    BY <1>4, <1>5, <1>6 DEF EventsWereSent

\* A published order has its row or a saga that will write it.
LEMMA PublishedKeep == ASSUME IInv, [Next]_vars PROVE PublishedOrdersCome'
  <1>1. /\ \A o \in published \ troubled :
             \/ status[o] # "absent"
             \/ \E r \in Handler : req[r].op = "created" /\ req[r].order = o
        /\ \A o \in Order : status[o] = "cancelled" => o \in cancelling
        /\ published \subseteq Order
    BY DEF IInv, PublishedOrdersCome, TypeOK, O!TypeOK
  <1>2. cancelling \subseteq cancelling' /\ troubled \subseteq troubled'
    BY NothingIsForgotten
  <1>3. /\ published' \subseteq Order /\ processed' \subseteq FulfillmentEvent
    BY TypesKeep DEF TypeOK, O!TypeOK
  <1>4. CASE Progress
    <2>1. \A e \in processed' : Asks[e] \in {"processing", "delivered"}
      BY <1>3 DEF Asks
    <2>2. \A o \in Order : status'[o] = "cancelled" => o \in cancelling'
      BY <1>1, <1>2, <1>4, <2>1 DEF Progress
    <2>3. \A o \in Order : status[o] # "absent" => status'[o] # "absent"
      BY <1>4, <2>1 DEF Progress
    <2>4. ASSUME NEW o \in published' \ troubled'
          PROVE  \/ status'[o] # "absent"
                 \/ \E r \in Handler : req'[r].op = "created" /\ req'[r].order = o
      <3>1. CASE o \notin published
        BY <1>4, <3>1 DEF Progress
      <3>2. CASE o \in published /\ status[o] # "absent"
        BY <1>1, <2>3, <3>2
      <3>3. CASE \E r \in Handler : req[r].op = "created" /\ req[r].order = o
        BY <1>4, <2>4, <3>3 DEF Progress
      <3> QED
        BY <1>1, <1>2, <3>1, <3>2, <3>3
    <2> QED
      BY <2>2, <2>4 DEF PublishedOrdersCome
  <1>5. CASE \E e \in FulfillmentEvent, r \in Thread : OrderAccepts(r, e)
    <2> PICK e \in FulfillmentEvent, r \in Thread : OrderAccepts(r, e)
      BY <1>5
    <2>1. /\ UNCHANGED <<status, published, cancelling, troubled>> /\ req[r].op = "idle"
          /\ \A s \in Handler : s # r => req'[s] = req[s]
      BY Accepting
    <2> QED
      BY <1>1, <2>1 DEF PublishedOrdersCome
  <1>6. CASE (\E e \in FulfillmentEvent : OrderRefuses(e)) \/ Elsewhere
    <2>1. UNCHANGED <<status, req, published, cancelling, troubled>>
      BY <1>6 DEF OrderRefuses, orderVars, Elsewhere
    <2> QED
      BY <1>1, <2>1 DEF PublishedOrdersCome
  <1> QED
    BY <1>4, <1>5, <1>6, Steps

\* A record, and a request about one, has its order.created.
LEMMA RecordsKeep == ASSUME IInv, [Next]_vars PROVE RecordsArePublished'
  <1>1. /\ \A o \in Order : record[o] # "absent" => o \in published
        /\ \A s \in Staff : job[s].op # "idle" => job[s].order \in published
        /\ job \in [Staff -> F!ReqRecord] /\ DOMAIN record = Order
    BY DEF IInv, RecordsArePublished, TypeOK, F!TypeOK
  <1>2. published \subseteq published'
    BY NothingIsForgotten
  <1>3. CASE UNCHANGED recordVars
    BY <1>1, <1>2, <1>3 DEF recordVars, RecordsArePublished
  <1>4. ASSUME NEW r \in Staff, NEW o \in Order, o \in published, NEW s, NEW e, F!Read(r, o, s, e)
        PROVE  RecordsArePublished'
    <2>1. \A q \in Staff : q # r => job'[q] = job[q]
      BY <1>1, <1>4 DEF F!Read
    <2>2. job'[r].order = o /\ record' = record
      BY <1>1, <1>4 DEF F!Read
    <2> QED
      BY <1>1, <1>2, <1>4, <2>1, <2>2 DEF RecordsArePublished
  <1>5. ASSUME NEW r \in Staff, F!EndTx(r), record' = record PROVE RecordsArePublished'
    <2>1. \A q \in Staff : q # r => job'[q] = job[q]
      BY <1>1, <1>5 DEF F!EndTx
    <2>2. job'[r].op = "idle"
      BY <1>1, <1>5 DEF F!EndTx, F!Idle
    <2> QED
      BY <1>1, <1>2, <1>5, <2>1, <2>2 DEF RecordsArePublished
  <1>6. ASSUME NEW r \in Staff, job[r].op = "read", F!Written(r), record' = record
        PROVE  RecordsArePublished'
    <2>1. \A q \in Staff : q # r => job'[q] = job[q]
      BY <1>1, <1>6 DEF F!Written
    <2>2. job'[r].order = job[r].order
      BY <1>1, <1>6 DEF F!Written, F!ReqRecord
    <2> QED
      BY <1>1, <1>2, <1>6, <2>1, <2>2 DEF RecordsArePublished
  <1>7. ASSUME NEW r \in Staff, F!Commit(r) PROVE RecordsArePublished'
    <2>1. \A q \in Staff : q # r => job'[q] = job[q]
      BY <1>1, <1>7 DEF F!Commit, F!EndTx
    <2>2. job'[r].op = "idle" /\ job[r].op = "written"
      BY <1>1, <1>7 DEF F!Commit, F!EndTx, F!Idle
    <2>3. \A o \in Order : o # job[r].order => record'[o] = record[o]
      BY <1>1, <1>7 DEF F!Commit
    <2> QED
      BY <1>1, <1>2, <2>1, <2>2, <2>3 DEF RecordsArePublished
  <1>8. CASE FulfillmentStep
    <2> PICK r \in Staff : \/ \E o \in Order, s \in F!Target : F!TransitionRead(r, o, s)
                           \/ F!Advance(r) \/ F!Crash(r)
      BY <1>8 DEF FulfillmentStep
    <2>1. CASE \E o \in Order, s \in F!Target : F!TransitionRead(r, o, s)
      <3> PICK o \in Order, s \in F!Target : F!TransitionRead(r, o, s)
        BY <2>1
      <3>1. record[o] # "absent"
        BY DEF F!TransitionRead, F!Transitions
      <3> QED
        BY <1>1, <1>4, <3>1 DEF F!TransitionRead
    <2>2. CASE \/ F!CreateDuplicate(r) \/ F!CreateExisting(r) \/ F!LockWaitFails(r) \/ F!Crash(r)
      BY <1>5, <2>2 DEF F!CreateDuplicate, F!CreateExisting, F!LockWaitFails, F!Crash, F!Rollback
    <2>3. CASE F!CreateInsert(r) \/ F!TransitionWrite(r)
      BY <1>6, <2>3 DEF F!CreateInsert, F!Creating, F!TransitionWrite
    <2>4. CASE F!Commit(r)
      BY <1>7, <2>4
    <2> QED
      BY <2>1, <2>2, <2>3, <2>4 DEF F!Advance
  <1>9. ASSUME NEW o \in Order, NEW r \in Staff, FulfillmentAccepts(r, o)
        PROVE  RecordsArePublished'
    <2>1. o \in published /\ Itself[o] = o
      BY <1>9 DEF FulfillmentAccepts, Itself
    <2> QED
      BY <1>4, <1>9, <2>1 DEF FulfillmentAccepts, F!CreateRead
  <1>10. \/ OrderStep \/ StockStep \/ (\E e \in FulfillmentEvent : OrderConsumes(e))
         \/ (\E o \in Order : InventoryReserves(o) \/ InventoryRaises(o)) \/ UNCHANGED vars
         => UNCHANGED recordVars
    BY DEF OrderStep, StockStep, OrderConsumes, OrderAccepts, OrderRefuses, InventoryReserves,
       InventoryRaises, vars
  <1> QED
    BY <1>3, <1>8, <1>9, <1>10 DEF Next

\* Why the Order service refuses a completion: each reason is an excuse.
LEMMA RefusalsAreExcused ==
  ASSUME IInv, NEW e \in FulfillmentEvent, e.kind = "completed", OrderRefuses(e)
  PROVE  Excused(e.order)'
  <1>1. /\ e.order \in Order /\ Asks[e] = "delivered"
        /\ UNCHANGED <<status, processed, cancelling, troubled>>
    BY DEF FulfillmentEvent, Asks, OrderRefuses, orderVars
  <1>2. status[e.order] \in {"absent", "confirmed", "processing", "delivered", "cancelled"}
    BY <1>1 DEF IInv, TypeOK, O!TypeOK, O!Status
  <1>3. status[e.order] # "processing"
    BY <1>1 DEF OrderRefuses, O!CanTransition, O!Transitions
  <1>4. CASE status[e.order] \in {"absent", "confirmed"}
    <2>1. e.order \in overtaken'
      BY <1>4 DEF OrderRefuses
    <2> QED
      BY <2>1 DEF Excused
  <1>5. CASE status[e.order] = "delivered"
    <2>1. CompletionHandled(e.order)
      BY <1>1, <1>5 DEF IInv, EventsWereSent
    <2> QED
      BY <1>1, <2>1 DEF Excused, CompletionHandled
  <1>6. CASE status[e.order] = "cancelled"
    <2>1. e.order \in cancelling'
      BY <1>1, <1>6 DEF IInv, PublishedOrdersCome
    <2> QED
      BY <2>1 DEF Excused
  <1> QED
    BY <1>2, <1>3, <1>4, <1>5, <1>6

\* A spent delivery has a thread at work on it, or its excuse.
LEMMA AttemptsKeep == ASSUME IInv, [Next]_vars PROVE AttemptsAreAccounted'
  <1>1. \A o \in Order : Excused(o) => Excused(o)'
    BY NothingIsForgotten
  <1>2. \A e \in FulfillmentEvent :
          e.kind = "completed" /\ attempts[<<"order", e>>] > 0 =>
            (\E r \in Thread : Handling(r, e)) \/ Excused(e.order)
    BY DEF IInv, AttemptsAreAccounted
  <1>3. \A e \in FulfillmentEvent : e.order \in Order /\ <<"order", e>> \in Copy
    BY DEF FulfillmentEvent, Copy
  <1>4. attempts \in [Copy -> 0 .. MaxAttempts]
    BY DEF IInv, TypeOK
  <1>5. CASE OrderStep /\ Progress /\ UNCHANGED <<recordVars, attempts>>
    <2> SUFFICES ASSUME NEW e \in FulfillmentEvent, e.kind = "completed",
                        attempts[<<"order", e>>] > 0
                 PROVE  (\E r \in Thread : Handling(r, e)') \/ Excused(e.order)'
      BY <1>5 DEF AttemptsAreAccounted
    <2>1. CASE Excused(e.order)
      BY <1>1, <1>3, <2>1
    <2>2. CASE \E r \in Thread : Handling(r, e)
      <3>1. \/ \E r \in Thread : Handling(r, e)'
            \/ e \in processed' \/ e.order \in troubled' \cup overtaken'
        BY <1>5, <2>2 DEF Progress
      <3> QED
        BY <3>1 DEF Excused, CompletionHandled
    <2> QED
      BY <1>2, <2>1, <2>2
  <1>6. ASSUME NEW f \in FulfillmentEvent, Deliver(<<"order", f>>),
               \A e \in FulfillmentEvent, r \in Thread : Handling(r, e) => Handling(r, e)',
               f.kind = "completed" => (\E r \in Thread : Handling(r, f)') \/ Excused(f.order)'
        PROVE  AttemptsAreAccounted'
    <2>1. \A e \in FulfillmentEvent :
            e # f => attempts'[<<"order", e>>] = attempts[<<"order", e>>]
      BY <1>3, <1>4, <1>6 DEF Deliver
    <2>2. \A e \in FulfillmentEvent :
            e.kind = "completed" /\ attempts'[<<"order", e>>] > 0 =>
              (\E r \in Thread : Handling(r, e)') \/ Excused(e.order)'
      BY <1>1, <1>2, <1>3, <1>6, <2>1
    <2> QED
      BY <2>2 DEF AttemptsAreAccounted
  <1>7. ASSUME NEW f \in FulfillmentEvent, NEW r \in Thread, OrderAccepts(r, f)
        PROVE  AttemptsAreAccounted'
    <2>1. Deliver(<<"order", f>>) /\ Handling(r, f)'
      BY <1>7, Accepting DEF OrderAccepts
    <2>2. \A e \in FulfillmentEvent, t \in Thread : Handling(t, e) => Handling(t, e)'
      BY <1>7, Accepting DEF Handler
    <2> QED
      BY <1>6, <2>1, <2>2
  <1>8. ASSUME NEW f \in FulfillmentEvent, OrderRefuses(f) PROVE AttemptsAreAccounted'
    <2>1. Deliver(<<"order", f>>) /\ req' = req
      BY <1>8 DEF OrderRefuses, orderVars
    <2>2. f.kind = "completed" => Excused(f.order)'
      BY <1>8, RefusalsAreExcused
    <2>3. \A e \in FulfillmentEvent, t \in Thread : Handling(t, e) => Handling(t, e)'
      BY <2>1 DEF Handling
    <2> QED
      BY <1>6, <2>1, <2>2, <2>3
  <1>9. CASE Elsewhere
    <2>1. \A e \in FulfillmentEvent, t \in Thread : Handling(t, e) => Handling(t, e)'
      BY <1>9 DEF Elsewhere, Handling
    <2>2. \A e \in FulfillmentEvent : attempts'[<<"order", e>>] = attempts[<<"order", e>>]
      BY <1>9 DEF Elsewhere
    <2>3. \A e \in FulfillmentEvent :
            e.kind = "completed" /\ attempts'[<<"order", e>>] > 0 =>
              (\E r \in Thread : Handling(r, e)') \/ Excused(e.order)'
      BY <1>1, <1>2, <1>3, <2>1, <2>2
    <2> QED
      BY <2>3 DEF AttemptsAreAccounted
  <1> QED
    BY <1>5, <1>7, <1>8, <1>9, Steps

\* The invariant holds at start-up,
LEMMA InitIInv == Init => IInv
  <1> SUFFICES ASSUME Init PROVE IInv
    OBVIOUS
  <1>1. O!IInv
    BY OrdersAssumed, OrdersStart, OrdersInvariant, Ord!InitKeeps DEF Init, Ord!InitKeeps
  <1>2. F!IInv
    BY FulfillmentAssumed, FulfillmentStart, FulfillmentInvariant, Ful!InitIInv
       DEF Init, Ful!InitIInv
  <1>3. TypeOK
    BY <1>1, <1>2, SupplyChainAssumption DEF Init, TypeOK, O!IInv, F!IInv
  <1>4. /\ \A r \in Handler : req[r].op = "idle"
        /\ processed = {} /\ published = {}
        /\ \A o \in Order : status[o] = "absent" /\ record[o] = "absent"
        /\ \A r \in Staff : job[r].op = "idle"
    BY DEF Init, O!Init, O!Idle, F!Init, F!Idle
  <1>5. \A e \in FulfillmentEvent : attempts[<<"order", e>>] = 0
    BY DEF Init, Copy
  <1>6. EventsWereSent
    BY <1>4 DEF EventsWereSent, Handling
  <1>7. PublishedOrdersCome /\ RecordsArePublished
    BY <1>4 DEF PublishedOrdersCome, RecordsArePublished
  <1>8. AttemptsAreAccounted
    BY <1>5 DEF AttemptsAreAccounted
  <1> QED
    BY <1>1, <1>2, <1>3, <1>6, <1>7, <1>8 DEF IInv

\* every step keeps it,
LEMMA NextIInv == IInv /\ [Next]_vars => IInv'
  <1> SUFFICES ASSUME IInv, [Next]_vars PROVE IInv'
    OBVIOUS
  <1>1. O!IInv' /\ F!IInv'
    BY OrdersKeep, FulfillmentKeeps DEF IInv
  <1> QED
    BY <1>1, TypesKeep, EventsKeep, PublishedKeep, RecordsKeep, AttemptsKeep DEF IInv

\* so it holds for ever.
LEMMA Invariance == Spec => []IInv
  BY InitIInv, NextIInv, PTL DEF Spec

\* Every variable of the three services keeps its type, and no copy of an event
\* is delivered more often than its subscription allows.
THEOREM TypeCorrect == Spec => []TypeOK
  <1>1. IInv => TypeOK
    BY DEF IInv
  <1> QED
    BY <1>1, Invariance, PTL

\* update_status makes an order DELIVERED only after staff had its parcel
\* assigned, picked and shipped, whatever is lost, repeated or late in between.
THEOREM DeliveredAfterShipping == Spec => []DeliveredWasShipped
  <1>1. IInv => DeliveredWasShipped
    <2> SUFFICES ASSUME IInv, NEW o \in Order, status[o] = "delivered"
                 PROVE  {"assigned", "picking", "shipped"} \subseteq reached[o]
      BY DEF DeliveredWasShipped
    <2>1. PICK e \in processed : e.kind = "completed" /\ e.order = o
      BY DEF IInv, EventsWereSent, CompletionHandled
    <2>2. e \in FulfillmentEvent /\ Sent(e)
      BY DEF IInv, EventsWereSent, TypeOK, O!TypeOK
    <2>3. e.n \in 1 .. MaxPublished /\ e.n <= completed[o]
      BY <2>1, <2>2 DEF Sent, FulfillmentEvent
    <2>4. completed[o] \in Nat /\ MaxPublished \in Nat
      BY SupplyChainAssumption DEF IInv, TypeOK, F!TypeOK
    <2>5. completed[o] > 0
      BY <2>3, <2>4
    <2> QED
      BY <2>5 DEF IInv, F!IInv, F!CompletedWasShipped
  <1> QED
    BY <1>1, Invariance, PTL

\* A fulfillment record's order has its row, although order.created leaves
\* before the commit of the row.
THEOREM FulfilledOrdersFollow == Spec => []FulfilledOrdersExist
  <1>1. IInv => FulfilledOrdersExist
    <2> SUFFICES ASSUME IInv, NEW o \in Order, record[o] # "absent", O!Posted(o),
                        o \notin troubled
                 PROVE  status[o] # "absent"
      BY DEF FulfilledOrdersExist
    <2>1. o \in published
      BY DEF IInv, RecordsArePublished
    <2> QED
      BY <2>1 DEF IInv, PublishedOrdersCome, O!Posted
  <1> QED
    BY <1>1, Invariance, PTL

\* A completion is dead-lettered for a named reason only, for any number of
\* containers, events and delivery attempts.
THEOREM CompletionsDieExcused == Spec => []OnlyOvertakenCompletionsDie
  <1>1. IInv => OnlyOvertakenCompletionsDie
    <2> SUFFICES ASSUME IInv, NEW e \in FulfillmentEvent, e.kind = "completed", Dead(e)
                 PROVE  Excused(e.order)
      BY DEF OnlyOvertakenCompletionsDie
    <2>1. attempts[<<"order", e>>] > 0
      BY SupplyChainAssumption DEF Dead
    <2>2. \A r \in Thread : ~ Handling(r, e)
      BY DEF Dead, Handling
    <2> QED
      BY <2>1, <2>2 DEF IInv, AttemptsAreAccounted
  <1> QED
    BY <1>1, Invariance, PTL

------------------------------------------------------------------------------
(* Every reserved unit is accounted for *)

\* The items of an order that ask for a product are finitely many,
LEMMA AskedForIsFinite ==
  ASSUME NEW o \in Order, NEW p \in Product
  PROVE  IsFiniteSet(AskedFor(o, p)) /\ AskedFor(o, p) \subseteq DOMAIN Items[o]
  <1>1. Items[o] \in Seq(Product)
    BY SupplyChainAssumption
  <1>2. DOMAIN Items[o] = 1 .. Len(Items[o]) /\ Len(Items[o]) \in Nat
    BY <1>1
  <1>3. IsFiniteSet(1 .. Len(Items[o]))
    BY <1>2, FS_Interval
  <1>4. AskedFor(o, p) \subseteq DOMAIN Items[o]
    BY DEF AskedFor
  <1> QED
    BY <1>2, <1>3, <1>4, FS_Subset

\* so what is reserved for an order is a number.
LEMMA ReservedForIsInt ==
  ASSUME O!TypeOK, NEW o \in Order, NEW p \in Product
  PROVE  ReservedFor(o, p) \in Int
  <1>1. \A i \in AskedFor(o, p) : holds[o][i] \in Int
    BY AskedForIsFinite DEF O!TypeOK
  <1>2. SumFunctionOnSet(holds[o], AskedFor(o, p)) \in Int
    BY <1>1, AskedForIsFinite, SumIsInt
  <1> QED
    BY <1>2, DemandIsNat DEF ReservedFor

\* When the stock of p and what is reserved of it for o change by the same
\* number, and nothing is for other orders, the account of p still balances.
LEMMA AccountMoves ==
  ASSUME O!TypeOK, StockIsAccountedFor, NEW p \in Product, NEW o \in Order, NEW n \in Int,
         stock'[p].reserved = stock[p].reserved + n,
         ReservedFor(o, p)' = ReservedFor(o, p) + n,
         \A x \in Order \ {o} : ReservedFor(x, p)' = ReservedFor(x, p)
  PROVE  stock'[p].reserved = SumFunction([x \in Order |-> ReservedFor(x, p)'])
  <1> DEFINE before == [x \in Order |-> ReservedFor(x, p)]
             after == [x \in Order |-> ReservedFor(x, p)']
  <1>1. /\ \A x \in Order : before[x] \in Int /\ after[x] \in Int
        /\ \A x \in Order \ {o} : after[x] = before[x]
        /\ after[o] = before[o] + n
    BY ReservedForIsInt
  <1>2. DOMAIN before = Order /\ DOMAIN after = Order
    OBVIOUS
  <1>3. stock[p].reserved = SumFunction(before)
    BY DEF StockIsAccountedFor
  <1> HIDE DEF before, after
  <1>4. IsFiniteSet(Order)
    BY SupplyChainAssumption
  <1>5. SumFunctionOnSet(after, Order) = SumFunctionOnSet(before, Order) + (after[o] - before[o])
    <2>1. \A x \in Order : before[x] \in Int /\ after[x] \in Int
      BY <1>1
    <2>2. \A x \in Order \ {o} : after[x] = before[x]
      BY <1>1
    <2> QED
      BY <1>4, <2>1, <2>2, SumMoves
  <1>6. SumFunctionOnSet(before, Order) \in Int
    BY <1>4, <1>1, SumIsInt
  <1>7. SumFunctionOnSet(after, Order) = SumFunctionOnSet(before, Order) + n
    BY <1>1, <1>5, <1>6
  <1> QED
    BY <1>2, <1>3, <1>7 DEF SumFunction, after

\* A call that Inventory executes is in the books of the order that made it:
LEMMA ExecutionIsAccounted ==
  ASSUME O!TypeOK, StockIsAccountedFor, NEW c, O!Executes(c),
         c.order \in Order, c.item \in DOMAIN Items[c.order]
  PROVE  StockIsAccountedFor'
  <1> DEFINE q == Items[c.order][c.item]
             n == IF c.kind = "reserve" THEN 1 ELSE -1
  <1>1. q \in Product
    BY SupplyChainAssumption
  <1>2. /\ handled' = handled
        /\ holds' = [holds EXCEPT ![c.order][c.item] = @ + n]
    BY DEF O!Executes, O!Pool!GrantOne, O!Pool!TakeBack
  <1>3. \A p \in Product :
          stock'[p].reserved = stock[p].reserved + (IF p = q THEN n ELSE 0)
    <2>1. stock \in [Product -> [state : {"live", "deleted"}, available : Nat, reserved : Nat]]
      BY DEF O!TypeOK
    <2>2. CASE c.kind = "reserve"
      BY <2>1, <2>2 DEF O!Executes, O!Pool!GrantOne, O!Pool!Grant
    <2>3. CASE c.kind # "reserve"
      BY <1>1, <2>1, <2>3 DEF O!Executes, O!Pool!TakeBack
    <2> QED
      BY <2>2, <2>3
  <1> SUFFICES ASSUME NEW p \in Product
               PROVE  stock'[p].reserved = SumFunction([x \in Order |-> ReservedFor(x, p)'])
    BY DEF StockIsAccountedFor
  <1> DEFINE m == IF p = q THEN n ELSE 0
  <1>4. DOMAIN holds = Order /\ DOMAIN holds[c.order] = DOMAIN Items[c.order]
    BY DEF O!TypeOK
  <1>5. \A x \in Order \ {c.order} : ReservedFor(x, p)' = ReservedFor(x, p)
    BY <1>2, <1>4 DEF ReservedFor
  <1>6. ReservedFor(c.order, p)' = ReservedFor(c.order, p) + m
    <2>1. \A i \in AskedFor(c.order, p) :
            /\ holds[c.order][i] \in Int
            /\ holds'[c.order][i] =
                 IF i = c.item THEN holds[c.order][i] + n ELSE holds[c.order][i]
      BY <1>2, <1>4, AskedForIsFinite DEF O!TypeOK
    <2>2. c.item \in AskedFor(c.order, p) <=> p = q
      BY DEF AskedFor
    <2>3. SumFunctionOnSet(holds'[c.order], AskedFor(c.order, p)) =
            SumFunctionOnSet(holds[c.order], AskedFor(c.order, p)) + m
      <3> DEFINE before == holds[c.order]
                 after == holds'[c.order]
                 asked == AskedFor(c.order, p)
      <3>1. IsFiniteSet(asked)
        BY AskedForIsFinite
      <3>2. /\ \A i \in asked : before[i] \in Int /\ after[i] \in Int
            /\ \A i \in asked \ {c.item} : after[i] = before[i]
            /\ c.item \in asked => after[c.item] = before[c.item] + n
        BY <2>1
      <3> HIDE DEF before, after, asked, n, q
      <3>3. SumFunctionOnSet(before, asked) \in Int
        BY <3>1, <3>2, SumIsInt
      <3>4. CASE c.item \in asked
        <4>1. SumFunctionOnSet(after, asked)
                = SumFunctionOnSet(before, asked) + (after[c.item] - before[c.item])
          BY <3>1, <3>2, <3>4, SumMoves
        <4>2. after[c.item] - before[c.item] = n /\ m = n
          <5>1. n \in Int
            BY DEF n
          <5> QED
            BY <2>2, <3>2, <3>4, <5>1 DEF asked
        <4> QED
          BY <4>1, <4>2 DEF before, after, asked
      <3>5. CASE c.item \notin asked
        <4>1. SumFunctionOnSet(after, asked) = SumFunctionOnSet(before, asked)
          BY <3>1, <3>2, <3>5, SumsOfEquals
        <4>2. m = 0
          BY <2>2, <3>5 DEF asked
        <4> QED
          BY <3>3, <4>1, <4>2 DEF before, after, asked
      <3> QED
        BY <3>4, <3>5
    <2>4. SumFunctionOnSet(holds[c.order], AskedFor(c.order, p)) \in Int
      BY <2>1, AskedForIsFinite, SumIsInt
    <2>5. O!Demand[c.order][p] \in Nat
      BY DemandIsNat
    <2> QED
      BY <1>2, <2>3, <2>4, <2>5 DEF ReservedFor
  <1>7. m \in Int
    OBVIOUS
  <1> HIDE DEF n, q, m
  <1>8. stock'[p].reserved = stock[p].reserved + m
    BY <1>3 DEF m
  <1> QED
    BY <1>5, <1>6, <1>7, <1>8, AccountMoves

\* so is the subscriber's reservation for an order.created,
LEMMA ReservationIsAccounted ==
  ASSUME O!TypeOK, StockIsAccountedFor, NEW o \in Order, InventoryReserves(o)
  PROVE  StockIsAccountedFor'
  <1>1. /\ holds' = holds /\ o \notin handled /\ handled' = handled \cup {o}
        /\ stock' = [p \in Product |-> [stock[p] EXCEPT !.reserved = @ + O!Demand[o][p]]]
    BY DEF InventoryReserves, Pool!GrantOrder, Pool!Grant
  <1>2. stock \in [Product -> [state : {"live", "deleted"}, available : Nat, reserved : Nat]]
    BY DEF O!TypeOK
  <1> SUFFICES ASSUME NEW p \in Product
               PROVE  stock'[p].reserved = SumFunction([x \in Order |-> ReservedFor(x, p)'])
    BY DEF StockIsAccountedFor
  <1> DEFINE n == O!Demand[o][p]
  <1>3. n \in Nat
    BY DemandIsNat
  <1>4. stock'[p].reserved = stock[p].reserved + n
    BY <1>1, <1>2
  <1>5. \A x \in Order \ {o} : ReservedFor(x, p)' = ReservedFor(x, p)
    BY <1>1 DEF ReservedFor
  <1>6. ReservedFor(o, p)' = ReservedFor(o, p) + n
    <2> DEFINE sum == SumFunctionOnSet(holds[o], AskedFor(o, p))
    <2>1. ReservedFor(o, p) = sum + 0 /\ ReservedFor(o, p)' = sum + n
      BY <1>1 DEF ReservedFor
    <2>2. sum \in Int
      BY AskedForIsFinite, SumIsInt DEF O!TypeOK
    <2> HIDE DEF sum, n
    <2> QED
      BY <1>3, <2>1, <2>2
  <1> HIDE DEF n
  <1> QED
    BY <1>3, <1>4, <1>5, <1>6, AccountMoves

\* stock keeping leaves alone what is reserved,
LEMMA StockKeepingReservesNothing ==
  ASSUME IInv, StockIsAccountedFor, StockStep
  PROVE  StockIsAccountedFor'
  <1>1. Ord!TypeOK /\ Ord!KeepStock
    BY OrdersInvariant, OrdersKeepStock DEF IInv, Ord!IInv, StockStep
  <1>2. Ord!StockIsKept
    BY <1>1, OrdersAssumed, Ord!StockKeeping DEF Ord!StockKeeping
  <1>3. /\ handled' = handled /\ holds' = holds
        /\ \A p \in Product : stock'[p].reserved = stock[p].reserved
    BY <1>2 DEF Ord!StockIsKept
  <1> QED
    BY <1>3 DEF StockIsAccountedFor, ReservedFor

\* and no other step touches the books.
LEMMA OthersReserveNothing ==
  ASSUME UNCHANGED <<stock, handled, holds>>, StockIsAccountedFor
  PROVE  StockIsAccountedFor'
  BY DEF StockIsAccountedFor, ReservedFor

\* The books balance when nothing was asked for yet.
LEMMA InitIsAccounted == ASSUME Init PROVE StockIsAccountedFor
  <1>1. \A o \in Order, p \in Product : ReservedFor(o, p) = 0
    <2> SUFFICES ASSUME NEW o \in Order, NEW p \in Product PROVE ReservedFor(o, p) = 0
      OBVIOUS
    <2>1. \A i \in AskedFor(o, p) : holds[o][i] = 0
      BY AskedForIsFinite DEF Init, O!Init, O!Held
    <2>2. SumFunctionOnSet(holds[o], AskedFor(o, p)) = 0
      BY <2>1, AskedForIsFinite, SumOfZeros
    <2> QED
      BY <2>2 DEF ReservedFor, Init, O!Init
  <1> SUFFICES ASSUME NEW p \in Product
               PROVE  stock[p].reserved = SumFunction([o \in Order |-> ReservedFor(o, p)])
    BY DEF StockIsAccountedFor
  <1> DEFINE f == [o \in Order |-> ReservedFor(o, p)]
  <1>2. DOMAIN f = Order /\ \A o \in Order : f[o] = 0
    BY <1>1
  <1> HIDE DEF f
  <1>3. SumFunction(f) = 0
    BY <1>2, SumOfZeros, SupplyChainAssumption DEF SumFunction
  <1>4. stock[p].reserved = 0
    BY DEF Init, O!Init, O!Pool!Live
  <1> QED
    BY <1>3, <1>4 DEF f

\* A call under way, and one that is late, names an item of its order.
LEMMA NextIsAccounted ==
  ASSUME IInv, StockIsAccountedFor, [Next]_vars PROVE StockIsAccountedFor'
  <1>1. O!TypeOK /\ O!SlotsAreSound /\ O!LateCallsAreSound
    BY DEF IInv, O!IInv
  <1>2. \A o \in Order : Items[o] \in Seq(Product)
    BY SupplyChainAssumption
  <1>3. ASSUME NEW r \in Handler, O!Serve(r) PROVE StockIsAccountedFor'
    <2>1. /\ req[r] \in O!ReqRecord /\ call[r] = "sent"
      BY <1>1, <1>3 DEF O!TypeOK, O!Serve
    <2>2. req[r].order \in Order /\ req[r].pos \in DOMAIN Items[req[r].order]
      <3>1. /\ req[r].order \in Order /\ req[r].last \in 0 .. Len(Items[req[r].order])
            /\ req[r].pos <= req[r].last
        BY <1>1, <2>1 DEF O!SlotsAreSound
      <3>2. req[r].pos \in Nat \ {0}
        BY <2>1 DEF O!ReqRecord, O!ItemNo
      <3>3. Len(Items[req[r].order]) \in Nat
            /\ DOMAIN Items[req[r].order] = 1 .. Len(Items[req[r].order])
        BY <1>2, <3>1
      <3> QED
        BY <3>1, <3>2, <3>3
    <2> DEFINE c == O!CallOf(r)
    <2>3. c.order = req[r].order /\ c.item = req[r].pos
      BY DEF O!CallOf
    <2>4. O!Executes(c) \/ UNCHANGED <<stock, handled, holds>>
      BY <1>3 DEF O!Serve, O!Refuses, O!poolVars
    <2> HIDE DEF c
    <2> QED
      BY <1>1, <2>2, <2>3, <2>4, ExecutionIsAccounted, OthersReserveNothing
  <1>4. ASSUME NEW c \in late, O!ServeLate(c) PROVE StockIsAccountedFor'
    <2>1. c.order \in Order /\ c.item \in DOMAIN Items[c.order]
      BY <1>1 DEF O!LateCallsAreSound, O!TypeOK
    <2>2. O!Executes(c) \/ UNCHANGED <<stock, handled, holds>>
      BY <1>4 DEF O!ServeLate, O!Refuses, O!poolVars
    <2> QED
      BY <1>1, <2>1, <2>2, ExecutionIsAccounted, OthersReserveNothing
  <1>5. ASSUME NEW r \in Handler, O!Advance(r) \/ O!Crash(r) PROVE StockIsAccountedFor'
    <2>1. UNCHANGED <<stock, handled, holds>>
      BY <1>5 DEF O!Advance, O!Crash, O!Send, O!NoAnswer, O!ValidateItem, O!ValidateFails,
         O!Reserved, O!ReserveRaises, O!Released, O!CreateRaises, O!ConfirmAndPublish,
         O!CreateCommit, O!CancelFlush, O!CancelCommit, O!EventFlush, O!EventCommit,
         O!EventDuplicate, O!LockWaitFails, O!net, O!poolVars
    <2> QED
      BY <2>1, OthersReserveNothing
  <1>6. ASSUME NEW r, NEW o, O!StartCreate(r, o) \/ O!CancelRead(r, o) \/ O!EventRead(r, o)
        PROVE  StockIsAccountedFor'
    BY <1>6, OthersReserveNothing DEF O!StartCreate, O!CancelRead, O!EventRead, O!net
  <1>7. CASE OrderStep
    BY <1>3, <1>4, <1>5, <1>6, <1>7 DEF OrderStep
  <1>8. CASE \E e \in FulfillmentEvent : OrderConsumes(e)
    <2>1. CASE \E e \in FulfillmentEvent, r \in Thread : OrderAccepts(r, e)
      BY <1>6, <2>1 DEF OrderAccepts
    <2>2. CASE \E e \in FulfillmentEvent : OrderRefuses(e)
      BY <2>2, OthersReserveNothing DEF OrderRefuses, orderVars
    <2> QED
      BY <1>8, <2>1, <2>2 DEF OrderConsumes
  <1>9. CASE \E o \in Order : InventoryReserves(o)
    BY <1>1, <1>9, ReservationIsAccounted
  <1>10. \/ FulfillmentStep \/ (\E o \in Order, r \in Staff : FulfillmentAccepts(r, o))
         \/ (\E o \in Order : InventoryRaises(o)) \/ UNCHANGED vars
         => UNCHANGED <<stock, handled, holds>>
    BY DEF FulfillmentStep, FulfillmentAccepts, InventoryRaises, vars, orderVars
  <1> QED
    BY <1>7, <1>8, <1>9, <1>10, OthersReserveNothing, StockKeepingReservesNothing DEF Next

\* Whatever is lost, late or delivered twice, the units that Inventory counts as
\* reserved are those of the sagas and of the order.created events, for any
\* number of orders and items.
THEOREM StockAccounts == Spec => []StockIsAccountedFor
  BY InitIInv, NextIInv, InitIsAccounted, NextIsAccounted, PTL DEF Spec

------------------------------------------------------------------------------
(* What each service promises, it keeps among the others *)

\* The accounts of Orders are one,
LEMMA OrdersAccounts == O!AIInv <=> Ord!AIInv
  <1>1. O!LateReservesAreLast <=> Ord!LateReservesAreLast
    BY DEF O!LateReservesAreLast, Ord!LateReservesAreLast, O!Saga, Ord!Saga
  <1>2. O!NoneNegative <=> Ord!NoneNegative
    BY DEF O!NoneNegative, Ord!NoneNegative
  <1>3. O!HeldItemsAreReserved <=> Ord!HeldItemsAreReserved
    <2>1. \A p \in Product : O!HeldItems(p) = Ord!HeldItems(p)
      BY DEF O!HeldItems, Ord!HeldItems
    <2>2. \A S : O!IsFiniteSet(S) <=> Ord!IsFiniteSet(S)
      BY DEF O!IsFiniteSet, Ord!IsFiniteSet
    <2>3. \A S : O!Cardinality(S) = Ord!Cardinality(S)
      BY DEF O!Cardinality, Ord!Cardinality
    <2> QED
      BY <1>2, <2>1, <2>2, <2>3 DEF O!HeldItemsAreReserved, Ord!HeldItemsAreReserved
  <1>4. O!UntroubledSagasAddUp <=> Ord!UntroubledSagasAddUp
    BY <1>2 DEF O!UntroubledSagasAddUp, Ord!UntroubledSagasAddUp, O!Granted, Ord!Granted,
       O!Owes, Ord!Owes, O!Pool!IsLive, Ord!Pool!IsLive
  <1>5. O!CancellationsGoOn <=> Ord!CancellationsGoOn
    BY DEF O!CancellationsGoOn, Ord!CancellationsGoOn
  <1> QED
    BY <1>1, <1>3, <1>4, <1>5, OrdersInvariant DEF O!AIInv, Ord!AIInv

\* and a reservation by the subscriber only adds to the pool from which the held
\* items are released.
LEMMA InventoryReservesKeepsAccounts ==
  ASSUME O!AIInv, NEW o \in Order, InventoryReserves(o)
  PROVE  O!AIInv'
  <1>1. UNCHANGED <<status, rowLock, req, call, late, published, processed, used, holds,
                    troubled, cancelling, shorted>>
    BY DEF InventoryReserves
  <1>2. O!IInv /\ O!TypeOK
    BY DEF O!AIInv, O!IInv
  <1>3. O!IInv'
    BY <1>2, InventoryReservesKeepsOrders
  <1>4. \A p \in Product :
          /\ stock[p].reserved \in Nat /\ stock'[p].state = stock[p].state
          /\ \E n \in Nat : stock'[p].reserved = stock[p].reserved + n
    <2>1. stock \in [Product -> [state : {"live", "deleted"}, available : Nat, reserved : Nat]]
      BY <1>2 DEF O!TypeOK
    <2>2. stock' = [p \in Product |-> [stock[p] EXCEPT !.reserved = @ + O!Demand[o][p]]]
      BY DEF InventoryReserves, Pool!GrantOrder, Pool!Grant
    <2>3. \A p \in Product : O!Demand[o][p] \in Nat
      BY DemandIsNat
    <2>4. \A p \in Product : /\ stock'[p].reserved = stock[p].reserved + O!Demand[o][p]
                             /\ stock'[p].state = stock[p].state
      BY <2>1, <2>2
    <2> QED
      BY <2>1, <2>3, <2>4
  <1>5. O!HeldItemsAreReserved'
    <2>1. O!NoneNegative' <=> O!NoneNegative
      BY <1>1 DEF O!NoneNegative
    <2>2. \A p \in Product : O!HeldItems(p)' = O!HeldItems(p)
      BY <1>1 DEF O!HeldItems
    <2> SUFFICES ASSUME O!NoneNegative, NEW p \in Product
                 PROVE  /\ O!IsFiniteSet(O!HeldItems(p))
                        /\ O!Cardinality(O!HeldItems(p)) <= stock'[p].reserved
      BY <2>1, <2>2 DEF O!HeldItemsAreReserved
    <2>3. /\ O!IsFiniteSet(O!HeldItems(p))
          /\ O!Cardinality(O!HeldItems(p)) <= stock[p].reserved
      BY DEF O!AIInv, O!HeldItemsAreReserved
    <2>4. O!Cardinality(O!HeldItems(p)) \in Nat
      <3>1. /\ IsFiniteSet(O!HeldItems(p))
            /\ O!Cardinality(O!HeldItems(p)) = Cardinality(O!HeldItems(p))
        BY <2>3 DEF O!IsFiniteSet, IsFiniteSet, O!Cardinality, Cardinality
      <3> QED
        BY <3>1, FS_CardinalityType
    <2> QED
      BY <1>4, <2>3, <2>4
  <1>6. O!UntroubledSagasAddUp'
    <2>1. \A x \in Order : \A i \in DOMAIN Items[x] :
            stock'[Items[x][i]].state = stock[Items[x][i]].state
      <3>1. \A x \in Order : Items[x] \in Seq(Product)
        BY SupplyChainAssumption
      <3> QED
        BY <1>4, <3>1
    <2> QED
      BY <1>1, <2>1 DEF O!AIInv, O!UntroubledSagasAddUp, O!NoneNegative, O!Granted, O!Owes,
         O!Pool!IsLive
  <1> QED
    BY <1>1, <1>3, <1>5, <1>6 DEF O!AIInv, O!LateReservesAreLast, O!CancellationsGoOn

\* So the accounts hold throughout.
LEMMA OrdersKeepsAccounts == Spec => []O!AIInv
  <1>1. Init => O!AIInv
    BY OrdersAssumed, OrdersStart, OrdersAccounts, Ord!InitAddsUp DEF Init, Ord!InitAddsUp
  <1>2. O!AIInv /\ [Next]_vars => O!AIInv'
    <2> SUFFICES ASSUME O!AIInv, [Next]_vars PROVE O!AIInv'
      OBVIOUS
    <2>1. CASE [Ord!Next]_(Ord!vars)
      <3>1. Ord!AIInv'
        BY <2>1, OrdersAssumed, OrdersAccounts, Ord!NextAddsUp DEF Ord!NextAddsUp
      <3>2. O!AIInv' <=> Ord!AIInv'
        BY OrdersAccounts, PTL
      <3> QED
        BY <3>1, <3>2
    <2> QED
      BY <2>1, OrdersSteps, InventoryReservesKeepsAccounts
  <1> QED
    BY <1>1, <1>2, PTL DEF Spec

\* Together with Inventory's subscriber, Fulfillment and Pub/Sub, the Order service
\* still reserves an item once, holds the items of what it published, and gives
\* back exactly what a saga without trouble had reserved.
THEOREM OrdersKeepsItsPromises ==
  Spec => [](/\ O!PublishedOrdersHoldTheirItems /\ O!ReservesOncePerItem
             /\ O!UndisturbedOrdersAddUp)
  <1>1. O!AIInv => /\ O!PublishedOrdersHoldTheirItems /\ O!ReservesOncePerItem
                   /\ O!UndisturbedOrdersAddUp
    <2> SUFFICES ASSUME O!AIInv
                 PROVE  /\ O!PublishedOrdersHoldTheirItems /\ O!ReservesOncePerItem
                        /\ O!UndisturbedOrdersAddUp
      OBVIOUS
    <2>1. O!ReservesOncePerItem
      BY DEF O!AIInv, O!IInv, O!OneReservePerItem, O!ReservesOncePerItem
    <2>2. O!PublishedOrdersHoldTheirItems
      <3> SUFFICES ASSUME NEW o \in Order, o \in published \/ status[o] # "absent",
                          o \notin cancelling, NEW i \in DOMAIN Items[o]
                   PROVE  holds[o][i] = 1
        BY DEF O!PublishedOrdersHoldTheirItems, O!HoldsAll
      <3>1. holds[o][i] >= 1 /\ holds[o][i] <= 1
        BY DEF O!AIInv, O!IInv, O!GrantedItemsAreHeld, O!OneReservePerItem
      <3>2. holds[o][i] \in Int
        BY DEF O!AIInv, O!IInv, O!TypeOK
      <3> QED
        BY <3>1, <3>2
    <2>3. O!UndisturbedOrdersAddUp
      <3>1. Ord!UndisturbedOrdersAddUp
        BY OrdersAssumed, OrdersAccounts, Ord!AccountsMatch DEF Ord!AccountsMatch
      <3> QED
        BY <3>1 DEF O!UndisturbedOrdersAddUp, Ord!UndisturbedOrdersAddUp, O!NoneNegative,
           Ord!NoneNegative, O!Posted, Ord!Posted, O!HoldsAll, Ord!HoldsAll,
           O!Pool!IsLive, Ord!Pool!IsLive
    <2> QED
      BY <2>1, <2>2, <2>3
  <1> QED
    BY <1>1, OrdersKeepsAccounts, PTL

\* The pool is one,
LEMMA PoolIsOne == O!PoolIsCovered <=> Ord!PoolIsCovered
  BY DEF O!PoolIsCovered, Ord!PoolIsCovered

\* and the subscriber, too, reserves only what is on hand,
LEMMA PoolStaysCovered ==
  ASSUME O!AIInv, O!PoolIsCovered, [Next]_vars PROVE O!PoolIsCovered'
  <1>1. CASE [Ord!Next]_(Ord!vars)
    <2>1. Ord!IInv
      BY OrdersInvariant DEF O!AIInv
    <2>2. Ord!PoolIsCovered'
      BY <1>1, <2>1, OrdersAssumed, PoolIsOne, Ord!NextIsCovered DEF Ord!NextIsCovered
    <2>3. O!PoolIsCovered' <=> Ord!PoolIsCovered'
      BY PoolIsOne, PTL
    <2> QED
      BY <2>2, <2>3
  <1>2. ASSUME NEW o \in Order, InventoryReserves(o) PROVE O!PoolIsCovered'
    <2>1. stock \in [Product -> [state : {"live", "deleted"}, available : Nat, reserved : Nat]]
      BY DEF O!AIInv, O!IInv, O!TypeOK
    <2>2. /\ \A p \in Product :
               O!Demand[o][p] > 0
                 => O!Demand[o][p] <= stock[p].available - stock[p].reserved
          /\ stock' = [p \in Product |-> [stock[p] EXCEPT !.reserved = @ + O!Demand[o][p]]]
      BY <1>2 DEF InventoryReserves, Pool!GrantOrder, Pool!Grant, Pool!OnHand
    <2>3. shorted' = shorted /\ \A p \in Product : O!Demand[o][p] \in Nat
      BY <1>2, DemandIsNat DEF InventoryReserves
    <2> QED
      BY <2>1, <2>2, <2>3 DEF O!PoolIsCovered
  <1> QED
    BY <1>1, <1>2, OrdersSteps

\* so that among the other services, too, no unit is promised to two orders, although
\* Inventory reserves the items of an order a second time for its order.created.
THEOREM NothingIsOversoldTogether == Spec => []O!NoUnitIsPromisedTwice
  <1>1. Init => O!PoolIsCovered
    BY OrdersAssumed, OrdersStart, PoolIsOne, Ord!InitIsCovered DEF Init, Ord!InitIsCovered
  <1>2. O!AIInv /\ O!PoolIsCovered /\ [Next]_vars => O!PoolIsCovered'
    BY PoolStaysCovered
  <1>3. O!AIInv /\ O!PoolIsCovered => O!NoUnitIsPromisedTwice
    <2> SUFFICES ASSUME O!AIInv, O!PoolIsCovered PROVE O!NoUnitIsPromisedTwice
      OBVIOUS
    <2>1. Ord!NoUnitIsPromisedTwice
      BY PoolIsOne, OrdersAssumed, OrdersAccounts, Ord!PromisesAreCovered
         DEF Ord!PromisesAreCovered
    <2>2. \A p \in Product : O!Promised(p) = Ord!Promised(p)
      BY DEF O!Promised, Ord!Promised
    <2>3. \A S : O!Cardinality(S) = Ord!Cardinality(S)
      BY DEF O!Cardinality, Ord!Cardinality
    <2>4. O!NoneNegative <=> Ord!NoneNegative
      BY DEF O!NoneNegative, Ord!NoneNegative
    <2> QED
      BY <2>1, <2>2, <2>3, <2>4 DEF O!NoUnitIsPromisedTwice, Ord!NoUnitIsPromisedTwice,
         O!Pool!IsLive, Ord!Pool!IsLive
  <1> QED
    BY <1>1, <1>2, <1>3, OrdersKeepsAccounts, PTL DEF Spec

\* No order is moved twice by one event, nor by anything that is not an event of
\* its own, although Pub/Sub delivers copies in any order.
THEOREM EventsMoveOnceTogether == Spec => O!EventMovesOrderOnce
  <1> DEFINE Moved ==
        \A o \in Order :
          status'[o] # status[o] /\ status'[o] \in {"processing", "delivered"}
            => \E e \in processed' \ processed :
                 OrderOf[e] = o /\ Asks[e] = status'[o]
  <1>1. IInv /\ [Next]_vars => [Moved]_(O!vars)
    <2> SUFFICES ASSUME IInv, [Next]_vars PROVE Moved
      OBVIOUS
    <2>1. CASE [Ord!Next]_(Ord!vars)
      BY <2>1, OrdersAssumed, OrdersInvariant, Ord!EventMovesStep
         DEF IInv, Ord!EventMovesStep
    <2>2. CASE \E o \in Order : InventoryReserves(o)
      BY <2>2 DEF InventoryReserves
    <2> QED
      BY <2>1, <2>2, OrdersSteps
  <1> HIDE DEF Moved
  <1>2. Spec => [][Moved]_(O!vars)
    BY <1>1, Invariance, PTL DEF Spec
  <1> QED
    BY <1>2 DEF Moved, O!EventMovesOrderOnce

\* The Fulfillment service among the others does what it does alone, with the
\* events that the Order service publishes.
THEOREM FulfillmentImplemented == Spec => F!Spec
  <1>1. [Next]_vars => [F!Next]_(F!vars)
    <2> SUFFICES ASSUME [Next]_vars PROVE [F!Next]_(F!vars)
      OBVIOUS
    <2>1. CASE FulfillmentStep
      BY <2>1 DEF FulfillmentStep, F!Next, F!Begin
    <2>2. CASE \E o \in Order, r \in Staff : FulfillmentAccepts(r, o)
      BY <2>2 DEF FulfillmentAccepts, F!Next, F!Begin
    <2>3. \/ OrderStep \/ StockStep \/ (\E e \in FulfillmentEvent : OrderConsumes(e))
          \/ (\E o \in Order : InventoryReserves(o) \/ InventoryRaises(o)) \/ UNCHANGED vars
          => UNCHANGED F!vars
      BY DEF OrderStep, StockStep, OrderConsumes, OrderAccepts, OrderRefuses, InventoryReserves,
         InventoryRaises, vars, recordVars, F!vars
    <2> QED
      BY <2>1, <2>2, <2>3 DEF Next
  <1> QED
    BY <1>1, PTL DEF Spec, Init, F!Spec

\* Hence it keeps its promises: one fulfillment.assigned per record, no
\* fulfillment.completed before shipping, and no event, but for a lost
\* transaction, of what was not committed in the end.
THEOREM FulfillmentKeepsItsPromises ==
  Spec => [](/\ F!AssignedOncePerRecord /\ F!CompletedWasShipped /\ F!EventsWereCommitted)
  <1>1. Spec => Ful!Spec
    BY FulfillmentStart, FulfillmentSteps, PTL DEF Spec, Init, Ful!Spec
  <1>2. Ful!Spec => []Ful!EventsWereCommitted
    BY FulfillmentAssumed, Ful!EventsCommitted DEF Ful!EventsCommitted
  <1>3. F!EventsWereCommitted <=> Ful!EventsWereCommitted
    BY DEF F!EventsWereCommitted, Ful!EventsWereCommitted
  <1>4. IInv => F!AssignedOncePerRecord /\ F!CompletedWasShipped
    BY DEF IInv, F!IInv
  <1> QED
    BY <1>1, <1>2, <1>3, <1>4, Invariance, PTL
==============================================================================
