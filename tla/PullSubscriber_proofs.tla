------------------------- MODULE PullSubscriber_proofs -------------------------
(* Proofs that a subscription keeps the promise of Delivery, for any         *)
(* containers, messages, attempts and bounds on what fails.                  *)
EXTENDS PullSubscriber, TLAPS

\* The initial state satisfies the invariant.
LEMMA InitIInv == Init => IInv
  BY PullAssumption DEF Init, IInv, TypeOK, Place, Thread, EffectsAreProcessed, AcksAreDone,
     WorkIsDelivered, QueuedHasAttempts

\* A published message has all its attempts left.
LEMMA PublishStep == ASSUME IInv, NEW m \in Message, Publish(m) PROVE IInv'
  <1> USE DEF IInv
  <1>1. TypeOK'
    BY DEF TypeOK, Place, Publish, loop, db, faults
  <1>2. EffectsAreProcessed' /\ AcksAreDone'
    BY DEF EffectsAreProcessed, AcksAreDone, Publish, loop, db
  <1>3. WorkIsDelivered'
    BY DEF WorkIsDelivered, Publish, loop
  <1>4. QueuedHasAttempts'
    BY DEF QueuedHasAttempts, Publish
  <1> QED
    BY <1>1, <1>2, <1>3, <1>4

\* Only a message with attempts left is queued again.
LEMMA LeaseExpiresStep == ASSUME IInv, NEW m \in Message, LeaseExpires(m) PROVE IInv'
  <1> USE DEF IInv
  <1>1. TypeOK'
    BY DEF TypeOK, Place, LeaseExpires, loop, db, faults
  <1>2. EffectsAreProcessed' /\ AcksAreDone'
    BY DEF EffectsAreProcessed, AcksAreDone, LeaseExpires, loop, db
  <1>3. WorkIsDelivered'
    BY DEF WorkIsDelivered, LeaseExpires, loop
  <1>4. QueuedHasAttempts'
    BY DEF QueuedHasAttempts, LeaseExpires
  <1> QED
    BY <1>1, <1>2, <1>3, <1>4

\* A new thread has nothing at hand.
LEMMA StartStep == ASSUME IInv, NEW c \in Consumer, Start(c) PROVE IInv'
  <1> USE DEF IInv
  <1>1. TypeOK'
    BY DEF TypeOK, Thread, Start, pubsub, db, faults
  <1>2. EffectsAreProcessed' /\ AcksAreDone'
    BY DEF EffectsAreProcessed, AcksAreDone, Start, db
  <1>3. WorkIsDelivered'
    BY DEF WorkIsDelivered, Start, pubsub
  <1>4. QueuedHasAttempts'
    BY DEF QueuedHasAttempts, Start, pubsub
  <1> QED
    BY <1>1, <1>2, <1>3, <1>4

\* Stopping leaves the thread alone.
LEMMA StopStep == ASSUME IInv, NEW c \in Consumer, Stop(c) PROVE IInv'
  <1> USE DEF IInv
  <1>1. TypeOK'
    BY PullAssumption DEF TypeOK, Stop, pubsub, loop, db
  <1>2. EffectsAreProcessed' /\ AcksAreDone'
    BY DEF EffectsAreProcessed, AcksAreDone, Stop, loop, db
  <1>3. WorkIsDelivered'
    BY DEF WorkIsDelivered, Stop, pubsub, loop
  <1>4. QueuedHasAttempts'
    BY DEF QueuedHasAttempts, Stop, pubsub
  <1> QED
    BY <1>1, <1>2, <1>3, <1>4

\* A thread that ends drops what it had at hand.
LEMMA LoopEndsStep == ASSUME IInv, NEW c \in Consumer, LoopEnds(c) PROVE IInv'
  <1> USE DEF IInv
  <1>1. TypeOK'
    BY DEF TypeOK, Thread, LoopEnds, GoDown, pubsub, db, faults
  <1>2. EffectsAreProcessed' /\ AcksAreDone'
    BY DEF EffectsAreProcessed, AcksAreDone, LoopEnds, GoDown, db
  <1>3. WorkIsDelivered'
    BY DEF WorkIsDelivered, LoopEnds, GoDown, pubsub
  <1>4. QueuedHasAttempts'
    BY DEF QueuedHasAttempts, LoopEnds, pubsub
  <1> QED
    BY <1>1, <1>2, <1>3, <1>4

\* So does one whose process exits,
LEMMA ExitStep == ASSUME IInv, NEW c \in Consumer, Exit(c) PROVE IInv'
  <1> USE DEF IInv
  <1>1. TypeOK'
    BY DEF TypeOK, Thread, Exit, GoDown, pubsub, db, faults
  <1>2. EffectsAreProcessed' /\ AcksAreDone'
    BY DEF EffectsAreProcessed, AcksAreDone, Exit, GoDown, db
  <1>3. WorkIsDelivered'
    BY DEF TypeOK, WorkIsDelivered, Exit, GoDown, pubsub
  <1>4. QueuedHasAttempts'
    BY DEF QueuedHasAttempts, Exit, pubsub
  <1> QED
    BY <1>1, <1>2, <1>3, <1>4

\* or whose container is lost.
LEMMA CrashStep == ASSUME IInv, NEW c \in Consumer, Crash(c) PROVE IInv'
  <1> USE DEF IInv
  <1>1. TypeOK'
    BY PullAssumption DEF TypeOK, Thread, Crash, GoDown, pubsub, db
  <1>2. EffectsAreProcessed' /\ AcksAreDone'
    BY DEF EffectsAreProcessed, AcksAreDone, Crash, GoDown, db
  <1>3. WorkIsDelivered'
    BY DEF TypeOK, WorkIsDelivered, Crash, GoDown, pubsub
  <1>4. QueuedHasAttempts'
    BY DEF QueuedHasAttempts, Crash, pubsub
  <1> QED
    BY <1>1, <1>2, <1>3, <1>4

\* What is pulled was published, and had an attempt left.
LEMMA PullStep == ASSUME IInv, NEW c \in Consumer, Pull(c) PROVE IInv'
  <1> USE DEF IInv
  <1>0. PICK X \in SUBSET {m \in Message : box[m] = "queued"} :
          /\ box' = [m \in Message |-> IF m \in X THEN "leased" ELSE box[m]]
          /\ attempts' = [m \in Message |-> IF m \in X THEN attempts[m] + 1 ELSE attempts[m]]
          /\ batch' = [batch EXCEPT ![c] = X]
    BY DEF Pull
  <1>1. TypeOK'
    <2>1. box' \in [Message -> Place]
      BY <1>0 DEF TypeOK, Place
    <2>2. attempts' \in [Message -> 0 .. MaxAttempts]
      <3> SUFFICES ASSUME NEW m \in X PROVE attempts[m] + 1 \in 0 .. MaxAttempts
        BY <1>0 DEF TypeOK
      <3>1. attempts[m] \in 0 .. MaxAttempts /\ attempts[m] < MaxAttempts
        BY DEF TypeOK, QueuedHasAttempts
      <3> QED
        BY <3>1, PullAssumption
    <2>3. batch' \in [Consumer -> SUBSET Message]
      BY <1>0 DEF TypeOK
    <2>4. thread' \in [Consumer -> Thread]
      BY DEF TypeOK, Thread, Pull
    <2> QED
      BY <2>1, <2>2, <2>4 DEF TypeOK, Pull, db, faults
  <1>2. EffectsAreProcessed' /\ AcksAreDone'
    BY DEF EffectsAreProcessed, AcksAreDone, Pull, db
  <1>3. WorkIsDelivered'
    BY PullAssumption DEF TypeOK, WorkIsDelivered, Pull
  <1>4. QueuedHasAttempts'
    BY DEF QueuedHasAttempts, Pull
  <1> QED
    BY <1>1, <1>2, <1>3, <1>4

\* A message is skipped only if its event is processed or none of ours.
LEMMA HandleSkipsStep == ASSUME IInv, NEW c \in Consumer, NEW m \in Message, HandleSkips(c, m) PROVE IInv'
  <1> USE DEF IInv
  <1>1. TypeOK'
    BY DEF TypeOK, HandleSkips, pubsub, db, faults
  <1>2. EffectsAreProcessed' /\ AcksAreDone'
    BY DEF EffectsAreProcessed, AcksAreDone, HandleSkips, db
  <1>3. WorkIsDelivered'
    BY DEF WorkIsDelivered, HandleSkips, pubsub
  <1>4. QueuedHasAttempts'
    BY DEF QueuedHasAttempts, HandleSkips, pubsub
  <1> QED
    BY <1>1, <1>2, <1>3, <1>4

\* The message in the handler is one that was pulled.
LEMMA HandleBeginsStep == ASSUME IInv, NEW c \in Consumer, NEW m \in Message, HandleBegins(c, m) PROVE IInv'
  <1> USE DEF IInv
  <1>1. TypeOK'
    BY DEF TypeOK, Thread, HandleBegins, pubsub, db, faults
  <1>2. EffectsAreProcessed' /\ AcksAreDone'
    BY DEF EffectsAreProcessed, AcksAreDone, HandleBegins, db
  <1>3. WorkIsDelivered'
    BY DEF TypeOK, WorkIsDelivered, HandleBegins, pubsub
  <1>4. QueuedHasAttempts'
    BY DEF QueuedHasAttempts, HandleBegins, pubsub
  <1> QED
    BY <1>1, <1>2, <1>3, <1>4

\* The commit marks the event and counts its effect.
LEMMA HandleCommitsStep == ASSUME IInv, NEW c \in Consumer, HandleCommits(c) PROVE IInv'
  <1> USE DEF IInv
  <1>1. TypeOK'
    <2>1. current[c] \in Message /\ EventOf[current[c]] \in Event
      BY PullAssumption DEF WorkIsDelivered, HandleCommits
    <2>2. processed' \subseteq Event /\ effects' \in [Event -> Nat]
      BY <2>1 DEF TypeOK, HandleCommits
    <2>3. /\ thread' \in [Consumer -> Thread]
          /\ current' \in [Consumer -> Message \cup {NoMessage}]
      BY DEF TypeOK, Thread, HandleCommits, Return
    <2>4. acks' \in [Consumer -> SUBSET Message]
      BY <2>1 DEF TypeOK, HandleCommits, Return
    <2> QED
      BY <2>2, <2>3, <2>4 DEF TypeOK, HandleCommits, Return, pubsub, faults
  <1>2. EffectsAreProcessed' /\ AcksAreDone'
    <2> DEFINE m == current[c]
               e == EventOf[m]
    <2>1. m \in Message /\ e \in Event
      BY PullAssumption DEF WorkIsDelivered, HandleCommits
    <2>2. /\ e \notin processed /\ processed' = processed \cup {e}
          /\ effects' = [effects EXCEPT ![e] = @ + 1]
          /\ acks' = [acks EXCEPT ![c] = @ \cup {m}]
      BY DEF HandleCommits, Return
    <2>3. EffectsAreProcessed'
      BY <2>2 DEF TypeOK, EffectsAreProcessed
    <2>4. AcksAreDone'
      BY <2>2 DEF AcksAreDone
    <2> QED
      BY <2>3, <2>4
  <1>3. WorkIsDelivered'
    BY DEF TypeOK, WorkIsDelivered, HandleCommits, Return, pubsub
  <1>4. QueuedHasAttempts'
    BY DEF QueuedHasAttempts, HandleCommits, pubsub
  <1> QED
    BY <1>1, <1>2, <1>3, <1>4

\* A handler that raises changes nothing that is kept.
LEMMA HandleRaisesStep == ASSUME IInv, NEW c \in Consumer, HandleRaises(c) PROVE IInv'
  <1> USE DEF IInv
  <1>1. TypeOK'
    BY DEF TypeOK, Thread, HandleRaises, Return, pubsub, db, faults
  <1>2. EffectsAreProcessed' /\ AcksAreDone'
    BY DEF EffectsAreProcessed, AcksAreDone, HandleRaises, Return, db
  <1>3. WorkIsDelivered'
    BY DEF TypeOK, WorkIsDelivered, HandleRaises, Return, pubsub
  <1>4. QueuedHasAttempts'
    BY DEF QueuedHasAttempts, HandleRaises, pubsub
  <1> QED
    BY <1>1, <1>2, <1>3, <1>4

\* Acknowledging keeps published messages published.
LEMMA BatchEndsStep == ASSUME IInv, NEW c \in Consumer, BatchEnds(c) PROVE IInv'
  <1> USE DEF IInv
  <1>1. TypeOK'
    BY DEF TypeOK, Place, Thread, BatchEnds, db, faults
  <1>2. EffectsAreProcessed' /\ AcksAreDone'
    BY DEF EffectsAreProcessed, AcksAreDone, BatchEnds, db
  <1>3. WorkIsDelivered'
    BY PullAssumption DEF TypeOK, WorkIsDelivered, BatchEnds
  <1>4. QueuedHasAttempts'
    BY DEF QueuedHasAttempts, BatchEnds
  <1> QED
    BY <1>1, <1>2, <1>3, <1>4

\* A thread that has ended holds no ack ids.
LEMMA AcknowledgeRaisesStep == ASSUME IInv, NEW c \in Consumer, AcknowledgeRaises(c) PROVE IInv'
  <1> USE DEF IInv
  <1>1. TypeOK'
    BY PullAssumption DEF TypeOK, Thread, AcknowledgeRaises, pubsub, db
  <1>2. EffectsAreProcessed' /\ AcksAreDone'
    BY DEF EffectsAreProcessed, AcksAreDone, AcknowledgeRaises, db
  <1>3. WorkIsDelivered'
    BY DEF WorkIsDelivered, AcknowledgeRaises, pubsub
  <1>4. QueuedHasAttempts'
    BY DEF QueuedHasAttempts, AcknowledgeRaises, pubsub
  <1> QED
    BY <1>1, <1>2, <1>3, <1>4

\* The invariant holds in every reachable state.
LEMMA Invariance == Spec => []IInv
  <1>1. IInv /\ [Next]_vars => IInv'
    <2> SUFFICES ASSUME IInv, [Next]_vars PROVE IInv'
      OBVIOUS
    <2>1. CASE \E m \in Message : Publish(m) \/ LeaseExpires(m)
      BY <2>1, PublishStep, LeaseExpiresStep
    <2>2. CASE \E c \in Consumer : Start(c) \/ Stop(c) \/ Exit(c) \/ Crash(c)
      BY <2>2, StartStep, StopStep, ExitStep, CrashStep
    <2>3. CASE \E c \in Consumer : Work(c)
      <3>1. PICK c \in Consumer : Work(c)
        BY <2>3
      <3>2. CASE \E m \in Message : HandleSkips(c, m) \/ HandleBegins(c, m)
        BY <3>2, HandleSkipsStep, HandleBeginsStep
      <3>3. CASE HandleCommits(c) \/ HandleRaises(c)
        BY <3>3, HandleCommitsStep, HandleRaisesStep
      <3>4. CASE Pull(c) \/ LoopEnds(c) \/ BatchEnds(c) \/ AcknowledgeRaises(c)
        BY <3>4, PullStep, LoopEndsStep, BatchEndsStep, AcknowledgeRaisesStep
      <3> QED
        BY <3>1, <3>2, <3>3, <3>4 DEF Work
    <2>4. CASE UNCHANGED vars
      BY <2>4 DEF vars, IInv, TypeOK, EffectsAreProcessed, AcksAreDone, WorkIsDelivered,
         QueuedHasAttempts
    <2> QED
      BY <2>1, <2>2, <2>3, <2>4 DEF Next
  <1> QED
    BY <1>1, InitIInv, PTL DEF Spec

\* Every variable keeps its type: in particular no message is delivered more
\* than MaxAttempts times.
THEOREM TypeCorrect == Spec => []TypeOK
  BY Invariance, PTL DEF IInv

------------------------------------------------------------------------------
(* The refinement *)

\* Queued and leased are the same to Delivery.
LEMMA FateUnchanged ==
  ASSUME \A m \in Message : \/ box'[m] = box[m]
                           \/ {box[m], box'[m]} \subseteq {"queued", "leased"}
  PROVE  Fate' = Fate
  BY DEF Fate

\* A step that leaves the messages and the effects alone is a stutter.
LEMMA Stutters ==
  ASSUME UNCHANGED <<box, effects>>
  PROVE  UNCHANGED Promise!deliveryVars
  BY DEF Fate, Promise!deliveryVars

\* The initial states are those of Delivery.
LEMMA InitRefines == Init => Promise!DeliveryInit
  BY DEF Init, Fate, Promise!DeliveryInit

\* publish_event posts.
LEMMA PublishRefines == ASSUME TypeOK, NEW m \in Message, Publish(m) PROVE Promise!Post(m)
  <1>1. Fate' = [Fate EXCEPT ![m] = "open"]
    BY DEF TypeOK, Publish, Fate
  <1>2. Fate[m] = "unpublished"
    BY DEF Publish, Fate
  <1> QED
    BY <1>1, <1>2 DEF Promise!Post, Publish, db

\* A lease that runs out for the last time buries the message.
LEMMA LeaseRefines ==
  ASSUME TypeOK, NEW m \in Message, LeaseExpires(m)
  PROVE  Promise!Bury(m) \/ UNCHANGED Promise!deliveryVars
  <1>1. CASE attempts[m] < MaxAttempts
    <2>1. \A n \in Message : \/ box'[n] = box[n]
                            \/ {box[n], box'[n]} \subseteq {"queued", "leased"}
      BY <1>1 DEF LeaseExpires
    <2> QED
      BY <2>1, FateUnchanged DEF Promise!deliveryVars, LeaseExpires, db
  <1>2. CASE ~ (attempts[m] < MaxAttempts)
    <2>1. Fate' = [Fate EXCEPT ![m] = "dead"] /\ Fate[m] = "open"
      BY <1>2 DEF TypeOK, LeaseExpires, Fate
    <2> QED
      BY <2>1 DEF Promise!Bury, LeaseExpires, db
  <1> QED
    BY <1>1, <1>2

\* Pulling is no step of Delivery.
LEMMA PullRefines ==
  ASSUME TypeOK, NEW c \in Consumer, Pull(c)
  PROVE  UNCHANGED Promise!deliveryVars
  <1>1. \A n \in Message : \/ box'[n] = box[n]
                          \/ {box[n], box'[n]} \subseteq {"queued", "leased"}
    BY DEF Pull
  <1> QED
    BY FateUnchanged DEF Promise!deliveryVars, Pull, db

\* The commit of a handler is the effect, the first of its event.
LEMMA CommitRefines ==
  ASSUME IInv, NEW c \in Consumer, HandleCommits(c)
  PROVE  Promise!TakeEffect(current[c])
  <1> DEFINE m == current[c]
  <1>1. m \in Relevant /\ m \in Message /\ EventOf[m] \in Event /\ box[m] # "unpublished"
    BY PullAssumption DEF IInv, WorkIsDelivered, HandleCommits
  <1>2. effects[EventOf[m]] = 0
    BY <1>1 DEF IInv, EffectsAreProcessed, HandleCommits
  <1>3. effects' = [effects EXCEPT ![EventOf[m]] = 1]
    BY <1>2 DEF HandleCommits
  <1>4. Fate' = Fate
    BY DEF HandleCommits, pubsub, Fate
  <1>5. Fate[m] # "unpublished"
    BY <1>1 DEF Fate
  <1> QED
    BY <1>1, <1>2, <1>3, <1>4, <1>5 DEF Promise!TakeEffect

\* The end of a batch settles those of its messages whose ack id still counts.
LEMMA BatchRefines ==
  ASSUME IInv, NEW c \in Consumer, BatchEnds(c)
  PROVE  \E A \in SUBSET Message : Promise!Settle(A)
  <1>1. PICK A \in SUBSET {m \in acks[c] : box[m] \in {"queued", "leased"}} :
          box' = [m \in Message |-> IF m \in A THEN "acked" ELSE box[m]]
    BY DEF BatchEnds
  <1>2. A \subseteq Message
    BY DEF IInv, TypeOK
  <1>3. \A m \in A : Fate[m] = "open" /\ Promise!Done(m)
    <2> SUFFICES ASSUME NEW m \in A PROVE Fate[m] = "open" /\ Promise!Done(m)
      OBVIOUS
    <2>1. m \in acks[c] /\ m \in Message /\ EventOf[m] \in Event /\ Fate[m] = "open"
      BY <1>2, PullAssumption DEF Fate
    <2>2. m \in Relevant => effects[EventOf[m]] = 1
      BY <2>1 DEF IInv, AcksAreDone, EffectsAreProcessed
    <2> QED
      BY <2>1, <2>2 DEF Promise!Done
  <1>4. Fate' = [m \in Message |-> IF m \in A THEN "acked" ELSE Fate[m]]
    BY <1>1 DEF Fate
  <1>5. effects' = effects
    BY DEF BatchEnds, db
  <1> QED
    BY <1>2, <1>3, <1>4, <1>5 DEF Promise!Settle

\* Every step is one of Delivery or a stutter.
LEMMA StepRefines ==
  ASSUME IInv, [Next]_vars
  PROVE  [Promise!DeliveryNext]_(Promise!deliveryVars)
  <1>1. CASE \E m \in Message : Publish(m) \/ LeaseExpires(m)
    BY <1>1, PublishRefines, LeaseRefines DEF IInv, Promise!DeliveryNext
  <1>2. CASE \E c \in Consumer : Start(c) \/ Stop(c) \/ Exit(c) \/ Crash(c)
    <2>1. UNCHANGED <<box, effects>>
      BY <1>2 DEF Start, Stop, Exit, Crash, pubsub, db
    <2> QED
      BY <2>1, Stutters
  <1>3. CASE \E c \in Consumer : Work(c)
    <2>1. PICK c \in Consumer : Work(c)
      BY <1>3
    <2>2. CASE Pull(c)
      BY <2>2, PullRefines DEF IInv
    <2>3. CASE HandleCommits(c)
      <3>1. current[c] \in Message
        BY <2>3, PullAssumption DEF IInv, WorkIsDelivered, HandleCommits
      <3> QED
        BY <2>3, <3>1, CommitRefines DEF Promise!DeliveryNext
    <2>4. CASE BatchEnds(c)
      BY <2>4, BatchRefines DEF Promise!DeliveryNext
    <2>5. CASE \/ LoopEnds(c) \/ HandleRaises(c) \/ AcknowledgeRaises(c)
               \/ \E m \in Message : HandleSkips(c, m) \/ HandleBegins(c, m)
      <3>1. UNCHANGED <<box, effects>>
        BY <2>5 DEF LoopEnds, HandleRaises, AcknowledgeRaises, HandleSkips, HandleBegins,
           pubsub, db
      <3> QED
        BY <3>1, Stutters
    <2> QED
      BY <2>1, <2>2, <2>3, <2>4, <2>5 DEF Work
  <1>4. CASE UNCHANGED vars
    BY <1>4, Stutters DEF vars
  <1> QED
    BY <1>1, <1>2, <1>3, <1>4 DEF Next

\* The subscription implements Delivery, for any number of containers and
\* messages: an event takes effect at most once, and no message is acknowledged
\* before its event has taken effect.
THEOREM SubscriptionKeepsPromise == Spec => ImplementsDelivery
  BY InitRefines, Invariance, StepRefines, PTL DEF Spec, ImplementsDelivery,
     Promise!DeliverySpec
==============================================================================
