---------------------------- MODULE PullSubscriber ----------------------------
(***************************************************************************)
(* The pull loop of shared/pubsub/subscriber.py, run by one thread per     *)
(* container on one subscription, with the idempotent handler that every   *)
(* subscriber of the three services is built as (shared/db/idempotency.py).*)
(*                                                                         *)
(* Pub/Sub is external: a message that was pulled is leased for 30 s; if   *)
(* it is not acknowledged in time it is delivered again, to any container, *)
(* and after five deliveries it goes to the dead-letter topic.  There is   *)
(* no negative acknowledgement: a handler that raised leaves the lease to  *)
(* run out.  Acknowledgements are best effort.                             *)
(*                                                                         *)
(* Left out: logging of delivery attempts; what the effect is (the models  *)
(* of the services say it); pull errors, which only start the loop again.  *)
(***************************************************************************)
EXTENDS Naturals, FiniteSets

CONSTANTS
  Consumer,         \* containers, one thread each
  Message, Event,
  EventOf,          \* EventOf[m]: the event in message m; messages may share one
  Relevant,         \* the messages whose event type this subscriber handles
  MaxMessages,      \* max_messages of a pull
  MaxAttempts,      \* max_delivery_attempts of the subscription
  MaxRestarts,      \* bound: containers stopped or lost
  MaxAckErrors,     \* bound: failing acknowledge calls
  NoMessage

ASSUME PullAssumption ==
  /\ EventOf \in [Message -> Event]
  /\ Relevant \subseteq Message
  /\ MaxMessages \in Nat \ {0} /\ MaxAttempts \in Nat \ {0}
  /\ MaxRestarts \in Nat /\ MaxAckErrors \in Nat
  /\ NoMessage \notin Message

VARIABLES
  box,        \* Pub/Sub: where each message is
  attempts,   \* Pub/Sub: deliveries of each message
  thread,     \* what each container's thread is doing
  running,    \* _running
  batch,      \* received_messages not yet handled
  current,    \* the message in the handler's transaction
  acks,       \* ack_ids
  processed,  \* the committed processed_events of the service
  effects,    \* history: how often each event's effect was committed
  restarts, ackErrors

pubsub == <<box, attempts>>
loop == <<thread, batch, current, acks>>
db == <<processed, effects>>
faults == <<restarts, ackErrors>>
vars == <<box, attempts, thread, running, batch, current, acks, processed,
          effects, restarts, ackErrors>>

Place == {"unpublished", "queued", "leased", "acked", "dead"}
Thread == {"down",      \* no container
           "loop",      \* at the head of the while loop
           "batch",     \* in the for loop over received_messages
           "handler",   \* in the handler, event not processed when it looked
           "ended"}     \* an exception left _run_loop; the container stays up

TypeOK ==
  /\ box \in [Message -> Place]
  /\ attempts \in [Message -> 0 .. MaxAttempts]
  /\ thread \in [Consumer -> Thread]
  /\ running \in [Consumer -> BOOLEAN]
  /\ batch \in [Consumer -> SUBSET Message]
  /\ current \in [Consumer -> Message \cup {NoMessage}]
  /\ acks \in [Consumer -> SUBSET Message]
  /\ processed \subseteq Event
  /\ effects \in [Event -> Nat]
  /\ restarts \in 0 .. MaxRestarts /\ ackErrors \in 0 .. MaxAckErrors

Init ==
  /\ box = [m \in Message |-> "unpublished"]
  /\ attempts = [m \in Message |-> 0]
  /\ thread = [c \in Consumer |-> "down"]
  /\ running = [c \in Consumer |-> FALSE]
  /\ batch = [c \in Consumer |-> {}]
  /\ current = [c \in Consumer |-> NoMessage]
  /\ acks = [c \in Consumer |-> {}]
  /\ processed = {}
  /\ effects = [e \in Event |-> 0]
  /\ restarts = 0 /\ ackErrors = 0

------------------------------------------------------------------------------
(* Pub/Sub *)

\* publish_event, by a service or by hand when a dead letter is replayed.
Publish(m) ==
  /\ box[m] = "unpublished"
  /\ box' = [box EXCEPT ![m] = "queued"]
  /\ UNCHANGED <<attempts, loop, running, db, faults>>

\* Mutant: a subscription without a dead-letter policy.
LeaseAlwaysExpires(m) ==
  /\ box[m] = "leased"
  /\ box' = [box EXCEPT ![m] = "queued"]
  /\ UNCHANGED <<attempts, loop, running, db, faults>>

\* Thirty seconds have passed, whatever the consumer is doing with the message.
LeaseExpires(m) ==
  /\ box[m] = "leased"
  /\ box' = [box EXCEPT ![m] = IF attempts[m] < MaxAttempts THEN "queued" ELSE "dead"]
  /\ UNCHANGED <<attempts, loop, running, db, faults>>

------------------------------------------------------------------------------
(* The thread *)

Start(c) ==
  /\ thread[c] = "down"
  /\ thread' = [thread EXCEPT ![c] = "loop"]
  /\ running' = [running EXCEPT ![c] = TRUE]
  /\ UNCHANGED <<pubsub, batch, current, acks, db, faults>>

\* stop, at the end of lifespan: the loop looks at _running between batches.
Stop(c) ==
  /\ running[c]
  /\ restarts < MaxRestarts
  /\ restarts' = restarts + 1
  /\ running' = [running EXCEPT ![c] = FALSE]
  /\ UNCHANGED <<pubsub, loop, db, ackErrors>>

GoDown(c) ==
  /\ thread' = [thread EXCEPT ![c] = "down"]
  /\ batch' = [batch EXCEPT ![c] = {}]
  /\ current' = [current EXCEPT ![c] = NoMessage]
  /\ acks' = [acks EXCEPT ![c] = {}]

LoopEnds(c) ==
  /\ thread[c] = "loop"
  /\ ~ running[c]
  /\ GoDown(c)
  /\ UNCHANGED <<pubsub, running, db, faults>>

\* A stopping container ends with its daemon thread wherever that is.
Exit(c) ==
  /\ thread[c] # "down"
  /\ ~ running[c]
  /\ GoDown(c)
  /\ UNCHANGED <<pubsub, running, db, faults>>

Crash(c) ==
  /\ thread[c] # "down"
  /\ restarts < MaxRestarts
  /\ restarts' = restarts + 1
  /\ running' = [running EXCEPT ![c] = FALSE]
  /\ GoDown(c)
  /\ UNCHANGED <<pubsub, db, ackErrors>>

\* Up to max_messages, in no particular order.
Pull(c) ==
  /\ thread[c] = "loop"
  /\ running[c]
  /\ \E M \in SUBSET {m \in Message : box[m] = "queued"} :
       /\ M # {} /\ Cardinality(M) <= MaxMessages
       /\ box' = [m \in Message |-> IF m \in M THEN "leased" ELSE box[m]]
       /\ attempts' = [m \in Message |-> IF m \in M THEN attempts[m] + 1 ELSE attempts[m]]
       /\ batch' = [batch EXCEPT ![c] = M]
  /\ thread' = [thread EXCEPT ![c] = "batch"]
  /\ UNCHANGED <<running, current, acks, db, faults>>

------------------------------------------------------------------------------
(* handle(envelope) *)

\* Another event type, or is_already_processed: return, to be acknowledged.
HandleSkips(c, m) ==
  /\ thread[c] = "batch"
  /\ m \in batch[c]
  /\ m \in Relevant => EventOf[m] \in processed
  /\ batch' = [batch EXCEPT ![c] = @ \ {m}]
  /\ acks' = [acks EXCEPT ![c] = @ \cup {m}]
  /\ UNCHANGED <<pubsub, thread, running, current, db, faults>>

HandleBegins(c, m) ==
  /\ thread[c] = "batch"
  /\ m \in batch[c] \cap Relevant
  /\ EventOf[m] \notin processed
  /\ thread' = [thread EXCEPT ![c] = "handler"]
  /\ batch' = [batch EXCEPT ![c] = @ \ {m}]
  /\ current' = [current EXCEPT ![c] = m]
  /\ UNCHANGED <<pubsub, running, acks, db, faults>>

Return(c, done) ==
  /\ thread' = [thread EXCEPT ![c] = "batch"]
  /\ current' = [current EXCEPT ![c] = NoMessage]
  /\ acks' = [acks EXCEPT ![c] = @ \cup done]
  /\ UNCHANGED batch

\* Mutant: processed_events without its unique constraint.
HandleCommitsTwice(c) ==
  LET e == EventOf[current[c]]
  IN  /\ thread[c] = "handler"
      /\ processed' = processed \cup {e}
      /\ effects' = [effects EXCEPT ![e] = @ + 1]
      /\ Return(c, {current[c]})
      /\ UNCHANGED <<pubsub, running, faults>>

\* mark_processed and commit: the effect and the ProcessedEvent row together.
HandleCommits(c) ==
  LET e == EventOf[current[c]]
  IN  /\ thread[c] = "handler"
      /\ e \notin processed
      /\ processed' = processed \cup {e}
      /\ effects' = [effects EXCEPT ![e] = @ + 1]
      /\ Return(c, {current[c]})
      /\ UNCHANGED <<pubsub, running, faults>>

\* Refused by the service, a lost connection, or IntegrityError because another
\* delivery committed meanwhile: rolled back, logged, not acknowledged.
HandleRaises(c) ==
  /\ thread[c] = "handler"
  /\ Return(c, {})
  /\ UNCHANGED <<pubsub, running, db, faults>>

------------------------------------------------------------------------------
(* The end of a batch *)

\* Mutant: a batch in which every handler raised is never left.
BatchHangs(c) ==
  /\ thread[c] = "batch"
  /\ batch[c] = {}
  /\ acks[c] # {}
  /\ thread' = [thread EXCEPT ![c] = "loop"]
  /\ acks' = [acks EXCEPT ![c] = {}]
  /\ \E A \in SUBSET {m \in acks[c] : box[m] \in {"queued", "leased"}} :
       box' = [m \in Message |-> IF m \in A THEN "acked" ELSE box[m]]
  /\ UNCHANGED <<attempts, running, batch, current, db, faults>>

\* acknowledge, if there is anything to acknowledge.  An ack id that came too
\* late, and any other, may be without effect.
BatchEnds(c) ==
  /\ thread[c] = "batch"
  /\ batch[c] = {}
  /\ thread' = [thread EXCEPT ![c] = "loop"]
  /\ acks' = [acks EXCEPT ![c] = {}]
  /\ \E A \in SUBSET {m \in acks[c] : box[m] \in {"queued", "leased"}} :
       box' = [m \in Message |-> IF m \in A THEN "acked" ELSE box[m]]
  /\ UNCHANGED <<attempts, running, batch, current, db, faults>>

\* acknowledge raises outside of every try: the exception ends the thread.
AcknowledgeRaises(c) ==
  /\ thread[c] = "batch"
  /\ batch[c] = {} /\ acks[c] # {}
  /\ ackErrors < MaxAckErrors
  /\ ackErrors' = ackErrors + 1
  /\ thread' = [thread EXCEPT ![c] = "ended"]
  /\ acks' = [acks EXCEPT ![c] = {}]
  /\ UNCHANGED <<pubsub, running, batch, current, db, restarts>>

------------------------------------------------------------------------------
Work(c) ==
  \/ Pull(c) \/ LoopEnds(c)
  \/ \E m \in Message : HandleSkips(c, m) \/ HandleBegins(c, m)
  \/ HandleCommits(c) \/ HandleRaises(c)
  \/ BatchEnds(c) \/ AcknowledgeRaises(c)

Next ==
  \/ \E m \in Message : Publish(m) \/ LeaseExpires(m)
  \/ \E c \in Consumer : Start(c) \/ Work(c) \/ Stop(c) \/ Exit(c) \/ Crash(c)

Spec == Init /\ [][Next]_vars

\* Cloud Run keeps its containers, threads run on, and leases run out.
Fairness ==
  /\ \A c \in Consumer : WF_vars(Start(c)) /\ WF_vars(Work(c))
  /\ \A m \in Message : WF_vars(LeaseExpires(m))

FairSpec == Spec /\ Fairness

------------------------------------------------------------------------------
(* Properties *)

\* What Delivery sees of a message.
Fate == [m \in Message |-> IF box[m] \in {"queued", "leased"} THEN "open" ELSE box[m]]

\* The subscription keeps its promise although messages are handled by several
\* containers at once, leases run out while handlers run, acknowledgements get
\* lost and containers die between an effect and its acknowledgement.
Promise == INSTANCE Delivery WITH fate <- Fate

ImplementsDelivery == Promise!DeliverySpec

\* "On unhandled exception the message is NOT acked ... so failed messages
\* eventually go to a DLQ topic": no message stays open for ever, and one that
\* always fails does not hold up the others.
EveryMessageSettles ==
  \A m \in Message : box[m] = "queued" ~> box[m] \in {"acked", "dead"}

------------------------------------------------------------------------------
(* The inductive invariant *)

\* The ProcessedEvent row and the effect are committed together, once.
EffectsAreProcessed == \A e \in Event : effects[e] = IF e \in processed THEN 1 ELSE 0

\* An ack id is kept only for a message that is done.
AcksAreDone ==
  \A c \in Consumer : \A m \in acks[c] : m \in Relevant => EventOf[m] \in processed

\* Threads work on messages that Pub/Sub has delivered; in a handler, on one.
WorkIsDelivered ==
  \A c \in Consumer :
    /\ \A m \in batch[c] : box[m] # "unpublished"
    /\ thread[c] = "handler" => /\ current[c] \in Relevant
                               /\ box[current[c]] # "unpublished"

\* A message that may be delivered has an attempt left.
QueuedHasAttempts ==
  \A m \in Message : box[m] \in {"unpublished", "queued"} => attempts[m] < MaxAttempts

IInv ==
  /\ TypeOK
  /\ EffectsAreProcessed /\ AcksAreDone /\ WorkIsDelivered /\ QueuedHasAttempts
==============================================================================
