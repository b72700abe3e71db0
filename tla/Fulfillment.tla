----------------------------- MODULE Fulfillment -----------------------------
(***************************************************************************)
(* The Fulfillment service: one record per order, made by the order.created*)
(* subscriber and moved on by staff over HTTP (services/fulfillment).      *)
(*                                                                         *)
(* A member of Req is a slot in which one message or request is handled    *)
(* after the other, each in one SQL transaction.  A plain SELECT reads the *)
(* committed record and waits for nothing; an INSERT waits for another     *)
(* uncommitted record of the same order (order_id is unique), an UPDATE    *)
(* for the row lock.  Both events are published inside the transaction.    *)
(*                                                                         *)
(* Left out: warehouse and carrier (functions of the order id), tracking,  *)
(* the version column (written, never compared), reads.  A request that is *)
(* refused without having written (404, 409) is not a step.                *)
(***************************************************************************)
EXTENDS Naturals, FiniteSets

CONSTANTS
  Order,
  Req,          \* slots of requests and subscriber threads
  Event,        \* order.created event ids
  EventOrder,   \* EventOrder[e]: its order; a replay by hand gives a new id
  MaxPublished, \* bound: events of one kind published for one order
  NoReq, NoOrder, NoEvent

ASSUME FulfillmentAssumption ==
  /\ EventOrder \in [Event -> Order]
  /\ MaxPublished \in Nat \ {0}
  /\ NoReq \notin Req /\ NoOrder \notin Order /\ NoEvent \notin Event

VARIABLES
  status,      \* the committed status of each order's record; "absent": none
  lock,        \* who holds the record (or the index entry of a new one)
  req,         \* what each slot is doing
  processed,   \* the committed processed_events of this service
  assigned,    \* fulfillment.assigned events published, per order
  completed,   \* fulfillment.completed events published, per order
  reached,     \* history: statuses that were ever committed, per order
  undone       \* history: orders for which a transaction that had written was lost

out == <<assigned, completed>>
vars == <<status, lock, req, processed, assigned, completed, reached, undone>>

Status == {"absent", "pending", "assigned", "picking", "shipped", "completed", "failed"}

\* FULFILLMENT_TRANSITIONS
Transitions(s) ==
  CASE s = "pending"  -> {"assigned", "failed"}
    [] s = "assigned" -> {"picking", "failed"}
    [] s = "picking"  -> {"shipped", "failed"}
    [] s = "shipped"  -> {"completed", "failed"}
    [] OTHER          -> {}

Target == {"picking", "shipped", "completed", "failed"}

\* target: the status to be written, "absent" if nothing is.
ReqRecord == [op : {"idle", "read", "written"}, order : Order \cup {NoOrder},
              target : Status, event : Event \cup {NoEvent}]
Idle == [op |-> "idle", order |-> NoOrder, target |-> "absent", event |-> NoEvent]

\* Besides the types: a lock is held by whoever has written, and by no one else.
TypeOK ==
  /\ status \in [Order -> Status \ {"pending"}]
  /\ lock \in [Order -> Req \cup {NoReq}]
  /\ req \in [Req -> ReqRecord]
  /\ processed \subseteq Event
  /\ assigned \in [Order -> 0 .. MaxPublished]
  /\ completed \in [Order -> 0 .. MaxPublished]
  /\ reached \in [Order -> SUBSET Status]
  /\ undone \subseteq Order
  /\ \A o \in Order, r \in Req :
       lock[o] = r <=> req[r].op = "written" /\ req[r].order = o

Init ==
  /\ status = [o \in Order |-> "absent"]
  /\ lock = [o \in Order |-> NoReq]
  /\ req = [r \in Req |-> Idle]
  /\ processed = {}
  /\ assigned = [o \in Order |-> 0]
  /\ completed = [o \in Order |-> 0]
  /\ reached = [o \in Order |-> {}]
  /\ undone = {}

------------------------------------------------------------------------------
(* The session *)

Read(r, o, s, e) ==
  /\ req[r].op = "idle"
  /\ req' = [req EXCEPT ![r] = [op |-> "read", order |-> o, target |-> s, event |-> e]]
  /\ UNCHANGED <<status, lock, processed, out, reached, undone>>

CanLock(r) == lock[req[r].order] \in {NoReq, r}

Written(r) ==
  /\ CanLock(r)
  /\ lock' = [lock EXCEPT ![req[r].order] = r]
  /\ req' = [req EXCEPT ![r].op = "written"]

EndTx(r) ==
  /\ lock' = [o \in Order |-> IF lock[o] = r THEN NoReq ELSE lock[o]]
  /\ req' = [req EXCEPT ![r] = Idle]

Rollback(r) == EndTx(r) /\ UNCHANGED <<status, processed, out, reached>>

\* A publisher that is missing or fails is only logged.
MayPublish(count, o) ==
  \/ count[o] < MaxPublished /\ count' = [count EXCEPT ![o] = @ + 1]
  \/ UNCHANGED count

------------------------------------------------------------------------------
(* OrderCreatedSubscriber and create_from_order *)

\* is_already_processed and the look for an existing record share a snapshot.
CreateRead(r, e) ==
  /\ e \notin processed
  /\ Read(r, EventOrder[e],
          IF status[EventOrder[e]] = "absent" THEN "assigned" ELSE "absent", e)

Creating(r) == req[r].op = "read" /\ req[r].target = "assigned"

\* Mutant: published before the INSERT is flushed.
CreatePublishesFirst(r) ==
  /\ Creating(r)
  /\ MayPublish(assigned, req[r].order)
  /\ IF CanLock(r) /\ status[req[r].order] = "absent" THEN Written(r) ELSE EndTx(r)
  /\ UNCHANGED <<status, processed, completed, reached, undone>>

\* The INSERT is flushed, then fulfillment.assigned is published.
CreateInsert(r) ==
  /\ Creating(r)
  /\ status[req[r].order] = "absent"
  /\ Written(r)
  /\ MayPublish(assigned, req[r].order)
  /\ UNCHANGED <<status, processed, completed, reached, undone>>

\* IntegrityError: another delivery has made the record since.
CreateDuplicate(r) ==
  /\ Creating(r)
  /\ CanLock(r)
  /\ status[req[r].order] # "absent"
  /\ Rollback(r)
  /\ UNCHANGED undone

\* The record exists: return it, and only mark the event.  If another delivery
\* has marked it, the insert fails, with the same outcome.
CreateExisting(r) ==
  /\ req[r].op = "read"
  /\ req[r].target = "absent"
  /\ processed' = processed \cup {req[r].event}
  /\ EndTx(r)
  /\ UNCHANGED <<status, out, reached, undone>>

------------------------------------------------------------------------------
(* start_picking, mark_shipped, mark_completed, mark_failed *)

\* Mutant: the status is not looked at.
TransitionUnchecked(r, o, s) ==
  /\ status[o] # "absent"
  /\ Read(r, o, s, NoEvent)

\* get_fulfillment and can_transition_to, on a plain SELECT.
TransitionRead(r, o, s) ==
  /\ s \in Transitions(status[o])
  /\ Read(r, o, s, NoEvent)

\* Mutant: published before the UPDATE is flushed.
TransitionPublishesFirst(r) ==
  /\ req[r].op = "read"
  /\ req[r].target \in Target
  /\ IF req[r].target = "completed" THEN MayPublish(completed, req[r].order)
     ELSE UNCHANGED completed
  /\ IF CanLock(r) THEN Written(r) ELSE EndTx(r)
  /\ UNCHANGED <<status, processed, assigned, reached, undone>>

\* The UPDATE, and for COMPLETED the event.
TransitionWrite(r) ==
  /\ req[r].op = "read"
  /\ req[r].target \in Target
  /\ Written(r)
  /\ IF req[r].target = "completed" THEN MayPublish(completed, req[r].order)
     ELSE UNCHANGED completed
  /\ UNCHANGED <<status, processed, assigned, reached, undone>>

------------------------------------------------------------------------------
(* The end of a transaction *)

\* Mutant: the session is left open after the commit's flush.
CommitKeepsLock(r) ==
  /\ req[r].op = "written"
  /\ status' = [status EXCEPT ![req[r].order] = req[r].target]
  /\ reached' = [reached EXCEPT ![req[r].order] = @ \cup {req[r].target}]
  /\ processed' = processed \cup ({req[r].event} \ {NoEvent})
  /\ req' = [req EXCEPT ![r] = Idle]
  /\ UNCHANGED <<lock, out, undone>>

\* get_db, or the subscriber, which has marked the event.
Commit(r) ==
  /\ req[r].op = "written"
  /\ status' = [status EXCEPT ![req[r].order] = req[r].target]
  /\ reached' = [reached EXCEPT ![req[r].order] = @ \cup {req[r].target}]
  /\ processed' = processed \cup ({req[r].event} \ {NoEvent})
  /\ EndTx(r)
  /\ UNCHANGED <<out, undone>>

\* innodb_lock_wait_timeout.
LockWaitFails(r) ==
  /\ req[r].op = "read"
  /\ req[r].target # "absent"
  /\ ~ CanLock(r)
  /\ Rollback(r)
  /\ UNCHANGED undone

\* The container, the connection or the commit fails: what was published stays.
Crash(r) ==
  /\ req[r].op # "idle"
  /\ Rollback(r)
  /\ undone' = IF req[r].op = "written" THEN undone \cup {req[r].order} ELSE undone

------------------------------------------------------------------------------
Begin(r) ==
  \/ \E e \in Event : CreateRead(r, e)
  \/ \E o \in Order, s \in Target : TransitionRead(r, o, s)

Advance(r) ==
  \/ CreateInsert(r) \/ CreateDuplicate(r) \/ CreateExisting(r)
  \/ TransitionWrite(r)
  \/ Commit(r)
  \/ LockWaitFails(r)

Next == \E r \in Req : Begin(r) \/ Advance(r) \/ Crash(r)

Spec == Init /\ [][Next]_vars

------------------------------------------------------------------------------
(* Properties *)

\* Consumers see one fulfillment.assigned per order, however many deliveries of
\* its order.created race, unless a transaction that had published was lost:
\* the event leaves only after the unique index has let the record in.
AssignedOncePerRecord == \A o \in Order \ undone : assigned[o] <= 1

\* fulfillment.completed is published only for what has been shipped: an order
\* is reported delivered only if every stage before was once committed, in
\* whatever order staff requests overtake each other.
CompletedWasShipped ==
  \A o \in Order :
    completed[o] > 0 => {"assigned", "picking", "shipped"} \subseteq reached[o]

\* Consumers are told nothing that was not committed: both events leave before the
\* commit, but only once the record is locked, so that no lock wait and no other
\* request can come between.  Only a transaction that was lost leaves a rumour.
EventsWereCommitted ==
  \A o \in Order \ undone :
    lock[o] = NoReq =>
      /\ assigned[o] > 0 => "assigned" \in reached[o]
      /\ completed[o] > 0 => "completed" \in reached[o]

------------------------------------------------------------------------------
(* The inductive invariant *)

\* The stages that come before a status.
Before(s) ==
  CASE s = "picking"   -> {"assigned"}
    [] s = "shipped"   -> {"assigned", "picking"}
    [] s = "completed" -> {"assigned", "picking", "shipped"}
    [] OTHER           -> {}

\* A status that is committed, or about to be written, has had its stages, and
\* every record was ASSIGNED once.
StagesWereReached ==
  /\ \A o \in Order : status[o] # "absent" =>
       Before(status[o]) \cup {status[o], "assigned"} \subseteq reached[o]
  /\ \A r \in Req : req[r].op # "idle" => Before(req[r].target) \subseteq reached[req[r].order]

\* Only a record that exists is moved on, and only an event finds it there.
TransactionsAreSound ==
  \A r \in Req :
    /\ req[r].op # "idle" => req[r].order \in Order /\ req[r].target # "pending"
    /\ req[r].op = "written" => req[r].target # "absent"
    /\ req[r].op = "read" /\ req[r].target = "absent" => req[r].event \in Event
    /\ req[r].target \in Target => status[req[r].order] # "absent"

\* An event that left without a record belongs to the transaction that inserts it.
AssignedNeedsRecord ==
  \A o \in Order \ undone : status[o] = "absent" /\ lock[o] = NoReq => assigned[o] = 0

\* A completion that left before its commit belongs to the transaction that holds
\* the record.
ReportsBelong ==
  \A o \in Order \ undone : completed[o] > 0 =>
    "completed" \in reached[o] \/ (lock[o] # NoReq /\ req[lock[o]].target = "completed")

IInv ==
  /\ TypeOK
  /\ StagesWereReached /\ TransactionsAreSound /\ AssignedNeedsRecord /\ ReportsBelong
  /\ AssignedOncePerRecord /\ CompletedWasShipped
==============================================================================
