------------------------------- MODULE Delivery -------------------------------
(***************************************************************************)
(* What a subscription with idempotent consumers promises: an event takes  *)
(* effect at most once, a message is acknowledged only when its event has  *)
(* taken effect or asks for none, and a message that was acknowledged or   *)
(* dead-lettered stays so.  Whether a dead-lettered event took effect is   *)
(* open.                                                                   *)
(***************************************************************************)
EXTENDS Naturals

CONSTANTS
  Message, Event,
  EventOf,      \* EventOf[m]: the event in message m; messages may share one
  Relevant      \* the messages whose event type the consumer handles

VARIABLES
  fate,         \* per message: "unpublished", "open", "acked" or "dead"
  effects       \* per event: how often it took effect

deliveryVars == <<fate, effects>>

DeliveryInit ==
  /\ fate = [m \in Message |-> "unpublished"]
  /\ effects = [e \in Event |-> 0]

Post(m) ==
  /\ fate[m] = "unpublished"
  /\ fate' = [fate EXCEPT ![m] = "open"]
  /\ UNCHANGED effects

Done(m) == m \notin Relevant \/ effects[EventOf[m]] = 1

Settle(M) ==
  /\ \A m \in M : fate[m] = "open" /\ Done(m)
  /\ fate' = [m \in Message |-> IF m \in M THEN "acked" ELSE fate[m]]
  /\ UNCHANGED effects

Bury(m) ==
  /\ fate[m] = "open"
  /\ fate' = [fate EXCEPT ![m] = "dead"]
  /\ UNCHANGED effects

\* A consumer may still be at work on a message that was dead-lettered.
TakeEffect(m) ==
  /\ fate[m] # "unpublished"
  /\ m \in Relevant
  /\ effects[EventOf[m]] = 0
  /\ effects' = [effects EXCEPT ![EventOf[m]] = 1]
  /\ UNCHANGED fate

DeliveryNext ==
  \/ \E m \in Message : Post(m) \/ Bury(m) \/ TakeEffect(m)
  \/ \E M \in SUBSET Message : Settle(M)

DeliverySpec == DeliveryInit /\ [][DeliveryNext]_deliveryVars
==============================================================================
