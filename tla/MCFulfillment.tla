---------------------------- MODULE MCFulfillment ----------------------------
(* An instance of Fulfillment for TLC: one order, its order.created and a    *)
(* replay of it under another event id.                                      *)
EXTENDS Fulfillment, TLC

CONSTANTS order1

EventsOfOne == [e \in Event |-> order1]
ReqSymmetry == Permutations(Req)
==============================================================================
