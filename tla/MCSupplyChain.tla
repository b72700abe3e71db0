---------------------------- MODULE MCSupplyChain ----------------------------
(* An instance of SupplyChain for TLC: one order for one unit of two.        *)
EXTENDS SupplyChain

CONSTANTS item1, order1

MCItems == [o \in Order |-> <<item1>>]
MCCapacity == [p \in Product |-> 2]
NoQuantity == [p \in Product |-> {}]
==============================================================================
