--------------------------- MODULE MCPullSubscriber ---------------------------
(* An instance of PullSubscriber for TLC: two messages that carry one event.   *)
EXTENDS PullSubscriber

CONSTANTS msg1, msg2, ev1

TwoCopies == [m \in Message |-> ev1]
==============================================================================
