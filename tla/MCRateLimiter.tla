---------------------------- MODULE MCRateLimiter ----------------------------
(* An instance of RateLimiter for TLC: two services with different limits.   *)
EXTENDS RateLimiter

CONSTANTS svc1, svc2

TwoAndOne == [s \in Service |-> IF s = svc1 THEN 2 ELSE 1]
==============================================================================
