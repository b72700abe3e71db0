----------------------------- MODULE RateLimiter -----------------------------
(***************************************************************************)
(* The sliding window of shared/middleware/rate_limit.py for one client:   *)
(* one Redis sorted set under "rl:<client ip>", which every container of   *)
(* all three services uses, each service with its own limit.               *)
(*                                                                         *)
(* A request takes its time stamp, then runs the pipeline, which Redis     *)
(* executes as one transaction.  In between others may run theirs, and the *)
(* clocks of the containers differ: a stamp may be up to MaxLag behind     *)
(* now, the fastest clock.  Time is in milliseconds.                       *)
(*                                                                         *)
(* Left out: /health paths and a middleware that could not make its Redis  *)
(* client (neither limits anything), the response headers.                 *)
(***************************************************************************)
EXTENDS Integers, FiniteSets

CONSTANTS
  Service,
  MaxRequests,  \* MaxRequests[s]: RATE_LIMIT_REQUESTS of a service
  Window,       \* RATE_LIMIT_WINDOW
  Grace,        \* the key outlives the window by a second
  MaxLag,       \* bound: age of a time stamp when the pipeline runs
  MaxTime       \* bound: the clock

ASSUME LimiterAssumption ==
  /\ MaxRequests \in [Service -> Nat \ {0}]
  /\ Window \in Nat \ {0} /\ Grace \in Nat \ {0}
  /\ MaxLag \in Nat /\ MaxTime \in Nat

VARIABLES
  now,
  members,   \* the sorted set: a member is its own score
  expires,   \* when Redis drops the key
  letIn,     \* history: letIn[s], the stamps of requests counted and let in
  refused,   \* history: the last <<s, t>> that was answered 429, if any
  seen       \* history: stamps whose pipeline ran

vars == <<now, members, expires, letIn, refused, seen>>

Time == 0 .. MaxTime

\* Besides the types: whatever is in the set outlives the window it counts in.
TypeOK ==
  /\ now \in Time
  /\ members \subseteq 0 .. now
  /\ expires \in Nat
  /\ letIn \in [Service -> SUBSET (0 .. now)]
  /\ refused \subseteq Service \X Time /\ Cardinality(refused) <= 1
  /\ seen \subseteq 0 .. now
  /\ \A m \in members : now < expires /\ m + Window < expires

Init ==
  /\ now = 0
  /\ members = {}
  /\ expires = 0
  /\ letIn = [s \in Service |-> {}]
  /\ refused = {}
  /\ seen = {}

------------------------------------------------------------------------------
\* A key that is not touched for a window and a second is gone.
Tick ==
  /\ now < MaxTime
  /\ now' = now + 1
  /\ members' = IF now' < expires THEN members ELSE {}
  /\ UNCHANGED <<expires, letIn, refused, seen>>

\* Mutant: zremrangebyscore is left out.
UntrimmedBefore(t) == members

\* zremrangebyscore
TrimmedBefore(t) == {m \in members : m > t - Window}

\* Mutant: zcard before zadd.
CountedBefore(t) == TrimmedBefore(t)

\* zadd with the stamp as member and score, then zcard.
Counted(t) == TrimmedBefore(t) \cup {t}

\* Mutant: without expire.
PipelineWithoutExpire(t) ==
  /\ members' = TrimmedBefore(t) \cup {t}
  /\ seen' = seen \cup {t}
  /\ UNCHANGED <<now, expires>>

Pipeline(t) ==
  /\ members' = TrimmedBefore(t) \cup {t}
  /\ expires' = now + Window + Grace
  /\ seen' = seen \cup {t}
  /\ UNCHANGED now

Stamps == {t \in Time : now - MaxLag <= t /\ t <= now}

\* A refused request stays in the set.
LetIn(s, t) ==
  /\ Cardinality(Counted(t)) <= MaxRequests[s]
  /\ Pipeline(t)
  /\ letIn' = [letIn EXCEPT ![s] = @ \cup {t}]
  /\ UNCHANGED refused

Refuse(s, t) ==
  /\ Cardinality(Counted(t)) > MaxRequests[s]
  /\ Pipeline(t)
  /\ refused' = {<<s, t>>}
  /\ UNCHANGED letIn

\* The check raises, before or after Redis has run the pipeline: the request is
\* let through unlimited.
Bypass(t) ==
  /\ Pipeline(t)
  /\ UNCHANGED <<letIn, refused>>

Next ==
  \/ Tick
  \/ \E t \in Stamps : Bypass(t) \/ \E s \in Service : LetIn(s, t) \/ Refuse(s, t)

Spec == Init /\ [][Next]_vars

------------------------------------------------------------------------------
(* Properties *)

\* The stamps in (t - d, t] with which a service let requests in.
LetInWithin(s, d, t) == {x \in letIn[s] : t - d < x /\ x <= t}

\* "True sliding window - no burst allowed at window boundary resets": wherever
\* the window is laid, a service let requests in with no more stamps than its
\* limit, however requests overtake each other between their stamp and their
\* pipeline; the window that is safe is shorter by as much as they may lag.
\* Requests of one millisecond have one stamp, and are let in together.
NoBurst ==
  \A s \in Service, t \in Time :
    Cardinality(LetInWithin(s, Window - MaxLag, t)) <= MaxRequests[s]

\* 429 is answered only to a client that did send more than the limit, this request
\* and refused ones included, within a window of it, however requests overtake each
\* other and whichever services share the set.
RefusalsAreEarned ==
  \A s \in Service, t \in Time :
    <<s, t>> \in refused =>
      Cardinality({x \in seen : t - Window < x /\ x <= t + MaxLag}) > MaxRequests[s]

------------------------------------------------------------------------------
(* The inductive invariant *)

\* What NoBurst rests on: whatever may still count in a window is in the set.
StillCounted ==
  /\ members \subseteq seen
  /\ \A s \in Service : \A x \in letIn[s] : x > now - Window => x \in members

IInv == TypeOK /\ StillCounted /\ NoBurst /\ RefusalsAreEarned
==============================================================================
