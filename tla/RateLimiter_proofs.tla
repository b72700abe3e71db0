-------------------------- MODULE RateLimiter_proofs --------------------------
(* Proofs about RateLimiter, for any limits, window and lag. *)
EXTENDS RateLimiter, FiniteSetTheorems, TLAPS

LEMMA FiniteInterval == ASSUME NEW n \in Int, NEW S, S \subseteq 0 .. n
                        PROVE  IsFiniteSet(S) /\ Cardinality(S) \in Nat
  <1>1. IsFiniteSet(0 .. n)
    BY FS_Interval
  <1>2. IsFiniteSet(S)
    BY <1>1, FS_Subset
  <1> QED
    BY <1>2, FS_CardinalityType

\* A larger set of time stamps does not count less.
LEMMA CountGrows == ASSUME NEW n \in Int, NEW T, T \subseteq 0 .. n, NEW S, S \subseteq T
                    PROVE  /\ Cardinality(S) \in Nat /\ Cardinality(T) \in Nat
                           /\ Cardinality(S) <= Cardinality(T)
BY FiniteInterval, FS_Subset

\* The initial state satisfies the invariant.
LEMMA InitIInv == Init => IInv
<1> SUFFICES ASSUME Init PROVE IInv
  OBVIOUS
<1>1. TypeOK
  <2>1. Cardinality({}) = 0
    BY FS_EmptySet
  <2> QED
    BY <2>1, LimiterAssumption DEF Init, TypeOK, Time
<1>2. StillCounted /\ RefusalsAreEarned
  BY DEF Init, StillCounted, RefusalsAreEarned
<1>3. NoBurst
  <2> SUFFICES ASSUME NEW s \in Service, NEW t \in Time
               PROVE  Cardinality(LetInWithin(s, Window - MaxLag, t)) <= MaxRequests[s]
    BY DEF NoBurst
  <2>1. LetInWithin(s, Window - MaxLag, t) = {}
    BY DEF Init, LetInWithin
  <2> QED
    BY <2>1, FS_EmptySet, LimiterAssumption
<1> QED
  BY <1>1, <1>2, <1>3 DEF IInv

\* A refusal that was earned stays earned when more requests are seen.
LEMMA EarnedStays ==
  ASSUME RefusalsAreEarned, NEW n \in Int, NEW More, seen \subseteq More, More \subseteq 0 .. n,
         NEW s \in Service, NEW t \in Time, <<s, t>> \in refused
  PROVE  Cardinality({x \in More : t - Window < x /\ x <= t + MaxLag}) > MaxRequests[s]
  <1> DEFINE Old == {x \in seen : t - Window < x /\ x <= t + MaxLag}
             New == {x \in More : t - Window < x /\ x <= t + MaxLag}
  <1>1. Cardinality(Old) > MaxRequests[s]
    BY DEF RefusalsAreEarned
  <1>2. Old \subseteq New
    OBVIOUS
  <1>3. New \subseteq 0 .. n
    OBVIOUS
  <1> HIDE DEF Old, New
  <1>4. Cardinality(Old) <= Cardinality(New) /\ Cardinality(Old) \in Nat /\ Cardinality(New) \in Nat
    BY <1>2, <1>3, CountGrows
  <1>5. Cardinality(New) > MaxRequests[s]
    BY <1>1, <1>4, LimiterAssumption
  <1> QED
    BY <1>5 DEF New

\* The pipeline keeps the types and whatever may still count.
LEMMA PipelineKeeps ==
  ASSUME TypeOK, StillCounted, NEW t \in Stamps, Pipeline(t)
  PROVE  /\ now' = now /\ now \in Time /\ t \in 0 .. now
         /\ members' \subseteq 0 .. now /\ expires' \in Nat
         /\ seen' \subseteq 0 .. now /\ seen \subseteq seen' /\ members' \subseteq seen'
         /\ \A m \in members' : now < expires' /\ m + Window < expires'
         /\ \A x \in members : x > now - Window => x \in members'
         /\ t \in members'
         /\ members' = Counted(t)
  <1>1. now \in Nat /\ now \in Time /\ t \in Nat /\ t <= now /\ t \in 0 .. now
    BY DEF TypeOK, Stamps, Time
  <1>2. members \subseteq 0 .. now /\ seen \subseteq 0 .. now /\ members \subseteq seen
    BY DEF TypeOK, StillCounted
  <1>3. /\ members' = {m \in members : m > t - Window} \cup {t}
        /\ expires' = now + Window + Grace /\ seen' = seen \cup {t} /\ now' = now
    BY DEF Pipeline, TrimmedBefore
  <1>4. members' \subseteq 0 .. now /\ seen' \subseteq 0 .. now /\ members' \subseteq seen'
    BY <1>1, <1>2, <1>3
  <1>5. expires' \in Nat /\ \A m \in 0 .. now : now < expires' /\ m + Window < expires'
    BY <1>1, <1>3, LimiterAssumption
  <1>6. \A x \in members : x > now - Window => x \in members'
    BY <1>1, <1>2, <1>3, LimiterAssumption
  <1>7. members' = Counted(t)
    BY DEF Pipeline, Counted
  <1> QED
    BY <1>1, <1>3, <1>4, <1>5, <1>6, <1>7

\* A service lets a request in: with those it has let in and the window still
\* holds, the request is in the set that was counted.
LEMMA LetInStep ==
  ASSUME IInv, NEW s \in Service, NEW t \in Stamps, LetIn(s, t)
  PROVE  IInv'
<1> USE DEF IInv
<1>0. PICK p \in {t} : Pipeline(p)
  BY DEF LetIn
<1>1. /\ now' = now /\ now \in Time /\ t \in 0 .. now
      /\ members' \subseteq 0 .. now /\ expires' \in Nat
      /\ seen' \subseteq 0 .. now /\ seen \subseteq seen' /\ members' \subseteq seen'
      /\ \A m \in members' : now < expires' /\ m + Window < expires'
      /\ \A x \in members : x > now - Window => x \in members'
      /\ t \in members' /\ members' = Counted(t)
  BY <1>0, PipelineKeeps
<1>2. /\ letIn' = [letIn EXCEPT ![s] = @ \cup {t}] /\ refused' = refused
      /\ Cardinality(Counted(t)) <= MaxRequests[s]
  BY DEF LetIn
<1>3. TypeOK'
  BY <1>1, <1>2 DEF TypeOK
<1>4. StillCounted'
  <2> SUFFICES ASSUME NEW s1 \in Service, NEW x \in letIn'[s1], x > now - Window
               PROVE  x \in members'
    BY <1>1 DEF StillCounted
  <2>1. x \in letIn[s1] \/ x = t
    BY <1>2
  <2> QED
    BY <2>1, <1>1 DEF StillCounted
<1>5. NoBurst'
  <2> SUFFICES ASSUME NEW s1 \in Service, NEW t1 \in Time
               PROVE  Cardinality(LetInWithin(s1, Window - MaxLag, t1)') <= MaxRequests[s1]
    BY DEF NoBurst
  <2> DEFINE W == LetInWithin(s1, Window - MaxLag, t1)
  <2>1. CASE W' = W
    BY <2>1 DEF NoBurst
  <2>2. CASE W' # W
    <3>1. s1 = s /\ t \in W' 
      BY <2>2, <1>2 DEF LetInWithin
    <3>2. W' \subseteq members'
      <4> SUFFICES ASSUME NEW x \in W' PROVE x \in members'
        OBVIOUS
      <4>1. x \in letIn[s] \/ x = t
        BY <1>2, <3>1 DEF LetInWithin
      <4>2. CASE x \in letIn[s]
        <5>1. x \in 0 .. now /\ t1 - (Window - MaxLag) < x /\ t <= t1
          BY <4>2, <3>1 DEF LetInWithin, TypeOK
        <5>2. now - MaxLag <= t /\ t \in Int /\ now \in Int /\ t1 \in Int
          BY DEF Stamps, TypeOK, Time
        <5>3. x > now - Window
          BY <5>1, <5>2, LimiterAssumption
        <5> QED
          BY <4>2, <5>3, <1>1 DEF StillCounted
      <4> QED
        BY <4>1, <4>2, <1>1
    <3>3. Cardinality(W') <= Cardinality(members') /\ Cardinality(W') \in Nat
                          /\ Cardinality(members') \in Nat
      <4> HIDE DEF W
      <4>1. now \in Int
        BY <1>1 DEF Time
      <4> QED
        BY <3>2, <1>1, <4>1, CountGrows
    <3> QED
      BY <3>1, <3>3, <1>1, <1>2, LimiterAssumption
  <2> QED
    BY <2>1, <2>2
<1>6. RefusalsAreEarned'
  <2> SUFFICES ASSUME NEW s1 \in Service, NEW t1 \in Time, <<s1, t1>> \in refused
               PROVE  Cardinality({x \in seen' : t1 - Window < x /\ x <= t1 + MaxLag})
                        > MaxRequests[s1]
    BY <1>2 DEF RefusalsAreEarned
  <2>1. now \in Int
    BY <1>1 DEF Time
  <2> QED
    BY <2>1, <1>1, EarnedStays
<1> QED
  BY <1>3, <1>4, <1>5, <1>6

\* A refused request stays in the set, and all that was counted was seen.
LEMMA RefuseStep ==
  ASSUME IInv, NEW s \in Service, NEW t \in Stamps, Refuse(s, t)
  PROVE  IInv'
<1> USE DEF IInv
<1>0. Pipeline(t)
  BY DEF Refuse
<1>1. /\ now' = now /\ now \in Time /\ t \in 0 .. now
      /\ members' \subseteq 0 .. now /\ expires' \in Nat
      /\ seen' \subseteq 0 .. now /\ seen \subseteq seen' /\ members' \subseteq seen'
      /\ \A m \in members' : now < expires' /\ m + Window < expires'
      /\ \A x \in members : x > now - Window => x \in members'
  BY <1>0, PipelineKeeps
<1>2. /\ letIn' = letIn /\ refused' = {<<s, t>>} /\ t \in Time
      /\ Cardinality(Counted(t)) > MaxRequests[s]
  BY DEF Refuse, Stamps
<1>3. TypeOK'
  <2>1. Cardinality(refused') = 1
    BY <1>2, FS_Singleton
  <2> QED
    BY <1>1, <1>2, <2>1 DEF TypeOK
<1>4. StillCounted'
  BY <1>1, <1>2 DEF StillCounted
<1>5. NoBurst'
  BY <1>2 DEF NoBurst, LetInWithin
<1>6. RefusalsAreEarned'
  <2> DEFINE New == {x \in seen' : t - Window < x /\ x <= t + MaxLag}
  <2>1. now \in Int /\ now <= t + MaxLag /\ t \in Nat
    BY <1>1, LimiterAssumption DEF Stamps
  <2>2. Counted(t) \subseteq New
    <3> SUFFICES ASSUME NEW x \in Counted(t) PROVE x \in New
      OBVIOUS
    <3>1. x \in seen' /\ x \in 0 .. now
      BY <1>0, PipelineKeeps
    <3>2. t - Window < x
      BY <2>1, LimiterAssumption DEF Counted, TrimmedBefore
    <3> QED
      BY <2>1, <3>1, <3>2, LimiterAssumption
  <2>3. New \subseteq 0 .. now
    BY <1>1
  <2> HIDE DEF New
  <2>4. /\ Cardinality(Counted(t)) <= Cardinality(New)
        /\ Cardinality(Counted(t)) \in Nat /\ Cardinality(New) \in Nat
    BY <2>1, <2>2, <2>3, CountGrows
  <2>5. Cardinality(New) > MaxRequests[s]
    BY <2>4, <1>2, LimiterAssumption
  <2> QED
    BY <2>5, <1>2 DEF RefusalsAreEarned, New
<1> QED
  BY <1>3, <1>4, <1>5, <1>6

\* A check that raised may have run the pipeline; it decides nothing.
LEMMA BypassStep ==
  ASSUME IInv, NEW t \in Stamps, Bypass(t)
  PROVE  IInv'
<1> USE DEF IInv
<1>0. Pipeline(t) /\ letIn' = letIn /\ refused' = refused
  BY DEF Bypass
<1>1. /\ now' = now /\ now \in Time
      /\ members' \subseteq 0 .. now /\ expires' \in Nat
      /\ seen' \subseteq 0 .. now /\ seen \subseteq seen' /\ members' \subseteq seen'
      /\ \A m \in members' : now < expires' /\ m + Window < expires'
      /\ \A x \in members : x > now - Window => x \in members'
  BY <1>0, PipelineKeeps
<1>2. TypeOK' /\ StillCounted'
  BY <1>0, <1>1 DEF TypeOK, StillCounted
<1>3. NoBurst'
  BY <1>0 DEF NoBurst, LetInWithin
<1>4. RefusalsAreEarned'
  <2> SUFFICES ASSUME NEW s1 \in Service, NEW t1 \in Time, <<s1, t1>> \in refused
               PROVE  Cardinality({x \in seen' : t1 - Window < x /\ x <= t1 + MaxLag})
                        > MaxRequests[s1]
    BY <1>0 DEF RefusalsAreEarned
  <2>1. now \in Int
    BY <1>1 DEF Time
  <2> QED
    BY <2>1, <1>1, EarnedStays
<1> QED
  BY <1>2, <1>3, <1>4

\* When the key expires, nothing in it can count any more.
LEMMA TickStep == ASSUME IInv, Tick PROVE IInv'
<1> USE DEF IInv
<1>1. /\ now \in Nat /\ now' = now + 1 /\ now' \in Time
      /\ expires' = expires /\ expires \in Nat
      /\ letIn' = letIn /\ refused' = refused /\ seen' = seen
      /\ members' \subseteq members /\ members \subseteq 0 .. now
      /\ now' < expires => members' = members
      /\ ~ (now' < expires) => members' = {}
  BY LimiterAssumption DEF Tick, TypeOK, Time
<1>2. 0 .. now \subseteq 0 .. now'
  BY <1>1
<1>3. TypeOK'
  BY <1>1 DEF TypeOK
<1>4. StillCounted'
  <2>1. members' \subseteq seen'
    BY <1>1 DEF StillCounted
  <2> SUFFICES ASSUME NEW s \in Service, NEW x \in letIn[s], x > now' - Window
               PROVE  x \in members'
    BY <1>1 DEF StillCounted
  <2>2. x \in Nat
    BY DEF TypeOK
  <2>3. x \in members
    BY <1>1, <2>2, LimiterAssumption DEF StillCounted
  <2>4. now' < expires
    <3>1. x + Window < expires
      BY <2>3 DEF TypeOK
    <3> QED
      BY <3>1, <1>1, <2>2, LimiterAssumption
  <2> QED
    BY <2>3, <2>4, <1>1
<1>5. NoBurst' /\ RefusalsAreEarned'
  BY <1>1 DEF NoBurst, LetInWithin, RefusalsAreEarned
<1> QED
  BY <1>3, <1>4, <1>5

\* The invariant holds in every reachable state.
LEMMA Invariance == Spec => []IInv
<1>1. IInv /\ [Next]_vars => IInv'
  <2> SUFFICES ASSUME IInv, [Next]_vars PROVE IInv'
    OBVIOUS
  <2>1. CASE Tick
    BY <2>1, TickStep
  <2>2. CASE \E t \in Stamps : Bypass(t)
    BY <2>2, BypassStep
  <2>3. CASE \E t \in Stamps, s \in Service : LetIn(s, t)
    BY <2>3, LetInStep
  <2>4. CASE \E t \in Stamps, s \in Service : Refuse(s, t)
    BY <2>4, RefuseStep
  <2>5. CASE UNCHANGED vars
    BY <2>5 DEF vars, IInv, TypeOK, StillCounted, NoBurst, LetInWithin, RefusalsAreEarned
  <2> QED
    BY <2>1, <2>2, <2>3, <2>4, <2>5 DEF Next
<1> QED
  BY <1>1, InitIInv, PTL DEF Spec

\* The variables keep their types, and whatever is in the set outlives the
\* window it counts in.
THEOREM TypeCorrect == Spec => []TypeOK
  BY Invariance, PTL DEF IInv

\* The sliding window holds for every limit, window and lag.
THEOREM NoBurstEver == Spec => []NoBurst
  BY Invariance, PTL DEF IInv

\* No client is refused that has not sent more than the limit.
THEOREM RefusalsEarned == Spec => []RefusalsAreEarned
  BY Invariance, PTL DEF IInv
==============================================================================
