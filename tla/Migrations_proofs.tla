-------------------------- MODULE Migrations_proofs --------------------------
(* Proofs about Migrations, for any scripts and any number of containers,    *)
(* kills and downgrades.  The argument is that the first CREATE of a script  *)
(* is a lock: whoever is within a script has created its first object from   *)
(* the current row (RunnersMatchTheRow), so nobody else can enter.  While no *)
(* script is cut short, the database is exactly what its version row says.   *)
EXTENDS Migrations, TLAPS

\* The chain of a service is a non-empty sequence of non-empty scripts.
LEMMA ChainFacts ==
  ASSUME svc \in Service
  PROVE  /\ Latest \in Nat \ {0} /\ DOMAIN Chain = 1 .. Latest
         /\ \A r \in 1 .. Latest :
              /\ Chain[r].up \in Seq(Object) /\ Chain[r].down \in Seq(Object)
              /\ Len(Chain[r].up) \in Nat \ {0}
              /\ DOMAIN Chain[r].up = 1 .. Len(Chain[r].up)
  <1> DEFINE Script == [up : Seq(Object) \ {<<>>}, down : Seq(Object)]
  <1>1. Chain \in Seq(Script) \ {<<>>}
    BY MigrationsAssumption DEF Chain
  <1>2. Latest \in Nat \ {0} /\ DOMAIN Chain = 1 .. Latest
    <2> HIDE DEF Script
    <2> QED
      BY <1>1 DEF Latest
  <1>3. ASSUME NEW r \in 1 .. Latest
        PROVE  /\ Chain[r].up \in Seq(Object) /\ Chain[r].down \in Seq(Object)
               /\ Len(Chain[r].up) \in Nat \ {0}
               /\ DOMAIN Chain[r].up = 1 .. Len(Chain[r].up)
    <2>1. Chain[r] \in Script
      <3> HIDE DEF Script
      <3> QED
        BY <1>1, <1>2 DEF Latest
    <2> QED
      BY <2>1
  <1> QED
    BY <1>2, <1>3

LEMMA BoundsFacts == MaxKills \in Nat /\ MaxRollbacks \in Nat /\ VersionTable \in Object
  BY MigrationsAssumption

\* Applied(r) collects the statements of the scripts up to the r-th.
LEMMA AppliedElements ==
  ASSUME NEW r \in Nat, NEW objects
  PROVE  Applied(r) \subseteq objects <=>
           \A q \in 1 .. r : \A i \in DOMAIN Chain[q].up : Chain[q].up[i] \in objects
  BY DEF Applied, UpTo, Chain

\* The empty database satisfies the invariant.
LEMMA InitIInv == Init => IInv
  <1> SUFFICES ASSUME Init PROVE IInv
    OBVIOUS
  <1>1. Latest \in Nat \ {0}
    BY ChainFacts DEF Init
  <1>2. TypeOK
    <2>1. /\ Gone \in [phase : Phases, rev : 0 .. Latest, next : Nat]
          /\ Gone \in [phase : {"down", "dropping"}, rev : 0 .. Latest, next : Nat]
          /\ Gone.phase = "down"
      BY <1>1 DEF Gone, At, Phases
    <2>2. svc \in Service /\ schema \subseteq Object /\ version \in 0 .. Latest
      BY <1>1 DEF Init
    <2>3. kills \in 0 .. MaxKills /\ rollbacks \in 0 .. MaxRollbacks /\ disturbed \in BOOLEAN
      <3>1. kills = 0 /\ rollbacks = 0 /\ disturbed = FALSE
        BY DEF Init
      <3>2. kills \in 0 .. MaxKills /\ rollbacks \in 0 .. MaxRollbacks
        BY <3>1, BoundsFacts
      <3>3. disturbed \in BOOLEAN
        BY <3>1
      <3> QED
        BY <3>2, <3>3
    <2>4. job \in [Container -> [phase : Phases, rev : 0 .. Latest, next : Nat]]
      BY <2>1 DEF Init
    <2>5. rollback = Gone /\ \A c \in Container : job[c].phase = "down"
      BY <2>1 DEF Init
    <2> QED
      BY <2>1, <2>2, <2>3, <2>4, <2>5 DEF TypeOK
  <1>3. VersionMeansSchema
    BY AppliedElements DEF Init, VersionMeansSchema
  <1>4. OneInsideAScript /\ RunnersMatchTheRow
    BY DEF Init, OneInsideAScript, RunnersMatchTheRow, Inside, Upgrading, Dropping, Gone, At
  <1> QED
    BY <1>2, <1>3, <1>4 DEF IInv

\* A container that only moves between phases outside the scripts, in a state
\* its new phase allows, keeps the invariant.
LEMMA OutsideStep ==
  ASSUME IInv, NEW c \in Container, NEW to \in [phase : Phases, rev : 0 .. Latest, next : {0, 1}],
         Goes(c, to), UNCHANGED <<svc, schema, version, rollback, rollbacks>>,
         kills' \in 0 .. MaxKills, disturbed' \in BOOLEAN,
         to.phase \in {"ensuring", "upgrading"} =>
           to.rev > 0 /\ to.rev <= version + 1 /\ to.next = 1,
         to.phase = "serving" => version = Latest
  PROVE  IInv'
  <1>1. Latest \in Nat \ {0} /\ Latest' = Latest /\ Chain' = Chain
    BY ChainFacts DEF IInv, TypeOK, Latest, Chain
  <1>2. /\ job' = [job EXCEPT ![c] = to] /\ job \in [Container -> [phase : Phases, rev : 0 .. Latest, next : Nat]]
    BY DEF IInv, TypeOK, Goes
  <1>3. job' \in [Container -> [phase : Phases, rev : 0 .. Latest, next : Nat]]
    BY <1>2
  <1>4. TypeOK'
    BY <1>1, <1>2, <1>3 DEF IInv, TypeOK
  <1>5. \A d \in Container : Inside(d)' => d # c /\ Inside(d) /\ job'[d] = job[d]
    BY <1>2 DEF Inside
  <1>6. VersionMeansSchema'
    BY <1>1 DEF IInv, VersionMeansSchema, Applied, UpTo, Chain
  <1>7. OneInsideAScript'
    BY <1>5 DEF IInv, OneInsideAScript
  <1>8. RunnersMatchTheRow'
    <2> SUFFICES ASSUME rollbacks' = 0 PROVE
          /\ ~Dropping'
          /\ \A d \in Container :
               /\ Upgrading(d)' => job'[d].rev <= version' + 1
               /\ job'[d].phase = "serving" => version' = Latest'
               /\ Inside(d)' =>
                    /\ version' = job'[d].rev - 1
                    /\ \A i \in 1 .. job'[d].next - 1 :
                         /\ i \in DOMAIN Chain'[job'[d].rev].up
                         /\ Chain'[job'[d].rev].up[i] \in schema'
      BY DEF RunnersMatchTheRow
    <2>1. RunnersMatchTheRow /\ rollbacks = 0
      BY DEF IInv
    <2>2. ~Dropping'
      BY <2>1 DEF RunnersMatchTheRow, Dropping
    <2>3. ASSUME NEW d \in Container
          PROVE  /\ Upgrading(d)' => job'[d].rev <= version' + 1
                 /\ job'[d].phase = "serving" => version' = Latest'
      BY <2>1, <1>1, <1>2 DEF RunnersMatchTheRow, Upgrading
    <2>4. ASSUME NEW d \in Container, Inside(d)'
          PROVE  /\ version' = job'[d].rev - 1
                 /\ \A i \in 1 .. job'[d].next - 1 :
                      /\ i \in DOMAIN Chain'[job'[d].rev].up
                      /\ Chain'[job'[d].rev].up[i] \in schema'
      BY <2>1, <2>4, <1>1, <1>5 DEF RunnersMatchTheRow
    <2> QED
      BY <2>2, <2>3, <2>4
  <1> QED
    BY <1>4, <1>6, <1>7, <1>8 DEF IInv

\* A failure, or the end of a container, is such a move.
LEMMA GoneStep ==
  ASSUME IInv, NEW c \in Container,
         Goes(c, Gone), UNCHANGED <<svc, schema, version, rollback, rollbacks>>,
         kills' \in 0 .. MaxKills, disturbed' \in BOOLEAN
  PROVE  IInv'
  <1>1. Latest \in Nat \ {0}
    BY ChainFacts DEF IInv, TypeOK
  <1>2. /\ Gone \in [phase : Phases, rev : 0 .. Latest, next : {0, 1}]
        /\ Gone.phase = "down"
    BY <1>1 DEF Gone, At, Phases
  <1> QED
    BY <1>2, OutsideStep

\* EnsureVersionTable and RunStatement add an object and move within a script.
LEMMA CreatingStep ==
  ASSUME IInv, NEW c \in Container, NEW o \in Object, NEW to,
         Upgrading(c), CanCreate(schema, o), schema' = schema \union {o},
         Goes(c, to), UNCHANGED <<svc, version, rollback, kills, rollbacks, disturbed>>,
         to.phase = "upgrading", to.rev = job[c].rev,
         to \in [phase : Phases, rev : 0 .. Latest, next : Nat \ {0}],
         \/ to.next = 1
         \/ /\ job[c].phase = "upgrading"
            /\ job[c].next \in 1 .. Len(Chain[job[c].rev].up)
            /\ to.next = job[c].next + 1 /\ o = Chain[job[c].rev].up[job[c].next]
  PROVE  IInv'
  <1>1. Latest \in Nat \ {0} /\ Latest' = Latest /\ Chain' = Chain
    BY ChainFacts DEF IInv, TypeOK, Latest, Chain
  <1>2. /\ job' = [job EXCEPT ![c] = to]
        /\ job \in [Container -> [phase : Phases, rev : 0 .. Latest, next : Nat]]
        /\ version \in 0 .. Latest /\ job[c].rev \in 1 .. Latest
    BY <1>1 DEF IInv, TypeOK, Goes, Upgrading
  <1>3. job' \in [Container -> [phase : Phases, rev : 0 .. Latest, next : Nat]]
    BY <1>2
  <1>4. TypeOK'
    BY <1>1, <1>2, <1>3 DEF IInv, TypeOK
  <1>5. VersionMeansSchema'
    BY <1>1 DEF IInv, VersionMeansSchema, Applied, UpTo, Chain
  <1>6. ASSUME rollbacks = 0, to.next > 1
        PROVE  /\ job[c].rev = version + 1
               /\ \A d \in Container : Inside(d) => d = c
    <2>1. /\ job[c].phase = "upgrading" /\ job[c].next \in 1 .. Len(Chain[job[c].rev].up)
          /\ o = Chain[job[c].rev].up[job[c].next] /\ o \notin schema
      <3>1. o \notin schema
        BY DEF CanCreate
      <3>2. ~(to.next = 1)
        BY <1>6
      <3> QED
        BY <3>1, <3>2
    <2>2. DOMAIN Chain[job[c].rev].up = 1 .. Len(Chain[job[c].rev].up)
      BY <1>2, ChainFacts DEF IInv, TypeOK
    <2>3. job[c].rev <= version + 1
      BY <1>6 DEF IInv, RunnersMatchTheRow
    <2>4. ~(job[c].rev <= version)
      <3> SUFFICES ASSUME job[c].rev <= version PROVE FALSE
        OBVIOUS
      <3>1. job[c].rev \in 1 .. version
        BY <1>1, <1>2
      <3>2. Applied(version) \subseteq schema /\ version \in Nat
        BY <1>2, <1>6 DEF IInv, VersionMeansSchema
      <3> QED
        BY <2>1, <2>2, <3>1, <3>2, AppliedElements
    <2>5. ASSUME NEW d \in Container, Inside(d) PROVE d = c
      <3>1. CASE job[c].next > 1
        BY <1>6, <2>1, <2>5, <3>1 DEF IInv, OneInsideAScript, Inside
      <3>2. CASE job[c].next = 1
        <4>1. /\ job[d].rev = version + 1 /\ 1 \in 1 .. job[d].next - 1
              /\ \A i \in 1 .. job[d].next - 1 : Chain[job[d].rev].up[i] \in schema
          BY <1>6, <1>2, <2>5 DEF IInv, RunnersMatchTheRow, Inside
        <4>2. job[d].rev = job[c].rev
          BY <4>1, <2>3, <2>4, <1>2
        <4> QED
          BY <4>1, <4>2, <2>1, <3>2
      <3> QED
        BY <3>1, <3>2, <2>1
    <2> QED
      BY <2>3, <2>4, <2>5, <1>2
  <1>7. OneInsideAScript'
    <2> SUFFICES ASSUME rollbacks = 0, NEW d \in Container, NEW e \in Container,
                        Inside(d)', Inside(e)'
                 PROVE  d = e
      BY DEF OneInsideAScript
    <2>1. \A f \in Container : Inside(f)' => (f = c /\ to.next > 1) \/ Inside(f)
      BY <1>2 DEF Inside
    <2>2. CASE to.next > 1
      BY <2>1, <2>2, <1>6
    <2>3. CASE ~(to.next > 1)
      BY <2>1, <2>3 DEF IInv, OneInsideAScript
    <2> QED
      BY <2>2, <2>3
  <1>8. RunnersMatchTheRow'
    <2> SUFFICES ASSUME rollbacks = 0 PROVE
          /\ ~Dropping'
          /\ \A d \in Container :
               /\ Upgrading(d)' => job'[d].rev <= version + 1
               /\ job'[d].phase = "serving" => version = Latest
               /\ Inside(d)' =>
                    /\ version = job'[d].rev - 1
                    /\ \A i \in 1 .. job'[d].next - 1 :
                         /\ i \in DOMAIN Chain[job'[d].rev].up
                         /\ Chain[job'[d].rev].up[i] \in schema'
      BY <1>1 DEF RunnersMatchTheRow
    <2>1. RunnersMatchTheRow
      BY DEF IInv
    <2>2. ~Dropping'
      BY <2>1 DEF RunnersMatchTheRow, Dropping
    <2>3. ASSUME NEW d \in Container
          PROVE  /\ Upgrading(d)' => job'[d].rev <= version + 1
                 /\ job'[d].phase = "serving" => version = Latest
      BY <2>1, <1>2 DEF RunnersMatchTheRow, Upgrading
    <2>4. ASSUME NEW d \in Container, Inside(d)'
          PROVE  /\ version = job'[d].rev - 1
                 /\ \A i \in 1 .. job'[d].next - 1 :
                      /\ i \in DOMAIN Chain[job'[d].rev].up
                      /\ Chain[job'[d].rev].up[i] \in schema'
      <3>1. CASE d # c
        BY <2>1, <2>4, <3>1, <1>2 DEF RunnersMatchTheRow, Inside
      <3>2. CASE d = c
        <4>1. job'[d] = to /\ to.next > 1
          BY <2>4, <3>2, <1>2 DEF Inside
        <4>2. version = job[c].rev - 1
          BY <4>1, <1>6, <1>2
        <4>3. /\ job[c].phase = "upgrading" /\ job[c].next \in 1 .. Len(Chain[job[c].rev].up)
              /\ to.next = job[c].next + 1 /\ o = Chain[job[c].rev].up[job[c].next]
          BY <4>1
        <4>4. /\ DOMAIN Chain[job[c].rev].up = 1 .. Len(Chain[job[c].rev].up)
              /\ Len(Chain[job[c].rev].up) \in Nat \ {0}
          BY <1>2, ChainFacts DEF IInv, TypeOK
        <4>5. ASSUME NEW i \in 1 .. job[c].next - 1
              PROVE  i \in DOMAIN Chain[job[c].rev].up /\ Chain[job[c].rev].up[i] \in schema
          <5>1. Inside(c)
            BY <4>3, <4>4, <4>5 DEF Inside
          <5> QED
            BY <2>1, <5>1, <4>5 DEF RunnersMatchTheRow
        <4>6. ASSUME NEW i \in 1 .. to.next - 1
              PROVE  /\ i \in DOMAIN Chain[job[c].rev].up
                     /\ Chain[job[c].rev].up[i] \in schema'
          <5>1. CASE i = job[c].next
            BY <4>3, <4>4, <5>1
          <5>2. CASE i # job[c].next
            <6>1. i \in 1 .. job[c].next - 1
              BY <4>3, <4>4, <5>2
            <6>2. schema \subseteq schema'
              OBVIOUS
            <6> QED
              BY <4>5, <6>1, <6>2
          <5> QED
            BY <5>1, <5>2
        <4> QED
          BY <4>1, <4>2, <4>6, <3>2
      <3> QED
        BY <3>1, <3>2
    <2> QED
      BY <2>2, <2>3, <2>4
  <1> QED
    BY <1>4, <1>5, <1>7, <1>8 DEF IInv

\* The row moves to a revision whose objects are all there, and nobody else is
\* within a script.
LEMMA StampStep ==
  ASSUME IInv, NEW c \in Container, StampVersion(c), version = job[c].rev - 1
  PROVE  IInv'
  <1> DEFINE to == IF job[c].rev = Latest THEN At("serving", 0, 0)
                   ELSE At("upgrading", job[c].rev + 1, 1)
  <1>1. Latest \in Nat \ {0} /\ Latest' = Latest /\ Chain' = Chain
    BY ChainFacts DEF IInv, TypeOK, Latest, Chain, StampVersion, Quiet
  <1>2. /\ job' = [job EXCEPT ![c] = to]
        /\ job \in [Container -> [phase : Phases, rev : 0 .. Latest, next : Nat]]
        /\ version' = job[c].rev /\ job[c].rev \in 1 .. Latest
    BY <1>1 DEF IInv, TypeOK, StampVersion, Goes
  <1>3. /\ DOMAIN Chain[job[c].rev].up = 1 .. Len(Chain[job[c].rev].up)
        /\ Len(Chain[job[c].rev].up) \in Nat \ {0}
    BY <1>2, ChainFacts DEF IInv, TypeOK
  <1>4. /\ to \in [phase : Phases, rev : 0 .. Latest, next : {0, 1}]
        /\ to.phase \in {"serving", "upgrading"}
        /\ to.phase = "upgrading" => to.rev = job[c].rev + 1 /\ to.next = 1
        /\ to.phase = "serving" => job[c].rev = Latest
    BY <1>1, <1>2 DEF At, Phases
  <1> HIDE DEF to
  <1>5. job' \in [Container -> [phase : Phases, rev : 0 .. Latest, next : Nat]]
    BY <1>2, <1>4
  <1>6. TypeOK'
    BY <1>1, <1>2, <1>4, <1>5 DEF IInv, TypeOK, StampVersion, Quiet
  <1>7. Inside(c)
    BY <1>2, <1>3 DEF StampVersion, Inside
  <1>8. /\ UNCHANGED <<schema, rollback, rollbacks>>
        /\ job[c].next > Len(Chain[job[c].rev].up) /\ job[c].next \in Nat
    BY <1>2 DEF StampVersion, Quiet
  <1>9. rollbacks = 0 => \A d \in Container : ~Inside(d)'
    BY <1>2, <1>4, <1>7 DEF IInv, OneInsideAScript, Inside
  <1>10. VersionMeansSchema'
    <2> SUFFICES ASSUME rollbacks = 0 PROVE Applied(job[c].rev) \subseteq schema
      BY <1>1, <1>2, <1>8 DEF VersionMeansSchema, Applied, UpTo, Chain
    <2>1. ASSUME NEW q \in 1 .. job[c].rev, NEW i \in DOMAIN Chain[q].up
          PROVE  Chain[q].up[i] \in schema
      <3>1. CASE q = job[c].rev
        <4>1. i \in 1 .. job[c].next - 1
          BY <1>3, <1>8, <2>1, <3>1
        <4> QED
          BY <4>1, <1>7, <3>1 DEF IInv, RunnersMatchTheRow
      <3>2. CASE q # job[c].rev
        <4>1. q \in 1 .. version /\ version \in Nat
          BY <1>2, <3>2
        <4>2. Applied(version) \subseteq schema
          BY DEF IInv, VersionMeansSchema
        <4> QED
          BY <4>1, <4>2, AppliedElements
      <3> QED
        BY <3>1, <3>2
    <2>2. job[c].rev \in Nat
      BY <1>1, <1>2
    <2> QED
      BY <2>1, <2>2, AppliedElements
  <1>11. OneInsideAScript'
    BY <1>8, <1>9 DEF OneInsideAScript
  <1>12. RunnersMatchTheRow'
    <2> SUFFICES ASSUME rollbacks = 0 PROVE
          /\ ~Dropping'
          /\ \A d \in Container :
               /\ Upgrading(d)' => job'[d].rev <= version' + 1
               /\ job'[d].phase = "serving" => version' = Latest
               /\ ~Inside(d)'
      BY <1>1, <1>8 DEF RunnersMatchTheRow
    <2>1. RunnersMatchTheRow
      BY DEF IInv
    <2>2. ~Dropping'
      BY <2>1, <1>8 DEF RunnersMatchTheRow, Dropping
    <2>3. ASSUME NEW d \in Container
          PROVE  /\ Upgrading(d)' => job'[d].rev <= version' + 1
                 /\ job'[d].phase = "serving" => version' = Latest
      <3>1. CASE d = c
        BY <1>1, <1>2, <1>4, <3>1 DEF Upgrading
      <3>2. CASE d # c
        <4>1. job'[d] = job[d] /\ job[d] \in [phase : Phases, rev : 0 .. Latest, next : Nat]
          BY <1>2, <3>2
        <4>2. version < Latest /\ version' = version + 1 /\ version \in Nat
          BY <1>1, <1>2
        <4>3. Upgrading(d) => job[d].rev <= version + 1
          BY <2>1 DEF RunnersMatchTheRow
        <4>4. job[d].phase # "serving"
          BY <2>1, <4>2, <1>1 DEF RunnersMatchTheRow
        <4> QED
          BY <4>1, <4>2, <4>3, <4>4 DEF Upgrading
      <3> QED
        BY <3>1, <3>2
    <2> QED
      BY <2>2, <2>3, <1>9
  <1> QED
    BY <1>6, <1>10, <1>11, <1>12 DEF IInv

\* Whatever a downgrade does, only the types are claimed after it began.
LEMMA RollbackStep ==
  ASSUME IInv, BeginRollback \/ Rollback \/ Interrupt
  PROVE  IInv'
  <1>1. Latest \in Nat \ {0} /\ Latest' = Latest /\ Chain' = Chain
    BY ChainFacts
       DEF IInv, TypeOK, Latest, Chain, BeginRollback, Rollback, RunDrop, UnstampVersion, Interrupt
  <1>2. rollbacks' # 0
    <2>1. rollbacks \in 0 .. MaxRollbacks /\ (Dropping => rollbacks # 0)
      BY DEF IInv, TypeOK, RunnersMatchTheRow
    <2> QED
      BY <2>1, BoundsFacts DEF BeginRollback, Rollback, RunDrop, UnstampVersion, Interrupt
  <1>3. VersionMeansSchema' /\ OneInsideAScript' /\ RunnersMatchTheRow'
    BY <1>2 DEF VersionMeansSchema, OneInsideAScript, RunnersMatchTheRow
  <1>4. rollback' = Gone => rollback' \in [phase : {"down", "dropping"}, rev : 0 .. Latest, next : Nat]
                            /\ rollback'.phase = "down"
    BY <1>1 DEF Gone, At
  <1>5. CASE BeginRollback
    <2>1. version \in 1 .. Latest /\ rollbacks' \in 0 .. MaxRollbacks
      BY <1>1, <1>5, BoundsFacts DEF IInv, TypeOK, BeginRollback
    <2>2. /\ rollback' \in [phase : {"down", "dropping"}, rev : 0 .. Latest, next : Nat]
          /\ rollback'.rev > 0 /\ rollback'.next > 0
      BY <1>1, <1>5, <2>1 DEF BeginRollback, At
    <2>3. disturbed' \in BOOLEAN
      BY <1>5 DEF BeginRollback, IInv, TypeOK
    <2>4. TypeOK'
      BY <1>1, <1>5, <2>1, <2>2, <2>3 DEF IInv, TypeOK, BeginRollback
    <2> QED
      BY <1>3, <2>4 DEF IInv
  <1>6. CASE RunDrop
    <2>1. schema' \subseteq Object
      BY <1>6 DEF IInv, TypeOK, RunDrop, Without
    <2>2. /\ rollback' \in [phase : {"down", "dropping"}, rev : 0 .. Latest, next : Nat]
          /\ rollback'.phase = "dropping" => rollback'.rev > 0 /\ rollback'.next > 0
      <3>1. CASE rollback' = Gone
        BY <1>4, <3>1
      <3>2. CASE rollback' = At("dropping", rollback.rev, rollback.next + 1)
        BY <1>1, <1>6, <3>2 DEF IInv, TypeOK, RunDrop, At, Dropping
      <3> QED
        BY <3>1, <3>2, <1>6 DEF RunDrop
    <2>3. TypeOK'
      BY <1>1, <1>6, <2>1, <2>2 DEF IInv, TypeOK, RunDrop
    <2> QED
      BY <1>3, <2>3 DEF IInv
  <1>7. CASE UnstampVersion
    <2>1. version' \in 0 .. Latest /\ rollback' = Gone
      BY <1>1, <1>7 DEF IInv, TypeOK, UnstampVersion, Dropping
    <2>2. TypeOK'
      BY <1>1, <1>4, <1>7, <2>1 DEF IInv, TypeOK, UnstampVersion
    <2> QED
      BY <1>3, <2>2 DEF IInv
  <1>8. CASE Interrupt
    <2>1. kills' \in 0 .. MaxKills /\ disturbed' \in BOOLEAN /\ rollback' = Gone
      BY <1>8, BoundsFacts DEF IInv, TypeOK, Interrupt
    <2>2. TypeOK'
      BY <1>1, <1>4, <1>8, <2>1 DEF IInv, TypeOK, Interrupt
    <2> QED
      BY <1>3, <2>2 DEF IInv
  <1> QED
    BY <1>5, <1>6, <1>7, <1>8 DEF Rollback

\* Every step of a container keeps the invariant.
LEMMA ContainerStep ==
  ASSUME IInv, NEW c \in Container,
         Migrate(c) \/ ProxyReady(c) \/ ProxyTimedOut(c) \/ Stop(c) \/ Kill(c)
  PROVE  IInv'
  <1>1. Latest \in Nat \ {0}
    BY ChainFacts DEF IInv, TypeOK
  <1>2. /\ job[c] \in [phase : Phases, rev : 0 .. Latest, next : Nat]
        /\ version \in 0 .. Latest /\ kills \in 0 .. MaxKills /\ disturbed \in BOOLEAN
        /\ Upgrading(c) => job[c].rev \in 1 .. Latest /\ job[c].next \in Nat \ {0}
    BY <1>1 DEF IInv, TypeOK, Upgrading
  <1>3. CASE Start(c)
    BY <1>1, <1>2, <1>3, OutsideStep DEF Start, Quiet, Database, At, Phases
  <1>4. CASE ProxyReady(c)
    BY <1>1, <1>2, <1>4, OutsideStep DEF ProxyReady, Quiet, Database, At, Phases
  <1>5. CASE ProxyTimedOut(c) \/ Stop(c)
    BY <1>2, <1>5, GoneStep DEF ProxyTimedOut, Stop, Quiet, Database
  <1>6. CASE Kill(c)
    <2>1. kills' \in 0 .. MaxKills /\ disturbed' \in BOOLEAN
      BY <1>2, <1>6, BoundsFacts DEF Kill
    <2> QED
      BY <1>6, <2>1, GoneStep DEF Kill
  <1>7. CASE ReadVersion(c)
    <2> DEFINE to == IF version = Latest THEN At("serving", 0, 0)
                     ELSE IF version = 0 /\ VersionTable \notin schema THEN At("ensuring", 1, 1)
                     ELSE At("upgrading", version + 1, 1)
    <2>1. /\ to \in [phase : Phases, rev : 0 .. Latest, next : {0, 1}]
          /\ to.phase \in {"ensuring", "upgrading"} =>
               to.rev > 0 /\ to.rev <= version + 1 /\ to.next = 1
          /\ to.phase = "serving" => version = Latest
      BY <1>1, <1>2 DEF At, Phases
    <2>2. Goes(c, to) /\ UNCHANGED <<svc, schema, version, rollback, rollbacks>> /\ kills' = kills
      BY <1>7 DEF ReadVersion
    <2>3. disturbed' \in BOOLEAN
      BY <1>7 DEF ReadVersion
    <2> HIDE DEF to
    <2> QED
      BY <1>2, <2>1, <2>2, <2>3, OutsideStep
  <1>8. CASE EnsureVersionTable(c)
    <2>1. CASE CanCreate(schema, VersionTable)
      <3> DEFINE to == At("upgrading", job[c].rev, 1)
      <3>1. /\ to \in [phase : Phases, rev : 0 .. Latest, next : Nat \ {0}]
            /\ to.phase = "upgrading" /\ to.rev = job[c].rev /\ to.next = 1
        BY <1>2 DEF At, Phases
      <3>2. /\ Upgrading(c) /\ Goes(c, to) /\ schema' = schema \union {VersionTable}
            /\ UNCHANGED <<svc, version, rollback, kills, rollbacks, disturbed>>
        BY <1>8, <2>1 DEF EnsureVersionTable, Quiet, Upgrading
      <3> HIDE DEF to
      <3> QED
        BY <2>1, <3>1, <3>2, BoundsFacts, CreatingStep
    <2>2. CASE ~CanCreate(schema, VersionTable)
      BY <1>2, <1>8, <2>2, GoneStep DEF EnsureVersionTable, Quiet
    <2> QED
      BY <2>1, <2>2
  <1>9. CASE RunStatement(c)
    <2>1. CASE CanCreate(schema, Statement(c))
      <3>1. Upgrading(c) /\ job[c].phase = "upgrading"
        BY <1>9 DEF RunStatement, Upgrading
      <3>2. /\ job[c].next \in 1 .. Len(Chain[job[c].rev].up)
            /\ Chain[job[c].rev].up \in Seq(Object)
        BY <1>2, <1>9, <3>1, ChainFacts DEF IInv, TypeOK, RunStatement
      <3>3. Statement(c) = Chain[job[c].rev].up[job[c].next] /\ Statement(c) \in Object
        BY <3>2 DEF Statement
      <3> DEFINE to == At("upgrading", job[c].rev, job[c].next + 1)
      <3>4. /\ to \in [phase : Phases, rev : 0 .. Latest, next : Nat \ {0}]
            /\ to.phase = "upgrading" /\ to.rev = job[c].rev /\ to.next = job[c].next + 1
        BY <1>2, <3>1 DEF At, Phases
      <3>5. /\ Goes(c, to) /\ schema' = schema \union {Statement(c)}
            /\ UNCHANGED <<svc, version, rollback, kills, rollbacks, disturbed>>
        BY <1>9, <2>1 DEF RunStatement, Quiet
      <3> HIDE DEF to
      <3> QED
        BY <2>1, <3>1, <3>2, <3>3, <3>4, <3>5, CreatingStep
    <2>2. CASE ~CanCreate(schema, Statement(c))
      BY <1>2, <1>9, <2>2, GoneStep DEF RunStatement, Quiet
    <2> QED
      BY <2>1, <2>2
  <1>10. CASE StampVersion(c)
    <2>1. CASE version = job[c].rev - 1
      BY <1>10, <2>1, StampStep
    <2>2. CASE version # job[c].rev - 1
      BY <1>2, <1>10, <2>2, GoneStep DEF StampVersion, Quiet
    <2> QED
      BY <2>1, <2>2
  <1> QED
    BY <1>3, <1>4, <1>5, <1>6, <1>7, <1>8, <1>9, <1>10 DEF Migrate

\* So does every step.
LEMMA NextIInv ==
  ASSUME IInv, [Next]_vars
  PROVE  IInv'
  <1>1. CASE Next
    BY <1>1, ContainerStep, RollbackStep DEF Next
  <1>2. CASE UNCHANGED vars
    BY <1>2
       DEF vars, IInv, TypeOK, VersionMeansSchema, OneInsideAScript, RunnersMatchTheRow, Applied, UpTo,
           Latest, Chain, Inside, Upgrading, Dropping
  <1> QED
    BY <1>1, <1>2

\* The invariant holds of every reachable state.
LEMMA Invariance == Spec => []IInv
  BY InitIInv, NextIInv, PTL DEF Spec

------------------------------------------------------------------------------
\* Every variable keeps its type; a process that works on a script knows which.
THEOREM TypeCorrect == Spec => []TypeOK
  <1>1. IInv => TypeOK
    BY DEF IInv
  <1> QED
    BY <1>1, Invariance, PTL

\* For any scripts and any number of containers and kills, the row of
\* alembic_version never promises an object that env.py's run has not created.
THEOREM VersionIsKept == Spec => []VersionMeansSchema
  <1>1. IInv => VersionMeansSchema
    BY DEF IInv
  <1> QED
    BY <1>1, Invariance, PTL

\* For any scripts and any number of containers, at most one is within a
\* script, although `alembic upgrade head` takes no lock.
THEOREM ScriptsExclude == Spec => []OneInsideAScript
  <1>1. IInv => OneInsideAScript
    BY DEF IInv
  <1> QED
    BY <1>1, Invariance, PTL

\* For any scripts and any number of containers and kills, entrypoint.sh starts
\* uvicorn only on a database that has all its tables and indexes.
THEOREM ServersAreServed == Spec => []ServersHaveTheirSchema
  <1>1. IInv => ServersHaveTheirSchema
    BY DEF IInv, ServersHaveTheirSchema, VersionMeansSchema, RunnersMatchTheRow
  <1> QED
    BY <1>1, Invariance, PTL

------------------------------------------------------------------------------
(* Databases that nothing has disturbed *)

\* What the scripts build and leave, a statement at a time.
LEMMA ScriptFacts ==
  ASSUME svc \in Service, NEW r \in 1 .. Latest
  PROVE  /\ \A i \in 1 .. Len(Chain[r].up) :
              /\ Chain[r].up[i] # VersionTable
              /\ CanCreate(Built(svc, r, i), Chain[r].up[i])
              /\ Built(svc, r, i + 1) = Built(svc, r, i) \union {Chain[r].up[i]}
         /\ Built(svc, r, 1) = Applied(r - 1)
         /\ Built(svc, r, Len(Chain[r].up) + 1) = Applied(r)
         /\ \A i \in 1 .. Len(Chain[r].down) :
              /\ Chain[r].down[i] \in Left(svc, r, i)
              /\ Left(svc, r, i + 1) = Without(Left(svc, r, i), Chain[r].down[i])
         /\ Left(svc, r, 1) = Applied(r)
         /\ Left(svc, r, Len(Chain[r].down) + 1) = Applied(r - 1)
  <1>1. /\ Chain = Scripts[svc] /\ r \in DOMAIN Scripts[svc] /\ r \in Nat
        /\ Len(Chain[r].up) \in Nat /\ DOMAIN Chain[r].up = 1 .. Len(Chain[r].up)
        /\ Len(Chain[r].down) \in Nat /\ DOMAIN Chain[r].down = 1 .. Len(Chain[r].down)
    BY ChainFacts DEF Chain
  <1>2. /\ \A i \in 1 .. Len(Chain[r].up) :
             /\ Chain[r].up[i] # VersionTable
             /\ CanCreate(Built(svc, r, i), Chain[r].up[i])
        /\ \A i \in 1 .. Len(Chain[r].down) : Chain[r].down[i] \in Left(svc, r, i)
        /\ Left(svc, r, Len(Chain[r].down) + 1) = Applied(r - 1)
    BY <1>1, ScriptsAssumption DEF Applied
  <1>3. ASSUME NEW i \in 1 .. Len(Chain[r].up)
        PROVE  Built(svc, r, i + 1) = Built(svc, r, i) \union {Chain[r].up[i]}
    <2>1. 1 .. (i + 1) - 1 = (1 .. i - 1) \union {i}
      BY <1>1
    <2> QED
      BY <1>1, <2>1 DEF Built
  <1>4. Built(svc, r, 1) = Applied(r - 1)
    BY DEF Built, Applied
  <1>5. Built(svc, r, Len(Chain[r].up) + 1) = Applied(r)
    <2>1. 1 .. (Len(Chain[r].up) + 1) - 1 = DOMAIN Chain[r].up
      BY <1>1
    <2>2. 1 .. r = (1 .. r - 1) \union {r}
      BY <1>1
    <2> QED
      BY <1>1, <2>1, <2>2 DEF Built, Applied, UpTo
  <1>6. ASSUME NEW i \in 1 .. Len(Chain[r].down)
        PROVE  Left(svc, r, i + 1) = Without(Left(svc, r, i), Chain[r].down[i])
    <2>1. 1 .. (i + 1) - 1 = (1 .. i - 1) \union {i}
      BY <1>1
    <2>2. \A x : x \in Left(svc, r, i + 1) <=>
                   x \in Left(svc, r, i) /\ x \in Without({x}, Chain[r].down[i])
      BY <1>1, <2>1 DEF Left
    <2>3. \A x : x \in Without(Left(svc, r, i), Chain[r].down[i]) <=>
                   x \in Left(svc, r, i) /\ x \in Without({x}, Chain[r].down[i])
      BY DEF Without
    <2> QED
      BY <2>2, <2>3
  <1>7. Left(svc, r, 1) = Applied(r)
    BY DEF Left, Applied
  <1> QED
    BY <1>2, <1>3, <1>4, <1>5, <1>6, <1>7

\* A container that stays outside the scripts, or leaves them disturbed, claims
\* nothing of the database.
LEMMA AsideStep ==
  ASSUME EIInv, NEW c \in Container, NEW to,
         Goes(c, to), Plain' = Plain, UNCHANGED <<svc, version, rollback>>,
         disturbed => disturbed', Inside(c) => disturbed',
         to.phase \in {"ensuring", "upgrading"} =>
           to.rev <= version + 1 /\ to.next = 1 /\ (Dropping => disturbed')
  PROVE  UpgradesAreExact' /\ DowngradesAreExact'
  <1>1. /\ job'[c] = to /\ \A d \in Container : d # c => job'[d] = job[d]
    BY DEF EIInv, IInv, TypeOK, Goes
  <1>2. /\ \A d \in Container : Inside(d)' => d # c /\ Inside(d) /\ job'[d] = job[d]
        /\ ~disturbed' => \A d \in Container : Inside(d) => Inside(d)'
    BY <1>1 DEF Inside
  <1>3. /\ \A r, i : Built(svc, r, i)' = Built(svc, r, i) /\ Left(svc, r, i)' = Left(svc, r, i)
        /\ Chain' = Chain /\ (Dropping' <=> Dropping) /\ Applied(version)' = Applied(version)
    BY DEF Built, Left, UpTo, Chain, Dropping, Applied
  <1>4. UpgradesAreExact'
    <2> SUFFICES ASSUME ~disturbed', ~Dropping PROVE
          /\ \A d \in Container : Upgrading(d)' => job'[d].rev <= version + 1
          /\ \A d, e \in Container : Inside(d)' /\ Inside(e)' => d = e
          /\ \A d \in Container : Inside(d)' =>
               /\ version = job'[d].rev - 1 /\ job'[d].next <= Len(Chain[job'[d].rev].up) + 1
               /\ Plain = Built(svc, job'[d].rev, job'[d].next)
          /\ (\A d \in Container : ~Inside(d)') => Plain = Applied(version)
      BY <1>3 DEF UpgradesAreExact, Built
    <2>1. UpgradesAreExact /\ ~disturbed
      BY DEF EIInv
    <2>2. ASSUME NEW d \in Container, Upgrading(d)' PROVE job'[d].rev <= version + 1
      BY <2>1, <2>2, <1>1 DEF UpgradesAreExact, Upgrading
    <2> QED
      BY <2>1, <2>2, <1>2 DEF UpgradesAreExact
  <1>5. DowngradesAreExact'
    <2> SUFFICES ASSUME ~disturbed', Dropping PROVE
          /\ \A d \in Container : ~Upgrading(d)'
          /\ version = rollback.rev /\ rollback.next <= Len(Chain[rollback.rev].down) + 1
          /\ Plain = Left(svc, rollback.rev, rollback.next)
      BY <1>3 DEF DowngradesAreExact, Left
    <2>1. DowngradesAreExact /\ ~disturbed
      BY DEF EIInv
    <2>2. \A d \in Container : ~Upgrading(d)'
      BY <2>1, <1>1 DEF DowngradesAreExact, Upgrading
    <2> QED
      BY <2>1, <2>2 DEF DowngradesAreExact
  <1> QED
    BY <1>4, <1>5

\* Outside the scripts, a container finds the first object of its script there,
\* unless it alone is at the current row: the lock, seen from the database.
LEMMA FirstStatementIsTheLock ==
  ASSUME EIInv, ~disturbed, ~Dropping, NEW c \in Container, Upgrading(c), ~Inside(c),
         Chain[job[c].rev].up[1] \notin schema
  PROVE  /\ job[c].rev = version + 1 /\ \A d \in Container : ~Inside(d)
         /\ Plain = Built(svc, job[c].rev, 1)
  <1>1. /\ svc \in Service /\ Latest \in Nat \ {0} /\ version \in 0 .. Latest
        /\ job[c].rev \in 1 .. Latest /\ job[c].rev <= version + 1 /\ UpgradesAreExact
        /\ \A d \in Container : Inside(d) => job[d].rev \in 1 .. Latest /\ job[d].next \in Nat
    BY ChainFacts DEF EIInv, IInv, TypeOK, UpgradesAreExact, Upgrading, Inside
  <1>2. \A r \in 1 .. Latest : 1 \in DOMAIN Chain[r].up
    BY <1>1, ChainFacts
  <1>3. \A q \in Nat : job[c].rev <= q => Chain[job[c].rev].up[1] \in Applied(q)
    BY <1>1, <1>2 DEF Applied, UpTo, Chain
  <1>4. ASSUME NEW d \in Container, Inside(d) PROVE FALSE
    <2>1. /\ version = job[d].rev - 1 /\ Plain = Built(svc, job[d].rev, job[d].next)
          /\ job[d].next > 1 /\ job[d].next \in Nat /\ job[d].rev \in 1 .. Latest
      BY <1>1, <1>4 DEF UpgradesAreExact, Inside
    <2>2. CASE job[c].rev <= version
      <3>1. Chain[job[c].rev].up[1] \in Applied(version)
        BY <1>1, <1>3, <2>2
      <3> QED
        BY <2>1, <3>1 DEF Built, Applied, Plain
    <2>3. CASE job[c].rev = job[d].rev
      BY <2>1, <2>3 DEF Built, Plain, Chain
    <2> QED
      BY <1>1, <2>1, <2>2, <2>3
  <1>5. Plain = Applied(version)
    BY <1>1, <1>4 DEF UpgradesAreExact
  <1>6. ~(job[c].rev <= version)
    BY <1>1, <1>3, <1>5 DEF Plain
  <1>7. job[c].rev = version + 1
    BY <1>1, <1>6
  <1>8. Built(svc, job[c].rev, 1) = Applied(version)
    <2>1. job[c].rev - 1 = version
      BY <1>1, <1>7
    <2> QED
      BY <1>1, <2>1, ScriptFacts
  <1> QED
    BY <1>4, <1>5, <1>7, <1>8

\* A statement that succeeds takes its container further into the script.
LEMMA StatementStep ==
  ASSUME EIInv, NEW c \in Container, RunStatement(c), CanCreate(schema, Statement(c))
  PROVE  UpgradesAreExact' /\ DowngradesAreExact'
  <1> DEFINE r == job[c].rev
             n == job[c].next
  <1>1. /\ disturbed' = disturbed /\ (Dropping' <=> Dropping)
        /\ UNCHANGED <<svc, version, rollback>> /\ Chain' = Chain
        /\ schema' = schema \union {Statement(c)} /\ Statement(c) \notin schema
        /\ job' = [job EXCEPT ![c] = At("upgrading", r, n + 1)]
        /\ job[c].phase = "upgrading" /\ Upgrading(c) /\ n <= Len(Chain[r].up)
        /\ Statement(c) = Chain[r].up[n]
    BY DEF RunStatement, Quiet, Goes, Dropping, Chain, CanCreate, Upgrading, Statement
  <1>2. /\ svc \in Service /\ Latest \in Nat \ {0} /\ version \in 0 .. Latest
        /\ r \in 1 .. Latest /\ n \in Nat \ {0} /\ Len(Chain[r].up) \in Nat \ {0}
        /\ n \in 1 .. Len(Chain[r].up)
        /\ job \in [Container -> [phase : Phases, rev : 0 .. Latest, next : Nat]]
    BY <1>1, ChainFacts DEF EIInv, IInv, TypeOK, Upgrading
  <1>3. /\ job'[c].phase = "upgrading" /\ job'[c].rev = r /\ job'[c].next = n + 1
        /\ \A d \in Container : d # c => job'[d] = job[d]
    BY <1>1, <1>2 DEF At
  <1>4. ~disturbed /\ Dropping => FALSE
    BY <1>1 DEF EIInv, DowngradesAreExact
  <1>5. DowngradesAreExact'
    BY <1>1, <1>4 DEF DowngradesAreExact
  <1>6. ASSUME ~disturbed, ~Dropping PROVE UpgradesAreExact'
    <2>1. UpgradesAreExact
      BY DEF EIInv
    <2>2. /\ r = version + 1 /\ \A d \in Container : Inside(d) => d = c
          /\ Plain = Built(svc, r, n)
      <3>1. CASE Inside(c)
        BY <1>2, <1>6, <2>1, <3>1 DEF UpgradesAreExact
      <3>2. CASE ~Inside(c)
        <4>1. n = 1
          BY <1>1, <1>2, <3>2 DEF Inside
        <4> QED
          BY <1>1, <1>6, <3>2, <4>1, FirstStatementIsTheLock
      <3> QED
        BY <3>1, <3>2
    <2>3. Plain' = Built(svc, r, n + 1)
      <3>1. Statement(c) # VersionTable /\ Built(svc, r, n + 1) = Built(svc, r, n) \union {Statement(c)}
        BY <1>1, <1>2, ScriptFacts
      <3> QED
        BY <1>1, <2>2, <3>1 DEF Plain
    <2>4. \A d \in Container : Inside(d)' => d = c
      BY <1>3, <2>2 DEF Inside
    <2>5. Inside(c)'
      BY <1>2, <1>3 DEF Inside
    <2>6. \A d \in Container : Upgrading(d)' => job'[d].rev <= version + 1
      BY <1>1, <1>2, <1>3, <1>6, <2>1, <2>2 DEF UpgradesAreExact, Upgrading
    <2>7. /\ version = job'[c].rev - 1 /\ job'[c].next <= Len(Chain[job'[c].rev].up) + 1
          /\ Plain' = Built(svc, job'[c].rev, job'[c].next)
      BY <1>2, <1>3, <2>2, <2>3
    <2> SUFFICES
          /\ \A d \in Container : Upgrading(d)' => job'[d].rev <= version + 1
          /\ \A d, e \in Container : Inside(d)' /\ Inside(e)' => d = e
          /\ \A d \in Container : Inside(d)' =>
               /\ version = job'[d].rev - 1 /\ job'[d].next <= Len(Chain[job'[d].rev].up) + 1
               /\ Plain' = Built(svc, job'[d].rev, job'[d].next)
          /\ (\A d \in Container : ~Inside(d)') => Plain' = Applied(version)
      BY <1>1 DEF UpgradesAreExact, Built, Applied
    <2> QED
      BY <2>4, <2>5, <2>6, <2>7
  <1> QED
    BY <1>1, <1>5, <1>6 DEF UpgradesAreExact

\* The row moves when the script of its new revision is complete.
LEMMA StampKeepsExact ==
  ASSUME EIInv, NEW c \in Container, StampVersion(c)
  PROVE  UpgradesAreExact' /\ DowngradesAreExact'
  <1> DEFINE r == job[c].rev
             n == job[c].next
             to == IF r = Latest THEN At("serving", 0, 0) ELSE At("upgrading", r + 1, 1)
  <1>1. /\ disturbed' = disturbed /\ (Dropping' <=> Dropping) /\ UNCHANGED <<svc, schema, rollback>>
        /\ job[c].phase = "upgrading" /\ Upgrading(c) /\ n > Len(Chain[r].up)
    BY DEF StampVersion, Quiet, Dropping, Upgrading
  <1>2. /\ svc \in Service /\ Latest \in Nat \ {0} /\ version \in 0 .. Latest
        /\ r \in 1 .. Latest /\ n \in Nat \ {0} /\ Len(Chain[r].up) \in Nat \ {0}
        /\ job \in [Container -> [phase : Phases, rev : 0 .. Latest, next : Nat]]
    BY <1>1, ChainFacts DEF EIInv, IInv, TypeOK, Upgrading
  <1>3. Inside(c)
    BY <1>1, <1>2 DEF Inside
  <1>4. ~disturbed => ~Dropping /\ UpgradesAreExact
    BY <1>1 DEF EIInv, DowngradesAreExact
  <1>5. DowngradesAreExact'
    BY <1>1, <1>4 DEF DowngradesAreExact
  <1>6. ASSUME ~disturbed PROVE UpgradesAreExact'
    <2>1. /\ version = r - 1 /\ n <= Len(Chain[r].up) + 1 /\ Plain = Built(svc, r, n)
          /\ \A d \in Container : Inside(d) => d = c
          /\ \A d \in Container : Upgrading(d) => job[d].rev <= version + 1
      BY <1>3, <1>4, <1>6 DEF UpgradesAreExact
    <2>2. version' = r /\ job' = [job EXCEPT ![c] = to]
      BY <2>1 DEF StampVersion, Goes
    <2>3. n = Len(Chain[r].up) + 1
      BY <1>1, <1>2, <2>1
    <2>4. Plain' = Applied(r)
      <3>1. Built(svc, r, n) = Applied(r)
        BY <1>2, <2>3, ScriptFacts
      <3> QED
        BY <1>1, <2>1, <3>1 DEF Plain
    <2>5. /\ to.phase = "serving" \/ (to.phase = "upgrading" /\ to.rev = r + 1 /\ to.next = 1)
          /\ job'[c] = to /\ \A d \in Container : d # c => job'[d] = job[d]
      BY <1>2, <2>2 DEF At
    <2> HIDE DEF to
    <2>6. \A d \in Container : ~Inside(d)'
      BY <2>1, <2>5 DEF Inside
    <2>7. ASSUME NEW d \in Container, Upgrading(d)' PROVE job'[d].rev <= version' + 1
      <3>1. CASE d = c
        BY <1>2, <2>2, <2>5, <2>7, <3>1 DEF Upgrading
      <3>2. CASE d # c
        <4>1. job[d].rev <= version + 1 /\ job'[d] = job[d] /\ job[d].rev \in 0 .. Latest
          BY <1>2, <2>1, <2>5, <2>7, <3>2 DEF Upgrading
        <4> QED
          BY <1>2, <2>1, <2>2, <4>1
      <3> QED
        BY <3>1, <3>2
    <2> SUFFICES /\ \A d \in Container : Upgrading(d)' => job'[d].rev <= version' + 1
                 /\ \A d \in Container : ~Inside(d)'
                 /\ Plain' = Applied(r)
      BY <1>1, <2>2 DEF UpgradesAreExact, Applied
    <2> QED
      BY <2>4, <2>6, <2>7
  <1> QED
    BY <1>1, <1>5, <1>6 DEF UpgradesAreExact

\* Every other step of a container stays outside the scripts or disturbs them.
LEMMA ContainerKeepsExact ==
  ASSUME EIInv, NEW c \in Container,
         Migrate(c) \/ ProxyReady(c) \/ ProxyTimedOut(c) \/ Stop(c) \/ Kill(c)
  PROVE  UpgradesAreExact' /\ DowngradesAreExact'
  <1>1. /\ svc \in Service /\ Latest \in Nat \ {0} /\ version \in 0 .. Latest
        /\ disturbed \in BOOLEAN /\ Gone.phase = "down"
        /\ UNCHANGED schema => Plain' = Plain
    BY ChainFacts DEF EIInv, IInv, TypeOK, Gone, At, Plain
  <1>2. CASE disturbed'
    BY <1>2 DEF UpgradesAreExact, DowngradesAreExact
  <1>3. CASE Start(c)
    BY <1>1, <1>3, AsideStep DEF Start, Quiet, Database, At, Inside
  <1>4. CASE ProxyReady(c)
    BY <1>1, <1>4, AsideStep DEF ProxyReady, Quiet, Database, At, Inside
  <1>5. CASE ProxyTimedOut(c) \/ Stop(c)
    BY <1>1, <1>5, AsideStep DEF ProxyTimedOut, Stop, Quiet, Database, Inside
  <1>6. CASE Kill(c)
    BY <1>1, <1>6, AsideStep DEF Kill
  <1>7. CASE ReadVersion(c)
    <2> DEFINE to == IF version = Latest THEN At("serving", 0, 0)
                     ELSE IF version = 0 /\ VersionTable \notin schema THEN At("ensuring", 1, 1)
                     ELSE At("upgrading", version + 1, 1)
    <2>1. /\ to.phase \in {"ensuring", "upgrading"} =>
               to.rev <= version + 1 /\ to.next = 1 /\ version # Latest
          /\ Goes(c, to) /\ UNCHANGED <<svc, schema, version, rollback>> /\ ~Inside(c)
          /\ disturbed' = (disturbed \/ (version # Latest /\ Dropping))
      BY <1>1, <1>7 DEF ReadVersion, At, Inside
    <2> HIDE DEF to
    <2> QED
      BY <1>1, <2>1, AsideStep
  <1>8. CASE EnsureVersionTable(c)
    <2>1. /\ ~Inside(c) /\ Upgrading(c) /\ disturbed' = disturbed
          /\ UNCHANGED <<svc, version, rollback>> /\ Plain' = Plain
      BY <1>8 DEF EnsureVersionTable, Quiet, Inside, Upgrading, Plain
    <2>2. CASE Goes(c, Gone)
      BY <1>1, <2>1, <2>2, AsideStep
    <2>3. CASE Goes(c, At("upgrading", job[c].rev, 1)) /\ ~disturbed
      <3> DEFINE to == At("upgrading", job[c].rev, 1)
      <3>1. to.rev = job[c].rev /\ to.next = 1 /\ Goes(c, to)
        BY <2>3 DEF At
      <3> HIDE DEF to
      <3>2. ~Dropping /\ job[c].rev <= version + 1
        BY <2>1, <2>3 DEF EIInv, UpgradesAreExact, DowngradesAreExact
      <3> QED
        BY <2>1, <3>1, <3>2, AsideStep
    <2> QED
      BY <1>2, <1>8, <2>1, <2>2, <2>3 DEF EnsureVersionTable
  <1>9. CASE RunStatement(c) /\ CanCreate(schema, Statement(c))
    BY <1>9, StatementStep
  <1>10. CASE RunStatement(c) /\ ~CanCreate(schema, Statement(c)) /\ ~disturbed'
    <2>1. /\ Upgrading(c) /\ job[c].phase = "upgrading" /\ disturbed' = disturbed /\ Goes(c, Gone)
          /\ UNCHANGED <<svc, schema, version, rollback>>
          /\ job[c].next <= Len(Chain[job[c].rev].up)
          /\ Statement(c) = Chain[job[c].rev].up[job[c].next]
      BY <1>10 DEF RunStatement, Quiet, Upgrading, Statement
    <2>2. job[c].rev \in 1 .. Latest /\ job[c].next \in 1 .. Len(Chain[job[c].rev].up)
      BY <1>1, <2>1, ChainFacts DEF EIInv, IInv, TypeOK
    <2>3. ASSUME Inside(c) PROVE FALSE
      <3>1. ~Dropping /\ Plain = Built(svc, job[c].rev, job[c].next)
        BY <1>10, <2>1, <2>3 DEF EIInv, UpgradesAreExact, DowngradesAreExact
      <3>2. Statement(c) # VersionTable /\ CanCreate(Plain, Statement(c))
        BY <1>1, <2>1, <2>2, <3>1, ScriptFacts
      <3>3. CanCreate(schema, Statement(c))
        BY <3>2 DEF CanCreate, Plain
      <3> QED
        BY <1>10, <3>3
    <2> QED
      BY <1>1, <2>1, <2>3, AsideStep
  <1>11. CASE StampVersion(c)
    BY <1>11, StampKeepsExact
  <1> QED
    BY <1>2, <1>3, <1>4, <1>5, <1>6, <1>7, <1>8, <1>9, <1>10, <1>11 DEF Migrate

\* A downgrade that is alone with the database undoes its script.
LEMMA RollbackKeepsExact ==
  ASSUME EIInv, BeginRollback \/ Rollback \/ Interrupt
  PROVE  UpgradesAreExact' /\ DowngradesAreExact'
  <1> DEFINE r == rollback.rev
             n == rollback.next
  <1>1. /\ svc \in Service /\ Latest \in Nat \ {0} /\ version \in 0 .. Latest
        /\ disturbed \in BOOLEAN /\ (Dropping => r \in 1 .. Latest /\ n \in Nat \ {0})
        /\ UNCHANGED <<svc, job>> /\ Chain' = Chain /\ (disturbed => disturbed')
        /\ \A c \in Container : (Upgrading(c)' <=> Upgrading(c)) /\ (Inside(c)' <=> Inside(c))
    BY ChainFacts DEF EIInv, IInv, TypeOK, Dropping, BeginRollback, Rollback, RunDrop, UnstampVersion,
                      Interrupt, Chain, Upgrading, Inside
  <1>2. CASE disturbed'
    BY <1>2 DEF UpgradesAreExact, DowngradesAreExact
  <1>3. CASE BeginRollback /\ ~disturbed'
    <2>1. /\ ~disturbed /\ ~Dropping /\ version > 0 /\ \A c \in Container : ~Upgrading(c)
          /\ rollback' = At("dropping", version, 1) /\ UNCHANGED <<schema, version>>
      BY <1>1, <1>3 DEF BeginRollback
    <2>2. rollback'.phase = "dropping" /\ rollback'.rev = version /\ rollback'.next = 1
      BY <2>1 DEF At
    <2>3. Plain = Left(svc, version, 1)
      <3>1. Plain = Applied(version)
        BY <2>1 DEF EIInv, UpgradesAreExact, Upgrading, Inside
      <3> QED
        BY <1>1, <2>1, <3>1, ScriptFacts
    <2>4. Len(Chain[version].down) \in Nat
      BY <1>1, <2>1, ChainFacts
    <2>5. DowngradesAreExact'
      BY <1>1, <2>1, <2>2, <2>3, <2>4 DEF DowngradesAreExact, Plain
    <2> QED
      BY <2>2, <2>5 DEF UpgradesAreExact, Dropping
  <1>4. CASE RunDrop /\ ~disturbed'
    <2>1. /\ Dropping /\ n <= Len(Chain[r].down) /\ ~disturbed /\ Doomed = Chain[r].down[n]
          /\ UNCHANGED version
      BY <1>1, <1>4 DEF RunDrop, Doomed
    <2>2. /\ version = r /\ \A c \in Container : ~Upgrading(c)
          /\ Plain = Left(svc, r, n)
      BY <2>1 DEF EIInv, DowngradesAreExact
    <2>3. n \in 1 .. Len(Chain[r].down) /\ Len(Chain[r].down) \in Nat
      BY <1>1, <2>1, ChainFacts
    <2>4. Doomed \in Plain /\ Left(svc, r, n + 1) = Without(Plain, Doomed)
      BY <1>1, <2>1, <2>2, <2>3, ScriptFacts
    <2>5. /\ schema' = Without(schema, Doomed)
          /\ rollback' = At("dropping", r, n + 1)
      BY <1>4, <2>4 DEF RunDrop, Plain
    <2>6. Plain' = Left(svc, r, n + 1)
      BY <2>4, <2>5 DEF Plain, Without
    <2>7. rollback'.phase = "dropping" /\ rollback'.rev = r /\ rollback'.next = n + 1
      BY <2>5 DEF At
    <2>8. DowngradesAreExact'
      BY <1>1, <2>1, <2>2, <2>3, <2>6, <2>7 DEF DowngradesAreExact, Left
    <2> QED
      BY <2>7, <2>8 DEF UpgradesAreExact, Dropping
  <1>5. CASE (UnstampVersion \/ Interrupt) /\ ~disturbed'
    <2>1. /\ Dropping /\ ~disturbed /\ rollback' = Gone /\ UNCHANGED schema
      BY <1>1, <1>5 DEF UnstampVersion, Interrupt
    <2>2. /\ version = r /\ n <= Len(Chain[r].down) + 1 /\ \A c \in Container : ~Upgrading(c)
          /\ Plain = Left(svc, r, n)
      BY <2>1 DEF EIInv, DowngradesAreExact
    <2>3. ~Dropping'
      BY <2>1 DEF Dropping, Gone, At
    <2>4. Plain = Applied(version')
      <3>1. CASE UnstampVersion
        <4>1. version' = r - 1 /\ n > Len(Chain[r].down)
          BY <2>2, <3>1 DEF UnstampVersion
        <4>2. n = Len(Chain[r].down) + 1
          BY <1>1, <2>1, <2>2, <4>1, ChainFacts
        <4> QED
          BY <1>1, <2>1, <2>2, <4>1, <4>2, ScriptFacts
      <3>2. CASE Interrupt
        <4>1. version' = r /\ ~(rollback.next > 1)
          BY <1>5, <2>2, <3>2 DEF Interrupt
        <4>2. n = 1
          BY <1>1, <2>1, <4>1
        <4> QED
          BY <1>1, <2>1, <2>2, <4>1, <4>2, ScriptFacts
      <3> QED
        BY <1>5, <3>1, <3>2
    <2>5. \A c \in Container : ~Upgrading(c)' /\ ~Inside(c)'
      BY <1>1, <2>2 DEF Upgrading, Inside
    <2>6. UpgradesAreExact'
      BY <1>1, <2>1, <2>4, <2>5 DEF UpgradesAreExact, Plain, Applied
    <2> QED
      BY <2>3, <2>6 DEF DowngradesAreExact
  <1> QED
    BY <1>2, <1>3, <1>4, <1>5 DEF Rollback

\* An empty database is what revision 0 stands for.
LEMMA InitEIInv == Init => EIInv
  <1> SUFFICES ASSUME Init PROVE EIInv
    OBVIOUS
  <1>1. ~Dropping /\ \A c \in Container : ~Upgrading(c) /\ ~Inside(c)
    BY DEF Init, Dropping, Upgrading, Inside, Gone, At
  <1>2. Plain = Applied(version)
    BY DEF Init, Plain, Applied, UpTo
  <1> QED
    BY <1>1, <1>2, InitIInv DEF EIInv, UpgradesAreExact, DowngradesAreExact

\* For any scripts whose statements succeed one after the other, any number of
\* containers that race, and any kills and downgrades: a database in which
\* nothing was cut short is what its row of alembic_version says.
THEOREM UndisturbedSchemas == Spec => []UndisturbedSchemaIsItsVersion
  <1>1. ASSUME EIInv, [Next]_vars PROVE EIInv'
    <2>1. CASE Next
      <3>1. IInv'
        BY <1>1, <2>1, NextIInv DEF EIInv
      <3> QED
        BY <1>1, <2>1, <3>1, ContainerKeepsExact, RollbackKeepsExact DEF EIInv, Next
    <2>2. CASE UNCHANGED vars
      <3>1. IInv'
        BY <1>1, NextIInv DEF EIInv
      <3>2. UNCHANGED <<svc, schema, version, job, rollback, disturbed>>
        BY <2>2 DEF vars
      <3>3. UpgradesAreExact'
        <4>1. /\ (Dropping' <=> Dropping) /\ Plain' = Plain /\ Chain' = Chain
              /\ Applied(version)' = Applied(version)
              /\ \A r, i : Built(svc, r, i)' = Built(svc, r, i)
              /\ \A c \in Container : (Upgrading(c)' <=> Upgrading(c)) /\ (Inside(c)' <=> Inside(c))
          BY <3>2 DEF Dropping, Plain, Chain, Applied, Upgrading, Inside
        <4> QED
          BY <1>1, <3>2, <4>1 DEF EIInv, UpgradesAreExact, Built
      <3>4. DowngradesAreExact'
        BY <1>1, <3>2 DEF EIInv, DowngradesAreExact, Plain, Left, Chain, Upgrading, Dropping
      <3> QED
        BY <3>1, <3>3, <3>4 DEF EIInv
    <2> QED
      BY <1>1, <2>1, <2>2
  <1>2. EIInv => UndisturbedSchemaIsItsVersion
    BY DEF EIInv, UpgradesAreExact, UndisturbedSchemaIsItsVersion, Plain
  <1> QED
    BY <1>1, <1>2, InitEIInv, PTL DEF Spec
==============================================================================
