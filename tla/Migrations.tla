----------------------------- MODULE Migrations -----------------------------
(***************************************************************************)
(* How a service's database gets its schema.  Every container runs         *)
(* entrypoint.sh: it waits for the Cloud SQL proxy, runs                   *)
(* `alembic upgrade head`, and only then becomes the server; any failure   *)
(* ends it (set -e) and Cloud Run starts another.  Cloud Run keeps up to   *)
(* ten containers of a service, so several may migrate at once, and its    *)
(* start-up probe ends one that does not answer within a minute, which     *)
(* may be in the middle of a script.  An operator may run                  *)
(* `alembic downgrade -1`.                                                 *)
(*                                                                         *)
(* Alembic and MySQL are modelled from how alembic/env.py runs them:       *)
(* alembic_version holds one row and is read once, at the start; MySQL     *)
(* commits every CREATE and DROP on its own; a CREATE fails if the object  *)
(* is there, a DROP if it is not; the row moves after the last statement   *)
(* of a script, by an INSERT or UPDATE that must match the row the process *)
(* started from.  Nothing locks the database for a whole upgrade.          *)
(***************************************************************************)
EXTENDS Integers, Sequences, FiniteSets

CONSTANTS
  Container,
  Service,
  Scripts,       \* Scripts[s]: the chain of revisions of a service
  VersionTable,  \* the object alembic_version
  MaxKills,      \* bound: processes ended in the middle of their work
  MaxRollbacks   \* bound: downgrades the operator starts

\* A schema object: a table, or an index of a table (a table has index "").
Object == [table : STRING, index : STRING]

ASSUME MigrationsAssumption ==
  /\ MaxKills \in Nat /\ MaxRollbacks \in Nat
  /\ \A s \in Service :
       Scripts[s] \in Seq([up : Seq(Object) \ {<<>>}, down : Seq(Object)]) \ {<<>>}
  /\ VersionTable \in Object

VARIABLES
  svc,        \* the service whose database this is: it never changes
  schema,     \* the objects that exist
  version,    \* the row of alembic_version, 0 when there is none
  job,        \* job[c]: what the entrypoint of a container is doing
  rollback,   \* the operator's downgrade
  kills,
  rollbacks,
  disturbed   \* history: a script was cut short, or a downgrade met an upgrade

vars == <<svc, schema, version, job, rollback, kills, rollbacks, disturbed>>

Chain == Scripts[svc]
Latest == Len(Chain)

\* The objects of the revisions up to the r-th.
UpTo(s, r) ==
  UNION {{Scripts[s][q].up[i] : i \in DOMAIN Scripts[s][q].up} : q \in 1 .. r}
Applied(r) == UpTo(svc, r)

At(phase, r, i) == [phase |-> phase, rev |-> r, next |-> i]
Gone == At("down", 0, 0)

Phases == {"down", "waiting", "reading", "ensuring", "upgrading", "serving"}

TypeOK ==
  /\ svc \in Service
  /\ schema \subseteq Object
  /\ version \in 0 .. Latest
  /\ job \in [Container -> [phase : Phases, rev : 0 .. Latest, next : Nat]]
  /\ rollback \in [phase : {"down", "dropping"}, rev : 0 .. Latest, next : Nat]
  /\ kills \in 0 .. MaxKills /\ rollbacks \in 0 .. MaxRollbacks
  /\ disturbed \in BOOLEAN
  /\ \A c \in Container :
       job[c].phase \in {"ensuring", "upgrading"} => job[c].rev > 0 /\ job[c].next > 0
  /\ rollback.phase = "dropping" => rollback.rev > 0 /\ rollback.next > 0

Init ==
  /\ svc \in Service
  /\ schema = {} /\ version = 0
  /\ job = [c \in Container |-> Gone]
  /\ rollback = Gone
  /\ kills = 0 /\ rollbacks = 0
  /\ disturbed = FALSE

------------------------------------------------------------------------------
(* MySQL's answer to one statement.                                        *)
\* Mutant: CREATE TABLE IF NOT EXISTS.
CreateIfNotExists(objects, o) ==
  o.index # "" => \E t \in objects : t.table = o.table /\ t.index = ""

CanCreate(objects, o) ==
  /\ o \notin objects
  /\ o.index # "" => \E t \in objects : t.table = o.table /\ t.index = ""

Without(objects, o) ==
  IF o.index = "" THEN {x \in objects : x.table # o.table} ELSE objects \ {o}

\* The objects before the i-th statement of script r, on the way up and down.
Built(s, r, i) == UpTo(s, r - 1) \union {Scripts[s][r].up[j] : j \in 1 .. i - 1}
Left(s, r, i) ==
  {x \in UpTo(s, r) : \A j \in 1 .. i - 1 : x \in Without({x}, Scripts[s][r].down[j])}

\* The statements of a script succeed on what its predecessors have made, none
\* is about Alembic's table, and each downgrade undoes its upgrade.
ASSUME ScriptsAssumption ==
  \A s \in Service : \A r \in DOMAIN Scripts[s] :
    LET up == Scripts[s][r].up
        down == Scripts[s][r].down
    IN  /\ \A i \in DOMAIN up : up[i] # VersionTable /\ CanCreate(Built(s, r, i), up[i])
        /\ \A i \in DOMAIN down : down[i] \in Left(s, r, i)
        /\ Left(s, r, Len(down) + 1) = UpTo(s, r - 1)

Upgrading(c) == job[c].phase \in {"ensuring", "upgrading"}
Inside(c) == job[c].phase = "upgrading" /\ job[c].next > 1  \* within a script
Dropping == rollback.phase = "dropping"

Goes(c, to) == job' = [job EXCEPT ![c] = to]
Quiet == UNCHANGED <<svc, rollback, kills, rollbacks, disturbed>>
Database == <<schema, version>>

------------------------------------------------------------------------------
(* The entrypoint of a container.                                          *)
Start(c) ==
  /\ job[c].phase = "down"
  /\ Goes(c, At("waiting", 0, 0))
  /\ Quiet /\ UNCHANGED Database

ProxyReady(c) ==
  /\ job[c].phase = "waiting"
  /\ Goes(c, At("reading", 0, 0))
  /\ Quiet /\ UNCHANGED Database

ProxyTimedOut(c) ==
  /\ job[c].phase = "waiting"
  /\ Goes(c, Gone)
  /\ Quiet /\ UNCHANGED Database

\* Mutant: the script of the version found is applied again.
ReadVersionInclusive(c) ==
  /\ job[c].phase = "reading"
  /\ Goes(c, IF version = Latest THEN At("serving", 0, 0)
             ELSE IF version = 0 /\ VersionTable \notin schema THEN At("ensuring", 1, 1)
             ELSE At("upgrading", IF version = 0 THEN 1 ELSE version, 1))
  /\ disturbed' = (disturbed \/ (version # Latest /\ Dropping))
  /\ UNCHANGED <<svc, schema, version, rollback, kills, rollbacks>>

\* Alembic reads the row and plans the revisions after it, creating its own
\* table first if it saw none.
ReadVersion(c) ==
  /\ job[c].phase = "reading"
  /\ Goes(c, IF version = Latest THEN At("serving", 0, 0)
             ELSE IF version = 0 /\ VersionTable \notin schema THEN At("ensuring", 1, 1)
             ELSE At("upgrading", version + 1, 1))
  /\ disturbed' = (disturbed \/ (version # Latest /\ Dropping))
  /\ UNCHANGED <<svc, schema, version, rollback, kills, rollbacks>>

EnsureVersionTable(c) ==
  /\ job[c].phase = "ensuring"
  /\ IF CanCreate(schema, VersionTable)
     THEN /\ schema' = schema \union {VersionTable}
          /\ Goes(c, At("upgrading", job[c].rev, 1))
     ELSE /\ Goes(c, Gone)
          /\ UNCHANGED schema
  /\ Quiet /\ UNCHANGED version

Statement(c) == Chain[job[c].rev].up[job[c].next]

\* Mutant: the entrypoint goes on to the server when Alembic fails.
RunStatementWithoutSetE(c) ==
  /\ job[c].phase = "upgrading"
  /\ job[c].next <= Len(Chain[job[c].rev].up)
  /\ IF CanCreate(schema, Statement(c))
     THEN /\ schema' = schema \union {Statement(c)}
          /\ Goes(c, At("upgrading", job[c].rev, job[c].next + 1))
     ELSE /\ Goes(c, At("serving", 0, 0))
          /\ UNCHANGED schema
  /\ Quiet /\ UNCHANGED version

\* The next CREATE of the script; an error ends the container.
RunStatement(c) ==
  /\ job[c].phase = "upgrading"
  /\ job[c].next <= Len(Chain[job[c].rev].up)
  /\ IF CanCreate(schema, Statement(c))
     THEN /\ schema' = schema \union {Statement(c)}
          /\ Goes(c, At("upgrading", job[c].rev, job[c].next + 1))
     ELSE /\ Goes(c, Gone)
          /\ UNCHANGED schema
  /\ Quiet /\ UNCHANGED version

\* Mutant: the version moves before the last statement of its script.
StampedBeforeLast(c) ==
  /\ job[c].phase = "upgrading"
  /\ job[c].next >= Len(Chain[job[c].rev].up)
  /\ version = job[c].rev - 1
  /\ version' = job[c].rev
  /\ Goes(c, IF job[c].rev = Latest THEN At("serving", 0, 0)
             ELSE At("upgrading", job[c].rev + 1, 1))
  /\ Quiet /\ UNCHANGED schema

\* Mutant: the process does not stop after the last script.
StampedWithoutEnd(c) ==
  /\ job[c].phase = "upgrading"
  /\ job[c].next > Len(Chain[job[c].rev].up)
  /\ version = job[c].rev - 1
  /\ version' = job[c].rev
  /\ Goes(c, At("upgrading", job[c].rev + 1, 1))
  /\ Quiet /\ UNCHANGED schema

\* The row moves to the revision just applied; then the next one, or uvicorn.
StampVersion(c) ==
  /\ job[c].phase = "upgrading"
  /\ job[c].next > Len(Chain[job[c].rev].up)
  /\ IF version = job[c].rev - 1
     THEN /\ version' = job[c].rev
          /\ Goes(c, IF job[c].rev = Latest THEN At("serving", 0, 0)
                     ELSE At("upgrading", job[c].rev + 1, 1))
     ELSE /\ Goes(c, Gone)
          /\ UNCHANGED version
  /\ Quiet /\ UNCHANGED schema

\* Cloud Run takes a serving container away.
Stop(c) ==
  /\ job[c].phase = "serving"
  /\ Goes(c, Gone)
  /\ Quiet /\ UNCHANGED Database

\* The start-up probe, or anything else, ends a container before it serves.
Kill(c) ==
  /\ job[c].phase \in {"waiting", "reading", "ensuring", "upgrading"}
  /\ kills < MaxKills
  /\ kills' = kills + 1
  /\ Goes(c, Gone)
  /\ disturbed' = (disturbed \/ Inside(c))
  /\ UNCHANGED <<svc, schema, version, rollback, rollbacks>>

------------------------------------------------------------------------------
(* `alembic downgrade -1` by the operator, who does not take back the      *)
(* first revision, and all data with it, while a container is migrating.   *)
BeginRollback ==
  /\ ~Dropping /\ version > 0
  /\ rollbacks < MaxRollbacks
  /\ version = 1 => \A c \in Container : ~Upgrading(c)
  /\ rollbacks' = rollbacks + 1
  /\ rollback' = At("dropping", version, 1)
  /\ disturbed' = (disturbed \/ \E c \in Container : Upgrading(c))
  /\ UNCHANGED <<svc, schema, version, job, kills>>

Doomed == Chain[rollback.rev].down[rollback.next]

RunDrop ==
  /\ Dropping /\ rollback.next <= Len(Chain[rollback.rev].down)
  /\ IF Doomed \in schema
     THEN /\ schema' = Without(schema, Doomed)
          /\ rollback' = At("dropping", rollback.rev, rollback.next + 1)
     ELSE /\ rollback' = Gone
          /\ UNCHANGED schema
  /\ UNCHANGED <<svc, version, job, kills, rollbacks, disturbed>>

\* Mutant: a downgrade leaves the version row alone.
DroppedButStamped ==
  /\ Dropping /\ rollback.next > Len(Chain[rollback.rev].down)
  /\ rollback' = Gone
  /\ UNCHANGED <<svc, schema, version, job, kills, rollbacks, disturbed>>

UnstampVersion ==
  /\ Dropping /\ rollback.next > Len(Chain[rollback.rev].down)
  /\ version' = IF version = rollback.rev THEN rollback.rev - 1 ELSE version
  /\ rollback' = Gone
  /\ UNCHANGED <<svc, schema, job, kills, rollbacks, disturbed>>

Interrupt ==
  /\ Dropping /\ kills < MaxKills
  /\ kills' = kills + 1
  /\ rollback' = Gone
  /\ disturbed' = (disturbed \/ rollback.next > 1)
  /\ UNCHANGED <<svc, schema, version, job, rollbacks>>

------------------------------------------------------------------------------
Migrate(c) ==
  Start(c) \/ ReadVersion(c) \/ EnsureVersionTable(c) \/ RunStatement(c) \/ StampVersion(c)

Rollback == RunDrop \/ UnstampVersion

Next ==
  \/ \E c \in Container :
       Migrate(c) \/ ProxyReady(c) \/ ProxyTimedOut(c) \/ Stop(c) \/ Kill(c)
  \/ BeginRollback \/ Rollback \/ Interrupt

\* Cloud Run starts containers as long as there are requests; a process that
\* runs goes on; the proxy answers sometimes.
Fairness ==
  /\ \A c \in Container : WF_vars(Migrate(c)) /\ SF_vars(ProxyReady(c))
  /\ WF_vars(Rollback)

Spec == Init /\ [][Next]_vars
FairSpec == Spec /\ Fairness

------------------------------------------------------------------------------
(* Properties.                                                             *)

\* The row of alembic_version never promises an object that is not there,
\* however containers race and wherever they are killed, until an operator
\* starts to drop objects (the row moves after the last DROP).
VersionMeansSchema == rollbacks = 0 => Applied(version) \subseteq schema

\* A container that serves has every table and index its code was written
\* for, until an operator takes them away (entrypoint.sh runs uvicorn last).
ServersHaveTheirSchema ==
  rollbacks = 0 =>
    \A c \in Container : job[c].phase = "serving" => Applied(Latest) \subseteq schema

\* Nothing locks a database that is being migrated, yet no two containers are
\* ever within scripts at once: the first CREATE of a script, which only one of
\* them can win, is the lock.
OneInsideAScript ==
  rollbacks = 0 => \A c, d \in Container : Inside(c) /\ Inside(d) => c = d

\* What makes the three inductive: until a downgrade, nobody works from a row
\* newer than the database's, and whoever is within a script started from the
\* row as it still is and has created every object up to its next one.
RunnersMatchTheRow ==
  rollbacks = 0 =>
    /\ ~Dropping
    /\ \A c \in Container :
         /\ Upgrading(c) => job[c].rev <= version + 1
         /\ job[c].phase = "serving" => version = Latest
         /\ Inside(c) =>
              /\ version = job[c].rev - 1
              /\ \A i \in 1 .. job[c].next - 1 :
                   i \in DOMAIN Chain[job[c].rev].up /\ Chain[job[c].rev].up[i] \in schema

IInv == TypeOK /\ VersionMeansSchema /\ OneInsideAScript /\ RunnersMatchTheRow

\* While nothing is cut short, whoever is within a script has made exactly the
\* objects before its next statement, and a downgrade is alone with the database.
Plain == schema \ {VersionTable}

UpgradesAreExact ==
  ~disturbed /\ ~Dropping =>
    /\ \A c \in Container : Upgrading(c) => job[c].rev <= version + 1
    /\ \A c, d \in Container : Inside(c) /\ Inside(d) => c = d
    /\ \A c \in Container : Inside(c) =>
         /\ version = job[c].rev - 1 /\ job[c].next <= Len(Chain[job[c].rev].up) + 1
         /\ Plain = Built(svc, job[c].rev, job[c].next)
    /\ (\A c \in Container : ~Inside(c)) => Plain = Applied(version)

DowngradesAreExact ==
  ~disturbed /\ Dropping =>
    /\ \A c \in Container : ~Upgrading(c)
    /\ version = rollback.rev /\ rollback.next <= Len(Chain[rollback.rev].down) + 1
    /\ Plain = Left(svc, rollback.rev, rollback.next)

EIInv == IInv /\ UpgradesAreExact /\ DowngradesAreExact

\* Unless a script was cut short or a downgrade met an upgrade, a database that
\* nobody is changing is exactly what its version row says: losers of a race
\* leave nothing behind, and neither does a downgrade.
UndisturbedSchemaIsItsVersion ==
  (/\ ~disturbed /\ ~Dropping
   /\ \A c \in Container : ~Inside(c)) =>
    schema \ {VersionTable} = Applied(version)

\* Containers that lose the race to migrate fail and start again: as long as
\* nothing else disturbs them, all get to serve, again and again.
UndisturbedContainersServe ==
  [](~disturbed) => \A c \in Container : []<>(job[c].phase = "serving")

\* entrypoint.sh:4, "Runs Alembic migrations, then starts the uvicorn server."
EntrypointStartsServer ==
  \A c \in Container : []<>(job[c].phase = "serving")
==============================================================================
