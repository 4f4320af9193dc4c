------------------------------ MODULE Migrations ------------------------------
(***************************************************************************)
(* Runs of Alembic on one database: those of the run_db_migrations event   *)
(* (routes/db_migrations.py), which report the revision before and after,  *)
(* and those of an operator who upgrades or downgrades by hand.  A run is  *)
(* one transaction (migrations/env.py); PostgreSQL locks what a statement  *)
(* touches until that transaction ends.                                    *)
(***************************************************************************)
EXTENDS Schema, FiniteSets

CONSTANT Runs  \* the runs, each by an event or by hand

VARIABLES
    schema,    \* the objects, as committed
    versions,  \* the rows of alembic_version, as committed
    run        \* what each run has done

vars == <<schema, versions, run>>

\* from and rev: the revision the transaction found and the one it is at; step:
\* the next statement of its script; added, dropped: what it has not committed;
\* met: has another run been active meanwhile?
NewRun ==
    [stage |-> "idle", byHand |-> FALSE, before |-> 0, after |-> 0,
     to |-> Newest, from |-> 0, rev |-> 0, step |-> 1,
     added |-> {}, dropped |-> {}, locks |-> {}, met |-> FALSE]

Init ==
    /\ \E v \in 0..Newest :
          /\ versions = {v} \ {0}
          /\ schema = SchemaAt[v] \cup (IF v = 0 THEN {} ELSE {"alembic_version"})
    /\ run = [r \in Runs |-> NewRun]

-----------------------------------------------------------------------------

Over(r)    == run[r].stage \in {"answered", "failed", "cut off"}
Active(r)  == run[r].stage # "idle" /\ ~Over(r)
Running(r) == run[r].stage = "running"

\* The schema as the run's transaction sees it.
View(r) == (schema \ run[r].dropped) \cup run[r].added

\* What takes the run from the revision it is at to the next.
Upward(r) == run[r].rev < run[r].to
Script(r) == IF Upward(r) THEN UpgradeFrom[run[r].rev] ELSE DowngradeFrom[run[r].rev]

AtRevision(r)  == Running(r) /\ run[r].rev # run[r].to
AtStatement(r) == AtRevision(r) /\ run[r].step <= Len(Script(r))
AtVersion(r)   == AtRevision(r) /\ run[r].step > Len(Script(r))
Statement(r)   == Script(r)[run[r].step]

Possible(r) == IF Upward(r) THEN CanAdd(View(r), Statement(r))
                            ELSE CanDrop(View(r), Statement(r))

\* What a statement locks: the object, its table, and the tables on the other
\* side of foreign keys.  The version row is locked by the first change to it.
Locks(r) ==
    CASE AtVersion(r) -> {"version row"}
      [] AtStatement(r) /\ Upward(r) ->
            LET n == Statement(r)
            IN IF n \in View(r) THEN {} ELSE {n} \cup Of[n] \cup Targets[n]
      [] OTHER ->
            LET n == Statement(r)
            IN Of[n] \cup Targets[n] \cup (Parts[n] \cap View(r))

Waits(r, q) ==
    /\ AtRevision(r) /\ Running(q)
    /\ q # r
    /\ Locks(r) \cap run[q].locks # {}
Blocked(r) == \E q \in Runs : Waits(r, q)

\* A run begins, or reads while others are active: each has met the other.
Meets(r, update) ==
    run' = [q \in Runs |->
               IF q = r THEN [update EXCEPT !.met = @ \/ \E x \in Runs \ {r} : Active(x)]
               ELSE IF Active(q) THEN [run[q] EXCEPT !.met = TRUE] ELSE run[q]]

-----------------------------------------------------------------------------
(* run_db_migrations                                                       *)

\* _current_revision: no table and no row are both reported as none.
ReadRevision(v) == v \in IF versions = {} THEN {0} ELSE versions

ReadBefore(r) ==
    /\ run[r].stage = "idle"
    /\ \E v \in 0..Newest : /\ ReadRevision(v)
                          /\ Meets(r, [run[r] EXCEPT !.stage = "connecting", !.before = v])
    /\ UNCHANGED <<schema, versions>>

\* The transaction begins by reading the rows of alembic_version.
Begins(r, to, byHand) ==
    /\ \E v \in 0..Newest :
          /\ ReadRevision(v)
          /\ Meets(r, [run[r] EXCEPT !.stage = "running", !.byHand = byHand, !.to = to,
                                     !.from = v, !.rev = v])
    /\ UNCHANGED <<schema, versions>>

Upgrade(r) == run[r].stage = "connecting" /\ Begins(r, Newest, FALSE)
ByHand(r)  == run[r].stage = "idle" /\ \E to \in 0..Newest : Begins(r, to, TRUE)

\* One statement of upgrade() or downgrade().
Execute(r) ==
    /\ AtStatement(r)
    /\ ~Blocked(r)
    /\ Possible(r)
    /\ run' = [run EXCEPT ![r].step = @ + 1,
                          ![r].locks = @ \cup Locks(r),
                          ![r].added = IF Upward(r) THEN @ \cup {Statement(r)} ELSE @,
                          ![r].dropped = IF Upward(r) THEN @
                                         ELSE @ \cup Parts[Statement(r)]]
    /\ UNCHANGED <<schema, versions>>

\* The first change to the row finds the revision read at the beginning, or, when
\* there was none, no row of the revision it adds.
VersionStands(r) ==
    run[r].rev = run[r].from =>
        IF run[r].from = 0 THEN 1 \notin versions ELSE run[r].from \in versions

\* Fault: the next script is taken up where the last one ended.
MarkVersionOnly(r) ==
    /\ AtVersion(r)
    /\ ~Blocked(r)
    /\ VersionStands(r)
    /\ run' = [run EXCEPT ![r].rev = IF Upward(r) THEN @ + 1 ELSE @ - 1,
                          ![r].locks = @ \cup {"version row"}]
    /\ UNCHANGED <<schema, versions>>

MarkVersion(r) ==
    /\ AtVersion(r)
    /\ ~Blocked(r)
    /\ VersionStands(r)
    /\ run' = [run EXCEPT ![r].rev = IF Upward(r) THEN @ + 1 ELSE @ - 1,
                          ![r].step = 1,
                          ![r].locks = @ \cup {"version row"}]
    /\ UNCHANGED <<schema, versions>>

RolledBack(r, stage) ==
    /\ run' = [run EXCEPT ![r] = [NewRun EXCEPT !.stage = stage,
                                                !.byHand = run[r].byHand,
                                                !.before = run[r].before,
                                                !.met = run[r].met]]
    /\ UNCHANGED <<schema, versions>>

\* A statement that is not possible, or a version row that has changed.
Fail(r) ==
    /\ \/ AtStatement(r) /\ ~Possible(r)
       \/ AtVersion(r) /\ ~Blocked(r) /\ ~VersionStands(r)
    /\ RolledBack(r, "failed")

\* PostgreSQL ends one of the transactions that wait for each other.
Deadlocked(r) ==
    /\ \E q \in Runs : Waits(r, q) /\ Waits(q, r)
    /\ RolledBack(r, "failed")

\* The Lambda's time is up, or the connection is lost.
CutOff(r) ==
    /\ Active(r)
    /\ RolledBack(r, "cut off")

\* Fault: the connection is closed without a commit.
CloseOnly(r) ==
    /\ Running(r)
    /\ run[r].rev = run[r].to
    /\ run' = [run EXCEPT ![r] = [NewRun EXCEPT !.stage = IF run[r].byHand THEN "answered"
                                                          ELSE "committed",
                                                !.byHand = run[r].byHand,
                                                !.before = run[r].before,
                                                !.met = run[r].met]]
    /\ UNCHANGED <<schema, versions>>

Commit(r) ==
    /\ Running(r)
    /\ run[r].rev = run[r].to
    /\ schema' = View(r)
    /\ versions' = IF run[r].rev = run[r].from THEN versions
                   ELSE (versions \ {run[r].from}) \cup ({run[r].rev} \ {0})
    /\ run' = [run EXCEPT ![r] = [NewRun EXCEPT !.stage = IF run[r].byHand THEN "answered"
                                                          ELSE "committed",
                                                !.byHand = run[r].byHand,
                                                !.before = run[r].before,
                                                !.met = run[r].met]]

\* Fault: the revision is read again until there is one.
ReadAfterUntilReported(r) ==
    /\ run[r].stage = "committed"
    /\ \E v \in 1..Newest :
          /\ ReadRevision(v)
          /\ run' = [run EXCEPT ![r].stage = "answered", ![r].after = v]
    /\ UNCHANGED <<schema, versions>>

\* The answer, or the RuntimeError when no revision is reported.
ReadAfter(r) ==
    /\ run[r].stage = "committed"
    /\ \E v \in 0..Newest :
          /\ ReadRevision(v)
          /\ run' = [run EXCEPT ![r].stage = IF v = 0 THEN "failed" ELSE "answered",
                                ![r].after = v]
    /\ UNCHANGED <<schema, versions>>

-----------------------------------------------------------------------------

\* The run goes on by itself; a lock it waits for is granted, or it is ended.
Step(r) == \/ Upgrade(r)
           \/ Execute(r) \/ MarkVersion(r) \/ Fail(r) \/ Deadlocked(r)
           \/ Commit(r) \/ ReadAfter(r)

Next == \E r \in Runs : ReadBefore(r) \/ ByHand(r) \/ Step(r) \/ CutOff(r)

Fairness == \A r \in Runs : WF_vars(Step(r))

Spec == Init /\ [][Next]_vars
FairSpec == Spec /\ Fairness

-----------------------------------------------------------------------------
(* Properties                                                              *)

\* The rows, the schema and the progress of each run are of their types.
TypeOK ==
    /\ versions \subseteq 1..Newest
    /\ schema \subseteq Names
    /\ \A r \in Runs :
          /\ run[r].stage \in {"idle", "connecting", "running", "committed",
                               "answered", "failed", "cut off"}
          /\ {run[r].before, run[r].after, run[r].to, run[r].from, run[r].rev}
                \subseteq 0..Newest
          /\ AtRevision(r) => run[r].step \in 1..(Len(Script(r)) + 1)
          /\ run[r].added \subseteq Names
          /\ ~Running(r) => run[r].locks = {}

\* Whatever runs overlap, upgrade, downgrade, wait for each other or are cut
\* off, alembic_version names one revision and the schema is that revision's:
\* none is half applied, applied twice, or left behind by a downgrade.
SchemaFollowsVersion ==
    /\ Cardinality(versions) <= 1
    /\ \A v \in 0..Newest :
          ReadRevision(v) => schema \ {"alembic_version", "pgcrypto"}
                                = SchemaAt[v] \ {"pgcrypto"}

\* From any revision to any other there is nothing in the way: a run fails only
\* if another was active while it was.
FailsOnlyByOverlap ==
    \A r \in Runs : run[r].stage = "failed" => run[r].met

\* When every run is over, all by events and none cut off, one has answered with
\* the head and the schema is there, though others may have failed.
SomebodyReachesHead ==
    (\A r \in Runs : Over(r) /\ run[r].stage # "cut off" /\ ~run[r].byHand)
        => /\ versions = {Newest}
           /\ \E r \in Runs : run[r].stage = "answered" /\ run[r].after = Newest

\* A run that has begun ends, though runs may wait for each other's locks.
RunsEnd == \A r \in Runs : Active(r) ~> Over(r)

=============================================================================
