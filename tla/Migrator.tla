------------------------------ MODULE Migrator ------------------------------
(***************************************************************************)
(* The migrations of the database: runs of images old and new, one after    *)
(* the other or at the same time, any of which may be killed.               *)
(*                                                                         *)
(* The SQL of a migration and the line that records it commit together; the *)
(* transactions of two runs wait for each other's locks.                    *)
(***************************************************************************)
EXTENDS Naturals, Sequences, FiniteSets, SequencesExt

CONSTANTS
  Runners,    \* who runs migrations: a deployment, a developer
  Newest,     \* the number of the newest migration there is
  MaxRuns     \* bound: runs

MigratorAssumption == Newest \in Nat /\ MaxRuns \in Nat

VARIABLES
  schema,     \* the migrations whose SQL was committed, in that order
  recorded,   \* _schema_migrations
  run,        \* what each runner does
  runs

migratorVars == <<schema, recorded, run, runs>>

Migrations == 0 .. Newest

\* Migration 0 makes the table of the packages.
PackagesExist == Contains(schema, 0)

\* files: the newest migration of the image; applied: what the run takes for
\* applied; left: what it has not looked at yet.
Runs == [step : {"resting", "begun", "read", "applying", "succeeded", "failed"}, files : Migrations,
         applied : SUBSET Migrations, left : Seq(Migrations)]
Resting == [step |-> "resting", files |-> 0, applied |-> {}, left |-> <<>>]

Step(r, change) == run' = [run EXCEPT ![r] = change]

-----------------------------------------------------------------------------

\* Sorted by their names, which begin with the number.
DiscoverMigrations(files) == [i \in 1 .. files + 1 |-> i - 1]

Begin(r, files) ==
  /\ run[r].step \in {"resting", "succeeded", "failed"} /\ runs < MaxRuns /\ runs' = runs + 1
  /\ Step(r, [step |-> "begun", files |-> files, applied |-> {}, left |-> DiscoverMigrations(files)])
  /\ UNCHANGED <<schema, recorded>>

ReadApplied(r) ==
  /\ run[r].step = "begun"
  /\ Step(r, [run[r] EXCEPT !.step = "read", !.applied = recorded])
  /\ UNCHANGED <<schema, recorded, runs>>

\* A database from before there were records.
Untracked(r) == run[r].applied = {} /\ PackagesExist

\* ON CONFLICT DO NOTHING.
RecordBaseline(r) ==
  /\ run[r].step = "read"
  /\ IF Untracked(r)
     THEN /\ recorded' = recorded \cup {0}
          /\ Step(r, [run[r] EXCEPT !.step = "applying", !.applied = {0}])
     ELSE Step(r, [run[r] EXCEPT !.step = "applying"]) /\ UNCHANGED recorded
  /\ UNCHANGED <<schema, runs>>

Skip(r) ==
  /\ run[r].step = "applying" /\ run[r].left # <<>> /\ Head(run[r].left) \in run[r].applied
  /\ Step(r, [run[r] EXCEPT !.left = Tail(@)])
  /\ UNCHANGED <<schema, recorded, runs>>

\* The record is a primary key; migration 0 fails where its tables are there.
Applies(migration) == migration \notin recorded /\ (migration = 0 => ~PackagesExist)

Apply(r) ==
  /\ run[r].step = "applying" /\ run[r].left # <<>> /\ Head(run[r].left) \notin run[r].applied
  /\ LET migration == Head(run[r].left) IN
     IF Applies(migration)
     THEN /\ schema' = Append(schema, migration) /\ recorded' = recorded \cup {migration}
          /\ Step(r, [run[r] EXCEPT !.left = Tail(@)])
     ELSE Step(r, [run[r] EXCEPT !.step = "failed"]) /\ UNCHANGED <<schema, recorded>>
  /\ UNCHANGED runs

Succeed(r) ==
  /\ run[r].step = "applying" /\ run[r].left = <<>>
  /\ Step(r, [run[r] EXCEPT !.step = "succeeded"])
  /\ UNCHANGED <<schema, recorded, runs>>

\* The process is killed, or the connection is lost.
Die(r) ==
  /\ run[r].step \in {"begun", "read", "applying"}
  /\ Step(r, [run[r] EXCEPT !.step = "failed"])
  /\ UNCHANGED <<schema, recorded, runs>>

Goes(r) == ReadApplied(r) \/ RecordBaseline(r) \/ Skip(r) \/ Apply(r) \/ Succeed(r)

\* An empty database, or one made before there were records.
Init ==
  /\ schema \in {<<>>, <<0>>} /\ recorded = {}
  /\ run = [r \in Runners |-> Resting] /\ runs = 0

Next == \E r \in Runners : (\E files \in Migrations : Begin(r, files)) \/ Goes(r) \/ Die(r)

Fairness == \A r \in Runners : WF_migratorVars(Goes(r))

Spec == Init /\ [][Next]_migratorVars /\ Fairness

-----------------------------------------------------------------------------
(* Properties. *)

TypeOK ==
  /\ schema \in Seq(Migrations) /\ recorded \subseteq Migrations
  /\ run \in [Runners -> Runs] /\ runs \in 0 .. MaxRuns

(* The SQL of every migration is committed once, and after that of all     *)
(* before it, by whichever runs, whatever became of them.                   *)
AppliedInOrder == schema = [i \in 1 .. Len(schema) |-> i - 1]

(* What is recorded is in the schema, and the schema holds nothing that is *)
(* not recorded, but for the tables of a database from before the records.  *)
RecordsTellSchema ==
  /\ recorded \subseteq ToSet(schema)
  /\ ToSet(schema) \ recorded \subseteq {0}

(* A run that succeeded left all migrations of its image in the schema:    *)
(* the application that is started after it finds its tables.               *)
SucceededIsMigrated ==
  \A r \in Runners : run[r].step = "succeeded" => 0 .. run[r].files \subseteq ToSet(schema)

=============================================================================
