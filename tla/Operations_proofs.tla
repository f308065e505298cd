--------------------------- MODULE Operations_proofs ---------------------------
(***************************************************************************)
(* Theorems about what runs behind the pages, for any number of workers,   *)
(* probes, runners and processes: migrations, the health monitor, the      *)
(* notices to other systems, the commands of the validation runners, one   *)
(* target that is tried out, and the transactions of governance statement   *)
(* by statement.                                                            *)
(***************************************************************************)
EXTENDS Naturals, Sequences, FiniteSets, SequenceTheorems, FiniteSetTheorems, TLAPS

-----------------------------------------------------------------------------
(* Migrations *)

CONSTANTS Runners, Newest, MaxRuns
VARIABLES schema, recorded, run, runs

Migrations == INSTANCE Migrator

\* The migrations from first to last.
FromTo(first, last) == [i \in 1 .. last - first + 1 |-> first + i - 1]

\* What the run q has not looked at begins with the migration of this number.
Reached(q) == q.files + 1 - Len(q.left)

\* A run is over all migrations before the one it looks at next, and takes for
\* applied what is recorded.
Knows(q) ==
  /\ q.step \in {"begun", "read", "applying", "succeeded"} =>
       Reached(q) \in Nat /\ q.left = FromTo(Reached(q), q.files)
  /\ q.step \in {"begun", "read"} => Reached(q) = 0
  /\ q.step = "succeeded" => q.left = <<>>
  /\ q.step \in {"read", "applying"} => q.applied \subseteq recorded
  /\ q.step \in {"applying", "succeeded"} => Reached(q) <= Len(schema)

MigratorInv ==
  /\ Migrations!TypeOK
  /\ schema = FromTo(0, Len(schema) - 1)
  /\ Len(schema) = 0 => recorded = {}
  /\ recorded \subseteq 0 .. Len(schema) - 1
  /\ \A m \in 0 .. Len(schema) - 1 : m \in recorded \/ m = 0
  /\ \A r \in Runners : Knows(run[r])

LEMMA SchemaSet ==
  ASSUME MigratorInv
  PROVE  /\ Migrations!ToSet(schema) = 0 .. Len(schema) - 1
         /\ Migrations!PackagesExist <=> Len(schema) > 0
<1>1. Len(schema) \in Nat /\ schema = [i \in 1 .. Len(schema) |-> i - 1]
  BY DEF MigratorInv, FromTo, Migrations!TypeOK
<1>2. ASSUME NEW m \in 0 .. Len(schema) - 1
      PROVE  m + 1 \in DOMAIN schema /\ schema[m + 1] = m
  BY <1>1
<1>3. ASSUME NEW i \in DOMAIN schema
      PROVE  schema[i] \in 0 .. Len(schema) - 1
  BY <1>1
<1>4. Migrations!ToSet(schema) = 0 .. Len(schema) - 1
  BY <1>2, <1>3 DEF Migrations!ToSet
<1>5. Migrations!PackagesExist <=> \E i \in 1 .. Len(schema) : i - 1 = 0
  BY <1>1 DEF Migrations!PackagesExist, Migrations!Contains
<1>6. Migrations!PackagesExist <=> Len(schema) > 0
  <2>1. Len(schema) > 0 => 1 \in 1 .. Len(schema) /\ 1 - 1 = 0
    BY <1>1
  <2> QED BY <1>1, <1>5, <2>1
<1> QED BY <1>4, <1>6

\* The head of what is left is the migration reached, and the tail begins with the next.
LEMMA LeftGoesOn ==
  ASSUME NEW first \in Nat, NEW last \in Nat, NEW left, left = FromTo(first, last), left # <<>>
  PROVE  /\ first <= last
         /\ Head(left) = first
         /\ Tail(left) = FromTo(first + 1, last) /\ Len(Tail(left)) = Len(left) - 1
<1>1. /\ DOMAIN left = 1 .. last - first + 1
      /\ \A i \in 1 .. last - first + 1 : left[i] = first + i - 1
      /\ left \in Seq(Int)
  <2>1. \A i \in 1 .. last - first + 1 : first + i - 1 \in Int
    OBVIOUS
  <2>2. CASE last - first + 1 \in Nat
    BY <2>1, <2>2 DEF FromTo
  <2>3. CASE last - first + 1 \notin Nat
    <3>1. 1 .. last - first + 1 = {}
      BY <2>3
    <3>2. left = <<>>
      BY <3>1 DEF FromTo
    <3> QED BY <3>2
  <2> QED BY <2>2, <2>3 DEF FromTo
<1>2. Len(left) = last - first + 1 /\ first <= last
  BY <1>1
<1>3. Head(left) = first
  BY <1>1, <1>2
<1>4. /\ Tail(left) \in Seq(Int) /\ Len(Tail(left)) = last - first
      /\ \A i \in 1 .. last - first : Tail(left)[i] = first + 1 + i - 1
  BY <1>1, <1>2, HeadTailProperties
<1>5. Tail(left) = FromTo(first + 1, last)
  BY <1>4 DEF FromTo
<1> QED BY <1>2, <1>3, <1>4, <1>5

\* One run goes on, and nothing is taken out of the schema or the records.
LEMMA RunGoes ==
  ASSUME MigratorInv, NEW r \in Runners, NEW x \in Migrations!Runs, Migrations!Step(r, x),
         recorded \subseteq recorded', Len(schema) \in Nat, Len(schema)' \in Nat,
         Len(schema) <= Len(schema)', Knows(x)'
  PROVE  /\ run' \in [Runners -> Migrations!Runs]
         /\ \A s \in Runners : Knows(run[s])'
<1>1. run' \in [Runners -> Migrations!Runs] /\ run'[r] = x
  BY DEF MigratorInv, Migrations!TypeOK, Migrations!Step
<1>2. ASSUME NEW s \in Runners \ {r}
      PROVE  Knows(run[s])'
  <2>1. run'[s] = run[s] /\ Knows(run[s]) /\ run[s] \in Migrations!Runs
    BY DEF MigratorInv, Migrations!TypeOK, Migrations!Step
  <2>2. Reached(run[s]) \in Int
    BY <2>1 DEF Migrations!Runs, Migrations!Migrations, Reached
  <2> QED BY <2>1, <2>2 DEF Knows, Reached
<1> QED BY <1>1, <1>2

\* A step that leaves the database alone.
LEMMA DatabaseRests ==
  ASSUME MigratorInv, NEW r \in Runners, NEW x \in Migrations!Runs, Migrations!Step(r, x),
         UNCHANGED <<schema, recorded>>, runs' \in 0 .. MaxRuns, Knows(x)
  PROVE  MigratorInv'
<1>1. Len(schema) \in Nat /\ Knows(x)'
  BY DEF MigratorInv, Migrations!TypeOK, Knows
<1>2. /\ run' \in [Runners -> Migrations!Runs] /\ \A s \in Runners : Knows(run[s])'
  BY <1>1, RunGoes
<1> QED BY <1>2 DEF MigratorInv, Migrations!TypeOK

LEMMA MigratorStep ==
  ASSUME Migrations!MigratorAssumption, MigratorInv, [Migrations!Next]_(Migrations!migratorVars)
  PROVE  MigratorInv'
<1> USE DEF Migrations!MigratorAssumption
<1>1. CASE UNCHANGED Migrations!migratorVars
  BY <1>1 DEF Migrations!migratorVars, MigratorInv, Migrations!TypeOK, Knows, Reached
<1> SUFFICES ASSUME NEW r \in Runners,
                    \/ \E files \in Migrations!Migrations : Migrations!Begin(r, files)
                    \/ Migrations!Goes(r) \/ Migrations!Die(r)
             PROVE  MigratorInv'
  BY <1>1 DEF Migrations!Next
<1> DEFINE q == run[r]
<1>2. /\ q \in Migrations!Runs /\ Knows(q) /\ Len(schema) \in Nat /\ runs \in 0 .. MaxRuns
      /\ q.files \in Nat /\ q.left \in Seq(Migrations!Migrations) /\ Len(q.left) \in Nat
      /\ q.files \in Migrations!Migrations /\ q.applied \subseteq Migrations!Migrations
      /\ recorded \subseteq Migrations!Migrations
  BY DEF MigratorInv, Migrations!TypeOK, Migrations!Runs, Migrations!Migrations
<1>3. ASSUME NEW files \in Migrations!Migrations, Migrations!Begin(r, files)
      PROVE  MigratorInv'
  <2> DEFINE left == Migrations!DiscoverMigrations(files)
             x == [step |-> "begun", files |-> files, applied |-> {}, left |-> left]
  <2>1. files \in Nat /\ left \in Seq(Migrations!Migrations) /\ Len(left) = files + 1
        /\ left = FromTo(0, files)
    BY DEF Migrations!DiscoverMigrations, Migrations!Migrations, FromTo
  <2> HIDE DEF left
  <2>2. x \in Migrations!Runs
    BY <2>1 DEF Migrations!Runs
  <2>3. Knows(x)
    BY <2>1 DEF Knows, Reached
  <2>4. Migrations!Step(r, x) /\ UNCHANGED <<schema, recorded>> /\ runs' \in 0 .. MaxRuns
    BY <1>2, <1>3 DEF Migrations!Begin, left
  <2> QED BY <2>2, <2>3, <2>4, DatabaseRests
<1>4. CASE Migrations!ReadApplied(r)
  <2> DEFINE x == [q EXCEPT !.step = "read", !.applied = recorded]
  <2>1. x \in Migrations!Runs /\ Knows(x)
    BY <1>2, <1>4 DEF Migrations!Runs, Knows, Reached, Migrations!ReadApplied
  <2>2. Migrations!Step(r, x) /\ UNCHANGED <<schema, recorded, runs>>
    BY <1>4 DEF Migrations!ReadApplied
  <2> QED BY <1>2, <2>1, <2>2, DatabaseRests
<1>5. CASE Migrations!RecordBaseline(r) /\ Migrations!Untracked(r)
  <2>1. 0 \in Migrations!Migrations /\ {0} \subseteq Migrations!Migrations
    BY DEF Migrations!Migrations
  <2>2. PICK x \in Migrations!Runs : x = [q EXCEPT !.step = "applying", !.applied = {0}]
    BY <1>2, <2>1 DEF Migrations!Runs
  <2>3. /\ x.step = "applying" /\ x.applied = {0} /\ x.files = q.files /\ x.left = q.left
        /\ q.step = "read"
    BY <1>2, <1>5, <2>2 DEF Migrations!Runs, Migrations!RecordBaseline
  <2>4. Migrations!Step(r, x) /\ recorded' = recorded \cup {0} /\ UNCHANGED <<schema, runs>>
    BY <1>5, <2>2 DEF Migrations!RecordBaseline
  <2>5. Len(schema) > 0
    BY <1>5, SchemaSet DEF Migrations!Untracked
  <2> HIDE DEF q
  <2>6. Knows(x)'
    BY <1>2, <2>3, <2>4 DEF Knows, Reached
  <2>7. run' \in [Runners -> Migrations!Runs] /\ \A s \in Runners : Knows(run[s])'
    BY <1>2, <2>4, <2>6, RunGoes
  <2> QED BY <1>2, <2>1, <2>4, <2>5, <2>7 DEF MigratorInv, Migrations!TypeOK
<1>6. CASE Migrations!RecordBaseline(r) /\ ~Migrations!Untracked(r)
  <2> DEFINE x == [q EXCEPT !.step = "applying"]
  <2>1. x \in Migrations!Runs /\ Knows(x)
    BY <1>2, <1>6 DEF Migrations!Runs, Knows, Reached, Migrations!RecordBaseline
  <2>2. Migrations!Step(r, x) /\ UNCHANGED <<schema, recorded, runs>>
    BY <1>6 DEF Migrations!RecordBaseline
  <2> QED BY <1>2, <2>1, <2>2, DatabaseRests
<1>7. CASE Migrations!Skip(r) \/ Migrations!Apply(r)
  <2>1. q.step = "applying" /\ q.left # <<>>
    BY <1>7 DEF Migrations!Skip, Migrations!Apply
  <2> DEFINE n == Reached(q)
  <2>2. n \in Nat /\ q.left = FromTo(n, q.files) /\ n <= Len(schema) /\ q.applied \subseteq recorded
    BY <1>2, <2>1 DEF Knows
  <2> HIDE DEF n
  <2>3. /\ n <= q.files /\ Head(q.left) = n
        /\ Tail(q.left) = FromTo(n + 1, q.files) /\ Len(Tail(q.left)) = Len(q.left) - 1
    <3> HIDE DEF q
    <3>1. q.files \in Nat /\ q.left # <<>>
      BY <1>2, <2>1
    <3>2. \A left : left = FromTo(n, q.files) /\ left # <<>> =>
            /\ n <= q.files /\ Head(left) = n
            /\ Tail(left) = FromTo(n + 1, q.files) /\ Len(Tail(left)) = Len(left) - 1
      BY ZenonT(30), <2>2, <3>1, LeftGoesOn
    <3> QED BY <2>2, <3>1, <3>2
  <2>4. n \in Migrations!Migrations
    BY <1>2, <2>2, <2>3 DEF Migrations!Migrations
  <2>5. Tail(q.left) \in Seq(Migrations!Migrations)
    BY <1>2, <2>1, HeadTailProperties
  <2>6. PICK x \in Migrations!Runs : x = [q EXCEPT !.left = Tail(@)]
    BY <1>2, <2>5 DEF Migrations!Runs
  <2>7. /\ x.step = "applying" /\ x.applied = q.applied /\ x.files = q.files
        /\ x.left = FromTo(n + 1, q.files) /\ Reached(x) = n + 1
    BY <1>2, <2>1, <2>3, <2>6 DEF Migrations!Runs, Reached, n
  <2>8. CASE Migrations!Skip(r)
    <3>1. n \in recorded
      BY <2>2, <2>3, <2>8 DEF Migrations!Skip
    <3>2. n + 1 <= Len(schema)
      BY <1>2, <2>2, <3>1 DEF MigratorInv
    <3>3. Knows(x)
      BY <2>2, <2>7, <3>2 DEF Knows
    <3>4. Migrations!Step(r, x) /\ UNCHANGED <<schema, recorded, runs>>
      BY <2>6, <2>8 DEF Migrations!Skip
    <3> QED BY <1>2, <3>3, <3>4, DatabaseRests
  <2>9. CASE Migrations!Apply(r) /\ Migrations!Applies(n)
    <3>1. /\ Migrations!Step(r, x) /\ schema' = Append(schema, n)
          /\ recorded' = recorded \cup {n} /\ UNCHANGED runs
      BY <2>3, <2>6, <2>9 DEF Migrations!Apply
    <3>2. n = Len(schema)
      <4>1. n \notin recorded /\ (n = 0 => ~(Len(schema) > 0))
        BY <2>9, SchemaSet DEF Migrations!Applies
      <4>2. n \notin 0 .. Len(schema) - 1
        BY <1>2, <2>2, <4>1 DEF MigratorInv
      <4> QED BY <1>2, <2>2, <4>2
    <3>3. /\ Len(schema') = Len(schema) + 1 /\ schema' \in Seq(Migrations!Migrations)
          /\ schema' = FromTo(0, Len(schema') - 1)
      <4>1. schema = [i \in 1 .. Len(schema) |-> i - 1] /\ schema \in Seq(Migrations!Migrations)
        BY <1>2 DEF MigratorInv, FromTo, Migrations!TypeOK
      <4>2. /\ schema' \in Seq(Migrations!Migrations) /\ Len(schema') = Len(schema) + 1
            /\ \A i \in 1 .. Len(schema) + 1 : schema'[i] = i - 1
        BY <1>2, <2>4, <3>1, <3>2, <4>1
      <4> QED BY <1>2, <4>2 DEF FromTo
    <3>4. Knows(x)'
      <4>1. x.applied \subseteq recorded' /\ n + 1 <= Len(schema')
        BY <1>2, <2>2, <2>7, <3>1, <3>2, <3>3
      <4> QED BY <2>2, <2>7, <4>1 DEF Knows
    <3>5. run' \in [Runners -> Migrations!Runs] /\ \A s \in Runners : Knows(run[s])'
      BY <1>2, <3>1, <3>3, <3>4, RunGoes
    <3>6. /\ recorded' \subseteq 0 .. Len(schema') - 1 /\ Len(schema') # 0
          /\ \A m \in 0 .. Len(schema') - 1 : m \in recorded' \/ m = 0
      <4>1. /\ recorded \subseteq 0 .. Len(schema) - 1
            /\ \A m \in 0 .. Len(schema) - 1 : m \in recorded \/ m = 0
        BY DEF MigratorInv
      <4> QED BY <1>2, <3>1, <3>2, <3>3, <4>1
    <3> QED BY <1>2, <2>4, <3>1, <3>3, <3>5, <3>6 DEF MigratorInv, Migrations!TypeOK
  <2>10. CASE Migrations!Apply(r) /\ ~Migrations!Applies(n)
    <3> DEFINE y == [q EXCEPT !.step = "failed"]
    <3>1. y \in Migrations!Runs /\ Knows(y)
      BY <1>2 DEF Migrations!Runs, Knows
    <3>2. Migrations!Step(r, y) /\ UNCHANGED <<schema, recorded, runs>>
      BY <2>3, <2>10 DEF Migrations!Apply
    <3> QED BY <1>2, <3>1, <3>2, DatabaseRests
  <2> QED BY <1>7, <2>8, <2>9, <2>10
<1>8. CASE Migrations!Succeed(r)
  <2> DEFINE x == [q EXCEPT !.step = "succeeded"]
  <2>1. x \in Migrations!Runs /\ Knows(x)
    BY <1>2, <1>8 DEF Migrations!Runs, Knows, Reached, Migrations!Succeed
  <2>2. Migrations!Step(r, x) /\ UNCHANGED <<schema, recorded, runs>>
    BY <1>8 DEF Migrations!Succeed
  <2> QED BY <1>2, <2>1, <2>2, DatabaseRests
<1>9. CASE Migrations!Die(r)
  <2> DEFINE x == [q EXCEPT !.step = "failed"]
  <2>1. x \in Migrations!Runs /\ Knows(x)
    BY <1>2 DEF Migrations!Runs, Knows
  <2>2. Migrations!Step(r, x) /\ UNCHANGED <<schema, recorded, runs>>
    BY <1>9 DEF Migrations!Die
  <2> QED BY <1>2, <2>1, <2>2, DatabaseRests
<1> QED BY <1>3, <1>4, <1>5, <1>6, <1>7, <1>8, <1>9
        DEF Migrations!Goes

LEMMA MigratorInvariant ==
  ASSUME Migrations!MigratorAssumption PROVE Migrations!Spec => []MigratorInv
<1>1. Migrations!Init => MigratorInv
  <2> SUFFICES ASSUME Migrations!Init PROVE MigratorInv
    OBVIOUS
  <2>1. /\ 0 \in Migrations!Migrations /\ runs \in 0 .. MaxRuns
        /\ Migrations!Resting \in Migrations!Runs
    BY DEF Migrations!Migrations, Migrations!Init, Migrations!Resting, Migrations!Runs,
           Migrations!MigratorAssumption
  <2>2. /\ schema \in Seq(Migrations!Migrations) /\ schema = FromTo(0, Len(schema) - 1)
        /\ Len(schema) \in {0, 1}
    <3>1. CASE schema = <<>>
      <4>1. Len(schema) = 0 /\ 1 .. 0 = {}
        BY <3>1
      <4> QED BY <3>1, <4>1 DEF FromTo
    <3>2. CASE schema = <<0>>
      BY <2>1, <3>2 DEF FromTo
    <3> QED BY <3>1, <3>2 DEF Migrations!Init
  <2>3. \A r \in Runners : Knows(run[r])
    BY DEF Migrations!Init, Knows, Migrations!Resting
  <2> QED BY SMTT(30), <2>1, <2>2, <2>3 DEF MigratorInv, Migrations!Init, Migrations!TypeOK
<1> QED BY <1>1, MigratorStep, PTL DEF Migrations!Spec

\* However many images run migrations at once, and wherever they are killed, the
\* SQL of every migration is committed once and after that of all before it
\* (migrator.ts).
THEOREM AppliedInOrderHolds ==
  ASSUME Migrations!MigratorAssumption
  PROVE  Migrations!Spec => [](Migrations!TypeOK /\ Migrations!AppliedInOrder)
<1>1. MigratorInv => Migrations!TypeOK /\ Migrations!AppliedInOrder
  BY DEF MigratorInv, Migrations!AppliedInOrder, FromTo, Migrations!TypeOK
<1> QED BY <1>1, MigratorInvariant, PTL

\* The records tell the schema, but for the tables from before there were records.
THEOREM RecordsTellSchemaHolds ==
  ASSUME Migrations!MigratorAssumption
  PROVE  Migrations!Spec => []Migrations!RecordsTellSchema
<1>1. MigratorInv => Migrations!RecordsTellSchema
  BY SchemaSet DEF MigratorInv, Migrations!RecordsTellSchema
<1> QED BY <1>1, MigratorInvariant, PTL

\* The application that is started after a run that succeeded finds its tables.
THEOREM SucceededIsMigratedHolds ==
  ASSUME Migrations!MigratorAssumption
  PROVE  Migrations!Spec => []Migrations!SucceededIsMigrated
<1>1. MigratorInv => Migrations!SucceededIsMigrated
  <2> SUFFICES ASSUME MigratorInv, NEW r \in Runners, run[r].step = "succeeded"
               PROVE  0 .. run[r].files \subseteq Migrations!ToSet(schema)
    BY DEF Migrations!SucceededIsMigrated
  <2>1. /\ Knows(run[r]) /\ run[r] \in Migrations!Runs /\ Len(schema) \in Nat
    BY DEF MigratorInv, Migrations!TypeOK
  <2>2. Len(run[r].left) = 0 /\ run[r].files \in Nat /\ Reached(run[r]) <= Len(schema)
    BY <2>1 DEF Knows, Migrations!Runs, Migrations!Migrations
  <2>3. run[r].files + 1 <= Len(schema)
    BY <2>2 DEF Reached
  <2> QED BY <2>1, <2>2, <2>3, SchemaSet
<1> QED BY <1>1, MigratorInvariant, PTL

-----------------------------------------------------------------------------
(* The health monitor *)

CONSTANTS Probe, Target, Threshold, MaxAlerts, MaxTurns
VARIABLES up, turns, probe, failed, failures, state, alerts, waiting, streak

Health == INSTANCE HealthMonitor

\* The count of failures is that of the last answers.
LastFailed(n, results) ==
  /\ n <= Len(results)
  /\ \A i \in Len(results) + 1 - n .. Len(results) : results[i] = "failed"

HealthInv ==
  /\ Health!TypeOK /\ Health!AlertsAlternate
  /\ failures <= Threshold /\ LastFailed(failures, streak)

\* The ghost takes one more answer and forgets at most the oldest.
LEMMA Remembers ==
  ASSUME Health!HealthMonitorAssumption, HealthInv, NEW result \in {"ok", "failed"},
         Health!Remember(result)
  PROVE  /\ streak' \in Seq({"ok", "failed"}) /\ Len(streak') \in 1 .. Threshold
         /\ streak'[Len(streak')] = result
         /\ result = "failed" => LastFailed(Health!Counted, streak')
         /\ LastFailed(0, streak')
<1> USE DEF Health!HealthMonitorAssumption
<1> DEFINE n == Len(streak)
           m == Len(streak')
<1>1. /\ streak \in Seq({"ok", "failed"}) /\ n \in Nat /\ n <= Threshold
      /\ failures \in Nat /\ failures <= Threshold /\ LastFailed(failures, streak)
  BY DEF HealthInv, Health!TypeOK
<1>2. CASE n < Threshold
  <2>1. /\ streak' \in Seq({"ok", "failed"}) /\ m = n + 1
        /\ streak'[n + 1] = result /\ \A i \in 1 .. n : streak'[i] = streak[i]
    BY <1>1, <1>2 DEF Health!Remember
  <2>2. ASSUME result = "failed", NEW i \in n + 2 - (failures + 1) .. n + 1
        PROVE  streak'[i] = "failed"
    <3>1. CASE i = n + 1
      BY <2>1, <2>2, <3>1
    <3>2. CASE i # n + 1
      BY <1>1, <2>1, <2>2, <3>2 DEF LastFailed
    <3> QED BY <3>1, <3>2
  <2>3. result = "failed" => LastFailed(Health!Counted, streak')
    <3>1. Health!Counted \in Nat /\ Health!Counted <= failures + 1 /\ failures <= n
      BY <1>1 DEF Health!Counted, LastFailed
    <3> HIDE DEF n
    <3> QED BY <1>1, <2>1, <2>2, <3>1 DEF LastFailed
  <2> QED BY <1>1, <1>2, <2>1, <2>3 DEF LastFailed
<1>3. CASE n = Threshold
  <2>1. /\ streak # <<>> /\ Tail(streak) \in Seq({"ok", "failed"}) /\ Len(Tail(streak)) = n - 1
        /\ \A i \in 1 .. n - 1 : Tail(streak)[i] = streak[i + 1]
    BY <1>1, <1>3, HeadTailProperties
  <2>2. /\ streak' \in Seq({"ok", "failed"}) /\ m = n
        /\ streak'[n] = result /\ \A i \in 1 .. n - 1 : streak'[i] = streak[i + 1]
    BY <1>1, <1>3, <2>1 DEF Health!Remember
  <2>3. Health!Counted \in Nat /\ Health!Counted <= failures + 1 /\ Health!Counted <= n
    BY <1>1, <1>3 DEF Health!Counted
  <2>4. ASSUME result = "failed", NEW i \in n + 1 - Health!Counted .. n
        PROVE  streak'[i] = "failed"
    <3>1. CASE i = n
      BY <2>2, <2>4, <3>1
    <3>2. CASE i # n
      <4>1. i \in 1 .. n - 1 /\ i + 1 \in n + 1 - failures .. n
        BY <1>1, <2>3, <3>2
      <4> QED BY <1>1, <2>2, <4>1 DEF LastFailed
    <3> QED BY <3>1, <3>2
  <2>5. result = "failed" => LastFailed(Health!Counted, streak')
    <3> HIDE DEF n
    <3> QED BY <1>1, <2>2, <2>3, <2>4 DEF LastFailed
  <2> QED BY <1>1, <1>3, <2>2, <2>5 DEF LastFailed
<1> QED BY <1>1, <1>2, <1>3

\* An alert that is begun is of the other kind than the last.
LEMMA OneMoreAlert ==
  ASSUME HealthInv, NEW severity, severity = IF state = "healthy" THEN "critical" ELSE "info",
         alerts' = Append(alerts, severity),
         state' = IF state = "healthy" THEN "unhealthy" ELSE "healthy"
  PROVE  alerts' \in Seq({"critical", "info"}) /\ Health!AlertsAlternate'
<1> DEFINE n == Len(alerts)
<1>1. /\ alerts \in Seq({"critical", "info"}) /\ n \in Nat /\ state \in {"healthy", "unhealthy"}
      /\ \A i \in 1 .. n : alerts[i] = IF i % 2 = 1 THEN "critical" ELSE "info"
      /\ state = "unhealthy" <=> n % 2 = 1
  BY DEF HealthInv, Health!TypeOK, Health!AlertsAlternate
<1>2. /\ alerts' \in Seq({"critical", "info"}) /\ Len(alerts') = n + 1
      /\ alerts'[n + 1] = severity /\ \A i \in 1 .. n : alerts'[i] = alerts[i]
  BY <1>1
<1>3. (n + 1) % 2 = 1 <=> n % 2 # 1
  BY <1>1
<1>4. \A i \in 1 .. n + 1 : alerts'[i] = IF i % 2 = 1 THEN "critical" ELSE "info"
  BY <1>1, <1>2, <1>3
<1>5. state' = "unhealthy" <=> (n + 1) % 2 = 1
  BY <1>1, <1>3
<1> HIDE DEF n
<1> QED BY <1>1, <1>2, <1>4, <1>5 DEF Health!AlertsAlternate

LEMMA HealthStep ==
  ASSUME Health!HealthMonitorAssumption, HealthInv, [Health!Next]_(Health!vars)
  PROVE  HealthInv' /\ Health!HasCause
<1>1. /\ Health!TypeOK /\ Health!AlertsAlternate /\ failures <= Threshold
      /\ LastFailed(failures, streak)
  BY DEF HealthInv
<1>2. CASE UNCHANGED <<state, alerts, failures, streak>> /\ Health!TypeOK'
  BY <1>1, <1>2 DEF HealthInv, Health!AlertsAlternate, LastFailed, Health!HasCause, Health!TypeOK
<1>3. CASE UNCHANGED Health!vars
  BY <1>1, <1>2, <1>3 DEF Health!vars, Health!TypeOK
<1>4. CASE Health!DatabaseTurns
  <2>1. up' \in BOOLEAN
    BY <1>4 DEF Health!DatabaseTurns
  <2>2. turns' \in 0 .. MaxTurns /\ UNCHANGED <<probe, failed, failures, state, streak, alerts, waiting>>
    BY <1>1, <1>4 DEF Health!DatabaseTurns, Health!TypeOK, Health!alertVars,
                      Health!HealthMonitorAssumption
  <2> QED BY <1>1, <1>2, <2>1, <2>2 DEF Health!TypeOK
<1>5. ASSUME NEW p \in Probe, Health!StartProbe(p) \/ Health!Ping(p)
             \/ \E t \in Target : Health!DeliverAlert(p, t)
      PROVE  HealthInv' /\ Health!HasCause
  <2>1. /\ probe' \in [Probe -> {"idle", "checking", "checked", "sending"}]
        /\ failed' \in [Probe -> BOOLEAN] /\ waiting' \in [Probe -> SUBSET Target]
        /\ UNCHANGED <<up, turns, failures, state, streak, alerts>>
    BY <1>1, <1>5 DEF Health!TypeOK, Health!StartProbe, Health!Ping, Health!DeliverAlert,
                      Health!alertVars
  <2> QED BY <1>1, <1>2, <2>1 DEF Health!TypeOK
<1>6. ASSUME NEW p \in Probe, Health!Take(p)
      PROVE  HealthInv' /\ Health!HasCause
  <2> DEFINE result == IF failed[p] THEN "failed" ELSE "ok"
  <2>1. /\ streak' \in Seq({"ok", "failed"}) /\ Len(streak') \in 1 .. Threshold
        /\ streak'[Len(streak')] = result
        /\ result = "failed" => LastFailed(Health!Counted, streak')
        /\ LastFailed(0, streak')
    <3>1. result \in {"ok", "failed"} /\ Health!Remember(result)
      BY <1>6 DEF Health!Take, Health!TakeFailure, Health!TakeSuccess
    <3> HIDE DEF result
    <3> QED BY <3>1, Remembers
  <2>2. /\ failures' \in Nat /\ failures' <= Threshold /\ LastFailed(failures', streak')
        /\ result = "failed" => failures' = Health!Counted
    BY <1>1, <1>6, <2>1 DEF Health!Take, Health!TakeFailure, Health!TakeSuccess, Health!TypeOK,
       Health!HealthMonitorAssumption, Health!Counted, Health!Reset
  <2>3. /\ probe' \in [Probe -> {"idle", "checking", "checked", "sending"}]
        /\ waiting' \in [Probe -> SUBSET Target] /\ UNCHANGED <<up, turns, failed>>
    BY <1>1, <1>6 DEF Health!Take, Health!TakeFailure, Health!TakeSuccess, Health!TypeOK,
       Health!Emit, Health!NoAlert, Health!alertVars
  <2>4. CASE UNCHANGED <<state, alerts>>
    <3>1. Health!TypeOK' /\ Health!AlertsAlternate'
      BY <1>1, <2>1, <2>2, <2>3, <2>4 DEF Health!TypeOK, Health!AlertsAlternate
    <3> QED BY <2>2, <2>4, <3>1 DEF HealthInv, Health!HasCause
  <2>5. CASE /\ state = "healthy" /\ state' = "unhealthy" /\ failed[p]
             /\ Health!Enough(Health!Counted) /\ alerts' = Append(alerts, "critical")
    <3>1. alerts' \in Seq({"critical", "info"}) /\ Health!AlertsAlternate'
      BY <2>5, OneMoreAlert
    <3>2. Health!TypeOK'
      BY <1>1, <2>1, <2>2, <2>3, <2>5, <3>1 DEF Health!TypeOK
    <3>3. failures' = Threshold
      BY <2>2, <2>5 DEF Health!Enough, Health!HealthMonitorAssumption
    <3>4. Len(streak') = Threshold /\ \A n \in 1 .. Threshold : streak'[n] = "failed"
      <4>1. Len(streak') = Threshold /\ Threshold \in Nat
        BY <2>1, <2>2, <3>3 DEF LastFailed, Health!HealthMonitorAssumption
      <4>2. ASSUME NEW n \in 1 .. Threshold
            PROVE  streak'[n] = "failed"
        BY <2>2, <3>3, <4>1 DEF LastFailed
      <4> QED BY <4>1, <4>2
    <3> QED BY <2>2, <2>5, <3>1, <3>2, <3>4 DEF HealthInv, Health!HasCause
  <2>6. CASE /\ state = "unhealthy" /\ state' = "healthy" /\ ~failed[p]
             /\ alerts' = Append(alerts, "info")
    <3>1. alerts' \in Seq({"critical", "info"}) /\ Health!AlertsAlternate'
      BY <2>6, OneMoreAlert
    <3>2. Health!TypeOK'
      BY <1>1, <2>1, <2>2, <2>3, <2>6, <3>1 DEF Health!TypeOK
    <3> QED BY <2>1, <2>2, <2>6, <3>1, <3>2 DEF HealthInv, Health!HasCause
  <2> QED BY <1>6, <2>4, <2>5, <2>6 DEF Health!Take, Health!TakeFailure, Health!TakeSuccess,
             Health!Turns, Health!Emit, Health!NoAlert, Health!alertVars
<1> QED BY <1>3, <1>4, <1>5, <1>6 DEF Health!Next, Health!Goes

LEMMA HealthInvariant ==
  ASSUME Health!HealthMonitorAssumption PROVE Health!Spec => []HealthInv
<1>1. Health!Init => HealthInv
  BY DEF Health!Init, HealthInv, Health!TypeOK, Health!AlertsAlternate, LastFailed,
         Health!HealthMonitorAssumption
<1> QED BY <1>1, HealthStep, PTL DEF Health!Spec

\* With any number of probes under way, alerts alternate and the last of them
\* tells the state (runOnce of health-monitor.ts).
THEOREM AlertsAlternateHolds ==
  ASSUME Health!HealthMonitorAssumption
  PROVE  Health!Spec => [](Health!TypeOK /\ Health!AlertsAlternate)
<1>1. HealthInv => Health!TypeOK /\ Health!AlertsAlternate
  BY DEF HealthInv
<1> QED BY <1>1, HealthInvariant, PTL

\* The server becomes unhealthy with the last Threshold answers all failures and
\* healthy with a success (failureThreshold).
THEOREM HasCauseHolds ==
  ASSUME Health!HealthMonitorAssumption
  PROVE  Health!Spec => [][Health!HasCause]_(Health!vars)
<1> QED BY HealthInvariant, HealthStep, PTL DEF Health!Spec

-----------------------------------------------------------------------------
(* The notices to other systems *)

CONSTANTS Worker, Event, Type, Payload, Webhooks, EmailTransport, Directory, MaxAttempts,
          Reliable, Crashes, MaxDispatched, None
VARIABLES work, log, inbox, dispatched

Dispatch == INSTANCE NotificationDispatcher

Recorded(e, t) == \E n \in DOMAIN log : log[n].event = e /\ log[n].target = t
Arrived(e, t) == \E k \in DOMAIN inbox[t] : inbox[t][k].event = e

\* The targets before the one a dispatch is at have their record, and what it is
\* about to record as delivered has arrived.
Served(q) ==
  q.pc # "idle" =>
    /\ q.event \in Event /\ q.at \in 1 .. Len(Directory) + 1
    /\ \A i \in 1 .. q.at - 1 : Recorded(q.event, Directory[i])
    /\ q.pc \in {"deliver", "record"} => q.at <= Len(Directory)
    /\ q.pc = "record" => q.last \in Dispatch!Status
    /\ q.pc = "record" /\ q.last = "delivered" => Arrived(q.event, Directory[q.at])
    /\ q.pc = "done" => q.at = Len(Directory) + 1

FactsAreRendered ==
  \A t \in Dispatch!Targets : \A k \in DOMAIN inbox[t] :
    inbox[t][k].facts = Dispatch!Rendered(inbox[t][k].event)

DispatchInv ==
  /\ Dispatch!TypeOK
  /\ \A w \in Worker : Served(work[w])
  /\ Dispatch!DeliveredHasArrived
  /\ FactsAreRendered

LEMMA SameCardinality == \A S : Dispatch!Cardinality(S) = Cardinality(S)
BY Zenon DEF Dispatch!Cardinality, Cardinality

\* No section is too long for the facts there are.
LEMMA SectionHasAll ==
  ASSUME NEW facts \in SUBSET {"package", "version", "installed", "notes", "code", "detail"}
  PROVE  Dispatch!SlackSection(facts) = facts
<1> USE DEF Dispatch!FactOrder
<1>1. DOMAIN Dispatch!FactOrder = 1 .. 6
  OBVIOUS
<1>2. ASSUME NEW n \in 1 .. 6
      PROVE  Cardinality(Dispatch!Before(n, facts)) < Dispatch!SlackFields
  <2>1. IsFiniteSet(1 .. n - 1) /\ Cardinality(1 .. n - 1) = n - 1
    BY FS_Interval
  <2>2. Dispatch!Before(n, facts) \subseteq 1 .. n - 1
    BY DEF Dispatch!Before
  <2>3. /\ Cardinality(Dispatch!Before(n, facts)) <= n - 1
        /\ IsFiniteSet(Dispatch!Before(n, facts))
    BY <2>1, <2>2, FS_Subset
  <2>4. Cardinality(Dispatch!Before(n, facts)) \in Nat
    BY <2>3, FS_CardinalityType
  <2> QED BY <2>3, <2>4 DEF Dispatch!SlackFields
<1>3. ASSUME NEW f \in facts
      PROVE  \E n \in 1 .. 6 : Dispatch!FactOrder[n] = f
  <2>1. CASE f = "package"
    BY <2>1 
  <2>2. CASE f = "version"
    BY <2>2
  <2>3. CASE f = "installed"
    BY <2>3
  <2>4. CASE f = "notes"
    BY <2>4
  <2>5. CASE f = "code"
    BY <2>5
  <2>6. CASE f = "detail"
    BY <2>6
  <2> QED BY <2>1, <2>2, <2>3, <2>4, <2>5, <2>6
<1> HIDE DEF Dispatch!FactOrder
<1>4. \A f \in facts : \E n \in DOMAIN Dispatch!FactOrder :
        Dispatch!FactOrder[n] = f /\ Cardinality(Dispatch!Before(n, facts)) < Dispatch!SlackFields
  BY <1>1, <1>2, <1>3
<1> QED BY <1>4, SameCardinality DEF Dispatch!SlackSection

\* Only an attempt whose message arrived is taken for delivered.
LEMMA OutcomeIsSo ==
  ASSUME NEW kind, NEW answer \in Dispatch!Answers
  PROVE  /\ Dispatch!Outcome(kind, answer[1]) \in Dispatch!Status
         /\ Dispatch!Outcome(kind, answer[1]) = "delivered" => answer[2] = TRUE
         /\ answer[2] \in BOOLEAN
<1>1. answer \in {<<"2xx", TRUE>>, <<"429", FALSE>>, <<"4xx", FALSE>>, <<"5xx", FALSE>>,
                  <<"none", FALSE>>, <<"none", TRUE>>}
  BY Zenon DEF Dispatch!Answers
<1>2. /\ answer[1] \in {"2xx", "429", "4xx", "5xx", "none"}
      /\ answer[1] = "2xx" => answer[2] = TRUE
      /\ answer[2] \in BOOLEAN
  <2>1. CASE answer = <<"2xx", TRUE>>
    BY <2>1
  <2>2. CASE answer # <<"2xx", TRUE>>
    <3>1. PICK s \in {"429", "4xx", "5xx", "none"}, b \in BOOLEAN : answer = <<s, b>>
      BY <1>1, <2>2
    <3> QED BY <3>1
  <2> QED BY <2>1, <2>2
<1> QED BY <1>2 DEF Dispatch!Outcome, Dispatch!ClassifySend, Dispatch!ClassifyResponse,
                    Dispatch!Status

\* A message lays out all facts of its event, whatever channel it goes to.
LEMMA MessageIsRendered ==
  ASSUME Dispatch!NotificationDispatcherAssumption, NEW e \in Event, NEW kind
  PROVE  LET m == [event |-> e, facts |-> Dispatch!BuildPayload(kind, Dispatch!Rendered(e))]
         IN m \in Dispatch!Message /\ m.event = e /\ m.facts = Dispatch!Rendered(e)
<1>1. Dispatch!Rendered(e) \subseteq {"package", "version", "installed", "notes", "code", "detail"}
  BY DEF Dispatch!Rendered
<1>2. Dispatch!BuildPayload(kind, Dispatch!Rendered(e)) = Dispatch!Rendered(e)
  BY <1>1, SectionHasAll DEF Dispatch!BuildPayload
<1> QED BY <1>1, <1>2 DEF Dispatch!Message

\* One worker goes on, and no record or message is taken back.
LEMMA WorkerGoes ==
  ASSUME \A v \in Worker : Served(work[v]), NEW w \in Worker,
         \A v \in Worker \ {w} : work'[v] = work[v],
         \A e, t : Recorded(e, t) => Recorded(e, t)',
         \A e, t : Arrived(e, t) => Arrived(e, t)',
         Served(work[w])'
  PROVE  \A v \in Worker : Served(work[v])'
<1>1. ASSUME NEW v \in Worker \ {w}
      PROVE  Served(work[v])'
  BY DEF Served
<1> QED BY <1>1

\* The log takes one more record.
LEMMA LogTakes ==
  ASSUME DispatchInv, NEW rec \in Dispatch!Record, log' = Append(log, rec), UNCHANGED inbox,
         rec.status = "delivered" => Arrived(rec.event, rec.target)
  PROVE  /\ log' \in Seq(Dispatch!Record)
         /\ Recorded(rec.event, rec.target)'
         /\ \A e, t : Recorded(e, t) => Recorded(e, t)'
         /\ Dispatch!DeliveredHasArrived'
<1>1. log \in Seq(Dispatch!Record) /\ Dispatch!DeliveredHasArrived
  BY DEF DispatchInv, Dispatch!TypeOK
<1>2. /\ log' \in Seq(Dispatch!Record) /\ Len(log) \in Nat /\ DOMAIN log = 1 .. Len(log)
      /\ DOMAIN log' = 1 .. Len(log) + 1 /\ log'[Len(log) + 1] = rec
      /\ \A n \in DOMAIN log : n \in DOMAIN log' /\ log'[n] = log[n]
  BY <1>1
<1>3. \A n \in DOMAIN log' : n \in DOMAIN log \/ log'[n] = rec
  BY <1>2
<1>4. Recorded(rec.event, rec.target)'
  BY <1>2 DEF Recorded
<1>5. \A e, t : Recorded(e, t) => Recorded(e, t)'
  BY <1>2 DEF Recorded
<1>6. Dispatch!DeliveredHasArrived'
  <2>1. \A n \in DOMAIN log : log[n].status = "delivered" => Arrived(log[n].event, log[n].target)
    BY <1>1 DEF Dispatch!DeliveredHasArrived, Arrived
  <2>2. \A n \in DOMAIN log' : log'[n].status = "delivered" => Arrived(log'[n].event, log'[n].target)
    BY <1>2, <1>3, <2>1
  <2> QED BY <2>2 DEF Dispatch!DeliveredHasArrived, Arrived
<1> QED BY <1>2, <1>4, <1>5, <1>6

\* A target gets one more message.
LEMMA InboxTakes ==
  ASSUME DispatchInv, NEW t \in Dispatch!Targets, NEW m \in Dispatch!Message,
         inbox' = [inbox EXCEPT ![t] = Append(@, m)], UNCHANGED log,
         m.facts = Dispatch!Rendered(m.event)
  PROVE  /\ inbox' \in [Dispatch!Targets -> Seq(Dispatch!Message)]
         /\ Arrived(m.event, t)'
         /\ \A e, s : s \in Dispatch!Targets /\ Arrived(e, s) => Arrived(e, s)'
         /\ FactsAreRendered'
<1>1. inbox \in [Dispatch!Targets -> Seq(Dispatch!Message)] /\ FactsAreRendered
  BY DEF DispatchInv, Dispatch!TypeOK
<1>2. /\ inbox' \in [Dispatch!Targets -> Seq(Dispatch!Message)]
      /\ inbox'[t] = Append(inbox[t], m) /\ \A s \in Dispatch!Targets \ {t} : inbox'[s] = inbox[s]
  BY <1>1
<1>3. /\ DOMAIN inbox'[t] = 1 .. Len(inbox[t]) + 1 /\ Len(inbox[t]) \in Nat
      /\ DOMAIN inbox[t] = 1 .. Len(inbox[t])
      /\ inbox'[t][Len(inbox[t]) + 1] = m
      /\ \A k \in DOMAIN inbox[t] : k \in DOMAIN inbox'[t] /\ inbox'[t][k] = inbox[t][k]
  BY <1>1, <1>2
<1>4. \A k \in DOMAIN inbox'[t] : k \in DOMAIN inbox[t] \/ inbox'[t][k] = m
  BY <1>3
<1>5. Arrived(m.event, t)'
  BY <1>3 DEF Arrived
<1>6. \A e, s : s \in Dispatch!Targets /\ Arrived(e, s) => Arrived(e, s)'
  BY <1>2, <1>3 DEF Arrived
<1>7. FactsAreRendered'
  BY <1>1, <1>2, <1>3, <1>4 DEF FactsAreRendered
<1> QED BY <1>2, <1>5, <1>6, <1>7

LEMMA DispatchRunKeeps ==
  ASSUME Dispatch!NotificationDispatcherAssumption, DispatchInv, NEW w \in Worker,
         Dispatch!Run(w), NEW q, q = work[w]
  PROVE  DispatchInv'
<1>1. /\ work \in [Worker -> Dispatch!Work] /\ q \in Dispatch!Work /\ Served(q)
      /\ \A v \in Worker : Served(work[v])
      /\ log \in Seq(Dispatch!Record) /\ inbox \in [Dispatch!Targets -> Seq(Dispatch!Message)]
      /\ dispatched \in 0 .. MaxDispatched
      /\ Dispatch!DeliveredHasArrived /\ FactsAreRendered
  BY DEF DispatchInv, Dispatch!TypeOK
<1>2. Len(Directory) \in Nat /\ \A i \in 1 .. Len(Directory) : Directory[i] \in Dispatch!Targets
  BY DEF Dispatch!NotificationDispatcherAssumption, Dispatch!Targets
<1>3. UNCHANGED dispatched
  BY DEF Dispatch!Run, Dispatch!NextTarget, Dispatch!Deliver, Dispatch!RecordOutcome,
         Dispatch!Finish
<1>4. UNCHANGED log => \A e, t : Recorded(e, t)' <=> Recorded(e, t)
  BY DEF Recorded
<1>5. UNCHANGED inbox => \A e, t : Arrived(e, t)' <=> Arrived(e, t)
  BY DEF Arrived
<1>6. UNCHANGED <<log, inbox>> => Dispatch!DeliveredHasArrived' /\ FactsAreRendered'
  BY <1>1 DEF Dispatch!DeliveredHasArrived, FactsAreRendered
<1>7. UNCHANGED inbox => FactsAreRendered'
  BY <1>1 DEF FactsAreRendered
<1>8. CASE Dispatch!NextTarget(w) /\ q.at > Len(Directory)
  <2>1. /\ q.pc = "next" /\ work' = [work EXCEPT ![w].pc = "done"]
        /\ UNCHANGED <<log, inbox>>
    BY <1>1, <1>2, <1>8 DEF Dispatch!NextTarget, Dispatch!Work
  <2>2. work' \in [Worker -> Dispatch!Work] /\ \A v \in Worker \ {w} : work'[v] = work[v]
    BY <1>1, <2>1 DEF Dispatch!Work
  <2>3. work'[w].pc = "done" /\ work'[w].event = q.event /\ work'[w].at = q.at
    BY <1>1, <2>1 DEF Dispatch!Work
  <2>4. q.at = Len(Directory) + 1
    BY <1>1, <1>2, <1>8, <2>1 DEF Served
  <2>5. Served(work[w])'
    BY <1>1, <1>2, <1>4, <1>5, <2>1, <2>3, <2>4 DEF Served
  <2>6. \A v \in Worker : Served(work[v])'
    BY <1>1, <1>4, <1>5, <2>1, <2>2, <2>5, WorkerGoes
  <2> QED BY <1>1, <1>3, <1>6, <2>1, <2>2, <2>6 DEF DispatchInv, Dispatch!TypeOK
<1>9. CASE Dispatch!NextTarget(w) /\ q.at <= Len(Directory)
  <2>1. /\ q.pc = "next" /\ q.event \in Event /\ q.at \in 1 .. Len(Directory)
        /\ \A i \in 1 .. q.at - 1 : Recorded(q.event, Directory[i])
        /\ Dispatch!Target(w) = Directory[q.at] /\ Directory[q.at] \in Dispatch!Targets
        /\ UNCHANGED inbox
    BY <1>1, <1>2, <1>9 DEF Dispatch!NextTarget, Served, Dispatch!Target
  <2>2. CASE work' = [work EXCEPT ![w].at = @ + 1] /\ Recorded(q.event, Directory[q.at])'
             /\ (\A e, t : Recorded(e, t) => Recorded(e, t)')
    <3>1. work' \in [Worker -> Dispatch!Work] /\ \A v \in Worker \ {w} : work'[v] = work[v]
      <4>1. q.at + 1 \in Nat
        BY <1>2, <2>1
      <4> QED BY <1>1, <2>2, <4>1 DEF Dispatch!Work
    <3>2. work'[w].pc = "next" /\ work'[w].event = q.event /\ work'[w].at = q.at + 1
      BY <1>1, <2>1, <2>2 DEF Dispatch!Work
    <3>3. \A i \in 1 .. q.at : Recorded(q.event, Directory[i])'
      BY <2>1, <2>2
    <3>4. Served(work[w])'
      <4>1. work'[w].at - 1 = q.at /\ work'[w].at \in 1 .. Len(Directory) + 1
        BY <1>2, <2>1, <3>2
      <4> QED BY <2>1, <3>2, <3>3, <4>1 DEF Served, Recorded
    <3>5. \A v \in Worker : Served(work[v])'
      BY <1>1, <1>5, <2>1, <2>2, <3>1, <3>4, WorkerGoes
    <3>6. CASE UNCHANGED log
      BY <1>1, <1>3, <1>6, <2>1, <3>1, <3>5, <3>6 DEF DispatchInv, Dispatch!TypeOK
    <3>7. CASE log' \in Seq(Dispatch!Record) /\ Dispatch!DeliveredHasArrived'
      BY <1>1, <1>3, <1>7, <2>1, <3>1, <3>5, <3>7 DEF DispatchInv, Dispatch!TypeOK
    <3>8. UNCHANGED log \/ (log' \in Seq(Dispatch!Record) /\ Dispatch!DeliveredHasArrived')
      <4>1. CASE UNCHANGED log
        BY <4>1
      <4>2. CASE ~UNCHANGED log
        <5> DEFINE rec == [event |-> q.event, target |-> Directory[q.at],
                           status |-> "rejected", attempts |-> 0, last |-> None]
        <5>1. log' = Append(log, rec)
          BY <1>9, <2>1, <4>2 DEF Dispatch!NextTarget
        <5>2. rec \in Dispatch!Record /\ rec.status # "delivered"
          BY <2>1 DEF Dispatch!Record, Dispatch!Status, Dispatch!NotificationDispatcherAssumption
        <5> HIDE DEF rec
        <5>3. PICK r \in Dispatch!Record : log' = Append(log, r) /\ r.status # "delivered"
          BY <5>1, <5>2
        <5> QED BY <2>1, <5>3, LogTakes
      <4> QED BY <4>1, <4>2
    <3> QED BY <3>6, <3>7, <3>8
  <2>3. CASE Dispatch!Target(w) \notin Dispatch!Channels
    <3> DEFINE rec == [event |-> q.event, target |-> Directory[q.at],
                       status |-> "rejected", attempts |-> 0, last |-> None]
    <3>1. log' = Append(log, rec) /\ work' = [work EXCEPT ![w].at = @ + 1]
      BY <1>2, <1>9, <2>1, <2>3 DEF Dispatch!NextTarget, Dispatch!AfterDisabled
    <3>2. /\ rec \in Dispatch!Record /\ rec.status # "delivered"
          /\ rec.event = q.event /\ rec.target = Directory[q.at]
      BY <2>1 DEF Dispatch!Record, Dispatch!Status, Dispatch!NotificationDispatcherAssumption
    <3> HIDE DEF rec
    <3>3. PICK r \in Dispatch!Record : /\ log' = Append(log, r) /\ r.status # "delivered"
                                       /\ r.event = q.event /\ r.target = Directory[q.at]
      BY <3>1, <3>2
    <3>4. Recorded(r.event, r.target)' /\ \A e, t : Recorded(e, t) => Recorded(e, t)'
      BY <2>1, <3>3, LogTakes
    <3>5. Recorded(q.event, Directory[q.at])'
      BY <3>3, <3>4 DEF Recorded
    <3> QED BY <2>2, <3>1, <3>4, <3>5
  <2>4. CASE Dispatch!Target(w) \in Dispatch!Channels /\ Dispatch!HasDelivered(q.event, Dispatch!Target(w))
    <3>1. work' = [work EXCEPT ![w].at = @ + 1] /\ UNCHANGED log
      BY <1>2, <1>9, <2>1, <2>4 DEF Dispatch!NextTarget
    <3>2. Recorded(q.event, Directory[q.at])
      BY <2>1, <2>4 DEF Dispatch!HasDelivered, Recorded
    <3>3. Recorded(q.event, Directory[q.at])'
      BY <3>1, <3>2 DEF Recorded
    <3> QED BY <1>4, <2>2, <3>1, <3>3
  <2>5. CASE Dispatch!Target(w) \in Dispatch!Channels /\ ~Dispatch!HasDelivered(q.event, Dispatch!Target(w))
    <3>1. /\ work' = [work EXCEPT ![w].pc = "deliver", ![w].attempts = 0, ![w].last = None]
          /\ UNCHANGED log
      BY <1>2, <1>9, <2>1, <2>5 DEF Dispatch!NextTarget
    <3>2. work' \in [Worker -> Dispatch!Work] /\ \A v \in Worker \ {w} : work'[v] = work[v]
      <4>1. 0 \in 0 .. MaxAttempts
        BY DEF Dispatch!NotificationDispatcherAssumption
      <4> QED BY <1>1, <3>1, <4>1 DEF Dispatch!Work
    <3>3. work'[w].pc = "deliver" /\ work'[w].event = q.event /\ work'[w].at = q.at
      BY <1>1, <3>1 DEF Dispatch!Work
    <3>4. Served(work[w])'
      <4>1. \A i \in 1 .. q.at - 1 : Recorded(q.event, Directory[i])'
        BY <1>4, <2>1, <3>1
      <4> QED BY <1>2, <2>1, <3>3, <4>1 DEF Served, Recorded
    <3>5. \A v \in Worker : Served(work[v])'
      BY <1>1, <1>4, <1>5, <2>1, <3>1, <3>2, <3>4, WorkerGoes
    <3> QED BY <1>1, <1>3, <1>6, <2>1, <3>1, <3>2, <3>5 DEF DispatchInv, Dispatch!TypeOK
  <2> QED BY <2>3, <2>4, <2>5
<1>10. CASE Dispatch!Deliver(w)
  <2>1. /\ q.pc = "deliver" /\ q.attempts < MaxAttempts /\ q.event \in Event
        /\ q.at \in 1 .. Len(Directory)
        /\ \A i \in 1 .. q.at - 1 : Recorded(q.event, Directory[i])
        /\ Dispatch!Target(w) = Directory[q.at] /\ Directory[q.at] \in Dispatch!Targets
        /\ UNCHANGED log
    BY <1>1, <1>2, <1>10 DEF Dispatch!Deliver, Served, Dispatch!Target
  <2> DEFINE t == Directory[q.at]
             message == [event |-> q.event,
                         facts |-> Dispatch!BuildPayload(t, Dispatch!Rendered(q.event))]
  <2>2. PICK answer \in Dispatch!Answers :
          /\ inbox' = IF answer[2] THEN [inbox EXCEPT ![t] = Append(@, message)] ELSE inbox
          /\ work' = [work EXCEPT
               ![w].attempts = q.attempts + 1,
               ![w].last = Dispatch!Outcome(t, answer[1]),
               ![w].pc = IF Dispatch!MayRetry(q.attempts + 1, Dispatch!Outcome(t, answer[1]))
                         THEN "deliver" ELSE "record"]
    BY <1>10, <2>1 DEF Dispatch!Deliver
  <2> DEFINE outcome == Dispatch!Outcome(t, answer[1])
             pc == IF Dispatch!MayRetry(q.attempts + 1, outcome) THEN "deliver" ELSE "record"
  <2>3. outcome \in Dispatch!Status /\ (outcome = "delivered" => answer[2] = TRUE)
    BY OutcomeIsSo
  <2>4. pc \in {"deliver", "record"}
    OBVIOUS
  <2>5. message \in Dispatch!Message /\ message.event = q.event /\ message.facts = Dispatch!Rendered(message.event)
    BY <2>1, MessageIsRendered
  <2> HIDE DEF outcome, pc, message
  <2>6. work' = [work EXCEPT ![w].attempts = q.attempts + 1, ![w].last = outcome, ![w].pc = pc]
    BY <2>2 DEF outcome, pc
  <2>7. q.attempts + 1 \in 0 .. MaxAttempts
    BY <1>1, <2>1 DEF Dispatch!Work, Dispatch!NotificationDispatcherAssumption
  <2>8. work' \in [Worker -> Dispatch!Work] /\ \A v \in Worker \ {w} : work'[v] = work[v]
    BY <1>1, <2>3, <2>4, <2>6, <2>7 DEF Dispatch!Work
  <2>9. work'[w].pc = pc /\ work'[w].event = q.event /\ work'[w].at = q.at /\ work'[w].last = outcome
    BY <1>1, <2>6 DEF Dispatch!Work
  <2>10. /\ inbox' \in [Dispatch!Targets -> Seq(Dispatch!Message)] /\ FactsAreRendered'
         /\ \A e, s : s \in Dispatch!Targets /\ Arrived(e, s) => Arrived(e, s)'
         /\ outcome = "delivered" => Arrived(q.event, t)'
    <3>1. CASE answer[2] = TRUE
      <4>1. PICK m \in Dispatch!Message, s \in Dispatch!Targets :
              /\ inbox' = [inbox EXCEPT ![s] = Append(@, m)] /\ s = t
              /\ m.event = q.event /\ m.facts = Dispatch!Rendered(m.event)
        BY <2>1, <2>2, <2>5, <3>1
      <4>2. /\ inbox' \in [Dispatch!Targets -> Seq(Dispatch!Message)]
            /\ Arrived(m.event, s)' /\ FactsAreRendered'
            /\ \A e, x : x \in Dispatch!Targets /\ Arrived(e, x) => Arrived(e, x)'
        BY <2>1, <4>1, InboxTakes
      <4>3. \E k \in DOMAIN inbox'[s] : inbox'[s][k].event = m.event
        BY <4>2 DEF Arrived
      <4>4. \E k \in DOMAIN inbox'[t] : inbox'[t][k].event = q.event
        BY <4>1, <4>3
      <4> QED BY <4>2, <4>4 DEF Arrived
    <3>2. CASE answer[2] # TRUE
      <4>1. outcome # "delivered"
        BY <2>3, <3>2
      <4>2. UNCHANGED inbox
        <5>1. answer[2] = FALSE
          BY <3>2, OutcomeIsSo
        <5> QED BY <2>2, <5>1
      <4> QED BY <1>1, <1>5, <1>7, <4>1, <4>2
    <3> QED BY <3>1, <3>2
  <2>11. Served(work[w])'
    BY <1>2, <1>4, <2>1, <2>3, <2>4, <2>9, <2>10 DEF Served
  <2>12. ASSUME NEW v \in Worker \ {w}
         PROVE  Served(work[v])'
    BY <1>1, <1>2, <1>4, <2>1, <2>8, <2>10 DEF Served
  <2>13. Dispatch!DeliveredHasArrived'
    <3>1. \A n \in DOMAIN log : log[n].target \in Dispatch!Targets
      <4>1. \A n \in DOMAIN log : log[n] \in Dispatch!Record
        BY <1>1
      <4> QED BY <4>1 DEF Dispatch!Record
    <3>2. \A n \in DOMAIN log : log[n].status = "delivered" => Arrived(log[n].event, log[n].target)
      BY <1>1 DEF Dispatch!DeliveredHasArrived, Arrived
    <3>3. \A n \in DOMAIN log : log[n].status = "delivered" => Arrived(log[n].event, log[n].target)'
      BY <2>1, <2>10, <3>1, <3>2
    <3> QED BY <2>1, <3>3 DEF Dispatch!DeliveredHasArrived, Arrived
  <2> QED BY <1>1, <1>3, <2>1, <2>8, <2>10, <2>11, <2>12, <2>13 DEF DispatchInv, Dispatch!TypeOK
<1>11. CASE Dispatch!RecordOutcome(w)
  <2>1. /\ q.pc = "record" /\ q.event \in Event /\ q.at \in 1 .. Len(Directory)
        /\ \A i \in 1 .. q.at - 1 : Recorded(q.event, Directory[i])
        /\ Dispatch!Target(w) = Directory[q.at] /\ Directory[q.at] \in Dispatch!Targets
        /\ q.last \in Dispatch!Status
        /\ q.last = "delivered" => Arrived(q.event, Directory[q.at])
        /\ UNCHANGED inbox
    BY <1>1, <1>2, <1>11 DEF Dispatch!RecordOutcome, Served, Dispatch!Target
  <2> DEFINE rec == [event |-> q.event, target |-> Directory[q.at],
                     status |-> Dispatch!FinalStatus(w), attempts |-> q.attempts,
                     last |-> q.last]
  <2>2. /\ log' = Append(log, rec)
        /\ work' = [work EXCEPT ![w].pc = "next", ![w].at = @ + 1]
    BY <1>11, <2>1 DEF Dispatch!RecordOutcome
  <2>3. /\ Dispatch!FinalStatus(w) \in Dispatch!Status
        /\ Dispatch!FinalStatus(w) = "delivered" => q.last = "delivered"
    BY DEF Dispatch!FinalStatus, Dispatch!Status
  <2>4. /\ rec \in Dispatch!Record /\ rec.event = q.event /\ rec.target = Directory[q.at]
        /\ rec.status = "delivered" => Arrived(q.event, Directory[q.at])
    BY <1>1, <2>1, <2>3 DEF Dispatch!Record, Dispatch!Work
  <2> HIDE DEF rec
  <2>5. PICK r \in Dispatch!Record :
          /\ log' = Append(log, r) /\ r.event = q.event /\ r.target = Directory[q.at]
          /\ r.status = "delivered" => Arrived(r.event, r.target)
    BY <2>2, <2>4
  <2>6. /\ log' \in Seq(Dispatch!Record) /\ Dispatch!DeliveredHasArrived'
        /\ Recorded(r.event, r.target)' /\ \A e, t : Recorded(e, t) => Recorded(e, t)'
    BY <2>1, <2>5, LogTakes
  <2>7. work' \in [Worker -> Dispatch!Work] /\ \A v \in Worker \ {w} : work'[v] = work[v]
    <3>1. q.at + 1 \in Nat
      BY <1>2, <2>1
    <3> QED BY <1>1, <2>2, <3>1 DEF Dispatch!Work
  <2>8. work'[w].pc = "next" /\ work'[w].event = q.event /\ work'[w].at = q.at + 1
    BY <1>1, <2>2 DEF Dispatch!Work
  <2>9. \A i \in 1 .. q.at : Recorded(q.event, Directory[i])'
    <3>1. Recorded(q.event, Directory[q.at])'
      BY <2>5, <2>6 DEF Recorded
    <3> QED BY <2>1, <2>6, <3>1
  <2>10. Served(work[w])'
    BY <1>2, <2>1, <2>8, <2>9 DEF Served
  <2>11. \A v \in Worker : Served(work[v])'
    BY <1>1, <1>5, <2>1, <2>6, <2>7, <2>10, WorkerGoes
  <2> QED BY <1>1, <1>3, <1>7, <2>1, <2>6, <2>7, <2>11 DEF DispatchInv, Dispatch!TypeOK
<1>12. CASE Dispatch!Finish(w)
  <2>1. work' = [work EXCEPT ![w] = Dispatch!Idle] /\ UNCHANGED <<log, inbox>>
    BY <1>12 DEF Dispatch!Finish
  <2>2. Dispatch!Idle \in Dispatch!Work /\ Dispatch!Idle.pc = "idle"
    BY DEF Dispatch!Idle, Dispatch!Work, Dispatch!NotificationDispatcherAssumption
  <2>3. work' \in [Worker -> Dispatch!Work] /\ \A v \in Worker \ {w} : work'[v] = work[v]
    BY <1>1, <2>1, <2>2
  <2>4. Served(work[w])'
    BY <1>1, <2>1, <2>2 DEF Served
  <2>5. \A v \in Worker : Served(work[v])'
    BY <1>1, <1>4, <1>5, <2>1, <2>3, <2>4, WorkerGoes
  <2> QED BY <1>1, <1>3, <1>6, <2>1, <2>3, <2>5 DEF DispatchInv, Dispatch!TypeOK
<1>13. CASE Dispatch!NextTarget(w)
  <2>1. q.at \in Nat
    BY <1>1 DEF Dispatch!Work
  <2> QED BY <1>2, <1>8, <1>9, <1>13, <2>1
<1> QED BY <1>10, <1>11, <1>12, <1>13 DEF Dispatch!Run

\* A dispatch begins at the first target, and a worker that dies leaves the log
\* and what arrived.
LEMMA DispatchStep ==
  ASSUME Dispatch!NotificationDispatcherAssumption, DispatchInv,
         [Dispatch!Next]_(Dispatch!vars)
  PROVE  DispatchInv'
<1>1. /\ work \in [Worker -> Dispatch!Work] /\ \A v \in Worker : Served(work[v])
      /\ log \in Seq(Dispatch!Record) /\ inbox \in [Dispatch!Targets -> Seq(Dispatch!Message)]
      /\ dispatched \in 0 .. MaxDispatched
      /\ Dispatch!DeliveredHasArrived /\ FactsAreRendered
  BY DEF DispatchInv, Dispatch!TypeOK
<1>2. CASE UNCHANGED Dispatch!vars
  BY <1>1, <1>2 DEF Dispatch!vars, DispatchInv, Dispatch!TypeOK, Served, Recorded, Arrived,
                    Dispatch!DeliveredHasArrived, FactsAreRendered
<1>3. ASSUME NEW w \in Worker, Dispatch!Run(w)
      PROVE  DispatchInv'
  <2>1. PICK q : q = work[w]
    OBVIOUS
  <2> QED BY <1>3, <2>1, DispatchRunKeeps
<1>4. ASSUME NEW w \in Worker, NEW q \in Dispatch!Work, work' = [work EXCEPT ![w] = q],
             UNCHANGED <<log, inbox>>, dispatched' \in 0 .. MaxDispatched, Served(q)
      PROVE  DispatchInv'
  <2>1. /\ \A e, t : Recorded(e, t)' <=> Recorded(e, t)
        /\ \A e, t : Arrived(e, t)' <=> Arrived(e, t)
    BY <1>4 DEF Recorded, Arrived
  <2>2. Dispatch!DeliveredHasArrived' /\ FactsAreRendered'
    BY <1>1, <1>4 DEF Dispatch!DeliveredHasArrived, FactsAreRendered
  <2>3. work' \in [Worker -> Dispatch!Work] /\ \A v \in Worker : work'[v] \in {work[v], q}
    BY <1>1, <1>4
  <2>4. ASSUME NEW v \in Worker
        PROVE  Served(work[v])'
    <3>1. Served(q)' /\ (work'[v] = work[v] => Served(work[v])')
      BY <1>1, <1>4, <2>1 DEF Served
    <3>2. work'[v] = q => Served(work[v])'
      BY <1>4 DEF Served, Recorded, Arrived
    <3> QED BY <2>3, <3>1, <3>2
  <2> QED BY <1>1, <1>4, <2>2, <2>3, <2>4 DEF DispatchInv, Dispatch!TypeOK
<1>5. ASSUME NEW w \in Worker, NEW e \in Event, Dispatch!Dispatch(w, e)
      PROVE  DispatchInv'
  <2> DEFINE q == [Dispatch!Idle EXCEPT !.pc = "next", !.event = e]
  <2>1. /\ q \in Dispatch!Work /\ q.pc = "next" /\ q.event = e /\ q.at = 1
    <3>1. 0 \in 0 .. MaxAttempts
      BY DEF Dispatch!NotificationDispatcherAssumption
    <3> QED BY <3>1 DEF Dispatch!Idle, Dispatch!Work
  <2>2. work' = [work EXCEPT ![w] = q] /\ UNCHANGED <<log, inbox>> /\ dispatched' \in 0 .. MaxDispatched
    BY <1>1, <1>5 DEF Dispatch!Dispatch, Dispatch!NotificationDispatcherAssumption
  <2> HIDE DEF q
  <2>3. Served(q)
    BY <2>1 DEF Served, Dispatch!NotificationDispatcherAssumption
  <2> QED BY <1>4, <2>1, <2>2, <2>3
<1>6. ASSUME NEW w \in Worker, Dispatch!Die(w)
      PROVE  DispatchInv'
  <2>1. Dispatch!Idle \in Dispatch!Work /\ Served(Dispatch!Idle)
    BY DEF Dispatch!Idle, Dispatch!Work, Dispatch!NotificationDispatcherAssumption, Served
  <2> QED BY <1>1, <1>4, <1>6, <2>1 DEF Dispatch!Die
<1> QED BY <1>2, <1>3, <1>5, <1>6 DEF Dispatch!Next

LEMMA DispatchInvariant ==
  ASSUME Dispatch!NotificationDispatcherAssumption PROVE Dispatch!Spec => []DispatchInv
<1>1. Dispatch!Init => DispatchInv
  <2> SUFFICES ASSUME Dispatch!Init PROVE DispatchInv
    OBVIOUS
  <2>1. Dispatch!Idle \in Dispatch!Work /\ Served(Dispatch!Idle)
    BY DEF Dispatch!Idle, Dispatch!Work, Dispatch!NotificationDispatcherAssumption, Served
  <2> QED BY <2>1 DEF Dispatch!Init, DispatchInv, Dispatch!TypeOK, Dispatch!DeliveredHasArrived,
                      FactsAreRendered, Dispatch!NotificationDispatcherAssumption
<1> QED BY <1>1, DispatchStep, PTL DEF Dispatch!Spec

\* A target that fails, is not enabled or was served before does not keep the
\* others from theirs, whatever workers dispatch the event and die (dispatch).
THEOREM EveryTargetAccountedHolds ==
  ASSUME Dispatch!NotificationDispatcherAssumption
  PROVE  Dispatch!Spec => [](Dispatch!TypeOK /\ Dispatch!EveryTargetAccounted)
<1>1. ASSUME DispatchInv, NEW w \in Worker, work[w].pc = "done", NEW t \in Dispatch!Targets
      PROVE  \E n \in DOMAIN log : log[n].event = work[w].event /\ log[n].target = t
  <2>1. PICK i \in 1 .. Len(Directory) : Directory[i] = t
    BY DEF Dispatch!Targets, Dispatch!NotificationDispatcherAssumption
  <2>2. work[w].at - 1 = Len(Directory) /\ Served(work[w])
    BY <1>1 DEF DispatchInv, Served, Dispatch!NotificationDispatcherAssumption
  <2> QED BY <1>1, <2>1, <2>2 DEF Served, Recorded
<1>2. DispatchInv => Dispatch!TypeOK /\ Dispatch!EveryTargetAccounted
  BY <1>1 DEF DispatchInv, Dispatch!EveryTargetAccounted
<1> QED BY <1>2, DispatchInvariant, PTL

\* What the log calls delivered has arrived (deliverWithRetry, classifyResponse).
THEOREM DeliveredHasArrivedHolds ==
  ASSUME Dispatch!NotificationDispatcherAssumption
  PROVE  Dispatch!Spec => []Dispatch!DeliveredHasArrived
<1>1. DispatchInv => Dispatch!DeliveredHasArrived
  BY DEF DispatchInv
<1> QED BY <1>1, DispatchInvariant, PTL

\* Every channel tells the same story, the one with a limit on its fields too
\* (templates.ts, buildPayload).
THEOREM SameFactsEverywhereHolds ==
  ASSUME Dispatch!NotificationDispatcherAssumption
  PROVE  Dispatch!Spec => []Dispatch!SameFactsEverywhere
<1>1. DispatchInv => Dispatch!SameFactsEverywhere
  BY DEF DispatchInv, FactsAreRendered, Dispatch!SameFactsEverywhere
<1> QED BY <1>1, DispatchInvariant, PTL

\* A worker that is alone: what it is about to send was not delivered before.
Alone == \A v, w \in Worker : v = w

Undelivered(w) == ~Dispatch!HasDelivered(work[w].event, Directory[work[w].at])

AloneInv ==
  /\ DispatchInv
  /\ \A w \in Worker : work[w].pc = "deliver" => Undelivered(w)

LEMMA AloneStep ==
  ASSUME Dispatch!NotificationDispatcherAssumption, Alone, AloneInv,
         [Dispatch!Next]_(Dispatch!vars)
  PROVE  AloneInv' /\ Dispatch!NoneAgain
<1>1. DispatchInv /\ DispatchInv' /\ work \in [Worker -> Dispatch!Work]
      /\ work' \in [Worker -> Dispatch!Work] /\ log \in Seq(Dispatch!Record)
      /\ inbox \in [Dispatch!Targets -> Seq(Dispatch!Message)]
      /\ \A w \in Worker : Served(work[w])
  BY DispatchStep DEF AloneInv, DispatchInv, Dispatch!TypeOK
<1>2. UNCHANGED log => \A e, t : Dispatch!HasDelivered(e, t)' <=> Dispatch!HasDelivered(e, t)
  BY DEF Dispatch!HasDelivered
<1>3. \A n \in DOMAIN log : log[n].target \in Dispatch!Targets
  <2>1. \A n \in DOMAIN log : log[n] \in Dispatch!Record
    BY <1>1
  <2> QED BY <2>1 DEF Dispatch!Record
<1>4. UNCHANGED inbox => Dispatch!NoneAgain
  BY DEF Dispatch!NoneAgain
<1>5. CASE /\ UNCHANGED inbox
           /\ \A w \in Worker : work'[w].pc = "deliver" => Undelivered(w)'
  BY <1>1, <1>4, <1>5 DEF AloneInv
<1>6. CASE UNCHANGED Dispatch!vars
  <2>1. \A w \in Worker : Undelivered(w)' <=> Undelivered(w)
    BY <1>6 DEF Dispatch!vars, Undelivered, Dispatch!HasDelivered
  <2> QED BY <1>5, <1>6, <2>1 DEF Dispatch!vars, AloneInv
<1>7. ASSUME NEW w \in Worker, work'[w].pc # "deliver", UNCHANGED inbox
      PROVE  AloneInv' /\ Dispatch!NoneAgain
  BY <1>5, <1>7 DEF Alone
<1>8. ASSUME NEW w \in Worker, Dispatch!NextTarget(w), work'[w].pc = "deliver"
      PROVE  AloneInv' /\ Dispatch!NoneAgain
  <2>1. /\ UNCHANGED <<log, inbox>>
        /\ ~Dispatch!HasDelivered(work[w].event, Dispatch!Target(w))
        /\ work'[w].event = work[w].event /\ work'[w].at = work[w].at
    BY <1>1, <1>8 DEF Dispatch!NextTarget, Dispatch!Work, Dispatch!AfterDisabled
  <2>2. Undelivered(w)'
    BY <2>1 DEF Undelivered, Dispatch!HasDelivered, Dispatch!Target
  <2> QED BY <1>5, <2>1, <2>2 DEF Alone
<1>9. ASSUME NEW w \in Worker, Dispatch!Deliver(w)
      PROVE  AloneInv' /\ Dispatch!NoneAgain
  <2> DEFINE t == Directory[work[w].at]
  <2>1. /\ UNCHANGED log /\ work[w].pc = "deliver" /\ Dispatch!Target(w) = t
        /\ ~Dispatch!HasDelivered(work[w].event, t)
        /\ work'[w].event = work[w].event /\ work'[w].at = work[w].at
    <3>1. UNCHANGED log /\ work[w].pc = "deliver"
      BY <1>9 DEF Dispatch!Deliver
    <3>2. Dispatch!Target(w) = t
      BY DEF Dispatch!Target
    <3>3. ~Dispatch!HasDelivered(work[w].event, t)
      BY <3>1 DEF AloneInv, Undelivered
    <3>4. PICK last, attempts, pc :
            work' = [work EXCEPT ![w].attempts = attempts, ![w].last = last, ![w].pc = pc]
      BY <1>9 DEF Dispatch!Deliver
    <3>5. work'[w].event = work[w].event /\ work'[w].at = work[w].at
      BY <1>1, <3>4 DEF Dispatch!Work
    <3> QED BY <3>1, <3>2, <3>3, <3>5
  <2>2. t \in Dispatch!Targets
    BY <1>1, <2>1 DEF Served, Dispatch!Targets, Dispatch!NotificationDispatcherAssumption
  <2>3. \E m : m.event = work[w].event /\ inbox' \in {inbox, [inbox EXCEPT ![t] = Append(@, m)]}
    BY <1>9, <2>1 DEF Dispatch!Deliver
  <2>4. PICK m : m.event = work[w].event /\ inbox' \in {inbox, [inbox EXCEPT ![t] = Append(@, m)]}
    BY <2>3
  <2>5. ASSUME NEW n \in DOMAIN log, log[n].status = "delivered",
               NEW k \in DOMAIN inbox'[log[n].target],
               inbox'[log[n].target][k].event = log[n].event
        PROVE  k \in DOMAIN inbox[log[n].target]
    <3>1. CASE inbox'[log[n].target] = inbox[log[n].target]
      BY <2>5, <3>1
    <3>2. CASE log[n].target = t /\ inbox' = [inbox EXCEPT ![t] = Append(@, m)]
      <4>1. log[n].event # work[w].event
        BY <2>1, <2>5, <3>2 DEF Dispatch!HasDelivered
      <4>2. inbox[t] \in Seq(Dispatch!Message) /\ inbox'[t] = Append(inbox[t], m)
        BY <1>1, <2>2, <3>2
      <4>3. /\ k \in 1 .. Len(inbox[t]) + 1 /\ inbox'[t][Len(inbox[t]) + 1] = m
            /\ DOMAIN inbox[t] = 1 .. Len(inbox[t]) /\ Len(inbox[t]) \in Nat
        <5>1. PICK l \in Seq(Dispatch!Message) : l = inbox[t]
          BY <4>2
        <5>2. /\ DOMAIN Append(l, m) = 1 .. Len(l) + 1 /\ Append(l, m)[Len(l) + 1] = m
              /\ DOMAIN l = 1 .. Len(l) /\ Len(l) \in Nat
          BY <5>1
        <5>3. k \in DOMAIN inbox'[t]
          BY <2>5, <3>2
        <5> QED BY <4>2, <5>1, <5>2, <5>3
      <4>4. k # Len(inbox[t]) + 1
        BY <2>4, <2>5, <3>2, <4>1, <4>3
      <4> QED BY <3>2, <4>3, <4>4
    <3> QED BY <1>1, <1>3, <2>2, <2>4, <3>1, <3>2
  <2>6. Dispatch!NoneAgain
    BY <2>5 DEF Dispatch!NoneAgain
  <2>7. Undelivered(w)'
    BY <2>1 DEF Undelivered, Dispatch!HasDelivered
  <2> QED BY <1>1, <2>6, <2>7 DEF AloneInv, Alone
<1>10. ASSUME NEW w \in Worker, Dispatch!Run(w)
       PROVE  AloneInv' /\ Dispatch!NoneAgain
  <2>1. CASE Dispatch!NextTarget(w) /\ work'[w].pc # "deliver"
    <3>1. UNCHANGED inbox
      BY <2>1 DEF Dispatch!NextTarget
    <3> QED BY <1>7, <2>1, <3>1
  <2>2. CASE Dispatch!RecordOutcome(w) \/ Dispatch!Finish(w)
    <3>1. work'[w].pc # "deliver" /\ UNCHANGED inbox
      BY <1>1, <2>2 DEF Dispatch!RecordOutcome, Dispatch!Finish, Dispatch!Idle, Dispatch!Work
    <3> QED BY <1>7, <3>1
  <2> QED BY <1>8, <1>9, <1>10, <2>1, <2>2 DEF Dispatch!Run
<1>11. ASSUME NEW w \in Worker, Dispatch!Die(w) \/ \E e \in Event : Dispatch!Dispatch(w, e)
       PROVE  AloneInv' /\ Dispatch!NoneAgain
  <2>1. work'[w].pc # "deliver" /\ UNCHANGED inbox
    <3>1. CASE Dispatch!Die(w)
      BY <1>1, <3>1 DEF Dispatch!Die, Dispatch!Idle
    <3>2. ASSUME NEW e \in Event, Dispatch!Dispatch(w, e)
          PROVE  work'[w].pc # "deliver" /\ UNCHANGED inbox
      <4> DEFINE q == [Dispatch!Idle EXCEPT !.pc = "next", !.event = e]
      <4>1. q.pc = "next" /\ work'[w] = q /\ UNCHANGED inbox
        BY <1>1, <3>2 DEF Dispatch!Dispatch, Dispatch!Idle
      <4> QED BY <4>1
    <3> QED BY <1>11, <3>1, <3>2
  <2> QED BY <1>7, <2>1
<1> QED BY <1>6, <1>10, <1>11 DEF Dispatch!Next

\* One worker after the other, dying anywhere: a target does not hear of an event
\* again once the log has it as delivered (hasDelivered).
THEOREM NoneAgainHolds ==
  ASSUME Dispatch!NotificationDispatcherAssumption, Alone
  PROVE  Dispatch!Spec => [][Dispatch!NoneAgain]_(Dispatch!vars)
<1>1. Dispatch!Init /\ DispatchInv => AloneInv
  BY DEF Dispatch!Init, AloneInv, Dispatch!Idle
<1> QED BY <1>1, DispatchInvariant, AloneStep, PTL DEF Dispatch!Spec

-----------------------------------------------------------------------------
(* Commands and what they start *)

CONSTANTS Platforms, Descendants, MayLeave, MaxOutputBytes, MaxWritten
VARIABLES platform, child, descendant, timer, mode, written, captured, truncated, result

Process == INSTANCE ProcessRunner

\* The timer fires with the child gone and a group that was ended stays ended; after
\* the result nothing changes that the result tells of.
ProcessInv ==
  /\ Process!TypeOK
  /\ timer # "fired" => mode = "none"
  /\ timer = "cleared" => result # Process!NoResult
  /\ result # Process!NoResult => timer # "armed" /\ child \notin {"starting", "running"}
  /\ timer = "fired" => child \notin {"starting", "running"}
  /\ Process!ExitIsOwn
  /\ Process!ModeTellsWhatEnded
  /\ Process!OutputUpToLimit

LEMMA ProcessStep ==
  ASSUME Process!ProcessAssumption, ProcessInv, [Process!Next]_(Process!processVars)
  PROVE  ProcessInv'
<1> USE DEF Process!ProcessAssumption
<1> DEFINE OutputIs == written \in 0 .. MaxWritten /\ captured \in 0 .. MaxOutputBytes
                       /\ truncated \in BOOLEAN /\ Process!OutputUpToLimit
<1>1. OutputIs
  BY DEF ProcessInv, Process!TypeOK
<1>2. CASE UNCHANGED Process!processVars
  BY <1>2 DEF ProcessInv, Process!processVars, Process!TypeOK, Process!ExitIsOwn,
             Process!ModeTellsWhatEnded, Process!OutputUpToLimit, Process!Grouped, Process!Running
<1>3. ASSUME NEW starts \in BOOLEAN, Process!Spawn(starts)
      PROVE  ProcessInv'
  BY <1>3 DEF ProcessInv, Process!Spawn, Process!TypeOK, Process!ExitIsOwn,
             Process!ModeTellsWhatEnded, Process!OutputUpToLimit, Process!Grouped, Process!Running
<1>4. ASSUME NEW d \in Descendants, NEW grouped \in BOOLEAN, NEW holds \in BOOLEAN,
             Process!Fork(d, grouped, holds)
      PROVE  ProcessInv'
  <2>1. descendant' \in [Descendants -> Process!Processes]
    BY <1>4 DEF ProcessInv, Process!TypeOK, Process!Fork, Process!Processes
  <2>2. ASSUME timer = "fired", mode = "process_group"
        PROVE  Process!Grouped' = {}
    <3>1. Process!Grouped = {} /\ child # "running"
      BY <2>2 DEF ProcessInv, Process!ModeTellsWhatEnded
    <3>2. ~grouped
      BY <1>4, <3>1 DEF Process!Fork, Process!MayFork
    <3>3. ASSUME NEW e \in Descendants, e \in Process!Grouped'
          PROVE  e \in Process!Grouped
      BY <1>4, <3>2, <3>3 DEF Process!Fork, Process!Grouped, Process!Running, ProcessInv,
             Process!TypeOK, Process!Processes
    <3> QED BY <3>1, <3>3 DEF Process!Grouped, Process!Running
  <2> QED BY <1>4, <2>1, <2>2 DEF ProcessInv, Process!Fork, Process!TypeOK, Process!ExitIsOwn,
             Process!ModeTellsWhatEnded, Process!OutputUpToLimit
<1>5. ASSUME NEW code \in {"zero", "nonzero"}, Process!EndChild(code)
      PROVE  ProcessInv'
  BY <1>5 DEF ProcessInv, Process!EndChild, Process!TypeOK, Process!ExitIsOwn,
             Process!ModeTellsWhatEnded, Process!OutputUpToLimit, Process!Grouped, Process!Running
<1>6. ASSUME NEW d \in Descendants, Process!EndDescendant(d)
      PROVE  ProcessInv'
  <2>1. descendant' \in [Descendants -> Process!Processes]
    BY <1>6 DEF ProcessInv, Process!TypeOK, Process!EndDescendant, Process!Processes
  <2>2. Process!Grouped' \subseteq Process!Grouped
    BY <1>6 DEF Process!EndDescendant, Process!Grouped, Process!Running, ProcessInv,
             Process!TypeOK, Process!Processes
  <2> QED BY <1>6, <2>1, <2>2 DEF ProcessInv, Process!EndDescendant, Process!TypeOK,
             Process!ExitIsOwn, Process!ModeTellsWhatEnded, Process!OutputUpToLimit
<1>7. ASSUME NEW bytes \in 1 .. 2, Process!Write(bytes)
      PROVE  ProcessInv'
  <2>1. OutputIs'
    <3>1. /\ written \in Nat /\ captured \in Nat /\ bytes \in {1, 2}
          /\ captured = IF written < MaxOutputBytes THEN written ELSE MaxOutputBytes
          /\ truncated \in BOOLEAN /\ (truncated <=> written > MaxOutputBytes)
      BY <1>1 DEF Process!OutputUpToLimit, Process!Less
    <3>2. /\ written' = written + bytes /\ written' <= MaxWritten
          /\ captured' = captured + (IF bytes < MaxOutputBytes - captured
                                       THEN bytes ELSE MaxOutputBytes - captured)
          /\ truncated' = (truncated \/ bytes > MaxOutputBytes - captured)
      BY <1>7 DEF Process!Write, Process!Capture, Process!Less
    <3>3. truncated' \in BOOLEAN /\ (truncated' <=> truncated \/ bytes > MaxOutputBytes - captured)
      BY <3>1, <3>2
    <3>4. (truncated \/ bytes > MaxOutputBytes - captured) <=> written + bytes > MaxOutputBytes
      BY <3>1
    <3>5. truncated' <=> written' > MaxOutputBytes
      BY <3>2, <3>3, <3>4
    <3>6. written' \in 0 .. MaxWritten /\ captured' \in 0 .. MaxOutputBytes
          /\ captured' = IF written' < MaxOutputBytes THEN written' ELSE MaxOutputBytes
      BY <3>1, <3>2
    <3> QED BY <3>3, <3>5, <3>6 DEF Process!OutputUpToLimit, Process!Less
  <2> HIDE DEF OutputIs
  <2>2. written' \in 0 .. MaxWritten /\ captured' \in 0 .. MaxOutputBytes
        /\ truncated' \in BOOLEAN /\ Process!OutputUpToLimit'
    BY <2>1 DEF OutputIs
  <2> QED BY <1>7, <2>2 DEF ProcessInv, Process!Write, Process!TypeOK, Process!ExitIsOwn,
             Process!ModeTellsWhatEnded, Process!Grouped, Process!Running
<1>8. CASE Process!TimeOut
  <2>1. descendant' \in [Descendants -> Process!Processes]
    <3>1. descendant \in [Descendants -> Process!Processes]
      BY DEF ProcessInv, Process!TypeOK
    <3>2. [d \in Descendants |-> IF d \in Process!Grouped
             THEN [descendant[d] EXCEPT !.runs = FALSE] ELSE descendant[d]]
            \in [Descendants -> Process!Processes]
      BY <3>1 DEF Process!Processes
    <3> QED BY <1>8, <3>1, <3>2 DEF Process!TimeOut, Process!TerminateProcessTree
  <2>2. child' \notin {"starting", "running"} /\ child' \in {"missing", "zero", "nonzero", "killed"}
    BY <1>8 DEF ProcessInv, Process!TypeOK, Process!TimeOut, Process!TerminateProcessTree,
             Process!KillParent
  <2>3. mode' \in {"process_group", "parent_only"}
    BY <1>8 DEF Process!TimeOut, Process!TerminateProcessTree
  <2>4. ASSUME mode' = "process_group" PROVE Process!Grouped' = {}
    <3>1. descendant' = [d \in Descendants |-> IF d \in Process!Grouped
                           THEN [descendant[d] EXCEPT !.runs = FALSE] ELSE descendant[d]]
      BY <1>8, <2>4 DEF Process!TimeOut, Process!TerminateProcessTree
    <3>2. ASSUME NEW d \in Descendants, descendant'[d].runs, descendant'[d].grouped
          PROVE  FALSE
      <4>1. CASE d \in Process!Grouped
        BY <3>1, <3>2, <4>1 DEF ProcessInv, Process!TypeOK, Process!Processes
      <4>2. CASE d \notin Process!Grouped
        BY <3>1, <3>2, <4>2 DEF Process!Grouped, Process!Running
      <4> QED BY <4>1, <4>2
    <3> QED BY <3>2 DEF Process!Grouped, Process!Running
  <2>5. result = Process!NoResult
    BY <1>8 DEF ProcessInv, Process!TimeOut
  <2> QED BY <1>8, <2>1, <2>2, <2>3, <2>4, <2>5 DEF ProcessInv, Process!TimeOut,
             Process!TypeOK, Process!ExitIsOwn, Process!ModeTellsWhatEnded,
             Process!OutputUpToLimit
<1>9. CASE Process!Close
  <2>1. /\ result' \in Process!Results /\ result'.exitCode = Process!ExitCode
        /\ timer # "fired" /\ child \in {"zero", "nonzero"} => result'.errorCode = "none"
    BY <1>9 DEF Process!Close, Process!Results, Process!ExitCode
  <2>2. result' # Process!NoResult
    BY <2>1 DEF Process!Results, Process!NoResult
  <2>3. Process!ExitIsOwn'
    BY <1>9, <2>1 DEF Process!Close, Process!ExitCode, Process!ExitIsOwn, ProcessInv, Process!TypeOK
  <2> QED BY <1>9, <2>1, <2>2, <2>3 DEF ProcessInv, Process!Close, Process!Closable,
             Process!TypeOK, Process!ModeTellsWhatEnded, Process!OutputUpToLimit,
             Process!Grouped, Process!Running
<1> QED BY <1>2, <1>3, <1>4, <1>5, <1>6, <1>7, <1>8, <1>9 DEF Process!Next

LEMMA ProcessInvariant ==
  ASSUME Process!ProcessAssumption PROVE Process!Spec => []ProcessInv
<1>1. ASSUME Process!Init PROVE Process!OutputUpToLimit
  <2>1. written = 0 /\ captured = 0 /\ truncated = FALSE /\ MaxOutputBytes \in Nat
    BY <1>1 DEF Process!Init, Process!ProcessAssumption
  <2>2. ~truncated /\ ~(written > MaxOutputBytes)
    BY <2>1
  <2> QED BY <2>1, <2>2 DEF Process!OutputUpToLimit, Process!Less
<1>2. ASSUME Process!Init PROVE ProcessInv
  <2>1. descendant \in [Descendants -> Process!Processes]
    BY <1>2 DEF Process!Init, Process!Processes, Process!NotStarted
  <2>2. written \in 0 .. MaxWritten /\ captured \in 0 .. MaxOutputBytes
    BY <1>2 DEF Process!Init, Process!ProcessAssumption
  <2>3. truncated \in BOOLEAN /\ result \in Process!Results \cup {Process!NoResult}
    BY <1>2, Zenon DEF Process!Init
  <2>4. Process!TypeOK
    BY <1>2, <2>1, <2>2, <2>3 DEF Process!Init, Process!TypeOK
  <2> QED BY <1>1, <1>2, <2>4 DEF Process!Init, ProcessInv, Process!ExitIsOwn,
             Process!ModeTellsWhatEnded
<1> QED BY <1>2, ProcessStep, PTL DEF Process!Spec

\* Whatever the command starts, an exit code is the command's own and comes before the
\* timer fires (run of process-runner.ts).
THEOREM ExitIsOwnHolds ==
  ASSUME Process!ProcessAssumption
  PROVE  Process!Spec => [](Process!TypeOK /\ Process!ExitIsOwn)
<1>1. ProcessInv => Process!TypeOK /\ Process!ExitIsOwn
  BY DEF ProcessInv
<1> QED BY <1>1, ProcessInvariant, PTL

\* A timeout that says it ended the group has ended it for good, however many processes
\* the command starts and whether or not they leave the group (terminateProcessTree).
THEOREM ModeTellsWhatEndedHolds ==
  ASSUME Process!ProcessAssumption
  PROVE  Process!Spec => []Process!ModeTellsWhatEnded
<1>1. ProcessInv => Process!ModeTellsWhatEnded
  BY DEF ProcessInv
<1> QED BY <1>1, ProcessInvariant, PTL

\* In pieces of any order, the output is kept up to the limit and no further, and the
\* result says so (capture).
THEOREM OutputUpToLimitHolds ==
  ASSUME Process!ProcessAssumption
  PROVE  Process!Spec => []Process!OutputUpToLimit
<1>1. ProcessInv => Process!OutputUpToLimit
  BY DEF ProcessInv
<1> QED BY <1>1, ProcessInvariant, PTL

-----------------------------------------------------------------------------
(* The validation of one target *)

CONSTANTS Kinds, DaemonFails
VARIABLES kind, stage, script, container, exit, removed, telemetry, read, files, directory, verdict

Try == INSTANCE TargetValidation WITH result <- verdict

\* How far the runner is: what it has not run yet has no exit code.
NotRun(action) ==
  \/ stage \in {Try!At("preparing", "install"), Try!At("running", action), Try!At("waiting", action)}
  \/ action = "uninstall" /\ stage.action = "install" /\ stage.step # "done"

\* A command that ended well is a script that came to its end, and its container
\* with it.
ScriptInv(action) ==
  /\ NotRun(action) => exit[action] = "none"
  /\ exit[action] = "zero" => script[action] = "ended ok"
  /\ script[action] = "ended ok" => container[action] \notin {"running", "exited"}
  /\ kind = "pwsh" => container[action] = "none"

\* What is reported as done is reported by the script whose turn it was.
ReportsInv ==
  /\ \A action \in Try!Actions : read[action] <= Len(telemetry)
  /\ \A i \in 1 .. Len(telemetry) :
       telemetry[i].status # "failed" => telemetry[i] = Try!Succeeded(telemetry[i].action)

TryInv ==
  /\ Try!TypeOK
  /\ verdict # Try!NoResult => stage.step = "done"
  /\ \A action \in Try!Actions : ScriptInv(action)
  /\ ReportsInv
  /\ Try!PassedMeansTried

LEMMA TryReport ==
  ASSUME TryInv, NEW action \in Try!Actions, Try!ReportResult(action)
  PROVE  TryInv'
<1>1. script[action] \in {"ok", "bad"} /\ script \in [Try!Actions -> Try!Scripts]
  BY DEF TryInv, Try!TypeOK, Try!ReportResult
<1>2. PICK report \in Try!Payload :
        /\ telemetry' \in {telemetry, Append(telemetry, report)}
        /\ report.status # "failed" => report = Try!Succeeded(report.action)
  <2> DEFINE well == Try!Succeeded(action)
             badly == [action |-> action, status |-> "failed"]
  <2>1. well \in Try!Payload /\ well.action = action /\ well = Try!Succeeded(well.action)
    BY DEF Try!Payload, Try!Succeeded, Try!Actions
  <2>2. badly \in Try!Payload /\ badly.status = "failed"
    BY DEF Try!Payload
  <2>3. telemetry' \in {telemetry, Append(telemetry, IF script[action] = "ok" THEN well ELSE badly)}
    BY DEF Try!ReportResult
  <2> HIDE DEF well, badly
  <2> QED BY <2>1, <2>2, <2>3
<1>3. telemetry \in Seq(Try!Payload) /\ telemetry' \in Seq(Try!Payload)
  <2>1. telemetry \in Seq(Try!Payload)
    BY DEF TryInv, Try!TypeOK
  <2> QED BY <1>2, <2>1
<1>4. Len(telemetry') >= Len(telemetry)
  BY <1>2, <1>3
<1>5. ReportsInv'
  <2>1. ASSUME NEW i \in 1 .. Len(telemetry'), telemetry'[i].status # "failed"
        PROVE  telemetry'[i] = Try!Succeeded(telemetry'[i].action)
    BY <1>2, <1>3, <2>1 DEF TryInv, ReportsInv
  <2>2. ASSUME NEW b \in Try!Actions PROVE read'[b] <= Len(telemetry')
    <3>1. read' = read /\ read \in [Try!Actions -> Nat]
      BY DEF Try!ReportResult, TryInv, Try!TypeOK
    <3>2. read[b] \in Nat /\ read[b] <= Len(telemetry)
      BY <3>1 DEF TryInv, ReportsInv
    <3>3. Len(telemetry) \in Nat /\ Len(telemetry') \in Nat
      BY <1>3
    <3> QED BY <1>4, <3>1, <3>2, <3>3
  <2> QED BY <2>1, <2>2 DEF ReportsInv
<1>6. verdict.status # "passed" /\ verdict' = verdict
  BY <1>1 DEF TryInv, Try!PassedMeansTried, Try!ReportResult
<1>7. \E progress \in {"reported ok", "reported bad"} : script' = [script EXCEPT ![action] = progress]
  BY DEF Try!ReportResult, Try!ToScript
<1>8. Try!TypeOK'
  BY <1>3, <1>7 DEF TryInv, Try!TypeOK, Try!ReportResult, Try!Scripts
<1>9. ASSUME NEW b \in Try!Actions PROVE ScriptInv(b)'
  <2>1. ScriptInv(b)
    BY DEF TryInv
  <2> QED BY <1>1, <1>7, <2>1 DEF Try!ReportResult, ScriptInv, NotRun
<1> QED BY <1>5, <1>6, <1>8, <1>9 DEF TryInv, Try!ReportResult, Try!PassedMeansTried

\* Nothing else reports.
LEMMA TryStep ==
  ASSUME Try!TargetAssumption, TryInv, [Try!Next]_(Try!targetVars)
  PROVE  TryInv'
<1> DEFINE Quiet == verdict'.status # "passed"
<1>1. /\ kind \in Kinds /\ stage \in Try!Stages /\ script \in [Try!Actions -> Try!Scripts]
      /\ container \in [Try!Actions -> Try!Containers] /\ exit \in [Try!Actions -> Try!Exits]
      /\ removed \in [Try!Actions -> BOOLEAN] /\ telemetry \in Seq(Try!Payload)
      /\ read \in [Try!Actions -> Nat] /\ files \in BOOLEAN /\ directory \in BOOLEAN
      /\ verdict \in Try!Results \cup {Try!NoResult}
      /\ Len(telemetry) \in Nat
  BY DEF TryInv, Try!TypeOK
<1>2. \A action \in Try!Actions : ScriptInv(action)
  BY DEF TryInv
<1>3. stage.step # "done" => verdict = Try!NoResult
  BY DEF TryInv
<1>4. Quiet => Try!PassedMeansTried'
  BY DEF Try!PassedMeansTried
<1>5. ASSUME NEW action \in Try!Actions, script[action] # "ended ok"
      PROVE  verdict.status # "passed"
  BY <1>5 DEF TryInv, Try!PassedMeansTried
<1>6. Try!NoResult.status # "passed"
  BY DEF Try!NoResult
<1>7. CASE UNCHANGED Try!targetVars
  BY <1>7 DEF TryInv, Try!targetVars, Try!TypeOK, ScriptInv, NotRun, ReportsInv, Try!PassedMeansTried
<1>8. ASSUME NEW action \in Try!Actions, Try!ChangeFiles(action)
      PROVE  TryInv'
  <2>1. script[action] = "command" /\ files' \in BOOLEAN /\ verdict' = verdict
    BY <1>8 DEF Try!ChangeFiles
  <2>2. Quiet
    BY <1>5, <2>1
  <2> QED BY <1>1, <1>4, <1>8, <2>1, <2>2 DEF TryInv, Try!ChangeFiles, Try!TypeOK, ScriptInv,
             NotRun, ReportsInv
<1>9. ASSUME NEW action \in Try!Actions, NEW well \in BOOLEAN, Try!EndCommand(action, well)
      PROVE  TryInv'
  <2>1. /\ script[action] = "command" /\ verdict' = verdict
        /\ \E progress \in {"ok", "bad"} : script' = [script EXCEPT ![action] = progress]
    BY <1>9 DEF Try!EndCommand, Try!ToScript
  <2>2. Quiet
    BY <1>5, <2>1
  <2>3. script' \in [Try!Actions -> Try!Scripts]
    BY <1>1, <2>1 DEF Try!Scripts
  <2>4. ASSUME NEW b \in Try!Actions PROVE ScriptInv(b)'
    BY <1>1, <1>2, <1>9, <2>1 DEF Try!EndCommand, ScriptInv, NotRun
  <2> QED BY <1>1, <1>4, <1>9, <2>1, <2>2, <2>3, <2>4 DEF TryInv, Try!EndCommand, Try!TypeOK,
             ReportsInv
<1>10. ASSUME NEW action \in Try!Actions, NEW well \in BOOLEAN, Try!EndScript(action, well)
       PROVE  TryInv'
  <2>1. /\ script[action] \in {"reported ok", "reported bad"} /\ verdict' = verdict
        /\ script' = [script EXCEPT ![action] = IF script[action] = "reported ok" /\ well
                                                THEN "ended ok" ELSE "ended bad"]
        /\ container' = IF kind = "docker"
                        THEN [container EXCEPT ![action] = IF well THEN "gone" ELSE "exited"]
                        ELSE container
    BY <1>10 DEF Try!EndScript, Try!ToScript
  <2>2. Quiet
    BY <1>5, <2>1
  <2>3. script' \in [Try!Actions -> Try!Scripts] /\ container' \in [Try!Actions -> Try!Containers]
    BY <1>1, <2>1 DEF Try!Scripts, Try!Containers
  <2>4. kind \in {"docker", "pwsh"}
    BY <1>1 DEF Try!TargetAssumption
  <2>5. ASSUME NEW b \in Try!Actions PROVE ScriptInv(b)'
    BY <1>1, <1>2, <1>10, <2>1, <2>4 DEF Try!EndScript, ScriptInv, NotRun
  <2> QED BY <1>1, <1>4, <1>10, <2>1, <2>2, <2>3, <2>5 DEF TryInv, Try!EndScript, Try!TypeOK,
             ReportsInv
<1>11. CASE Try!Throw \/ Try!Unavailable
  <2>1. /\ stage' = Try!At("done", "install") /\ verdict' \in Try!Results
        /\ verdict'.status = "failed" /\ directory' \in BOOLEAN
        /\ UNCHANGED <<kind, script, container, exit, removed, telemetry, read, files>>
        /\ stage \in {Try!At("preparing", "install"), Try!At("deciding", "uninstall")}
    <3>1. \A code \in {"runner_error", "runner_unavailable", "runner_timeout"} :
            Try!Failed(code) \in Try!Results /\ Try!Failed(code).status = "failed"
      BY DEF Try!Failed, Try!Results
    <3>2. CASE Try!Throw
      BY <3>1, <3>2 DEF Try!Throw
    <3>3. CASE Try!Unavailable
      BY <1>1, <3>1, <3>3 DEF Try!Unavailable
    <3> QED BY <1>11, <3>2, <3>3
  <2>2. Quiet
    BY <2>1
  <2>3. stage' \in Try!Stages /\ stage'.step = "done"
    BY <2>1 DEF Try!At, Try!Stages, Try!Actions
  <2>4. ASSUME NEW b \in Try!Actions PROVE ScriptInv(b)'
    BY <1>1, <1>2, <2>1 DEF ScriptInv, NotRun, Try!At
  <2> QED BY <1>1, <1>4, <2>1, <2>2, <2>3, <2>4 DEF TryInv, Try!TypeOK, ReportsInv
<1>12. CASE Try!Prepare
  <2>1. stage = Try!At("preparing", "install") /\ stage' = Try!At("running", "install")
    BY <1>12 DEF Try!Prepare
  <2>2. stage' \in Try!Stages /\ stage.step # "done" /\ Quiet
    BY <1>3, <1>6, <1>12, <2>1 DEF Try!At, Try!Stages, Try!Actions, Try!Prepare
  <2>3. ASSUME NEW b \in Try!Actions PROVE ScriptInv(b)'
    BY <1>1, <1>2, <1>12, <2>1 DEF ScriptInv, NotRun, Try!At, Try!Prepare
  <2> QED BY <1>1, <1>3, <1>4, <1>12, <2>2, <2>3 DEF TryInv, Try!TypeOK, ReportsInv, Try!Prepare
<1>13. ASSUME NEW action \in Try!Actions, Try!Run(action)
       PROVE  TryInv'
  <2>1. /\ stage = Try!At("running", action) /\ stage' = Try!At("waiting", action)
        /\ script' = [script EXCEPT ![action] = "command"]
        /\ UNCHANGED <<kind, exit, removed, telemetry, read, files, directory, verdict>>
    BY <1>13 DEF Try!Run, Try!ToScript
  <2>6. PICK begun \in {"running", "none"} :
             /\ container' = [container EXCEPT ![action] = begun]
             /\ kind = "pwsh" => begun = "none"
    BY <1>13 DEF Try!Run
  <2>2. stage' \in Try!Stages /\ stage.step # "done" /\ Quiet
    BY <1>3, <1>6, <1>13, <2>1 DEF Try!At, Try!Stages, Try!Actions, Try!Run
  <2>3. script' \in [Try!Actions -> Try!Scripts] /\ container' \in [Try!Actions -> Try!Containers]
    BY <1>1, <2>1, <2>6 DEF Try!Scripts, Try!Containers
  <2>4. exit[action] = "none"
    BY <1>2, <2>1 DEF ScriptInv, NotRun
  <2>5. ASSUME NEW b \in Try!Actions PROVE ScriptInv(b)'
    <3>1. NotRun(b)' => NotRun(b)
      BY <2>1 DEF NotRun, Try!At, Try!Actions
    <3>2. ScriptInv(b)
      BY <1>2
    <3> HIDE DEF NotRun
    <3> QED BY <1>1, <2>1, <2>4, <2>6, <3>1, <3>2 DEF ScriptInv
  <2> QED BY <1>1, <1>3, <1>4, <1>13, <2>2, <2>3, <2>5 DEF TryInv, Try!TypeOK, ReportsInv, Try!Run
<1>14. ASSUME NEW action \in Try!Actions, NEW code \in Try!Exits, Try!Close(action, code),
              stage \in {Try!At("running", action), Try!At("waiting", action)},
              code = "zero" => script[action] = "ended ok",
              \/ script' = script
              \/ code # "zero" /\ script' = [script EXCEPT ![action] = "killed"]
       PROVE  TryInv'
  <2>1. PICK step \in {"removing", "reading"} : stage' = Try!At(step, action)
    BY <1>14 DEF Try!Close
  <2>6. PICK was \in {"running", "waiting"} : stage = Try!At(was, action)
    BY <1>14
  <2>2. /\ exit' = [exit EXCEPT ![action] = code]
        /\ UNCHANGED <<kind, container, removed, telemetry, read, files, directory, verdict>>
    BY <1>14 DEF Try!Close
  <2>3. stage' \in Try!Stages /\ stage.step # "done" /\ Quiet
    BY <1>3, <1>6, <2>1, <2>2, <2>6 DEF Try!At, Try!Stages, Try!Actions
  <2>4. script' \in [Try!Actions -> Try!Scripts] /\ exit' \in [Try!Actions -> Try!Exits]
    BY <1>1, <1>14, <2>2 DEF Try!Scripts
  <2>5. ASSUME NEW b \in Try!Actions PROVE ScriptInv(b)'
    <3>1. NotRun(b)' => NotRun(b) /\ b # action
      BY <2>1, <2>6 DEF NotRun, Try!At, Try!Actions
    <3>2. ScriptInv(b)
      BY <1>2
    <3> HIDE DEF NotRun
    <3> QED BY <1>1, <1>14, <2>2, <3>1, <3>2 DEF ScriptInv
  <2> QED BY <1>1, <1>3, <1>4, <2>2, <2>3, <2>4, <2>5 DEF TryInv, Try!TypeOK, ReportsInv
<1>15. ASSUME NEW action \in Try!Actions, NEW code \in {"nonzero", "unavailable"},
              Try!FailToRun(action, code)
       PROVE  TryInv'
  <2>1. Try!Close(action, code) /\ script' = script /\ stage = Try!At("running", action)
    BY <1>15 DEF Try!FailToRun, Try!Close
  <2>2. code \in Try!Exits /\ code # "zero"
    BY DEF Try!Exits
  <2> QED BY <1>14, <2>1, <2>2
<1>16. ASSUME NEW action \in Try!Actions, Try!Ended(action)
       PROVE  TryInv'
  <2>1. PICK code \in {"zero", "nonzero"} :
          /\ Try!Close(action, code) /\ script' = script /\ stage = Try!At("waiting", action)
          /\ code = "zero" => script[action] = "ended ok"
    BY <1>16 DEF Try!Ended
  <2>2. code \in Try!Exits
    BY DEF Try!Exits
  <2> QED BY <1>14, <2>1, <2>2
<1>17. ASSUME NEW action \in Try!Actions, Try!TimeOut(action)
       PROVE  TryInv'
  <2>1. Try!Close(action, "timeout") /\ stage = Try!At("waiting", action)
        /\ (script' = script \/ script' = [script EXCEPT ![action] = "killed"])
    BY <1>17 DEF Try!TimeOut, Try!ToScript
  <2>2. "timeout" \in Try!Exits
    BY DEF Try!Exits
  <2> QED BY <1>14, <2>1, <2>2
<1>18. ASSUME NEW action \in Try!Actions, NEW answers \in BOOLEAN,
              Try!RemoveContainer(action, answers)
       PROVE  TryInv'
  <2>1. /\ stage = Try!At("removing", action) /\ stage' = Try!At("inspecting", action)
        /\ \/ /\ container[action] \in {"running", "exited"}
              /\ container' = [container EXCEPT ![action] = "gone"]
           \/ container' = container
        /\ \/ script[action] # "ended ok" /\ script' = [script EXCEPT ![action] = "killed"]
           \/ script' = script
        /\ UNCHANGED <<kind, exit, removed, telemetry, read, files, directory, verdict>>
    BY <1>18 DEF Try!RemoveContainer, Try!ToScript
  <2>2. stage' \in Try!Stages /\ stage.step # "done" /\ Quiet
    BY <1>3, <1>6, <2>1 DEF Try!At, Try!Stages, Try!Actions
  <2>3. script' \in [Try!Actions -> Try!Scripts] /\ container' \in [Try!Actions -> Try!Containers]
    BY <1>1, <2>1 DEF Try!Scripts, Try!Containers
  <2>4. ASSUME NEW b \in Try!Actions PROVE ScriptInv(b)'
    <3>1. NotRun(b)' => NotRun(b)
      BY <2>1 DEF NotRun, Try!At, Try!Actions
    <3>2. ScriptInv(b) /\ ScriptInv(action)
      BY <1>2
    <3> HIDE DEF NotRun
    <3> QED BY <1>1, <2>1, <3>1, <3>2 DEF ScriptInv
  <2> QED BY <1>1, <1>3, <1>4, <2>1, <2>2, <2>3, <2>4 DEF TryInv, Try!TypeOK, ReportsInv
<1>19. ASSUME NEW action \in Try!Actions, NEW answers \in BOOLEAN,
              Try!InspectContainer(action, answers)
       PROVE  TryInv'
  <2>1. /\ stage = Try!At("inspecting", action) /\ stage' = Try!At("reading", action)
        /\ UNCHANGED <<kind, script, container, exit, telemetry, read, files, directory, verdict>>
    BY <1>19 DEF Try!InspectContainer
  <2>2. removed' \in [Try!Actions -> BOOLEAN]
    BY <1>1, <1>19 DEF Try!InspectContainer
  <2>3. stage' \in Try!Stages /\ stage.step # "done" /\ Quiet
    BY <1>3, <1>6, <2>1 DEF Try!At, Try!Stages, Try!Actions
  <2>4. ASSUME NEW b \in Try!Actions PROVE ScriptInv(b)'
    <3>1. NotRun(b)' => NotRun(b)
      BY <2>1 DEF NotRun, Try!At, Try!Actions
    <3>2. ScriptInv(b)
      BY <1>2
    <3> HIDE DEF NotRun
    <3> QED BY <1>1, <2>1, <3>1, <3>2 DEF ScriptInv
  <2> QED BY <1>1, <1>3, <1>4, <2>1, <2>2, <2>3, <2>4 DEF TryInv, Try!TypeOK, ReportsInv
<1>20. ASSUME NEW action \in Try!Actions, Try!ReadTelemetry(action)
       PROVE  TryInv'
  <2>1. /\ stage = Try!At("reading", action)
        /\ \/ action = "install" /\ stage' = Try!At("running", "uninstall")
           \/ stage' = Try!At("deciding", "uninstall")
        /\ read' = [read EXCEPT ![action] = Len(telemetry)]
        /\ UNCHANGED <<kind, script, container, exit, removed, telemetry, files, directory, verdict>>
    BY <1>20 DEF Try!ReadTelemetry
  <2>2. stage' \in Try!Stages /\ stage.step # "done" /\ Quiet
    BY <1>3, <1>6, <2>1 DEF Try!At, Try!Stages, Try!Actions
  <2>3. read' \in [Try!Actions -> Nat]
    BY <1>1, <2>1
  <2>4. ASSUME NEW b \in Try!Actions PROVE ScriptInv(b)'
    <3>1. NotRun(b)' => NotRun(b)
      BY <2>1 DEF NotRun, Try!At, Try!Actions
    <3>2. ScriptInv(b)
      BY <1>2
    <3> HIDE DEF NotRun
    <3> QED BY <1>1, <2>1, <3>1, <3>2 DEF ScriptInv
  <2>5. ASSUME NEW b \in Try!Actions PROVE read'[b] <= Len(telemetry')
    <3>1. read[b] <= Len(telemetry) /\ telemetry' = telemetry
      BY <2>1 DEF TryInv, ReportsInv
    <3>2. read'[b] = read[b] \/ read'[b] = Len(telemetry)
      BY <1>1, <2>1
    <3>3. read[b] \in Nat /\ Len(telemetry) \in Nat
      BY <1>1
    <3> QED BY <3>1, <3>2, <3>3
  <2>6. ReportsInv'
    BY <2>1, <2>5 DEF TryInv, ReportsInv
  <2> QED BY <1>1, <1>3, <1>4, <2>1, <2>2, <2>3, <2>4, <2>6 DEF TryInv, Try!TypeOK
<1>21. CASE Try!Decide
  <2>1. /\ stage = Try!At("deciding", "uninstall") /\ stage' = Try!At("done", "uninstall")
        /\ verdict' = [status |-> IF Try!ErrorCode = "none" THEN "passed" ELSE "failed",
                       errorCode |-> Try!ErrorCode]
        /\ directory' = FALSE
        /\ UNCHANGED <<kind, script, container, exit, removed, telemetry, read, files>>
    BY <1>21 DEF Try!Decide
  <2>2. Try!ErrorCode \in {"none", "runner_timeout", "runner_unavailable",
                           "container_cleanup_failed", "install_failed", "uninstall_failed",
                           "telemetry_missing", "cleanup_failed"}
    BY DEF Try!ErrorCode
  <2>3. verdict' \in Try!Results /\ directory' \in BOOLEAN
    BY <2>1, <2>2 DEF Try!Results
  <2>4. stage' \in Try!Stages /\ stage'.step = "done"
    BY <2>1 DEF Try!At, Try!Stages, Try!Actions
  <2>5. ASSUME NEW b \in Try!Actions PROVE ScriptInv(b)'
    <3>1. NotRun(b)' => NotRun(b)
      BY <2>1 DEF NotRun, Try!At, Try!Actions
    <3>2. ScriptInv(b)
      BY <1>2
    <3> HIDE DEF NotRun
    <3> QED BY <2>1, <3>1, <3>2 DEF ScriptInv
  <2>6. ASSUME verdict'.status = "passed" PROVE Try!PassedMeansTried'
    <3>1. Try!ErrorCode = "none"
      BY <2>1, <2>6
    <3>2. /\ exit["install"] = "zero" /\ exit["uninstall"] = "zero" /\ ~files
          /\ Try!TelemetrySeen("install") /\ Try!TelemetrySeen("uninstall")
      BY <3>1 DEF Try!ErrorCode
    <3>3. \A action \in Try!Actions :
            script[action] = "ended ok" /\ container[action] \notin {"running", "exited"}
      BY <1>2, <3>2 DEF ScriptInv, Try!Actions
    <3>4. read["install"] \in 0 .. Len(telemetry) /\ read["uninstall"] \in 0 .. Len(telemetry)
      <4>1. read["install"] <= Len(telemetry) /\ read["uninstall"] <= Len(telemetry)
        BY DEF TryInv, ReportsInv, Try!Actions
      <4>2. read["install"] \in Nat /\ read["uninstall"] \in Nat /\ Len(telemetry) \in Nat
        BY <1>1 DEF Try!Actions
      <4> QED BY <4>1, <4>2
    <3>5. PICK i \in 1 .. read["install"] : telemetry[i].status = "succeeded"
      BY <3>2 DEF Try!TelemetrySeen, Try!Succeeded
    <3>6. PICK j \in read["install"] + 1 .. read["uninstall"] : telemetry[j].status = "uninstalled"
      BY <3>2 DEF Try!TelemetrySeen, Try!Succeeded
    <3>7. ASSUME NEW k \in 1 .. Len(telemetry)
          PROVE  /\ telemetry[k].status = "succeeded" => telemetry[k] = Try!Succeeded("install")
                 /\ telemetry[k].status = "uninstalled" => telemetry[k] = Try!Succeeded("uninstall")
      <4>1. telemetry[k] \in Try!Payload
        BY <1>1
      <4>2. telemetry[k].status # "failed" => telemetry[k] = Try!Succeeded(telemetry[k].action)
        BY DEF TryInv, ReportsInv
      <4> QED BY <4>1, <4>2 DEF Try!Payload, Try!Succeeded, Try!Actions
    <3>8. telemetry[i] = Try!Succeeded("install") /\ telemetry[j] = Try!Succeeded("uninstall")
      BY <3>4, <3>5, <3>6, <3>7
    <3> QED BY <2>1, <3>2, <3>3, <3>8 DEF Try!PassedMeansTried
  <2>7. Try!PassedMeansTried'
    BY <1>4, <2>6
  <2> QED BY <1>1, <2>1, <2>3, <2>4, <2>5, <2>7 DEF TryInv, Try!TypeOK, ReportsInv
<1>22. CASE Try!Runner
  BY <1>11, <1>12, <1>13, <1>15, <1>16, <1>17, <1>18, <1>19, <1>20, <1>21, <1>22
     DEF Try!Runner, Try!RunScript
<1> QED BY <1>7, <1>8, <1>9, <1>10, <1>22, TryReport DEF Try!Next

LEMMA TryInvariant ==
  ASSUME Try!TargetAssumption PROVE Try!Spec => []TryInv
<1>1. ASSUME Try!Init PROVE TryInv
  <2>1. stage \in Try!Stages
    BY <1>1 DEF Try!Init, Try!At, Try!Stages, Try!Actions
  <2>2. /\ script \in [Try!Actions -> Try!Scripts] /\ container \in [Try!Actions -> Try!Containers]
        /\ exit \in [Try!Actions -> Try!Exits] /\ removed \in [Try!Actions -> BOOLEAN]
        /\ read \in [Try!Actions -> Nat] /\ telemetry \in Seq(Try!Payload)
    BY <1>1 DEF Try!Init, Try!Scripts, Try!Containers, Try!Exits
  <2>3. Try!TypeOK
    BY <1>1, <2>1, <2>2 DEF Try!Init, Try!TypeOK
  <2>4. Try!PassedMeansTried
    BY <1>1 DEF Try!Init, Try!NoResult, Try!PassedMeansTried
  <2> QED BY <1>1, <2>3, <2>4 DEF Try!Init, TryInv, ScriptInv, ReportsInv
<1> QED BY <1>1, TryStep, PTL DEF Try!Spec

\* Whenever the scripts end, report and are killed, a target passes only with both
\* scripts tried out in their turn and nothing left (validateTarget of both runners).
THEOREM PassedMeansTriedHolds ==
  ASSUME Try!TargetAssumption
  PROVE  Try!Spec => [](Try!TypeOK /\ Try!PassedMeansTried)
<1>1. TryInv => Try!TypeOK /\ Try!PassedMeansTried
  BY DEF TryInv
<1> QED BY <1>1, TryInvariant, PTL

-----------------------------------------------------------------------------
(* The transactions of governance, statement by statement *)

CONSTANTS Workers, MaxStarted
VARIABLES row, tx, started

Locks == INSTANCE GovernanceLocking

\* What a transaction has written, of the version, the run and the review.
Writes(v, n, d) ==
  [r \in Locks!Rows |-> IF r = "version" THEN v ELSE IF r = "run" THEN n ELSE d]

\* What each kind has written before its first, second, ... statement and at
\* its end, if every statement found its row.
Course ==
  [begin     |-> << Writes("none", "none", "none"), Writes("validating", "none", "none"),
                    Writes("validating", "running", "none") >>,
   claim     |-> << Writes("none", "none", "none"), Writes("none", "running", "none"),
                    Writes("none", "running", "none") >>,
   passed    |-> << Writes("none", "none", "none"), Writes("none", "running", "none"),
                    Writes("review_required", "running", "none"),
                    Writes("review_required", "passed", "none"),
                    Writes("review_required", "passed", "pending") >>,
   failed    |-> << Writes("none", "none", "none"), Writes("none", "running", "none"),
                    Writes("draft", "running", "none"), Writes("draft", "failed", "none") >>,
   approve   |-> << Writes("none", "none", "none"), Writes("none", "none", "pending"),
                    Writes("published", "none", "pending"),
                    Writes("published", "none", "approved") >>,
   reject    |-> << Writes("none", "none", "none"), Writes("none", "none", "pending"),
                    Writes("draft", "none", "pending"), Writes("draft", "none", "rejected") >>,
   revise    |-> << Writes("none", "none", "none"), Writes("draft", "none", "none"),
                    Writes("draft", "none", "superseded") >>,
   emergency |-> << Writes("none", "none", "none"),
                    Writes("emergency_disabled", "none", "none") >>]

\* What each kind found committed in a row when it locked it.
Found ==
  [begin     |-> [version |-> {"draft"}, run |-> Locks!Open, review |-> {}],
   claim     |-> [version |-> {}, run |-> {"running"}, review |-> {}],
   passed    |-> [version |-> {"validating"}, run |-> {"running"}, review |-> Locks!Open],
   failed    |-> [version |-> {"validating"}, run |-> {"running"}, review |-> {}],
   approve   |-> [version |-> {"review_required"}, run |-> {}, review |-> {"pending"}],
   reject    |-> [version |-> {"review_required"}, run |-> {}, review |-> {"pending"}],
   revise    |-> [version |-> {"review_required", "published"}, run |-> {},
                  review |-> {"pending"}],
   emergency |-> [version |-> {"published"}, run |-> {}, review |-> {}]]

\* A transaction has followed its course; only the revision of a published
\* version finds no review to close.
OnCourse(w) ==
  LET k == tx[w].kind
      n == tx[w].at
  IN /\ n \in 1 .. Len(Locks!Plans[k]) + 1
     /\ \/ tx[w].wrote = Course[k][n]
        \/ /\ k = "revise" /\ n = 3 /\ tx[w].wrote = Course[k][2]
           /\ row["version"] = "published"

\* It holds the rows it wrote, and they are committed as it found them.
HoldsWhatItWrote(w) ==
  /\ tx[w].holds = {r \in Locks!Rows : tx[w].wrote[r] # "none"}
  /\ \A r \in tx[w].holds : row[r] \in Found[tx[w].kind][r]

\* A row is locked once.
LockedOnce == \A w, o \in Workers : w # o => tx[w].holds \cap tx[o].holds = {}

\* The strengthening that is inductive.
LockInv ==
  /\ Locks!TypeOK
  /\ \A w \in Workers : IF Locks!Busy(w) THEN OnCourse(w) /\ HoldsWhatItWrote(w) ELSE tx[w] = Locks!Idle
  /\ LockedOnce
  /\ Locks!RowsAgree

-----------------------------------------------------------------------------
(* The statements of each kind *)

LEMMA KindsAre ==
  Locks!Kinds = {"begin", "claim", "passed", "failed", "approve", "reject", "revise", "emergency"}
BY DEF Locks!Kinds, Locks!Plans

\* Every transaction starts with nothing written.
LEMMA CourseStarts ==
  ASSUME NEW k \in Locks!Kinds
  PROVE  Course[k][1] = Writes("none", "none", "none") /\ Len(Locks!Plans[k]) \in 1 .. 4
BY KindsAre
   DEF Course, Locks!Plans, Locks!BeginValidation, Locks!ClaimValidationRetry, Locks!CompletePassed,
       Locks!CompleteFailed, Locks!Approve, Locks!Reject, Locks!Revise, Locks!EmergencyDisable

\* A statement that finds its row takes its transaction on along the course; a
\* row that was not written before is matched against what the kind may find.
LEMMA CourseGoesOn ==
  ASSUME NEW k \in Locks!Kinds, NEW n \in 1 .. Len(Locks!Plans[k])
  PROVE  LET s == Locks!Plans[k][n] IN
         /\ s.row \in Locks!Rows /\ s.to \in Locks!Values \ {"none"}
         /\ Course[k][n + 1] = [Course[k][n] EXCEPT ![s.row] = s.to]
         /\ Course[k][n][s.row] = "none" => s.from \subseteq Found[k][s.row]
<1> USE DEF Course, Locks!Plans, Locks!Step, Writes, Found, Locks!Rows, Locks!Values
<1>1. CASE k = "begin"
  BY <1>1 DEF Locks!BeginValidation
<1>2. CASE k = "claim"
  BY <1>2 DEF Locks!ClaimValidationRetry
<1>3. CASE k = "passed"
  <2>1. n = 1 \/ n = 2 \/ n = 3 \/ n = 4
    BY <1>3 DEF Locks!CompletePassed
  <2>2. CASE n = 1
    BY <1>3, <2>2 DEF Locks!CompletePassed
  <2>3. CASE n = 2
    BY <1>3, <2>3 DEF Locks!CompletePassed
  <2>4. CASE n = 3
    BY <1>3, <2>4 DEF Locks!CompletePassed
  <2>5. CASE n = 4
    BY <1>3, <2>5 DEF Locks!CompletePassed
  <2> QED BY <2>1, <2>2, <2>3, <2>4, <2>5
<1>4. CASE k = "failed"
  BY <1>4 DEF Locks!CompleteFailed
<1>5. CASE k = "approve"
  BY <1>5 DEF Locks!Approve
<1>6. CASE k = "reject"
  BY <1>6 DEF Locks!Reject
<1>7. CASE k = "revise"
  BY <1>7 DEF Locks!Revise
<1>8. CASE k = "emergency"
  BY <1>8 DEF Locks!EmergencyDisable
<1> QED BY <1>1, <1>2, <1>3, <1>4, <1>5, <1>6, <1>7, <1>8, KindsAre

\* Only the statement on the reviews of a revision may find no row.
LEMMA OnlyRevisionTries ==
  ASSUME NEW k \in Locks!Kinds, NEW n \in 1 .. Len(Locks!Plans[k]), Locks!Plans[k][n].how = "try"
  PROVE  k = "revise" /\ n = 2 /\ Locks!Plans[k][n].row = "review" /\ Locks!Plans[k][n].from = {"pending"}
<1> USE DEF Locks!Plans, Locks!Step
<1>1. CASE k = "begin"
  BY <1>1 DEF Locks!BeginValidation
<1>2. CASE k = "claim"
  BY <1>2 DEF Locks!ClaimValidationRetry
<1>3. CASE k = "passed"
  BY <1>3 DEF Locks!CompletePassed
<1>4. CASE k = "failed"
  BY <1>4 DEF Locks!CompleteFailed
<1>5. CASE k = "approve"
  BY <1>5 DEF Locks!Approve
<1>6. CASE k = "reject"
  BY <1>6 DEF Locks!Reject
<1>7. CASE k = "revise"
  BY <1>7 DEF Locks!Revise
<1>8. CASE k = "emergency"
  BY <1>8 DEF Locks!EmergencyDisable
<1> QED BY <1>1, <1>2, <1>3, <1>4, <1>5, <1>6, <1>7, <1>8, KindsAre

\* What a transaction that comes to its end has written.
LEMMA CourseEnds ==
  /\ Course["begin"][Len(Locks!Plans["begin"]) + 1] = Writes("validating", "running", "none")
  /\ Course["claim"][Len(Locks!Plans["claim"]) + 1] = Writes("none", "running", "none")
  /\ Course["passed"][Len(Locks!Plans["passed"]) + 1] = Writes("review_required", "passed", "pending")
  /\ Course["failed"][Len(Locks!Plans["failed"]) + 1] = Writes("draft", "failed", "none")
  /\ Course["approve"][Len(Locks!Plans["approve"]) + 1] = Writes("published", "none", "approved")
  /\ Course["reject"][Len(Locks!Plans["reject"]) + 1] = Writes("draft", "none", "rejected")
  /\ Course["revise"][Len(Locks!Plans["revise"]) + 1] = Writes("draft", "none", "superseded")
  /\ Course["revise"][2] = Writes("draft", "none", "none")
  /\ Course["emergency"][Len(Locks!Plans["emergency"]) + 1] = Writes("emergency_disabled", "none", "none")
BY DEF Course, Locks!Plans, Locks!BeginValidation, Locks!ClaimValidationRetry, Locks!CompletePassed,
       Locks!CompleteFailed, Locks!Approve, Locks!Reject, Locks!Revise, Locks!EmergencyDisable

-----------------------------------------------------------------------------
(* What each statement keeps *)

\* A step that changes no row and only one transaction, which holds nothing
\* that another one holds.
LEMMA OneMoves ==
  ASSUME LockInv, NEW w \in Workers, UNCHANGED row,
         \A o \in Workers \ {w} : tx'[o] = tx[o],
         IF Locks!Busy(w)' THEN OnCourse(w)' /\ HoldsWhatItWrote(w)' ELSE tx'[w] = Locks!Idle,
         \A o \in Workers \ {w} : tx'[w].holds \cap tx[o].holds = {},
         Locks!TypeOK'
  PROVE  LockInv'
<1>1. \A o \in Workers \ {w} :
        IF Locks!Busy(o)' THEN OnCourse(o)' /\ HoldsWhatItWrote(o)' ELSE tx'[o] = Locks!Idle
  BY DEF LockInv, Locks!Busy, OnCourse, HoldsWhatItWrote
<1>2. LockedOnce'
  BY DEF LockInv, LockedOnce
<1>3. Locks!RowsAgree'
  BY DEF LockInv, Locks!RowsAgree
<1> QED BY <1>1, <1>2, <1>3 DEF LockInv

\* A transaction that is not there fits the types.
LEMMA IdleFits ==
  Locks!Idle \in [kind : Locks!Kinds \union {"none"}, at : 1 .. 5, holds : SUBSET Locks!Rows,
            wrote : [Locks!Rows -> Locks!Values]]
<1>1. [r \in Locks!Rows |-> "none"] \in [Locks!Rows -> Locks!Values]
  BY DEF Locks!Values
<1> QED BY <1>1 DEF Locks!Idle

\* A transaction that throws, or that Postgres ends, has changed nothing.
LEMMA EndKeeps ==
  ASSUME LockInv, NEW w \in Workers, tx' = [tx EXCEPT ![w] = Locks!Idle], UNCHANGED <<row, started>>
  PROVE  LockInv'
<1>1. tx \in [Workers -> [kind : Locks!Kinds \union {"none"}, at : 1 .. 5, holds : SUBSET Locks!Rows,
                          wrote : [Locks!Rows -> Locks!Values]]]
  BY DEF LockInv, Locks!TypeOK
<1>2. tx'[w] = Locks!Idle /\ \A o \in Workers \ {w} : tx'[o] = tx[o]
  BY <1>1
<1>3. Locks!TypeOK'
  BY IdleFits, <1>1 DEF LockInv, Locks!TypeOK
<1>4. ~Locks!Busy(w)' /\ tx'[w].holds = {}
  BY <1>2 DEF Locks!Busy, Locks!Idle
<1>5. \A o \in Workers \ {w} : tx'[w].holds \cap tx[o].holds = {}
  BY <1>4
<1> QED BY <1>2, <1>3, <1>4, <1>5, OneMoves

\* A transaction that begins holds nothing and has written nothing.
LEMMA BeginKeeps ==
  ASSUME Locks!LockingAssumption, LockInv, NEW w \in Workers, NEW k \in Locks!Kinds, Locks!Begin(w, k)
  PROVE  LockInv'
<1>1. tx \in [Workers -> [kind : Locks!Kinds \union {"none"}, at : 1 .. 5, holds : SUBSET Locks!Rows,
                          wrote : [Locks!Rows -> Locks!Values]]]
  BY DEF LockInv, Locks!TypeOK
<1> DEFINE new == [Locks!Idle EXCEPT !.kind = k]
<1>2. Locks!Idle.wrote = Writes("none", "none", "none") /\ Locks!Idle.holds = {} /\ Locks!Idle.at = 1
  BY DEF Writes, Locks!Idle
<1>3. tx' = [tx EXCEPT ![w] = new] /\ tx'[w] = new /\ \A o \in Workers \ {w} : tx'[o] = tx[o]
  BY <1>1 DEF Locks!Begin
<1>4. Locks!TypeOK'
  <2>1. new \in [kind : Locks!Kinds \union {"none"}, at : 1 .. 5, holds : SUBSET Locks!Rows,
                 wrote : [Locks!Rows -> Locks!Values]]
    BY IdleFits
  <2>2. UNCHANGED row /\ started' \in 0 .. MaxStarted
    BY DEF Locks!Begin, LockInv, Locks!TypeOK, Locks!LockingAssumption
  <2> HIDE DEF new
  <2> QED BY <1>1, <1>3, <2>1, <2>2 DEF LockInv, Locks!TypeOK
<1>9. /\ new.kind = k /\ new.at = 1 /\ new.holds = {} /\ new.wrote = Writes("none", "none", "none")
  BY <1>2, IdleFits
<1> HIDE DEF new
<1>5. Locks!Busy(w)'
  BY <1>9, <1>3, KindsAre DEF Locks!Busy
<1>6. OnCourse(w)'
  BY <1>9, <1>3, CourseStarts DEF OnCourse
<1>7. HoldsWhatItWrote(w)'
  BY <1>9, <1>3 DEF HoldsWhatItWrote, Writes, Locks!Rows
<1>8. \A o \in Workers \ {w} : tx'[w].holds \cap tx[o].holds = {}
  BY <1>9, <1>3
<1> QED BY <1>3, <1>4, <1>5, <1>6, <1>7, <1>8, OneMoves DEF Locks!Begin

\* What the statement of a transaction under way is.
LEMMA StatementIs ==
  ASSUME LockInv, NEW w \in Workers, Locks!Busy(w), ~Locks!Done(w)
  PROVE  /\ tx[w].kind \in Locks!Kinds
         /\ tx[w].at \in 1 .. Len(Locks!Plans[tx[w].kind])
         /\ Locks!Now(w) = Locks!Plans[tx[w].kind][tx[w].at]
         /\ tx[w].wrote = Course[tx[w].kind][tx[w].at]
         /\ OnCourse(w) /\ HoldsWhatItWrote(w)
<1>1. tx[w].kind \in Locks!Kinds
  BY DEF LockInv, Locks!TypeOK, Locks!Busy
<1>2. OnCourse(w) /\ HoldsWhatItWrote(w)
  BY DEF LockInv
<1>3. Len(Locks!Plans[tx[w].kind]) \in 1 .. 4
  BY <1>1, CourseStarts
<1>4. tx[w].at \in 1 .. Len(Locks!Plans[tx[w].kind])
  BY <1>1, <1>2, <1>3 DEF OnCourse, Locks!Done
<1>5. tx[w].kind = "revise" => tx[w].at # 3
  <2>1. Len(Locks!Plans["revise"]) = 2
    BY DEF Locks!Plans, Locks!Revise
  <2>2. ASSUME tx[w].kind = "revise"
        PROVE  tx[w].at \in 1 .. 2
    BY <1>4, <2>1, <2>2
  <2> QED BY <2>2
<1>6. tx[w].wrote = Course[tx[w].kind][tx[w].at]
  BY <1>2, <1>5 DEF OnCourse
<1> QED BY <1>1, <1>2, <1>4, <1>6 DEF Locks!Now

\* A statement that finds its row and need not wait takes the row: nobody else
\* holds it, and what was committed is what the course expects.
LEMMA ExecuteKeeps ==
  ASSUME LockInv, NEW w \in Workers, Locks!Execute(w)
  PROVE  LockInv'
<1> DEFINE k == tx[w].kind
           n == tx[w].at
           s == Locks!Now(w)
<1>1. tx \in [Workers -> [kind : Locks!Kinds \union {"none"}, at : 1 .. 5, holds : SUBSET Locks!Rows,
                          wrote : [Locks!Rows -> Locks!Values]]]
  BY DEF LockInv, Locks!TypeOK
<1>2. /\ k \in Locks!Kinds /\ n \in 1 .. Len(Locks!Plans[k]) /\ s = Locks!Plans[k][n]
      /\ tx[w].wrote = Course[k][n] /\ OnCourse(w) /\ HoldsWhatItWrote(w)
  BY StatementIs DEF Locks!Execute
<1> HIDE DEF k, n, s
<1>3. Len(Locks!Plans[k]) \in 1 .. 4
  BY <1>2, CourseStarts
<1>4. /\ s.row \in Locks!Rows /\ s.to \in Locks!Values \ {"none"}
      /\ Course[k][n + 1] = [Course[k][n] EXCEPT ![s.row] = s.to]
      /\ Course[k][n][s.row] = "none" => s.from \subseteq Found[k][s.row]
  BY <1>2, CourseGoesOn
<1>5. ~Locks!Held(w, s.row) /\ Locks!Sees(w, s.row) \in s.from
  BY DEF Locks!Execute, Locks!Waits, Locks!Matches, s
<1>6. /\ tx'[w].kind = k /\ tx'[w].at = n + 1 /\ tx'[w].holds = tx[w].holds \union {s.row}
      /\ tx'[w].wrote = [tx[w].wrote EXCEPT ![s.row] = s.to]
      /\ \A o \in Workers \ {w} : tx'[o] = tx[o]
      /\ DOMAIN tx' = Workers
      /\ tx'[w] = [kind |-> tx'[w].kind, at |-> tx'[w].at, holds |-> tx'[w].holds, wrote |-> tx'[w].wrote]
  BY ZenonT(30), <1>1 DEF Locks!Execute, k, n, s
<1>7. Locks!TypeOK'
  <2>1. tx'[w].wrote \in [Locks!Rows -> Locks!Values] /\ tx'[w].holds \in SUBSET Locks!Rows
    BY <1>1, <1>4, <1>6
  <2>2. tx'[w].at \in 1 .. 5 /\ tx'[w].kind \in Locks!Kinds \union {"none"}
    BY <1>2, <1>3, <1>6
  <2>3. tx'[w] \in [kind : Locks!Kinds \union {"none"}, at : 1 .. 5, holds : SUBSET Locks!Rows, wrote : [Locks!Rows -> Locks!Values]]
    BY <1>6, <2>1, <2>2
  <2>4. \A o \in Workers : tx'[o] \in [kind : Locks!Kinds \union {"none"}, at : 1 .. 5, holds : SUBSET Locks!Rows, wrote : [Locks!Rows -> Locks!Values]]
    BY <1>1, <1>6, <2>3
  <2>5. tx' = [o \in Workers |-> tx'[o]]
    BY <1>1 DEF Locks!Execute
  <2>6. UNCHANGED <<row, started>>
    BY DEF Locks!Execute
  <2> QED BY <2>4, <2>5, <2>6 DEF LockInv, Locks!TypeOK
<1>8. Locks!Busy(w)'
  BY <1>2, <1>6, KindsAre DEF Locks!Busy
<1>9. OnCourse(w)'
  BY <1>2, <1>3, <1>4, <1>6 DEF OnCourse
<1>10. HoldsWhatItWrote(w)'
  <2>1. tx'[w].holds = {r \in Locks!Rows : tx'[w].wrote[r] # "none"}
    BY <1>1, <1>2, <1>4, <1>6 DEF HoldsWhatItWrote
  <2>2. row[s.row] \in Found[k][s.row]
    <3>1. CASE tx[w].wrote[s.row] # "none"
      BY <1>2, <1>4, <3>1 DEF HoldsWhatItWrote, k
    <3>2. CASE tx[w].wrote[s.row] = "none"
      BY <1>2, <1>4, <1>5, <3>2 DEF Locks!Sees
    <3> QED BY <3>1, <3>2
  <2>3. \A r \in tx'[w].holds : row[r] \in Found[k][r]
    BY <1>2, <1>6, <2>2 DEF HoldsWhatItWrote, k
  <2> QED BY <1>6, <2>1, <2>3 DEF HoldsWhatItWrote, Locks!Execute
<1>11. \A o \in Workers \ {w} : tx'[w].holds \cap tx[o].holds = {}
  BY <1>5, <1>6 DEF Locks!Held, LockInv, LockedOnce
<1> QED BY <1>6, <1>7, <1>8, <1>9, <1>10, <1>11, OneMoves DEF Locks!Execute

\* Only the revision of a published version finds no review to close.
LEMMA PassKeeps ==
  ASSUME LockInv, NEW w \in Workers, Locks!Pass(w)
  PROVE  LockInv'
<1> DEFINE k == tx[w].kind
           n == tx[w].at
           s == Locks!Now(w)
<1>1. tx \in [Workers -> [kind : Locks!Kinds \union {"none"}, at : 1 .. 5, holds : SUBSET Locks!Rows,
                          wrote : [Locks!Rows -> Locks!Values]]]
  BY DEF LockInv, Locks!TypeOK
<1>2. /\ k \in Locks!Kinds /\ n \in 1 .. Len(Locks!Plans[k]) /\ s = Locks!Plans[k][n]
      /\ tx[w].wrote = Course[k][n] /\ OnCourse(w) /\ HoldsWhatItWrote(w)
  BY StatementIs DEF Locks!Pass
<1> HIDE DEF k, n, s
<1>3. s.how = "try"
  BY DEF Locks!Pass, s
<1>4. k = "revise" /\ n = 2 /\ s.row = "review" /\ s.from = {"pending"}
  BY <1>2, <1>3, OnlyRevisionTries
<1>5. tx[w].wrote = Writes("draft", "none", "none")
  BY <1>2, <1>4, CourseEnds
<1>6. row["review"] # "pending"
  BY <1>4, <1>5 DEF Locks!Pass, Locks!Matches, Locks!Sees, Writes, Locks!Rows, s
<1>7. row["version"] \in {"review_required", "published"}
  BY <1>2, <1>4, <1>5 DEF HoldsWhatItWrote, Found, Writes, Locks!Rows, k
<1>8. row["version"] = "published"
  BY <1>6, <1>7 DEF LockInv, Locks!RowsAgree
<1>9. /\ tx'[w].kind = k /\ tx'[w].at = n + 1 /\ tx'[w].holds = tx[w].holds
      /\ tx'[w].wrote = tx[w].wrote
      /\ \A o \in Workers \ {w} : tx'[o] = tx[o]
      /\ tx' = [tx EXCEPT ![w].at = @ + 1] /\ UNCHANGED <<row, started>>
  BY <1>1 DEF Locks!Pass, k, n
<1>10. Locks!TypeOK'
  <2>1. n + 1 \in 1 .. 5
    BY <1>4
  <2> QED BY ZenonT(30), <1>1, <1>9, <2>1 DEF LockInv, Locks!TypeOK
<1>11. Locks!Busy(w)'
  BY <1>4, <1>9 DEF Locks!Busy
<1>12. OnCourse(w)'
  <2>1. Len(Locks!Plans["revise"]) = 2
    BY DEF Locks!Plans, Locks!Revise
  <2> QED BY <1>2, <1>4, <1>8, <1>9, <2>1 DEF OnCourse
<1>13. HoldsWhatItWrote(w)'
  BY <1>2, <1>9 DEF HoldsWhatItWrote
<1>14. \A o \in Workers \ {w} : tx'[w].holds \cap tx[o].holds = {}
  BY <1>9 DEF LockInv, LockedOnce
<1> QED BY <1>9, <1>10, <1>11, <1>12, <1>13, <1>14, OneMoves

\* A transaction that commits has gone its whole course.
LEMMA EndIs ==
  ASSUME LockInv, NEW w \in Workers, Locks!Done(w)
  PROVE  /\ tx[w].kind \in Locks!Kinds /\ HoldsWhatItWrote(w)
         /\ \/ tx[w].wrote = Course[tx[w].kind][Len(Locks!Plans[tx[w].kind]) + 1]
            \/ /\ tx[w].kind = "revise" /\ tx[w].wrote = Course["revise"][2]
               /\ row["version"] = "published"
<1>1. tx[w].kind \in Locks!Kinds /\ Locks!Busy(w)
  BY DEF LockInv, Locks!TypeOK, Locks!Busy, Locks!Done
<1>2. OnCourse(w) /\ HoldsWhatItWrote(w)
  BY <1>1 DEF LockInv
<1>3. Len(Locks!Plans[tx[w].kind]) \in 1 .. 4
  BY <1>1, CourseStarts
<1>4. tx[w].at = Len(Locks!Plans[tx[w].kind]) + 1
  BY <1>2, <1>3 DEF OnCourse, Locks!Done
<1> QED BY <1>1, <1>2, <1>4 DEF OnCourse

\* What it commits agrees with the rows it has not locked.
LEMMA CommitAgrees ==
  ASSUME LockInv, NEW w \in Workers, Locks!Done(w), row' = [r \in Locks!Rows |-> Locks!Sees(w, r)]
  PROVE  Locks!RowsAgree'
<1> DEFINE k == tx[w].kind
           wrote == tx[w].wrote
<1>1. k \in Locks!Kinds /\ HoldsWhatItWrote(w)
  BY EndIs
<1>2. \A r \in Locks!Rows : row'[r] = IF wrote[r] # "none" THEN wrote[r] ELSE row[r]
  BY DEF Locks!Sees
<1>3. \A r \in Locks!Rows : wrote[r] # "none" => row[r] \in Found[k][r]
  BY <1>1 DEF HoldsWhatItWrote
<1>4. Locks!RowsAgree
  BY DEF LockInv
<1>5. \/ wrote = Course[k][Len(Locks!Plans[k]) + 1]
      \/ k = "revise" /\ wrote = Course["revise"][2] /\ row["version"] = "published"
  BY EndIs
<1> HIDE DEF k, wrote
<1> USE DEF Locks!RowsAgree, Locks!Rows, Found, Writes, Locks!Open
<1>6. CASE k = "begin"
  BY <1>2, <1>3, <1>4, <1>5, <1>6, CourseEnds
<1>7. CASE k = "claim"
  BY <1>2, <1>3, <1>4, <1>5, <1>7, CourseEnds
<1>8. CASE k = "passed"
  BY <1>2, <1>3, <1>4, <1>5, <1>8, CourseEnds
<1>9. CASE k = "failed"
  BY <1>2, <1>3, <1>4, <1>5, <1>9, CourseEnds
<1>10. CASE k = "approve"
  BY <1>2, <1>3, <1>4, <1>5, <1>10, CourseEnds
<1>11. CASE k = "reject"
  BY <1>2, <1>3, <1>4, <1>5, <1>11, CourseEnds
<1>12. CASE k = "revise"
  BY <1>2, <1>3, <1>4, <1>5, <1>12, CourseEnds
<1>13. CASE k = "emergency"
  BY <1>2, <1>3, <1>4, <1>5, <1>13, CourseEnds
<1> QED BY <1>1, <1>6, <1>7, <1>8, <1>9, <1>10, <1>11, <1>12, <1>13, KindsAre

\* The rows of the others are as they found them: it holds none of those.
LEMMA CommitKeeps ==
  ASSUME LockInv, NEW w \in Workers, Locks!Commit(w)
  PROVE  LockInv'
<1>1. tx \in [Workers -> [kind : Locks!Kinds \union {"none"}, at : 1 .. 5, holds : SUBSET Locks!Rows,
                          wrote : [Locks!Rows -> Locks!Values]]]
  BY DEF LockInv, Locks!TypeOK
<1>2. tx'[w] = Locks!Idle /\ \A o \in Workers \ {w} : tx'[o] = tx[o]
  BY <1>1 DEF Locks!Commit
<1>3. Locks!TypeOK'
  <2>1. \A r \in Locks!Rows : Locks!Sees(w, r) \in Locks!Values
    BY <1>1 DEF Locks!Sees, LockInv, Locks!TypeOK
  <2> QED BY IdleFits, <1>1, <2>1 DEF Locks!Commit, LockInv, Locks!TypeOK
<1>4. ~Locks!Busy(w)' /\ tx'[w].holds = {}
  BY <1>2 DEF Locks!Busy, Locks!Idle
<1>5. ASSUME NEW o \in Workers \ {w}
      PROVE  IF Locks!Busy(o)' THEN OnCourse(o)' /\ HoldsWhatItWrote(o)' ELSE tx'[o] = Locks!Idle
  <2>1. CASE ~Locks!Busy(o)
    BY <1>2, <2>1 DEF Locks!Busy, LockInv
  <2>2. CASE Locks!Busy(o)
    <3>1. OnCourse(o) /\ HoldsWhatItWrote(o) /\ HoldsWhatItWrote(w)
      BY <2>2, EndIs DEF LockInv, Locks!Commit
    <3>2. ASSUME NEW r \in tx[o].holds
          PROVE  row'[r] = row[r]
      <4>1. r \in Locks!Rows /\ r \notin tx[w].holds
        BY <1>1 DEF LockInv, LockedOnce
      <4>2. tx[w].wrote[r] = "none"
        BY <3>1, <4>1 DEF HoldsWhatItWrote
      <4> QED BY <4>1, <4>2 DEF Locks!Commit, Locks!Sees
    <3>3. HoldsWhatItWrote(o)'
      BY <1>2, <3>1, <3>2 DEF HoldsWhatItWrote
    <3>4. OnCourse(o)'
      <4>1. CASE tx[o].wrote = Course[tx[o].kind][tx[o].at]
        BY <1>2, <3>1, <4>1 DEF OnCourse
      <4>2. CASE /\ tx[o].kind = "revise" /\ tx[o].at = 3 /\ tx[o].wrote = Course["revise"][2]
                 /\ row["version"] = "published"
        <5>1. "version" \in tx[o].holds
          BY <3>1, <4>2, CourseEnds DEF HoldsWhatItWrote, Writes, Locks!Rows
        <5>2. row'["version"] = "published"
          BY <3>2, <4>2, <5>1
        <5> QED BY <1>2, <3>1, <4>2, <5>2 DEF OnCourse
      <4> QED BY <3>1, <4>1, <4>2 DEF OnCourse
    <3> QED BY <1>2, <2>2, <3>3, <3>4 DEF Locks!Busy
  <2> QED BY <2>1, <2>2
<1>6. LockedOnce'
  BY <1>2, <1>4 DEF LockInv, LockedOnce
<1>7. Locks!RowsAgree'
  BY CommitAgrees DEF Locks!Commit
<1>8. \A o \in Workers : IF Locks!Busy(o)' THEN OnCourse(o)' /\ HoldsWhatItWrote(o)' ELSE tx'[o] = Locks!Idle
  BY <1>2, <1>4, <1>5
<1> QED BY <1>3, <1>6, <1>7, <1>8 DEF LockInv

-----------------------------------------------------------------------------
(* The rows of one version agree *)

\* Before any transaction is begun.
LEMMA InitLock == Locks!LockingAssumption /\ Locks!Init => LockInv
<1> SUFFICES ASSUME Locks!LockingAssumption, Locks!Init
             PROVE  LockInv
  OBVIOUS
<1>1. Locks!TypeOK
  BY IdleFits DEF Locks!Init, Locks!TypeOK, Locks!Rows, Locks!Values, Locks!LockingAssumption
<1>2. \A w \in Workers : tx[w] = Locks!Idle /\ ~Locks!Busy(w)
  BY DEF Locks!Init, Locks!Busy, Locks!Idle
<1>3. LockedOnce
  BY <1>2 DEF LockedOnce, Locks!Idle
<1>4. Locks!RowsAgree
  BY DEF Locks!Init, Locks!RowsAgree, Locks!Rows
<1> QED BY <1>1, <1>2, <1>3, <1>4 DEF LockInv

\* Every step of every transaction keeps it.
LEMMA NextLock == Locks!LockingAssumption /\ LockInv /\ [Locks!Next]_(Locks!lockingVars) => LockInv'
<1> SUFFICES ASSUME Locks!LockingAssumption, LockInv, [Locks!Next]_(Locks!lockingVars)
             PROVE  LockInv'
  OBVIOUS
<1>1. CASE UNCHANGED Locks!lockingVars
  BY <1>1 DEF LockInv, Locks!lockingVars, Locks!TypeOK, Locks!Busy, OnCourse, HoldsWhatItWrote, LockedOnce, Locks!RowsAgree
<1>2. ASSUME NEW w \in Workers, NEW k \in Locks!Kinds, Locks!Begin(w, k)
      PROVE  LockInv'
  BY <1>2, BeginKeeps
<1>3. ASSUME NEW w \in Workers, Locks!Execute(w)
      PROVE  LockInv'
  BY <1>3, ExecuteKeeps
<1>4. ASSUME NEW w \in Workers, Locks!Pass(w)
      PROVE  LockInv'
  BY <1>4, PassKeeps
<1>5. ASSUME NEW w \in Workers, Locks!Throw(w) \/ Locks!Detect(w)
      PROVE  LockInv'
  BY <1>5, EndKeeps DEF Locks!Throw, Locks!Detect
<1>6. ASSUME NEW w \in Workers, Locks!Commit(w)
      PROVE  LockInv'
  BY <1>6, CommitKeeps
<1> QED BY <1>1, <1>2, <1>3, <1>4, <1>5, <1>6 DEF Locks!Next, Locks!Goes

\* In every state of every execution.
LEMMA LockInvariant == ASSUME Locks!LockingAssumption PROVE Locks!Spec => []LockInv
<1>1. Locks!Init => LockInv
  BY InitLock
<1>2. LockInv /\ [Locks!Next]_(Locks!lockingVars) => LockInv'
  BY NextLock
<1> QED BY <1>1, <1>2, PTL DEF Locks!Spec

\* Every row and every transaction has its type.
THEOREM RowsAndTransactionsHaveTypes == ASSUME Locks!LockingAssumption PROVE Locks!Spec => []Locks!TypeOK
<1>1. LockInv => Locks!TypeOK
  BY DEF LockInv
<1> QED BY <1>1, LockInvariant, PTL

\* However the statements of any number of transactions interleave, what is
\* committed of a version, its run and its review agrees (the updates WHERE
\* that look again, beginValidation to emergencyDisableVersion).
THEOREM RowsAgreeHolds == ASSUME Locks!LockingAssumption PROVE Locks!Spec => []Locks!RowsAgree
<1>1. LockInv => Locks!RowsAgree
  BY DEF LockInv
<1> QED BY <1>1, LockInvariant, PTL

-----------------------------------------------------------------------------
(* Who waits for whom *)

\* The rows a transaction has written before a statement on another row.
Wrote(k, n) == {r \in Locks!Rows : Course[k][n][r] # "none"}

\* A statement on a further row: which rows are locked before which.
FurtherRow(k, n) ==
  LET s == Locks!Plans[k][n] IN
  \/ k = "begin" /\ Wrote(k, n) = {"version"} /\ s.row = "run"
  \/ k \in {"passed", "failed"} /\ Wrote(k, n) = {"run"} /\ s.row = "version" /\ s.from = {"validating"}
  \/ k = "passed" /\ Wrote(k, n) = {"run", "version"} /\ s.row = "review"
  \/ /\ k \in {"approve", "reject"} /\ Wrote(k, n) = {"review"}
     /\ s.row = "version" /\ s.from = {"review_required"}
  \/ k = "revise" /\ Wrote(k, n) = {"version"} /\ s.row = "review"

LEMMA FurtherRows ==
  ASSUME NEW k \in Locks!Kinds, NEW n \in 1 .. Len(Locks!Plans[k]), Wrote(k, n) # {},
         Locks!Plans[k][n].row \notin Wrote(k, n)
  PROVE  FurtherRow(k, n) /\ Locks!Plans[k][n].how # "lock"
<1> USE DEF FurtherRow, Wrote, Course, Locks!Plans, Locks!Step, Writes, Locks!Rows
<1>1. CASE k = "begin"
  BY <1>1 DEF Locks!BeginValidation
<1>2. CASE k = "claim"
  BY <1>2 DEF Locks!ClaimValidationRetry
<1>3. CASE k = "passed"
  <2>1. n = 1 \/ n = 2 \/ n = 3 \/ n = 4
    BY <1>3 DEF Locks!CompletePassed
  <2>2. CASE n = 1
    BY <1>3, <2>2 DEF Locks!CompletePassed
  <2>3. CASE n = 2
    BY <1>3, <2>3 DEF Locks!CompletePassed
  <2>4. CASE n = 3
    BY <1>3, <2>4 DEF Locks!CompletePassed
  <2>5. CASE n = 4
    BY <1>3, <2>5 DEF Locks!CompletePassed
  <2> QED BY <2>1, <2>2, <2>3, <2>4, <2>5
<1>4. CASE k = "failed"
  BY <1>4 DEF Locks!CompleteFailed
<1>5. CASE k = "approve"
  BY <1>5 DEF Locks!Approve
<1>6. CASE k = "reject"
  BY <1>6 DEF Locks!Reject
<1>7. CASE k = "revise"
  BY <1>7 DEF Locks!Revise
<1>8. CASE k = "emergency"
  BY <1>8 DEF Locks!EmergencyDisable
<1> QED BY <1>1, <1>2, <1>3, <1>4, <1>5, <1>6, <1>7, <1>8, KindsAre

\* A transaction that waits for one that waits for it has rows, wants another,
\* and finds in that one what its statement looks for.
LEMMA WaitingIs ==
  ASSUME LockInv, NEW w \in Workers, NEW o \in Workers, Locks!Deadlocked(w, o)
  PROVE  LET k == tx[w].kind
             n == tx[w].at
         IN /\ w # o /\ k \in Locks!Kinds /\ Locks!Now(w) = Locks!Plans[k][n]
            /\ tx[w].holds = Wrote(k, n) /\ FurtherRow(k, n)
            /\ Locks!Now(w).row \in tx[o].holds
            /\ \A r \in tx[w].holds : row[r] \in Found[k][r]
            /\ row[Locks!Now(w).row] \in Locks!Now(w).from
<1> DEFINE k == tx[w].kind
           n == tx[w].at
           s == Locks!Now(w)
<1>1. /\ k \in Locks!Kinds /\ n \in 1 .. Len(Locks!Plans[k]) /\ s = Locks!Plans[k][n]
      /\ tx[w].wrote = Course[k][n] /\ HoldsWhatItWrote(w)
  BY StatementIs DEF Locks!Deadlocked, Locks!WaitsFor, Locks!Waits
<1>2. s.row \in tx[o].holds /\ Locks!Now(o).row \in tx[w].holds
  BY DEF Locks!Deadlocked, Locks!WaitsFor
<1>3. \E x \in Workers \ {w} : s.row \in tx[x].holds
  BY DEF Locks!Deadlocked, Locks!WaitsFor, Locks!Waits, Locks!Held
<1>4. s.row \notin tx[w].holds
  BY <1>3 DEF LockInv, LockedOnce
<1>5. w # o
  BY <1>2, <1>4
<1> HIDE DEF k, n, s
<1>6. tx[w].holds = Wrote(k, n)
  BY <1>1 DEF HoldsWhatItWrote, Wrote
<1>7. FurtherRow(k, n) /\ s.how # "lock"
  BY <1>1, <1>2, <1>4, <1>6, FurtherRows
<1>8. Locks!Matches(w)
  BY <1>7 DEF Locks!Deadlocked, Locks!WaitsFor, Locks!Waits, s
<1>9. s.row \in Locks!Rows
  BY <1>1, CourseGoesOn
<1>10. tx[w].wrote[s.row] = "none"
  BY <1>1, <1>4, <1>9 DEF HoldsWhatItWrote
<1>11. row[s.row] \in s.from
  BY <1>8, <1>10 DEF Locks!Matches, Locks!Sees, s
<1>12. \A r \in tx[w].holds : row[r] \in Found[k][r]
  BY <1>1 DEF HoldsWhatItWrote, k
<1> QED BY <1>1, <1>2, <1>5, <1>6, <1>7, <1>11, <1>12 DEF k, n, s

\* Of two transactions that wait for one another, one decides the review and
\* the other revises.
LEMMA DecisionMeetsRevision == LockInv => Locks!OnlyDecisionMeetsRevision
<1> SUFFICES ASSUME LockInv, NEW w \in Workers, NEW o \in Workers, Locks!Deadlocked(w, o)
             PROVE  {tx[w].kind, tx[o].kind} \in {{"approve", "revise"}, {"reject", "revise"}}
  BY DEF Locks!OnlyDecisionMeetsRevision
<1> DEFINE k == tx[w].kind
           n == tx[w].at
           l == tx[o].kind
           m == tx[o].at
<1>1. /\ tx[w].holds = Wrote(k, n) /\ FurtherRow(k, n) /\ Locks!Plans[k][n].row \in tx[o].holds
      /\ \A r \in tx[w].holds : row[r] \in Found[k][r]
      /\ row[Locks!Plans[k][n].row] \in Locks!Plans[k][n].from
  BY WaitingIs
<1>2. /\ tx[o].holds = Wrote(l, m) /\ FurtherRow(l, m) /\ Locks!Plans[l][m].row \in tx[w].holds
      /\ \A r \in tx[o].holds : row[r] \in Found[l][r]
      /\ row[Locks!Plans[l][m].row] \in Locks!Plans[l][m].from
  <2>1. Locks!Deadlocked(o, w)
    BY DEF Locks!Deadlocked
  <2> QED BY <2>1, WaitingIs
<1> HIDE DEF k, n, l, m
<1>3. \/ k \in {"approve", "reject"} /\ l = "revise"
      \/ k = "revise" /\ l \in {"approve", "reject"}
  BY <1>1, <1>2 DEF FurtherRow, Found
<1> QED BY <1>3 DEF k, l

\* Two transactions wait for one another only when one decides the review, which
\* it locks before the version, and the other takes the version out of review
\* (decideReview and reviseVersion): of any number of connections.
THEOREM OnlyDecisionMeetsRevisionHolds ==
  ASSUME Locks!LockingAssumption PROVE Locks!Spec => []Locks!OnlyDecisionMeetsRevision
BY DecisionMeetsRevision, LockInvariant, PTL
=============================================================================
