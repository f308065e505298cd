---------------------------- MODULE MCOperations ----------------------------
(***************************************************************************)
(* What runs behind the pages, on small instances: logins, notices to      *)
(* other systems, the health monitor, the transactions of governance,       *)
(* migrations, the processes of a validation and the figures of analytics.  *)
(*                                                                         *)
(* These components share no variable: part names the one that moves, the  *)
(* others rest in their initial states.                                     *)
(***************************************************************************)
EXTENDS Naturals, Sequences, FiniteSets

CONSTANTS Parts,   \* the parts of this run
          None     \* a model value

VARIABLES
  part,
  now, issued, pending, callback, identities, session, cookie, known,             \* LoginSession
  work, log, inbox, dispatched,                                                   \* NotificationDispatcher
  up, turns, probe, failed, failures, state, alerts, waiting, streak,             \* HealthMonitor
  row, tx, started,                                                               \* GovernanceLocking
  schema, recorded, run, runs,                                                    \* Migrator
  platform, child, descendant, timer, mode, written, captured, truncated, result, \* ProcessRunner
  kind, stage, script, container, exit, removed, telemetry, read, files, directory, verdict,  \* TargetValidation
  downloads, successes, sorted, next, lower, upper, employee, durations, metrics  \* RunnableTime

loginVars == <<now, issued, pending, callback, identities, session, cookie, known>>
dispatchVars == <<work, log, inbox, dispatched>>
healthVars == <<up, turns, probe, failed, failures, state, alerts, waiting, streak>>
lockingVars == <<row, tx, started>>
migratorVars == <<schema, recorded, run, runs>>
processVars == <<platform, child, descendant, timer, mode, written, captured, truncated, result>>
targetVars == <<kind, stage, script, container, exit, removed, telemetry, read, files, directory, verdict>>
timeVars == <<downloads, successes, sorted, next, lower, upper, employee, durations, metrics>>
serverVars == <<loginVars, dispatchVars, healthVars, lockingVars>>
toolVars == <<migratorVars, processVars, targetVars, timeVars>>
operationsVars == <<part, serverVars, toolVars>>

-----------------------------------------------------------------------------
(* The instances. *)

\* One browser, two callbacks at a time.
Login == INSTANCE LoginSession WITH
  Browser <- {"browser"}, User <- {"ann", "eve"}, Allowed <- {"ann"}, Requested <- {"home"}, Destination <- {"home"},
  Home <- "home", Callback <- 1 .. 2, StateTTL <- 1, Lifetime <- 1, MaxTime <- 1, MaxLogins <- 2, MaxSessions <- 2

\* Three targets, of which the channel of the second is not enabled.
Dispatch == INSTANCE NotificationDispatcher WITH
  Worker <- {1}, Event <- {"release"}, Type <- [e \in {"release"} |-> "published"],
  Payload <- [e \in {"release"} |-> {"installed", "notes"}], Webhooks <- {"slack"}, EmailTransport <- TRUE,
  Directory <- <<"slack", "teams", "email">>, MaxAttempts <- 2, Reliable <- FALSE, Crashes <- TRUE, MaxDispatched <- 2

Health == INSTANCE HealthMonitor WITH
  Probe <- 1 .. 2, Target <- {"slack", "teams"}, Threshold <- 2, MaxAlerts <- 20, MaxTurns <- 3

Locking == INSTANCE GovernanceLocking WITH Workers <- 1 .. 3, MaxStarted <- 4

\* Two runners with images of up to three migrations.
Migrations == INSTANCE Migrator WITH Runners <- 1 .. 2, Newest <- 2, MaxRuns <- 3

\* A command and two processes it starts, which stay in its group or may leave it.
Process == INSTANCE ProcessRunner WITH
  Platforms <- {"unix"}, Descendants <- {"helper", "service"}, MayLeave <- FALSE, MaxOutputBytes <- 2, MaxWritten <- 4
Leaving == INSTANCE ProcessRunner WITH
  Platforms <- {"unix", "win32"}, Descendants <- {"helper", "service"}, MayLeave <- TRUE, MaxOutputBytes <- 2, MaxWritten <- 4

Target == INSTANCE TargetValidation WITH Kinds <- {"docker", "pwsh"}, DaemonFails <- TRUE, result <- verdict

Times == INSTANCE RunnableTime WITH MaxTime <- 2, MaxDownloads <- 3, MaxSuccesses <- 2, platform <- durations

-----------------------------------------------------------------------------
(* What moves. *)

LoginOnly == part = "login" /\ UNCHANGED <<part, dispatchVars, healthVars, lockingVars, toolVars>>
DispatchOnly == part = "dispatch" /\ UNCHANGED <<part, loginVars, healthVars, lockingVars, toolVars>>
HealthOnly == part = "health" /\ UNCHANGED <<part, loginVars, dispatchVars, lockingVars, toolVars>>
LockingOnly == part = "locking" /\ UNCHANGED <<part, loginVars, dispatchVars, healthVars, toolVars>>
MigrationsOnly == part = "migrations" /\ UNCHANGED <<part, serverVars, processVars, targetVars, timeVars>>
ProcessOnly(p) == part = p /\ UNCHANGED <<part, serverVars, migratorVars, targetVars, timeVars>>
TargetOnly == part = "target" /\ UNCHANGED <<part, serverVars, migratorVars, processVars, timeVars>>
TimesOnly == part = "times" /\ UNCHANGED <<part, serverVars, migratorVars, processVars, targetVars>>

Init ==
  /\ part \in Parts
  /\ Login!Init /\ Dispatch!Init /\ Health!Init /\ Locking!Init
  /\ Migrations!Init /\ (part # "migrations" => schema = <<>>)
  /\ Leaving!Init /\ (part # "leaving" => platform = "unix")
  /\ Target!Init /\ (part # "target" => kind = "docker")
  /\ IF part = "times" THEN Times!Init
     ELSE /\ downloads = <<>> /\ successes = <<>> /\ sorted = <<>> /\ next = 0 /\ lower = 0 /\ upper = 0
          /\ employee = <<>> /\ durations = <<>> /\ metrics = Times!NoMetrics

Next ==
  \/ LoginOnly /\ Login!Next
  \/ DispatchOnly /\ Dispatch!Next
  \/ HealthOnly /\ Health!Next
  \/ LockingOnly /\ Locking!Next
  \/ MigrationsOnly /\ Migrations!Next
  \/ ProcessOnly("process") /\ Process!Next
  \/ ProcessOnly("leaving") /\ Leaving!Next
  \/ TargetOnly /\ Target!Next
  \/ TimesOnly /\ Times!Next

(* What goes on by itself: the server with its callbacks, a worker with    *)
(* its dispatch, a probe with its timer, its ping and its alerts, the       *)
(* transactions, a run of migrations, spawn, timer and close of a process,  *)
(* the runner.  Each part has at most three such actors, and each of them    *)
(* does one thing after the other.                                          *)
Goes(i) ==
  \/ LoginOnly /\ i \in 1 .. 2 /\ Login!Handle(i)
  \/ DispatchOnly /\ i = 1 /\ Dispatch!Run(i)
  \/ HealthOnly /\ i \in 1 .. 2 /\ Health!Goes(i)
  \/ LockingOnly /\ (Locking!Goes(i) \/ Locking!Detect(i))
  \/ MigrationsOnly /\ i \in 1 .. 2 /\ Migrations!Goes(i)
  \/ ProcessOnly("process") /\ i = 1 /\ Process!Goes
  \/ TargetOnly /\ i = 1 /\ Target!Runner
  \/ TimesOnly /\ i = 1 /\ Times!Next

Spec == Init /\ [][Next]_operationsVars

FairSpec == Spec /\ \A i \in 1 .. 3 : WF_operationsVars(Goes(i))

-----------------------------------------------------------------------------
(* The properties of the components, by what they are about. *)

ASSUME OperationsAssumption ==
  /\ Login!LoginSessionAssumption /\ Dispatch!NotificationDispatcherAssumption /\ Health!HealthMonitorAssumption
  /\ Migrations!MigratorAssumption /\ Process!ProcessAssumption /\ Leaving!ProcessAssumption
  /\ Target!TargetAssumption /\ Times!TimeAssumption /\ Locking!LockingAssumption

In(p, holds) == part = p => holds

Shapes ==
  /\ In("login", Login!TypeOK) /\ In("dispatch", Dispatch!TypeOK) /\ In("health", Health!TypeOK)
  /\ In("locking", Locking!TypeOK) /\ In("migrations", Migrations!TypeOK) /\ In("process", Process!TypeOK)
  /\ In("leaving", Leaving!TypeOK) /\ In("target", Target!TypeOK)

(* What was told to other systems is so, and what is so was told: every    *)
(* target of a notice has a record, what the log calls delivered arrived,   *)
(* all messages tell the same facts, and alerts follow the state of health  *)
(* in turn.                                                                 *)
ToldIsSo ==
  /\ Shapes
  /\ In("dispatch", Dispatch!EveryTargetAccounted /\ Dispatch!DeliveredHasArrived /\ Dispatch!SameFactsEverywhere)
  /\ In("health", Health!AlertsAlternate)

(* Nothing is told without a cause: no target hears of an event again once *)
(* the log has it as delivered, however workers die in between, and health  *)
(* turns only after the answers that turn it.                               *)
ToldForCause == [][In("dispatch", Dispatch!NoneAgain) /\ In("health", Health!HasCause)]_operationsVars

(* What a run leaves tells of it: migrations once and in order, recorded   *)
(* as they are; an exit code of the command's own, the group gone when it   *)
(* was ended; a target passed by both of its scripts; and percentiles of    *)
(* the installs paired with their downloads.                                *)
RunsTellTheTruth ==
  /\ In("migrations", Migrations!AppliedInOrder /\ Migrations!RecordsTellSchema /\ Migrations!SucceededIsMigrated)
  /\ part \in {"process", "leaving"} => Leaving!ExitIsOwn /\ Leaving!ModeTellsWhatEnded /\ Leaving!OutputUpToLimit
  /\ In("target", Target!PassedMeansTried)
  /\ In("times", Times!PairedWithLatest /\ Times!LeastThatManyReach)

(* However the statements of three transactions interleave, a version, its *)
(* run and its review agree in what is committed, and only a decision and a *)
(* revision ever wait for one another.                                      *)
RowsAgree == In("locking", Locking!RowsAgree /\ Locking!OnlyDecisionMeetsRevision)

\* What the actor of this number has begun and not finished.
Busy(i) ==
  \/ part = "login" /\ i \in 1 .. 2 /\ callback[i].pc # "idle"
  \/ part = "dispatch" /\ i = 1 /\ work[i].pc # "idle"
  \/ part = "locking" /\ Locking!Busy(i)
  \/ part = "migrations" /\ i \in 1 .. 2 /\ run[i].step = "begun"
  \/ part = "process" /\ i = 1 /\ result = Process!NoResult
  \/ part = "target" /\ i = 1 /\ verdict = Target!NoResult
  \/ part = "times" /\ i = 1 /\ metrics = Times!NoMetrics

(* Whatever is begun ends: a callback the provider never answers, a        *)
(* dispatch, transactions that wait for one another, a run of migrations, a *)
(* process that is killed, a validation, a search; and an outage that lasts *)
(* is noticed, as is its end.                                               *)
EverythingEnds ==
  /\ \A i \in 1 .. 3 : Busy(i) ~> ~Busy(i)
  /\ <>[](part = "health" /\ ~up) => <>[](state = "unhealthy")
  /\ <>[](part = "health" /\ up) => <>[](state = "healthy")

=============================================================================
