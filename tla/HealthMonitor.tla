---------------------------- MODULE HealthMonitor ----------------------------
(***************************************************************************)
(* The health monitor of the server: a timer starts a probe of the         *)
(* database at fixed intervals, whether or not earlier probes have come    *)
(* back; a streak of failures makes the server unhealthy, a success makes  *)
(* it healthy, and each turn is told to every configured channel.          *)
(***************************************************************************)
EXTENDS Naturals, Sequences

CONSTANTS
  Probe,      \* probes (and the alerts they send) that may be under way
  Target,     \* the targets of createSharedTargets
  Threshold,  \* failureThreshold
  MaxAlerts,  \* BOUND: alerts sent
  MaxTurns    \* BOUND: how often the database fails or comes back

HealthMonitorAssumption ==
  /\ Threshold \in Nat \ {0}
  /\ MaxAlerts \in Nat
  /\ MaxTurns \in Nat

VARIABLES
  up,        \* the database answers
  turns,     \* how often that has changed
  probe,     \* where each probe is
  failed,    \* what its check found
  failures,  \* consecutiveFailures
  state,     \* "healthy" or "unhealthy"
  alerts,    \* the alerts that were begun, in order
  waiting,   \* the targets it has not got an answer from
  streak     \* ghost: the results of the probes in the order they came back,
             \* the last Threshold of them

vars == <<up, turns, probe, failed, failures, state, alerts, waiting, streak>>

TypeOK ==
  /\ up \in BOOLEAN
  /\ turns \in 0..MaxTurns
  /\ probe \in [Probe -> {"idle", "checking", "checked", "sending"}]
  /\ failed \in [Probe -> BOOLEAN]
  /\ failures \in Nat
  /\ state \in {"healthy", "unhealthy"}
  /\ alerts \in Seq({"critical", "info"})
  /\ waiting \in [Probe -> SUBSET Target]
  /\ streak \in Seq({"ok", "failed"}) /\ Len(streak) <= Threshold

Init ==
  /\ up = TRUE
  /\ turns = 0
  /\ probe = [p \in Probe |-> "idle"]
  /\ failed = [p \in Probe |-> FALSE]
  /\ failures = 0
  /\ state = "healthy"
  /\ alerts = <<>>
  /\ waiting = [p \in Probe |-> {}]
  /\ streak = <<>>

\* The ghost forgets all but the last Threshold results.
Remember(result) ==
  streak' = IF Len(streak) < Threshold THEN Append(streak, result)
            ELSE Append(Tail(streak), result)

alertVars == <<alerts, waiting>>

DatabaseTurns ==
  /\ turns < MaxTurns
  /\ turns' = turns + 1
  /\ up' = ~up
  /\ UNCHANGED <<probe, failed, failures, state, streak, alertVars>>

\* The timer fires.
StartProbe(p) ==
  /\ probe[p] = "idle"
  /\ probe' = [probe EXCEPT ![p] = "checking"]
  /\ UNCHANGED <<up, turns, failed, failures, state, streak, alertVars>>

\* database.ping answers or throws; what follows runs when the answer is taken.
Ping(p) ==
  /\ probe[p] = "checking"
  /\ probe' = [probe EXCEPT ![p] = "checked"]
  /\ failed' = [failed EXCEPT ![p] = ~up]
  /\ UNCHANGED <<up, turns, failures, state, streak, alertVars>>

-----------------------------------------------------------------------------
\* Taking the answer.  It is one step up to the sending of an alert.

\* Seeded fault: the state turns when the alert is out.
TurnsLate(to) == UNCHANGED state

Turns(to) == state' = to

Emit(p, severity) ==
  /\ Len(alerts) < MaxAlerts
  /\ alerts' = Append(alerts, severity)
  /\ waiting' = [waiting EXCEPT ![p] = Target]
  /\ probe' = [probe EXCEPT ![p] = "sending"]

NoAlert(p) == probe' = [probe EXCEPT ![p] = "idle"] /\ UNCHANGED alertVars

Enough(n) == n >= Threshold

\* The count stops mattering above the threshold.
Counted == IF failures < Threshold THEN failures + 1 ELSE failures

TakeFailure(p) ==
  /\ probe[p] = "checked" /\ failed[p]
  /\ failures' = Counted
  /\ Remember("failed")
  /\ IF state = "healthy" /\ Enough(Counted)
     THEN Turns("unhealthy") /\ Emit(p, "critical")
     ELSE UNCHANGED state /\ NoAlert(p)
  /\ UNCHANGED <<up, turns, failed>>

\* Seeded fault: a success leaves the count alone.
ResetNothing == failures

Reset == 0

TakeSuccess(p) ==
  /\ probe[p] = "checked" /\ ~failed[p]
  /\ failures' = Reset
  /\ Remember("ok")
  /\ IF state = "unhealthy"
     THEN Turns("healthy") /\ Emit(p, "info")
     ELSE UNCHANGED state /\ NoAlert(p)
  /\ UNCHANGED <<up, turns, failed>>

\* A target answers, refuses or does not answer in time, all the same to the
\* others; the probe ends with the last of them.
DeliverAlert(p, t) ==
  /\ probe[p] = "sending"
  /\ t \in waiting[p]
  /\ waiting' = [waiting EXCEPT ![p] = @ \ {t}]
  /\ probe' = IF waiting[p] = {t} THEN [probe EXCEPT ![p] = "idle"] ELSE probe
  /\ UNCHANGED <<up, turns, failed, failures, state, streak, alerts>>

Take(p) == TakeFailure(p) \/ TakeSuccess(p)

\* What a probe does, one thing after the other.
Goes(p) == StartProbe(p) \/ Ping(p) \/ Take(p) \/ \E t \in Target : DeliverAlert(p, t)

Next == DatabaseTurns \/ \E p \in Probe : Goes(p)

Spec == Init /\ [][Next]_vars

\* The timer goes on, a ping ends, and a request to a channel ends after ten seconds.
FairSpec == Spec /\ \A p \in Probe : WF_vars(Goes(p))

-----------------------------------------------------------------------------
\* Properties.

\* "Alert only when the state turns" (runOnce), with any number of probes under
\* way at the same time: alerts alternate, beginning with a failure, and the
\* last of them tells the state.
AlertsAlternate ==
  /\ \A n \in DOMAIN alerts : alerts[n] = IF n % 2 = 1 THEN "critical" ELSE "info"
  /\ state = "unhealthy" <=> Len(alerts) % 2 = 1

\* "How many failures in a row count": the server becomes unhealthy only with
\* the last Threshold answers all failures, and healthy only with a success,
\* in the order in which the answers are taken.
HasCause ==
  /\ state = "healthy" /\ state' = "unhealthy" =>
       Len(streak') = Threshold /\ \A n \in 1..Threshold : streak'[n] = "failed"
  /\ state = "unhealthy" /\ state' = "healthy" => streak'[Len(streak')] = "ok"

=============================================================================
