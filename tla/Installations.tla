---------------------------- MODULE Installations ----------------------------
(***************************************************************************)
(* What users run of a package, and what the platform takes them to run.    *)
(*                                                                         *)
(* A script changes the machine it runs on and reports when it began and    *)
(* ended; the reports arrive late and in any order (TelemetryQueue sends    *)
(* them).  The list of a user's installations, the figures for the author   *)
(* over a period, and the notices of new versions are made from the table   *)
(* of reports alone.                                                        *)
(***************************************************************************)
EXTENDS Naturals, Sequences, FiniteSets, FiniteSetsExt

CONSTANTS
  Users,        \* who runs scripts, each on a machine
  Uids,         \* those of them who were logged in when they fetched them
  Author,       \* who wrote the versions
  Versions,     \* the versions, by their order
  Environments, \* a system and a client
  Targets,      \* the environments a version has a script for
  Legacy,       \* the versions whose row still names its system and client
  MaxTime,      \* bound: seconds
  MaxRuns,      \* bound: scripts run
  MaxMoves      \* bound: versions published or withdrawn

InstallationsAssumption ==
  /\ Uids \subseteq Users /\ Versions \subseteq Nat \ {0} /\ Legacy \subseteq Versions
  /\ Targets \in [Versions -> SUBSET Environments]
  /\ MaxTime \in Nat /\ MaxRuns \in Nat /\ MaxMoves \in Nat

VARIABLES
  lifecycle,  \* of each version
  machine,    \* what each user has installed
  script,     \* the script each user is running
  transit,    \* reports on their way
  table,      \* reports received, in the order of their arrival
  notices,    \* notices of new versions
  now,        \* the time in whole seconds
  runs, moves

installationsVars == <<lifecycle, machine, script, transit, table, notices, now, runs, moves>>

\* revised: a draft again.  What is deprecated or disabled is as delisted here.
Lifecycles == {"draft", "published", "revised", "delisted"}
\* A script never reports a download.
Statuses == {"succeeded", "failed", "uninstalled"}

Installation == [version : Versions, env : Environments]
NotInstalled == [version |-> 0]

Scripts == [action : {"install", "uninstall"}, version : Versions, env : Environments, started : 0 .. MaxTime]
NoScript == [action |-> "none"]

Report == [user : Users, version : Versions, env : Environments, status : Statuses,
           started : 0 .. MaxTime, ended : 0 .. MaxTime, key : 1 .. MaxRuns]
Received == [report : Report, received : 0 .. MaxTime]

\* ran: what the recipient ran by the reports there were.
Notice == [user : Uids, version : Versions, installed : Versions, ran : Versions \cup {0}]

-----------------------------------------------------------------------------
(* The users. *)

\* A script is handed out for a published version and may be kept.
Start(u, action, v, env) ==
  /\ script[u] = NoScript /\ runs < MaxRuns
  /\ lifecycle[v] # "draft" /\ env \in Targets[v]
  /\ script' = [script EXCEPT ![u] = [action |-> action, version |-> v, env |-> env, started |-> now]]
  /\ runs' = runs + 1
  /\ UNCHANGED <<lifecycle, machine, transit, table, notices, now, moves>>

SucceededStatus(action) == IF action = "install" THEN "succeeded" ELSE "uninstalled"

\* A command that fails leaves the machine as it was.
Finish(u, succeeds) ==
  /\ script[u] # NoScript
  /\ LET s == script[u]
         status == IF succeeds THEN SucceededStatus(s.action) ELSE "failed"
     IN /\ machine' = [machine EXCEPT ![u] =
              CASE status = "succeeded" -> [version |-> s.version, env |-> s.env]
                [] status = "uninstalled" -> NotInstalled
                [] OTHER -> @]
        /\ transit' = transit \cup {[user |-> u, version |-> s.version, env |-> s.env, status |-> status,
                                     started |-> s.started, ended |-> now, key |-> runs]}
  /\ script' = [script EXCEPT ![u] = NoScript]
  /\ UNCHANGED <<lifecycle, table, notices, now, runs, moves>>

ReceiveReport(report) ==
  /\ transit' = transit \ {report}
  /\ table' = Append(table, [report |-> report, received |-> now])
  /\ UNCHANGED <<lifecycle, machine, script, notices, now, runs, moves>>

Tick ==
  /\ now < MaxTime /\ now' = now + 1
  /\ UNCHANGED <<lifecycle, machine, script, transit, table, notices, runs, moves>>

-----------------------------------------------------------------------------
(* What the table says. *)

Rows == DOMAIN table
RowsOf(rows, u) == {i \in rows : table[i].report.user = u}

\* Seeded fault: without the end.
StartedBefore(i, j) == table[i].report.started < table[j].report.started \/ (table[i].report.started = table[j].report.started /\ i < j)

Precedes(i, j) ==
  LET r == table[i].report  s == table[j].report IN
  \/ r.started < s.started
  \/ r.started = s.started /\ r.ended < s.ended
  \/ r.started = s.started /\ r.ended = s.ended /\ i < j

\* The last of a user's rows that installed or uninstalled decides.
FoldCurrentInstallations(rows, u) ==
  LET changing == {i \in RowsOf(rows, u) : table[i].report.status \in {"succeeded", "uninstalled"}}
  IN IF changing = {} THEN NotInstalled
     ELSE LET last == CHOOSE i \in changing : \A j \in changing \ {i} : Precedes(j, i)
              report == table[last].report
          IN IF report.status = "uninstalled" THEN NotInstalled
             ELSE [version |-> report.version, env |-> report.env]

FindPackageTelemetry(start, end) == {i \in Rows : table[i].report.started \in start .. end}

Published == {v \in Versions : lifecycle[v] = "published"}

\* getMyInstallations: what is newer than what the user runs, if anything.
UpgradeAvailable(u) ==
  LET current == FoldCurrentInstallations(Rows, u) IN
  current # NotInstalled /\ Published # {} /\ current.version < Max(Published)

\* The row of a version written since there are targets supports nothing.
SupportedByRow(v) == IF v \in Legacy THEN Targets[v] ELSE {}

UpgradeCandidates(start, end) ==
  {u \in Uids :
    LET current == FoldCurrentInstallations(FindPackageTelemetry(start, end), u) IN
    /\ current # NotInstalled /\ Published # {}
    /\ current.version < Max(Published) /\ current.env \in SupportedByRow(Max(Published))}

-----------------------------------------------------------------------------
(* New versions. *)

Installed(u, v) == {table[i].report.version : i \in {i \in RowsOf(Rows, u) : table[i].report.status = "succeeded"}} \ {v}

\* Who installed another version; no one is told twice of one.
Recipients(v) == {u \in Uids \ {Author} : Installed(u, v) # {} /\ ~\E n \in notices : n.user = u /\ n.version = v}

Publish(v) ==
  /\ moves < MaxMoves /\ moves' = moves + 1
  /\ lifecycle[v] \in {"draft", "revised"}
  /\ lifecycle' = [lifecycle EXCEPT ![v] = "published"]
  /\ notices' = notices \cup
       {[user |-> u, version |-> v, installed |-> Max(Installed(u, v)), ran |-> FoldCurrentInstallations(Rows, u).version] : u \in Recipients(v)}
  /\ UNCHANGED <<machine, script, transit, table, now, runs>>

Withdraw(v, lifecycleAfter) ==
  /\ moves < MaxMoves /\ moves' = moves + 1
  /\ lifecycle[v] = "published"
  /\ lifecycle' = [lifecycle EXCEPT ![v] = lifecycleAfter]
  /\ UNCHANGED <<machine, script, transit, table, notices, now, runs>>

ReviseVersion(v) == Withdraw(v, "revised")
DelistVersion(v) == Withdraw(v, "delisted")

Init ==
  /\ lifecycle = [v \in Versions |-> IF v = Min(Versions) THEN "published" ELSE "draft"]
  /\ machine = [u \in Users |-> NotInstalled] /\ script = [u \in Users |-> NoScript]
  /\ transit = {} /\ table = <<>> /\ notices = {}
  /\ now = 0 /\ runs = 0 /\ moves = 0

Next ==
  \/ \E u \in Users, action \in {"install", "uninstall"}, v \in Versions, env \in Environments : Start(u, action, v, env)
  \/ \E u \in Users, succeeds \in BOOLEAN : Finish(u, succeeds)
  \/ \E report \in transit : ReceiveReport(report)
  \/ Tick
  \/ \E v \in Versions : Publish(v) \/ ReviseVersion(v) \/ DelistVersion(v)

Spec == Init /\ [][Next]_installationsVars

-----------------------------------------------------------------------------
(* Properties. *)

TypeOK ==
  /\ lifecycle \in [Versions -> Lifecycles]
  /\ machine \in [Users -> Installation \cup {NotInstalled}]
  /\ script \in [Users -> Scripts \cup {NoScript}]
  /\ transit \subseteq Report /\ table \in Seq(Received) /\ notices \subseteq Notice
  /\ now \in 0 .. MaxTime /\ runs \in 0 .. MaxRuns /\ moves \in 0 .. MaxMoves

AllArrived(u) == script[u] = NoScript /\ \A report \in transit : report.user # u

\* No two scripts began and ended in the same second.
TellableApart(u) ==
  \A i, j \in RowsOf(Rows, u) :
    table[i].report.started = table[j].report.started /\ table[i].report.ended = table[j].report.ended => i = j

(* Once the reports of a user have all arrived, in whatever order and      *)
(* however late, the user's list shows what the machine runs.               *)
FoldTellsMachine ==
  \A u \in Users : AllArrived(u) /\ TellableApart(u) => FoldCurrentInstallations(Rows, u) = machine[u]

(* Figures over a period up to now never show a version that a report      *)
(* received by now says is no longer run.                                   *)
PeriodToNowIsCurrent ==
  \A u \in Users, start \in 0 .. now :
    FoldCurrentInstallations(FindPackageTelemetry(start, now), u)
      \in {NotInstalled, FoldCurrentInstallations(Rows, u)}

(* Whoever was known to run an older version when a version came out has   *)
(* been told of it, now or when it first came out.                          *)
OutdatedAreTold ==
  \A v \in Versions, u \in Uids \ {Author} :
    /\ lifecycle[v] # "published" /\ lifecycle'[v] = "published"
    /\ FoldCurrentInstallations(Rows, u).version \in 1 .. v - 1
    => \E n \in notices' : n.user = u /\ n.version = v

(* No one is told of a version who is known to run it or a newer one.      *)
NewerAreNotTold == \A n \in notices : n.ran < n.version

(* Who is logged in, runs an older version than the latest and could get   *)
(* a script for it is among those to upgrade.                               *)
OutdatedAreCandidates ==
  \A u \in Uids :
    UpgradeAvailable(u) /\ FoldCurrentInstallations(Rows, u).env \in Targets[Max(Published)] =>
      u \in UpgradeCandidates(0, now)

=============================================================================
