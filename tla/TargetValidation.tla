--------------------------- MODULE TargetValidation ---------------------------
(***************************************************************************)
(* One target of a version is tried out: its install script, then its      *)
(* uninstall script, in containers (DockerLinuxValidationRunner) or under   *)
(* PowerShell on the host (PowerShellValidationRunner), and what they       *)
(* reported and left behind decides.                                        *)
(*                                                                         *)
(* ProcessRunner says how a process ends.  Killing the docker command does  *)
(* not end its container.                                                   *)
(***************************************************************************)
EXTENDS Naturals, Sequences, FiniteSets

CONSTANTS
  Kinds,         \* "docker", "pwsh"
  DaemonFails    \* whether the docker daemon may fail to answer

TargetAssumption == Kinds \subseteq {"docker", "pwsh"} /\ DaemonFails \in BOOLEAN

VARIABLES
  kind,
  stage,       \* what the runner does next, and with which script
  script,      \* what became of each script
  container,   \* the container of each
  exit,        \* exitCode and errorCode of the command that ran it
  removed,     \* containerRemoved of each
  telemetry,   \* what the scripts reported, as it was captured
  read,        \* how much of it had been read after each
  files,       \* whether files of the package are there
  directory,   \* whether the temporary directory is there
  result

targetVars == <<kind, stage, script, container, exit, removed, telemetry, read, files, directory, result>>

Actions == {"install", "uninstall"}

Stages == [step : {"preparing", "running", "waiting", "removing", "inspecting", "reading", "deciding", "done"}, action : Actions]
At(step, action) == [step |-> step, action |-> action]

Scripts == {"none", "command", "ok", "bad", "reported ok", "reported bad", "ended ok", "ended bad", "killed"}
Containers == {"none", "running", "exited", "gone"}
Exits == {"none", "zero", "nonzero", "timeout", "unavailable"}

Payload == [action : Actions, status : {"succeeded", "uninstalled", "failed"}]

Succeeded(action) == [action |-> action, status |-> IF action = "install" THEN "succeeded" ELSE "uninstalled"]

Results == [status : {"passed", "failed"},
            errorCode : {"none", "runner_error", "runner_timeout", "runner_unavailable", "container_cleanup_failed",
                         "install_failed", "uninstall_failed", "telemetry_missing", "cleanup_failed"}]
NoResult == [status |-> "pending"]

Failed(errorCode) == [status |-> "failed", errorCode |-> errorCode]

\* A script runs in its container, or as the process that is waited for.
Runs(action) ==
  IF kind = "docker" THEN container[action] = "running" ELSE stage = At("waiting", action) /\ script[action] # "killed"

-----------------------------------------------------------------------------
(* The scripts. *)

ToScript(action, progress) == script' = [script EXCEPT ![action] = progress]

\* The maintainer's command writes files, or takes them away.
ChangeFiles(action) ==
  /\ Runs(action) /\ script[action] = "command"
  /\ files' = (action = "install")
  /\ UNCHANGED <<kind, stage, script, container, exit, removed, telemetry, read, directory, result>>

EndCommand(action, ok) ==
  /\ Runs(action) /\ script[action] = "command"
  /\ ToScript(action, IF ok THEN "ok" ELSE "bad")
  /\ UNCHANGED <<kind, stage, container, exit, removed, telemetry, read, files, directory, result>>

\* The report may be lost on its way into the file.
ReportResult(action) ==
  /\ Runs(action) /\ script[action] \in {"ok", "bad"}
  /\ LET ok == script[action] = "ok" IN
     /\ ToScript(action, IF ok THEN "reported ok" ELSE "reported bad")
     /\ telemetry' \in {telemetry, Append(telemetry, IF ok THEN Succeeded(action) ELSE [action |-> action, status |-> "failed"])}
  /\ UNCHANGED <<kind, stage, container, exit, removed, read, files, directory, result>>

\* --rm: what has ended is removed; docker tells of an error if it is not.
EndScript(action, cleared) ==
  /\ Runs(action) /\ script[action] \in {"reported ok", "reported bad"}
  /\ cleared \/ (DaemonFails /\ kind = "docker")
  /\ ToScript(action, IF script[action] = "reported ok" /\ cleared THEN "ended ok" ELSE "ended bad")
  /\ IF kind = "docker"
     THEN container' = [container EXCEPT ![action] = IF cleared THEN "gone" ELSE "exited"]
     ELSE UNCHANGED container
  /\ UNCHANGED <<kind, stage, exit, removed, telemetry, read, files, directory, result>>

-----------------------------------------------------------------------------
(* The runner. *)

\* Whatever is thrown makes the target fail, and the directory is removed.
Throw ==
  /\ stage \in {At("preparing", "install"), At("deciding", "uninstall")}
  /\ stage' = At("done", "install") /\ result' = Failed("runner_error") /\ directory' = FALSE
  /\ UNCHANGED <<kind, script, container, exit, removed, telemetry, read, files>>

\* PowerShell is asked for its version first.
Unavailable ==
  /\ stage = At("preparing", "install") /\ kind = "pwsh"
  /\ stage' = At("done", "install") /\ result' \in {Failed("runner_unavailable"), Failed("runner_timeout")}
  /\ UNCHANGED <<kind, script, container, exit, removed, telemetry, read, files, directory>>

Prepare ==
  /\ stage = At("preparing", "install") /\ stage' = At("running", "install") /\ directory' = TRUE
  /\ UNCHANGED <<kind, script, container, exit, removed, telemetry, read, files, result>>

Run(action) ==
  /\ stage = At("running", action) /\ stage' = At("waiting", action)
  /\ ToScript(action, "command")
  /\ container' = [container EXCEPT ![action] = IF kind = "docker" THEN "running" ELSE "none"]
  /\ UNCHANGED <<kind, exit, removed, telemetry, read, files, directory, result>>

\* There is no docker, no image, no memory: the script never ran.
FailToRun(action, code) ==
  /\ stage = At("running", action)
  /\ stage' = At(IF kind = "docker" THEN "removing" ELSE "reading", action)
  /\ exit' = [exit EXCEPT ![action] = code]
  /\ UNCHANGED <<kind, script, container, removed, telemetry, read, files, directory, result>>

Close(action, code) ==
  /\ exit' = [exit EXCEPT ![action] = code]
  /\ stage' = At(IF kind = "docker" THEN "removing" ELSE "reading", action)
  /\ UNCHANGED <<kind, container, removed, telemetry, read, files, directory, result>>

Ended(action) ==
  /\ stage = At("waiting", action) /\ script[action] \in {"ended ok", "ended bad"}
  /\ Close(action, IF script[action] = "ended ok" THEN "zero" ELSE "nonzero")
  /\ UNCHANGED script

\* The processes of PowerShell are killed, the container runs on.
TimeOut(action) ==
  /\ stage = At("waiting", action)
  /\ Close(action, "timeout")
  /\ IF kind = "pwsh" THEN ToScript(action, "killed") ELSE UNCHANGED script

\* docker rm -f
RemoveContainer(action, answers) ==
  /\ stage = At("removing", action) /\ stage' = At("inspecting", action)
  /\ answers \/ DaemonFails
  /\ IF answers /\ container[action] \in {"running", "exited"}
     THEN /\ container' = [container EXCEPT ![action] = "gone"]
          /\ IF container[action] = "running" /\ script[action] \notin {"ended ok", "ended bad"}
             THEN ToScript(action, "killed") ELSE UNCHANGED script
     ELSE UNCHANGED <<container, script>>
  /\ UNCHANGED <<kind, exit, removed, telemetry, read, files, directory, result>>

\* docker inspect: an exit code other than zero is taken for no such container.
InspectContainer(action, answers) ==
  /\ stage = At("inspecting", action) /\ stage' = At("reading", action)
  /\ \/ answers /\ removed' = [removed EXCEPT ![action] = container[action] \notin {"running", "exited"}]
     \/ ~answers /\ DaemonFails /\ \E timesOut \in BOOLEAN : removed' = [removed EXCEPT ![action] = ~timesOut]
  /\ UNCHANGED <<kind, script, container, exit, telemetry, read, files, directory, result>>

\* The uninstall script runs whatever became of the install script.
ReadTelemetry(action) ==
  /\ stage = At("reading", action)
  /\ stage' = IF action = "install" THEN At("running", "uninstall") ELSE At("deciding", "uninstall")
  /\ read' = [read EXCEPT ![action] = Len(telemetry)]
  /\ UNCHANGED <<kind, script, container, exit, removed, telemetry, files, directory, result>>

\* Seeded fault: a report counts for either script.
InEitherWindow(action) ==
  \E i \in 1 .. read["uninstall"] : telemetry[i].status \in {"succeeded", "uninstalled"}

\* The slice of the telemetry since the script before.
TelemetrySeen(action) ==
  LET first == IF action = "install" THEN 1 ELSE read["install"] + 1
  IN \E i \in first .. read[action] : telemetry[i].status = Succeeded(action).status

ContainersRemoved == kind = "docker" => removed["install"] /\ removed["uninstall"]

ErrorCode ==
  LET either(code) == exit["install"] = code \/ exit["uninstall"] = code
      first == IF exit["install"] \in {"timeout", "unavailable"} THEN exit["install"] ELSE exit["uninstall"]
  IN CASE either("timeout") \/ either("unavailable") -> IF first = "timeout" THEN "runner_timeout" ELSE "runner_unavailable"
       [] ~ContainersRemoved -> "container_cleanup_failed"
       [] exit["install"] # "zero" -> "install_failed"
       [] exit["uninstall"] # "zero" -> "uninstall_failed"
       [] ~TelemetrySeen("install") \/ ~TelemetrySeen("uninstall") -> "telemetry_missing"
       [] files -> "cleanup_failed"
       [] OTHER -> "none"

\* The result leaves with the directory removed.
Decide ==
  /\ stage = At("deciding", "uninstall") /\ stage' = At("done", "uninstall")
  /\ result' = [status |-> IF ErrorCode = "none" THEN "passed" ELSE "failed", errorCode |-> ErrorCode]
  /\ directory' = FALSE
  /\ UNCHANGED <<kind, script, container, exit, removed, telemetry, read, files>>

Init ==
  /\ kind \in Kinds /\ stage = At("preparing", "install")
  /\ script = [a \in Actions |-> "none"] /\ container = [a \in Actions |-> "none"]
  /\ exit = [a \in Actions |-> "none"] /\ removed = [a \in Actions |-> FALSE]
  /\ telemetry = <<>> /\ read = [a \in Actions |-> 0]
  /\ files = FALSE /\ directory = FALSE /\ result = NoResult

RunScript(action) == Run(action) \/ \E code \in {"nonzero", "unavailable"} : FailToRun(action, code)

Runner ==
  \/ Throw \/ Unavailable \/ Prepare \/ Decide
  \/ \E action \in Actions :
       RunScript(action) \/ Ended(action) \/ TimeOut(action) \/ ReadTelemetry(action)
  \/ \E action \in Actions, answers \in BOOLEAN : RemoveContainer(action, answers) \/ InspectContainer(action, answers)

Next ==
  \/ Runner
  \/ \E action \in Actions : ChangeFiles(action) \/ ReportResult(action)
  \/ \E action \in Actions, well \in BOOLEAN : EndCommand(action, well) \/ EndScript(action, well)

\* The runner goes on: each process it waits for ends or is timed out.
Spec == Init /\ [][Next]_targetVars /\ WF_targetVars(Runner)

-----------------------------------------------------------------------------
(* Properties. *)

TypeOK ==
  /\ kind \in Kinds /\ stage \in Stages /\ script \in [Actions -> Scripts]
  /\ container \in [Actions -> Containers] /\ exit \in [Actions -> Exits] /\ removed \in [Actions -> BOOLEAN]
  /\ telemetry \in Seq(Payload) /\ read \in [Actions -> Nat]
  /\ files \in BOOLEAN /\ directory \in BOOLEAN /\ result \in Results \cup {NoResult}

(* A target passes only if both scripts came to their end with their       *)
(* commands successful, each reported that while it was its turn, no file   *)
(* of the package is left and no container runs on.                         *)
PassedMeansTried ==
  result.status = "passed" =>
    /\ \A action \in Actions : script[action] = "ended ok" /\ container[action] \notin {"running", "exited"}
    /\ \E i \in 1 .. read["install"], j \in read["install"] + 1 .. read["uninstall"] :
         telemetry[i] = Succeeded("install") /\ telemetry[j] = Succeeded("uninstall")
    /\ ~files

(* A container that is taken for removed is no longer there.               *)
RemovedMeansGone == \A action \in Actions : removed[action] => container[action] \notin {"running", "exited"}

=============================================================================
