----------------------------- MODULE ProcessRunner -----------------------------
(***************************************************************************)
(* ProcessRunner.run: a command started as a child process, the processes   *)
(* it starts in turn, its output, and the timer that ends it.               *)
(*                                                                         *)
(* The child leads a process group of its own.  Node tells of its end with  *)
(* 'close', once it has ended and no process holds its output any more.     *)
(***************************************************************************)
EXTENDS Naturals, FiniteSets

CONSTANTS
  Platforms,       \* "unix", "win32"
  Descendants,     \* bound: the processes the command starts
  MayLeave,        \* whether one of them may leave the group (setsid)
  MaxOutputBytes,  \* maxOutputBytes
  MaxWritten       \* bound: bytes written

ProcessAssumption ==
  /\ Platforms \subseteq {"unix", "win32"} /\ MayLeave \in BOOLEAN
  /\ MaxOutputBytes \in Nat /\ MaxWritten \in Nat

VARIABLES
  platform,
  child,        \* "starting", "running", "missing", "zero", "nonzero", "killed"
  descendant,   \* what each process the command started is
  timer,        \* "armed", "fired", "cleared"
  mode,         \* terminationMode
  written,      \* bytes written to the output
  captured,     \* bytes kept of them
  truncated,    \* outputTruncated
  result

processVars == <<platform, child, descendant, timer, mode, written, captured, truncated, result>>

NotStarted == [runs |-> FALSE, grouped |-> FALSE, holds |-> FALSE]
Processes == [runs : BOOLEAN, grouped : BOOLEAN, holds : BOOLEAN]

Results == [exitCode : {"zero", "nonzero", "null"}, errorCode : {"none", "runner_timeout", "runner_unavailable"}]
NoResult == [exitCode |-> "pending"]

Running == {d \in Descendants : descendant[d].runs}
Grouped == {d \in Running : descendant[d].grouped}
Holding == {d \in Running : descendant[d].holds}

-----------------------------------------------------------------------------
(* The processes. *)

\* ENOENT and the like are an 'error' of the child.
Spawn(starts) ==
  /\ child = "starting" /\ child' = IF starts THEN "running" ELSE "missing"
  /\ UNCHANGED <<platform, descendant, timer, mode, written, captured, truncated, result>>

\* A process passes on the group and the output it has itself.
MayFork(grouped, holds) ==
  \/ child = "running"
  \/ \E f \in Running : (grouped => f \in Grouped) /\ (holds => f \in Holding)

Fork(d, grouped, holds) ==
  /\ MayFork(grouped, holds) /\ descendant[d] = NotStarted
  /\ grouped \/ MayLeave
  /\ descendant' = [descendant EXCEPT ![d] = [runs |-> TRUE, grouped |-> grouped, holds |-> holds]]
  /\ UNCHANGED <<platform, child, timer, mode, written, captured, truncated, result>>

EndChild(code) ==
  /\ child = "running" /\ child' = code
  /\ UNCHANGED <<platform, descendant, timer, mode, written, captured, truncated, result>>

EndDescendant(d) ==
  /\ d \in Running /\ descendant' = [descendant EXCEPT ![d].runs = FALSE]
  /\ UNCHANGED <<platform, child, timer, mode, written, captured, truncated, result>>

-----------------------------------------------------------------------------
(* The runner. *)

Less(m, n) == IF m < n THEN m ELSE n

Capture(bytes) ==
  LET remaining == MaxOutputBytes - captured IN
  /\ captured' = captured + Less(bytes, remaining)
  /\ truncated' = (truncated \/ bytes > remaining)

Write(bytes) ==
  /\ child = "running" \/ Holding # {}
  /\ written + bytes <= MaxWritten /\ written' = written + bytes
  /\ Capture(bytes)
  /\ UNCHANGED <<platform, child, descendant, timer, mode, result>>

KillParent == child' = IF child = "running" THEN "killed" ELSE child

\* A signal to a group that has no process left fails.
TerminateProcessTree ==
  /\ KillParent
  /\ IF platform = "unix" /\ (child = "running" \/ Grouped # {})
     THEN /\ mode' = "process_group"
          /\ descendant' = [d \in Descendants |-> IF d \in Grouped THEN [descendant[d] EXCEPT !.runs = FALSE] ELSE descendant[d]]
     ELSE mode' = "parent_only" /\ UNCHANGED descendant

TimeOut ==
  /\ child # "starting" /\ timer = "armed" /\ timer' = "fired"
  /\ TerminateProcessTree
  /\ UNCHANGED <<platform, written, captured, truncated, result>>

Closable == child \notin {"starting", "running"} /\ Holding = {}

ExitCode == IF timer = "fired" \/ child \notin {"zero", "nonzero"} THEN "null" ELSE child

Close ==
  /\ result = NoResult /\ Closable
  /\ timer' = IF timer = "armed" THEN "cleared" ELSE timer
  /\ result' = [exitCode |-> ExitCode,
                errorCode |-> CASE timer = "fired" -> "runner_timeout"
                                [] timer # "fired" /\ child = "missing" -> "runner_unavailable"
                                [] OTHER -> "none"]
  /\ UNCHANGED <<platform, child, descendant, mode, written, captured, truncated>>

Init ==
  /\ platform \in Platforms /\ child = "starting"
  /\ descendant = [d \in Descendants |-> NotStarted]
  /\ timer = "armed" /\ mode = "none"
  /\ written = 0 /\ captured = 0 /\ truncated = FALSE /\ result = NoResult

Next ==
  \/ \E starts \in BOOLEAN : Spawn(starts)
  \/ \E d \in Descendants, grouped, holds \in BOOLEAN : Fork(d, grouped, holds)
  \/ \E code \in {"zero", "nonzero"} : EndChild(code)
  \/ \E d \in Descendants : EndDescendant(d)
  \/ \E bytes \in 1 .. 2 : Write(bytes)
  \/ TimeOut
  \/ Close

\* Nothing makes a process end but the runner.
Goes == (\E starts \in BOOLEAN : Spawn(starts)) \/ TimeOut \/ Close

Fairness == WF_processVars(Goes)

Spec == Init /\ [][Next]_processVars /\ Fairness

-----------------------------------------------------------------------------
(* Properties. *)

TypeOK ==
  /\ platform \in Platforms
  /\ child \in {"starting", "running", "missing", "zero", "nonzero", "killed"}
  /\ descendant \in [Descendants -> Processes]
  /\ timer \in {"armed", "fired", "cleared"} /\ mode \in {"none", "process_group", "parent_only"}
  /\ written \in 0 .. MaxWritten /\ captured \in 0 .. MaxOutputBytes /\ truncated \in BOOLEAN
  /\ result \in Results \cup {NoResult}

(* An exit code is the command's own, and the timer had not fired: what a  *)
(* killed command leaves is never taken for success.                        *)
ExitIsOwn ==
  result # NoResult /\ result.exitCode # "null" =>
    /\ child = result.exitCode /\ timer = "cleared" /\ mode = "none"
    /\ result.errorCode = "none"

(* Where a timeout says it ended the group, none of the group runs on, and *)
(* the child does not run on in any case.                                   *)
ModeTellsWhatEnded ==
  timer = "fired" => child # "running" /\ (mode = "process_group" => Grouped = {})

(* What is kept of the output is its beginning up to the limit, and the    *)
(* result says whether that is all.                                         *)
OutputUpToLimit == captured = Less(written, MaxOutputBytes) /\ (truncated <=> written > MaxOutputBytes)

(* A timeout gives a result.                                                *)
TimeoutGivesResult == timer = "fired" ~> result # NoResult

=============================================================================
