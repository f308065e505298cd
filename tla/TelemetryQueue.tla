--------------------------- MODULE TelemetryQueue ---------------------------
(***************************************************************************)
(* The telemetry of the generated install scripts on one machine, as       *)
(* ScriptGeneratorService writes it into each of them.  A script first     *)
(* sends the reports that earlier scripts left in the pending queue, then  *)
(* runs the maintainer's command, then reports its result, and queues the  *)
(* report when the server cannot be reached.  Scripts run concurrently;    *)
(* each may be killed at any step.  A lock guards the two files.  The Bash *)
(* script makes a directory with the pid of its owner in it and takes over *)
(* the lock of a process that is gone; the PowerShell script opens a file  *)
(* exclusively, which the system undoes when the process ends.             *)
(***************************************************************************)
EXTENDS Naturals, Sequences, FiniteSets

CONSTANTS
  Script,       \* the scripts that run; each makes one report, its namesake
  Earlier,      \* reports of scripts that ran before
  Backlog,      \* the sequence in which these wait in the pending queue
  Malformed,    \* the reports the server answers with a permanent 4xx
  LockKind,     \* "directory" (Bash) or "stream" (PowerShell)
  Patience,     \* attempts after which a lock without owner is given up (3)
  MaxAttempts,  \* attempts after which a script does without the lock (40)
  Prompt,       \* ASSUMPTION: a process that lives gets from one file
                \* operation of the lock to the next before another process
                \* has failed Patience times, 50 ms apart
  MaxKilled,    \* BOUND: how many scripts are killed
  None          \* no pid; also the file that is the queue at first

Report == Script \cup Earlier

ASSUME TelemetryQueueAssumption ==
  /\ Backlog \in Seq(Earlier)
  /\ \A m, n \in DOMAIN Backlog : Backlog[m] = Backlog[n] => m = n
  /\ Malformed \subseteq Report
  /\ LockKind \in {"directory", "stream"}
  /\ Patience \in Nat \ {0}
  /\ MaxAttempts \in Nat \ {0}
  /\ Prompt \in BOOLEAN
  /\ MaxKilled \in Nat
  /\ None \notin Report
  /\ Script \cap Earlier = {}

VARIABLES
  pc,         \* where each script is
  task,       \* what it wants the lock for: "drain", "pending" or "dead"
  attempt,    \* its attempts to get the lock
  seen,       \* the owner it read last
  lockDir,    \* the lock directory exists
  lockOwner,  \* the pid in its owner file; the process that holds the stream
  file,       \* contents: the first queue and the temporary of each script
  pending,    \* which of them has the name pending_reports.jsonl
  source,     \* the file a script drains
  line,       \* how many lines of it were read
  blocked,    \* the rest of them is only copied
  dead,       \* the reports in dead_letter_reports.jsonl
  stored      \* rows of installations, by their idempotency key

lockVars  == <<attempt, seen, lockDir, lockOwner>>
drainVars == <<source, line, blocked>>
fileVars  == <<file, pending>>
vars == <<pc, task, lockVars, fileVars, drainVars, dead, stored>>

Goto(p, label) == pc' = [pc EXCEPT ![p] = label]

Init ==
  /\ pc = [p \in Script |-> "start"]
  /\ task = [p \in Script |-> "drain"]
  /\ attempt = [p \in Script |-> 0]
  /\ seen = [p \in Script |-> None]
  /\ lockDir = FALSE
  /\ lockOwner = None
  /\ file = [f \in Script \cup {None} |-> IF f = None THEN Backlog ELSE <<>>]
  /\ pending = None
  /\ source = [p \in Script |-> None]
  /\ line = [p \in Script |-> 0]
  /\ blocked = [p \in Script |-> FALSE]
  /\ dead = {}
  /\ stored = {}

-----------------------------------------------------------------------------
(* The server *)

\* The answers a script tells apart: 2xx, a permanent 4xx, or anything that is
\* worth another try (no answer, 5xx, 408, 425, 429).
Answers == {"accepted", "refused", "failed"}

\* A report is stored once under its key, a second time is acknowledged as a
\* duplicate.  A script that gets no answer does not know whether it was.
Send(r, answer) ==
  \/ answer = "accepted" /\ r \notin Malformed /\ stored' = stored \cup {r}
  \/ answer = "refused" /\ r \in Malformed /\ stored' = stored
  \/ answer = "failed" /\ stored' = stored
  \/ answer = "failed" /\ r \notin Malformed /\ stored' = stored \cup {r}

-----------------------------------------------------------------------------
(* The lock *)

Ended == {"done", "silent", "killed"}

\* Seeded fault: the test of kill -0 is inverted.
StillThere(o) == o # None /\ pc[o] \notin Ended

\* kill -0 fails: the process is gone.  Pids are not reused here.
Gone(o) == o # None /\ pc[o] \in Ended

\* Seeded fault: a script goes on to its task without opening anything.
GrantedAtOnce(p) == task[p]

\* Where a script goes when it got the lock, when it does without, and when it
\* has given the lock back.
Granted(p)  == IF task[p] = "drain" THEN "open" ELSE "append"
Refused(p)  == IF task[p] = "drain" THEN "run"  ELSE "silent"
Released(p) == IF task[p] = "drain" THEN "run"  ELSE "done"

\* BOUND: the count stops at MaxAttempts, where every test on it is decided.
AttemptAgain(p) ==
  attempt' = [attempt EXCEPT ![p] = IF @ < MaxAttempts THEN @ + 1 ELSE @]

TryMkdir(p) ==
  /\ pc[p] = "lock" /\ LockKind = "directory"
  /\ \/ /\ ~lockDir
        /\ lockDir' = TRUE
        /\ Goto(p, "own")
        /\ UNCHANGED attempt
     \/ /\ lockDir
        /\ AttemptAgain(p)
        /\ Goto(p, "look")
        /\ UNCHANGED lockDir
  /\ UNCHANGED <<task, seen, lockOwner, fileVars, drainVars, dead, stored>>

\* Writes the owner file, unless somebody removed the directory meanwhile.
WriteOwner(p) ==
  /\ pc[p] = "own"
  /\ \/ lockDir /\ lockOwner' = p /\ Goto(p, Granted(p))
     \/ ~lockDir /\ Goto(p, Refused(p)) /\ UNCHANGED lockOwner
  /\ UNCHANGED <<task, attempt, seen, lockDir, fileVars, drainVars, dead, stored>>

ReadOwner(p) ==
  /\ pc[p] = "look"
  /\ seen' = [seen EXCEPT ![p] = lockOwner]
  /\ Goto(p, "probe")
  /\ UNCHANGED <<task, attempt, lockDir, lockOwner, fileVars, drainVars, dead,
                 stored>>

\* Where the loop goes after a look that took nothing over.
NextRound(p) == IF attempt[p] >= MaxAttempts THEN Refused(p) ELSE "lock"

Probe(p) ==
  /\ pc[p] = "probe"
  /\ \/ Gone(seen[p]) /\ Goto(p, "disown")
     \/ seen[p] = None /\ attempt[p] >= Patience /\ Goto(p, "abandon")
     \/ /\ ~Gone(seen[p])
        /\ ~(seen[p] = None /\ attempt[p] >= Patience)
        /\ Goto(p, NextRound(p))
  /\ UNCHANGED <<task, lockVars, fileVars, drainVars, dead, stored>>

\* Seeded fault: the owner file of a process that is gone stays.
OwnerKept == lockOwner

\* rm -f of the owner file, whoever's it is by now.
NoOwner == None

Disown(p) ==
  /\ pc[p] = "disown"
  /\ lockOwner' = NoOwner
  /\ Goto(p, "sweep")
  /\ UNCHANGED <<task, attempt, seen, lockDir, fileVars, drainVars, dead, stored>>

\* rmdir fails, and nobody minds, on a directory that is not empty.
Rmdir == lockDir' = (lockDir /\ lockOwner # None) /\ UNCHANGED lockOwner

Sweep(p) ==
  /\ pc[p] = "sweep"
  /\ Rmdir
  /\ Goto(p, "lock")
  /\ UNCHANGED <<task, attempt, seen, fileVars, drainVars, dead, stored>>

BetweenFileOperations(o) == pc[o] \in {"own", "sweep", "unlock"}

\* The directory of a process that died before it wrote its pid, or after it
\* removed it.
Abandon(p) ==
  /\ pc[p] = "abandon"
  /\ Prompt => \A o \in Script \ {p} : ~BetweenFileOperations(o)
  /\ Rmdir
  /\ Goto(p, NextRound(p))
  /\ UNCHANGED <<task, attempt, seen, fileVars, drainVars, dead, stored>>

\* Only the owner releases: read the owner file, remove it, then the directory.
CheckOwner(p) ==
  /\ pc[p] = "release" /\ LockKind = "directory"
  /\ Goto(p, IF lockOwner = p THEN "unown" ELSE Released(p))
  /\ UNCHANGED <<task, lockVars, fileVars, drainVars, dead, stored>>

RemoveOwner(p) ==
  /\ pc[p] = "unown"
  /\ lockOwner' = None
  /\ Goto(p, "unlock")
  /\ UNCHANGED <<task, attempt, seen, lockDir, fileVars, drainVars, dead, stored>>

RemoveDir(p) ==
  /\ pc[p] = "unlock"
  /\ Rmdir
  /\ Goto(p, Released(p))
  /\ UNCHANGED <<task, attempt, seen, fileVars, drainVars, dead, stored>>

\* Seeded fault: the stream is opened with FileShare.ReadWrite.
SharedOpen == TRUE

Openable == lockOwner = None

OpenStream(p) ==
  /\ pc[p] = "lock" /\ LockKind = "stream"
  /\ \/ Openable /\ lockOwner' = p /\ Goto(p, Granted(p)) /\ UNCHANGED attempt
     \/ /\ ~Openable
        /\ AttemptAgain(p)
        /\ Goto(p, IF attempt'[p] >= MaxAttempts THEN Refused(p) ELSE "lock")
        /\ UNCHANGED lockOwner
  /\ UNCHANGED <<task, seen, lockDir, fileVars, drainVars, dead, stored>>

CloseStream(p) ==
  /\ pc[p] = "release" /\ LockKind = "stream"
  /\ lockOwner' = IF lockOwner = p THEN None ELSE lockOwner
  /\ Goto(p, Released(p))
  /\ UNCHANGED <<task, attempt, seen, lockDir, fileVars, drainVars, dead, stored>>

-----------------------------------------------------------------------------
(* The queue *)

\* Drain if there is something to.  PowerShell asks only for the file, which
\* may be empty.
Start(p) ==
  /\ pc[p] = "start"
  /\ \/ /\ file[pending] # <<>> \/ LockKind = "stream"
        /\ Goto(p, "lock")
     \/ file[pending] = <<>> /\ Goto(p, "run")
  /\ UNCHANGED <<task, lockVars, fileVars, drainVars, dead, stored>>

\* A fresh temporary; the queue is opened for reading.
OpenQueue(p) ==
  /\ pc[p] = "open"
  /\ file' = [file EXCEPT ![p] = <<>>]
  /\ source' = [source EXCEPT ![p] = pending]
  /\ Goto(p, "drain")
  /\ UNCHANGED <<task, lockVars, pending, line, blocked, dead, stored>>

\* Seeded fault: a line that could not be sent is not copied.
KeptIfBlocked(p, r) == file' = IF blocked[p] THEN [file EXCEPT ![p] = Append(@, r)]
                                             ELSE file

\* The line stays in the queue.
Kept(p, r) == file' = [file EXCEPT ![p] = Append(@, r)]

\* Seeded fault: the lines after one that could not be sent are tried as well.
NeverBlocks(p) == blocked' = blocked

\* The lines after one that could not be sent are only copied.
Blocks(p) == blocked' = [blocked EXCEPT ![p] = TRUE]

DrainLine(p) ==
  LET r == file[source[p]][line[p] + 1]
  IN /\ pc[p] = "drain"
     /\ line[p] < Len(file[source[p]])
     /\ line' = [line EXCEPT ![p] = @ + 1]
     /\ \/ blocked[p] /\ Kept(p, r) /\ UNCHANGED <<blocked, dead, stored>>
        \/ /\ ~blocked[p]
           /\ \/ Send(r, "accepted") /\ UNCHANGED <<file, blocked, dead>>
              \/ /\ Send(r, "refused")
                 /\ dead' = dead \cup {r}
                 /\ UNCHANGED <<file, blocked>>
              \/ Send(r, "failed") /\ Kept(p, r) /\ Blocks(p) /\ UNCHANGED dead
     /\ UNCHANGED <<pc, task, lockVars, pending, source>>

\* mv of the temporary over the queue.
SwapQueue(p) ==
  /\ pc[p] = "drain"
  /\ line[p] >= Len(file[source[p]])
  /\ pending' = p
  /\ Goto(p, "release")
  /\ UNCHANGED <<task, lockVars, file, drainVars, dead, stored>>

\* The maintainer's command has ended; its result is reported.
ReportResult(p) ==
  /\ pc[p] = "run"
  /\ \/ Send(p, "accepted") /\ Goto(p, "done") /\ UNCHANGED <<task, attempt>>
     \/ /\ \/ Send(p, "refused") /\ task' = [task EXCEPT ![p] = "dead"]
           \/ Send(p, "failed")  /\ task' = [task EXCEPT ![p] = "pending"]
        /\ attempt' = [attempt EXCEPT ![p] = 0]
        /\ Goto(p, "lock")
  /\ UNCHANGED <<seen, lockDir, lockOwner, fileVars, drainVars, dead>>

AppendReport(p) ==
  /\ pc[p] = "append"
  /\ \/ task[p] = "dead" /\ dead' = dead \cup {p} /\ UNCHANGED file
     \/ /\ task[p] = "pending"
        /\ file' = [file EXCEPT ![pending] = Append(@, p)]
        /\ UNCHANGED dead
  /\ Goto(p, "release")
  /\ UNCHANGED <<task, lockVars, pending, drainVars, stored>>

Kill(p) ==
  /\ pc[p] \notin Ended
  /\ Cardinality({o \in Script : pc[o] = "killed"}) < MaxKilled
  /\ Goto(p, "killed")
  /\ lockOwner' = IF LockKind = "stream" /\ lockOwner = p THEN None
                                                         ELSE lockOwner
  /\ UNCHANGED <<task, attempt, seen, lockDir, fileVars, drainVars, dead, stored>>

-----------------------------------------------------------------------------
Step(p) ==
  \/ TryMkdir(p) \/ WriteOwner(p) \/ ReadOwner(p) \/ Probe(p)
  \/ Disown(p) \/ Sweep(p) \/ Abandon(p)
  \/ CheckOwner(p) \/ RemoveOwner(p) \/ RemoveDir(p)
  \/ OpenStream(p) \/ CloseStream(p)
  \/ Start(p) \/ OpenQueue(p) \/ DrainLine(p) \/ SwapQueue(p)
  \/ ReportResult(p) \/ AppendReport(p)

Next == \E p \in Script : Step(p) \/ Kill(p)

Spec == Init /\ [][Next]_vars

\* A script that is not killed goes on: every request has a timeout, and the
\* maintainer's command is taken to end.
FairSpec == Spec /\ \A p \in Script : WF_vars(Step(p))

-----------------------------------------------------------------------------
(* Types *)

Labels ==
  { "start", "lock", "own", "look", "probe", "disown", "sweep", "abandon",
    "open", "drain", "append", "release", "unown", "unlock", "run" } \cup Ended

TypeOK ==
  /\ pc \in [Script -> Labels]
  /\ task \in [Script -> {"drain", "pending", "dead"}]
  /\ attempt \in [Script -> 0 .. MaxAttempts]
  /\ seen \in [Script -> Script \cup {None}]
  /\ lockDir \in BOOLEAN
  /\ lockOwner \in Script \cup {None}
  /\ file \in [Script \cup {None} -> Seq(Report)]
  /\ pending \in Script \cup {None}
  /\ source \in [Script -> Script \cup {None}]
  /\ line \in [Script -> Nat]
  /\ blocked \in [Script -> BOOLEAN]
  /\ dead \subseteq Report
  /\ stored \subseteq Report

-----------------------------------------------------------------------------
(* Properties *)

Writing(p) == pc[p] \in {"open", "drain", "append"}

\* At most one script at a time rewrites the queue ("one lock per user, so that
\* concurrent scripts do not rewrite it together", telemetry design).
OneWriter == \A p, q \in Script : Writing(p) /\ Writing(q) => p = q

Lines(f) == {file[f][n] : n \in DOMAIN file[f]}

Accounted == Lines(pending) \cup dead \cup stored

\* No report is lost once it was in the queue, whoever drains it and wherever
\* that script is killed; and a script that ended with its report queued or
\* sent has not lost it since.
NothingLost ==
  /\ \A n \in DOMAIN Backlog : Backlog[n] \in Accounted
  /\ \A p \in Script : pc[p] = "done" => p \in Accounted

RQ == INSTANCE ReportQueue WITH queue <- file[pending]

\* Files, lock and processes together are a queue: reports join it at its tail,
\* and leave it from its head, in order, once the server has them or refuses
\* them (_asp_drain_queue, _asp_append_locked and their PowerShell twins).
ImplementsReportQueue == RQ!Spec

\* Every script ends, whoever was killed with the lock in its hands, however far
\* it had got with taking or releasing it, and however slow the others are:
\* telemetry never keeps a maintainer's command from running or a script from
\* returning (_asp_acquire_queue_lock, Invoke-AspQueueLock).
ScriptsEnd == \A p \in Script : <>(pc[p] \in Ended)
=============================================================================
