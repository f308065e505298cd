------------------------ MODULE TelemetryQueue_proofs ------------------------
(***************************************************************************)
(* Theorems about TelemetryQueue, for any number of scripts and kills: its *)
(* types; that the lock of the PowerShell script lets one writer to the    *)
(* queue; and that, with either lock, scripts and files implement          *)
(* ReportQueue and lose nothing as long as there is one writer.  The lock  *)
(* of the Bash script keeps two scripts apart, which is proved, but not    *)
(* three (run takeover).  Then about Installations: what the reports tell  *)
(* once they arrive, for any number of users, versions and runs.           *)
(***************************************************************************)
EXTENDS TelemetryQueue, SequenceTheorems, WellFoundedInduction, TLAPS

\* The reports of the backlog are earlier ones, each queued once.
LEMMA BacklogType == Backlog \in Seq(Report)
BY TelemetryQueueAssumption DEF Report

-----------------------------------------------------------------------------
(* Types *)

\* Sending adds one report at most to those the server has.
LEMMA SendType ==
  ASSUME stored \subseteq Report, NEW r \in Report, NEW answer, Send(r, answer)
  PROVE  stored' \subseteq Report
BY DEF Send

\* Appending a report to a file leaves files.
LEMMA KeptType ==
  ASSUME file \in [Script \cup {None} -> Seq(Report)],
         NEW p \in Script \cup {None}, NEW r \in Report
  PROVE  [file EXCEPT ![p] = Append(@, r)] \in [Script \cup {None} -> Seq(Report)]
OBVIOUS

\* Counting an attempt stays within the bound.
LEMMA AttemptType ==
  ASSUME attempt \in [Script -> 0 .. MaxAttempts], NEW p \in Script,
         AttemptAgain(p)
  PROVE  attempt' \in [Script -> 0 .. MaxAttempts]
<1>1. MaxAttempts \in Nat
  BY TelemetryQueueAssumption
<1>2. (IF attempt[p] < MaxAttempts THEN attempt[p] + 1 ELSE attempt[p])
        \in 0 .. MaxAttempts
  BY <1>1
<1> QED BY <1>2 DEF AttemptAgain

\* The tables start out with their types.
LEMMA InitType == Init => TypeOK
<1> SUFFICES ASSUME Init PROVE TypeOK
  OBVIOUS
<1>1. file \in [Script \cup {None} -> Seq(Report)]
  <2>1. <<>> \in Seq(Report)
    OBVIOUS
  <2> QED BY <2>1, BacklogType DEF Init
<1>2. attempt \in [Script -> 0 .. MaxAttempts]
  BY TelemetryQueueAssumption DEF Init
<1> QED BY <1>1, <1>2 DEF Init, TypeOK, Labels, Ended

\* Every step of a script keeps the types.
LEMMA StepType == ASSUME TypeOK, NEW p \in Script, Step(p)  PROVE TypeOK'
<1> USE DEF TypeOK, Labels, Ended, Goto, lockVars, drainVars, fileVars,
            Granted, Refused, Released, NextRound
<1>1. CASE TryMkdir(p)
  <2>1. attempt' \in [Script -> 0 .. MaxAttempts]
    BY <1>1, AttemptType DEF TryMkdir
  <2> QED BY <1>1, <2>1 DEF TryMkdir
<1>2. CASE WriteOwner(p)
  BY <1>2 DEF WriteOwner
<1>3. CASE ReadOwner(p)
  BY <1>3 DEF ReadOwner
<1>4. CASE Probe(p)
  BY <1>4 DEF Probe
<1>5. CASE Disown(p)
  BY <1>5 DEF Disown, NoOwner
<1>6. CASE Sweep(p)
  BY <1>6 DEF Sweep, Rmdir
<1>7. CASE Abandon(p)
  BY <1>7 DEF Abandon, Rmdir
<1>8. CASE CheckOwner(p)
  BY <1>8 DEF CheckOwner
<1>9. CASE RemoveOwner(p)
  BY <1>9 DEF RemoveOwner
<1>10. CASE RemoveDir(p)
  BY <1>10 DEF RemoveDir, Rmdir
<1>11. CASE OpenStream(p)
  <2>1. attempt' \in [Script -> 0 .. MaxAttempts]
    BY <1>11, AttemptType DEF OpenStream
  <2> QED BY <1>11, <2>1 DEF OpenStream
<1>12. CASE CloseStream(p)
  BY <1>12 DEF CloseStream
<1>13. CASE Start(p)
  BY <1>13 DEF Start
<1>14. CASE OpenQueue(p)
  BY <1>14 DEF OpenQueue
<1>15. CASE DrainLine(p)
  <2> DEFINE r == file[source[p]][line[p] + 1]
  <2>1. r \in Report
    BY <1>15 DEF DrainLine
  <2>2. stored' \subseteq Report
    BY <1>15, <2>1, SendType DEF DrainLine
  <2>3. file' \in [Script \cup {None} -> Seq(Report)]
    <3>1. file' = file \/ file' = [file EXCEPT ![p] = Append(@, r)]
      BY <1>15 DEF DrainLine, Kept
    <3>2. [file EXCEPT ![p] = Append(@, r)] \in [Script \cup {None} -> Seq(Report)]
      BY <2>1, KeptType
    <3> QED BY <3>1, <3>2
  <2>4. dead' \subseteq Report /\ blocked' \in [Script -> BOOLEAN]
    BY <1>15, <2>1 DEF DrainLine, Blocks
  <2>5. line' \in [Script -> Nat]
    BY <1>15 DEF DrainLine
  <2> HIDE DEF r
  <2> QED BY <1>15, <2>2, <2>3, <2>4, <2>5 DEF DrainLine
<1>16. CASE SwapQueue(p)
  BY <1>16 DEF SwapQueue
<1>17. CASE ReportResult(p)
  <2>1. p \in Report
    BY DEF Report
  <2>2. stored' \subseteq Report
    BY <1>17, <2>1, SendType DEF ReportResult
  <2>3. attempt' \in [Script -> 0 .. MaxAttempts]
    <3>1. MaxAttempts \in Nat
      BY TelemetryQueueAssumption
    <3>2. 0 \in 0 .. MaxAttempts
      BY <3>1
    <3>3. attempt' = attempt \/ attempt' = [attempt EXCEPT ![p] = 0]
      BY <1>17 DEF ReportResult
    <3> QED BY <3>2, <3>3
  <2>4. task' \in [Script -> {"drain", "pending", "dead"}]
    BY <1>17 DEF ReportResult
  <2>5. pc' \in [Script -> Labels]
    BY ZenonT(30), <1>17 DEF ReportResult
  <2> QED BY <1>17, <2>2, <2>3, <2>4, <2>5 DEF ReportResult
<1>18. CASE AppendReport(p)
  <2>1. p \in Report
    BY DEF Report
  <2>2. file' \in [Script \cup {None} -> Seq(Report)]
    <3>1. [file EXCEPT ![pending] = Append(@, p)]
            \in [Script \cup {None} -> Seq(Report)]
      BY <2>1, KeptType
    <3> QED BY <1>18, <3>1 DEF AppendReport
  <2>3. dead' \subseteq Report
    BY <1>18, <2>1 DEF AppendReport
  <2> HIDE DEF Report
  <2> QED BY <1>18, <2>2, <2>3 DEF AppendReport
<1> QED BY <1>1, <1>2, <1>3, <1>4, <1>5, <1>6, <1>7, <1>8, <1>9, <1>10,
           <1>11, <1>12, <1>13, <1>14, <1>15, <1>16, <1>17, <1>18 DEF Step

\* So does a kill.
LEMMA KillType == ASSUME TypeOK, NEW p \in Script, Kill(p)  PROVE TypeOK'
BY DEF TypeOK, Labels, Ended, Goto, Kill, fileVars, drainVars

\* Everything a script knows and everything in the files has its type, with
\* either lock and however the scripts interleave.
THEOREM TypeCorrect == Spec => []TypeOK
<1>1. TypeOK /\ UNCHANGED vars => TypeOK'
  BY DEF TypeOK, vars, lockVars, fileVars, drainVars
<1>2. TypeOK /\ [Next]_vars => TypeOK'
  BY <1>1, StepType, KillType DEF Next
<1> QED BY InitType, <1>2, PTL DEF Spec

-----------------------------------------------------------------------------
(* One writer *)

StreamLabels ==
  {"start", "lock", "open", "drain", "append", "release", "run"} \cup Ended

Holding(p) == pc[p] \in {"open", "drain", "append", "release"}

\* Who is past the lock holds the stream, and nobody is at a step of the
\* directory's protocol.
StreamInv ==
  \A p \in Script : pc[p] \in StreamLabels /\ (Holding(p) => lockOwner = p)

\* Nobody holds the stream at first.
LEMMA StreamInit == Init => StreamInv
BY DEF Init, StreamInv, StreamLabels, Holding

\* The stream is opened by one script at a time, and closed by the one that
\* holds it.
LEMMA StreamStep ==
  ASSUME LockKind = "stream", TypeOK, StreamInv, NEW p \in Script,
         Step(p) \/ Kill(p)
  PROVE  StreamInv'
<1> USE DEF TypeOK, StreamInv, StreamLabels, Holding, Ended, Goto, Granted,
            Refused, Released
<1>1. None \notin Script
  BY TelemetryQueueAssumption DEF Report
<1>2. CASE OpenStream(p)
  BY <1>1, <1>2 DEF OpenStream, Openable
<1>3. CASE CloseStream(p)
  BY <1>3 DEF CloseStream
<1>4. CASE Start(p)
  BY <1>4 DEF Start, lockVars
<1>5. CASE OpenQueue(p)
  BY <1>5 DEF OpenQueue, lockVars
<1>6. CASE DrainLine(p)
  BY <1>6 DEF DrainLine, lockVars
<1>7. CASE SwapQueue(p)
  BY <1>7 DEF SwapQueue, lockVars
<1>8. CASE ReportResult(p)
  BY <1>8 DEF ReportResult
<1>9. CASE AppendReport(p)
  BY <1>9 DEF AppendReport, lockVars
<1>10. CASE Kill(p)
  BY <1>10 DEF Kill
<1>11. CASE \/ TryMkdir(p) \/ WriteOwner(p) \/ ReadOwner(p) \/ Probe(p)
           \/ Disown(p) \/ Sweep(p) \/ Abandon(p)
           \/ CheckOwner(p) \/ RemoveOwner(p) \/ RemoveDir(p)
  BY <1>11 DEF TryMkdir, WriteOwner, ReadOwner, Probe, Disown, Sweep, Abandon,
               CheckOwner, RemoveOwner, RemoveDir
<1> QED BY <1>2, <1>3, <1>4, <1>5, <1>6, <1>7, <1>8, <1>9, <1>10, <1>11
        DEF Step

\* With the exclusive stream, whoever drains or appends holds it, always.
LEMMA StreamInvariant == LockKind = "stream" => (Spec => [](TypeOK /\ StreamInv))
<1> SUFFICES ASSUME LockKind = "stream" PROVE Spec => [](TypeOK /\ StreamInv)
  OBVIOUS
<1>1. StreamInv /\ UNCHANGED vars => StreamInv'
  BY DEF StreamInv, Holding, vars, lockVars
<1>2. TypeOK /\ StreamInv /\ [Next]_vars => StreamInv'
  BY <1>1, StreamStep DEF Next
<1> QED BY StreamInit, <1>2, TypeCorrect, PTL DEF Spec

\* The queue of the PowerShell scripts has at most one writer, however many run
\* and wherever they are killed.
THEOREM StreamHasOneWriter == LockKind = "stream" => (Spec => []OneWriter)
<1> SUFFICES ASSUME LockKind = "stream" PROVE Spec => []OneWriter
  OBVIOUS
<1>1. StreamInv => OneWriter
  BY DEF StreamInv, Holding, OneWriter, Writing
<1> QED BY <1>1, StreamInvariant, PTL

-----------------------------------------------------------------------------
(* The directory *)

Named(p) == pc[p] \in {"open", "drain", "append", "release", "unown"}

\* From its mkdir to its rmdir a script that lives has the lock; in between the
\* owner file has its name.
Owning(p) == pc[p] \in {"own", "unlock"} \/ Named(p)

\* One script has the lock, and it is taken from nobody who lives.
DirectoryInv ==
  /\ \A p \in Script : Owning(p) => lockDir
  /\ \A p \in Script : Named(p) => lockOwner = p
  /\ \A p, q \in Script : Owning(p) /\ Owning(q) => p = q

\* Nobody has the lock at first.
LEMMA DirectoryInit == Init => DirectoryInv
BY DEF Init, DirectoryInv, Owning, Named

\* The lock stays with one script, whatever one does that does not take over the
\* lock of somebody who lives: a directory without owner is only given up when
\* nobody is between two operations on it.
LEMMA DirectoryStep ==
  ASSUME LockKind = "directory", Prompt, TypeOK, DirectoryInv,
         NEW p \in Script, Step(p) \/ Kill(p),
         Disown(p) \/ Sweep(p) => \A o \in Script \ {p} : ~Owning(o)
  PROVE  DirectoryInv'
<1> USE DEF TypeOK, DirectoryInv, Goto
<1> DEFINE Names == {"open", "drain", "append", "release", "unown"}
           Owns == Names \cup {"own", "unlock"}
<1>1. None \notin Script
  BY TelemetryQueueAssumption DEF Report
<1>2. \A o \in Script : (Owning(o) <=> pc[o] \in Owns) /\ (Named(o) <=> pc[o] \in Names)
  BY DEF Owning, Named
<1>3. \A o \in Script : (Owning(o)' <=> pc'[o] \in Owns) /\ (Named(o)' <=> pc'[o] \in Names)
  BY DEF Owning, Named
<1>4. \A o \in Script : Named(o) => Owning(o)
  BY DEF Owning
<1>5. ASSUME NEW label, Goto(p, label), UNCHANGED <<lockDir, lockOwner>>,
             label \in Names => Named(p), label \in Owns => Owning(p)
      PROVE  DirectoryInv'
  BY <1>2, <1>3, <1>5 DEF Owning, Named
<1> HIDE DEF Names, Owns
<1>6. CASE TryMkdir(p)
  <2>1. CASE lockDir
    <3>1. Goto(p, "look") /\ UNCHANGED <<lockDir, lockOwner>> /\ "look" \notin Owns \cup Names
      BY <1>6, <2>1 DEF TryMkdir, Owns, Names
    <3> QED BY <1>5, <3>1
  <2>2. CASE ~lockDir
    <3>1. Goto(p, "own") /\ lockDir' /\ \A o \in Script : ~Owning(o)
      BY <1>6, <2>2 DEF TryMkdir
    <3>2. \A o \in Script : Owning(o)' => o = p
      BY <1>2, <1>3, <3>1
    <3>3. ~Named(p)'
      BY <1>3, <3>1 DEF Names
    <3>4. \A o \in Script : ~Named(o)'
      BY <3>2, <3>3 DEF Owning
    <3> QED BY <3>1, <3>2, <3>4
  <2> QED BY <2>1, <2>2
<1>7. CASE WriteOwner(p)
  <2>1. pc[p] = "own" /\ lockDir /\ lockDir' = lockDir
    BY <1>7 DEF WriteOwner, Owning
  <2>2. Goto(p, Granted(p)) /\ lockOwner' = p
    BY <1>7, <2>1 DEF WriteOwner
  <2>3. Granted(p) \in Names /\ Granted(p) \in Owns /\ Owning(p)
    BY <2>1 DEF Granted, Names, Owns, Owning
  <2>4. \A o \in Script : Owning(o)' => o = p
    BY <1>2, <1>3, <2>2, <2>3
  <2>5. \A o \in Script : Named(o)' => o = p
    BY <2>4 DEF Owning
  <2> QED BY <2>1, <2>2, <2>4, <2>5
<1>8. CASE ReadOwner(p) \/ Probe(p)
  <2>1. PICK label \in {"probe", "disown", "abandon", "lock", "run", "silent"} : Goto(p, label)
    BY <1>8 DEF ReadOwner, Probe, NextRound, Refused
  <2>2. label \notin Owns \cup Names /\ UNCHANGED <<lockDir, lockOwner>>
    BY <1>8 DEF ReadOwner, Probe, lockVars, Owns, Names
  <2> QED BY <1>5, <2>1, <2>2
<1>9. CASE Disown(p) \/ Sweep(p)
  <2>1. PICK label \in {"sweep", "lock"} : Goto(p, label)
    BY <1>9 DEF Disown, Sweep
  <2>2. label \notin Owns \cup Names
    BY DEF Owns, Names
  <2>3. \A o \in Script : ~Owning(o)' /\ ~Named(o)'
    BY <1>2, <1>3, <1>4, <1>9, <2>1, <2>2
  <2> QED BY <2>3
<1>10. CASE Abandon(p)
  <2>1. \A o \in Script \ {p} : Owning(o) => lockOwner = o
    BY <1>10 DEF Abandon, BetweenFileOperations, Owning
  <2>2. PICK label \in {"lock", "run", "silent"} : Goto(p, label)
    BY <1>10 DEF Abandon, NextRound, Refused
  <2>3. label \notin Owns \cup Names
    BY DEF Owns, Names
  <2>4. \A o \in Script : (Owning(o)' => Owning(o) /\ o # p) /\ (Named(o)' => Named(o))
    BY <1>2, <1>3, <2>2, <2>3
  <2>5. lockOwner' = lockOwner /\ lockDir' = (lockDir /\ lockOwner # None)
    BY <1>10 DEF Abandon, Rmdir
  <2> QED BY <1>1, <2>1, <2>4, <2>5
<1>11. CASE CheckOwner(p)
  <2>1. PICK label \in {"unown", "run", "done"} : Goto(p, label)
    BY <1>11 DEF CheckOwner, Released
  <2>2. /\ Named(p) /\ Owning(p)
        /\ UNCHANGED <<lockDir, lockOwner>>
    BY <1>11 DEF CheckOwner, lockVars, Named, Owning
  <2> QED BY <1>5, <2>1, <2>2
<1>12. CASE RemoveOwner(p)
  <2>1. Goto(p, "unlock") /\ Owning(p) /\ lockDir' = lockDir
    BY <1>12 DEF RemoveOwner, Owning, Named
  <2>2. \A o \in Script : (Owning(o)' => o = p) /\ ~Named(o)'
    <3>1. \A o \in Script : Owning(o)' => o = p
      BY <1>2, <1>3, <2>1
    <3>2. ~Named(p)'
      BY <1>3, <2>1 DEF Names
    <3> QED BY <3>1, <3>2 DEF Owning
  <2> QED BY <2>1, <2>2
<1>13. CASE RemoveDir(p)
  <2>1. PICK label \in {"run", "done"} : Goto(p, label)
    BY <1>13 DEF RemoveDir, Released
  <2>2. label \notin Owns \cup Names /\ Owning(p)
    BY <1>13 DEF RemoveDir, Owns, Names, Owning
  <2>3. \A o \in Script : ~Owning(o)' /\ ~Named(o)'
    BY <1>2, <1>3, <1>4, <2>1, <2>2
  <2> QED BY <2>3
<1>14. CASE \/ Start(p) \/ OpenQueue(p) \/ DrainLine(p) \/ SwapQueue(p)
           \/ AppendReport(p) \/ ReportResult(p) \/ Kill(p)
  <2>1. UNCHANGED <<lockDir, lockOwner>>
    BY <1>14 DEF Start, OpenQueue, DrainLine, SwapQueue, AppendReport, ReportResult, Kill, lockVars
  <2>2. CASE OpenQueue(p) \/ DrainLine(p) \/ SwapQueue(p) \/ AppendReport(p)
    <3>1. PICK label \in {"drain", "release"} : Goto(p, label)
      BY <2>2 DEF OpenQueue, DrainLine, SwapQueue, AppendReport
    <3>2. Named(p) /\ Owning(p)
      BY <2>2 DEF OpenQueue, DrainLine, SwapQueue, AppendReport, Named, Owning
    <3> QED BY <1>5, <2>1, <3>1, <3>2
  <2>3. CASE Start(p) \/ ReportResult(p) \/ Kill(p)
    <3>1. PICK label \in {"lock", "run", "done", "killed"} : Goto(p, label)
      BY <2>3 DEF Start, ReportResult, Kill
    <3>2. label \notin Owns \cup Names
      BY DEF Owns, Names
    <3> QED BY <1>5, <2>1, <3>1, <3>2
  <2> QED BY <1>14, <2>2, <2>3
<1>15. ~OpenStream(p) /\ ~CloseStream(p)
  BY DEF OpenStream, CloseStream
<1> QED BY <1>6, <1>7, <1>8, <1>9, <1>10, <1>11, <1>12, <1>13, <1>14, <1>15 DEF Step

\* Of two scripts, the one that takes a lock over is alone: it saw the name of
\* the other one, which has ended for good.
Pair == \A p, q, o \in Script : p = q \/ q = o \/ p = o

AloneInv ==
  \A p, o \in Script : pc[p] \in {"disown", "sweep"} /\ o # p => pc[o] \in Ended

LEMMA AloneStep ==
  ASSUME LockKind = "directory", Pair, TypeOK, AloneInv, NEW p \in Script, Step(p) \/ Kill(p)
  PROVE  AloneInv'
<1> USE DEF TypeOK, AloneInv, Ended, Goto, Granted, Refused, Released
<1>1. pc[p] \notin Ended /\ pc' = [pc EXCEPT ![p] = pc'[p]]
  BY DEF Step, Kill, TryMkdir, WriteOwner, ReadOwner, Probe, Disown, Sweep, Abandon,
         CheckOwner, RemoveOwner, RemoveDir, OpenStream, CloseStream, Start, OpenQueue,
         DrainLine, SwapQueue, ReportResult, AppendReport
<1>2. ASSUME pc'[p] \in {"disown", "sweep"}, NEW o \in Script, o # p
      PROVE  pc[o] \in Ended
  <2>1. CASE Probe(p)
    <3>1. pc'[p] = "disown" => Gone(seen[p])
      BY <2>1 DEF Probe, NextRound
    <3>2. pc'[p] # "sweep"
      BY <2>1 DEF Probe, NextRound
    <3>3. seen[p] \in Script /\ pc[seen[p]] \in Ended
      BY <1>2, <3>1, <3>2 DEF Gone
    <3>4. seen[p] # p
      BY <1>1, <3>3
    <3>5. o = seen[p]
      BY <1>2, <3>3, <3>4, Zenon DEF Pair
    <3> QED BY <3>3, <3>5
  <2>2. CASE Disown(p)
    BY <1>2, <2>2 DEF Disown
  <2>3. CASE ~Probe(p) /\ ~Disown(p)
    BY <1>2, <2>3 DEF Step, Kill, TryMkdir, WriteOwner, ReadOwner, Sweep, Abandon,
         CheckOwner, RemoveOwner, RemoveDir, OpenStream, CloseStream, Start, OpenQueue,
         DrainLine, SwapQueue, ReportResult, AppendReport, NextRound
  <2> QED BY <2>1, <2>2, <2>3
<1> QED BY <1>1, <1>2

LEMMA PairInvariant ==
  LockKind = "directory" /\ Prompt /\ Pair => (Spec => [](TypeOK /\ DirectoryInv /\ AloneInv))
<1> SUFFICES ASSUME LockKind = "directory", Prompt, Pair
             PROVE  Spec => [](TypeOK /\ DirectoryInv /\ AloneInv)
  OBVIOUS
<1>1. Init => AloneInv
  BY DEF Init, AloneInv
<1>2. DirectoryInv /\ AloneInv /\ UNCHANGED vars => (DirectoryInv /\ AloneInv)'
  BY DEF DirectoryInv, AloneInv, Owning, Named, vars, lockVars
<1>3. ASSUME TypeOK, DirectoryInv, AloneInv, NEW p \in Script, Step(p) \/ Kill(p)
      PROVE  (DirectoryInv /\ AloneInv)'
  <2>1. Disown(p) \/ Sweep(p) => \A o \in Script \ {p} : ~Owning(o)
    BY <1>3 DEF AloneInv, Disown, Sweep, Owning, Named, Ended
  <2> QED BY <1>3, <2>1, DirectoryStep, AloneStep
<1>4. TypeOK /\ DirectoryInv /\ AloneInv /\ [Next]_vars => (DirectoryInv /\ AloneInv)'
  BY <1>2, <1>3 DEF Next
<1> QED BY DirectoryInit, <1>1, <1>4, TypeCorrect, PTL DEF Spec

LEMMA DirectoryIsExclusive == DirectoryInv => OneWriter
BY DEF DirectoryInv, Owning, Named, OneWriter, Writing

\* The queue of two Bash scripts has at most one writer, wherever they are
\* killed and whatever locks they take over.
THEOREM PairHasOneWriter == LockKind = "directory" /\ Prompt /\ Pair => (Spec => []OneWriter)
BY PairInvariant, DirectoryIsExclusive, PTL

\* Nobody sets out to take over the lock of a script that is gone.
NobodyTakesOver == \A p \in Script : pc[p] # "disown"

\* As long as that is so any number of Bash scripts keep to one writer: the
\* takeover alone is what three of them break the lock with.
THEOREM UntakenHasOneWriter ==
  LockKind = "directory" /\ Prompt => (Spec /\ []NobodyTakesOver => []OneWriter)
<1> SUFFICES ASSUME LockKind = "directory", Prompt
             PROVE  Spec /\ []NobodyTakesOver => []OneWriter
  OBVIOUS
<1> DEFINE NobodySweeps == \A p \in Script : pc[p] # "sweep"
<1>1. Init => NobodySweeps
  BY DEF Init
<1>2. ASSUME NobodyTakesOver, NobodySweeps, TypeOK, DirectoryInv, NEW p \in Script, Step(p) \/ Kill(p)
      PROVE  (NobodySweeps /\ DirectoryInv)'
  <2>1. ~Disown(p) /\ ~Sweep(p)
    BY <1>2 DEF NobodyTakesOver, Disown, Sweep
  <2>2. DirectoryInv'
    BY <1>2, <2>1, DirectoryStep
  <2>3. pc' = [pc EXCEPT ![p] = pc'[p]] /\ pc'[p] # "sweep"
    BY <1>2, <2>1 DEF Step, Kill, TryMkdir, WriteOwner, ReadOwner, Probe, Abandon,
         CheckOwner, RemoveOwner, RemoveDir, OpenStream, CloseStream, Start, OpenQueue,
         DrainLine, SwapQueue, ReportResult, AppendReport, NextRound, Goto, Granted, Refused,
         Released, TypeOK
  <2> QED BY <1>2, <2>2, <2>3 DEF TypeOK
<1>3. DirectoryInv /\ NobodySweeps /\ UNCHANGED vars => (NobodySweeps /\ DirectoryInv)'
  BY DEF DirectoryInv, Owning, Named, vars, lockVars
<1>4. NobodyTakesOver /\ NobodySweeps /\ TypeOK /\ DirectoryInv /\ [Next]_vars
        => (NobodySweeps /\ DirectoryInv)'
  BY <1>2, <1>3 DEF Next
<1> HIDE DEF NobodySweeps
<1> QED BY <1>1, <1>4, DirectoryInit, DirectoryIsExclusive, TypeCorrect, PTL DEF Spec

-----------------------------------------------------------------------------
(* The queue *)

GettingLock == {"lock", "own", "look", "probe", "disown", "sweep", "abandon"}

Undrained(p) ==
  \/ pc[p] \in {"start", "open"}
  \/ pc[p] \in GettingLock /\ task[p] = "drain"

Queued == {"release", "unown", "unlock", "done", "killed"}

\* What a script has and has not done at each of its labels.
Stages(p) ==
  /\ pc[p] \in {"start", "open", "drain"} => task[p] = "drain"
  /\ pc[p] = "append" => task[p] \in {"pending", "dead"}
  /\ task[p] = "dead" => p \in Malformed
  /\ Undrained(p) => line[p] = 0 /\ ~blocked[p]
  /\ Undrained(p) \/ pc[p] = "drain" => pending # p
  /\ p \in Lines(pending) => task[p] = "pending" /\ pc[p] \in Queued

\* A drain has let the first k lines through and kept those from there to the
\* line it is at.
DrainedTo(p, k) ==
  /\ file[p] = SubSeq(file[pending], k + 1, line[p])
  /\ \A m \in 1 .. k : file[pending][m] \in stored \cup dead
  /\ ~blocked[p] => k = line[p]

Drained(p) ==
  /\ source[p] = pending
  /\ line[p] <= Len(file[pending])
  /\ \E k \in 0 .. line[p] : DrainedTo(p, k)

\* A script that has appended its report, or ended well, has it accounted for.
Settled(p) ==
  /\ pc[p] = "done" => p \in Accounted
  /\ pc[p] \in {"release", "unown", "unlock"} /\ task[p] # "drain"
       => p \in Accounted

QueueInv ==
  /\ \A p \in Script : Stages(p) /\ (pc[p] = "drain" => Drained(p)) /\ Settled(p)
  /\ \A n \in DOMAIN Backlog : Backlog[n] \in Accounted

\* Everything is where it was left at first.
LEMMA QueueInit == Init => QueueInv
<1> SUFFICES ASSUME Init PROVE QueueInv
  OBVIOUS
<1>1. file[pending] = Backlog
  BY DEF Init
<1>2. \A p \in Script : p \notin Lines(pending)
  BY <1>1, TelemetryQueueAssumption DEF Lines
<1>3. \A p \in Script : Stages(p)
  BY <1>2, TelemetryQueueAssumption
     DEF Init, Stages, Undrained, GettingLock, Report
<1>4. \A n \in DOMAIN Backlog : Backlog[n] \in Accounted
  BY <1>1 DEF Accounted, Lines
<1> QED BY <1>3, <1>4 DEF Init, QueueInv, Settled

\* The actions that touch neither files nor server.
Quiet(p) ==
  \/ TryMkdir(p) \/ WriteOwner(p) \/ ReadOwner(p) \/ Probe(p)
  \/ Disown(p) \/ Sweep(p) \/ Abandon(p)
  \/ CheckOwner(p) \/ RemoveOwner(p) \/ RemoveDir(p)
  \/ OpenStream(p) \/ CloseStream(p) \/ Start(p) \/ Kill(p)

\* What they leave alone.
LEMMA QuietFrame ==
  ASSUME NEW p \in Script, Quiet(p)
  PROVE  UNCHANGED <<task, fileVars, drainVars, dead, stored>>
BY DEF Quiet, TryMkdir, WriteOwner, ReadOwner, Probe, Disown, Sweep, Abandon,
       CheckOwner, RemoveOwner, RemoveDir, OpenStream, CloseStream, Start, Kill

\* Where they take a script: forward, and to the files or out of the lock only
\* with the task that belongs there.
LEMMA QuietMoves ==
  ASSUME TypeOK, NEW p \in Script, Quiet(p)
  PROVE  /\ \A q \in Script \ {p} : pc'[q] = pc[q]
         /\ pc'[p] \notin {"start", "drain"}
         /\ pc'[p] \in {"open", "run"} =>
              /\ pc[p] \in GettingLock \cup {"start"} \cup Queued
              /\ pc'[p] = "open" => pc[p] \in GettingLock /\ task[p] = "drain"
              /\ pc'[p] = "run" /\ pc[p] # "start" => task[p] = "drain"
         /\ pc'[p] = "append" => task[p] # "drain"
         /\ pc'[p] \in GettingLock => pc[p] \in GettingLock \cup {"start"}
         /\ pc[p] \in Queued => pc'[p] \in Queued \cup {"run"}
         /\ pc'[p] \in {"release", "unown", "unlock"} =>
              pc[p] \in {"release", "unown", "unlock"}
         /\ pc'[p] = "done" =>
              pc[p] \in {"release", "unown", "unlock"} /\ task[p] # "drain"
<1> USE DEF TypeOK, Labels, Goto, GettingLock, Queued, Granted, Refused,
            Released, NextRound, Ended
<1>1. CASE TryMkdir(p)
  BY <1>1 DEF TryMkdir
<1>2. CASE WriteOwner(p)
  BY <1>2 DEF WriteOwner
<1>3. CASE ReadOwner(p)
  BY <1>3 DEF ReadOwner
<1>4. CASE Probe(p)
  BY <1>4 DEF Probe
<1>5. CASE Disown(p)
  BY <1>5 DEF Disown
<1>6. CASE Sweep(p)
  BY <1>6 DEF Sweep
<1>7. CASE Abandon(p)
  BY <1>7 DEF Abandon
<1>8. CASE CheckOwner(p)
  BY <1>8 DEF CheckOwner
<1>9. CASE RemoveOwner(p)
  BY <1>9 DEF RemoveOwner
<1>10. CASE RemoveDir(p)
  BY <1>10 DEF RemoveDir
<1>11. CASE OpenStream(p)
  BY <1>11 DEF OpenStream
<1>12. CASE CloseStream(p)
  BY <1>12 DEF CloseStream
<1>13. CASE Start(p)
  BY <1>13 DEF Start
<1>14. CASE Kill(p)
  BY <1>14 DEF Kill
<1> QED BY <1>1, <1>2, <1>3, <1>4, <1>5, <1>6, <1>7, <1>8, <1>9, <1>10, <1>11,
           <1>12, <1>13, <1>14 DEF Quiet

-----------------------------------------------------------------------------
(* Scripts, files and lock implement the queue *)

\* The queue is not the file a script writes its remaining lines to.
LEMMA QueueUntouched ==
  ASSUME TypeOK, QueueInv, NEW p \in Script, OpenQueue(p) \/ DrainLine(p)
  PROVE  file'[pending'] = file[pending]
<1>1. pending # p
  BY DEF QueueInv, Stages, Undrained, OpenQueue, DrainLine
<1> QED BY <1>1 DEF TypeOK, OpenQueue, DrainLine, Kept

\* Line n + 1 of the queue is a report.
LEMMA LineType ==
  ASSUME TypeOK, QueueInv, NEW p \in Script, DrainLine(p)
  PROVE  /\ source[p] = pending
         /\ line[p] \in Nat /\ line[p] + 1 \in 1 .. Len(file[pending])
         /\ file[pending][line[p] + 1] \in Report
<1>1. source[p] = pending
  BY DEF QueueInv, Drained, DrainLine
<1>2. file[pending] \in Seq(Report) /\ line[p] \in Nat
  BY DEF TypeOK
<1>3. line[p] < Len(file[pending])
  BY <1>1 DEF DrainLine
<1>4. line[p] + 1 \in 1 .. Len(file[pending])
  BY <1>2, <1>3
<1> QED BY <1>1, <1>2, <1>4

\* Every step of a script or its end is a step of the queue, or none.
LEMMA QueueStep ==
  ASSUME TypeOK, QueueInv, NEW p \in Script, Step(p) \/ Kill(p)
  PROVE  [RQ!Next]_(RQ!vars)
<1> USE DEF RQ!vars
<1>1. CASE Quiet(p)
  BY <1>1, QuietFrame DEF fileVars
<1>2. CASE OpenQueue(p)
  BY <1>2, QueueUntouched DEF OpenQueue
<1>3. CASE DrainLine(p)
  <2> DEFINE r == file[pending][line[p] + 1]
  <2>1. source[p] = pending /\ r \in Report
    BY <1>3, LineType
  <2>2. file'[pending'] = file[pending]
    BY <1>3, QueueUntouched
  <2>3. \/ stored' = stored /\ dead' = dead
        \/ r \notin Malformed /\ stored' = stored \cup {r} /\ dead' = dead
        \/ r \in Malformed /\ stored' = stored /\ dead' = dead \cup {r}
    BY <1>3, <2>1 DEF DrainLine, Send
  <2> HIDE DEF r
  <2>4. \/ UNCHANGED RQ!vars
        \/ RQ!Store(r) \/ RQ!PutAside(r)
    BY <2>2, <2>3 DEF RQ!Store, RQ!PutAside
  <2> QED BY <2>1, <2>4 DEF RQ!Next
<1>4. CASE SwapQueue(p)
  <2> DEFINE q == file[pending]
  <2>1. q \in Seq(Report) /\ Len(q) \in Nat
    BY DEF TypeOK
  <2>2. Drained(p)
    BY <1>4 DEF QueueInv, SwapQueue
  <2>3. line[p] = Len(q)
    BY <1>4, <2>1, <2>2 DEF SwapQueue, Drained, TypeOK
  <2>4. PICK k \in 0 .. Len(q) : DrainedTo(p, k)
    BY <2>2, <2>3 DEF Drained
  <2>5. file'[pending'] = SubSeq(q, k + 1, Len(q))
    BY <1>4, <2>3, <2>4 DEF SwapQueue, DrainedTo
  <2>6. UNCHANGED <<stored, dead>>
    BY <1>4 DEF SwapQueue
  <2>7. CASE k = 0
    <3>1. SubSeq(q, k + 1, Len(q)) = q
      BY <2>1, <2>7, SubSeqFull
    <3> QED BY <3>1, <2>5, <2>6
  <2>8. CASE k # 0
    <3>1. k \in 1 .. Len(q)
      BY <2>8, <2>1
    <3>2. RQ!Remove(k)
      BY <2>4, <2>5, <2>6 DEF RQ!Remove, DrainedTo
    <3> QED BY <3>1, <3>2 DEF RQ!Next
  <2> QED BY <2>7, <2>8
<1>5. CASE ReportResult(p)
  <2>1. p \in Report /\ file'[pending'] = file[pending] /\ dead' = dead
    BY <1>5 DEF ReportResult, Report, fileVars
  <2>2. \/ stored' = stored
        \/ p \notin Malformed /\ stored' = stored \cup {p}
    BY <1>5 DEF ReportResult, Send
  <2>3. UNCHANGED RQ!vars \/ RQ!Store(p)
    BY <2>1, <2>2 DEF RQ!Store
  <2> QED BY <2>1, <2>3 DEF RQ!Next
<1>6. CASE AppendReport(p)
  <2>1. p \in Report
    BY DEF Report
  <2>2. CASE task[p] = "dead"
    <3>1. p \in Malformed
      BY <2>2 DEF QueueInv, Stages
    <3>2. RQ!PutAside(p)
      BY <1>6, <2>2, <3>1 DEF AppendReport, RQ!PutAside
    <3> QED BY <2>1, <3>2 DEF RQ!Next
  <2>3. CASE task[p] = "pending"
    <3>1. p \notin RQ!Waiting
      BY <1>6 DEF AppendReport, QueueInv, Stages, Queued, Lines, RQ!Waiting
    <3>2. file'[pending'] = Append(file[pending], p)
      BY <1>6, <2>3 DEF AppendReport, TypeOK
    <3>3. RQ!Enqueue(p)
      BY <1>6, <2>3, <3>1, <3>2 DEF AppendReport, RQ!Enqueue
    <3> QED BY <2>1, <3>3 DEF RQ!Next
  <2> QED BY <1>6, <2>2, <2>3 DEF AppendReport
<1> QED BY <1>1, <1>2, <1>3, <1>4, <1>5, <1>6 DEF Step, Quiet

\* A step of the queue loses no report.
LEMMA AccountedGrows ==
  ASSUME TypeOK, [RQ!Next]_(RQ!vars)
  PROVE  Accounted \subseteq Accounted'
<1> DEFINE q == file[pending]
           after == file'[pending']
<1> USE DEF RQ!vars
<1>0. q \in Seq(Report) /\ Len(q) \in Nat
  BY DEF TypeOK
<1>1. CASE UNCHANGED RQ!vars
  BY <1>1 DEF Accounted, Lines
<1>2. ASSUME NEW r \in Report, RQ!Enqueue(r)
      PROVE  Accounted \subseteq Accounted'
  <2>1. after = Append(q, r)
    BY <1>2 DEF RQ!Enqueue
  <2>2. \A n \in 1 .. Len(q) : n \in DOMAIN after /\ after[n] = q[n]
    BY <1>0, <2>1
  <2>3. stored' = stored /\ dead' = dead
    BY <1>2 DEF RQ!Enqueue
  <2> QED BY <1>0, <2>2, <2>3 DEF Accounted, Lines
<1>3. ASSUME NEW r \in Report, RQ!Store(r) \/ RQ!PutAside(r)
      PROVE  Accounted \subseteq Accounted'
  BY <1>3 DEF RQ!Store, RQ!PutAside, Accounted, Lines
<1>4. ASSUME NEW k \in 1 .. Len(q), RQ!Remove(k)
      PROVE  Accounted \subseteq Accounted'
  <2>1. after = SubSeq(q, k + 1, Len(q)) /\ stored' = stored /\ dead' = dead
    BY <1>4 DEF RQ!Remove
  <2>2. \A m \in 1 .. k : q[m] \in stored \cup dead
    BY <1>4 DEF RQ!Remove
  <2>3. ASSUME NEW n \in 1 .. Len(q) PROVE q[n] \in Accounted'
    <3>1. CASE n <= k
      BY <1>0, <2>1, <2>2, <3>1 DEF Accounted
    <3>2. CASE n > k
      <4>1. n - k \in 1 .. Len(q) - k /\ k + (n - k) = n
        BY <1>0, <3>2
      <4>2. Len(after) = Len(q) - k /\ after[n - k] = q[n]
        BY <1>0, <2>1, <3>2
      <4>3. n - k \in DOMAIN after
        <5>1. after \in Seq(Report)
          BY <1>0, <2>1
        <5> QED BY <4>1, <4>2, <5>1
      <4> QED BY <4>2, <4>3 DEF Accounted, Lines
    <3> QED BY <1>0, <3>1, <3>2
  <2>4. Lines(pending) \subseteq Accounted'
    BY <1>0, <2>3 DEF Lines
  <2> QED BY <2>1, <2>4 DEF Accounted
<1> QED BY <1>0, <1>1, <1>2, <1>3, <1>4 DEF RQ!Next

\* What waits after a step waited before, but for a report just appended.
LEMMA LinesAfter ==
  ASSUME TypeOK, QueueInv, NEW p \in Script, Step(p) \/ Kill(p)
  PROVE  \/ Lines(pending)' \subseteq Lines(pending)
         \/ /\ AppendReport(p) /\ task[p] = "pending"
            /\ Lines(pending)' \subseteq Lines(pending) \cup {p}
<1> DEFINE q == file[pending]
<1>0. q \in Seq(Report) /\ Len(q) \in Nat
  BY DEF TypeOK
<1>1. CASE Quiet(p) \/ ReportResult(p)
  BY <1>1, QuietFrame DEF ReportResult, fileVars, Lines
<1>2. CASE OpenQueue(p) \/ DrainLine(p)
  BY <1>2, QueueUntouched DEF Lines
<1>3. CASE SwapQueue(p)
  <2>1. Drained(p)
    BY <1>3 DEF QueueInv, SwapQueue
  <2>2. line[p] \in Nat /\ line[p] <= Len(q)
    BY <2>1 DEF Drained, TypeOK
  <2>3. PICK k \in 0 .. line[p] : file[p] = SubSeq(q, k + 1, line[p])
    BY <2>1 DEF Drained, DrainedTo
  <2>4. file'[pending'] = SubSeq(q, k + 1, line[p])
    BY <1>3, <2>3 DEF SwapQueue
  <2>5. \A n \in DOMAIN SubSeq(q, k + 1, line[p]) :
          SubSeq(q, k + 1, line[p])[n] = q[k + n] /\ k + n \in DOMAIN q
    BY SMTT(30), <1>0, <2>2
  <2> QED BY <2>4, <2>5 DEF Lines
<1>4. CASE AppendReport(p)
  <2>1. CASE task[p] = "dead"
    BY <1>4, <2>1 DEF AppendReport, Lines
  <2>2. CASE task[p] = "pending"
    <3>1. file'[pending'] = Append(q, p)
      BY <1>4, <2>2 DEF AppendReport, TypeOK
    <3>2. \A n \in DOMAIN Append(q, p) :
            \/ Append(q, p)[n] = p
            \/ n \in DOMAIN q /\ Append(q, p)[n] = q[n]
      BY <1>0
    <3> QED BY <1>4, <2>2, <3>1, <3>2 DEF Lines
  <2> QED BY <1>4, <2>1, <2>2 DEF AppendReport
<1> QED BY <1>1, <1>2, <1>3, <1>4 DEF Step, Quiet

\* The stages are kept by every step.
LEMMA StagesStep ==
  ASSUME TypeOK, QueueInv, NEW p \in Script, Step(p) \/ Kill(p),
         NEW q \in Script
  PROVE  Stages(q)'
<1> USE DEF TypeOK, Stages, Undrained, Goto
<1>0. Stages(p) /\ Stages(q)
  BY DEF QueueInv
<1>1. q \in Lines(pending)' =>
        \/ q \in Lines(pending)
        \/ q = p /\ AppendReport(p) /\ task[p] = "pending"
  BY LinesAfter
<1>2. CASE Quiet(p)
  <2>1. UNCHANGED <<task, pending, line, blocked>>
    BY <1>2, QuietFrame DEF fileVars, drainVars
  <2>2. ~AppendReport(p)
    BY <1>2, QuietMoves DEF AppendReport, Goto, Queued
  <2> QED BY <1>0, <1>1, <1>2, <2>1, <2>2, QuietMoves DEF Queued, GettingLock
<1>3. CASE OpenQueue(p)
  BY <1>0, <1>1, <1>3 DEF OpenQueue, AppendReport, GettingLock, Queued, lockVars
<1>4. CASE DrainLine(p)
  BY <1>0, <1>1, <1>4 DEF DrainLine, Blocks, AppendReport, GettingLock, Queued,
                          lockVars
<1>5. CASE SwapQueue(p)
  BY <1>0, <1>1, <1>5 DEF SwapQueue, AppendReport, GettingLock, Queued, lockVars,
                          drainVars
<1>6. CASE ReportResult(p)
  BY <1>0, <1>1, <1>6 DEF ReportResult, Send, AppendReport, GettingLock, Queued,
                          fileVars, drainVars
<1>7. CASE AppendReport(p)
  BY <1>0, <1>1, <1>7 DEF AppendReport, GettingLock, Queued, lockVars, drainVars
<1> QED BY <1>2, <1>3, <1>4, <1>5, <1>6, <1>7 DEF Step, Quiet

\* One more element of a sequence is kept.
LEMMA SubSeqExtends ==
  ASSUME NEW S, NEW s \in Seq(S), NEW n \in Nat, NEW k \in 0 .. n,
         n + 1 \in 1 .. Len(s)
  PROVE  SubSeq(s, k + 1, n + 1) = Append(SubSeq(s, k + 1, n), s[n + 1])
<1>1. /\ k + 1 \in 1 .. Len(s) /\ n + 1 \in k + 1 .. Len(s)
      /\ (n + 1) - 1 = n
  OBVIOUS
<1>2. SubSeq(s, k + 1, n + 1) = SubSeq(s, k + 1, n) \o <<s[n + 1]>>
  BY <1>1, SubSeqRecursiveSecond
<1>3. SubSeq(s, k + 1, n) \in Seq(S) /\ s[n + 1] \in S
  BY <1>1
<1> QED BY <1>2, <1>3, AppendIsConcat

\* One more line let through, or kept.
LEMMA DrainLineStep ==
  ASSUME TypeOK, QueueInv, NEW p \in Script, DrainLine(p)
  PROVE  Drained(p)'
<1> DEFINE q == file[pending]
<1>0. PICK n : n = line[p]
  OBVIOUS
<1> DEFINE r == q[n + 1]
<1>1. source[p] = pending /\ n \in Nat /\ n + 1 \in 1 .. Len(q) /\ r \in Report
  BY <1>0, LineType
<1>2. pending # p /\ Drained(p)
  BY DEF QueueInv, Stages, DrainLine
<1>3. q \in Seq(Report) /\ Len(q) \in Nat
  BY DEF TypeOK
<1>4. file'[pending'] = q
  BY QueueUntouched
<1>5. source'[p] = pending' /\ line'[p] = n + 1 /\ n + 1 <= Len(q)
  BY <1>0, <1>1, <1>3 DEF DrainLine, TypeOK
<1>6. PICK k \in 0 .. n : DrainedTo(p, k)
  BY <1>0, <1>2 DEF Drained
<1>7. stored \subseteq stored' /\ dead \subseteq dead'
  BY DEF DrainLine, Send
<1>8. SUFFICES \E j \in 0 .. n + 1 : DrainedTo(p, j)'
  BY <1>3, <1>4, <1>5 DEF Drained
<1>9. CASE blocked'[p]
  <2>1. file'[p] = Append(file[p], r)
    BY <1>0, <1>1, <1>9 DEF DrainLine, Kept, TypeOK
  <2>2. SubSeq(q, k + 1, n + 1) = Append(SubSeq(q, k + 1, n), q[n + 1])
    BY <1>1, <1>3, SubSeqExtends
  <2>3. file'[p] = SubSeq(q, k + 1, n + 1)
    BY <1>0, <1>6, <2>1, <2>2 DEF DrainedTo
  <2>4. DrainedTo(p, k)'
    BY <1>4, <1>5, <1>6, <1>7, <1>9, <2>3 DEF DrainedTo
  <2>5. k \in 0 .. n + 1
    BY <1>1
  <2> QED BY <2>4, <2>5
<1>10. CASE ~blocked'[p]
  <2>1. /\ ~blocked[p] /\ file' = file
        /\ r \in stored' \cup dead'
    BY <1>0, <1>1, <1>10 DEF DrainLine, Send, Blocks, TypeOK
  <2>2. k = n
    BY <1>0, <1>6, <2>1 DEF DrainedTo
  <2>3. file'[p] = SubSeq(q, n + 1, n)
    BY <1>0, <1>6, <2>1, <2>2 DEF DrainedTo
  <2>4. SubSeq(q, n + 1, n) = <<>> /\ SubSeq(q, n + 1 + 1, n + 1) = <<>>
    BY <1>1, SubSeqEmpty
  <2>5. \A m \in 1 .. n + 1 : q[m] \in stored' \cup dead'
    BY <1>1, <1>6, <1>7, <2>1, <2>2 DEF DrainedTo
  <2>6. DrainedTo(p, n + 1)'
    BY <1>4, <1>5, <2>1, <2>3, <2>4, <2>5 DEF DrainedTo
  <2> QED BY <1>1, <2>6
<1> QED BY <1>9, <1>10

\* While the queue has one writer, no step disturbs a drain.
LEMMA DrainedStep ==
  ASSUME TypeOK, QueueInv, OneWriter, NEW p \in Script, Step(p) \/ Kill(p),
         NEW q \in Script, pc'[q] = "drain"
  PROVE  Drained(q)'
<1>1. CASE Quiet(p)
  <2>1. pc[q] = "drain"
    BY <1>1, QuietMoves
  <2>2. Drained(q)
    BY <2>1 DEF QueueInv
  <2> QED BY <1>1, <2>2, QuietFrame
          DEF Drained, DrainedTo, fileVars, drainVars
<1>2. CASE OpenQueue(p)
  <2>1. p = q
    BY <1>2 DEF OpenQueue, Goto, TypeOK, OneWriter, Writing
  <2>2. line[p] = 0 /\ ~blocked[p] /\ pending # p
    BY <1>2 DEF OpenQueue, QueueInv, Stages, Undrained
  <2>3. /\ source'[p] = pending /\ pending' = pending
        /\ file'[p] = <<>> /\ line' = line /\ blocked' = blocked
    BY <1>2 DEF OpenQueue, TypeOK
  <2>4. file'[pending'] = file[pending] /\ Len(file[pending]) \in Nat
    BY <1>2, QueueUntouched DEF TypeOK
  <2>5. SubSeq(file[pending], 0 + 1, 0) = <<>>
    BY SubSeqEmpty
  <2>6. DrainedTo(p, 0)'
    BY <2>2, <2>3, <2>4, <2>5 DEF DrainedTo
  <2> QED BY <2>1, <2>2, <2>3, <2>4, <2>6 DEF Drained
<1>3. CASE DrainLine(p)
  <2>1. p = q
    BY <1>3 DEF DrainLine, OneWriter, Writing
  <2> QED BY <1>3, <2>1, DrainLineStep
<1>4. CASE SwapQueue(p) \/ AppendReport(p)
  <2>1. pc[q] = "drain" /\ p # q
    BY <1>4 DEF SwapQueue, AppendReport, Goto, TypeOK
  <2> QED BY <1>4, <2>1 DEF SwapQueue, AppendReport, OneWriter, Writing
<1>5. CASE ReportResult(p)
  <2>1. pc[q] = "drain"
    BY <1>5 DEF ReportResult, Goto, TypeOK
  <2>2. Drained(q)
    BY <2>1 DEF QueueInv
  <2>3. stored \subseteq stored'
    BY <1>5 DEF ReportResult, Send
  <2> QED BY <1>5, <2>2, <2>3
          DEF ReportResult, Drained, DrainedTo, fileVars, drainVars
<1> QED BY <1>1, <1>2, <1>3, <1>4, <1>5 DEF Step, Quiet

\* A script that ends well has its report accounted for.
LEMMA SettledStep ==
  ASSUME TypeOK, QueueInv, NEW p \in Script, Step(p) \/ Kill(p),
         NEW q \in Script
  PROVE  Settled(q)'
<1>1. Accounted \subseteq Accounted'
  BY QueueStep, AccountedGrows
<1>2. Settled(p) /\ Settled(q) /\ Stages(p)
  BY DEF QueueInv
<1>3. CASE Quiet(p)
  BY <1>1, <1>2, <1>3, QuietMoves, QuietFrame DEF Settled
<1>4. CASE OpenQueue(p) \/ DrainLine(p) \/ SwapQueue(p)
  <2>1. task' = task /\ \/ pc'[q] = pc[q]
                        \/ q = p /\ task[q] = "drain" /\ pc'[q] # "done"
    BY <1>2, <1>4 DEF OpenQueue, DrainLine, SwapQueue, Goto, TypeOK, Stages
  <2> QED BY <1>1, <1>2, <2>1 DEF Settled
<1>5. CASE ReportResult(p)
  <2>1. CASE q # p
    BY <1>1, <1>2, <1>5, <2>1 DEF ReportResult, Goto, TypeOK, Settled
  <2>2. CASE q = p
    BY <1>5, <2>2 DEF ReportResult, Send, Goto, TypeOK, Settled, Accounted
  <2> QED BY <2>1, <2>2
<1>6. CASE AppendReport(p)
  <2>1. p \in Accounted'
    <3>1. CASE task[p] = "dead"
      BY <1>6, <3>1 DEF AppendReport, Accounted
    <3>2. CASE task[p] = "pending"
      <4>1. file[pending] \in Seq(Report) /\ p \in Report
        BY DEF TypeOK, Report
      <4>2. file'[pending'] = Append(file[pending], p)
        BY <1>6, <3>2 DEF AppendReport, TypeOK
      <4>3. p \in Lines(pending)'
        <5>1. Len(file[pending]) + 1 \in DOMAIN Append(file[pending], p)
          BY <4>1
        <5>2. Append(file[pending], p)[Len(file[pending]) + 1] = p
          BY <4>1
        <5> QED BY <4>2, <5>1, <5>2 DEF Lines
      <4> QED BY <4>3 DEF Accounted
    <3> QED BY <1>6, <3>1, <3>2 DEF AppendReport
  <2> QED BY <1>1, <1>2, <1>6, <2>1 DEF AppendReport, Goto, TypeOK, Settled
<1> QED BY <1>3, <1>4, <1>5, <1>6 DEF Step, Quiet

\* As long as the queue has one writer, its invariant holds.
LEMMA QueueInvariant == Spec /\ []OneWriter => [](TypeOK /\ QueueInv)
<1>1. TypeOK /\ QueueInv /\ UNCHANGED vars => QueueInv'
  BY DEF QueueInv, Stages, Undrained, Drained, DrainedTo, Settled, Accounted,
         Lines, vars, fileVars, drainVars
<1>2. TypeOK /\ QueueInv /\ OneWriter /\ (\E p \in Script : Step(p) \/ Kill(p))
        => QueueInv'
  <2> SUFFICES ASSUME TypeOK, QueueInv, OneWriter, NEW p \in Script,
                      Step(p) \/ Kill(p)
               PROVE  QueueInv'
    OBVIOUS
  <2>1. Accounted \subseteq Accounted'
    BY QueueStep, AccountedGrows
  <2>2. \A n \in DOMAIN Backlog : Backlog[n] \in Accounted'
    BY <2>1 DEF QueueInv
  <2> QED BY <2>2, StagesStep, DrainedStep, SettledStep DEF QueueInv
<1>3. TypeOK /\ QueueInv /\ OneWriter /\ [Next]_vars => QueueInv'
  BY <1>1, <1>2 DEF Next
<1> QED BY QueueInit, TypeCorrect, <1>3, PTL DEF Spec

\* While the lock keeps writers apart, whichever lock it is, scripts and files
\* implement the queue, for any number of scripts, backlog and kills.
THEOREM OneWriterImplementsQueue == Spec /\ []OneWriter => ImplementsReportQueue
<1>1. Init => RQ!Init
  BY DEF Init, RQ!Init
<1>2. TypeOK /\ QueueInv /\ [Next]_vars => [RQ!Next]_(RQ!vars)
  <2>1. CASE UNCHANGED vars
    BY <2>1 DEF vars, fileVars, RQ!vars
  <2> QED BY <2>1, QueueStep DEF Next
<1> QED BY <1>1, <1>2, QueueInvariant, PTL
        DEF Spec, ImplementsReportQueue, RQ!Spec

\* And they lose nothing.
THEOREM OneWriterLosesNothing == Spec /\ []OneWriter => []NothingLost
<1>1. QueueInv => NothingLost
  BY DEF QueueInv, Settled, NothingLost
<1> QED BY <1>1, QueueInvariant, PTL

\* The PowerShell scripts implement the queue, without a condition.
THEOREM StreamImplementsQueue ==
  LockKind = "stream" => (Spec => ImplementsReportQueue)
BY OneWriterImplementsQueue, StreamHasOneWriter, PTL

\* And lose no report.
THEOREM StreamLosesNothing == LockKind = "stream" => (Spec => []NothingLost)
BY OneWriterLosesNothing, StreamHasOneWriter, PTL

\* Two Bash scripts implement the queue, too.
THEOREM PairImplementsQueue ==
  LockKind = "directory" /\ Prompt /\ Pair => (Spec => ImplementsReportQueue)
BY OneWriterImplementsQueue, PairHasOneWriter, PTL

\* And lose no report.
THEOREM PairLosesNothing == LockKind = "directory" /\ Prompt /\ Pair => (Spec => []NothingLost)
BY OneWriterLosesNothing, PairHasOneWriter, PTL

-----------------------------------------------------------------------------
(* What users run *)

CONSTANTS Users, Uids, Author, Versions, Environments, Targets, Legacy, MaxTime, MaxRuns, MaxMoves
VARIABLES lifecycle, machine, script, transit, table, notices, now, runs, moves

Machines == INSTANCE Installations

\* The reports there are, on their way or received.
Sent == transit \cup {table[i].report : i \in DOMAIN table}

\* Those of a user that changed the machine, and what a report says it left there.
Changing(u) == {r \in Sent : r.user = u /\ r.status \in {"succeeded", "uninstalled"}}
Leaves(r) == IF r.status = "uninstalled" THEN Machines!NotInstalled ELSE [version |-> r.version, env |-> r.env]

\* A user runs one script after another, and their keys grow.
InTurn ==
  /\ \A r \in Sent : /\ r.started <= r.ended /\ r.ended <= now /\ r.key <= runs
                     /\ script[r.user] # Machines!NoScript => r.key < runs /\ r.ended <= script[r.user].started
  /\ \A r, s \in Sent : r.user = s.user =>
       /\ r.key = s.key => r = s
       /\ r.key < s.key => r.ended <= s.started
  /\ \A u \in Users : script[u] # Machines!NoScript => script[u].started <= now /\ 0 < runs

\* A report is on its way or in one row.
InOnePlace ==
  /\ \A i \in DOMAIN table : table[i].report \notin transit
  /\ \A i, j \in DOMAIN table : table[i].report = table[j].report => i = j

\* A machine has what the last script that changed it left.
MachinesFit ==
  \A u \in Users :
    /\ Changing(u) = {} => machine[u] = Machines!NotInstalled
    /\ \A r \in Changing(u) : (\A s \in Changing(u) : s.key <= r.key) => machine[u] = Leaves(r)

UsersInv == Machines!TypeOK /\ InTurn /\ InOnePlace /\ MachinesFit

LEMMA UsersTypes ==
  ASSUME UsersInv
  PROVE  /\ table \in Seq(Machines!Received) /\ Len(table) \in Nat /\ DOMAIN table = 1 .. Len(table)
         /\ Sent \subseteq Machines!Report
         /\ \A i \in DOMAIN table : table[i].report \in Sent
         /\ now \in Nat /\ runs \in Nat /\ machine \in [Users -> Machines!Installation \cup {Machines!NotInstalled}]
         /\ script \in [Users -> Machines!Scripts \cup {Machines!NoScript}]
<1>1. table \in Seq(Machines!Received)
  BY DEF UsersInv, Machines!TypeOK
<1>2. \A i \in DOMAIN table : table[i].report \in Machines!Report
  <2>1. \A i \in DOMAIN table : table[i] \in Machines!Received
    BY <1>1
  <2> QED BY <2>1 DEF Machines!Received
<1> QED BY <1>1, <1>2 DEF UsersInv, Machines!TypeOK, Sent

-----------------------------------------------------------------------------
(* The last row *)

\* A set of numbers with a bound has a greatest one.
LEMMA HasMost ==
  ASSUME NEW n \in Nat, NEW S \in SUBSET (0 .. n), S # {}
  PROVE  \E k \in S : \A j \in S : j <= k
<1> DEFINE less == {pair \in Nat \X Nat : pair[1] < pair[2]}
           T == {n - k : k \in S}
<1>1. IsWellFoundedOn(less, Nat)
  BY NatLessThanWellFounded DEF OpToRel
<1>2. T \in SUBSET Nat /\ T # {}
  <2>1. \A k \in S : n - k \in Nat
    OBVIOUS
  <2> QED BY <2>1
<1>3. PICK m \in T : \A k \in T : ~(<<k, m>> \in less)
  <2> HIDE DEF less, T
  <2> QED BY <1>1, <1>2, WFMin
<1>4. \A k \in T : ~(k < m)
  BY <1>2, <1>3
<1>5. PICK k \in S : m = n - k
  OBVIOUS
<1>6. ASSUME NEW j \in S PROVE j <= k
  <2>1. ~(n - j < n - k)
    BY <1>4, <1>5
  <2>2. j \in Nat /\ k \in Nat
    OBVIOUS
  <2> QED BY <2>1, <2>2
<1> QED BY <1>6

\* A finite sequence of numbers has a bound.
LEMMA IsBounded ==
  ASSUME NEW n \in Nat, NEW f, \A i \in 1 .. n : f[i] \in Nat
  PROVE  \E b \in Nat : \A i \in 1 .. n : f[i] <= b
<1> DEFINE Good(k) == \E b \in Nat : \A i \in 1 .. k : f[i] <= b
           less == {pair \in Nat \X Nat : pair[1] < pair[2]}
           bad == {k \in 0 .. n : ~Good(k)}
<1>1. SUFFICES bad = {}
  BY SMTT(30) DEF bad
<1>2. SUFFICES ASSUME bad # {} PROVE FALSE
  OBVIOUS
<1>3. IsWellFoundedOn(less, Nat)
  BY NatLessThanWellFounded DEF OpToRel
<1>4. PICK m \in bad : \A k \in bad : ~(<<k, m>> \in less)
  <2>1. bad \in SUBSET Nat
    OBVIOUS
  <2> HIDE DEF less, bad
  <2> QED BY <1>2, <1>3, <2>1, WFMin
<1>5. \A k \in bad : ~(k < m)
  <2>1. \A k \in bad : k \in Nat
    OBVIOUS
  <2>2. \A k \in bad : <<k, m>> \in less <=> k < m
    <3> HIDE DEF bad
    <3> QED BY <2>1
  <2> HIDE DEF bad, less
  <2> QED BY <1>4, <2>2
<1>6. m # 0
  <2>1. Good(0)
    OBVIOUS
  <2> QED BY <2>1
<1>7. m - 1 \in 0 .. n /\ m - 1 < m /\ m \in 1 .. n
  BY <1>6
<1>8. Good(m - 1)
  <2> HIDE DEF Good
  <2> QED BY <1>5, <1>7
<1>9. PICK b \in Nat : \A i \in 1 .. m - 1 : f[i] <= b
  BY <1>8
<1>10. Good(m)
  <2> DEFINE c == IF f[m] <= b THEN b ELSE f[m]
  <2>1. c \in Nat /\ b <= c /\ f[m] <= c
    BY <1>7
  <2>2. \A i \in 1 .. m : f[i] <= c
    <3> SUFFICES ASSUME NEW i \in 1 .. m PROVE f[i] <= c
      OBVIOUS
    <3>1. CASE i = m
      BY <2>1, <3>1
    <3>2. CASE i # m
      <4>1. i \in 1 .. m - 1 /\ f[i] \in Nat
        BY <1>7, <3>2
      <4>2. f[i] <= b
        BY <1>9, <4>1
      <4> HIDE DEF c
      <4> QED BY <2>1, <4>1, <4>2
    <3> QED BY <3>1, <3>2
  <2> HIDE DEF c
  <2> QED BY <2>1, <2>2
<1> QED BY <1>10

\* Of any rows one is the last.
LEMMA HasLastRow ==
  ASSUME UsersInv, Machines!InstallationsAssumption, NEW S \in SUBSET DOMAIN table, S # {}
  PROVE  \E i \in S : /\ \A j \in S \ {i} : Machines!Precedes(j, i)
                      /\ i = CHOOSE k \in S : \A j \in S \ {k} : Machines!Precedes(j, k)
<1>1. /\ \A i \in S : /\ i \in 1 .. Len(table)
                      /\ table[i].report.started \in 0 .. MaxTime /\ table[i].report.ended \in 0 .. MaxTime
      /\ Len(table) \in Nat /\ MaxTime \in Nat
  BY UsersTypes DEF Machines!Report, Machines!InstallationsAssumption
<1> DEFINE starts == {table[i].report.started : i \in S}
<1>2. PICK a \in starts : \A b \in starts : b <= a
  <2>1. starts \in SUBSET (0 .. MaxTime) /\ starts # {}
    BY <1>1
  <2> HIDE DEF starts
  <2> QED BY <1>1, <2>1, HasMost
<1> DEFINE late == {i \in S : table[i].report.started = a}
           ends == {table[i].report.ended : i \in late}
<1>3. PICK c \in ends : \A b \in ends : b <= c
  <2>1. ends \in SUBSET (0 .. MaxTime) /\ ends # {}
    BY <1>1, <1>2
  <2> HIDE DEF ends
  <2> QED BY <1>1, <2>1, HasMost
<1> DEFINE latest == {i \in late : table[i].report.ended = c}
<1>4. PICK i \in latest : \A j \in latest : j <= i
  <2>1. latest \in SUBSET (0 .. Len(table)) /\ latest # {}
    BY <1>1, <1>3
  <2> HIDE DEF latest
  <2> QED BY <1>1, <2>1, HasMost
<1>5. ASSUME NEW j \in S \ {i} PROVE Machines!Precedes(j, i)
  <2>1. table[j].report.started <= a /\ table[i].report.started = a /\ table[i].report.ended = c
    BY <1>2, <1>4
  <2>2. table[j].report.started = a => table[j].report.ended <= c
    BY <1>3
  <2>3. table[j].report.started = a /\ table[j].report.ended = c => j <= i
    BY <1>4
  <2>4. i \in S /\ j \in S
    BY <1>4
  <2> HIDE DEF latest
  <2> QED BY SMTT(30), <1>1, <2>1, <2>2, <2>3, <2>4 DEF Machines!Precedes
<1>6. i \in S
  BY <1>4
<1> DEFINE k == CHOOSE k \in S : \A j \in S \ {k} : Machines!Precedes(j, k)
<1>7. k \in S /\ \A j \in S \ {k} : Machines!Precedes(j, k)
  BY <1>5, <1>6
<1>8. k = i
  <2> SUFFICES ASSUME k # i PROVE FALSE
    OBVIOUS
  <2>1. Machines!Precedes(i, k) /\ Machines!Precedes(k, i)
    BY <1>5, <1>6, <1>7
  <2> HIDE DEF k, latest
  <2> QED BY SMTT(30), <1>1, <1>6, <1>7, <2>1 DEF Machines!Precedes
<1> QED BY <1>5, <1>6, <1>8

\* The rows of a user that change something.
ChangingRows(rows, u) == {i \in Machines!RowsOf(rows, u) : table[i].report.status \in {"succeeded", "uninstalled"}}

\* The list of a user is what the last of these rows left.
LEMMA FoldIsLast ==
  ASSUME UsersInv, Machines!InstallationsAssumption, NEW rows \in SUBSET DOMAIN table, NEW u
  PROVE  /\ ChangingRows(rows, u) = {} => Machines!FoldCurrentInstallations(rows, u) = Machines!NotInstalled
         /\ ChangingRows(rows, u) # {} =>
              \E i \in ChangingRows(rows, u) :
                /\ \A j \in ChangingRows(rows, u) \ {i} : Machines!Precedes(j, i)
                /\ Machines!FoldCurrentInstallations(rows, u) = Leaves(table[i].report)
<1>1. ChangingRows(rows, u) \in SUBSET DOMAIN table
  BY DEF ChangingRows, Machines!RowsOf
<1>2. Machines!FoldCurrentInstallations(rows, u) =
        IF ChangingRows(rows, u) = {} THEN Machines!NotInstalled
        ELSE Leaves(table[CHOOSE i \in ChangingRows(rows, u) : \A j \in ChangingRows(rows, u) \ {i} : Machines!Precedes(j, i)].report)
  BY DEF Machines!FoldCurrentInstallations, ChangingRows, Leaves
<1>3. CASE ChangingRows(rows, u) # {}
  <2>1. PICK i \in ChangingRows(rows, u) :
          /\ \A j \in ChangingRows(rows, u) \ {i} : Machines!Precedes(j, i)
          /\ i = CHOOSE k \in ChangingRows(rows, u) : \A j \in ChangingRows(rows, u) \ {k} : Machines!Precedes(j, k)
    BY <1>1, <1>3, HasLastRow
  <2> QED BY <1>2, <1>3, <2>1
<1> QED BY <1>2, <1>3

LEMMA FoldType ==
  ASSUME UsersInv, Machines!InstallationsAssumption, NEW rows \in SUBSET DOMAIN table, NEW u
  PROVE  Machines!FoldCurrentInstallations(rows, u) \in Machines!Installation \cup {Machines!NotInstalled}
<1>1. ASSUME NEW i \in ChangingRows(rows, u)
      PROVE  Leaves(table[i].report) \in Machines!Installation \cup {Machines!NotInstalled}
  <2>1. table[i].report \in Machines!Report
    BY <1>1, UsersTypes DEF ChangingRows, Machines!RowsOf
  <2> QED BY <2>1 DEF Leaves, Machines!Report, Machines!Installation
<1> QED BY <1>1, FoldIsLast

-----------------------------------------------------------------------------
(* What users do *)

LEMMA UsersStart == ASSUME Machines!InstallationsAssumption, Machines!Init PROVE UsersInv
<1>1. Sent = {} /\ table = <<>> /\ DOMAIN table = {}
  BY DEF Machines!Init, Sent
<1>2. Machines!TypeOK
  BY <1>1 DEF Machines!Init, Machines!TypeOK, Machines!InstallationsAssumption, Machines!Lifecycles
<1>3. InTurn /\ InOnePlace /\ MachinesFit
  BY <1>1 DEF Machines!Init, InTurn, InOnePlace, MachinesFit, Changing
<1> QED BY <1>2, <1>3 DEF UsersInv

\* What scripts and reports do not do leaves the reports in their order.
LEMMA OthersKeep ==
  ASSUME UsersInv, UNCHANGED <<machine, script, transit, table, runs>>,
         now' \in 0 .. MaxTime, now <= now', moves' \in 0 .. MaxMoves,
         lifecycle' \in [Versions -> Machines!Lifecycles], notices' \subseteq Machines!Notice,
         Machines!InstallationsAssumption
  PROVE  UsersInv'
<1>1. Sent' = Sent
  BY DEF Sent
<1>2. Machines!TypeOK'
  BY DEF UsersInv, Machines!TypeOK
<1>3. /\ \A r \in Sent : r.ended \in Nat
      /\ \A u \in Users : script[u] # Machines!NoScript => script[u].started \in Nat
      /\ now \in Nat /\ now' \in Nat
  BY UsersTypes DEF Machines!Report, Machines!Scripts, Machines!InstallationsAssumption
<1>4. InTurn'
  <2>1. \A r \in Sent : r.ended <= now'
    BY <1>3 DEF UsersInv, InTurn
  <2>2. \A u \in Users : script[u] # Machines!NoScript => script[u].started <= now' /\ 0 < runs
    BY <1>3 DEF UsersInv, InTurn
  <2> QED BY <1>1, <2>1, <2>2 DEF UsersInv, InTurn
<1>5. InOnePlace' /\ MachinesFit'
  BY <1>1 DEF UsersInv, InOnePlace, MachinesFit, Changing
<1> QED BY <1>2, <1>4, <1>5 DEF UsersInv

\* A script that begins has a number of its own.
LEMMA StartKeeps ==
  ASSUME UsersInv, Machines!InstallationsAssumption, NEW u \in Users, NEW action \in {"install", "uninstall"},
         NEW v \in Versions, NEW env \in Environments, Machines!Start(u, action, v, env)
  PROVE  UsersInv'
<1> DEFINE s == [action |-> action, version |-> v, env |-> env, started |-> now]
<1>1. /\ script' = [script EXCEPT ![u] = s] /\ runs' = runs + 1 /\ runs < MaxRuns
      /\ UNCHANGED <<lifecycle, machine, transit, table, notices, now, moves>>
  BY DEF Machines!Start
<1>2. s \in Machines!Scripts /\ s.started = now
  BY DEF UsersInv, Machines!TypeOK, Machines!Scripts
<1> HIDE DEF s
<1>3. runs' \in 0 .. MaxRuns /\ script' \in [Users -> Machines!Scripts \cup {Machines!NoScript}]
  BY <1>1, <1>2 DEF UsersInv, Machines!TypeOK, Machines!InstallationsAssumption
<1>4. Machines!TypeOK'
  BY <1>1, <1>3 DEF UsersInv, Machines!TypeOK
<1>5. Sent' = Sent
  BY <1>1 DEF Sent
<1>6. \A r \in Sent : r.user \in Users /\ r.key \in Nat /\ r.ended \in Nat
  BY UsersTypes DEF Machines!Report
<1>7. now \in Nat /\ runs \in Nat
  BY UsersTypes
<1>8. script'[u] = s /\ \A w \in Users \ {u} : script'[w] = script[w]
  BY <1>1, UsersTypes
<1>9. InTurn'
  <2>1. ASSUME NEW r \in Sent
        PROVE  /\ r.started <= r.ended /\ r.ended <= now' /\ r.key <= runs'
               /\ script'[r.user] # Machines!NoScript => r.key < runs' /\ r.ended <= script'[r.user].started
    <3>1. r.started <= r.ended /\ r.ended <= now /\ r.key <= runs
      BY DEF UsersInv, InTurn
    <3>2. r.key < runs'
      BY <1>1, <1>6, <1>7, <3>1
    <3>3. script'[r.user] # Machines!NoScript => r.ended <= script'[r.user].started
      BY <1>2, <1>6, <1>8, <3>1 DEF UsersInv, InTurn
    <3> QED BY <1>1, <1>6, <1>7, <3>1, <3>2, <3>3
  <2>2. ASSUME NEW w \in Users, script'[w] # Machines!NoScript PROVE script'[w].started <= now' /\ 0 < runs'
    BY <1>1, <1>2, <1>7, <1>8, <2>2 DEF UsersInv, InTurn
  <2> QED BY <1>5, <2>1, <2>2 DEF UsersInv, InTurn
<1>10. InOnePlace' /\ MachinesFit'
  BY <1>1, <1>5 DEF UsersInv, InOnePlace, MachinesFit, Changing
<1> QED BY <1>4, <1>9, <1>10 DEF UsersInv

\* A script that ends is the last one of its user.
LEMMA FinishKeeps ==
  ASSUME UsersInv, Machines!InstallationsAssumption, NEW u \in Users, NEW succeeds \in BOOLEAN,
         Machines!Finish(u, succeeds)
  PROVE  UsersInv'
<1> DEFINE s == script[u]
           status == IF succeeds THEN Machines!SucceededStatus(s.action) ELSE "failed"
           q == [user |-> u, version |-> s.version, env |-> s.env, status |-> status,
                 started |-> s.started, ended |-> now, key |-> runs]
<1>1. /\ s # Machines!NoScript /\ transit' = transit \cup {q}
      /\ machine' = [machine EXCEPT ![u] =
              CASE status = "succeeded" -> [version |-> s.version, env |-> s.env]
                [] status = "uninstalled" -> Machines!NotInstalled
                [] OTHER -> @]
      /\ script' = [script EXCEPT ![u] = Machines!NoScript]
      /\ UNCHANGED <<lifecycle, table, notices, now, runs, moves>>
  BY DEF Machines!Finish
<1>2. s \in Machines!Scripts
  BY <1>1, UsersTypes
<1>3. status \in Machines!Statuses
  BY <1>2 DEF Machines!SucceededStatus, Machines!Statuses
<1>4. runs \in 1 .. MaxRuns /\ s.started <= now
  BY <1>1, UsersTypes DEF UsersInv, InTurn, Machines!TypeOK
<1>5. /\ q \in Machines!Report
      /\ q.user = u /\ q.status = status /\ q.started = s.started /\ q.ended = now /\ q.key = runs
      /\ q.version = s.version /\ q.env = s.env
  BY <1>2, <1>3, <1>4 DEF Machines!Report, Machines!Scripts, UsersInv, Machines!TypeOK
<1>6. \A r \in Sent : r.user = u => r.key < runs /\ r.ended <= s.started
  BY <1>1 DEF UsersInv, InTurn
<1>7. machine'[u] = IF status \in {"succeeded", "uninstalled"} THEN Leaves(q) ELSE machine[u]
  <2>1. machine'[u] = CASE status = "succeeded" -> [version |-> s.version, env |-> s.env]
                        [] status = "uninstalled" -> Machines!NotInstalled
                        [] OTHER -> machine[u]
    <3> HIDE DEF status, s
    <3> QED BY <1>1, UsersTypes
  <2>2. CASE status = "succeeded"
    BY <1>5, <2>1, <2>2 DEF Leaves
  <2>3. CASE status = "uninstalled"
    BY <1>5, <2>1, <2>3 DEF Leaves
  <2>4. CASE status = "failed"
    BY <2>1, <2>4
  <2> QED BY <1>3, <2>2, <2>3, <2>4 DEF Machines!Statuses
<1>8. \A w \in Users \ {u} : machine'[w] = machine[w] /\ script'[w] = script[w]
  <2> HIDE DEF status, s
  <2> QED BY <1>1, UsersTypes
<1>9. script' \in [Users -> Machines!Scripts \cup {Machines!NoScript}] /\ script'[u] = Machines!NoScript
  BY <1>1, UsersTypes
<1>10. machine' \in [Users -> Machines!Installation \cup {Machines!NotInstalled}]
  <2>1. (CASE status = "succeeded" -> [version |-> s.version, env |-> s.env]
           [] status = "uninstalled" -> Machines!NotInstalled
           [] OTHER -> machine[u]) \in Machines!Installation \cup {Machines!NotInstalled}
    <3>1. [version |-> s.version, env |-> s.env] \in Machines!Installation
      BY <1>2 DEF Machines!Scripts, Machines!Installation
    <3>2. machine[u] \in Machines!Installation \cup {Machines!NotInstalled}
      BY UsersTypes
    <3> HIDE DEF status, s
    <3> QED BY <3>1, <3>2
  <2> HIDE DEF status, s
  <2> QED BY <1>1, <2>1, UsersTypes
<1> HIDE DEF q, status
<1>11. Sent' = Sent \cup {q} /\ UNCHANGED <<now, runs, table>>
  BY <1>1 DEF Sent
<1>12. Machines!TypeOK'
  BY <1>1, <1>5, <1>9, <1>10 DEF UsersInv, Machines!TypeOK
<1>13. InTurn'
  <2>1. ASSUME NEW r \in Sent \cup {q}
        PROVE  /\ r.started <= r.ended /\ r.ended <= now /\ r.key <= runs
               /\ script'[r.user] # Machines!NoScript => r.key < runs /\ r.ended <= script'[r.user].started
    <3>1. CASE r = q
      <4>1. q.started <= q.ended /\ q.ended <= now /\ q.key <= runs
        BY <1>4, <1>5, UsersTypes
      <4> QED BY <1>5, <1>9, <3>1, <4>1
    <3>2. CASE r \in Sent
      <4>1. r.user \in Users
        BY <3>2, UsersTypes DEF Machines!Report
      <4> QED BY <1>8, <1>9, <3>2, <4>1 DEF UsersInv, InTurn
    <3> QED BY <2>1, <3>1, <3>2
  <2>2. ASSUME NEW r \in Sent \cup {q}, NEW t \in Sent \cup {q}, r.user = t.user
        PROVE  /\ r.key = t.key => r = t
               /\ r.key < t.key => r.ended <= t.started
    <3>1. \A o \in Sent : o.key \in Nat
      BY UsersTypes DEF Machines!Report
    <3>2. CASE r \in Sent /\ t \in Sent
      BY <2>2, <3>2 DEF UsersInv, InTurn
    <3>3. CASE r = q /\ t \in Sent
      BY <1>4, <1>5, <1>6, <2>2, <3>1, <3>3
    <3>4. CASE r \in Sent /\ t = q
      BY <1>4, <1>5, <1>6, <2>2, <3>1, <3>4
    <3>5. CASE r = q /\ t = q
      BY <1>4, <1>5, <3>5
    <3> QED BY <2>2, <3>2, <3>3, <3>4, <3>5
  <2>3. ASSUME NEW w \in Users, script'[w] # Machines!NoScript PROVE script'[w].started <= now /\ 0 < runs
    BY <1>8, <1>9, <2>3 DEF UsersInv, InTurn
  <2> QED BY <1>11, <2>1, <2>2, <2>3 DEF InTurn
<1>14. InOnePlace'
  <2>1. \A i \in DOMAIN table : table[i].report # q
    BY <1>4, <1>5, <1>6, UsersTypes
  <2> QED BY <1>1, <2>1 DEF UsersInv, InOnePlace
<1>15. MachinesFit'
  <2>1. ASSUME NEW w \in Users \ {u}
        PROVE  /\ Changing(w)' = Changing(w) /\ machine'[w] = machine[w]
    BY <1>5, <1>8, <1>11 DEF Changing
  <2>2. ASSUME status \notin {"succeeded", "uninstalled"}
        PROVE  Changing(u)' = Changing(u) /\ machine'[u] = machine[u]
    BY <1>5, <1>7, <1>11, <2>2 DEF Changing
  <2>3. ASSUME status \in {"succeeded", "uninstalled"}
        PROVE  /\ Changing(u)' = Changing(u) \cup {q} /\ machine'[u] = Leaves(q)
               /\ \A r \in Changing(u) : r.key < q.key /\ r.key \in Nat /\ q.key \in Nat
    <3>1. Changing(u)' = Changing(u) \cup {q} /\ machine'[u] = Leaves(q)
      BY <1>5, <1>7, <1>11, <2>3 DEF Changing
    <3>2. \A r \in Changing(u) : r.key < q.key /\ r.key \in Nat /\ q.key \in Nat
      BY <1>4, <1>5, <1>6, UsersTypes DEF Changing, Machines!Report
    <3> QED BY <3>1, <3>2
  <2>4. ASSUME NEW w \in Users
        PROVE  /\ Changing(w)' = {} => machine'[w] = Machines!NotInstalled
               /\ \A r \in Changing(w)' : (\A t \in Changing(w)' : t.key <= r.key) => machine'[w] = Leaves(r)
    <3>1. CASE w # u \/ status \notin {"succeeded", "uninstalled"}
      BY <2>1, <2>2, <3>1 DEF UsersInv, MachinesFit
    <3>2. CASE w = u /\ status \in {"succeeded", "uninstalled"}
      <4>1. ASSUME NEW r \in Changing(u)', \A t \in Changing(u)' : t.key <= r.key PROVE r = q
        <5>1. q.key <= r.key
          BY <2>3, <3>2, <4>1
        <5> QED BY <2>3, <3>2, <4>1, <5>1
      <4> QED BY <2>3, <3>2, <4>1
    <3> QED BY <3>1, <3>2
  <2> QED BY <2>4 DEF MachinesFit, Leaves
<1> QED BY <1>12, <1>13, <1>14, <1>15 DEF UsersInv

\* A report that arrives is the same report.
LEMMA ReceiveKeeps ==
  ASSUME UsersInv, Machines!InstallationsAssumption, NEW q \in transit, Machines!ReceiveReport(q)
  PROVE  UsersInv'
<1> DEFINE row == [report |-> q, received |-> now]
<1>1. /\ transit' = transit \ {q} /\ table' = Append(table, row)
      /\ UNCHANGED <<lifecycle, machine, script, notices, now, runs, moves>>
  BY DEF Machines!ReceiveReport
<1>2. row \in Machines!Received /\ row.report = q
  BY DEF UsersInv, Machines!TypeOK, Machines!Received
<1> HIDE DEF row
<1>3. /\ table \in Seq(Machines!Received) /\ Len(table) \in Nat /\ DOMAIN table = 1 .. Len(table)
      /\ \A i \in DOMAIN table : table[i].report \in Sent
  BY UsersTypes
<1>4. /\ table' \in Seq(Machines!Received) /\ DOMAIN table' = 1 .. Len(table) + 1
      /\ \A i \in DOMAIN table : table'[i] = table[i]
      /\ table'[Len(table) + 1] = row
  BY <1>1, <1>2, <1>3
<1>5. Sent' = Sent
  <2>1. {table'[i].report : i \in DOMAIN table'} = {table[i].report : i \in DOMAIN table} \cup {q}
    <3>1. \A i \in DOMAIN table' : i \in DOMAIN table \/ i = Len(table) + 1
      BY <1>3, <1>4
    <3>2. DOMAIN table \subseteq DOMAIN table' /\ Len(table) + 1 \in DOMAIN table'
      BY <1>3, <1>4
    <3> QED BY <1>2, <1>4, <3>1, <3>2
  <2> QED BY <1>1, <2>1 DEF Sent
<1>6. Machines!TypeOK'
  BY <1>1, <1>4 DEF UsersInv, Machines!TypeOK
<1>7. InTurn' /\ MachinesFit'
  BY <1>1, <1>5 DEF UsersInv, InTurn, MachinesFit, Changing
<1>8. InOnePlace'
  <2>1. \A i \in DOMAIN table : table[i].report # q
    BY DEF UsersInv, InOnePlace
  <2>2. \A i \in DOMAIN table' : i \in DOMAIN table \/ (i = Len(table) + 1 /\ table'[i].report = q)
    BY <1>2, <1>3, <1>4
  <2> QED BY <1>1, <1>4, <2>1, <2>2 DEF UsersInv, InOnePlace
<1> QED BY <1>6, <1>7, <1>8 DEF UsersInv

\* Who is told ran a version there is.
LEMMA PublishKeeps ==
  ASSUME UsersInv, Machines!InstallationsAssumption, NEW v \in Versions, Machines!Publish(v)
  PROVE  UsersInv'
<1>1. ASSUME NEW u \in Machines!Recipients(v)
      PROVE  [user |-> u, version |-> v, installed |-> Machines!Max(Machines!Installed(u, v)),
              ran |-> Machines!FoldCurrentInstallations(Machines!Rows, u).version] \in Machines!Notice
  <2> DEFINE S == Machines!Installed(u, v)
  <2>1. u \in Uids /\ S # {}
    BY DEF Machines!Recipients
  <2>2. \A i \in 1 .. Len(table) : table[i].report.version \in Versions /\ table[i].report.version \in Nat
    <3>1. \A i \in 1 .. Len(table) : table[i].report \in Machines!Report
      BY UsersTypes
    <3>2. \A i \in 1 .. Len(table) : table[i].report.version \in Versions
      BY <3>1 DEF Machines!Report
    <3> QED BY <3>2 DEF Machines!InstallationsAssumption
  <2>3. S \subseteq Versions /\ S \subseteq {table[i].report.version : i \in 1 .. Len(table)}
    BY <2>2, UsersTypes DEF Machines!Installed, Machines!RowsOf, Machines!Rows
  <2>4. PICK b \in Nat : \A i \in 1 .. Len(table) : table[i].report.version <= b
    <3> DEFINE f == [i \in 1 .. Len(table) |-> table[i].report.version]
    <3>1. \A i \in 1 .. Len(table) : f[i] \in Nat /\ f[i] = table[i].report.version
      BY <2>2
    <3>2. Len(table) \in Nat
      BY UsersTypes
    <3> HIDE DEF f
    <3>3. \E b \in Nat : \A i \in 1 .. Len(table) : f[i] <= b
      BY <3>1, <3>2, IsBounded
    <3> QED BY <3>1, <3>3
  <2>5. S \in SUBSET (0 .. b)
    BY <2>2, <2>3, <2>4
  <2> HIDE DEF S
  <2>6. PICK k \in S : \A j \in S : j <= k
    BY <2>1, <2>5, HasMost
  <2>7. \A j \in S : k >= j
    BY <2>5, <2>6
  <2>8. Machines!Max(S) \in S
    BY <2>6, <2>7 DEF Machines!Max
  <2>9. Machines!FoldCurrentInstallations(Machines!Rows, u).version \in Versions \cup {0}
    <3>1. Machines!FoldCurrentInstallations(Machines!Rows, u) \in Machines!Installation \cup {Machines!NotInstalled}
      BY FoldType DEF Machines!Rows
    <3> QED BY <3>1 DEF Machines!Installation, Machines!NotInstalled
  <2> QED BY <2>1, <2>3, <2>8, <2>9 DEF Machines!Notice, S
<1>2. notices' \subseteq Machines!Notice
  BY <1>1 DEF Machines!Publish, UsersInv, Machines!TypeOK
<1>3. lifecycle' \in [Versions -> Machines!Lifecycles]
  BY DEF Machines!Publish, UsersInv, Machines!TypeOK, Machines!Lifecycles
<1>4. moves' \in 0 .. MaxMoves
  BY DEF Machines!Publish, UsersInv, Machines!TypeOK, Machines!InstallationsAssumption
<1>5. now' \in 0 .. MaxTime /\ now <= now' /\ UNCHANGED <<machine, script, transit, table, runs>>
  BY DEF Machines!Publish, UsersInv, Machines!TypeOK, Machines!InstallationsAssumption
<1> QED BY <1>2, <1>3, <1>4, <1>5, OthersKeep

LEMMA UsersStep ==
  ASSUME UsersInv, Machines!InstallationsAssumption, [Machines!Next]_(Machines!installationsVars)
  PROVE  UsersInv'
<1>1. ASSUME Machines!Tick PROVE UsersInv'
  <2>1. now' \in 0 .. MaxTime /\ now <= now'
    BY <1>1 DEF Machines!Tick, UsersInv, Machines!TypeOK, Machines!InstallationsAssumption
  <2> QED BY <1>1, <2>1, OthersKeep DEF Machines!Tick, UsersInv, Machines!TypeOK
<1>2. ASSUME NEW v \in Versions, NEW after \in {"revised", "delisted"}, Machines!Withdraw(v, after) PROVE UsersInv'
  <2>1. /\ lifecycle' \in [Versions -> Machines!Lifecycles] /\ moves' \in 0 .. MaxMoves
        /\ now' \in 0 .. MaxTime /\ now <= now' /\ UNCHANGED <<machine, script, transit, table, notices, runs>>
    BY <1>2 DEF Machines!Withdraw, UsersInv, Machines!TypeOK, Machines!Lifecycles, Machines!InstallationsAssumption
  <2> QED BY <2>1, OthersKeep DEF UsersInv, Machines!TypeOK
<1>3. CASE UNCHANGED Machines!installationsVars
  <2>1. now' \in 0 .. MaxTime /\ now <= now'
    BY <1>3 DEF Machines!installationsVars, UsersInv, Machines!TypeOK, Machines!InstallationsAssumption
  <2> QED BY <1>3, <2>1, OthersKeep DEF Machines!installationsVars, UsersInv, Machines!TypeOK
<1> QED BY <1>1, <1>2, <1>3, StartKeeps, FinishKeeps, ReceiveKeeps, PublishKeeps
        DEF Machines!Next, Machines!ReviseVersion, Machines!DelistVersion

LEMMA UsersInvariant ==
  ASSUME Machines!InstallationsAssumption PROVE Machines!Spec => []UsersInv
<1>1. Machines!Init => UsersInv
  BY UsersStart
<1>2. UsersInv /\ [Machines!Next]_(Machines!installationsVars) => UsersInv'
  BY UsersStep
<1> QED BY <1>1, <1>2, PTL DEF Machines!Spec

-----------------------------------------------------------------------------
(* What the reports tell *)

\* Of two reports of a user the one with the higher number comes later, or they
\* began and ended in the same second.
LEMMA LaterPrecedesNot ==
  ASSUME UsersInv, NEW r \in Sent, NEW s \in Sent, r.user = s.user, r.key < s.key
  PROVE  \/ r.started < s.started \/ (r.started = s.started /\ r.ended < s.ended)
         \/ (r.started = s.started /\ r.ended = s.ended)
<1>1. r.started <= r.ended /\ s.started <= s.ended /\ r.ended <= s.started
  BY DEF UsersInv, InTurn
<1>2. r.started \in Int /\ r.ended \in Int /\ s.started \in Int /\ s.ended \in Int
  BY UsersTypes DEF Machines!Report
<1> QED BY <1>1, <1>2

LEMMA FoldIsMachine ==
  ASSUME UsersInv, Machines!InstallationsAssumption, NEW u \in Users, Machines!AllArrived(u), Machines!TellableApart(u)
  PROVE  Machines!FoldCurrentInstallations(Machines!Rows, u) = machine[u]
<1> DEFINE C == ChangingRows(Machines!Rows, u)
<1>1. /\ \A i \in C : i \in DOMAIN table /\ table[i].report \in Changing(u)
      /\ \A r \in Changing(u) : \E i \in C : table[i].report = r
  <2>1. \A r \in Changing(u) : \E i \in DOMAIN table : table[i].report = r
    BY DEF Changing, Sent, Machines!AllArrived
  <2> QED BY <2>1, UsersTypes DEF Changing, ChangingRows, Machines!RowsOf, Machines!Rows
<1>2. CASE C = {}
  BY <1>1, <1>2, FoldIsLast DEF UsersInv, MachinesFit, Machines!Rows
<1>3. CASE C # {}
  <2>1. PICK i \in C :
          /\ \A j \in C \ {i} : Machines!Precedes(j, i)
          /\ Machines!FoldCurrentInstallations(Machines!Rows, u) = Leaves(table[i].report)
    BY <1>3, FoldIsLast DEF Machines!Rows
  <2>2. ASSUME NEW s \in Changing(u) PROVE s.key <= table[i].report.key
    <3>1. PICK j \in C : table[j].report = s
      BY <1>1, <2>2
    <3> DEFINE r == table[i].report
    <3>2. r \in Sent /\ s \in Sent /\ r.user = u /\ s.user = u /\ r.key \in Nat /\ s.key \in Nat
      BY <1>1, <2>1, <2>2, UsersTypes DEF Changing, Machines!Report
    <3>3. CASE j = i
      BY <3>1, <3>2, <3>3
    <3>4. CASE j # i
      <4>1. Machines!Precedes(j, i)
        BY <2>1, <3>1, <3>4
      <4>2. ~(s.started = r.started /\ s.ended = r.ended)
        BY <1>1, <3>1, <3>2, <3>4 DEF Machines!TellableApart, Machines!RowsOf, Machines!Rows
      <4>3. s.started < r.started \/ (s.started = r.started /\ s.ended < r.ended)
        BY <3>1, <4>1, <4>2 DEF Machines!Precedes
      <4>4. r.started \in Int /\ r.ended \in Int /\ s.started \in Int /\ s.ended \in Int
        BY <3>2, UsersTypes DEF Machines!Report
      <4> HIDE DEF r
      <4>5. ~(r.key < s.key)
        <5> SUFFICES ASSUME r.key < s.key PROVE FALSE
          OBVIOUS
        <5>1. r.started < s.started \/ (r.started = s.started /\ r.ended < s.ended)
              \/ (r.started = s.started /\ r.ended = s.ended)
          BY <3>2, LaterPrecedesNot
        <5> QED BY <4>3, <4>4, <5>1
      <4> QED BY <3>2, <4>5 DEF r
    <3> QED BY <3>3, <3>4
  <2> QED BY <1>1, <2>1, <2>2 DEF UsersInv, MachinesFit
<1> QED BY <1>2, <1>3

\* The last row of a period up to now is the last of all.
LEMMA PeriodIsCurrent ==
  ASSUME UsersInv, Machines!InstallationsAssumption, NEW u \in Users, NEW start \in 0 .. now
  PROVE  Machines!FoldCurrentInstallations(Machines!FindPackageTelemetry(start, now), u)
           \in {Machines!NotInstalled, Machines!FoldCurrentInstallations(Machines!Rows, u)}
<1> DEFINE period == Machines!FindPackageTelemetry(start, now)
           C == ChangingRows(Machines!Rows, u)
           D == ChangingRows(period, u)
<1>1. /\ period \subseteq DOMAIN table /\ D \subseteq C /\ C \subseteq DOMAIN table
      /\ \A i \in C : table[i].report.started \in start .. now => i \in D
      /\ \A i \in D : table[i].report.started \in start .. now
  BY DEF ChangingRows, Machines!RowsOf, Machines!Rows, Machines!FindPackageTelemetry
<1>2. ASSUME NEW i \in C
      PROVE  /\ i \in Nat /\ table[i].report.started \in Nat /\ table[i].report.ended \in Nat
             /\ table[i].report.started <= now
  <2>1. table[i].report \in Sent /\ table[i].report \in Machines!Report /\ i \in 1 .. Len(table)
    BY <1>1, <1>2, UsersTypes
  <2>2. table[i].report.started <= table[i].report.ended /\ table[i].report.ended <= now
    BY <2>1 DEF UsersInv, InTurn
  <2>3. now \in Nat /\ table[i].report.started \in Nat /\ table[i].report.ended \in Nat
    BY <2>1, UsersTypes DEF Machines!Report
  <2> QED BY <2>1, <2>2, <2>3
<1>3. CASE D = {}
  BY <1>1, <1>3, FoldIsLast
<1>4. CASE D # {}
  <2>1. PICK b \in D :
          /\ \A j \in D \ {b} : Machines!Precedes(j, b)
          /\ Machines!FoldCurrentInstallations(period, u) = Leaves(table[b].report)
    BY <1>1, <1>4, FoldIsLast
  <2>2. PICK a \in C :
          /\ \A j \in C \ {a} : Machines!Precedes(j, a)
          /\ Machines!FoldCurrentInstallations(Machines!Rows, u) = Leaves(table[a].report)
    BY <1>1, <1>4, FoldIsLast DEF Machines!Rows
  <2>3. a = b
    <3> SUFFICES ASSUME a # b PROVE FALSE
      OBVIOUS
    <3>1. Machines!Precedes(b, a) /\ b \in C
      BY <1>1, <2>1, <2>2
    <3>2. table[b].report.started <= table[a].report.started
      BY <1>2, <2>2, <3>1 DEF Machines!Precedes
    <3>3. table[a].report.started \in start .. now
      BY <1>1, <1>2, <2>1, <2>2, <3>1, <3>2, UsersTypes
    <3>4. Machines!Precedes(a, b)
      BY <1>1, <2>1, <2>2, <3>3
    <3> QED BY <1>2, <2>2, <3>1, <3>4 DEF Machines!Precedes
  <2> QED BY <2>1, <2>2, <2>3
<1> QED BY <1>3, <1>4

\* Once the reports of a user have arrived, in whatever order and however late, the user's
\* list shows what the machine runs; and figures over a period up to now show no other
\* version than that list (foldCurrentInstallations).
THEOREM TablesTellMachines ==
  ASSUME Machines!InstallationsAssumption
  PROVE  Machines!Spec => [](Machines!TypeOK /\ Machines!FoldTellsMachine /\ Machines!PeriodToNowIsCurrent)
<1>1. UsersInv => Machines!TypeOK /\ Machines!FoldTellsMachine /\ Machines!PeriodToNowIsCurrent
  BY FoldIsMachine, PeriodIsCurrent DEF UsersInv, Machines!FoldTellsMachine, Machines!PeriodToNowIsCurrent
<1> QED BY <1>1, UsersInvariant, PTL

\* Whoever ran an older version by the reports there were is told of a new one when it
\* comes out, or was before (the recipients of a published version).
THEOREM OutdatedAreToldHolds ==
  ASSUME Machines!InstallationsAssumption
  PROVE  Machines!Spec => [][Machines!OutdatedAreTold]_(Machines!installationsVars)
<1>1. ASSUME UsersInv, Machines!Next, NEW v \in Versions, NEW u \in Uids \ {Author},
             lifecycle[v] # "published", lifecycle'[v] = "published",
             Machines!FoldCurrentInstallations(Machines!Rows, u).version \in 1 .. v - 1
      PROVE  \E n \in notices' : n.user = u /\ n.version = v
  <2>1. Machines!Publish(v)
    <3>1. lifecycle \in [Versions -> Machines!Lifecycles]
      BY <1>1 DEF UsersInv, Machines!TypeOK
    <3> QED BY <1>1, <3>1 DEF Machines!Next, Machines!Start, Machines!Finish, Machines!ReceiveReport, Machines!Tick,
              Machines!Publish, Machines!Withdraw, Machines!ReviseVersion, Machines!DelistVersion
  <2>2. Machines!Installed(u, v) # {}
    <3>1. ChangingRows(Machines!Rows, u) # {}
      BY <1>1, FoldIsLast DEF Machines!NotInstalled, Machines!Rows
    <3>2. PICK i \in ChangingRows(Machines!Rows, u) :
            Machines!FoldCurrentInstallations(Machines!Rows, u) = Leaves(table[i].report)
      BY <1>1, <3>1, FoldIsLast DEF Machines!Rows
    <3>3. table[i].report.status = "succeeded" /\ table[i].report.version \in 1 .. v - 1
      BY <1>1, <3>2 DEF Leaves, Machines!NotInstalled, ChangingRows
    <3>4. table[i].report.version # v
      BY <3>3 DEF Machines!InstallationsAssumption
    <3> QED BY <3>2, <3>3, <3>4 DEF Machines!Installed, ChangingRows, Machines!Rows, Machines!RowsOf
  <2>3. CASE u \in Machines!Recipients(v)
    <3> DEFINE n == [user |-> u, version |-> v, installed |-> Machines!Max(Machines!Installed(u, v)),
                     ran |-> Machines!FoldCurrentInstallations(Machines!Rows, u).version]
    <3>1. n \in notices'
      BY <2>1, <2>3 DEF Machines!Publish
    <3>2. n.user = u /\ n.version = v
      OBVIOUS
    <3> QED BY <3>1, <3>2
  <2>4. CASE u \notin Machines!Recipients(v)
    BY <1>1, <2>1, <2>2, <2>4 DEF Machines!Publish, Machines!Recipients
  <2> QED BY <2>3, <2>4
<1>2. UsersInv /\ [Machines!Next]_(Machines!installationsVars) => [Machines!OutdatedAreTold]_(Machines!installationsVars)
  BY <1>1 DEF Machines!OutdatedAreTold
<1> QED BY <1>2, UsersInvariant, PTL DEF Machines!Spec

=============================================================================
