-------------------------- MODULE MemoryGovernance --------------------------
(***************************************************************************)
(* Publication governance over MemoryGovernanceRepository, which serves    *)
(* the application when no database is configured.  Every operation of it  *)
(* copies the store, decides on the copy and puts it back without giving   *)
(* up the thread: one operation is one step, as a transaction is.  Where   *)
(* it does what the transaction does the action of Governance stands here  *)
(* unchanged; where it does not, it has an action of its own:              *)
(*                                                                         *)
(*   - the version a submission is about is read by the handler, and its   *)
(*     script targets are taken from that reading, not read again;         *)
(*   - a result that is not an exact pass fails the validation, a skipped  *)
(*     one included;                                                       *)
(*   - a change of a draft supersedes reviews too, and revising a draft is *)
(*     a change of nothing.                                                *)
(***************************************************************************)
EXTENDS Governance

VARIABLE asked      \* what each request has read of the version it submits

memVars == <<vars, asked>>

NotAsked == [actor |-> None, version |-> None, bundle |-> None]

MemInit == Init /\ asked = [q \in Request |-> NotAsked]

\* appendObservability: the event goes into the copy that is put back.
MemAppendEvent(v, type, state) == AppendEvent(v, type, state)

\* Exact evidence for every expected target; a skipped run has none.
MemExactlyPassed(result) == ExactlyPassed(result)

-----------------------------------------------------------------------------
(* Submission *)

\* submitReview reads the version and checks that its targets are complete.
FindVersion(q, u, v) ==
  /\ req[q].pc = "idle" /\ asked[q] = NotAsked
  /\ MayMaintain(u) /\ bundle[v] # None
  /\ asked' = [asked EXCEPT ![q] = [actor |-> u, version |-> v, bundle |-> bundle[v]]]
  /\ UNCHANGED vars

\* Seeded fault: the lifecycle the handler read decides.
MaySubmitAnyTime(v) == TRUE

MaySubmit(v) == Moves(lifecycle[v], "SUBMIT", "validating")

\* beginValidation: the lifecycle is the store's, the targets are the handler's.
MemBeginValidation(q) ==
  LET v == asked[q].version
      b == asked[q].bundle
  IN /\ asked[q] # NotAsked
     /\ IF MaySubmit(v)
        THEN \E i \in RunId :
               /\ run[i] = NoRun
               /\ run' = [run EXCEPT ![i] =
                    [status |-> "running", version |-> v, requestedBy |-> asked[q].actor,
                     bundle |-> b, attempts |-> <<"running">>,
                     token |-> NoToken, claimedAt |-> 0, result |-> None]]
               /\ req' = [req EXCEPT ![q] =
                    [Idle EXCEPT !.pc = "validating", !.run = i, !.actor = asked[q].actor]]
               /\ lifecycle' = [lifecycle EXCEPT ![v] = "validating"]
               /\ digest' = [digest EXCEPT ![v] = b]
               /\ manifest' = [manifest EXCEPT ![v] = b]
               /\ MemAppendEvent(v, "version.validation_started", "validating")
        ELSE UNCHANGED <<run, req, lifecycle, digest, manifest, log>>
     /\ asked' = [asked EXCEPT ![q] = NotAsked]
     /\ UNCHANGED <<notes, bundle, review, noticeVars, now>>

MemLookupRetry(q, u, i) == LookupRetry(q, u, i) /\ asked[q] = NotAsked /\ UNCHANGED asked

MemClaimRetry(q) == ClaimRetry(q) /\ UNCHANGED asked

\* completeValidation accepts: the claim is the current one and alive.
MemCompletable(q) ==
  LET row == run[req[q].run]
  IN /\ row.status = "running"
     /\ TokenMatches(row, req[q].token) /\ ~ClaimExpired(row, req[q].stamp)
     /\ lifecycle[row.version] = "validating"
     /\ row.attempts[Len(row.attempts)] = "running"
     /\ MemExactlyPassed(req[q].result) => Pending(row.version) = {}

\* hasExactPassedMatrix or not: there is no third case.
MemStatus(result) == IF MemExactlyPassed(result) THEN "passed" ELSE "failed"

MemComplete(q) ==
  LET i    == req[q].run
      v    == run[i].version
      done == MemStatus(req[q].result)
      next == IF done = "passed" THEN "review_required" ELSE "draft"
  IN /\ run' = [run EXCEPT ![i].status = done, ![i].attempts[Len(run[i].attempts)] = done,
                           ![i].token = NoToken, ![i].claimedAt = 0, ![i].result = req[q].result]
     /\ lifecycle' = [lifecycle EXCEPT ![v] = next]
     /\ IF done = "passed" THEN OpenReview(i, v) ELSE UNCHANGED review
     /\ MemAppendEvent(v, IF done = "passed" THEN "version.review_requested"
                                             ELSE "version.validation_failed", next)

MemCompleteValidation(q) ==
  /\ req[q].pc = "completing"
  /\ IF MemCompletable(q) THEN MemComplete(q) ELSE UNCHANGED <<lifecycle, run, review, log>>
  /\ req' = [req EXCEPT ![q] = Idle]
  /\ UNCHANGED <<contentVars, noticeVars, now, asked>>

-----------------------------------------------------------------------------
(* Content *)

\* Every open review of the version, whatever state the version is in.
Supersede(v) == SupersedePending(v)

MemUpdateVersionContent(v, n, d) ==
  LET drafted == lifecycle[v] = "draft" IN
  /\ drafted \/ Moves(lifecycle[v], "REVISE", "draft")
  /\ lifecycle' = [lifecycle EXCEPT ![v] = "draft"]
  /\ notes' = [notes EXCEPT ![v] = n]
  /\ digest' = [digest EXCEPT ![v] = d]
  /\ Supersede(v)
  /\ MemAppendEvent(v, IF drafted THEN "version.updated" ELSE "version.revised", "draft")
  /\ UNCHANGED <<manifest, bundle, run, noticeVars, req, now, asked>>

\* A revision is a change with an empty patch.
MemReviseVersion(u, v) == MayMaintain(u) /\ MemUpdateVersionContent(v, notes[v], digest[v])

MemEditScriptTargets(v, b) == EditScriptTargets(v, b) /\ UNCHANGED asked

-----------------------------------------------------------------------------
(* Review, withdrawal and notices do what the transactions do. *)

MemDecideReview(u, i) == (ApproveReview(u, i) \/ RejectReview(u, i)) /\ UNCHANGED asked
MemDeprecateVersion(u, v) == DeprecateVersion(u, v) /\ UNCHANGED asked
MemDelistVersion(u, v) == DelistVersion(u, v) /\ UNCHANGED asked
MemEmergencyDisableVersion(u, v) == EmergencyDisableVersion(u, v) /\ UNCHANGED asked
MemMarkNotificationRead(k) == MarkNotificationRead(k) /\ UNCHANGED asked

\* What the runner, the installers and the clock do is no part of the repository.
Around ==
  /\ \/ \E q \in Request, result \in Outcomes : FinishRunner(q, result)
     \/ \E u \in Installer, v \in Version : ReportInstallation(u, v)
     \/ Tick
  /\ UNCHANGED asked

MemNext ==
  \/ \E v \in Version, b \in Bundle \cup {None} : MemEditScriptTargets(v, b)
  \/ \E v \in Version, n \in Notes : \E d \in Bundle \cup {digest[v]} :
       MemUpdateVersionContent(v, n, d)
  \/ \E u \in User, v \in Version :
       \/ MemReviseVersion(u, v) \/ MemDeprecateVersion(u, v)
       \/ MemDelistVersion(u, v) \/ MemEmergencyDisableVersion(u, v)
  \/ \E q \in Request, u \in User, v \in Version : FindVersion(q, u, v)
  \/ \E q \in Request : MemBeginValidation(q) \/ MemClaimRetry(q) \/ MemCompleteValidation(q)
  \/ \E q \in Request, u \in User, i \in RunId : MemLookupRetry(q, u, i)
  \/ \E u \in User, i \in RunId : MemDecideReview(u, i)
  \/ \E k \in User \X NoticeTypes \X Version : MemMarkNotificationRead(k)
  \/ Around

MemSpec == MemInit /\ [][MemNext]_memVars

-----------------------------------------------------------------------------
(* Properties.  Those of Governance hold here too; the runs name them.       *)

\* The targets a version is released with are those its validation ran on
\* (beginValidation takes the handler's reading of them).
ValidatedTargets ==
  \A v \in Version : lifecycle[v] \in Released \cup {"review_required"} =>
    \E i \in RunId :
      /\ review[i].status \in {"pending", "approved"} /\ review[i].version = v
      /\ run[i].bundle = bundle[v]

MemPL == INSTANCE PublicationLifecycle WITH
           Content <- [notes : Notes, digest : Bundle, manifest : Bundle, bundle : Bundle \cup {None}],
           frozen <- Frozen, served <- Served

\* In memory too a version moves along the table only and publishes what was frozen when it
\* was submitted, but what was frozen may be a set of targets that is not complete.
MemImplementsLifecycle == MemPL!Spec

\* A validation that was skipped did not fail (SkippedValidationRunner, the
\* default mode): its run says so and its version waits for a reviewer.
SkippedDidNotFail ==
  \A i \in RunId : run[i].result = "skipped" => run[i].status = "skipped"
=============================================================================
