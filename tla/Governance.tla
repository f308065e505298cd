----------------------------- MODULE Governance -----------------------------
(***************************************************************************)
(* The publication governance of one package: GovernanceService (the       *)
(* handlers) over PostgresGovernanceRepository (the transactions).         *)
(*                                                                         *)
(* A database transaction is one atomic step; every transaction here locks *)
(* the rows it decides on.  A request that validates a version is several  *)
(* steps, because the external runner works between two transactions:      *)
(*                                                                         *)
(*   submit:  BeginValidation -> FinishRunner -> CompleteValidation        *)
(*   retry:   LookupRetry -> ClaimRetry -> FinishRunner ->                 *)
(*            CompleteValidation                                           *)
(*                                                                         *)
(* and the server may crash between any two of them.  A handler that       *)
(* refuses (403, 404, 409) without having done anything changes nothing    *)
(* and is a stuttering step; a refusal in the second transaction of a      *)
(* request ends the request and is modelled.                               *)
(***************************************************************************)
EXTENDS Naturals, Sequences, VersionStateMachine

CONSTANTS
  Version,         \* the versions of the package
  User,            \* the uids
  Request,         \* submit and retry requests that may be in flight
  RunId,           \* BOUND: ids of validation_runs rows (randomUUID)
  Notes,           \* release notes
  Bundle,          \* complete sets of script targets; a bundle is also its
                   \* own manifest digest (the hash is taken as injective)
  Author,          \* who created each version (author_uid)
  Maintainer,      \* uids that pass requireMaintainer by a maintainer role
  Reviewer,        \* uids with the global reviewer role
  Admin,           \* uids with the global platform_admin role
  OwnerTeam,       \* uids whose team is the package's owner_team
  Installer,       \* uids whose clients report installations
  ValidationMode,  \* VALIDATION_MODE: "manual" or "automated"
  TTL,             \* VALIDATION_RETRY_CLAIM_TTL_MS, in clock ticks
  MaxTime,         \* BOUND: the last tick of the clock
  None             \* a null column, a missing row

ASSUME GovernanceAssumption ==
  /\ Author \in [Version -> User]
  /\ Maintainer \subseteq User
  /\ Reviewer \subseteq User
  /\ Admin \subseteq User
  /\ OwnerTeam \subseteq User
  /\ Installer \subseteq User
  /\ ValidationMode \in {"manual", "automated"}
  /\ TTL \in Nat \ {0}
  /\ MaxTime \in Nat
  /\ None \notin Version \cup User \cup RunId \cup Notes \cup Bundle

VARIABLES
  lifecycle,   \* package_versions.lifecycle
  notes,       \* package_versions.release_notes
  digest,      \* package_versions.script_digest
  manifest,    \* package_versions.script_manifest_digest
  bundle,      \* the active script targets of the version, None: incomplete
  run,         \* validation_runs
  review,      \* publication_reviews, by their validation_run_id
  log,         \* the newest domain_events row of a version
  installs,    \* installations: <<uid, version>> downloaded or succeeded
  notice,      \* user_notifications, by their unique key
  delistings,  \* number of version_delistings rows of a version
  req,         \* the requests in flight
  now          \* the clock

contentVars == <<notes, digest, manifest, bundle>>
noticeVars  == <<installs, notice, delistings>>
vars == <<lifecycle, contentVars, run, review, log, noticeVars, req, now>>

-----------------------------------------------------------------------------
(* Rows *)

AttemptStatus == {"running", "abandoned", "passed", "failed", "skipped"}

\* What the external runner can come back with.  "mismatched" claims to have
\* passed without exact evidence for every target, "failed" includes a runner
\* that threw.
Outcomes == IF ValidationMode = "manual"
            THEN {"skipped"}
            ELSE {"passed", "mismatched", "failed"}

\* retry_claim_token: a retry's token is fresh; it is the number of the
\* attempt it was handed out for.  The initial attempt has none.
NoToken == 0

NoRun == [status |-> "absent", version |-> None, requestedBy |-> None,
          bundle |-> None, attempts |-> <<>>, token |-> NoToken,
          claimedAt |-> 0, result |-> None]

NoReview == [status |-> "absent", version |-> None, author |-> None,
             notes |-> None, manifest |-> None, bundle |-> None,
             reviewer |-> None]

Idle == [pc |-> "idle", run |-> None, actor |-> None, token |-> NoToken,
         stamp |-> 0, result |-> None]

NoticeTypes == {"version_published", "version_delisted",
                "version_emergency_disabled"}

Running(v) == {i \in RunId : run[i].status = "running" /\ run[i].version = v}
Pending(v) == {i \in RunId : review[i].status = "pending" /\ review[i].version = v}

-----------------------------------------------------------------------------
(* Helpers of the transactions *)

\* GovernanceService.requireMaintainer.
MayMaintain(u) == u \in Maintainer \cup Admin

\* canReviewPackageSnapshot: any platform admin or reviewer.
CanReview(u) == u \in Admin \cup Reviewer

\* Seeded fault: the author is not recused.
MayDecideOwnWork(u, row) == CanReview(u)

\* decideReview: the author of the version never decides.
MayDecide(u, row) == u # row.author /\ CanReview(u)

\* retryValidation: the maintainer who asked for the run, or an admin.
MayRetry(u, row) == u \in Admin \/ (u = row.requestedBy /\ MayMaintain(u))

\* Seeded fault: a claim is given up one tick early.
ClaimExpiredEarly(row, at) == row.token # NoToken /\ at + 1 >= row.claimedAt + TTL

\* Seeded fault: a claim never expires.
ClaimNeverExpires(row, at) == FALSE

\* A claim is worth nothing from the tick it reaches its TTL on.
ClaimExpired(row, at) == row.token # NoToken /\ at >= row.claimedAt + TTL

\* Seeded fault: a completion that presents no token is not checked.
TokenMatchesIfAny(row, token) == token = NoToken \/ row.token = token

\* A completion must present the token of the run, and none if it has none.
TokenMatches(row, token) == row.token = token

\* Seeded fault: the runner's word is taken without the evidence.
ClaimsToHavePassed(result) == result \in {"passed", "mismatched"}

\* A passed result counts only with exact evidence for every target.
ExactlyPassed(result) == result = "passed"

Advances(result) == ExactlyPassed(result) \/ result = "skipped"

\* Seeded fault: the runner's own word is stored as the status of the run.
FinalStatusUnmapped(result) == result

\* The status that a run and its last attempt are closed with.
FinalStatus(result) ==
  IF result = "skipped" THEN "skipped"
  ELSE IF ExactlyPassed(result) THEN "passed" ELSE "failed"

\* Seeded fault: the open review survives the revision.
KeepPending(v) == review' = review

\* Every open review of version v is closed when its content changes.
SupersedePending(v) ==
  review' = [i \in RunId |->
    IF i \in Pending(v) THEN [review[i] EXCEPT !.status = "superseded"]
    ELSE review[i]]

\* appendObservability: one outbox event in the same transaction, its payload
\* carrying the new lifecycle.  The audit row written beside it is left out.
AppendEvent(v, type, state) ==
  log' = [log EXCEPT ![v] = [type |-> type, lifecycle |-> state]]

\* INSERT ... ON CONFLICT DO NOTHING of one notice per recipient.
Notify(recipients, type, v) ==
  notice' = [k \in User \X NoticeTypes \X Version |->
    IF /\ k[1] \in recipients /\ k[2] = type /\ k[3] = v
       /\ notice[k] = "none"
    THEN "unread" ELSE notice[k]]

\* Who installed some other version of the package, the author excepted.
OtherInstallers(v, author) ==
  {u \in User \ {author} : \E w \in Version \ {v} : <<u, w>> \in installs}

\* Seeded fault: the installers of the other versions.
InstallersOfOthers(v) == {u \in User : \E w \in Version \ {v} : <<u, w>> \in installs}

InstallersOf(v) == {u \in User : <<u, v>> \in installs}

-----------------------------------------------------------------------------
Init ==
  /\ lifecycle = [v \in Version |-> "draft"]
  /\ notes \in [Version -> Notes]
  /\ digest = [v \in Version |-> None]
  /\ manifest = [v \in Version |-> None]
  /\ bundle = [v \in Version |-> None]
  /\ run = [i \in RunId |-> NoRun]
  /\ review = [i \in RunId |-> NoReview]
  /\ log = [v \in Version |-> [type |-> "version.created",
                               lifecycle |-> "draft"]]
  /\ installs = {}
  /\ notice = [k \in User \X NoticeTypes \X Version |-> "none"]
  /\ delistings = [v \in Version |-> 0]
  /\ req = [q \in Request |-> Idle]
  /\ now = 0

-----------------------------------------------------------------------------
(* Content.  Both writers take the lock of the version's row. *)

\* Seeded fault: only a published version is protected.
EditableUnlessPublished(v) == lifecycle[v] # "published"

\* requireDraftVersionForUpdate, under the lock of the version's row.
Editable(v) == lifecycle[v] = "draft"

\* CatalogService's script target operations: each leaves the draft with
\* another complete or incomplete bundle.
EditScriptTargets(v, b) ==
  /\ Editable(v)
  /\ bundle' = [bundle EXCEPT ![v] = b]
  /\ UNCHANGED <<lifecycle, notes, digest, manifest, run, review, log,
                 noticeVars, req, now>>

\* PATCH of release notes and digest: a draft stays one, any other version
\* must be revisable and goes back to draft, closing its open review.  The
\* patch may leave either field as it is.
UpdateVersionContent(v, n, d) ==
  /\ \/ /\ lifecycle[v] = "draft"
        /\ AppendEvent(v, "version.updated", "draft")
        /\ UNCHANGED <<lifecycle, review>>
     \/ /\ Moves(lifecycle[v], "REVISE", "draft")
        /\ lifecycle' = [lifecycle EXCEPT ![v] = "draft"]
        /\ SupersedePending(v)
        /\ AppendEvent(v, "version.revised", "draft")
  /\ notes' = [notes EXCEPT ![v] = n]
  /\ digest' = [digest EXCEPT ![v] = d]
  /\ UNCHANGED <<manifest, bundle, run, noticeVars, req, now>>

ReviseVersion(u, v) ==
  /\ MayMaintain(u)
  /\ Moves(lifecycle[v], "REVISE", "draft")
  /\ lifecycle' = [lifecycle EXCEPT ![v] = "draft"]
  /\ SupersedePending(v)
  /\ AppendEvent(v, "version.revised", "draft")
  /\ UNCHANGED <<contentVars, run, noticeVars, req, now>>

-----------------------------------------------------------------------------
(* Validation *)

\* submitReview up to the runner: draft -> validating by compare-and-set,
\* with a run whose first attempt is running.  The unique index on running
\* runs of a version would abort the insert of a second one.
BeginValidation(q, u, v) ==
  /\ req[q].pc = "idle"
  /\ MayMaintain(u)
  /\ lifecycle[v] = "draft"
  /\ bundle[v] # None
  /\ Running(v) = {}
  /\ \E i \in RunId :
       /\ run[i] = NoRun
       /\ run' = [run EXCEPT ![i] =
            [status |-> "running", version |-> v, requestedBy |-> u,
             bundle |-> bundle[v], attempts |-> <<"running">>,
             token |-> NoToken, claimedAt |-> 0, result |-> None]]
       /\ req' = [req EXCEPT ![q] =
            [Idle EXCEPT !.pc = "validating", !.run = i, !.actor = u]]
  /\ lifecycle' = [lifecycle EXCEPT ![v] = "validating"]
  /\ digest' = [digest EXCEPT ![v] = bundle[v]]
  /\ manifest' = [manifest EXCEPT ![v] = bundle[v]]
  /\ AppendEvent(v, "version.validation_started",
                "validating")
  /\ UNCHANGED <<notes, bundle, review, noticeVars, now>>

\* retryValidation up to its transaction: find the run, check who asks, read
\* the clock.
LookupRetry(q, u, i) ==
  /\ req[q].pc = "idle"
  /\ run[i].status = "running"
  /\ MayRetry(u, run[i])
  /\ req' = [req EXCEPT ![q] =
       [Idle EXCEPT !.pc = "retrying", !.run = i, !.actor = u, !.stamp = now]]
  /\ UNCHANGED <<lifecycle, contentVars, run, review, log, noticeVars, now>>

\* claimValidationRetry accepts: nobody holds a live claim.
Claimable(row, at) ==
  /\ row.status = "running"
  /\ row.token = NoToken \/ ClaimExpired(row, at)
  /\ lifecycle[row.version] = "validating"

\* Seeded fault: the attempt in progress is left open.
ReattemptedOnly(attempts) == Append(attempts, "running")

\* The attempt in progress is given up and a new one is appended.
Reattempted(attempts) ==
  Append([n \in DOMAIN attempts |->
            IF n = Len(attempts) /\ attempts[n] = "running"
            THEN "abandoned" ELSE attempts[n]],
         "running")

ClaimRetry(q) ==
  LET i   == req[q].run
      row == run[i]
  IN /\ req[q].pc = "retrying"
     /\ \/ /\ Claimable(row, req[q].stamp)
           /\ run' = [run EXCEPT ![i].attempts  = Reattempted(row.attempts),
                                 ![i].token     = Len(row.attempts) + 1,
                                 ![i].claimedAt = req[q].stamp]
           /\ req' = [req EXCEPT ![q].pc = "validating",
                                 ![q].token = Len(row.attempts) + 1]
           /\ AppendEvent(row.version, "version.validation_retry_started",
                         lifecycle[row.version])
        \/ /\ ~Claimable(row, req[q].stamp)
           /\ req' = [req EXCEPT ![q] = Idle]
           /\ UNCHANGED <<run, log>>
     /\ UNCHANGED <<lifecycle, contentVars, review, noticeVars, now>>

\* The runner returns (or throws) and the handler reads the clock.
FinishRunner(q, result) ==
  /\ req[q].pc = "validating"
  /\ req' = [req EXCEPT ![q].pc = "completing", ![q].result = result,
                        ![q].stamp = now]
  /\ UNCHANGED <<lifecycle, contentVars, run, review, log, noticeVars, now>>

\* completeValidation accepts: the run is open, the claim is the current one
\* and still alive, the version and the last attempt are waiting for it.  The
\* unique index on pending reviews would abort the insert of a second one.
Completable(q) ==
  LET row == run[req[q].run]
  IN /\ row.status = "running"
     /\ TokenMatches(row, req[q].token)
     /\ ~ClaimExpired(row, req[q].stamp)
     /\ lifecycle[row.version] = "validating"
     /\ row.attempts[Len(row.attempts)] = "running"
     /\ Advances(req[q].result) => Pending(row.version) = {}

CloseRun(i, result) ==
  run' = [run EXCEPT ![i].status = FinalStatus(result),
                     ![i].attempts[Len(run[i].attempts)] = FinalStatus(result),
                     ![i].token = NoToken,
                     ![i].claimedAt = 0,
                     ![i].result = result]

\* A result that advances opens a review on a snapshot of the version.
OpenReview(i, v) ==
  review' = [review EXCEPT ![i] =
    [status |-> "pending", version |-> v, author |-> Author[v],
     notes |-> notes[v], manifest |-> manifest[v], bundle |-> bundle[v],
     reviewer |-> None]]

\* Seeded fault: the event is chosen before the evidence is compared.
LogCompletionUnchecked(v, result, state) ==
  AppendEvent(v,
    IF result = "failed" THEN "version.validation_failed"
                         ELSE "version.review_requested",
    state)

\* The event types tell only "passed" from the rest.
LogCompletion(v, result, state) ==
  AppendEvent(v,
    IF ExactlyPassed(result) THEN "version.review_requested"
                             ELSE "version.validation_failed",
    state)

Complete(i, result) ==
  LET v    == run[i].version
      next == IF Advances(result) THEN "review_required" ELSE "draft"
  IN /\ CloseRun(i, result)
     /\ lifecycle' = [lifecycle EXCEPT ![v] = next]
     /\ IF Advances(result) THEN OpenReview(i, v) ELSE UNCHANGED review
     /\ LogCompletion(v, result, next)

CompleteValidation(q) ==
  /\ req[q].pc = "completing"
  /\ \/ Completable(q) /\ Complete(req[q].run, req[q].result)
     \/ ~Completable(q) /\ UNCHANGED <<lifecycle, run, review, log>>
  /\ req' = [req EXCEPT ![q] = Idle]
  /\ UNCHANGED <<contentVars, noticeVars, now>>

\* The server goes down with the request; the database keeps what was
\* committed.  BOUND: no crash so late that the clock could not outlast a
\* claim made before it.
Crash(q) ==
  /\ req[q].pc # "idle"
  /\ now + TTL <= MaxTime
  /\ req' = [req EXCEPT ![q] = Idle]
  /\ UNCHANGED <<lifecycle, contentVars, run, review, log, noticeVars, now>>

-----------------------------------------------------------------------------
(* Review *)

\* Both decisions lock the review, then compare-and-set the version.
ApproveReview(u, i) ==
  LET v == review[i].version
  IN /\ review[i].status = "pending"
     /\ MayDecide(u, review[i])
     /\ lifecycle[v] = "review_required"
     /\ lifecycle' = [lifecycle EXCEPT ![v] = "published"]
     /\ digest' = [digest EXCEPT ![v] = review[i].manifest]
     /\ manifest' = [manifest EXCEPT ![v] = review[i].manifest]
     /\ review' = [review EXCEPT ![i].status = "approved", ![i].reviewer = u]
     /\ Notify(OtherInstallers(v, review[i].author), "version_published", v)
     /\ AppendEvent(v, "version.published", "published")
     /\ UNCHANGED <<notes, bundle, run, installs, delistings, req, now>>

RejectReview(u, i) ==
  LET v == review[i].version
  IN /\ review[i].status = "pending"
     /\ MayDecide(u, review[i])
     /\ lifecycle[v] = "review_required"
     /\ lifecycle' = [lifecycle EXCEPT ![v] = "draft"]
     /\ review' = [review EXCEPT ![i].status = "rejected", ![i].reviewer = u]
     /\ AppendEvent(v, "version.review_rejected",
                   "draft")
     /\ UNCHANGED <<contentVars, run, noticeVars, req, now>>

-----------------------------------------------------------------------------
(* Withdrawal *)

DeprecateVersion(u, v) ==
  /\ MayMaintain(u)
  /\ lifecycle[v] = "published"
  /\ lifecycle' = [lifecycle EXCEPT ![v] = "deprecated"]
  /\ AppendEvent(v, "version.deprecated", "deprecated")
  /\ UNCHANGED <<contentVars, run, review, noticeVars, req, now>>

\* delistVersion and emergencyDisableVersion: leave by the table, record the
\* withdrawal and notify the uids that installed the version.
Withdraw(v, event, to, type, outcome) ==
  /\ Moves(lifecycle[v], event, to)
  /\ lifecycle' = [lifecycle EXCEPT ![v] = to]
  /\ delistings' = [delistings EXCEPT ![v] = @ + 1]
  /\ Notify(InstallersOf(v), type, v)
  /\ AppendEvent(v, outcome, to)
  /\ UNCHANGED <<contentVars, run, review, installs, req, now>>

DelistVersion(u, v) ==
  MayMaintain(u) /\ Withdraw(v, "DELIST", "delisted", "version_delisted",
                             "version.delisted")

EmergencyDisableVersion(u, v) ==
  u \in Admin /\ Withdraw(v, "EMERGENCY_DISABLE", "emergency_disabled",
                          "version_emergency_disabled",
                          "version.emergency_disabled")

-----------------------------------------------------------------------------
(* Installers and the clock *)

\* A telemetry report of a known uid.  It is accepted for any version that
\* exists, whatever its lifecycle: reports may arrive late.
ReportInstallation(u, v) ==
  /\ installs' = installs \cup {<<u, v>>}
  /\ UNCHANGED <<lifecycle, contentVars, run, review, log, notice, delistings,
                 req, now>>

MarkNotificationRead(k) ==
  /\ notice[k] = "unread"
  /\ notice' = [notice EXCEPT ![k] = "read"]
  /\ UNCHANGED <<lifecycle, contentVars, run, review, log, installs,
                 delistings, req, now>>

Tick ==
  /\ now < MaxTime
  /\ now' = now + 1
  /\ UNCHANGED <<lifecycle, contentVars, run, review, log, noticeVars, req>>

-----------------------------------------------------------------------------
Next ==
  \/ \E v \in Version, b \in Bundle \cup {None} : EditScriptTargets(v, b)
  \/ \E v \in Version, n \in Notes : \E d \in Bundle \cup {digest[v]} :
       UpdateVersionContent(v, n, d)
  \/ \E u \in User, v \in Version : ReviseVersion(u, v)
  \/ \E q \in Request, u \in User, v \in Version : BeginValidation(q, u, v)
  \/ \E q \in Request, u \in User, i \in RunId : LookupRetry(q, u, i)
  \/ \E q \in Request : ClaimRetry(q)
  \/ \E q \in Request, result \in Outcomes : FinishRunner(q, result)
  \/ \E q \in Request : CompleteValidation(q)
  \/ \E q \in Request : Crash(q)
  \/ \E u \in User, i \in RunId : ApproveReview(u, i)
  \/ \E u \in User, i \in RunId : RejectReview(u, i)
  \/ \E u \in User, v \in Version : DeprecateVersion(u, v)
  \/ \E u \in User, v \in Version : DelistVersion(u, v)
  \/ \E u \in User, v \in Version : EmergencyDisableVersion(u, v)
  \/ \E u \in Installer, v \in Version : ReportInstallation(u, v)
  \/ \E k \in User \X NoticeTypes \X Version : MarkNotificationRead(k)
  \/ Tick

Spec == Init /\ [][Next]_vars

-----------------------------------------------------------------------------
(* Types *)

RunRow ==
  {row \in [status : {"absent", "running", "passed", "failed", "skipped"},
            version : Version \cup {None}, requestedBy : User \cup {None},
            bundle : Bundle \cup {None}, attempts : Seq(AttemptStatus),
            token : Nat, claimedAt : Nat, result : Outcomes \cup {None}] :
     row.status # "absent" => row.version \in Version}

ReviewRow ==
  {row \in [status : {"absent", "pending", "approved", "rejected", "superseded"},
            version : Version \cup {None}, author : User \cup {None},
            notes : Notes \cup {None}, manifest : Bundle \cup {None},
            bundle : Bundle \cup {None}, reviewer : User \cup {None}] :
     row.status # "absent" => row.version \in Version}

RequestState ==
  {row \in [pc : {"idle", "validating", "retrying", "completing"},
            run : RunId \cup {None}, actor : User \cup {None},
            token : Nat, stamp : Nat, result : Outcomes \cup {None}] :
     /\ row.pc # "idle" => row.run \in RunId
     /\ row.pc = "completing" => row.result \in Outcomes}

EventTypes ==
  { "version.created", "version.updated", "version.revised",
    "version.validation_started", "version.validation_retry_started",
    "version.validation_failed", "version.review_requested",
    "version.review_rejected", "version.published", "version.deprecated",
    "version.delisted", "version.emergency_disabled" }

EventRow == [type : EventTypes, lifecycle : Lifecycles]

TypeOK ==
  /\ lifecycle \in [Version -> Lifecycles]
  /\ notes \in [Version -> Notes]
  /\ digest \in [Version -> Bundle \cup {None}]
  /\ manifest \in [Version -> Bundle \cup {None}]
  /\ bundle \in [Version -> Bundle \cup {None}]
  /\ run \in [RunId -> RunRow]
  /\ review \in [RunId -> ReviewRow]
  /\ log \in [Version -> EventRow]
  /\ installs \subseteq Installer \X Version
  /\ notice \in [User \X NoticeTypes \X Version -> {"none", "unread", "read"}]
  /\ delistings \in [Version -> Nat]
  /\ req \in [Request -> RequestState]
  /\ now \in 0 .. MaxTime

-----------------------------------------------------------------------------
(* Safety *)

\* A version is validating exactly while one of its runs is open, and never
\* while two are: no retry, refused completion or revision leaves a run behind
\* that could close over a later submission (begin/claim/completeValidation).
OneOpenRun ==
  \A v \in Version :
    IF lifecycle[v] = "validating" THEN \E i \in RunId : Running(v) = {i}
                                   ELSE Running(v) = {}

\* A version waits for review exactly while one of its reviews is open: a
\* revision closes the review it outdates, so nobody can decide on content
\* that is no longer there (decideReview, reviseVersion, updateVersionContent).
OneOpenReview ==
  \A v \in Version :
    IF lifecycle[v] = "review_required" THEN \E i \in RunId : Pending(v) = {i}
                                        ELSE Pending(v) = {}

\* What a released version holds is what somebody other than its author,
\* allowed to review, approved: notes, script targets and both digests are
\* those of the snapshot of an approved review (completeValidation takes the
\* snapshot, decideReview approves it, nothing edits it in between).
ReviewedBeforeRelease ==
  \A v \in Version : lifecycle[v] \in Released =>
    \E i \in RunId :
      /\ review[i].status = "approved" /\ review[i].version = v
      /\ review[i].reviewer # Author[v] /\ CanReview(review[i].reviewer)
      /\ review[i].notes = notes[v]
      /\ review[i].bundle = bundle[v]
      /\ review[i].manifest = manifest[v] /\ digest[v] = manifest[v]

\* A version under review or released was validated with the script targets it
\* holds now, by a run that passed with exact evidence; only in manual mode
\* may the run have been skipped (completeValidation, hasExactPassedMatrix).
ValidatedBeforeRelease ==
  \A v \in Version : lifecycle[v] \in Released \cup {"review_required"} =>
    \E i \in RunId :
      /\ review[i].status \in {"pending", "approved"} /\ review[i].version = v
      /\ run[i].version = v /\ run[i].bundle = bundle[v]
      /\ manifest[v] = bundle[v]
      /\ run[i].result = IF ValidationMode = "manual" THEN "skipped"
                                                      ELSE "passed"

\* The attempts of a run tell its story: every attempt but the last was
\* abandoned, the last one has the status of the run, and the open run's claim
\* token is the one of the retry that is its last attempt (claimValidationRetry,
\* completeValidation).
AttemptsTellTheRun ==
  \A i \in RunId : run[i].status # "absent" =>
    LET last == Len(run[i].attempts)
    IN /\ last > 0
       /\ run[i].attempts[last] = run[i].status
       /\ \A n \in 1 .. last - 1 : run[i].attempts[n] = "abandoned"
       /\ run[i].token = IF run[i].status = "running" /\ last > 1
                         THEN last ELSE NoToken

\* The request q holds what it takes to close the open run i.
Owns(q, i) ==
  /\ req[q].pc \in {"validating", "completing"} /\ req[q].run = i
  /\ run[i].status = "running"
  /\ TokenMatches(run[i], req[q].token)

\* At most one request, of all that ever validated for a run, can still close
\* it (retryClaimToken: the original submission loses its right to the first
\* retry, a retry to the next).
OneOwner ==
  \A i \in RunId, p, q \in Request : Owns(p, i) /\ Owns(q, i) => p = q

\* <<type of the newest domain event of a version, its lifecycle>>
EventStates ==
  { <<"version.created",                  "draft">>,
    <<"version.updated",                  "draft">>,
    <<"version.revised",                  "draft">>,
    <<"version.validation_started",       "validating">>,
    <<"version.validation_retry_started", "validating">>,
    <<"version.validation_failed",        "draft">>,
    <<"version.review_requested",         "review_required">>,
    <<"version.review_rejected",          "draft">>,
    <<"version.published",                "published">>,
    <<"version.deprecated",               "deprecated">>,
    <<"version.delisted",                 "delisted">>,
    <<"version.emergency_disabled",       "emergency_disabled">> }

\* The outbox alone tells the lifecycle: the newest event of a version, by its
\* type and by its payload, says the state the version is in, whatever
\* transaction wrote either last (appendObservability in every transaction).
EventsTellLifecycle ==
  \A v \in Version : /\ log[v].lifecycle = lifecycle[v]
                     /\ <<log[v].type, lifecycle[v]>> \in EventStates

\* The design's table of the lifecycle: VALIDATION_FAILED leads to draft.  An
\* event of that name must not be the newest one of a version under review
\* (completeValidation in manual mode).
FailedMeansDraft ==
  \A v \in Version :
    log[v].type = "version.validation_failed" => lifecycle[v] = "draft"

\* Whoever submitted a version for review does not approve it (the comment of
\* canReviewPackageSnapshot; the code recuses the author of the version).
SubmitterRecused ==
  \A i \in RunId :
    review[i].status = "approved" => review[i].reviewer # run[i].requestedBy

\* Members of the package's owner team do not approve its versions (README;
\* the code asks only for the reviewer role).
OwnerTeamRecused ==
  \A i \in RunId :
    review[i].status = "approved" => review[i].reviewer \notin OwnerTeam

\* Somebody has approved content of version v.
WasApproved(v) ==
  \E i \in RunId : review[i].status = "approved" /\ review[i].version = v

\* A release notice exists only for a version that somebody approved, never for
\* the author of the version, and a withdrawal notice only for one withdrawn
\* that way, to somebody who installed it (notifyExistingInstallers,
\* delistVersion, emergencyDisableVersion).
NoticesHaveCause ==
  \A u \in User, v \in Version :
    /\ notice[<<u, "version_published", v>>] # "none" =>
         u # Author[v] /\ WasApproved(v)
    /\ notice[<<u, "version_delisted", v>>] # "none" =>
         /\ <<u, v>> \in installs
         /\ lifecycle[v] \in {"delisted", "emergency_disabled"}
    /\ notice[<<u, "version_emergency_disabled", v>>] # "none" =>
         <<u, v>> \in installs /\ lifecycle[v] = "emergency_disabled"

-----------------------------------------------------------------------------
(* Action properties *)

Closes(i) == run[i].status = "running" /\ run'[i].status # "running"

ClosedByItsLastAttempt(i) ==
  \E q \in Request :
    /\ req[q].pc = "completing" /\ req'[q].pc = "idle"
    /\ req[q].run = i /\ req[q].result = run'[i].result
    /\ req[q].token = IF Len(run[i].attempts) > 1
                      THEN Len(run[i].attempts) ELSE NoToken

\* A run is only ever closed by the request that works on its last attempt,
\* with the result that request brought: no answer of an abandoned attempt
\* that comes late is taken for the current one (completeValidation).
OnlyLastAttemptCloses ==
  [][\A i \in RunId : Closes(i) => ClosedByItsLastAttempt(i)]_vars

TakesOver(i) ==
  /\ run[i].token # NoToken /\ run'[i].status = "running"
  /\ run'[i].token # run[i].token

\* A retry that is still alive is not taken over: its token is only replaced
\* when it has been held for the whole TTL, the clock of the taker having been
\* read some time before its transaction (claimValidationRetry).
NoLiveClaimStolen ==
  [][\A i \in RunId : TakesOver(i) => now >= run[i].claimedAt + TTL]_vars

\* A withdrawal reaches everyone who had installed the version: each of them
\* has an unread notice of it in the step that withdraws it (delistVersion,
\* emergencyDisableVersion).
ReachesInstallers ==
  \A u \in User, v \in Version :
    lifecycle'[v] # lifecycle[v] /\ <<u, v>> \in installs =>
      /\ lifecycle'[v] = "delisted" =>
           notice'[<<u, "version_delisted", v>>] = "unread"
      /\ lifecycle'[v] = "emergency_disabled" =>
           notice'[<<u, "version_emergency_disabled", v>>] = "unread"

\* A notice that was read never comes back as unread, however often the version
\* is revised and published again (the unique key of user_notifications).
KeepsRead == \A k \in DOMAIN notice : notice[k] = "read" => notice'[k] = "read"

-----------------------------------------------------------------------------
(* Refinement *)

\* What a reviewer looks at and a download hands out, of version v.
ContentOf(v) == [notes    |-> notes[v],    digest |-> digest[v],
                 manifest |-> manifest[v], bundle |-> bundle[v]]

\* Content is frozen while somebody validates or reviews it.
Frozen == [v \in Version |->
  IF lifecycle[v] \in {"validating", "review_required"} THEN ContentOf(v)
                                                       ELSE None]

\* getDownload finds published versions only.
Served == [v \in Version |->
  IF lifecycle[v] = "published" THEN ContentOf(v) ELSE None]

PL == INSTANCE PublicationLifecycle WITH
        Content <- [notes : Notes, digest : Bundle, manifest : Bundle,
                    bundle : Bundle],
        frozen <- Frozen, served <- Served

\* The transactions, the runner between them and the crashes together move a
\* version along the table only, and publish exactly what was submitted: what
\* validation saw, the reviewer approved and downloads serve is one content.
ImplementsLifecycle == PL!Spec

-----------------------------------------------------------------------------
(* Liveness *)

\* What is under way goes on: the clock, the runners (they have timeouts of
\* their own), the transactions that follow them.  And somebody who may retry
\* an open run does so again and again.
Fairness ==
  /\ WF_vars(Tick)
  /\ \A q \in Request :
       /\ WF_vars(ClaimRetry(q))
       /\ WF_vars(\E result \in Outcomes : FinishRunner(q, result))
       /\ WF_vars(CompleteValidation(q))
  /\ \A i \in RunId :
       SF_vars(\E q \in Request, u \in User : LookupRetry(q, u, i))

FairSpec == Spec /\ Fairness

\* However often the server crashes and however late the runners answer, a
\* validation ends: a crashed attempt is taken over once its claim expires.
ValidationEnds ==
  \A v \in Version : (lifecycle[v] = "validating") ~> (lifecycle[v] # "validating")
=============================================================================
