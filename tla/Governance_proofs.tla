-------------------------- MODULE Governance_proofs --------------------------
(***************************************************************************)
(* Theorems about Governance, for every value of its constants.            *)
(***************************************************************************)
EXTENDS Governance, TLAPS

-----------------------------------------------------------------------------
(* The helpers keep the types of what they change *)

\* Giving up the attempt in progress and appending another yields one attempt
\* more, the last one running, and leaves only abandoned ones before it if all
\* but the last were (claimValidationRetry).
LEMMA ReattemptedAttempts ==
  ASSUME NEW attempts \in Seq(AttemptStatus)
  PROVE  /\ Reattempted(attempts) \in Seq(AttemptStatus)
         /\ Len(Reattempted(attempts)) = Len(attempts) + 1
         /\ Reattempted(attempts)[Len(attempts) + 1] = "running"
         /\ \A n \in 1 .. Len(attempts) :
              Reattempted(attempts)[n] =
                IF n = Len(attempts) /\ attempts[n] = "running"
                THEN "abandoned" ELSE attempts[n]
<1> DEFINE given == [n \in DOMAIN attempts |->
                      IF n = Len(attempts) /\ attempts[n] = "running"
                      THEN "abandoned" ELSE attempts[n]]
<1>1. given \in Seq(AttemptStatus) /\ Len(given) = Len(attempts)
  BY DEF AttemptStatus
<1>2. "running" \in AttemptStatus
  BY DEF AttemptStatus
<1>3. Reattempted(attempts) = Append(given, "running")
  BY DEF Reattempted
<1> HIDE DEF given
<1>4. /\ Append(given, "running") \in Seq(AttemptStatus)
      /\ Len(Append(given, "running")) = Len(attempts) + 1
      /\ Append(given, "running")[Len(attempts) + 1] = "running"
      /\ \A n \in 1 .. Len(attempts) : Append(given, "running")[n] = given[n]
  BY <1>1, <1>2
<1>5. \A n \in 1 .. Len(attempts) :
        given[n] = IF n = Len(attempts) /\ attempts[n] = "running"
                   THEN "abandoned" ELSE attempts[n]
  BY DEF given
<1> QED BY <1>3, <1>4, <1>5

\* Rewriting one attempt of a run keeps their number.
LEMMA RewrittenAttempts ==
  ASSUME NEW S, NEW attempts \in Seq(S), NEW n, NEW x \in S
  PROVE  /\ [attempts EXCEPT ![n] = x] \in Seq(S)
         /\ Len([attempts EXCEPT ![n] = x]) = Len(attempts)
<1> DEFINE rewritten == [attempts EXCEPT ![n] = x]
<1>1. /\ attempts \in [1 .. Len(attempts) -> S]
      /\ Len(attempts) \in Nat
  OBVIOUS
<1>2. rewritten \in [1 .. Len(attempts) -> S]
  BY <1>1
<1> HIDE DEF rewritten
<1>3. rewritten \in Seq(S) /\ Len(rewritten) = Len(attempts)
  BY <1>1, <1>2
<1> QED BY <1>3 DEF rewritten

\* Every final status is one of an attempt and one of a closed run.
LEMMA FinalStatusType ==
  ASSUME NEW result
  PROVE  FinalStatus(result) \in {"passed", "failed", "skipped"}
BY DEF FinalStatus

-----------------------------------------------------------------------------
(* Type correctness *)

\* Every event the transactions append is a row of the outbox.
LEMMA AppendEventType ==
  ASSUME NEW v \in Version, NEW type \in EventTypes, NEW state \in Lifecycles,
         log \in [Version -> EventRow],
         AppendEvent(v, type, state)
  PROVE  log' \in [Version -> EventRow]
BY DEF AppendEvent, EventRow

\* Closing the open reviews of a version leaves reviews.
LEMMA SupersedePendingType ==
  ASSUME NEW v \in Version, review \in [RunId -> ReviewRow], SupersedePending(v)
  PROVE  review' \in [RunId -> ReviewRow]
<1>1. \A i \in RunId : review[i].status = "pending" =>
        [review[i] EXCEPT !.status = "superseded"] \in ReviewRow
  BY DEF ReviewRow
<1> QED BY <1>1 DEF SupersedePending, Pending

\* Notifying leaves one status per recipient, type and version.
LEMMA NotifyType ==
  ASSUME NEW recipients, NEW type, NEW v,
         notice \in [User \X NoticeTypes \X Version -> {"none", "unread", "read"}],
         Notify(recipients, type, v)
  PROVE  notice' \in [User \X NoticeTypes \X Version -> {"none", "unread", "read"}]
BY DEF Notify

\* The steps of a request keep its type.
LEMMA RequestSteps ==
  /\ Idle \in RequestState
  /\ \A i \in RunId, u \in User :
       [Idle EXCEPT !.pc = "validating", !.run = i, !.actor = u] \in RequestState
  /\ \A i \in RunId, u \in User, n \in Nat :
       [Idle EXCEPT !.pc = "retrying", !.run = i, !.actor = u, !.stamp = n]
         \in RequestState
  /\ \A row \in RequestState, n \in Nat : row.pc # "idle" =>
       [row EXCEPT !.pc = "validating", !.token = n] \in RequestState
  /\ \A row \in RequestState, result \in Outcomes, n \in Nat : row.pc # "idle" =>
       [row EXCEPT !.pc = "completing", !.result = result, !.stamp = n]
         \in RequestState
BY DEF RequestState, Idle, NoToken

\* The steps of a validation run keep its type.
LEMMA RunSteps ==
  ASSUME NEW row \in RunRow, row.status # "absent"
  PROVE  /\ \A n, at \in Nat :
              [row EXCEPT !.attempts = Reattempted(row.attempts), !.token = n,
                          !.claimedAt = at] \in RunRow
         /\ \A status \in {"passed", "failed", "skipped"}, result \in Outcomes :
              [row EXCEPT !.status = status,
                          !.attempts[Len(row.attempts)] = status,
                          !.token = NoToken, !.claimedAt = 0, !.result = result]
                \in RunRow
<1>1. row.attempts \in Seq(AttemptStatus)
  BY DEF RunRow
<1>2. Reattempted(row.attempts) \in Seq(AttemptStatus)
  BY <1>1, ReattemptedAttempts
<1>3. \A status \in {"passed", "failed", "skipped"} :
        [row.attempts EXCEPT ![Len(row.attempts)] = status] \in Seq(AttemptStatus)
  <2>1. {"passed", "failed", "skipped"} \subseteq AttemptStatus
    BY DEF AttemptStatus
  <2> QED BY <1>1, <2>1, RewrittenAttempts
<1>4. ASSUME NEW n \in Nat, NEW at \in Nat
      PROVE  [row EXCEPT !.attempts = Reattempted(row.attempts), !.token = n,
                         !.claimedAt = at] \in RunRow
  BY <1>2 DEF RunRow
<1>5. ASSUME NEW status \in {"passed", "failed", "skipped"},
             NEW result \in Outcomes
      PROVE  [row EXCEPT !.status = status,
                         !.attempts[Len(row.attempts)] = status,
                         !.token = NoToken, !.claimedAt = 0, !.result = result]
               \in RunRow
  BY <1>3 DEF RunRow, NoToken
<1> QED BY <1>4, <1>5

\* A withdrawal keeps the type of everything it changes.
LEMMA WithdrawType ==
  ASSUME TypeOK, NEW v \in Version, NEW event, NEW to \in Lifecycles, NEW type,
         NEW outcome \in EventTypes, Withdraw(v, event, to, type, outcome)
  PROVE  TypeOK'
<1>1. log' \in [Version -> EventRow]
  BY AppendEventType DEF Withdraw, TypeOK
<1>2. notice' \in [User \X NoticeTypes \X Version -> {"none", "unread", "read"}]
  BY NotifyType DEF Withdraw, TypeOK
<1>3. /\ lifecycle' \in [Version -> Lifecycles]
      /\ delistings' \in [Version -> Nat]
  BY DEF Withdraw, TypeOK
<1> QED BY <1>1, <1>2, <1>3 DEF Withdraw, TypeOK, contentVars

\* So does the acceptance of a result.
LEMMA CompleteType ==
  ASSUME TypeOK, NEW i \in RunId, NEW result \in Outcomes,
         run[i].status = "running", Complete(i, result)
  PROVE  /\ lifecycle' \in [Version -> Lifecycles]
         /\ run' \in [RunId -> RunRow]
         /\ review' \in [RunId -> ReviewRow]
         /\ log' \in [Version -> EventRow]
<1> DEFINE v == run[i].version
           next == IF Advances(result) THEN "review_required" ELSE "draft"
<1>1. /\ run[i] \in RunRow /\ v \in Version
      /\ next \in Lifecycles
  BY DEF TypeOK, RunRow, Lifecycles
<1>2. lifecycle' = [lifecycle EXCEPT ![v] = next]
  BY DEF Complete
<1>3. run' \in [RunId -> RunRow]
  BY <1>1, RunSteps, FinalStatusType DEF Complete, CloseRun, TypeOK
<1>4. review' \in [RunId -> ReviewRow]
  <2>1. /\ v \in Version /\ Author[v] \in User /\ notes[v] \in Notes
        /\ manifest[v] \in Bundle \cup {None} /\ bundle[v] \in Bundle \cup {None}
    BY <1>1, GovernanceAssumption DEF TypeOK
  <2> HIDE DEF v
  <2>2. OpenReview(i, v) => review' \in [RunId -> ReviewRow]
    BY <2>1 DEF OpenReview, TypeOK, ReviewRow
  <2>3. OpenReview(i, v) \/ UNCHANGED review
    BY DEF Complete, v
  <2> QED BY <2>2, <2>3 DEF TypeOK
<1>5. log' \in [Version -> EventRow]
  <2> DEFINE type == IF ExactlyPassed(result) THEN "version.review_requested"
                                              ELSE "version.validation_failed"
  <2>1. type \in EventTypes
    BY DEF EventTypes
  <2>2. AppendEvent(v, type, next)
    BY DEF Complete, LogCompletion
  <2> HIDE DEF v, next, type
  <2> QED BY <1>1, <2>1, <2>2, AppendEventType DEF TypeOK
<1> QED BY <1>1, <1>2, <1>3, <1>4, <1>5 DEF TypeOK

\* What a submission does that finds a draft, with the script targets b:
\* beginValidation of either repository.
Submits(q, u, v, b) ==
  /\ lifecycle[v] = "draft"
  /\ \E i \in RunId :
       /\ run[i] = NoRun
       /\ run' = [run EXCEPT ![i] =
            [status |-> "running", version |-> v, requestedBy |-> u,
             bundle |-> b, attempts |-> <<"running">>,
             token |-> NoToken, claimedAt |-> 0, result |-> None]]
       /\ req' = [req EXCEPT ![q] =
            [Idle EXCEPT !.pc = "validating", !.run = i, !.actor = u]]
  /\ lifecycle' = [lifecycle EXCEPT ![v] = "validating"]
  /\ digest' = [digest EXCEPT ![v] = b]
  /\ manifest' = [manifest EXCEPT ![v] = b]
  /\ AppendEvent(v, "version.validation_started", "validating")
  /\ UNCHANGED <<notes, bundle, review, noticeVars, now>>

\* The transaction of Postgres takes the script targets that the version has.
LEMMA BeginSubmits ==
  ASSUME TypeOK, NEW q \in Request, NEW u \in User, NEW v \in Version,
         BeginValidation(q, u, v)
  PROVE  bundle[v] \in Bundle /\ Submits(q, u, v, bundle[v])
BY DEF BeginValidation, Submits, TypeOK

\* A submission keeps the types.
LEMMA SubmitsType ==
  ASSUME TypeOK, NEW q \in Request, NEW u \in User, NEW v \in Version, NEW b \in Bundle,
         Submits(q, u, v, b)
  PROVE  TypeOK'
<1>1. PICK i \in RunId :
        /\ run' = [run EXCEPT ![i] =
             [status |-> "running", version |-> v, requestedBy |-> u,
              bundle |-> b, attempts |-> <<"running">>,
              token |-> NoToken, claimedAt |-> 0, result |-> None]]
        /\ req' = [req EXCEPT ![q] =
             [Idle EXCEPT !.pc = "validating", !.run = i, !.actor = u]]
  BY DEF Submits
<1>2. run' \in [RunId -> RunRow]
  <2>1. <<"running">> \in Seq(AttemptStatus)
    BY DEF AttemptStatus
  <2> QED BY <1>1, <2>1 DEF TypeOK, RunRow, NoToken
<1>3. req' \in [Request -> RequestState]
  BY <1>1, RequestSteps DEF TypeOK
<1>4. /\ digest' \in [Version -> Bundle \cup {None}]
      /\ manifest' \in [Version -> Bundle \cup {None}]
  BY DEF Submits, TypeOK
<1>5. log' \in [Version -> EventRow]
  BY AppendEventType DEF Submits, TypeOK, Lifecycles, EventTypes
<1>6. lifecycle' \in [Version -> Lifecycles]
  BY DEF Submits, TypeOK, Lifecycles
<1> QED BY <1>2, <1>3, <1>4, <1>5, <1>6 DEF Submits, TypeOK, noticeVars

\* The tables start out with their types.
LEMMA InitType == Init => TypeOK
<1> SUFFICES ASSUME Init PROVE TypeOK
  OBVIOUS
<1> USE GovernanceAssumption DEF Init
<1>1. NoRun \in RunRow
  BY DEF NoRun, RunRow, NoToken
<1>2. NoReview \in ReviewRow
  BY DEF NoReview, ReviewRow
<1>3. Idle \in RequestState
  BY DEF Idle, RequestState, NoToken
<1>4. "draft" \in Lifecycles /\ "version.created" \in EventTypes
  BY DEF Lifecycles, EventTypes
<1> QED BY <1>1, <1>2, <1>3, <1>4 DEF TypeOK, EventRow

\* Every transaction, and every step of a request, keeps the types.
LEMMA NextType == TypeOK /\ [Next]_vars => TypeOK'
<1> SUFFICES ASSUME TypeOK, [Next]_vars PROVE TypeOK'
  OBVIOUS
<1> USE GovernanceAssumption
<1>1. ASSUME NEW v \in Version, NEW b \in Bundle \cup {None},
             EditScriptTargets(v, b)
      PROVE  TypeOK'
  BY <1>1 DEF EditScriptTargets, TypeOK, noticeVars
<1>2. ASSUME NEW v \in Version, NEW n \in Notes,
             NEW d \in Bundle \cup {digest[v]},
             UpdateVersionContent(v, n, d)
      PROVE  TypeOK'
  <2>1. digest' \in [Version -> Bundle \cup {None}]
    BY <1>2 DEF UpdateVersionContent, TypeOK
  <2>2. lifecycle' \in [Version -> Lifecycles]
    BY <1>2 DEF UpdateVersionContent, TypeOK, Lifecycles
  <2>3. review' \in [RunId -> ReviewRow]
    BY <1>2, SupersedePendingType DEF UpdateVersionContent, TypeOK
  <2>4. log' \in [Version -> EventRow]
    BY <1>2, AppendEventType
       DEF UpdateVersionContent, TypeOK, Lifecycles, EventTypes
  <2> QED BY <1>2, <2>1, <2>2, <2>3, <2>4
          DEF UpdateVersionContent, TypeOK, noticeVars
<1>3. ASSUME NEW u \in User, NEW v \in Version, ReviseVersion(u, v)
      PROVE  TypeOK'
  <2>1. review' \in [RunId -> ReviewRow]
    BY <1>3, SupersedePendingType DEF ReviseVersion, TypeOK
  <2>2. log' \in [Version -> EventRow]
    BY <1>3, AppendEventType DEF ReviseVersion, TypeOK, Lifecycles, EventTypes
  <2> QED BY <1>3, <2>1, <2>2
          DEF ReviseVersion, TypeOK, noticeVars, contentVars, Lifecycles
<1>4. ASSUME NEW q \in Request, NEW u \in User, NEW v \in Version,
             BeginValidation(q, u, v)
      PROVE  TypeOK'
  BY <1>4, BeginSubmits, SubmitsType
<1>5. ASSUME NEW q \in Request, NEW u \in User, NEW i \in RunId,
             LookupRetry(q, u, i)
      PROVE  TypeOK'
  <2> now \in Nat
    BY DEF TypeOK
  <2>1. req' \in [Request -> RequestState]
    BY <1>5, RequestSteps DEF LookupRetry, TypeOK
  <2> QED BY <1>5, <2>1 DEF LookupRetry, TypeOK, contentVars, noticeVars
<1>6. ASSUME NEW q \in Request, ClaimRetry(q)
      PROVE  TypeOK'
  <2> DEFINE i == req[q].run
             row == run[i]
  <2>1. CASE /\ Claimable(row, req[q].stamp)
             /\ run' = [run EXCEPT ![i].attempts  = Reattempted(row.attempts),
                                   ![i].token     = Len(row.attempts) + 1,
                                   ![i].claimedAt = req[q].stamp]
             /\ req' = [req EXCEPT ![q].pc = "validating",
                                   ![q].token = Len(row.attempts) + 1]
             /\ AppendEvent(row.version, "version.validation_retry_started",
                            lifecycle[row.version])
    <3>1. /\ req[q] \in RequestState /\ req[q].pc = "retrying"
          /\ i \in RunId /\ req[q].stamp \in Nat
      BY <1>6 DEF ClaimRetry, TypeOK, RequestState
    <3>2. /\ row \in RunRow /\ row.status = "running" /\ row.version \in Version
          /\ lifecycle[row.version] \in Lifecycles
      BY <2>1, <3>1 DEF Claimable, TypeOK, RunRow
    <3>3. Len(row.attempts) + 1 \in Nat
      BY <3>2 DEF RunRow
    <3> HIDE DEF i, row
    <3>4. run' \in [RunId -> RunRow]
      BY <2>1, <3>1, <3>2, <3>3, RunSteps DEF TypeOK, row
    <3>5. req' \in [Request -> RequestState]
      BY <2>1, <3>1, <3>3, RequestSteps DEF TypeOK
    <3>6. log' \in [Version -> EventRow]
      BY <2>1, <3>2, AppendEventType DEF TypeOK, EventTypes
    <3> QED BY <1>6, <3>4, <3>5, <3>6
            DEF ClaimRetry, TypeOK, contentVars, noticeVars
  <2>2. CASE req' = [req EXCEPT ![q] = Idle] /\ UNCHANGED <<run, log>>
    <3>1. req' \in [Request -> RequestState]
      BY <2>2, RequestSteps DEF TypeOK
    <3> QED BY <1>6, <2>2, <3>1 DEF ClaimRetry, TypeOK, contentVars, noticeVars
  <2> QED BY <1>6, <2>1, <2>2 DEF ClaimRetry
<1>7. ASSUME NEW q \in Request, NEW result \in Outcomes,
             FinishRunner(q, result)
      PROVE  TypeOK'
  <2> now \in Nat
    BY DEF TypeOK
  <2>1. req' \in [Request -> RequestState]
    BY <1>7, RequestSteps DEF FinishRunner, TypeOK
  <2> QED BY <1>7, <2>1 DEF FinishRunner, TypeOK, contentVars, noticeVars
<1>8. ASSUME NEW q \in Request, CompleteValidation(q)
      PROVE  TypeOK'
  <2>1. req' \in [Request -> RequestState]
    BY <1>8, RequestSteps DEF CompleteValidation, TypeOK
  <2>2. CASE Completable(q) /\ Complete(req[q].run, req[q].result)
    <3>1. /\ req[q].run \in RunId /\ req[q].result \in Outcomes
          /\ run[req[q].run].status = "running"
      BY <1>8, <2>2 DEF CompleteValidation, Completable, TypeOK, RequestState
    <3>2. /\ lifecycle' \in [Version -> Lifecycles]
          /\ run' \in [RunId -> RunRow]
          /\ review' \in [RunId -> ReviewRow]
          /\ log' \in [Version -> EventRow]
      BY <2>2, <3>1, CompleteType
    <3> QED BY <1>8, <2>1, <3>2
            DEF CompleteValidation, TypeOK, contentVars, noticeVars
  <2>3. CASE UNCHANGED <<lifecycle, run, review, log>>
    BY <1>8, <2>1, <2>3 DEF CompleteValidation, TypeOK, contentVars, noticeVars
  <2> QED BY <1>8, <2>2, <2>3 DEF CompleteValidation
<1>9. ASSUME NEW q \in Request, Crash(q)
      PROVE  TypeOK'
  <2>1. req' \in [Request -> RequestState]
    BY <1>9, RequestSteps DEF Crash, TypeOK
  <2> QED BY <1>9, <2>1 DEF Crash, TypeOK, contentVars, noticeVars
<1>10. ASSUME NEW u \in User, NEW i \in RunId, ApproveReview(u, i)
       PROVE  TypeOK'
  <2> DEFINE v == review[i].version
  <2>1. review[i] \in ReviewRow /\ v \in Version \cup {None}
    BY DEF TypeOK, ReviewRow
  <2>2. lifecycle' \in [Version -> Lifecycles]
    BY <1>10 DEF ApproveReview, TypeOK, Lifecycles
  <2>3. /\ digest' \in [Version -> Bundle \cup {None}]
        /\ manifest' \in [Version -> Bundle \cup {None}]
    BY <1>10, <2>1 DEF ApproveReview, TypeOK, ReviewRow
  <2>4. review' \in [RunId -> ReviewRow]
    BY <1>10, <2>1 DEF ApproveReview, TypeOK, ReviewRow
  <2>5. notice' \in [User \X NoticeTypes \X Version -> {"none", "unread", "read"}]
    BY <1>10, NotifyType DEF ApproveReview, TypeOK
  <2>6. log' \in [Version -> EventRow]
    BY <1>10 DEF ApproveReview, AppendEvent, TypeOK, EventRow, Lifecycles,
                 EventTypes
  <2> QED BY <1>10, <2>2, <2>3, <2>4, <2>5, <2>6 DEF ApproveReview, TypeOK
<1>11. ASSUME NEW u \in User, NEW i \in RunId, RejectReview(u, i)
       PROVE  TypeOK'
  <2>1. review[i] \in ReviewRow
    BY DEF TypeOK
  <2>2. lifecycle' \in [Version -> Lifecycles]
    BY <1>11 DEF RejectReview, TypeOK, Lifecycles
  <2>3. review' \in [RunId -> ReviewRow]
    BY ZenonT(30), <1>11, <2>1 DEF RejectReview, TypeOK, ReviewRow
  <2>4. log' \in [Version -> EventRow]
    BY <1>11 DEF RejectReview, AppendEvent, TypeOK, EventRow, Lifecycles,
                 EventTypes
  <2> QED BY <1>11, <2>2, <2>3, <2>4
          DEF RejectReview, TypeOK, contentVars, noticeVars
<1>12. ASSUME NEW u \in User, NEW v \in Version, DeprecateVersion(u, v)
       PROVE  TypeOK'
  <2>1. log' \in [Version -> EventRow]
    BY <1>12, AppendEventType
       DEF DeprecateVersion, TypeOK, Lifecycles, EventTypes
  <2> QED BY <1>12, <2>1
          DEF DeprecateVersion, TypeOK, contentVars, noticeVars, Lifecycles
<1>13. ASSUME NEW u \in User, NEW v \in Version, DelistVersion(u, v)
       PROVE  TypeOK'
  <2>1. "delisted" \in Lifecycles /\ "version.delisted" \in EventTypes
    BY DEF Lifecycles, EventTypes
  <2> QED BY <1>13, <2>1, WithdrawType DEF DelistVersion
<1>14. ASSUME NEW u \in User, NEW v \in Version, EmergencyDisableVersion(u, v)
       PROVE  TypeOK'
  <2>1. "emergency_disabled" \in Lifecycles /\ "version.emergency_disabled" \in EventTypes
    BY DEF Lifecycles, EventTypes
  <2> QED BY <1>14, <2>1, WithdrawType DEF EmergencyDisableVersion
<1>15. ASSUME NEW u \in Installer, NEW v \in Version, ReportInstallation(u, v)
       PROVE  TypeOK'
  BY <1>15 DEF ReportInstallation, TypeOK, contentVars
<1>16. ASSUME NEW k \in User \X NoticeTypes \X Version, MarkNotificationRead(k)
       PROVE  TypeOK'
  BY <1>16 DEF MarkNotificationRead, TypeOK, contentVars
<1>17. CASE Tick
  BY <1>17 DEF Tick, TypeOK, contentVars, noticeVars
<1>18. CASE UNCHANGED vars
  BY <1>18 DEF vars, TypeOK, contentVars, noticeVars
<1> QED BY <1>1, <1>2, <1>3, <1>4, <1>5, <1>6, <1>7, <1>8, <1>9, <1>10, <1>11,
           <1>12, <1>13, <1>14, <1>15, <1>16, <1>17, <1>18 DEF Next

\* Every table keeps its type: rows that are not absent belong to a version, a
\* request under way to a run, whatever transactions commit in whatever order.
THEOREM TypeCorrect == Spec => []TypeOK
<1>1. Init => TypeOK
  BY InitType
<1>2. TypeOK /\ [Next]_vars => TypeOK'
  BY NextType
<1> QED BY <1>1, <1>2, PTL DEF Spec

-----------------------------------------------------------------------------
(* What the two transactions on runs do to the rows *)

\* Closing a run rewrites its status and its last attempt, takes its token and
\* leaves every other run alone (completeValidation).
LEMMA CloseRunEffect ==
  ASSUME run \in [RunId -> RunRow], NEW i \in RunId, NEW result,
         CloseRun(i, result)
  PROVE  /\ \A j \in RunId \ {i} : run'[j] = run[j]
         /\ run'[i].status = FinalStatus(result)
         /\ run'[i].version = run[i].version
         /\ run'[i].bundle = run[i].bundle
         /\ run'[i].attempts =
              [run[i].attempts EXCEPT ![Len(run[i].attempts)] = FinalStatus(result)]
         /\ run'[i].token = NoToken
         /\ run'[i].result = result
BY DEF CloseRun, RunRow

\* A retry's claim is either refused, and only the request changes, or it adds
\* an attempt to the open run and hands out the number of that attempt.
LEMMA ClaimRetryEffect ==
  ASSUME TypeOK, NEW q \in Request, ClaimRetry(q)
  PROVE  /\ \A i \in RunId : /\ run'[i].status = run[i].status
                             /\ run'[i].version = run[i].version
                             /\ run'[i].bundle = run[i].bundle
                             /\ run'[i].result = run[i].result
         /\ \A p \in Request \ {q} : req'[p] = req[p]
         /\ \/ UNCHANGED run /\ req'[q] = Idle
            \/ LET i == req[q].run
               IN /\ i \in RunId /\ run[i].status = "running"
                  /\ Claimable(run[i], req[q].stamp)
                  /\ \A j \in RunId \ {i} : run'[j] = run[j]
                  /\ run'[i].attempts = Reattempted(run[i].attempts)
                  /\ run'[i].token = Len(run[i].attempts) + 1
                  /\ req'[q].pc = "validating" /\ req'[q].run = i
                  /\ req'[q].token = Len(run[i].attempts) + 1
<1>1. /\ req[q] \in RequestState /\ req[q].pc = "retrying"
      /\ req[q].run \in RunId /\ run[req[q].run] \in RunRow
  BY DEF ClaimRetry, TypeOK, RequestState
<1>2. PICK i \in RunId : i = req[q].run
  BY <1>1
<1>3. CASE /\ Claimable(run[i], req[q].stamp)
           /\ run' = [run EXCEPT ![i].attempts  = Reattempted(run[i].attempts),
                                 ![i].token     = Len(run[i].attempts) + 1,
                                 ![i].claimedAt = req[q].stamp]
           /\ req' = [req EXCEPT ![q].pc = "validating",
                                 ![q].token = Len(run[i].attempts) + 1]
  <2>1. /\ \A j \in RunId \ {i} : run'[j] = run[j]
        /\ run'[i].attempts = Reattempted(run[i].attempts)
        /\ run'[i].token = Len(run[i].attempts) + 1
        /\ run'[i].status = run[i].status /\ run'[i].version = run[i].version
        /\ run'[i].bundle = run[i].bundle /\ run'[i].result = run[i].result
    BY <1>1, <1>2, <1>3 DEF TypeOK, RunRow
  <2>2. /\ req'[q].pc = "validating" /\ req'[q].run = i
        /\ req'[q].token = Len(run[i].attempts) + 1
        /\ \A p \in Request \ {q} : req'[p] = req[p]
    BY <1>1, <1>2, <1>3 DEF TypeOK, RequestState
  <2>3. run[i].status = "running"
    BY <1>3 DEF Claimable
  <2> QED BY <1>2, <1>3, <2>1, <2>2, <2>3
<1>4. CASE req' = [req EXCEPT ![q] = Idle] /\ UNCHANGED <<run, log>>
  BY <1>4 DEF TypeOK
<1> QED BY <1>2, <1>3, <1>4 DEF ClaimRetry

-----------------------------------------------------------------------------
(* One open run per validating version *)

\* Revisions and withdrawals neither begin nor end at validation.
LEMMA MovesFromReviewable ==
  ASSUME NEW from, NEW to, NEW event \in {"REVISE", "DELIST", "EMERGENCY_DISABLE"},
         Moves(from, event, to)
  PROVE  /\ from \in {"review_required", "published", "deprecated", "delisted"}
         /\ to \in {"draft", "delisted", "emergency_disabled"}
BY DEF Moves, Transitions

\* A step that opens and closes no run and moves no version into or out of
\* validation leaves the correspondence between the two alone.
LEMMA SameOpenRuns ==
  ASSUME OneOpenRun,
         \A i \in RunId : run'[i].status = run[i].status
                          /\ run'[i].version = run[i].version,
         \A v \in Version : lifecycle'[v] = "validating" <=> lifecycle[v] = "validating"
  PROVE  OneOpenRun'
<1>1. ASSUME NEW v \in Version PROVE Running(v)' = Running(v)
  BY DEF Running
<1> QED BY <1>1 DEF OneOpenRun

\* A submission takes a draft, which has no open run, and opens one.
LEMMA SubmitsKeepsOneOpenRun ==
  ASSUME TypeOK, OneOpenRun,
         NEW q \in Request, NEW u \in User, NEW v \in Version, NEW b,
         Submits(q, u, v, b)
  PROVE  OneOpenRun'
<1>1. PICK i \in RunId :
        /\ run[i] = NoRun
        /\ run' = [run EXCEPT ![i] =
             [status |-> "running", version |-> v, requestedBy |-> u,
              bundle |-> b, attempts |-> <<"running">>,
              token |-> NoToken, claimedAt |-> 0, result |-> None]]
  BY DEF Submits
<1>2. run[i].status = "absent"
  BY <1>1 DEF NoRun
<1>3. /\ run'[i].status = "running" /\ run'[i].version = v
      /\ \A j \in RunId \ {i} : run'[j] = run[j]
  BY <1>1 DEF TypeOK
<1>4. /\ lifecycle[v] = "draft" /\ lifecycle'[v] = "validating"
      /\ \A w \in Version \ {v} : lifecycle'[w] = lifecycle[w]
  BY DEF Submits, TypeOK
<1>5. Running(v)' = {i}
  <2>1. Running(v) = {}
    BY <1>4 DEF OneOpenRun
  <2> QED BY <1>3, <2>1 DEF Running
<1>6. \A w \in Version \ {v} : Running(w)' = Running(w)
  BY <1>2, <1>3 DEF Running
<1> QED BY <1>4, <1>5, <1>6 DEF OneOpenRun

\* A result that is accepted closes the one open run and ends the validation.
LEMMA ClosingKeepsOneOpenRun ==
  ASSUME TypeOK, OneOpenRun, NEW i \in RunId, NEW to, to # "validating",
         run[i].status = "running", run'[i].status # "running",
         \A j \in RunId \ {i} : run'[j] = run[j],
         lifecycle' = [lifecycle EXCEPT ![run[i].version] = to]
  PROVE  OneOpenRun'
<1>1. PICK v \in Version : run[i].version = v
  BY DEF TypeOK, RunRow
<1>2. /\ lifecycle'[v] # "validating"
      /\ \A w \in Version \ {v} : lifecycle'[w] = lifecycle[w]
  BY <1>1 DEF TypeOK
<1>3. Running(v) = {i}
  BY <1>1 DEF OneOpenRun, Running
<1>4. Running(v)' = {}
  <2>1. \A j \in RunId \ {i} : ~(run[j].status = "running" /\ run[j].version = v)
    BY <1>3 DEF Running
  <2> QED BY <2>1 DEF Running
<1>5. \A w \in Version \ {v} : Running(w)' = Running(w)
  <2>1. \A w \in Version \ {v} : i \notin Running(w) /\ i \notin Running(w)'
    BY <1>1 DEF Running
  <2> QED BY <2>1 DEF Running
<1> QED BY <1>2, <1>4, <1>5 DEF OneOpenRun

\* Every step keeps one open run per validating version, and none elsewhere.
LEMMA NextOneOpenRun == TypeOK /\ OneOpenRun /\ [Next]_vars => OneOpenRun'
<1> SUFFICES ASSUME TypeOK, OneOpenRun, [Next]_vars PROVE OneOpenRun'
  OBVIOUS
<1>1. ASSUME NEW v \in Version, NEW b \in Bundle \cup {None},
             EditScriptTargets(v, b)
      PROVE  OneOpenRun'
  BY <1>1, SameOpenRuns DEF EditScriptTargets
<1>2. ASSUME NEW v \in Version, NEW n \in Notes,
             NEW d \in Bundle \cup {digest[v]}, UpdateVersionContent(v, n, d)
      PROVE  OneOpenRun'
  <2>1. \A w \in Version : lifecycle'[w] = "validating" <=> lifecycle[w] = "validating"
    BY <1>2, MovesFromReviewable DEF UpdateVersionContent, TypeOK
  <2> QED BY <1>2, <2>1, SameOpenRuns DEF UpdateVersionContent
<1>3. ASSUME NEW u \in User, NEW v \in Version, ReviseVersion(u, v)
      PROVE  OneOpenRun'
  <2>1. \A w \in Version : lifecycle'[w] = "validating" <=> lifecycle[w] = "validating"
    BY <1>3, MovesFromReviewable DEF ReviseVersion, TypeOK
  <2> QED BY <1>3, <2>1, SameOpenRuns DEF ReviseVersion
<1>4. ASSUME NEW q \in Request, NEW u \in User, NEW v \in Version,
             BeginValidation(q, u, v)
      PROVE  OneOpenRun'
  BY <1>4, BeginSubmits, SubmitsKeepsOneOpenRun
<1>5. ASSUME NEW q \in Request, NEW u \in User, NEW i \in RunId,
             LookupRetry(q, u, i)
      PROVE  OneOpenRun'
  BY <1>5, SameOpenRuns DEF LookupRetry
<1>6. ASSUME NEW q \in Request, ClaimRetry(q)
      PROVE  OneOpenRun'
  <2>1. \A i \in RunId : run'[i].status = run[i].status
                         /\ run'[i].version = run[i].version
    BY <1>6, ClaimRetryEffect DEF TypeOK
  <2> QED BY <1>6, <2>1, SameOpenRuns DEF ClaimRetry
<1>7. ASSUME NEW q \in Request, NEW result \in Outcomes, FinishRunner(q, result)
      PROVE  OneOpenRun'
  BY <1>7, SameOpenRuns DEF FinishRunner
<1>8. ASSUME NEW q \in Request, CompleteValidation(q)
      PROVE  OneOpenRun'
  <2>1. CASE Completable(q) /\ Complete(req[q].run, req[q].result)
    <3>1. req[q].run \in RunId /\ run[req[q].run].status = "running"
      BY <1>8, <2>1 DEF CompleteValidation, Completable, TypeOK, RequestState
    <3>2. PICK i \in RunId : i = req[q].run
      BY <3>1
    <3>3. /\ run'[i].status # "running"
          /\ \A j \in RunId \ {i} : run'[j] = run[j]
      BY <2>1, <3>2, CloseRunEffect, FinalStatusType DEF Complete, TypeOK
    <3>4. \E to \in {"review_required", "draft"} :
            lifecycle' = [lifecycle EXCEPT ![run[i].version] = to]
      BY <2>1, <3>2 DEF Complete
    <3> QED BY <3>1, <3>2, <3>3, <3>4, ClosingKeepsOneOpenRun
  <2>2. CASE UNCHANGED <<lifecycle, run, review, log>>
    BY <2>2, SameOpenRuns
  <2> QED BY <1>8, <2>1, <2>2 DEF CompleteValidation
<1>9. ASSUME NEW q \in Request, Crash(q)
      PROVE  OneOpenRun'
  BY <1>9, SameOpenRuns DEF Crash
<1>10. ASSUME NEW u \in User, NEW i \in RunId,
              ApproveReview(u, i) \/ RejectReview(u, i)
       PROVE  OneOpenRun'
  <2>1. \A v \in Version : lifecycle'[v] = "validating" <=> lifecycle[v] = "validating"
    BY <1>10 DEF ApproveReview, RejectReview, TypeOK
  <2> QED BY <1>10, <2>1, SameOpenRuns DEF ApproveReview, RejectReview
<1>11. ASSUME NEW u \in User, NEW v \in Version,
              \/ DeprecateVersion(u, v)
              \/ DelistVersion(u, v)
              \/ EmergencyDisableVersion(u, v)
       PROVE  OneOpenRun'
  <2>1. \A w \in Version : lifecycle'[w] = "validating" <=> lifecycle[w] = "validating"
    BY <1>11, MovesFromReviewable
       DEF DeprecateVersion, DelistVersion, EmergencyDisableVersion, Withdraw,
           TypeOK
  <2>2. UNCHANGED run
    BY <1>11 DEF DeprecateVersion, DelistVersion, EmergencyDisableVersion,
                 Withdraw
  <2> QED BY <2>1, <2>2, SameOpenRuns
<1>12. CASE UNCHANGED <<lifecycle, run>>
  BY <1>12, SameOpenRuns
<1>13. ASSUME NEW u \in Installer, NEW v \in Version, ReportInstallation(u, v)
       PROVE  OneOpenRun'
  BY <1>12, <1>13 DEF ReportInstallation
<1>14. ASSUME NEW k \in User \X NoticeTypes \X Version, MarkNotificationRead(k)
       PROVE  OneOpenRun'
  BY <1>12, <1>14 DEF MarkNotificationRead
<1>15. CASE Tick \/ UNCHANGED vars
  BY <1>12, <1>15 DEF Tick, vars
<1> QED BY <1>1, <1>2, <1>3, <1>4, <1>5, <1>6, <1>7, <1>8, <1>9, <1>10, <1>11,
           <1>13, <1>14, <1>15 DEF Next

\* A version is validating exactly while one run of it is open, however many
\* submissions, retries, late answers and crashes interleave.
THEOREM OneOpenRunHolds == Spec => []OneOpenRun
<1>1. Init => OneOpenRun
  BY DEF Init, OneOpenRun, Running, NoRun
<1>2. TypeOK /\ OneOpenRun /\ [Next]_vars => OneOpenRun'
  BY NextOneOpenRun
<1> QED BY <1>1, <1>2, TypeCorrect, PTL DEF Spec

-----------------------------------------------------------------------------
(* Attempts and their owners *)

\* One run's share of AttemptsTellTheRun.
AttemptsTell(row) ==
  row.status # "absent" =>
    LET last == Len(row.attempts)
    IN /\ last > 0
       /\ row.attempts[last] = row.status
       /\ \A n \in 1 .. last - 1 : row.attempts[n] = "abandoned"
       /\ row.token = IF row.status = "running" /\ last > 1
                      THEN last ELSE NoToken

Active(q) == req[q].pc \in {"validating", "completing"}

\* A request that validates works for a run that exists, under the number of an
\* attempt that was handed out; no two requests hold the same number of the
\* same run.
TokensHandedOut ==
  /\ \A q \in Request : Active(q) =>
       /\ run[req[q].run].status # "absent"
       /\ req[q].token <= Len(run[req[q].run].attempts)
  /\ \A p, q \in Request :
       /\ Active(p) /\ Active(q)
       /\ req[p].run = req[q].run /\ req[p].token = req[q].token
       => p = q

\* The strengthening that is inductive.
ClaimInv == TypeOK /\ AttemptsTellTheRun /\ TokensHandedOut

\* A submission works for a fresh run without a token.
LEMMA SubmitsKeepsClaims ==
  ASSUME ClaimInv, NEW q \in Request, NEW u \in User, NEW v \in Version, NEW b,
         Submits(q, u, v, b)
  PROVE  AttemptsTellTheRun' /\ TokensHandedOut'
<1>1. PICK i \in RunId :
        /\ run[i] = NoRun
        /\ run' = [run EXCEPT ![i] =
             [status |-> "running", version |-> v, requestedBy |-> u,
              bundle |-> b, attempts |-> <<"running">>,
              token |-> NoToken, claimedAt |-> 0, result |-> None]]
        /\ req' = [req EXCEPT ![q] =
             [Idle EXCEPT !.pc = "validating", !.run = i, !.actor = u]]
  BY DEF Submits
<1>2. /\ run'[i].status = "running" /\ run'[i].attempts = <<"running">>
      /\ run'[i].token = NoToken
      /\ \A j \in RunId \ {i} : run'[j] = run[j]
  BY <1>1 DEF ClaimInv, TypeOK
<1>3. /\ req'[q].pc = "validating" /\ req'[q].run = i /\ req'[q].token = NoToken
      /\ \A p \in Request \ {q} : req'[p] = req[p]
  BY <1>1 DEF ClaimInv, TypeOK, Idle
<1>4. AttemptsTellTheRun'
  <2>1. \A j \in RunId \ {i} : AttemptsTell(run'[j])
    BY <1>2 DEF ClaimInv, AttemptsTellTheRun, AttemptsTell
  <2>2. /\ Len(<<"running">>) = 1 /\ <<"running">>[1] = "running"
        /\ 1 .. 1 - 1 = {}
    OBVIOUS
  <2>3. AttemptsTell(run'[i])
    BY <1>2, <2>2 DEF AttemptsTell
  <2> QED BY <2>1, <2>3 DEF AttemptsTellTheRun, AttemptsTell
<1>5. \A p \in Request \ {q} : Active(p) => req[p].run \in RunId \ {i}
  BY <1>1 DEF ClaimInv, TokensHandedOut, TypeOK, RequestState, Active, NoRun
<1>6. Len(<<"running">>) = 1
  OBVIOUS
<1> QED BY <1>2, <1>3, <1>4, <1>5, <1>6 DEF ClaimInv, TokensHandedOut, Active,
                                            NoToken

\* A retry gets a token above all that were handed out for the run.
LEMMA ClaimKeepsClaims ==
  ASSUME ClaimInv, NEW q \in Request, ClaimRetry(q)
  PROVE  AttemptsTellTheRun' /\ TokensHandedOut'
<1>1. CASE UNCHANGED run /\ req'[q] = Idle /\ \A p \in Request \ {q} : req'[p] = req[p]
  <2>1. ~Active(q)'
    BY <1>1 DEF Active, Idle
  <2> QED BY <1>1, <2>1 DEF ClaimInv, AttemptsTellTheRun, TokensHandedOut, Active
<1>2. ASSUME NEW i \in RunId, i = req[q].run, run[i].status = "running",
             \A j \in RunId \ {i} : run'[j] = run[j],
             run'[i].status = run[i].status,
             run'[i].attempts = Reattempted(run[i].attempts),
             run'[i].token = Len(run[i].attempts) + 1,
             \A p \in Request \ {q} : req'[p] = req[p],
             req'[q].run = i, req'[q].pc = "validating",
             req'[q].token = Len(run[i].attempts) + 1
      PROVE  AttemptsTellTheRun' /\ TokensHandedOut'
  <2>1. run[i].attempts \in Seq(AttemptStatus) /\ Len(run[i].attempts) \in Nat
    BY DEF ClaimInv, TypeOK, RunRow
  <2>2. PICK last \in Nat : last = Len(run[i].attempts)
    BY <2>1
  <2>3. /\ last > 0 /\ run[i].attempts[last] = "running"
        /\ \A n \in 1 .. last - 1 : run[i].attempts[n] = "abandoned"
    BY <1>2, <2>2 DEF ClaimInv, AttemptsTellTheRun
  <2>4. /\ Len(run'[i].attempts) = last + 1
        /\ run'[i].attempts[last + 1] = "running"
        /\ \A n \in 1 .. last : run'[i].attempts[n] = "abandoned"
    <3>1. /\ Len(Reattempted(run[i].attempts)) = last + 1
          /\ Reattempted(run[i].attempts)[last + 1] = "running"
          /\ \A n \in 1 .. last :
               Reattempted(run[i].attempts)[n] =
                 IF n = last /\ run[i].attempts[n] = "running"
                 THEN "abandoned" ELSE run[i].attempts[n]
      BY <2>1, <2>2, ReattemptedAttempts
    <3>2. run'[i].attempts = Reattempted(run[i].attempts)
      BY <1>2
    <3>3. ASSUME NEW n \in 1 .. last
          PROVE  Reattempted(run[i].attempts)[n] = "abandoned"
      <4>1. CASE n = last
        BY <2>3, <3>1, <4>1
      <4>2. CASE n # last
        <5>1. n \in 1 .. last - 1
          BY <4>2
        <5>2. run[i].attempts[n] = "abandoned"
          BY <2>3, <5>1
        <5> QED BY <3>1, <4>2, <5>2
      <4> QED BY <4>1, <4>2
    <3> QED BY <3>1, <3>2, <3>3
  <2>5. AttemptsTellTheRun'
    <3>1. \A j \in RunId \ {i} : AttemptsTell(run'[j])
      BY <1>2 DEF ClaimInv, AttemptsTellTheRun, AttemptsTell
    <3>2. AttemptsTell(run'[i])
      BY <1>2, <2>2, <2>3, <2>4 DEF AttemptsTell
    <3> QED BY <3>1, <3>2 DEF AttemptsTellTheRun, AttemptsTell
  <2>6. \A p \in Request : Active(p) =>
          /\ req[p].run \in RunId /\ req[p].token \in Nat
          /\ Len(run[req[p].run].attempts) \in Nat
    BY DEF ClaimInv, TypeOK, RequestState, RunRow, Active
  <2>7. \A p \in Request \ {q} : Active(p) /\ req[p].run = i => req[p].token <= last
    BY <2>2 DEF ClaimInv, TokensHandedOut
  <2>8. \A p \in Request \ {q} : Active(p)' <=> Active(p)
    BY <1>2 DEF Active
  <2>9. TokensHandedOut'
    <3>1. ASSUME NEW p \in Request, Active(p)'
          PROVE  /\ run'[req'[p].run].status # "absent"
                 /\ req'[p].token <= Len(run'[req'[p].run].attempts)
      <4>1. CASE p = q
        BY <1>2, <2>2, <2>4, <4>1
      <4>2. CASE p # q /\ req[p].run = i
        BY <1>2, <2>4, <2>6, <2>7, <2>8, <3>1, <4>2
      <4>3. CASE p # q /\ req[p].run # i
        BY <1>2, <2>6, <2>8, <3>1, <4>3 DEF ClaimInv, TokensHandedOut
      <4> QED BY <4>1, <4>2, <4>3
    <3>2. ASSUME NEW p \in Request, NEW r \in Request, Active(p)', Active(r)',
                 req'[p].run = req'[r].run, req'[p].token = req'[r].token
          PROVE  p = r
      <4>1. \A o \in Request \ {q} :
              Active(o)' /\ req'[o].run = i => req'[o].token < req'[q].token
        <5> SUFFICES ASSUME NEW o \in Request \ {q}, Active(o)', req'[o].run = i
                     PROVE  req'[o].token < req'[q].token
          OBVIOUS
        <5>1. Active(o) /\ req'[o] = req[o] /\ req[o].run = i
          BY <1>2, <2>8
        <5>2. req[o].token \in Nat /\ req[o].token <= last
          BY <2>6, <2>7, <5>1
        <5>3. req'[q].token = last + 1
          BY <1>2, <2>2
        <5> QED BY <5>1, <5>2, <5>3
      <4>2. req'[p].token \in Nat /\ req'[r].token \in Nat
        BY <1>2, <2>2, <2>6, <2>8, <3>2
      <4>3. CASE p = q /\ r # q
        BY <1>2, <3>2, <4>1, <4>2, <4>3
      <4>4. CASE p # q /\ r = q
        BY <1>2, <3>2, <4>1, <4>2, <4>4
      <4>5. CASE p # q /\ r # q
        BY <1>2, <2>8, <3>2, <4>5 DEF ClaimInv, TokensHandedOut
      <4> QED BY <4>3, <4>4, <4>5
    <3> QED BY <3>1, <3>2 DEF TokensHandedOut
  <2> QED BY <2>5, <2>9
<1> QED BY <1>1, <1>2, ClaimRetryEffect DEF ClaimInv

\* A request that ends gives its token back.
LEMMA EndingKeepsTokens ==
  ASSUME ClaimInv, NEW q \in Request,
         req'[q].pc = "idle", \A p \in Request \ {q} : req'[p] = req[p],
         \A j \in RunId : /\ run'[j].status = "absent" <=> run[j].status = "absent"
                          /\ Len(run'[j].attempts) = Len(run[j].attempts)
  PROVE  TokensHandedOut'
<1>1. \A p \in Request : Active(p) => req[p].run \in RunId
  BY DEF Active, ClaimInv, TypeOK, RequestState
<1>2. \A p \in Request : Active(p)' => Active(p) /\ req'[p] = req[p]
  BY DEF Active
<1>3. \A p \in Request : Active(p)' =>
        /\ run'[req'[p].run].status # "absent"
        /\ req'[p].token <= Len(run'[req'[p].run].attempts)
  BY <1>1, <1>2 DEF ClaimInv, TokensHandedOut
<1> QED BY <1>2, <1>3 DEF ClaimInv, TokensHandedOut

\* A request whose result is accepted closes the last attempt of its run and ends.
LEMMA ClosingKeepsClaims ==
  ASSUME ClaimInv, NEW q \in Request, NEW i \in RunId,
         NEW final \in {"passed", "failed", "skipped"},
         run[i].status = "running", \A j \in RunId \ {i} : run'[j] = run[j],
         run'[i].status = final, run'[i].token = NoToken,
         run'[i].attempts = [run[i].attempts EXCEPT ![Len(run[i].attempts)] = final],
         req'[q].pc = "idle", \A p \in Request \ {q} : req'[p] = req[p]
  PROVE  AttemptsTellTheRun' /\ TokensHandedOut'
<1>1. run[i].attempts \in Seq(AttemptStatus)
  BY DEF ClaimInv, TypeOK, RunRow
<1>2. PICK last \in Nat : last = Len(run[i].attempts)
  BY <1>1
<1>3. last > 0 /\ \A n \in 1 .. last - 1 : run[i].attempts[n] = "abandoned"
  BY <1>1, <1>2 DEF ClaimInv, AttemptsTellTheRun
<1>4. /\ Len(run'[i].attempts) = last
      /\ run'[i].attempts[last] = final
      /\ \A n \in 1 .. last - 1 : run'[i].attempts[n] = "abandoned"
  <2>1. final \in AttemptStatus
    BY DEF AttemptStatus
  <2> QED BY <1>1, <1>2, <1>3, <2>1, RewrittenAttempts
<1>5. AttemptsTellTheRun'
  <2>1. \A j \in RunId \ {i} : AttemptsTell(run'[j])
    BY DEF ClaimInv, AttemptsTellTheRun, AttemptsTell
  <2>2. AttemptsTell(run'[i])
    BY <1>3, <1>4 DEF AttemptsTell
  <2> QED BY <2>1, <2>2 DEF AttemptsTellTheRun, AttemptsTell
<1>6. \A j \in RunId : /\ run'[j].status = "absent" <=> run[j].status = "absent"
                       /\ Len(run'[j].attempts) = Len(run[j].attempts)
  BY <1>2, <1>4
<1> QED BY <1>5, <1>6, EndingKeepsTokens

\* A result closes the last attempt of its run or changes no run; either way its
\* request ends.
LEMMA CompleteKeepsClaims ==
  ASSUME ClaimInv, NEW q \in Request, CompleteValidation(q)
  PROVE  AttemptsTellTheRun' /\ TokensHandedOut'
<1>1. /\ req[q].pc = "completing" /\ req[q].run \in RunId
      /\ req[q].result \in Outcomes
  BY DEF CompleteValidation, ClaimInv, TypeOK, RequestState
<1>2. /\ req'[q].pc = "idle"
      /\ \A p \in Request \ {q} : req'[p] = req[p]
  BY DEF CompleteValidation, ClaimInv, TypeOK, Idle
<1>3. CASE UNCHANGED run
  <2>1. ~Active(q)'
    BY <1>2 DEF Active
  <2> QED BY <1>2, <1>3, <2>1
          DEF ClaimInv, AttemptsTellTheRun, TokensHandedOut, Active
<1>4. CASE Completable(q) /\ Complete(req[q].run, req[q].result)
  <2>1. PICK i \in RunId : i = req[q].run
    BY <1>1
  <2>2. PICK final \in {"passed", "failed", "skipped"} :
          final = FinalStatus(req[q].result)
    BY FinalStatusType
  <2>3. run[i].status = "running"
    BY <1>4, <2>1 DEF Completable
  <2>4. /\ \A j \in RunId \ {i} : run'[j] = run[j]
        /\ run'[i].status = final /\ run'[i].token = NoToken
        /\ run'[i].attempts = [run[i].attempts EXCEPT ![Len(run[i].attempts)] = final]
    BY <1>4, <2>1, <2>2, CloseRunEffect DEF Complete, ClaimInv, TypeOK
  <2> QED BY <1>2, <2>3, <2>4, ClosingKeepsClaims
<1> QED BY <1>3, <1>4 DEF CompleteValidation

\* Every step keeps the inductive invariant.
LEMMA NextClaims == ClaimInv /\ [Next]_vars => ClaimInv'
<1> SUFFICES ASSUME ClaimInv, [Next]_vars
             PROVE  AttemptsTellTheRun' /\ TokensHandedOut'
  BY NextType DEF ClaimInv
<1>1. CASE UNCHANGED <<run, req>>
  BY <1>1 DEF ClaimInv, AttemptsTellTheRun, TokensHandedOut, Active
<1>2. CASE \E q \in Request, u \in User, v \in Version : BeginValidation(q, u, v)
  BY <1>2, BeginSubmits, SubmitsKeepsClaims DEF ClaimInv
<1>3. CASE \E q \in Request : ClaimRetry(q)
  BY <1>3, ClaimKeepsClaims
<1>4. CASE \E q \in Request : CompleteValidation(q)
  BY <1>4, CompleteKeepsClaims
<1>5. ASSUME NEW q \in Request, UNCHANGED run,
             \A p \in Request \ {q} : req'[p] = req[p],
             \/ req'[q].pc \in {"idle", "retrying"}
             \/ /\ req'[q].run = req[q].run /\ req'[q].token = req[q].token
                /\ Active(q)
      PROVE  AttemptsTellTheRun' /\ TokensHandedOut'
  <2>1. \A p \in Request : Active(p)' =>
          Active(p) /\ req'[p].run = req[p].run /\ req'[p].token = req[p].token
    BY <1>5 DEF Active
  <2> QED BY <1>5, <2>1 DEF ClaimInv, AttemptsTellTheRun, TokensHandedOut
<1>6. CASE \E q \in Request, u \in User, i \in RunId : LookupRetry(q, u, i)
  <2>1. PICK q \in Request : \E u \in User, i \in RunId : LookupRetry(q, u, i)
    BY <1>6
  <2>2. /\ UNCHANGED run /\ req'[q].pc = "retrying"
        /\ \A p \in Request \ {q} : req'[p] = req[p]
    BY <2>1 DEF LookupRetry, ClaimInv, TypeOK, Idle
  <2> QED BY <1>5, <2>2
<1>7. CASE \E q \in Request, result \in Outcomes : FinishRunner(q, result)
  <2>1. PICK q \in Request : \E result \in Outcomes : FinishRunner(q, result)
    BY <1>7
  <2>2. /\ UNCHANGED run /\ Active(q)
        /\ req'[q].run = req[q].run /\ req'[q].token = req[q].token
        /\ \A p \in Request \ {q} : req'[p] = req[p]
    BY <2>1 DEF FinishRunner, ClaimInv, TypeOK, RequestState, Active
  <2> QED BY <1>5, <2>2
<1>8. CASE \E q \in Request : Crash(q)
  <2>1. PICK q \in Request : Crash(q)
    BY <1>8
  <2>2. /\ UNCHANGED run /\ req'[q].pc = "idle"
        /\ \A p \in Request \ {q} : req'[p] = req[p]
    BY <2>1 DEF Crash, ClaimInv, TypeOK, Idle
  <2> QED BY <1>5, <2>2
<1> QED BY <1>1, <1>2, <1>3, <1>4, <1>6, <1>7, <1>8
        DEF Next, vars, EditScriptTargets, UpdateVersionContent, ReviseVersion,
            ApproveReview, RejectReview, DeprecateVersion, DelistVersion,
            EmergencyDisableVersion, Withdraw, ReportInstallation,
            MarkNotificationRead, Tick

\* The inductive invariant behind the claims holds.
LEMMA ClaimInvariant == Spec => []ClaimInv
<1>1. Init => ClaimInv
  <2>1. Init => AttemptsTellTheRun /\ TokensHandedOut
    BY DEF Init, AttemptsTellTheRun, TokensHandedOut, Active, NoRun, Idle
  <2> QED BY <2>1, InitType DEF ClaimInv
<1>2. ClaimInv /\ [Next]_vars => ClaimInv'
  BY NextClaims
<1> QED BY <1>1, <1>2, PTL DEF Spec

\* Distinct tokens leave a run with one owner.
LEMMA ClaimsTellOwner == ClaimInv => OneOwner
BY DEF ClaimInv, OneOwner, Owns, TokensHandedOut, Active, TokenMatches

\* The attempts of every run tell its story, and the token of an open run is
\* that of the retry that is its last attempt.
THEOREM AttemptsTellTheRunHolds == Spec => []AttemptsTellTheRun
<1>1. ClaimInv => AttemptsTellTheRun
  BY DEF ClaimInv
<1> QED BY <1>1, ClaimInvariant, PTL

\* Whatever the number of requests in flight, at most one of them can still
\* close a run.
THEOREM OneOwnerHolds == Spec => []OneOwner
BY ClaimsTellOwner, ClaimInvariant, PTL

-----------------------------------------------------------------------------
(* Who may close a run, and who may take one over *)

\* Only two transactions change a run that exists.
LEMMA RunWriters ==
  ASSUME TypeOK, [Next]_vars, NEW i \in RunId, run[i] # NoRun, run'[i] # run[i]
  PROVE  \E q \in Request : \/ ClaimRetry(q)
                            \/ /\ CompleteValidation(q)
                               /\ Completable(q)
                               /\ Complete(req[q].run, req[q].result)
<1>1. run' # run
  OBVIOUS
<1>2. ~ \E q \in Request, u \in User, v \in Version : BeginValidation(q, u, v)
  <2> SUFFICES ASSUME NEW q \in Request, NEW u \in User, NEW v \in Version,
                      BeginValidation(q, u, v)
               PROVE  FALSE
    OBVIOUS
  <2>1. \E j \in RunId : run[j] = NoRun /\ \A k \in RunId \ {j} : run'[k] = run[k]
    BY DEF BeginValidation, TypeOK
  <2> QED BY <2>1
<1>3. \A q \in Request : CompleteValidation(q) =>
        Completable(q) /\ Complete(req[q].run, req[q].result)
  BY <1>1 DEF CompleteValidation
<1> QED BY <1>1, <1>2, <1>3
        DEF Next, vars, EditScriptTargets, UpdateVersionContent, ReviseVersion,
            LookupRetry, FinishRunner, Crash, ApproveReview, RejectReview,
            DeprecateVersion, DelistVersion, EmergencyDisableVersion, Withdraw,
            ReportInstallation, MarkNotificationRead, Tick

\* The token of an open run is given by the number of its attempts.
LEMMA OpenRunToken ==
  ASSUME NEW row, row.status = "running", Len(row.attempts) \in Nat,
         AttemptsTell(row)
  PROVE  row.token = IF Len(row.attempts) > 1
                      THEN Len(row.attempts) ELSE NoToken
BY DEF AttemptsTell

\* A run is closed by the request that works on its last attempt, and by no
\* other: an answer of an abandoned attempt is refused however late it comes.
THEOREM OnlyLastAttemptClosesHolds == Spec => OnlyLastAttemptCloses
<1>1. ASSUME ClaimInv, [Next]_vars, NEW i \in RunId, Closes(i)
      PROVE  ClosedByItsLastAttempt(i)
  <2>1. PICK q \in Request : \/ ClaimRetry(q)
                             \/ /\ CompleteValidation(q)
                                /\ Completable(q)
                                /\ Complete(req[q].run, req[q].result)
    BY <1>1, RunWriters DEF Closes, ClaimInv, NoRun
  <2>2. ~ClaimRetry(q)
    BY <1>1, ClaimRetryEffect DEF Closes, ClaimInv
  <2>3. PICK j \in RunId : j = req[q].run
    BY <1>1, <2>1, <2>2 DEF CompleteValidation, ClaimInv, TypeOK, RequestState
  <2>4. /\ \A k \in RunId \ {j} : run'[k] = run[k]
        /\ run'[j].result = req[q].result
    BY <1>1, <2>1, <2>2, <2>3, CloseRunEffect DEF Complete, ClaimInv, TypeOK
  <2>5. i = j
    BY <1>1, <2>4 DEF Closes
  <2>6. req[q].pc = "completing" /\ req'[q].pc = "idle"
    BY <1>1, <2>1, <2>2 DEF CompleteValidation, ClaimInv, TypeOK, Idle
  <2>7. req[q].token = run[i].token
    BY <2>1, <2>2, <2>3, <2>5 DEF Completable, TokenMatches
  <2>8. run[i].token = IF Len(run[i].attempts) > 1
                      THEN Len(run[i].attempts) ELSE NoToken
    <3>1. Len(run[i].attempts) \in Nat /\ run[i].status = "running"
      BY <1>1 DEF ClaimInv, TypeOK, RunRow, Closes
    <3>2. AttemptsTell(run[i])
      BY <1>1 DEF ClaimInv, AttemptsTellTheRun, AttemptsTell
    <3> QED BY <3>1, <3>2, OpenRunToken
  <2> QED BY <2>3, <2>4, <2>5, <2>6, <2>7, <2>8 DEF ClosedByItsLastAttempt
<1>2. ClaimInv /\ [Next]_vars =>
        [\A i \in RunId : Closes(i) => ClosedByItsLastAttempt(i)]_vars
  BY <1>1
<1> QED BY <1>2, ClaimInvariant, PTL DEF Spec, OnlyLastAttemptCloses

\* A retry reads the clock before its transaction, never ahead of time.
StampsArePast ==
  \A q \in Request : req[q].pc = "retrying" => req[q].stamp <= now

\* A retry looks at the clock before its transaction, never ahead of it.
LEMMA StampInvariant == Spec => []StampsArePast
<1>1. Init => StampsArePast
  BY DEF Init, StampsArePast, Idle
<1>2. ASSUME TypeOK, StampsArePast, [Next]_vars
      PROVE  StampsArePast'
  <2> USE DEF StampsArePast
  <2>1. CASE UNCHANGED <<req, now>>
    BY <1>2, <2>1
  <2>2. ASSUME NEW q \in Request, UNCHANGED now,
               \A p \in Request \ {q} : req'[p] = req[p],
               req'[q].pc = "retrying" => req'[q].stamp = now
        PROVE  StampsArePast'
    <3>1. now \in Nat
      BY <1>2, GovernanceAssumption DEF TypeOK
    <3> QED BY <1>2, <2>2, <3>1
  <2>3. CASE \E q \in Request, u \in User, v \in Version : BeginValidation(q, u, v)
    <3>1. PICK q \in Request : \E u \in User, v \in Version : BeginValidation(q, u, v)
      BY <2>3
    <3> QED BY <1>2, <2>2, <3>1 DEF BeginValidation, TypeOK, Idle
  <2>4. CASE \E q \in Request, u \in User, i \in RunId : LookupRetry(q, u, i)
    <3>1. PICK q \in Request : \E u \in User, i \in RunId : LookupRetry(q, u, i)
      BY <2>4
    <3> QED BY <1>2, <2>2, <3>1 DEF LookupRetry, TypeOK, Idle
  <2>5. CASE \E q \in Request : ClaimRetry(q)
    <3>1. PICK q \in Request : ClaimRetry(q)
      BY <2>5
    <3>2. UNCHANGED now
      BY <3>1 DEF ClaimRetry
    <3>3. req'[q].pc # "retrying" /\ \A p \in Request \ {q} : req'[p] = req[p]
      BY <1>2, <3>1, ClaimRetryEffect DEF Idle
    <3> QED BY <2>2, <3>2, <3>3
  <2>6. CASE \E q \in Request, result \in Outcomes : FinishRunner(q, result)
    <3>1. PICK q \in Request : \E result \in Outcomes : FinishRunner(q, result)
      BY <2>6
    <3>2. /\ UNCHANGED now /\ req'[q].pc = "completing"
          /\ \A p \in Request \ {q} : req'[p] = req[p]
      BY <1>2, <3>1 DEF FinishRunner, TypeOK, RequestState
    <3> QED BY <2>2, <3>2
  <2>7. CASE \E q \in Request : CompleteValidation(q) \/ Crash(q)
    <3>1. PICK q \in Request : CompleteValidation(q) \/ Crash(q)
      BY <2>7
    <3>2. /\ UNCHANGED now /\ req'[q].pc = "idle"
          /\ \A p \in Request \ {q} : req'[p] = req[p]
      BY <1>2, <3>1 DEF CompleteValidation, Crash, TypeOK, Idle
    <3> QED BY <2>2, <3>2
  <2>8. CASE Tick
    <3>1. now \in Nat /\ \A q \in Request : req[q].stamp \in Nat
      BY <1>2, GovernanceAssumption DEF TypeOK, RequestState
    <3> QED BY <1>2, <2>8, <3>1 DEF Tick
  <2> QED BY <1>2, <2>1, <2>3, <2>4, <2>5, <2>6, <2>7, <2>8
          DEF Next, vars, EditScriptTargets, UpdateVersionContent, ReviseVersion,
              ApproveReview, RejectReview, DeprecateVersion, DelistVersion,
              EmergencyDisableVersion, Withdraw, ReportInstallation,
              MarkNotificationRead
<1> QED BY <1>1, <1>2, TypeCorrect, PTL DEF Spec

\* A retry's claim is taken over only once it is TTL old, on whatever clock
\* reading the taker bases its request.
THEOREM NoLiveClaimStolenHolds == Spec => NoLiveClaimStolen
<1>1. ASSUME TypeOK, AttemptsTellTheRun, StampsArePast, [Next]_vars,
             NEW i \in RunId, TakesOver(i)
      PROVE  now >= run[i].claimedAt + TTL
  <2>1. run[i] # NoRun /\ run'[i] # run[i]
    BY <1>1 DEF TakesOver, NoRun
  <2>2. PICK q \in Request : \/ ClaimRetry(q)
                             \/ /\ CompleteValidation(q)
                                /\ Completable(q)
                                /\ Complete(req[q].run, req[q].result)
    BY <1>1, <2>1, RunWriters
  <2>3. ASSUME CompleteValidation(q), Complete(req[q].run, req[q].result)
        PROVE  FALSE
    <3>1. PICK j \in RunId : j = req[q].run
      BY <1>1, <2>3 DEF CompleteValidation, TypeOK, RequestState
    <3>2. /\ \A k \in RunId \ {j} : run'[k] = run[k]
          /\ run'[j].status # "running"
      BY <1>1, <2>3, <3>1, CloseRunEffect, FinalStatusType DEF Complete, TypeOK
    <3> QED BY <1>1, <3>2 DEF TakesOver
  <2>4. CASE ClaimRetry(q)
    <3>1. /\ i = req[q].run /\ Claimable(run[i], req[q].stamp)
          /\ req[q].pc = "retrying"
      BY <1>1, <2>1, <2>4, ClaimRetryEffect DEF ClaimRetry
    <3>2. /\ req[q].stamp \in Nat /\ now \in Nat /\ run[i].claimedAt \in Nat
          /\ TTL \in Nat
      BY <1>1, GovernanceAssumption DEF TypeOK, RequestState, RunRow
    <3>3. req[q].stamp >= run[i].claimedAt + TTL
      BY <1>1, <3>1 DEF TakesOver, Claimable, ClaimExpired
    <3> QED BY <1>1, <3>1, <3>2, <3>3 DEF StampsArePast
  <2> QED BY <2>2, <2>3, <2>4
<1>2. TypeOK /\ AttemptsTellTheRun /\ StampsArePast /\ [Next]_vars =>
        [\A i \in RunId : TakesOver(i) => now >= run[i].claimedAt + TTL]_vars
  BY <1>1
<1> QED BY <1>2, TypeCorrect, AttemptsTellTheRunHolds, StampInvariant, PTL
        DEF Spec, NoLiveClaimStolen
=============================================================================
