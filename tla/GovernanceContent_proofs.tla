----------------------- MODULE GovernanceContent_proofs -----------------------
(***************************************************************************)
(* Theorems about what governance publishes, over Postgres and in memory:  *)
(* the content under validation and review, the decisions on it, the       *)
(* events and the notices that tell of them, and the refinement of         *)
(* PublicationLifecycle.                                                   *)
(***************************************************************************)
EXTENDS Governance_proofs, MemoryGovernance

-----------------------------------------------------------------------------
(* The invariant of the reviews, which either repository keeps *)

\* A review that was ever opened is the review of a closed run, on the work of
\* its version's author, and approved by somebody who may.
ReviewDecided(i) ==
  review[i].status # "absent" =>
    /\ run[i].status \notin {"absent", "running"}
    /\ review[i].author = Author[review[i].version]
    /\ review[i].status = "approved" =>
         review[i].reviewer # review[i].author /\ CanReview(review[i].reviewer)

\* A version under validation has the digests of one submission.
DigestsHeld(v) == lifecycle[v] = "validating" => digest[v] = manifest[v]

\* A version under review holds what its open review is a snapshot of.
SnapshotHeld(v) ==
  \A i \in Pending(v) :
    /\ review[i].notes = notes[v] /\ review[i].bundle = bundle[v]
    /\ review[i].manifest = manifest[v] /\ digest[v] = manifest[v]

\* A released version holds what was approved.
ApprovalHeld(v) ==
  lifecycle[v] \in Released =>
    \E i \in RunId :
      /\ review[i].status = "approved" /\ review[i].version = v
      /\ review[i].notes = notes[v] /\ review[i].bundle = bundle[v]
      /\ review[i].manifest = manifest[v] /\ digest[v] = manifest[v]

ReviewedHeld ==
  /\ \A i \in RunId : ReviewDecided(i)
  /\ \A v \in Version : DigestsHeld(v) /\ SnapshotHeld(v) /\ ApprovalHeld(v)

\* The strengthening that is inductive.
ReviewedInv == TypeOK /\ OneOpenReview /\ ReviewedHeld

\* What a version holds, all columns together.
SameContent(v) ==
  /\ notes'[v] = notes[v] /\ digest'[v] = digest[v]
  /\ manifest'[v] = manifest[v] /\ bundle'[v] = bundle[v]

-----------------------------------------------------------------------------
(* What no step of a kind disturbs *)

\* Steps that leave lifecycle, content, reviews and the runs' statuses alone.
LEMMA QuietStep ==
  ASSUME ReviewedInv, UNCHANGED <<lifecycle, contentVars, review>>,
         \A i \in RunId : run'[i].status = run[i].status
  PROVE  OneOpenReview' /\ ReviewedHeld'
<1>1. \A v \in Version : Pending(v)' = Pending(v)
  BY DEF Pending
<1>2. OneOpenReview'
  BY <1>1 DEF ReviewedInv, OneOpenReview
<1>3. \A i \in RunId : ReviewDecided(i)'
  BY DEF ReviewedInv, ReviewedHeld, ReviewDecided, CanReview
<1>4. \A v \in Version : DigestsHeld(v)' /\ SnapshotHeld(v)' /\ ApprovalHeld(v)'
  BY <1>1 DEF ReviewedInv, ReviewedHeld, DigestsHeld, SnapshotHeld, ApprovalHeld, contentVars
<1> QED BY <1>2, <1>3, <1>4 DEF ReviewedHeld

\* A version whose row and reviews stay as they are keeps its share.
LEMMA UntouchedVersion ==
  ASSUME ReviewedInv, NEW w \in Version, SameContent(w),
         lifecycle'[w] = lifecycle[w],
         \A i \in RunId : review'[i] # review[i] => review[i].version # w /\ review'[i].version # w
  PROVE  /\ Pending(w)' = Pending(w)
         /\ DigestsHeld(w)' /\ SnapshotHeld(w)' /\ ApprovalHeld(w)'
<1>1. Pending(w)' = Pending(w) /\ \A i \in Pending(w) : review'[i] = review[i]
  BY DEF Pending
<1>2. DigestsHeld(w)'
  BY DEF ReviewedInv, ReviewedHeld, DigestsHeld, SameContent
<1>3. SnapshotHeld(w)'
  BY <1>1 DEF ReviewedInv, ReviewedHeld, SnapshotHeld, SameContent, Pending
<1>4. ApprovalHeld(w)'
  BY DEF ReviewedInv, ReviewedHeld, ApprovalHeld, SameContent
<1> QED BY <1>1, <1>2, <1>3, <1>4

-----------------------------------------------------------------------------
(* What each kind of step keeps *)

\* A change of a draft: nothing is under review, nothing is released.
LEMMA DraftKeepsContent ==
  ASSUME ReviewedInv, NEW v \in Version, lifecycle[v] = "draft",
         UNCHANGED <<lifecycle, run, review>>,
         \A w \in Version \ {v} : SameContent(w)
  PROVE  OneOpenReview' /\ ReviewedHeld'
<1>1. \A w \in Version : Pending(w)' = Pending(w)
  BY DEF Pending
<1>2. OneOpenReview'
  BY <1>1 DEF ReviewedInv, OneOpenReview
<1>3. \A i \in RunId : ReviewDecided(i)'
  BY DEF ReviewedInv, ReviewedHeld, ReviewDecided, CanReview
<1>4. Pending(v)' = {}
  BY <1>1 DEF ReviewedInv, OneOpenReview
<1>5. DigestsHeld(v)' /\ SnapshotHeld(v)' /\ ApprovalHeld(v)'
  BY <1>4 DEF DigestsHeld, SnapshotHeld, ApprovalHeld, Released
<1>6. \A w \in Version \ {v} : DigestsHeld(w)' /\ SnapshotHeld(w)' /\ ApprovalHeld(w)'
  BY UntouchedVersion
<1> QED BY <1>2, <1>3, <1>5, <1>6 DEF ReviewedHeld

\* Closing the open reviews of a version leaves it with none and touches no
\* other review.
LEMMA SupersedeEffect ==
  ASSUME review \in [RunId -> ReviewRow], NEW v \in Version, SupersedePending(v)
  PROVE  /\ Pending(v)' = {}
         /\ \A i \in RunId :
              \/ review'[i] = review[i]
              \/ /\ i \in Pending(v) /\ review'[i].status = "superseded"
                 /\ review'[i].version = v /\ review'[i].author = review[i].author
                 /\ review'[i].bundle = review[i].bundle
                 /\ review'[i].manifest = review[i].manifest
<1>1. \A i \in RunId : i \in Pending(v) =>
        /\ review'[i].status = "superseded" /\ review'[i].version = v
        /\ review'[i].author = review[i].author /\ review'[i].bundle = review[i].bundle
        /\ review'[i].manifest = review[i].manifest
  BY DEF SupersedePending, Pending, ReviewRow
<1>2. \A i \in RunId : i \notin Pending(v) => review'[i] = review[i]
  BY DEF SupersedePending
<1> QED BY <1>1, <1>2 DEF Pending

\* A revision: the version is a draft again and its open review is closed.
LEMMA ReviseKeepsContent ==
  ASSUME ReviewedInv, NEW v \in Version,
         lifecycle' = [lifecycle EXCEPT ![v] = "draft"],
         SupersedePending(v), UNCHANGED run,
         \A w \in Version \ {v} : SameContent(w)
  PROVE  OneOpenReview' /\ ReviewedHeld'
<1>1. /\ lifecycle'[v] = "draft"
      /\ \A w \in Version \ {v} : lifecycle'[w] = lifecycle[w]
  BY DEF ReviewedInv, TypeOK
<1>2. /\ Pending(v)' = {}
      /\ \A i \in RunId :
           \/ review'[i] = review[i]
           \/ /\ i \in Pending(v) /\ review'[i].status = "superseded"
              /\ review'[i].version = v /\ review'[i].author = review[i].author
              /\ review'[i].bundle = review[i].bundle
              /\ review'[i].manifest = review[i].manifest
  BY SupersedeEffect DEF ReviewedInv, TypeOK
<1>3. \A w \in Version \ {v} :
        /\ Pending(w)' = Pending(w)
        /\ DigestsHeld(w)' /\ SnapshotHeld(w)' /\ ApprovalHeld(w)'
  BY <1>1, <1>2, UntouchedVersion DEF Pending
<1>4. OneOpenReview'
  BY <1>1, <1>2, <1>3 DEF ReviewedInv, OneOpenReview
<1>5. \A i \in RunId : ReviewDecided(i)'
  BY <1>2 DEF ReviewedInv, ReviewedHeld, ReviewDecided, CanReview, Pending
<1>6. DigestsHeld(v)' /\ SnapshotHeld(v)' /\ ApprovalHeld(v)'
  BY <1>1, <1>2 DEF DigestsHeld, SnapshotHeld, ApprovalHeld, Released
<1> QED BY <1>3, <1>4, <1>5, <1>6 DEF ReviewedHeld

\* A submission stores both digests of what is submitted.
LEMMA SubmitsKeepsContent ==
  ASSUME ReviewedInv, NEW q \in Request, NEW u \in User, NEW v \in Version, NEW b,
         Submits(q, u, v, b)
  PROVE  OneOpenReview' /\ ReviewedHeld'
<1>1. PICK i \in RunId :
        /\ run[i] = NoRun
        /\ run' = [run EXCEPT ![i] =
             [status |-> "running", version |-> v, requestedBy |-> u,
              bundle |-> b, attempts |-> <<"running">>,
              token |-> NoToken, claimedAt |-> 0, result |-> None]]
  BY DEF Submits
<1>2. run[i].status = "absent" /\ \A j \in RunId \ {i} : run'[j] = run[j]
  BY <1>1 DEF ReviewedInv, TypeOK, NoRun
<1>3. /\ lifecycle[v] = "draft" /\ lifecycle'[v] = "validating"
      /\ digest'[v] = b /\ manifest'[v] = b
      /\ UNCHANGED review
      /\ \A w \in Version \ {v} : lifecycle'[w] = lifecycle[w] /\ SameContent(w)
  BY DEF Submits, ReviewedInv, TypeOK, SameContent
<1>4. \A w \in Version : Pending(w)' = Pending(w)
  BY <1>3 DEF Pending
<1>5. OneOpenReview'
  BY <1>3, <1>4 DEF ReviewedInv, OneOpenReview
<1>6. \A j \in RunId : ReviewDecided(j)'
  BY <1>2, <1>3 DEF ReviewedInv, ReviewedHeld, ReviewDecided, CanReview
<1>7. DigestsHeld(v)' /\ ApprovalHeld(v)'
  BY <1>3 DEF DigestsHeld, ApprovalHeld, Released
<1>8. SnapshotHeld(v)'
  BY <1>3, <1>4 DEF ReviewedInv, OneOpenReview, SnapshotHeld
<1>9. \A w \in Version \ {v} : DigestsHeld(w)' /\ SnapshotHeld(w)' /\ ApprovalHeld(w)'
  BY <1>3, UntouchedVersion
<1> QED BY <1>5, <1>6, <1>7, <1>8, <1>9 DEF ReviewedHeld

\* A result that fails: the run is closed, the version is a draft again.
LEMMA FailureKeepsContent ==
  ASSUME ReviewedInv, NEW i \in RunId, NEW v \in Version, lifecycle[v] = "validating",
         run[i].status = "running", run'[i].status \notin {"absent", "running"},
         \A j \in RunId \ {i} : run'[j] = run[j],
         lifecycle' = [lifecycle EXCEPT ![v] = "draft"], UNCHANGED <<contentVars, review>>
  PROVE  OneOpenReview' /\ ReviewedHeld'
<1>1. lifecycle'[v] = "draft" /\ \A w \in Version \ {v} : lifecycle'[w] = lifecycle[w]
  BY DEF ReviewedInv, TypeOK
<1>2. \A w \in Version : Pending(w)' = Pending(w) /\ SameContent(w)
  BY DEF Pending, SameContent, contentVars
<1>3. OneOpenReview'
  BY <1>1, <1>2 DEF ReviewedInv, OneOpenReview
<1>4. \A j \in RunId : ReviewDecided(j)'
  BY DEF ReviewedInv, ReviewedHeld, ReviewDecided, CanReview
<1>5. DigestsHeld(v)' /\ ApprovalHeld(v)'
  BY <1>1 DEF DigestsHeld, ApprovalHeld, Released
<1>6. SnapshotHeld(v)'
  BY <1>2 DEF ReviewedInv, ReviewedHeld, SnapshotHeld, SameContent
<1>7. \A w \in Version \ {v} : DigestsHeld(w)' /\ SnapshotHeld(w)' /\ ApprovalHeld(w)'
  BY <1>1, <1>2, UntouchedVersion
<1> QED BY <1>3, <1>4, <1>5, <1>6, <1>7 DEF ReviewedHeld

\* A result that is accepted: it opens a review on a snapshot of what was
\* submitted, or the version is a draft again.
LEMMA CompleteKeepsContent ==
  ASSUME ReviewedInv, NEW q \in Request, req[q].pc = "completing",
         Completable(q), Complete(req[q].run, req[q].result), UNCHANGED contentVars
  PROVE  OneOpenReview' /\ ReviewedHeld'
<1>1. PICK i \in RunId, result \in Outcomes : i = req[q].run /\ result = req[q].result
  BY DEF ReviewedInv, TypeOK, RequestState
<1>2. run[i].status = "running" /\ run[i] \in RunRow
  BY <1>1 DEF Completable, ReviewedInv, TypeOK
<1>3. PICK v \in Version : v = run[i].version
  BY <1>2 DEF RunRow
<1>4. lifecycle[v] = "validating" /\ (Advances(result) => Pending(v) = {})
  BY <1>1, <1>3 DEF Completable
<1>5. /\ \A j \in RunId \ {i} : run'[j] = run[j]
      /\ run'[i].status \notin {"absent", "running"}
  BY ZenonT(30), <1>1, CloseRunEffect, FinalStatusType DEF Complete, ReviewedInv, TypeOK
<1>6. CASE Advances(result)
  <2>1. /\ lifecycle'[v] = "review_required"
        /\ \A w \in Version \ {v} : lifecycle'[w] = lifecycle[w]
    BY <1>1, <1>3, <1>6 DEF Complete, ReviewedInv, TypeOK
  <2>2. review' = [review EXCEPT ![i] =
             [status |-> "pending", version |-> v, author |-> Author[v],
              notes |-> notes[v], manifest |-> manifest[v], bundle |-> bundle[v],
              reviewer |-> None]]
    BY <1>1, <1>3, <1>6 DEF Complete, OpenReview
  <2>3. /\ review'[i].status = "pending" /\ review'[i].version = v
        /\ review'[i].author = Author[v] /\ review'[i].notes = notes[v]
        /\ review'[i].manifest = manifest[v] /\ review'[i].bundle = bundle[v]
        /\ \A j \in RunId \ {i} : review'[j] = review[j]
    BY <2>2 DEF ReviewedInv, TypeOK
  <2>4. review[i].status = "absent" /\ digest[v] = manifest[v]
    BY <1>2, <1>4 DEF ReviewedInv, ReviewedHeld, ReviewDecided, DigestsHeld
  <2>5. \A w \in Version : SameContent(w)
    BY DEF SameContent, contentVars
  <2>6. Pending(v)' = {i}
    BY <1>4, <1>6, <2>3 DEF Pending
  <2>7. \A w \in Version \ {v} : Pending(w)' = Pending(w)
    BY <2>3, <2>4 DEF Pending
  <2>8. OneOpenReview'
    BY <2>1, <2>6, <2>7 DEF ReviewedInv, OneOpenReview
  <2>9. \A j \in RunId : ReviewDecided(j)'
    BY <1>5, <2>3 DEF ReviewedInv, ReviewedHeld, ReviewDecided, CanReview
  <2>10. DigestsHeld(v)' /\ SnapshotHeld(v)' /\ ApprovalHeld(v)'
    BY <2>1, <2>3, <2>4, <2>5, <2>6
       DEF DigestsHeld, SnapshotHeld, ApprovalHeld, Released, SameContent
  <2>11. ASSUME NEW w \in Version \ {v}
         PROVE  DigestsHeld(w)' /\ SnapshotHeld(w)' /\ ApprovalHeld(w)'
    <3>1. DigestsHeld(w)'
      BY <2>1, <2>5 DEF ReviewedInv, ReviewedHeld, DigestsHeld, SameContent
    <3>2. SnapshotHeld(w)'
      BY <2>3, <2>4, <2>5, <2>7
         DEF ReviewedInv, ReviewedHeld, SnapshotHeld, SameContent, Pending
    <3>3. ApprovalHeld(w)'
      BY <2>1, <2>3, <2>4, <2>5
         DEF ReviewedInv, ReviewedHeld, ApprovalHeld, SameContent
    <3> QED BY <3>1, <3>2, <3>3
  <2> QED BY <2>8, <2>9, <2>10, <2>11 DEF ReviewedHeld
<1>7. CASE ~Advances(result)
  <2>1. lifecycle' = [lifecycle EXCEPT ![v] = "draft"] /\ UNCHANGED review
    BY <1>1, <1>3, <1>7 DEF Complete
  <2> QED BY <1>2, <1>4, <1>5, <2>1, FailureKeepsContent
<1> QED BY <1>6, <1>7

\* A decision: an approved review has the reviewer and the content it needs, a
\* rejected one closes.
LEMMA DecisionKeepsContent ==
  ASSUME ReviewedInv, NEW u \in User, NEW i \in RunId,
         ApproveReview(u, i) \/ RejectReview(u, i)
  PROVE  OneOpenReview' /\ ReviewedHeld'
<1>1. review[i].status = "pending" /\ review[i] \in ReviewRow
  BY DEF ApproveReview, RejectReview, ReviewedInv, TypeOK
<1>2. PICK v \in Version : v = review[i].version
  BY <1>1 DEF ReviewRow
<1>3. Pending(v) = {i} /\ lifecycle[v] = "review_required"
  BY <1>1, <1>2 DEF ReviewedInv, OneOpenReview, Pending
<1>4. /\ review[i].notes = notes[v] /\ review[i].bundle = bundle[v]
      /\ review[i].manifest = manifest[v] /\ digest[v] = manifest[v]
  BY <1>3 DEF ReviewedInv, ReviewedHeld, SnapshotHeld
<1>5. /\ \A w \in Version : SameContent(w)
      /\ UNCHANGED run
  BY <1>2, <1>4
     DEF ApproveReview, RejectReview, SameContent, contentVars, ReviewedInv, TypeOK
<1>6. \A w \in Version \ {v} : lifecycle'[w] = lifecycle[w]
  BY <1>2 DEF ApproveReview, RejectReview, ReviewedInv, TypeOK
<1>7. /\ review'[i].version = v /\ review'[i].author = review[i].author
      /\ review'[i].notes = review[i].notes /\ review'[i].bundle = review[i].bundle
      /\ review'[i].manifest = review[i].manifest /\ review'[i].reviewer = u
      /\ \A j \in RunId \ {i} : review'[j] = review[j]
  BY <1>1, <1>2 DEF ApproveReview, RejectReview, ReviewedInv, TypeOK, ReviewRow
<1>8. \/ lifecycle'[v] = "published" /\ review'[i].status = "approved"
      \/ lifecycle'[v] = "draft" /\ review'[i].status = "rejected"
  BY <1>1, <1>2 DEF ApproveReview, RejectReview, ReviewedInv, TypeOK, ReviewRow
<1>9. Pending(v)' = {}
  BY <1>3, <1>7, <1>8 DEF Pending
<1>10. \A w \in Version \ {v} :
         /\ Pending(w)' = Pending(w)
         /\ DigestsHeld(w)' /\ SnapshotHeld(w)' /\ ApprovalHeld(w)'
  BY <1>2, <1>5, <1>6, <1>7, UntouchedVersion
<1>11. OneOpenReview'
  BY <1>6, <1>8, <1>9, <1>10 DEF ReviewedInv, OneOpenReview
<1>12. \A j \in RunId : ReviewDecided(j)'
  <2>1. u # review[i].author /\ CanReview(u)
    BY DEF ApproveReview, RejectReview, MayDecide
  <2>2. ReviewDecided(i)'
    BY <1>1, <1>2, <1>5, <1>7, <2>1
       DEF ReviewedInv, ReviewedHeld, ReviewDecided, CanReview
  <2> QED BY <1>5, <1>7, <2>2 DEF ReviewedInv, ReviewedHeld, ReviewDecided, CanReview
<1>13. DigestsHeld(v)' /\ SnapshotHeld(v)' /\ ApprovalHeld(v)'
  BY <1>4, <1>5, <1>7, <1>8, <1>9
     DEF DigestsHeld, SnapshotHeld, ApprovalHeld, Released, SameContent
<1> QED BY <1>10, <1>11, <1>12, <1>13 DEF ReviewedHeld

\* A withdrawal or deprecation leads from released to released and changes no
\* content.
LEMMA ReleasedKeepsContent ==
  ASSUME ReviewedInv, NEW v \in Version, NEW to \in Released,
         lifecycle[v] \in Released, lifecycle' = [lifecycle EXCEPT ![v] = to],
         UNCHANGED <<contentVars, run, review>>
  PROVE  OneOpenReview' /\ ReviewedHeld'
<1>1. /\ lifecycle'[v] = to
      /\ \A w \in Version \ {v} : lifecycle'[w] = lifecycle[w]
  BY DEF ReviewedInv, TypeOK
<1>2. \A w \in Version : Pending(w)' = Pending(w) /\ SameContent(w)
  BY DEF Pending, SameContent, contentVars
<1>3. OneOpenReview'
  BY <1>1, <1>2 DEF ReviewedInv, OneOpenReview, Released
<1>4. \A i \in RunId : ReviewDecided(i)'
  BY DEF ReviewedInv, ReviewedHeld, ReviewDecided, CanReview
<1>5. \A w \in Version \ {v} : DigestsHeld(w)' /\ SnapshotHeld(w)' /\ ApprovalHeld(w)'
  BY <1>1, <1>2, UntouchedVersion
<1>6. DigestsHeld(v)' /\ SnapshotHeld(v)'
  BY <1>1, <1>2
     DEF ReviewedInv, ReviewedHeld, DigestsHeld, SnapshotHeld, Released, SameContent
<1>7. ApprovalHeld(v)'
  BY <1>2 DEF ReviewedInv, ReviewedHeld, ApprovalHeld, SameContent
<1> QED BY <1>3, <1>4, <1>5, <1>6, <1>7 DEF ReviewedHeld

\* Where the table allows a withdrawal the version is released, and stays so.
LEMMA WithdrawFromReleased ==
  ASSUME NEW from, NEW to, NEW event \in {"DELIST", "EMERGENCY_DISABLE"},
         Moves(from, event, to)
  PROVE  from \in Released /\ to \in {"delisted", "emergency_disabled"}
BY DEF Moves, Transitions, Released

\* Every step keeps the invariant.
LEMMA NextReviewed == ReviewedInv /\ [Next]_vars => ReviewedInv'
<1> SUFFICES ASSUME ReviewedInv, [Next]_vars
             PROVE  OneOpenReview' /\ ReviewedHeld'
  BY NextType DEF ReviewedInv
<1>1. CASE UNCHANGED <<lifecycle, contentVars, run, review>>
  BY <1>1, QuietStep
<1>2. ASSUME NEW v \in Version, NEW b \in Bundle \cup {None}, EditScriptTargets(v, b)
      PROVE  OneOpenReview' /\ ReviewedHeld'
  <2>1. \A w \in Version \ {v} : SameContent(w)
    BY <1>2 DEF EditScriptTargets, SameContent, ReviewedInv, TypeOK
  <2> QED BY <1>2, <2>1, DraftKeepsContent DEF EditScriptTargets, Editable
<1>3. ASSUME NEW v \in Version, NEW n \in Notes, NEW d \in Bundle \cup {digest[v]},
             UpdateVersionContent(v, n, d)
      PROVE  OneOpenReview' /\ ReviewedHeld'
  <2>1. \A w \in Version \ {v} : SameContent(w)
    BY <1>3 DEF UpdateVersionContent, SameContent, ReviewedInv, TypeOK
  <2> QED BY <1>3, <2>1, DraftKeepsContent, ReviseKeepsContent
          DEF UpdateVersionContent
<1>4. ASSUME NEW u \in User, NEW v \in Version, ReviseVersion(u, v)
      PROVE  OneOpenReview' /\ ReviewedHeld'
  <2>1. \A w \in Version : SameContent(w)
    BY <1>4 DEF ReviseVersion, SameContent, contentVars
  <2> QED BY <1>4, <2>1, ReviseKeepsContent DEF ReviseVersion
<1>5. CASE \E q \in Request, u \in User, v \in Version : BeginValidation(q, u, v)
  BY <1>5, BeginSubmits, SubmitsKeepsContent DEF ReviewedInv
<1>6. ASSUME NEW q \in Request, ClaimRetry(q)
      PROVE  OneOpenReview' /\ ReviewedHeld'
  <2>1. \A i \in RunId : run'[i].status = run[i].status
    BY <1>6, ClaimRetryEffect DEF ReviewedInv
  <2> QED BY <1>6, <2>1, QuietStep DEF ClaimRetry
<1>7. ASSUME NEW q \in Request, CompleteValidation(q)
      PROVE  OneOpenReview' /\ ReviewedHeld'
  BY <1>1, <1>7, CompleteKeepsContent DEF CompleteValidation
<1>8. ASSUME NEW u \in User, NEW i \in RunId, ApproveReview(u, i) \/ RejectReview(u, i)
      PROVE  OneOpenReview' /\ ReviewedHeld'
  BY <1>8, DecisionKeepsContent
<1>9. ASSUME NEW u \in User, NEW v \in Version, DeprecateVersion(u, v)
      PROVE  OneOpenReview' /\ ReviewedHeld'
  BY <1>9, ReleasedKeepsContent DEF DeprecateVersion, Released
<1>10. ASSUME NEW v \in Version, NEW event \in {"DELIST", "EMERGENCY_DISABLE"}, NEW to,
              NEW type, NEW outcome, Withdraw(v, event, to, type, outcome)
       PROVE  OneOpenReview' /\ ReviewedHeld'
  <2>1. lifecycle[v] \in Released /\ to \in Released
    BY <1>10, WithdrawFromReleased DEF Withdraw, Released
  <2> QED BY <1>10, <2>1, ReleasedKeepsContent DEF Withdraw
<1> QED BY <1>1, <1>2, <1>3, <1>4, <1>5, <1>6, <1>7, <1>8, <1>9, <1>10
        DEF Next, vars, LookupRetry, FinishRunner, Crash, DelistVersion,
            EmergencyDisableVersion, ReportInstallation, MarkNotificationRead, Tick

\* The tables start with the invariant.
LEMMA InitReviewed == Init => ReviewedInv
<1>1. Init => OneOpenReview
  BY DEF Init, OneOpenReview, Pending, NoReview
<1>2. Init => ReviewedHeld
  BY DEF Init, ReviewedHeld, ReviewDecided, DigestsHeld, SnapshotHeld,
         ApprovalHeld, Pending, NoReview, Released
<1> QED BY <1>1, <1>2, InitType DEF ReviewedInv

\* The invariant holds over Postgres.
LEMMA ReviewedInvariant == Spec => []ReviewedInv
BY InitReviewed, NextReviewed, PTL DEF Spec

\* It says of a release what the property asks.
LEMMA ReviewedRelease == ReviewedInv => ReviewedBeforeRelease
BY DEF ReviewedInv, ReviewedHeld, ApprovalHeld, ReviewDecided, ReviewedBeforeRelease

\* A version waits for review exactly while one of its reviews is open,
\* whatever revisions, decisions and late results meet.
THEOREM OneOpenReviewHolds == Spec => []OneOpenReview
<1>1. ReviewedInv => OneOpenReview
  BY DEF ReviewedInv
<1> QED BY <1>1, ReviewedInvariant, PTL

\* What is released is what somebody other than its author, who may review,
\* approved, in each of its columns.
THEOREM ReviewedBeforeReleaseHolds == Spec => []ReviewedBeforeRelease
BY ReviewedRelease, ReviewedInvariant, PTL

-----------------------------------------------------------------------------
(* What Postgres keeps besides: the script targets that were validated *)

\* The result a run must have closed with for its version to come to review.
Advanced == IF ValidationMode = "manual" THEN "skipped" ELSE "passed"

\* A review that was ever opened is of a run that advanced, on the script
\* targets of that run.
ReviewTellsRun(i) ==
  review[i].status # "absent" =>
    /\ run[i].version = review[i].version
    /\ run[i].bundle = review[i].bundle
    /\ run[i].result = Advanced
    /\ review[i].manifest = review[i].bundle

\* A version under validation holds what its open run was begun with.
SubmissionHeld(v) ==
  lifecycle[v] = "validating" =>
    /\ manifest[v] = bundle[v]
    /\ \A i \in Running(v) : run[i].bundle = bundle[v]

ContentHeld ==
  /\ \A i \in RunId : ReviewTellsRun(i)
  /\ \A v \in Version : SubmissionHeld(v)

\* The strengthening that is inductive over Postgres.
ContentInv == ReviewedInv /\ ContentHeld

\* What ContentHeld reads of a run; a retry changes the rest.
SameRun(i) ==
  /\ run'[i].status = run[i].status /\ run'[i].version = run[i].version
  /\ run'[i].bundle = run[i].bundle /\ run'[i].result = run[i].result

\* Steps that open neither a run nor a review.
LEMMA ContentStays ==
  ASSUME ContentInv,
         \A i \in RunId :
           review[i].status # "absent" \/ run'[i].status = "running" => SameRun(i),
         \A i \in RunId : review'[i].status # "absent" =>
           /\ review[i].status # "absent" /\ review'[i].version = review[i].version
           /\ review'[i].bundle = review[i].bundle
           /\ review'[i].manifest = review[i].manifest,
         \A v \in Version : lifecycle'[v] = "validating" =>
           /\ lifecycle[v] = "validating"
           /\ manifest'[v] = manifest[v] /\ bundle'[v] = bundle[v]
  PROVE  ContentHeld'
<1>1. \A i \in RunId : ReviewTellsRun(i)'
  BY DEF ContentInv, ContentHeld, ReviewTellsRun, SameRun, Advanced
<1>2. \A v \in Version : Running(v)' \subseteq Running(v)
  BY DEF Running, SameRun
<1>3. \A v \in Version : SubmissionHeld(v)'
  BY <1>2 DEF ContentInv, ContentHeld, SubmissionHeld, SameRun, Running
<1> QED BY <1>1, <1>3 DEF ContentHeld

\* Steps of drafts, revisions and withdrawals: no run is touched.
LEMMA NoRunTouched ==
  ASSUME ContentInv, UNCHANGED run, UNCHANGED review \/ \E w \in Version : SupersedePending(w),
         \A v \in Version : lifecycle'[v] = "validating" =>
           /\ lifecycle[v] = "validating"
           /\ manifest'[v] = manifest[v] /\ bundle'[v] = bundle[v]
  PROVE  ContentHeld'
<1>1. \A i \in RunId : SameRun(i)
  BY DEF SameRun
<1>2. \A i \in RunId : review'[i].status # "absent" =>
        /\ review[i].status # "absent" /\ review'[i].version = review[i].version
        /\ review'[i].bundle = review[i].bundle
        /\ review'[i].manifest = review[i].manifest
  <2>1. ASSUME NEW w \in Version, SupersedePending(w), NEW i \in RunId
        PROVE  \/ review'[i] = review[i]
               \/ /\ review[i].status # "absent" /\ review'[i].version = review[i].version
                  /\ review'[i].bundle = review[i].bundle
                  /\ review'[i].manifest = review[i].manifest
    BY <2>1, SupersedeEffect DEF ContentInv, ReviewedInv, TypeOK, Pending
  <2> QED BY <2>1
<1> QED BY <1>1, <1>2, ContentStays

\* A submission: the run has the script targets of its version.
LEMMA BeginKeepsContent ==
  ASSUME ContentInv, NEW q \in Request, NEW u \in User, NEW v \in Version,
         BeginValidation(q, u, v)
  PROVE  ContentHeld'
<1>1. PICK i \in RunId :
        /\ run[i] = NoRun
        /\ run' = [run EXCEPT ![i] =
             [status |-> "running", version |-> v, requestedBy |-> u,
              bundle |-> bundle[v], attempts |-> <<"running">>,
              token |-> NoToken, claimedAt |-> 0, result |-> None]]
  BY DEF BeginValidation
<1>2. /\ run[i].status = "absent" /\ run'[i].version = v /\ run'[i].bundle = bundle[v]
      /\ \A j \in RunId \ {i} : run'[j] = run[j]
  BY <1>1 DEF ContentInv, ReviewedInv, TypeOK, NoRun
<1>3. /\ Running(v) = {} /\ UNCHANGED <<review, bundle>> /\ manifest'[v] = bundle[v]
      /\ \A w \in Version \ {v} : lifecycle'[w] = lifecycle[w] /\ manifest'[w] = manifest[w]
  BY DEF BeginValidation, ContentInv, ReviewedInv, TypeOK
<1>4. \A j \in RunId : ReviewTellsRun(j)'
  BY <1>2, <1>3
     DEF ContentInv, ReviewedInv, ReviewedHeld, ReviewDecided, ContentHeld,
         ReviewTellsRun, Advanced
<1>5. Running(v)' \subseteq {i} /\ \A w \in Version \ {v} : Running(w)' = Running(w)
  BY <1>2, <1>3 DEF Running
<1>6. SubmissionHeld(v)'
  BY <1>2, <1>3, <1>5 DEF SubmissionHeld
<1>7. \A w \in Version \ {v} : SubmissionHeld(w)'
  BY <1>2, <1>3, <1>5 DEF ContentInv, ContentHeld, SubmissionHeld, Running
<1> QED BY <1>4, <1>6, <1>7 DEF ContentHeld

\* A result that is accepted: the review it opens is of a run that advanced on
\* the script targets the version still has.
LEMMA AcceptKeepsContent ==
  ASSUME ContentInv, NEW q \in Request, req[q].pc = "completing",
         Completable(q), Complete(req[q].run, req[q].result), UNCHANGED contentVars
  PROVE  ContentHeld'
<1>1. PICK i \in RunId, result \in Outcomes : i = req[q].run /\ result = req[q].result
  BY DEF ContentInv, ReviewedInv, TypeOK, RequestState
<1>2. run[i].status = "running" /\ run[i] \in RunRow
  BY <1>1 DEF Completable, ContentInv, ReviewedInv, TypeOK
<1>3. PICK v \in Version : v = run[i].version
  BY <1>2 DEF RunRow
<1>4. /\ \A j \in RunId \ {i} : run'[j] = run[j]
      /\ run'[i].status \notin {"absent", "running"} /\ run'[i].version = v
      /\ run'[i].bundle = run[i].bundle /\ run'[i].result = result
  BY ZenonT(30), <1>1, <1>3, CloseRunEffect, FinalStatusType
     DEF Complete, ContentInv, ReviewedInv, TypeOK
<1>5. /\ lifecycle[v] = "validating" /\ review[i].status = "absent"
      /\ manifest[v] = bundle[v] /\ run[i].bundle = bundle[v]
  BY <1>1, <1>2, <1>3
     DEF Completable, ContentInv, ReviewedInv, ReviewedHeld, ReviewDecided,
         ContentHeld, SubmissionHeld, Running
<1>6. /\ lifecycle'[v] # "validating"
      /\ \A w \in Version \ {v} : lifecycle'[w] = lifecycle[w]
  BY <1>1, <1>3 DEF Complete, ContentInv, ReviewedInv, TypeOK
<1>7. CASE Advances(result)
  <2>1. result = Advanced
    BY <1>7 DEF Advances, ExactlyPassed, Outcomes, Advanced
  <2>2. review' = [review EXCEPT ![i] =
             [status |-> "pending", version |-> v, author |-> Author[v],
              notes |-> notes[v], manifest |-> manifest[v], bundle |-> bundle[v],
              reviewer |-> None]]
    BY <1>1, <1>3, <1>7 DEF Complete, OpenReview
  <2>3. /\ review'[i].version = v
        /\ review'[i].manifest = manifest[v] /\ review'[i].bundle = bundle[v]
        /\ \A j \in RunId \ {i} : review'[j] = review[j]
    BY <2>2 DEF ContentInv, ReviewedInv, TypeOK
  <2>4. ReviewTellsRun(i)'
    BY <1>4, <1>5, <2>1, <2>3 DEF ReviewTellsRun, Advanced
  <2>5. \A j \in RunId \ {i} : ReviewTellsRun(j)'
    BY <1>4, <2>3 DEF ContentInv, ContentHeld, ReviewTellsRun, Advanced
  <2>6. \A w \in Version : Running(w)' \subseteq Running(w) \ {i}
    BY <1>4 DEF Running
  <2>7. \A w \in Version : SubmissionHeld(w)'
    BY <1>4, <1>6, <2>6
       DEF ContentInv, ContentHeld, SubmissionHeld, Running, contentVars
  <2> QED BY <2>4, <2>5, <2>7 DEF ContentHeld
<1>8. CASE ~Advances(result)
  <2>1. UNCHANGED review
    BY <1>1, <1>8 DEF Complete
  <2>2. \A j \in RunId :
          review[j].status # "absent" \/ run'[j].status = "running" => SameRun(j)
    BY <1>4, <1>5 DEF SameRun
  <2> QED BY <1>6, <2>1, <2>2, ContentStays DEF contentVars
<1> QED BY <1>7, <1>8

\* Every step of Governance keeps the invariant.
LEMMA NextContent == ContentInv /\ [Next]_vars => ContentInv'
<1> SUFFICES ASSUME ContentInv, [Next]_vars
             PROVE  ContentHeld'
  BY NextReviewed DEF ContentInv
<1>1. CASE UNCHANGED <<lifecycle, contentVars, run, review>>
  BY <1>1, NoRunTouched DEF contentVars
<1>2. ASSUME NEW v \in Version, NEW b \in Bundle \cup {None}, EditScriptTargets(v, b)
      PROVE  ContentHeld'
  <2>1. \A w \in Version : lifecycle'[w] = "validating" =>
          lifecycle[w] = "validating" /\ manifest'[w] = manifest[w] /\ bundle'[w] = bundle[w]
    BY <1>2 DEF EditScriptTargets, Editable, ContentInv, ReviewedInv, TypeOK
  <2> QED BY <1>2, <2>1, NoRunTouched DEF EditScriptTargets
<1>3. ASSUME NEW v \in Version,
             \/ \E n \in Notes : \E d \in Bundle \cup {digest[v]} : UpdateVersionContent(v, n, d)
             \/ \E u \in User : ReviseVersion(u, v)
      PROVE  ContentHeld'
  <2>1. UNCHANGED <<manifest, bundle, run>>
    BY <1>3 DEF UpdateVersionContent, ReviseVersion, contentVars
  <2>2. \A w \in Version : lifecycle'[w] = "validating" => lifecycle[w] = "validating"
    BY <1>3 DEF UpdateVersionContent, ReviseVersion, ContentInv, ReviewedInv, TypeOK
  <2>3. UNCHANGED review \/ SupersedePending(v)
    BY <1>3 DEF UpdateVersionContent, ReviseVersion
  <2> QED BY <2>1, <2>2, <2>3, NoRunTouched
<1>4. ASSUME NEW q \in Request, NEW u \in User, NEW v \in Version, BeginValidation(q, u, v)
      PROVE  ContentHeld'
  BY <1>4, BeginKeepsContent
<1>5. ASSUME NEW q \in Request, ClaimRetry(q)
      PROVE  ContentHeld'
  <2>1. \A i \in RunId : SameRun(i)
    BY <1>5, ClaimRetryEffect DEF ContentInv, ReviewedInv, SameRun
  <2> QED BY <1>5, <2>1, ContentStays DEF ClaimRetry, contentVars
<1>6. ASSUME NEW q \in Request, CompleteValidation(q)
      PROVE  ContentHeld'
  BY <1>1, <1>6, AcceptKeepsContent DEF CompleteValidation
<1>7. ASSUME NEW u \in User, NEW i \in RunId, ApproveReview(u, i) \/ RejectReview(u, i)
      PROVE  ContentHeld'
  <2>1. \A j \in RunId : SameRun(j)
    BY <1>7 DEF ApproveReview, RejectReview, SameRun
  <2>2. \A j \in RunId : review'[j].status # "absent" =>
          /\ review[j].status # "absent" /\ review'[j].version = review[j].version
          /\ review'[j].bundle = review[j].bundle
          /\ review'[j].manifest = review[j].manifest
    <3>1. \A j \in RunId \ {i} : review'[j] = review[j]
      BY <1>7 DEF ApproveReview, RejectReview, ContentInv, ReviewedInv, TypeOK
    <3>2. /\ review[i].status = "pending" /\ review'[i].version = review[i].version
          /\ review'[i].bundle = review[i].bundle
          /\ review'[i].manifest = review[i].manifest
      BY <1>7 DEF ApproveReview, RejectReview, ContentInv, ReviewedInv, TypeOK, ReviewRow
    <3> QED BY <3>1, <3>2
  <2>3. \A w \in Version : lifecycle'[w] = "validating" =>
          /\ lifecycle[w] = "validating" /\ w # review[i].version
    BY <1>7 DEF ApproveReview, RejectReview, ContentInv, ReviewedInv, TypeOK
  <2>4. \A w \in Version :
          w # review[i].version => manifest'[w] = manifest[w] /\ bundle'[w] = bundle[w]
    BY <1>7 DEF ApproveReview, RejectReview, contentVars, ContentInv, ReviewedInv, TypeOK
  <2> QED BY <2>1, <2>2, <2>3, <2>4, ContentStays
<1>8. ASSUME NEW u \in User, NEW v \in Version,
             \/ DeprecateVersion(u, v)
             \/ DelistVersion(u, v)
             \/ EmergencyDisableVersion(u, v)
      PROVE  ContentHeld'
  <2>1. \A w \in Version : lifecycle'[w] = "validating" => lifecycle[w] = "validating"
    BY <1>8 DEF DeprecateVersion, DelistVersion, EmergencyDisableVersion, Withdraw,
                ContentInv, ReviewedInv, TypeOK
  <2>2. UNCHANGED <<contentVars, run, review>>
    BY <1>8 DEF DeprecateVersion, DelistVersion, EmergencyDisableVersion, Withdraw
  <2> QED BY <2>1, <2>2, NoRunTouched DEF contentVars
<1> QED BY <1>1, <1>2, <1>3, <1>4, <1>5, <1>6, <1>7, <1>8
        DEF Next, vars, LookupRetry, FinishRunner, Crash, ReportInstallation,
            MarkNotificationRead, Tick

\* The invariant holds.
LEMMA ContentInvariant == Spec => []ContentInv
<1>1. Init => ContentInv
  <2>1. Init => ContentHeld
    BY DEF Init, ContentHeld, ReviewTellsRun, SubmissionHeld, NoReview
  <2> QED BY <2>1, InitReviewed DEF ContentInv
<1> QED BY <1>1, NextContent, PTL DEF Spec

\* What is under review or released was validated on the script targets it
\* holds, by a run that passed, or in manual mode was skipped.
THEOREM ValidatedBeforeReleaseHolds == Spec => []ValidatedBeforeRelease
<1>1. ASSUME ContentInv, NEW v \in Version,
             lifecycle[v] \in Released \cup {"review_required"}
      PROVE  \E i \in RunId :
               /\ review[i].status \in {"pending", "approved"} /\ review[i].version = v
               /\ run[i].version = v /\ run[i].bundle = bundle[v]
               /\ manifest[v] = bundle[v]
               /\ run[i].result = Advanced
  <2>1. PICK i \in RunId :
          /\ review[i].status \in {"pending", "approved"} /\ review[i].version = v
          /\ review[i].bundle = bundle[v] /\ review[i].manifest = manifest[v]
    <3>1. CASE lifecycle[v] \in Released
      BY <1>1, <3>1 DEF ContentInv, ReviewedInv, ReviewedHeld, ApprovalHeld
    <3>2. CASE lifecycle[v] = "review_required"
      <4>1. PICK i \in RunId : i \in Pending(v)
        BY <1>1, <3>2 DEF ContentInv, ReviewedInv, OneOpenReview
      <4> QED BY <1>1, <4>1 DEF ContentInv, ReviewedInv, ReviewedHeld, SnapshotHeld, Pending
    <3> QED BY <1>1, <3>1, <3>2
  <2> QED BY <1>1, <2>1 DEF ContentInv, ContentHeld, ReviewTellsRun
<1>2. ContentInv => ValidatedBeforeRelease
  BY <1>1 DEF ValidatedBeforeRelease, Advanced
<1> QED BY <1>2, ContentInvariant, PTL

-----------------------------------------------------------------------------
(* The outbox *)

\* In manual mode a skipped validation is logged as a failed one although the
\* version goes on to review.
SkipLogged(v) ==
  /\ ValidationMode = "manual"
  /\ log[v].type = "version.validation_failed" /\ lifecycle[v] = "review_required"

\* EventsTellLifecycle, that one event excepted: inductive in both modes.
EventsTellUpToSkips ==
  \A v \in Version :
    /\ log[v].lifecycle = lifecycle[v]
    /\ <<log[v].type, lifecycle[v]>> \in EventStates \/ SkipLogged(v)

\* A transaction that moves a version and appends the event of the move.
LEMMA EventStep ==
  ASSUME TypeOK, EventsTellUpToSkips, NEW v \in Version, NEW type, NEW state,
         lifecycle' = [lifecycle EXCEPT ![v] = state], AppendEvent(v, type, state),
         \/ <<type, state>> \in EventStates
         \/ /\ ValidationMode = "manual" /\ type = "version.validation_failed"
            /\ state = "review_required"
  PROVE  EventsTellUpToSkips'
<1>1. /\ lifecycle'[v] = state /\ log'[v].type = type /\ log'[v].lifecycle = state
      /\ \A w \in Version \ {v} : lifecycle'[w] = lifecycle[w] /\ log'[w] = log[w]
  BY DEF TypeOK, AppendEvent
<1>2. EventStates' = EventStates
  BY DEF EventStates
<1> QED BY <1>1, <1>2 DEF EventsTellUpToSkips, SkipLogged

\* Every step appends the event that tells where it leaves the version.
LEMMA NextEvents == TypeOK /\ EventsTellUpToSkips /\ [Next]_vars => EventsTellUpToSkips'
<1> SUFFICES ASSUME TypeOK, EventsTellUpToSkips, [Next]_vars
             PROVE  EventsTellUpToSkips'
  OBVIOUS
<1>1. CASE UNCHANGED <<lifecycle, log>>
  BY <1>1 DEF EventsTellUpToSkips, SkipLogged, EventStates
<1>2. ASSUME NEW v \in Version, NEW n \in Notes, NEW d \in Bundle \cup {digest[v]},
             UpdateVersionContent(v, n, d)
      PROVE  EventsTellUpToSkips'
  <2>1. CASE /\ lifecycle[v] = "draft" /\ UNCHANGED lifecycle
             /\ AppendEvent(v, "version.updated", "draft")
    <3>1. lifecycle' = [lifecycle EXCEPT ![v] = "draft"]
      BY <2>1 DEF TypeOK
    <3> QED BY <2>1, <3>1, EventStep DEF EventStates
  <2>2. CASE /\ lifecycle' = [lifecycle EXCEPT ![v] = "draft"]
             /\ AppendEvent(v, "version.revised", "draft")
    BY <2>2, EventStep DEF EventStates
  <2> QED BY <1>2, <2>1, <2>2 DEF UpdateVersionContent
<1>3. ASSUME NEW u \in User, NEW v \in Version, ReviseVersion(u, v)
      PROVE  EventsTellUpToSkips'
  BY <1>3, EventStep DEF ReviseVersion, EventStates
<1>4. ASSUME NEW q \in Request, NEW u \in User, NEW v \in Version,
             BeginValidation(q, u, v)
      PROVE  EventsTellUpToSkips'
  BY <1>4, EventStep DEF BeginValidation, EventStates
<1>5. ASSUME NEW q \in Request, ClaimRetry(q)
      PROVE  EventsTellUpToSkips'
  <2>1. CASE /\ Claimable(run[req[q].run], req[q].stamp)
             /\ AppendEvent(run[req[q].run].version, "version.validation_retry_started",
                            lifecycle[run[req[q].run].version])
    <3>1. PICK v \in Version : v = run[req[q].run].version
      BY <1>5, <2>1 DEF ClaimRetry, Claimable, TypeOK, RequestState, RunRow
    <3>2. lifecycle[v] = "validating"
      BY <2>1, <3>1 DEF Claimable
    <3>3. lifecycle' = [lifecycle EXCEPT ![v] = "validating"]
      BY <1>5, <3>2 DEF ClaimRetry, TypeOK
    <3> QED BY <2>1, <3>1, <3>2, <3>3, EventStep DEF EventStates
  <2> QED BY <1>1, <1>5, <2>1 DEF ClaimRetry
<1>6. ASSUME NEW q \in Request, CompleteValidation(q)
      PROVE  EventsTellUpToSkips'
  <2>1. CASE Completable(q) /\ Complete(req[q].run, req[q].result)
    <3>1. PICK i \in RunId, result \in Outcomes : i = req[q].run /\ result = req[q].result
      BY <1>6 DEF CompleteValidation, TypeOK, RequestState
    <3>2. PICK v \in Version : v = run[i].version
      BY <2>1, <3>1 DEF Completable, TypeOK, RunRow
    <3>3. CASE ExactlyPassed(result)
      <4>1. /\ lifecycle' = [lifecycle EXCEPT ![v] = "review_required"]
            /\ AppendEvent(v, "version.review_requested", "review_required")
        BY <2>1, <3>1, <3>2, <3>3 DEF Complete, LogCompletion, Advances
      <4> QED BY <4>1, EventStep DEF EventStates
    <3>4. CASE result = "skipped"
      <4>1. /\ lifecycle' = [lifecycle EXCEPT ![v] = "review_required"]
            /\ AppendEvent(v, "version.validation_failed", "review_required")
        BY <2>1, <3>1, <3>2, <3>4 DEF Complete, LogCompletion, Advances, ExactlyPassed
      <4>2. ValidationMode = "manual"
        BY <3>4 DEF Outcomes
      <4> QED BY <4>1, <4>2, EventStep
    <3>5. CASE ~Advances(result)
      <4>1. /\ lifecycle' = [lifecycle EXCEPT ![v] = "draft"]
            /\ AppendEvent(v, "version.validation_failed", "draft")
        BY <2>1, <3>1, <3>2, <3>5 DEF Complete, LogCompletion, Advances
      <4> QED BY <4>1, EventStep DEF EventStates
    <3> QED BY <3>3, <3>4, <3>5 DEF Advances
  <2> QED BY <1>1, <1>6, <2>1 DEF CompleteValidation
<1>7. ASSUME NEW u \in User, NEW i \in RunId, ApproveReview(u, i) \/ RejectReview(u, i)
      PROVE  EventsTellUpToSkips'
  <2>1. PICK v \in Version : v = review[i].version
    BY <1>7 DEF ApproveReview, RejectReview, TypeOK, ReviewRow
  <2> QED BY <1>7, <2>1, EventStep DEF ApproveReview, RejectReview, EventStates
<1>8. ASSUME NEW u \in User, NEW v \in Version, DeprecateVersion(u, v)
      PROVE  EventsTellUpToSkips'
  BY <1>8, EventStep DEF DeprecateVersion, EventStates
<1>9. ASSUME NEW u \in User, NEW v \in Version,
             DelistVersion(u, v) \/ EmergencyDisableVersion(u, v)
      PROVE  EventsTellUpToSkips'
  BY <1>9, EventStep DEF DelistVersion, EmergencyDisableVersion, Withdraw, EventStates
<1> QED BY <1>1, <1>2, <1>3, <1>4, <1>5, <1>6, <1>7, <1>8, <1>9
        DEF Next, vars, EditScriptTargets, LookupRetry, FinishRunner, Crash,
            ReportInstallation, MarkNotificationRead, Tick

\* In either mode the payload of the newest event is the state of the version,
\* and its type says the same but for a validation that was skipped.
THEOREM EventsTellUpToSkipsHolds == Spec => []EventsTellUpToSkips
<1>1. Init => EventsTellUpToSkips
  BY DEF Init, EventsTellUpToSkips, EventStates
<1> QED BY <1>1, NextEvents, TypeCorrect, PTL DEF Spec

\* With an automated runner the outbox alone tells the lifecycle.
THEOREM EventsTellLifecycleHolds ==
  ASSUME ValidationMode = "automated"
  PROVE  Spec => []EventsTellLifecycle
<1>1. EventsTellUpToSkips => EventsTellLifecycle
  BY DEF EventsTellUpToSkips, EventsTellLifecycle, SkipLogged
<1> QED BY <1>1, EventsTellUpToSkipsHolds, PTL

-----------------------------------------------------------------------------
(* Notices *)

\* Notifying turns missing notices of the recipients into unread ones and
\* changes no other.
LEMMA NotifyEffect ==
  ASSUME NEW recipients, NEW type, NEW v, Notify(recipients, type, v),
         NEW u \in User, NEW t \in NoticeTypes, NEW w \in Version
  PROVE  notice'[<<u, t, w>>] =
           IF u \in recipients /\ t = type /\ w = v /\ notice[<<u, t, w>>] = "none"
           THEN "unread" ELSE notice[<<u, t, w>>]
BY DEF Notify

\* A new notice comes from the step that it is about.
LEMMA NoticeWriters ==
  ASSUME TypeOK, [Next]_vars, NEW u \in User, NEW t \in NoticeTypes, NEW w \in Version,
         notice[<<u, t, w>>] = "none", notice'[<<u, t, w>>] # "none"
  PROVE  \/ /\ t = "version_published"
            /\ \E x \in User, i \in RunId :
                 /\ ApproveReview(x, i) /\ review[i].version = w
                 /\ u # review[i].author
         \/ /\ t = "version_delisted" /\ <<u, w>> \in installs
            /\ lifecycle'[w] = "delisted"
         \/ /\ t = "version_emergency_disabled" /\ <<u, w>> \in installs
            /\ lifecycle'[w] = "emergency_disabled"
<1>1. ASSUME NEW x \in User, NEW i \in RunId, ApproveReview(x, i)
      PROVE  /\ t = "version_published" /\ review[i].version = w
             /\ u # review[i].author
  <2>1. Notify(OtherInstallers(review[i].version, review[i].author),
               "version_published", review[i].version)
    BY <1>1 DEF ApproveReview
  <2>2. /\ u \in OtherInstallers(review[i].version, review[i].author)
        /\ t = "version_published" /\ w = review[i].version
    BY <2>1, NotifyEffect
  <2> QED BY <2>2 DEF OtherInstallers
<1>2. ASSUME NEW v \in Version, NEW event, NEW to, NEW type, NEW outcome,
             Withdraw(v, event, to, type, outcome)
      PROVE  /\ t = type /\ <<u, w>> \in installs /\ lifecycle'[w] = to
  <2>1. u \in InstallersOf(v) /\ t = type /\ w = v
    BY <1>2, NotifyEffect DEF Withdraw
  <2> QED BY <1>2, <2>1 DEF Withdraw, InstallersOf, TypeOK
<1>3. ASSUME NEW k \in User \X NoticeTypes \X Version, MarkNotificationRead(k)
      PROVE  FALSE
  BY <1>3 DEF MarkNotificationRead, TypeOK
<1>4. notice' # notice
  OBVIOUS
<1> QED BY <1>1, <1>2, <1>3, <1>4
        DEF Next, vars, noticeVars, EditScriptTargets, UpdateVersionContent,
            ReviseVersion, BeginValidation, LookupRetry, ClaimRetry, FinishRunner,
            CompleteValidation, Crash, RejectReview, DeprecateVersion,
            DelistVersion, EmergencyDisableVersion, ReportInstallation, Tick

\* An approved review stays as it is: its run is closed, so no result can open
\* another review in its place, and no revision closes it.
LEMMA ApprovedStays ==
  ASSUME ReviewedInv, [Next]_vars, NEW i \in RunId, review[i].status = "approved"
  PROVE  review'[i] = review[i]
<1>1. ASSUME NEW v \in Version, SupersedePending(v)
      PROVE  review'[i] = review[i]
  BY <1>1 DEF SupersedePending, Pending
<1>2. ASSUME NEW q \in Request, Completable(q), Complete(req[q].run, req[q].result)
      PROVE  review'[i] = review[i]
  <2>1. i # req[q].run
    BY <1>2 DEF Completable, ReviewedInv, ReviewedHeld, ReviewDecided
  <2> QED BY <1>2, <2>1 DEF Complete, OpenReview, ReviewedInv, TypeOK
<1>3. ASSUME NEW u \in User, NEW j \in RunId, ApproveReview(u, j) \/ RejectReview(u, j)
      PROVE  review'[i] = review[i]
  <2>1. i # j
    BY <1>3 DEF ApproveReview, RejectReview
  <2> QED BY <1>3, <2>1 DEF ApproveReview, RejectReview, ReviewedInv, TypeOK
<1> QED BY <1>1, <1>2, <1>3
        DEF Next, vars, EditScriptTargets, UpdateVersionContent, ReviseVersion,
            BeginValidation, LookupRetry, ClaimRetry, FinishRunner,
            CompleteValidation, Crash, DeprecateVersion, DelistVersion,
            EmergencyDisableVersion, Withdraw, ReportInstallation,
            MarkNotificationRead, Tick

\* What was withdrawn stays withdrawn, and what was disabled stays disabled.
LEMMA WithdrawnStays ==
  ASSUME TypeOK, [Next]_vars, NEW v \in Version,
         lifecycle[v] \in {"delisted", "emergency_disabled"}
  PROVE  \/ lifecycle'[v] = lifecycle[v]
         \/ lifecycle'[v] = "emergency_disabled"
<1>1. ASSUME NEW w \in Version, NEW event, NEW to, Moves(lifecycle[w], event, to),
             lifecycle' = [lifecycle EXCEPT ![w] = to]
      PROVE  lifecycle'[v] = lifecycle[v] \/ lifecycle'[v] = "emergency_disabled"
  <2>1. lifecycle[w] \in {"delisted", "emergency_disabled"} => to = "emergency_disabled"
    BY <1>1 DEF Moves, Transitions
  <2> QED BY <1>1, <2>1 DEF TypeOK
<1>2. ASSUME NEW w \in Version, lifecycle[w] \notin {"delisted", "emergency_disabled"},
             NEW to, lifecycle' = [lifecycle EXCEPT ![w] = to]
      PROVE  lifecycle'[v] = lifecycle[v]
  BY <1>2 DEF TypeOK
<1>3. ASSUME NEW q \in Request, Completable(q), Complete(req[q].run, req[q].result)
      PROVE  lifecycle'[v] = lifecycle[v]
  BY <1>3 DEF Completable, Complete, TypeOK
<1>4. ASSUME NEW u \in User, NEW i \in RunId, ApproveReview(u, i) \/ RejectReview(u, i)
      PROVE  lifecycle'[v] = lifecycle[v]
  BY <1>4 DEF ApproveReview, RejectReview, TypeOK
<1>5. ASSUME NEW w \in Version, NEW n \in Notes, NEW d \in Bundle \cup {digest[w]},
             UpdateVersionContent(w, n, d)
      PROVE  lifecycle'[v] = lifecycle[v] \/ lifecycle'[v] = "emergency_disabled"
  BY <1>1, <1>5 DEF UpdateVersionContent
<1>6. ASSUME NEW u \in User, NEW w \in Version,
             \/ ReviseVersion(u, w)
             \/ DelistVersion(u, w)
             \/ EmergencyDisableVersion(u, w)
      PROVE  lifecycle'[v] = lifecycle[v] \/ lifecycle'[v] = "emergency_disabled"
  BY <1>1, <1>6 DEF ReviseVersion, DelistVersion, EmergencyDisableVersion, Withdraw
<1>7. ASSUME NEW u \in User, NEW w \in Version,
             DeprecateVersion(u, w) \/ \E q \in Request : BeginValidation(q, u, w)
      PROVE  lifecycle'[v] = lifecycle[v]
  BY <1>2, <1>7 DEF DeprecateVersion, BeginValidation
<1>8. ASSUME NEW q \in Request, CompleteValidation(q)
      PROVE  lifecycle'[v] = lifecycle[v]
  BY <1>3, <1>8 DEF CompleteValidation
<1> QED BY <1>4, <1>5, <1>6, <1>7, <1>8
        DEF Next, vars, EditScriptTargets, LookupRetry, ClaimRetry, FinishRunner,
            Crash, ReportInstallation, MarkNotificationRead, Tick

\* Installations are only ever added.
LEMMA InstallsStay == [Next]_vars => installs \subseteq installs'
BY DEF Next, vars, noticeVars, EditScriptTargets, UpdateVersionContent,
       ReviseVersion, BeginValidation, LookupRetry, ClaimRetry, FinishRunner,
       CompleteValidation, Crash, ApproveReview, RejectReview, DeprecateVersion,
       DelistVersion, EmergencyDisableVersion, Withdraw, ReportInstallation,
       MarkNotificationRead, Tick

\* A notice, once there, keeps its cause, and a new one has one.
LEMMA NextNotices == ReviewedInv /\ NoticesHaveCause /\ [Next]_vars => NoticesHaveCause'
<1> SUFFICES ASSUME ReviewedInv, NoticesHaveCause, [Next]_vars,
                    NEW u \in User, NEW v \in Version
             PROVE  /\ notice'[<<u, "version_published", v>>] # "none" =>
                         u # Author[v] /\ WasApproved(v)'
                    /\ notice'[<<u, "version_delisted", v>>] # "none" =>
                         /\ <<u, v>> \in installs'
                         /\ lifecycle'[v] \in {"delisted", "emergency_disabled"}
                    /\ notice'[<<u, "version_emergency_disabled", v>>] # "none" =>
                         <<u, v>> \in installs' /\ lifecycle'[v] = "emergency_disabled"
  BY DEF NoticesHaveCause
<1>1. TypeOK /\ installs \subseteq installs'
  BY InstallsStay DEF ReviewedInv
<1>2. ASSUME notice'[<<u, "version_published", v>>] # "none"
      PROVE  u # Author[v] /\ WasApproved(v)'
  <2>1. CASE notice[<<u, "version_published", v>>] = "none"
    <3>1. PICK x \in User, i \in RunId :
            ApproveReview(x, i) /\ review[i].version = v /\ u # review[i].author
      BY <1>1, <1>2, <2>1, NoticeWriters DEF NoticeTypes
    <3>2. review'[i].status = "approved" /\ review'[i].version = v
      BY <1>1, <3>1 DEF ApproveReview, TypeOK, ReviewRow
    <3>3. review[i].author = Author[v]
      BY <3>1 DEF ApproveReview, ReviewedInv, ReviewedHeld, ReviewDecided
    <3> QED BY <3>1, <3>2, <3>3 DEF WasApproved
  <2>2. CASE notice[<<u, "version_published", v>>] # "none"
    <3>1. u # Author[v] /\ WasApproved(v)
      BY <2>2 DEF NoticesHaveCause
    <3>2. WasApproved(v)'
      BY <3>1, ApprovedStays DEF WasApproved
    <3> QED BY <3>1, <3>2
  <2> QED BY <2>1, <2>2
<1>3. ASSUME notice'[<<u, "version_delisted", v>>] # "none"
      PROVE  /\ <<u, v>> \in installs'
             /\ lifecycle'[v] \in {"delisted", "emergency_disabled"}
  <2>1. CASE notice[<<u, "version_delisted", v>>] = "none"
    BY <1>1, <1>3, <2>1, NoticeWriters DEF NoticeTypes
  <2>2. CASE notice[<<u, "version_delisted", v>>] # "none"
    BY <1>1, <2>2, WithdrawnStays DEF NoticesHaveCause
  <2> QED BY <2>1, <2>2
<1>4. ASSUME notice'[<<u, "version_emergency_disabled", v>>] # "none"
      PROVE  <<u, v>> \in installs' /\ lifecycle'[v] = "emergency_disabled"
  <2>1. CASE notice[<<u, "version_emergency_disabled", v>>] = "none"
    BY <1>1, <1>4, <2>1, NoticeWriters DEF NoticeTypes
  <2>2. CASE notice[<<u, "version_emergency_disabled", v>>] # "none"
    BY <1>1, <2>2, WithdrawnStays DEF NoticesHaveCause
  <2> QED BY <2>1, <2>2
<1> QED BY <1>2, <1>3, <1>4

\* Nobody is told of a release that was not approved or of a withdrawal that
\* did not happen, and no withdrawal notice goes to one who did not install.
THEOREM NoticesHaveCauseHolds == Spec => []NoticesHaveCause
<1>1. Init => NoticesHaveCause
  BY DEF Init, NoticesHaveCause, NoticeTypes
<1> QED BY <1>1, NextNotices, ReviewedInvariant, PTL DEF Spec

\* The step that withdraws a version leaves an unread notice with each of its
\* installers: none of them can have one from before, read or not, because a
\* version is withdrawn in one way at most once.
THEOREM ReachesInstallersHolds == Spec => [][ReachesInstallers]_vars
<1>1. ASSUME TypeOK, NoticesHaveCause, [Next]_vars, NEW u \in User, NEW v \in Version,
             lifecycle'[v] # lifecycle[v], <<u, v>> \in installs,
             lifecycle'[v] \in {"delisted", "emergency_disabled"}
      PROVE  /\ lifecycle'[v] = "delisted" =>
                  notice'[<<u, "version_delisted", v>>] = "unread"
             /\ lifecycle'[v] = "emergency_disabled" =>
                  notice'[<<u, "version_emergency_disabled", v>>] = "unread"
  <2>1. \E x \in User, w \in Version : DelistVersion(x, w) \/ EmergencyDisableVersion(x, w)
    <3>1. ASSUME NEW w \in Version, NEW to, to \notin {"delisted", "emergency_disabled"},
                 lifecycle' = [lifecycle EXCEPT ![w] = to]
          PROVE  FALSE
      BY <1>1, <3>1 DEF TypeOK
    <3>2. ASSUME NEW q \in Request, CompleteValidation(q)
          PROVE  FALSE
      BY <1>1, <3>2 DEF CompleteValidation, Complete, TypeOK
    <3>3. ASSUME NEW x \in User, NEW i \in RunId, ApproveReview(x, i) \/ RejectReview(x, i)
          PROVE  FALSE
      BY <1>1, <3>3 DEF ApproveReview, RejectReview, TypeOK
    <3>4. ASSUME NEW w \in Version, NEW n \in Notes, NEW d \in Bundle \cup {digest[w]},
                 UpdateVersionContent(w, n, d)
          PROVE  FALSE
      BY <1>1, <3>1, <3>4 DEF UpdateVersionContent
    <3>5. ASSUME NEW x \in User, NEW w \in Version,
                 \/ ReviseVersion(x, w) \/ DeprecateVersion(x, w)
                 \/ \E q \in Request : BeginValidation(q, x, w)
          PROVE  FALSE
      BY <3>1, <3>5 DEF ReviseVersion, DeprecateVersion, BeginValidation
    <3> QED BY <1>1, <3>2, <3>3, <3>4, <3>5
            DEF Next, vars, EditScriptTargets, LookupRetry, ClaimRetry,
                FinishRunner, Crash, ReportInstallation, MarkNotificationRead, Tick
  <2>2. PICK x \in User, w \in Version : DelistVersion(x, w) \/ EmergencyDisableVersion(x, w)
    BY <2>1
  <2>3. w = v
    BY <1>1, <2>2 DEF DelistVersion, EmergencyDisableVersion, Withdraw, TypeOK
  <2>4. notice \in [User \X NoticeTypes \X Version -> {"none", "unread", "read"}]
    BY <1>1 DEF TypeOK
  <2>5. u \in InstallersOf(v)
    BY <1>1 DEF InstallersOf
  <2>6. CASE DelistVersion(x, v)
    <3>1. lifecycle[v] \notin {"delisted", "emergency_disabled"} /\ lifecycle'[v] = "delisted"
      BY <1>1, <2>6 DEF DelistVersion, Withdraw, Moves, Transitions, TypeOK
    <3>2. notice[<<u, "version_delisted", v>>] = "none"
      BY <1>1, <3>1 DEF NoticesHaveCause
    <3> QED BY <2>5, <2>6, <3>1, <3>2, NotifyEffect DEF DelistVersion, Withdraw, NoticeTypes
  <2>7. CASE EmergencyDisableVersion(x, v)
    <3>1. lifecycle'[v] = "emergency_disabled" /\ lifecycle[v] # "emergency_disabled"
      BY <1>1, <2>7 DEF EmergencyDisableVersion, Withdraw, TypeOK
    <3>2. notice[<<u, "version_emergency_disabled", v>>] = "none"
      BY <1>1, <3>1 DEF NoticesHaveCause
    <3> QED BY <2>5, <2>7, <3>1, <3>2, NotifyEffect
            DEF EmergencyDisableVersion, Withdraw, NoticeTypes
  <2> QED BY <2>2, <2>3, <2>6, <2>7
<1>2. TypeOK /\ NoticesHaveCause /\ [Next]_vars => [ReachesInstallers]_vars
  BY <1>1 DEF ReachesInstallers
<1> QED BY <1>2, TypeCorrect, NoticesHaveCauseHolds, PTL DEF Spec

\* A notice that was read is never unread again.
THEOREM KeepsReadHolds == Spec => [][KeepsRead]_vars
<1>1. ASSUME TypeOK, [Next]_vars, NEW k \in DOMAIN notice, notice[k] = "read"
      PROVE  notice'[k] = "read"
  <2>1. /\ k \in User \X NoticeTypes \X Version
        /\ notice \in [User \X NoticeTypes \X Version -> {"none", "unread", "read"}]
    BY <1>1 DEF TypeOK
  <2>2. ASSUME NEW recipients, NEW type, NEW v, Notify(recipients, type, v)
        PROVE  notice'[k] = "read"
    BY <1>1, <2>1, <2>2 DEF Notify
  <2>3. ASSUME NEW m \in User \X NoticeTypes \X Version, MarkNotificationRead(m)
        PROVE  notice'[k] = "read"
    BY <1>1, <2>1, <2>3 DEF MarkNotificationRead
  <2>4. ASSUME UNCHANGED notice PROVE notice'[k] = "read"
    BY <1>1, <2>4
  <2> QED BY <1>1, <2>2, <2>3, <2>4
          DEF Next, vars, noticeVars, EditScriptTargets, UpdateVersionContent,
              ReviseVersion, BeginValidation, LookupRetry, ClaimRetry, FinishRunner,
              CompleteValidation, Crash, ApproveReview, RejectReview,
              DeprecateVersion, DelistVersion, EmergencyDisableVersion, Withdraw,
              ReportInstallation, Tick
<1>2. TypeOK /\ [Next]_vars => [KeepsRead]_vars
  BY <1>1 DEF KeepsRead
<1> QED BY <1>2, TypeCorrect, PTL DEF Spec

-----------------------------------------------------------------------------
(* Refinement *)

\* A step that changes neither the lifecycle nor the content of a version that
\* is frozen or served is no step of PublicationLifecycle.
LEMMA StutterStep ==
  ASSUME TypeOK, UNCHANGED lifecycle,
         \A v \in Version : SameContent(v) \/ lifecycle[v] = "draft"
  PROVE  UNCHANGED <<lifecycle, Frozen, Served>>
<1>1. \A v \in Version : lifecycle[v] # "draft" => ContentOf(v)' = ContentOf(v)
  BY DEF SameContent, ContentOf
<1>2. UNCHANGED Frozen
  BY <1>1 DEF Frozen
<1>3. UNCHANGED Served
  BY <1>1 DEF Served
<1> QED BY <1>2, <1>3

\* What a step does to the version it moves, the others keeping lifecycle and
\* content, as PublicationLifecycle sees it.
LEMMA MoveStep ==
  ASSUME TypeOK, NEW v \in Version, NEW to \in Lifecycles,
         lifecycle' = [lifecycle EXCEPT ![v] = to],
         \A w \in Version \ {v} : SameContent(w)
  PROVE  /\ Frozen' = [Frozen EXCEPT ![v] =
              IF to \in {"validating", "review_required"} THEN ContentOf(v)' ELSE None]
         /\ Served' = [Served EXCEPT ![v] = IF to = "published" THEN ContentOf(v)' ELSE None]
<1>1. /\ lifecycle'[v] = to
      /\ \A w \in Version \ {v} : lifecycle'[w] = lifecycle[w]
  BY DEF TypeOK
<1>2. \A w \in Version \ {v} : ContentOf(w)' = ContentOf(w)
  BY DEF SameContent, ContentOf
<1>3. /\ \A w \in Version \ {v} : Frozen'[w] = Frozen[w] /\ Served'[w] = Served[w]
      /\ Frozen'[v] = IF to \in {"validating", "review_required"} THEN ContentOf(v)' ELSE None
      /\ Served'[v] = IF to = "published" THEN ContentOf(v)' ELSE None
  BY <1>1, <1>2 DEF Frozen, Served
<1>4. /\ Frozen = [w \in Version |-> Frozen[w]] /\ Served = [w \in Version |-> Served[w]]
      /\ Frozen' = [w \in Version |-> Frozen'[w]] /\ Served' = [w \in Version |-> Served'[w]]
  BY DEF Frozen, Served
<1> HIDE DEF Frozen, Served
<1> QED BY <1>3, <1>4

\* What PublicationLifecycle sees of one version before a step.
LEMMA ViewOf ==
  ASSUME NEW v \in Version
  PROVE  /\ Frozen = [Frozen EXCEPT ![v] = IF lifecycle[v] \in {"validating", "review_required"}
                                            THEN ContentOf(v) ELSE None]
         /\ Served = [Served EXCEPT ![v] = IF lifecycle[v] = "published"
                                            THEN ContentOf(v) ELSE None]
         /\ Frozen[v] = IF lifecycle[v] \in {"validating", "review_required"}
                         THEN ContentOf(v) ELSE None
BY DEF Frozen, Served

\* A submission freezes what it stores: the script targets with their digests.
LEMMA SubmitStep ==
  ASSUME ReviewedInv, NEW q \in Request, NEW u \in User, NEW v \in Version,
         NEW b \in Bundle, Submits(q, u, v, b)
  PROVE  /\ lifecycle[v] = "draft" /\ lifecycle' = [lifecycle EXCEPT ![v] = "validating"]
         /\ ContentOf(v)' = [notes |-> notes[v], digest |-> b, manifest |-> b,
                             bundle |-> bundle[v]]
         /\ Frozen' = [Frozen EXCEPT ![v] = ContentOf(v)'] /\ UNCHANGED Served
<1>1. /\ lifecycle[v] = "draft"
      /\ lifecycle' = [lifecycle EXCEPT ![v] = "validating"]
      /\ \A w \in Version \ {v} : SameContent(w)
  BY DEF Submits, SameContent, ReviewedInv, TypeOK
<1>2. ContentOf(v)' = [notes |-> notes[v], digest |-> b, manifest |-> b,
                       bundle |-> bundle[v]]
  BY DEF Submits, ContentOf, ReviewedInv, TypeOK
<1>3. /\ Frozen' = [Frozen EXCEPT ![v] = ContentOf(v)']
      /\ Served' = [Served EXCEPT ![v] = None]
  BY <1>1, MoveStep DEF ReviewedInv, Lifecycles
<1>4. Served = [Served EXCEPT ![v] = None]
  BY <1>1, ViewOf
<1> QED BY <1>1, <1>2, <1>3, <1>4

\* A result that is accepted passes the version on, frozen as it is, or sends
\* it back.
LEMMA CompleteStep ==
  ASSUME ReviewedInv, NEW q \in Request, NEW v \in Version, v = run[req[q].run].version,
         Completable(q), Complete(req[q].run, req[q].result), UNCHANGED contentVars
  PROVE  PL!PassValidation(v) \/ PL!SendBack(v)
<1>1. lifecycle[v] = "validating"
  BY DEF Completable
<1>2. \A w \in Version : SameContent(w)
  BY DEF SameContent, contentVars
<1>3. ContentOf(v)' = ContentOf(v)
  BY <1>2 DEF SameContent, ContentOf
<1>4. CASE Advances(req[q].result)
  <2>1. lifecycle' = [lifecycle EXCEPT ![v] = "review_required"]
    BY <1>4 DEF Complete
  <2>2. /\ Frozen' = [Frozen EXCEPT ![v] = ContentOf(v)']
        /\ Served' = [Served EXCEPT ![v] = None]
    BY <1>2, <2>1, MoveStep DEF ReviewedInv, Lifecycles
  <2>3. /\ Frozen = [Frozen EXCEPT ![v] = ContentOf(v)]
        /\ Served = [Served EXCEPT ![v] = None]
    BY <1>1, ViewOf
  <2>4. UNCHANGED <<Frozen, Served>>
    BY <1>3, <2>2, <2>3
  <2>5. PL!Move(v, "VALIDATION_PASSED", "review_required")
    BY <1>1, <2>1 DEF PL!Move, PL!Moves, PL!Transitions
  <2> QED BY <2>4, <2>5 DEF PL!PassValidation
<1>5. CASE ~Advances(req[q].result)
  <2>1. lifecycle' = [lifecycle EXCEPT ![v] = "draft"]
    BY <1>5 DEF Complete
  <2>2. Frozen' = [Frozen EXCEPT ![v] = None] /\ UNCHANGED Served
    BY <1>1, <1>2, <2>1, MoveStep, ViewOf DEF ReviewedInv, Lifecycles
  <2>3. PL!Move(v, "VALIDATION_FAILED", "draft")
    BY <1>1, <2>1 DEF PL!Move, PL!Moves, PL!Transitions
  <2> QED BY <2>2, <2>3 DEF PL!SendBack
<1> QED BY <1>4, <1>5

\* An approval serves what was frozen: the digests that it writes are those of
\* the snapshot, and those are the ones the version has.
LEMMA ApproveStep ==
  ASSUME ReviewedInv, NEW u \in User, NEW i \in RunId, NEW v \in Version,
         v = review[i].version, ApproveReview(u, i)
  PROVE  PL!Approve(v)
<1>1. /\ lifecycle[v] = "review_required" /\ i \in Pending(v)
      /\ lifecycle' = [lifecycle EXCEPT ![v] = "published"]
  BY DEF ApproveReview, Pending
<1>2. review[i].manifest = manifest[v] /\ digest[v] = manifest[v]
  BY <1>1 DEF ReviewedInv, ReviewedHeld, SnapshotHeld
<1>3. \A w \in Version : SameContent(w)
  BY <1>2 DEF ApproveReview, SameContent, ReviewedInv, TypeOK
<1>4. ContentOf(v)' = ContentOf(v)
  BY <1>3 DEF SameContent, ContentOf
<1>5. /\ Frozen' = [Frozen EXCEPT ![v] = None]
      /\ Served' = [Served EXCEPT ![v] = ContentOf(v)']
  BY <1>1, <1>3, MoveStep DEF ReviewedInv, Lifecycles
<1>6. Frozen[v] = ContentOf(v)
  BY <1>1, ViewOf
<1>7. PL!Move(v, "APPROVE", "published")
  BY <1>1 DEF PL!Move, PL!Moves, PL!Transitions
<1> QED BY <1>4, <1>5, <1>6, <1>7 DEF PL!Approve

\* A rejection thaws the content.
LEMMA RejectStep ==
  ASSUME ReviewedInv, NEW u \in User, NEW i \in RunId, NEW v \in Version,
         v = review[i].version, RejectReview(u, i)
  PROVE  PL!SendBack(v)
<1>1. /\ lifecycle[v] = "review_required"
      /\ lifecycle' = [lifecycle EXCEPT ![v] = "draft"]
      /\ \A w \in Version : SameContent(w)
  BY DEF RejectReview, SameContent, contentVars
<1>2. Frozen' = [Frozen EXCEPT ![v] = None] /\ UNCHANGED Served
  BY <1>1, MoveStep, ViewOf DEF ReviewedInv, Lifecycles
<1>3. PL!Move(v, "REJECT", "draft")
  BY <1>1 DEF PL!Move, PL!Moves, PL!Transitions
<1> QED BY <1>2, <1>3 DEF PL!SendBack

\* A revision, by its own operation or by a change of content.
LEMMA ReviseStep ==
  ASSUME ReviewedInv, NEW v \in Version, Moves(lifecycle[v], "REVISE", "draft"),
         lifecycle' = [lifecycle EXCEPT ![v] = "draft"],
         \A w \in Version \ {v} : SameContent(w)
  PROVE  PL!Revise(v)
<1>1. /\ Frozen' = [Frozen EXCEPT ![v] = None]
      /\ Served' = [Served EXCEPT ![v] = None]
  BY MoveStep DEF ReviewedInv, Lifecycles
<1>2. PL!Move(v, "REVISE", "draft")
  BY DEF PL!Move, PL!Moves, PL!Transitions, Moves, Transitions
<1> QED BY <1>1, <1>2 DEF PL!Revise

\* A withdrawal or deprecation: nothing was frozen, nothing is served any more.
LEMMA WithdrawStep ==
  ASSUME ReviewedInv, NEW v \in Version, NEW to \in Released \ {"published"}, NEW event,
         \/ event = "DEPRECATE" /\ to = "deprecated"
         \/ event = "DELIST" /\ to = "delisted"
         \/ event = "EMERGENCY_DISABLE" /\ to = "emergency_disabled",
         Moves(lifecycle[v], event, to),
         lifecycle' = [lifecycle EXCEPT ![v] = to], UNCHANGED contentVars
  PROVE  PL!Withdraw(v)
<1>1. lifecycle[v] \in Released /\ to \in Lifecycles
  BY DEF Moves, Transitions, Released, Lifecycles
<1>2. \A w \in Version : SameContent(w)
  BY DEF SameContent, contentVars
<1>3. UNCHANGED Frozen /\ Served' = [Served EXCEPT ![v] = None]
  BY <1>1, <1>2, MoveStep, ViewOf DEF ReviewedInv, Released
<1>4. PL!Move(v, event, to)
  BY DEF PL!Move, PL!Moves, PL!Transitions, Moves, Transitions
<1> QED BY <1>3, <1>4 DEF PL!Withdraw

\* Every step is a step of PublicationLifecycle or none.
LEMMA NextLifecycle == ReviewedInv /\ [Next]_vars => [PL!Next]_(PL!vars)
<1> SUFFICES ASSUME ReviewedInv, [Next]_vars
             PROVE  PL!Next \/ UNCHANGED <<lifecycle, Frozen, Served>>
  BY DEF PL!vars
<1>1. CASE UNCHANGED <<lifecycle, contentVars>>
  BY <1>1, StutterStep DEF SameContent, contentVars, ReviewedInv
<1>2. ASSUME NEW v \in Version, NEW b \in Bundle \cup {None}, EditScriptTargets(v, b)
      PROVE  UNCHANGED <<lifecycle, Frozen, Served>>
  BY <1>2, StutterStep DEF EditScriptTargets, Editable, SameContent, ReviewedInv, TypeOK
<1>3. ASSUME NEW v \in Version, NEW n \in Notes, NEW d \in Bundle \cup {digest[v]},
             UpdateVersionContent(v, n, d)
      PROVE  PL!Next \/ UNCHANGED <<lifecycle, Frozen, Served>>
  <2>1. \A w \in Version \ {v} : SameContent(w)
    BY <1>3 DEF UpdateVersionContent, SameContent, ReviewedInv, TypeOK
  <2>2. CASE lifecycle[v] = "draft" /\ UNCHANGED lifecycle
    BY <2>1, <2>2, StutterStep DEF ReviewedInv
  <2>3. CASE /\ Moves(lifecycle[v], "REVISE", "draft")
             /\ lifecycle' = [lifecycle EXCEPT ![v] = "draft"]
    BY <2>1, <2>3, ReviseStep DEF PL!Next
  <2> QED BY <1>3, <2>2, <2>3 DEF UpdateVersionContent
<1>4. ASSUME NEW u \in User, NEW v \in Version, ReviseVersion(u, v)
      PROVE  PL!Next
  <2>1. \A w \in Version : SameContent(w)
    BY <1>4 DEF ReviseVersion, SameContent, contentVars
  <2> QED BY <1>4, <2>1, ReviseStep DEF ReviseVersion, PL!Next
<1>5. ASSUME NEW q \in Request, NEW u \in User, NEW v \in Version,
             BeginValidation(q, u, v)
      PROVE  PL!Next
  <2>1. bundle[v] \in Bundle /\ Submits(q, u, v, bundle[v]) /\ notes[v] \in Notes
    BY <1>5, BeginSubmits DEF ReviewedInv, TypeOK
  <2>2. PL!Move(v, "SUBMIT", "validating")
    BY <2>1, SubmitStep DEF PL!Move, PL!Moves, PL!Transitions
  <2>3. /\ ContentOf(v)' \in [notes : Notes, digest : Bundle, manifest : Bundle,
                              bundle : Bundle]
        /\ Frozen' = [Frozen EXCEPT ![v] = ContentOf(v)'] /\ UNCHANGED Served
    BY <2>1, SubmitStep
  <2> QED BY <2>2, <2>3 DEF PL!Next, PL!Submit
<1>6. ASSUME NEW q \in Request, CompleteValidation(q)
      PROVE  PL!Next \/ UNCHANGED <<lifecycle, Frozen, Served>>
  <2>1. CASE Completable(q) /\ Complete(req[q].run, req[q].result)
    <3>1. PICK v \in Version : v = run[req[q].run].version
      BY <1>6, <2>1
         DEF CompleteValidation, Completable, ReviewedInv, TypeOK, RequestState, RunRow
    <3> QED BY <1>6, <2>1, <3>1, CompleteStep DEF CompleteValidation, PL!Next
  <2> QED BY <1>1, <1>6, <2>1 DEF CompleteValidation
<1>7. ASSUME NEW u \in User, NEW i \in RunId, ApproveReview(u, i) \/ RejectReview(u, i)
      PROVE  PL!Next
  <2>1. PICK v \in Version : v = review[i].version
    BY <1>7 DEF ApproveReview, RejectReview, ReviewedInv, TypeOK, ReviewRow
  <2> QED BY <1>7, <2>1, ApproveStep, RejectStep DEF PL!Next
<1>8. ASSUME NEW u \in User, NEW v \in Version, DeprecateVersion(u, v)
      PROVE  PL!Next
  <2>1. Moves(lifecycle[v], "DEPRECATE", "deprecated")
    BY <1>8 DEF DeprecateVersion, Moves, Transitions
  <2>2. PL!Withdraw(v)
    BY <1>8, <2>1, WithdrawStep DEF DeprecateVersion, Released
  <2> QED BY <2>2 DEF PL!Next
<1>9. ASSUME NEW u \in User, NEW v \in Version,
             DelistVersion(u, v) \/ EmergencyDisableVersion(u, v)
      PROVE  PL!Next
  <2>1. PL!Withdraw(v)
    BY <1>9, WithdrawStep
       DEF DelistVersion, EmergencyDisableVersion, Withdraw, Released
  <2> QED BY <2>1 DEF PL!Next
<1> QED BY <1>1, <1>2, <1>3, <1>4, <1>5, <1>6, <1>7, <1>8, <1>9
        DEF Next, vars, LookupRetry, ClaimRetry, FinishRunner, Crash,
            ReportInstallation, MarkNotificationRead, Tick

\* The transactions, runners and crashes together move a version along the
\* table only and publish, to the letter, what was frozen at its submission:
\* ReviewedInv shows that an approval writes back the digests it finds.
THEOREM ImplementsLifecycleHolds == Spec => ImplementsLifecycle
<1>1. Init => PL!Init
  BY DEF Init, PL!Init, Frozen, Served
<1> QED BY <1>1, NextLifecycle, ReviewedInvariant, PTL
        DEF Spec, ImplementsLifecycle, PL!Spec

-----------------------------------------------------------------------------
(* In memory *)

\* What a handler has read of a version is complete.
AskedOK ==
  asked \in [Request -> [actor : User, version : Version, bundle : Bundle] \cup {NotAsked}]

\* The strengthening that is inductive in memory.
MemInv == ReviewedInv /\ ClaimInv /\ OneOpenRun /\ AskedOK

\* The one result the repository in memory treats in a way of its own: a run
\* that was skipped has failed.
SkipFails(q, i, v) ==
  /\ run[i].status = "running" /\ run[i].version = v /\ lifecycle[v] = "validating"
  /\ \E result \in Outcomes :
       run' = [run EXCEPT ![i].status = "failed",
                          ![i].attempts[Len(run[i].attempts)] = "failed",
                          ![i].token = NoToken, ![i].claimedAt = 0, ![i].result = result]
  /\ req' = [req EXCEPT ![q] = Idle]
  /\ lifecycle' = [lifecycle EXCEPT ![v] = "draft"]
  /\ AppendEvent(v, "version.validation_failed", "draft")
  /\ UNCHANGED <<contentVars, review, noticeVars, now>>

\* A change of content in memory closes the open reviews of a draft too; a
\* draft has none, so it is the change that Postgres makes.
LEMMA MemUpdates ==
  ASSUME MemInv, NEW v \in Version, NEW n \in Notes, NEW d \in Bundle \cup {digest[v]},
         MemUpdateVersionContent(v, n, d)
  PROVE  UpdateVersionContent(v, n, d)
<1>1. CASE lifecycle[v] = "draft"
  <2>1. Pending(v) = {}
    BY <1>1 DEF MemInv, ReviewedInv, OneOpenReview
  <2>2. review' = review
    BY <2>1 DEF MemUpdateVersionContent, Supersede, SupersedePending, MemInv,
                ReviewedInv, TypeOK
  <2>3. lifecycle' = lifecycle
    BY <1>1 DEF MemUpdateVersionContent, MemInv, ReviewedInv, TypeOK
  <2> QED BY <1>1, <2>2, <2>3
          DEF MemUpdateVersionContent, UpdateVersionContent, MemAppendEvent
<1>2. CASE lifecycle[v] # "draft"
  BY <1>2 DEF MemUpdateVersionContent, UpdateVersionContent, MemAppendEvent, Supersede
<1> QED BY <1>1, <1>2

\* A submission in memory finds a draft, or does nothing.
LEMMA MemSubmits ==
  ASSUME MemInv, NEW q \in Request, MemBeginValidation(q)
  PROVE  \/ UNCHANGED vars
         \/ \E u \in User, v \in Version, b \in Bundle : Submits(q, u, v, b)
<1>1. asked[q] \in [actor : User, version : Version, bundle : Bundle]
  BY DEF MemBeginValidation, MemInv, AskedOK
<1>2. PICK u \in User, v \in Version, b \in Bundle :
        u = asked[q].actor /\ v = asked[q].version /\ b = asked[q].bundle
  BY <1>1
<1>3. CASE ~MaySubmit(v)
  BY <1>2, <1>3 DEF MemBeginValidation, vars, contentVars
<1>4. CASE MaySubmit(v)
  <2>1. lifecycle[v] = "draft"
    BY <1>4 DEF MaySubmit, Moves, Transitions
  <2>2. \E i \in RunId :
          /\ run[i] = NoRun
          /\ run' = [run EXCEPT ![i] =
               [status |-> "running", version |-> v, requestedBy |-> u,
                bundle |-> b, attempts |-> <<"running">>,
                token |-> NoToken, claimedAt |-> 0, result |-> None]]
          /\ req' = [req EXCEPT ![q] =
               [Idle EXCEPT !.pc = "validating", !.run = i, !.actor = u]]
    BY <1>2, <1>4 DEF MemBeginValidation
  <2>3. Submits(q, u, v, b)
    BY <1>2, <1>4, <2>1, <2>2 DEF MemBeginValidation, Submits, MemAppendEvent
  <2> QED BY <2>3
<1> QED BY <1>3, <1>4

\* A result that is not skipped is completed as Postgres completes it.
LEMMA MemCompletes ==
  ASSUME MemInv, NEW q \in Request, MemCompleteValidation(q)
  PROVE  \/ CompleteValidation(q)
         \/ \E i \in RunId, v \in Version : SkipFails(q, i, v)
<1>1. PICK i \in RunId, result \in Outcomes : i = req[q].run /\ result = req[q].result
  BY DEF MemCompleteValidation, MemInv, ReviewedInv, TypeOK, RequestState
<1>2. CASE ~MemCompletable(q)
  <2>1. ~Completable(q)
    BY <1>2 DEF MemCompletable, Completable, MemExactlyPassed, Advances
  <2> QED BY <1>2, <2>1 DEF MemCompleteValidation, CompleteValidation
<1>3. CASE MemCompletable(q) /\ result # "skipped"
  <2>1. Completable(q)
    BY <1>1, <1>3 DEF MemCompletable, Completable, MemExactlyPassed, Advances
  <2>2. CASE ExactlyPassed(result)
    <3>1. /\ MemStatus(result) = "passed" /\ FinalStatus(result) = "passed"
          /\ Advances(result)
      BY <1>3, <2>2 DEF MemStatus, MemExactlyPassed, FinalStatus, Advances
    <3>2. Complete(i, result)
      BY <1>1, <1>3, <2>2, <3>1
         DEF MemCompleteValidation, MemComplete, Complete, CloseRun, LogCompletion,
             MemAppendEvent
    <3> QED BY <1>1, <2>1, <3>2 DEF MemCompleteValidation, CompleteValidation
  <2>3. CASE ~ExactlyPassed(result)
    <3>1. /\ MemStatus(result) = "failed" /\ FinalStatus(result) = "failed"
          /\ ~Advances(result)
      BY <1>3, <2>3 DEF MemStatus, MemExactlyPassed, FinalStatus, Advances
    <3>2. Complete(i, result)
      BY <1>1, <1>3, <2>3, <3>1
         DEF MemCompleteValidation, MemComplete, Complete, CloseRun, LogCompletion,
             MemAppendEvent
    <3> QED BY <1>1, <2>1, <3>2 DEF MemCompleteValidation, CompleteValidation
  <2> QED BY <2>2, <2>3
<1>4. CASE MemCompletable(q) /\ result = "skipped"
  <2>1. PICK v \in Version : v = run[i].version
    BY <1>1, <1>4 DEF MemCompletable, MemInv, ReviewedInv, TypeOK, RunRow
  <2>2. MemStatus(result) = "failed"
    BY <1>4 DEF MemStatus, MemExactlyPassed, ExactlyPassed
  <2>3. run[i].status = "running" /\ lifecycle[v] = "validating"
    BY <1>1, <1>4, <2>1 DEF MemCompletable
  <2>4. MemComplete(q)
    BY <1>4 DEF MemCompleteValidation
  <2>5. /\ run' = [run EXCEPT ![i].status = "failed",
                              ![i].attempts[Len(run[i].attempts)] = "failed",
                              ![i].token = NoToken, ![i].claimedAt = 0, ![i].result = result]
        /\ lifecycle' = [lifecycle EXCEPT ![v] = "draft"]
        /\ AppendEvent(v, "version.validation_failed", "draft") /\ UNCHANGED review
    BY <1>1, <2>1, <2>2, <2>4 DEF MemComplete, MemAppendEvent
  <2>6. SkipFails(q, i, v)
    BY <2>1, <2>3, <2>5 DEF MemCompleteValidation, SkipFails
  <2> QED BY <2>6
<1> QED BY <1>2, <1>3, <1>4

\* In memory a step is one of Governance, a submission of the targets that the
\* handler read, or the failure of a run that was skipped.
LEMMA MemSteps ==
  ASSUME MemInv, [MemNext]_memVars
  PROVE  \/ [Next]_vars
         \/ \E q \in Request, u \in User, v \in Version, b \in Bundle : Submits(q, u, v, b)
         \/ \E q \in Request, i \in RunId, v \in Version : SkipFails(q, i, v)
<1>1. CASE UNCHANGED vars
  BY <1>1
<1>2. ASSUME NEW v \in Version, NEW n \in Notes, NEW d \in Bundle \cup {digest[v]},
             MemUpdateVersionContent(v, n, d)
      PROVE  Next
  BY <1>2, MemUpdates DEF Next
<1>3. ASSUME NEW u \in User, NEW v \in Version, MemReviseVersion(u, v)
      PROVE  Next
  BY <1>2, <1>3 DEF MemReviseVersion, MemInv, ReviewedInv, TypeOK
<1>4. ASSUME NEW q \in Request, MemBeginValidation(q)
      PROVE  \/ UNCHANGED vars
             \/ \E u \in User, v \in Version, b \in Bundle : Submits(q, u, v, b)
  BY <1>4, MemSubmits
<1>5. ASSUME NEW q \in Request, MemCompleteValidation(q)
      PROVE  \/ Next
             \/ \E i \in RunId, v \in Version : SkipFails(q, i, v)
  BY <1>5, MemCompletes DEF Next
<1>6. ASSUME \/ \E v \in Version, b \in Bundle \cup {None} : MemEditScriptTargets(v, b)
             \/ \E u \in User, v \in Version :
                  \/ MemDeprecateVersion(u, v) \/ MemDelistVersion(u, v)
                  \/ MemEmergencyDisableVersion(u, v)
             \/ \E q \in Request : MemClaimRetry(q)
             \/ \E q \in Request, u \in User, i \in RunId : MemLookupRetry(q, u, i)
             \/ \E u \in User, i \in RunId : MemDecideReview(u, i)
             \/ \E k \in User \X NoticeTypes \X Version : MemMarkNotificationRead(k)
             \/ Around
      PROVE  Next
  BY <1>6
     DEF Next, MemEditScriptTargets, MemDeprecateVersion, MemDelistVersion,
         MemEmergencyDisableVersion, MemClaimRetry, MemLookupRetry, MemDecideReview,
         MemMarkNotificationRead, Around
<1> QED BY <1>1, <1>2, <1>3, <1>4, <1>5, <1>6 DEF MemNext, memVars, FindVersion

\* A run that fails because it was skipped keeps all the invariants.
LEMMA SkipKeepsInv ==
  ASSUME MemInv, NEW q \in Request, NEW i \in RunId, NEW v \in Version,
         SkipFails(q, i, v)
  PROVE  ReviewedInv' /\ ClaimInv' /\ OneOpenRun'
<1>1. /\ run[i] \in RunRow /\ run[i].status = "running" /\ run[i].version = v
      /\ lifecycle[v] = "validating"
  BY DEF SkipFails, MemInv, ReviewedInv, TypeOK
<1>2. run' \in [RunId -> RunRow]
  <2>1. PICK result \in Outcomes :
          run' = [run EXCEPT ![i].status = "failed",
                             ![i].attempts[Len(run[i].attempts)] = "failed",
                             ![i].token = NoToken, ![i].claimedAt = 0, ![i].result = result]
    BY DEF SkipFails
  <2> QED BY <1>1, <2>1, RunSteps DEF MemInv, ReviewedInv, TypeOK
<1>3. TypeOK'
  <2>1. req' \in [Request -> RequestState]
    BY RequestSteps DEF SkipFails, MemInv, ReviewedInv, TypeOK
  <2>2. log' \in [Version -> EventRow]
    BY AppendEventType
       DEF SkipFails, MemInv, ReviewedInv, TypeOK, Lifecycles, EventTypes
  <2>3. lifecycle' \in [Version -> Lifecycles]
    BY DEF SkipFails, MemInv, ReviewedInv, TypeOK, Lifecycles
  <2> QED BY <1>2, <2>1, <2>2, <2>3
          DEF SkipFails, MemInv, ReviewedInv, TypeOK, contentVars, noticeVars
<1>4. /\ \A j \in RunId \ {i} : run'[j] = run[j]
      /\ run'[i].status = "failed" /\ run'[i].token = NoToken
      /\ run'[i].attempts = [run[i].attempts EXCEPT ![Len(run[i].attempts)] = "failed"]
  BY <1>1 DEF SkipFails, MemInv, ReviewedInv, TypeOK, RunRow
<1>5. /\ lifecycle' = [lifecycle EXCEPT ![v] = "draft"]
      /\ UNCHANGED <<contentVars, review>>
      /\ req'[q].pc = "idle" /\ \A p \in Request \ {q} : req'[p] = req[p]
  BY DEF SkipFails, MemInv, ReviewedInv, TypeOK, Idle
<1>6. OneOpenReview' /\ ReviewedHeld'
  BY <1>1, <1>4, <1>5, FailureKeepsContent DEF MemInv
<1>7. OneOpenRun'
  BY <1>1, <1>4, <1>5, ClosingKeepsOneOpenRun DEF MemInv, ReviewedInv
<1>8. AttemptsTellTheRun' /\ TokensHandedOut'
  BY <1>1, <1>4, <1>5, ClosingKeepsClaims DEF MemInv
<1> QED BY <1>3, <1>6, <1>7, <1>8 DEF ReviewedInv, ClaimInv

\* So does every step in memory.
LEMMA NextMemory == MemInv /\ [MemNext]_memVars => MemInv'
<1> SUFFICES ASSUME MemInv, [MemNext]_memVars
             PROVE  ReviewedInv' /\ ClaimInv' /\ OneOpenRun' /\ AskedOK'
  BY DEF MemInv
<1>1. ASSUME [Next]_vars
      PROVE  ReviewedInv' /\ ClaimInv' /\ OneOpenRun'
  <2>1. ReviewedInv'
    BY <1>1, NextReviewed DEF MemInv
  <2>2. ClaimInv'
    BY <1>1, NextClaims DEF MemInv
  <2>3. OneOpenRun'
    BY <1>1, NextOneOpenRun DEF MemInv, ReviewedInv
  <2> QED BY <2>1, <2>2, <2>3
<1>2. ASSUME NEW q \in Request, NEW u \in User, NEW v \in Version, NEW b \in Bundle,
             Submits(q, u, v, b)
      PROVE  ReviewedInv' /\ ClaimInv' /\ OneOpenRun'
  <2>1. TypeOK'
    BY <1>2, SubmitsType DEF MemInv, ReviewedInv
  <2>2. OneOpenReview' /\ ReviewedHeld'
    BY <1>2, SubmitsKeepsContent DEF MemInv
  <2>3. OneOpenRun'
    BY <1>2, SubmitsKeepsOneOpenRun DEF MemInv, ReviewedInv
  <2>4. AttemptsTellTheRun' /\ TokensHandedOut'
    BY <1>2, SubmitsKeepsClaims DEF MemInv
  <2> QED BY <2>1, <2>2, <2>3, <2>4 DEF ReviewedInv, ClaimInv
<1>3. ReviewedInv' /\ ClaimInv' /\ OneOpenRun'
  BY <1>1, <1>2, MemSteps, SkipKeepsInv
<1>4. AskedOK'
  <2>1. CASE UNCHANGED asked
    BY <2>1 DEF MemInv, AskedOK, NotAsked
  <2>2. ASSUME NEW q \in Request, NEW u \in User, NEW v \in Version, FindVersion(q, u, v)
        PROVE  AskedOK'
    <3>1. bundle[v] \in Bundle
      BY <2>2 DEF FindVersion, MemInv, ReviewedInv, TypeOK
    <3> QED BY <2>2, <3>1 DEF FindVersion, MemInv, AskedOK, NotAsked
  <2>3. ASSUME NEW q \in Request, MemBeginValidation(q)
        PROVE  AskedOK'
    BY <2>3 DEF MemBeginValidation, MemInv, AskedOK, NotAsked
  <2> QED BY <2>1, <2>2, <2>3
          DEF MemNext, memVars, MemEditScriptTargets, MemUpdateVersionContent,
              MemReviseVersion, MemDeprecateVersion, MemDelistVersion,
              MemEmergencyDisableVersion, MemClaimRetry, MemCompleteValidation,
              MemLookupRetry, MemDecideReview, MemMarkNotificationRead, Around
<1> QED BY <1>3, <1>4

\* The invariant holds in memory.
LEMMA MemInvariant == MemSpec => []MemInv
<1>1. MemInit => MemInv
  <2>1. MemInit => ClaimInv /\ OneOpenRun
    BY InitType
       DEF MemInit, Init, ClaimInv, AttemptsTellTheRun, TokensHandedOut, Active, NoRun,
           Idle, OneOpenRun, Running
  <2>2. MemInit => AskedOK
    BY DEF MemInit, AskedOK
  <2> QED BY <2>1, <2>2, InitReviewed DEF MemInit, MemInv
<1> QED BY <1>1, NextMemory, PTL DEF MemSpec

\* Without a database too, open runs and open reviews agree with the lifecycle,
\* and what is released is what somebody other than its author approved.
THEOREM MemReviewedHolds ==
  MemSpec => [](TypeOK /\ OneOpenRun /\ OneOpenReview /\ ReviewedBeforeRelease)
<1>1. MemInv => TypeOK /\ OneOpenRun /\ OneOpenReview /\ ReviewedBeforeRelease
  BY ReviewedRelease DEF MemInv, ReviewedInv
<1> QED BY <1>1, MemInvariant, PTL

\* In memory as well the attempts tell the story of their run, and one request
\* at most can still close it.
THEOREM MemClaimsHold == MemSpec => [](AttemptsTellTheRun /\ OneOwner)
<1>1. MemInv => AttemptsTellTheRun /\ OneOwner
  BY ClaimsTellOwner DEF MemInv, ClaimInv
<1> QED BY <1>1, MemInvariant, PTL

\* Every step in memory is a step of PublicationLifecycle or none.
LEMMA NextMemLifecycle == MemInv /\ [MemNext]_memVars => [MemPL!Next]_(MemPL!vars)
<1> SUFFICES ASSUME MemInv, [MemNext]_memVars
             PROVE  MemPL!Next \/ UNCHANGED <<lifecycle, Frozen, Served>>
  BY DEF MemPL!vars
<1>1. CASE [Next]_vars
  <2>1. PL!Next \/ UNCHANGED <<lifecycle, Frozen, Served>>
    BY <1>1, NextLifecycle DEF MemInv, PL!vars
  <2>2. ASSUME NEW v \in Version, PL!Submit(v)
        PROVE  MemPL!Submit(v)
    <3>1. [notes : Notes, digest : Bundle, manifest : Bundle, bundle : Bundle]
          \subseteq [notes : Notes, digest : Bundle, manifest : Bundle,
                     bundle : Bundle \cup {None}]
      OBVIOUS
    <3> QED BY <2>2, <3>1
            DEF PL!Submit, PL!Move, PL!Moves, PL!Transitions,
                MemPL!Submit, MemPL!Move, MemPL!Moves, MemPL!Transitions
  <2>3. PL!Next => MemPL!Next
    BY <2>2
       DEF PL!Next, PL!PassValidation, PL!SendBack, PL!Approve, PL!Revise, PL!Withdraw,
           PL!Move, PL!Moves, PL!Transitions,
           MemPL!Next, MemPL!PassValidation, MemPL!SendBack, MemPL!Approve, MemPL!Revise,
           MemPL!Withdraw, MemPL!Move, MemPL!Moves, MemPL!Transitions
  <2> QED BY <2>1, <2>3
<1>2. ASSUME NEW q \in Request, NEW u \in User, NEW v \in Version, NEW b \in Bundle,
             Submits(q, u, v, b)
      PROVE  MemPL!Next
  <2>1. /\ MemPL!Move(v, "SUBMIT", "validating")
        /\ Frozen' = [Frozen EXCEPT ![v] = ContentOf(v)'] /\ UNCHANGED Served
    BY <1>2, SubmitStep DEF MemInv, MemPL!Move, MemPL!Moves, MemPL!Transitions
  <2>2. notes[v] \in Notes /\ bundle[v] \in Bundle \cup {None}
    BY DEF MemInv, ReviewedInv, TypeOK
  <2>3. ContentOf(v)' \in [notes : Notes, digest : Bundle, manifest : Bundle,
                           bundle : Bundle \cup {None}]
    BY <1>2, <2>2, SubmitStep DEF MemInv
  <2> QED BY <2>1, <2>3 DEF MemPL!Next, MemPL!Submit
<1>3. ASSUME NEW q \in Request, NEW i \in RunId, NEW v \in Version, SkipFails(q, i, v)
      PROVE  MemPL!Next
  <2>1. /\ lifecycle[v] = "validating" /\ lifecycle' = [lifecycle EXCEPT ![v] = "draft"]
        /\ \A w \in Version : SameContent(w)
    BY <1>3 DEF SkipFails, SameContent, contentVars
  <2>2. Frozen' = [Frozen EXCEPT ![v] = None] /\ UNCHANGED Served
    BY <2>1, MoveStep, ViewOf DEF MemInv, ReviewedInv, Lifecycles
  <2>3. MemPL!Move(v, "VALIDATION_FAILED", "draft")
    BY <2>1 DEF MemPL!Move, MemPL!Moves, MemPL!Transitions
  <2> QED BY <2>2, <2>3 DEF MemPL!Next, MemPL!SendBack
<1> QED BY <1>1, <1>2, <1>3, MemSteps

\* Without a database a version moves along the table only too, and what is
\* published is what was frozen; but the script targets frozen may be incomplete,
\* because the handler's reading of them is all that was checked.
THEOREM MemImplementsLifecycleHolds == MemSpec => MemImplementsLifecycle
<1>1. MemInit => MemPL!Init
  BY DEF MemInit, Init, MemPL!Init, Frozen, Served
<1> QED BY <1>1, NextMemLifecycle, MemInvariant, PTL
        DEF MemSpec, MemImplementsLifecycle, MemPL!Spec

=============================================================================
