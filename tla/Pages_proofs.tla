----------------------------- MODULE Pages_proofs -----------------------------
(***************************************************************************)
(* Theorems about the pages of the web user interface and the services     *)
(* behind them, for any number of pages, requests and people.               *)
(***************************************************************************)
EXTENDS Naturals, Sequences, FiniteSets, SequenceTheorems, FiniteSetTheorems, WellFoundedInduction, TLAPS

-----------------------------------------------------------------------------
(* The desks of the reviewers *)

CONSTANTS Desks, Grades, MaxRevisions, MaxRequests, MaxLoads
VARIABLES version, reviews, grade, desk, requests, unsure, loads

Review == INSTANCE ReviewDesk

\* What a page holds is of a review there is; a grade picked was picked by hand.
PageFits(p) ==
  /\ p.state # "closed" => p.id \in DOMAIN reviews
  /\ p.state = "shown" => /\ p.content = reviews[p.id].content
                          /\ p.status \in {"approved", "rejected"} => reviews[p.id].status = p.status
  /\ p.current # Review!NoGrade \/ p.needsSync = TRUE => p.state = "shown"
  /\ p.picked # Review!NoGrade => p.byHand = TRUE

\* A decision that was written is that of its review, of the content the page showed.
RequestFits(q) ==
  /\ q.id \in DOMAIN reviews /\ q.content = reviews[q.id].content
  /\ q.what \in Review!Decisions /\ q.state \in {"written", "answered"} =>
       reviews[q.id].status = Review!Decided(q.what)
  /\ q.what \in Grades => q.byHand = TRUE

\* A page that hears of a request still shows the review it was sent from.
Heard(q) == q.heard = TRUE => desk[q.desk].state = "shown" /\ desk[q.desk].id = q.id

\* At most one review is pending, and it is of the content there is.
OnePending ==
  \A k \in DOMAIN reviews : reviews[k].status = "pending" =>
    /\ version.lifecycle = "review_required" /\ reviews[k].content = version.content
    /\ \A m \in DOMAIN reviews : reviews[m].status = "pending" => m = k

DeskInv ==
  /\ Review!TypeOK
  /\ \A d \in Desks : PageFits(desk[d])
  /\ \A i \in DOMAIN requests : RequestFits(requests[i]) /\ Heard(requests[i])
  /\ OnePending /\ Review!ReleasedWasShown /\ Review!DecidedOnce

\* No review is lost, and none that was decided is decided again.
ReviewsStay ==
  \A k \in DOMAIN reviews :
    /\ k \in DOMAIN reviews' /\ reviews'[k].content = reviews[k].content
    /\ reviews[k].status \in {"approved", "rejected"} => reviews'[k].status = reviews[k].status

LEMMA DeskTypes ==
  ASSUME DeskInv
  PROVE  /\ version \in Review!Versions /\ reviews \in Seq(Review!Reviews) /\ grade \in Grades
         /\ desk \in [Desks -> Review!Workbenches] /\ requests \in Seq(Review!Requests)
         /\ unsure \subseteq Desks /\ loads \in 0 .. MaxLoads
         /\ Len(requests) \in Nat /\ Len(reviews) \in Nat
         /\ DOMAIN requests = 1 .. Len(requests) /\ DOMAIN reviews = 1 .. Len(reviews)
BY DEF DeskInv, Review!TypeOK

\* What fits a review goes on fitting it.
LEMMA FitsStay ==
  ASSUME ReviewsStay, NEW x
  PROVE  (PageFits(x) => PageFits(x)') /\ (RequestFits(x) => RequestFits(x)')
<1>1. PageFits(x) => PageFits(x)'
  BY DEF ReviewsStay, PageFits, Review!NoGrade
<1>2. ASSUME RequestFits(x) PROVE RequestFits(x)'
  <2>1. Review!Decided(x.what) \in {"approved", "rejected"}
    BY DEF Review!Decided
  <2> QED BY <1>2, <2>1 DEF ReviewsStay, RequestFits, Review!Decisions
<1> QED BY <1>1, <1>2

\* One page changes and nothing else that the invariant is about.
LEMMA PageKeeps ==
  ASSUME DeskInv, NEW d \in Desks, NEW p \in Review!Workbenches, PageFits(p),
         desk' = [desk EXCEPT ![d] = p], UNCHANGED <<version, reviews, grade, requests, unsure>>,
         loads' \in 0 .. MaxLoads,
         (p.state = desk[d].state /\ p.id = desk[d].id)
           \/ \A i \in DOMAIN requests : requests[i].desk = d => requests[i].heard = FALSE
  PROVE  DeskInv'
<1>1. Review!TypeOK'
  BY DEF DeskInv, Review!TypeOK
<1>2. ReviewsStay
  BY DEF ReviewsStay
<1>3. \A e \in Desks : PageFits(desk'[e]) /\ (e # d => desk'[e] = desk[e]) /\ desk'[d] = p
  BY DeskTypes DEF DeskInv
<1>4. \A e \in Desks : PageFits(desk[e])'
  BY <1>3 DEF PageFits
<1>5. \A i \in DOMAIN requests : RequestFits(requests[i])' /\ Heard(requests[i])'
  BY <1>3 DEF DeskInv, RequestFits, Heard
<1>6. OnePending' /\ Review!ReleasedWasShown' /\ Review!DecidedOnce'
  BY DEF DeskInv, OnePending, Review!ReleasedWasShown, Review!DecidedOnce
<1> QED BY <1>1, <1>4, <1>5, <1>6 DEF DeskInv

\* What becomes of a request: it is what it was, is heard at most as before, and
\* unless it asks for a grade, is written only if it was.
Follows(q, s) ==
  /\ s.desk = q.desk /\ s.id = q.id /\ s.content = q.content /\ s.what = q.what /\ s.byHand = q.byHand
  /\ s.heard = TRUE => q.heard = TRUE
  /\ s.what \in Review!Decisions /\ s.state \in {"written", "answered"} => q.state \in {"written", "answered"}

\* Requests go on and pages with them, and nothing is decided.
LEMMA AnswerKeeps ==
  ASSUME DeskInv, UNCHANGED <<version, reviews>>, grade' \in Grades, unsure' \subseteq Desks,
         loads' \in 0 .. MaxLoads, desk' \in [Desks -> Review!Workbenches],
         \A d \in Desks : PageFits(desk'[d]),
         requests' \in Seq(Review!Requests), Len(requests') = Len(requests),
         \A i \in DOMAIN requests : Follows(requests[i], requests'[i]),
         \A i \in DOMAIN requests : requests'[i].heard = TRUE =>
           /\ desk'[requests[i].desk].state = desk[requests[i].desk].state
           /\ desk'[requests[i].desk].id = desk[requests[i].desk].id
  PROVE  DeskInv'
<1>1. Review!TypeOK'
  BY DEF DeskInv, Review!TypeOK
<1>2. \A d \in Desks : PageFits(desk[d])'
  BY DEF PageFits
<1>3. DOMAIN requests' = DOMAIN requests
  BY DeskTypes
<1>4. \A i \in DOMAIN requests : RequestFits(requests[i])' /\ Heard(requests[i])'
  BY DEF DeskInv, RequestFits, Heard, Follows
<1>5. OnePending'
  BY DEF DeskInv, OnePending
<1>6. Review!ReleasedWasShown'
  BY <1>3 DEF DeskInv, Follows, Review!ReleasedWasShown
<1>7. Review!DecidedOnce'
  <2> SUFFICES ASSUME NEW i \in DOMAIN requests, NEW j \in DOMAIN requests, i # j,
                      requests'[i].id = requests'[j].id,
                      requests'[i].what \in Review!Decisions, requests'[j].what \in Review!Decisions,
                      requests'[i].state \in {"written", "answered"},
                      requests'[j].state \in {"written", "answered"}
               PROVE  FALSE
    BY <1>3 DEF Review!DecidedOnce, Review!Decisions
  <2> QED BY DEF DeskInv, Follows, Review!DecidedOnce
<1> QED BY <1>1, <1>2, <1>3, <1>4, <1>5, <1>6, <1>7 DEF DeskInv

\* A page is opened, or loaded again: it hears of nothing it sent.
LEMMA LoadKeeps ==
  ASSUME DeskInv, NEW d \in Desks, NEW id \in DOMAIN reviews, Review!Load(d, id), loads' \in 0 .. MaxLoads
  PROVE  DeskInv'
<1> DEFINE p == [Review!ClosedDesk EXCEPT !.state = "loading", !.id = id]
<1>1. p \in Review!Workbenches /\ PageFits(p)
  <2>1. id \in Nat
    BY DeskTypes
  <2>2. Review!ClosedDesk \in Review!Workbenches /\ Review!ClosedDesk.needsSync = FALSE
        /\ Review!ClosedDesk.current = Review!NoGrade
        /\ Review!ClosedDesk.picked = Review!NoGrade
    BY DEF Review!ClosedDesk, Review!Workbenches, Review!NoGrade
  <2>3. p \in Review!Workbenches /\ p.state = "loading" /\ p.id = id /\ p.needsSync = FALSE
        /\ p.current = Review!NoGrade /\ p.picked = Review!NoGrade
    BY <2>1, <2>2 DEF Review!Workbenches
  <2> QED BY <2>3 DEF PageFits
<1>2. /\ desk' = [desk EXCEPT ![d] = p] /\ UNCHANGED <<version, reviews, grade>> /\ unsure' = unsure \ {d}
      /\ requests' = Review!Forgotten(d)
  BY DEF Review!Load, Review!Show, Review!DeskOnly
<1> HIDE DEF p
<1>3. /\ desk' \in [Desks -> Review!Workbenches]
      /\ \A e \in Desks : PageFits(desk'[e])
      /\ \A e \in Desks \ {d} : desk'[e] = desk[e]
  BY <1>1, <1>2, DeskTypes DEF DeskInv
<1>4. ASSUME NEW i \in DOMAIN requests
      PROVE  /\ requests'[i] \in Review!Requests /\ Follows(requests[i], requests'[i])
             /\ requests'[i].heard = TRUE => requests[i].desk # d
             /\ requests[i].desk \in Desks
  <2>1. PICK q \in Review!Requests : q = requests[i]
    BY DeskTypes
  <2>2. requests'[i] = [q EXCEPT !.heard = q.heard /\ q.desk # d]
    BY <1>2, <2>1 DEF Review!Forgotten
  <2> QED BY <2>1, <2>2 DEF Review!Requests, Follows
<1>5. requests' \in Seq(Review!Requests) /\ Len(requests') = Len(requests)
  <2>1. requests' \in [1 .. Len(requests) -> Review!Requests]
    BY <1>2, <1>4, DeskTypes DEF Review!Forgotten
  <2> QED BY <2>1, DeskTypes, IsASeq, LenProperties
<1> QED BY <1>2, <1>3, <1>4, <1>5, DeskTypes, AnswerKeeps

\* A request is sent from the page that shows its review.
LEMMA SendKeeps ==
  ASSUME DeskInv, NEW d \in Desks, NEW what \in Review!Decisions \union Grades, NEW byHand \in BOOLEAN,
         what \in Grades => byHand = TRUE,
         desk[d].state = "shown", Review!Send(d, what, byHand),
         NEW p \in Review!Workbenches, PageFits(p), p.state = "shown" /\ p.id = desk[d].id,
         desk' = [desk EXCEPT ![d] = p], UNCHANGED <<version, reviews, grade, unsure, loads>>
  PROVE  DeskInv'
<1>1. PICK n \in Nat : n = Len(requests) /\ DOMAIN requests = 1 .. n
  BY DeskTypes
<1>2. /\ desk[d] \in Review!Workbenches /\ desk[d].id \in DOMAIN reviews
      /\ desk[d].content = reviews[desk[d].id].content
  BY DeskTypes DEF DeskInv, PageFits
<1> DEFINE q == [desk |-> d, id |-> desk[d].id, content |-> desk[d].content, what |-> what, byHand |-> byHand,
                 heard |-> TRUE, state |-> "sent"]
<1>3. q \in Review!Requests /\ RequestFits(q) /\ q.desk = d /\ q.id = p.id /\ q.state = "sent"
  BY <1>2 DEF Review!Requests, Review!Workbenches, RequestFits
<1>4. requests' = Append(requests, q)
  BY DEF Review!Send, Review!CommandBlock
<1> HIDE DEF q
<1>5. /\ requests' \in Seq(Review!Requests) /\ DOMAIN requests' = 1 .. n + 1 /\ requests'[n + 1] = q
      /\ \A i \in 1 .. n : requests'[i] = requests[i]
  BY <1>1, <1>3, <1>4, DeskTypes
<1>6. /\ desk' \in [Desks -> Review!Workbenches] /\ \A e \in Desks : PageFits(desk'[e])
      /\ \A e \in Desks \ {d} : desk'[e] = desk[e] /\ desk'[d] = p
  BY DeskTypes DEF DeskInv
<1>7. Review!TypeOK'
  BY <1>5, <1>6 DEF DeskInv, Review!TypeOK
<1>8. \A e \in Desks : PageFits(desk[e])'
  BY <1>6 DEF PageFits
<1>9. ASSUME NEW i \in 1 .. n + 1 PROVE RequestFits(requests[i])' /\ Heard(requests[i])'
  <2>1. CASE i \in 1 .. n
    BY <1>1, <1>5, <1>6, <2>1 DEF DeskInv, RequestFits, Heard
  <2>2. CASE i = n + 1
    BY <1>3, <1>5, <1>6, <2>2 DEF RequestFits, Heard
  <2> QED BY <1>1, <2>1, <2>2
<1>10. OnePending'
  BY DEF DeskInv, OnePending
<1>11. Review!ReleasedWasShown'
  BY <1>1, <1>5 DEF DeskInv, Review!ReleasedWasShown
<1>12. Review!DecidedOnce'
  <2> SUFFICES ASSUME NEW i \in 1 .. n + 1, NEW j \in 1 .. n + 1, i # j,
                      requests'[i].id = requests'[j].id,
                      requests'[i].what \in Review!Decisions, requests'[j].what \in Review!Decisions,
                      requests'[i].state \in {"written", "answered"},
                      requests'[j].state \in {"written", "answered"}
               PROVE  FALSE
    BY <1>5 DEF Review!DecidedOnce, Review!Decisions
  <2>1. i \in 1 .. n /\ j \in 1 .. n
    BY <1>1, <1>3, <1>5
  <2> QED BY <1>1, <1>5, <2>1 DEF DeskInv, Review!DecidedOnce
<1> QED BY <1>5, <1>7, <1>8, <1>9, <1>10, <1>11, <1>12 DEF DeskInv

\* What reviewers do on their pages.
LEMMA PageStays ==
  ASSUME DeskInv, NEW d \in Desks, NEW p \in Review!Workbenches, PageFits(p),
         p.state = desk[d].state, p.id = desk[d].id, Review!Show(d, p),
         UNCHANGED <<requests, unsure, loads>>, Review!DeskOnly
  PROVE  DeskInv'
BY PageKeeps, DeskTypes DEF Review!Show, Review!DeskOnly

\* The page goes on with the fields changed that no review is about.
PageGoesOn(q, p) ==
  /\ p.state = q.state /\ p.id = q.id /\ p.content = q.content /\ p.status = q.status
  /\ p.current = q.current \/ q.state = "shown"
  /\ (p.picked = q.picked /\ p.byHand = q.byHand) \/ p.byHand = TRUE
  /\ p.needsSync = q.needsSync \/ q.state = "shown"

LEMMA GoesOnFits ==
  ASSUME NEW q \in Review!Workbenches, PageFits(q), NEW p, PageGoesOn(q, p) PROVE PageFits(p)
BY DEF PageFits, PageGoesOn

LEMMA DecidingKeeps ==
  ASSUME DeskInv, Review!DeskAssumption, NEW d \in Desks, Review!Deciding(d)
  PROVE  DeskInv'
<1>1. PICK pg \in Review!Workbenches : pg = desk[d] /\ PageFits(pg)
  BY DeskTypes DEF DeskInv
<1>2. CASE Review!Open(d) \/ Review!Sync(d)
  <2>1. loads' \in 0 .. MaxLoads
    BY <1>2, DeskTypes DEF Review!Open, Review!Sync, Review!Click, Review!DeskAssumption
  <2>2. PICK id \in DOMAIN reviews : Review!Load(d, id)
    BY <1>1, <1>2 DEF Review!Open, Review!Sync, PageFits, Review!Workbenches
  <2> QED BY <2>1, <2>2, LoadKeeps
<1>3. CASE Review!FindReviewWorkbench(d)
  <2> DEFINE p == [pg EXCEPT !.state = "shown", !.status = reviews[pg.id].status,
                             !.content = reviews[pg.id].content]
  <2>1. pg.state = "loading" /\ pg.id \in DOMAIN reviews
    BY <1>1, <1>3 DEF Review!FindReviewWorkbench, PageFits
  <2>2. reviews[pg.id] \in Review!Reviews
    BY <2>1, DeskTypes
  <2>3. p \in Review!Workbenches /\ PageFits(p) /\ p.id = pg.id
    BY <1>1, <2>1, <2>2 DEF Review!Workbenches, Review!Reviews, PageFits
  <2>4. desk' = [desk EXCEPT ![d] = p] /\ UNCHANGED <<version, reviews, grade, requests, unsure, loads>>
    BY <1>1, <1>3 DEF Review!FindReviewWorkbench, Review!Show, Review!DeskOnly
  <2> HIDE DEF p
  <2>5. \A i \in DOMAIN requests : requests[i].desk = d => requests[i].heard = FALSE
    BY <1>1, <2>1, DeskTypes DEF DeskInv, Heard, Review!Requests
  <2> QED BY <2>3, <2>4, <2>5, PageKeeps, DeskTypes
<1>4. ASSUME NEW p \in Review!Workbenches, PageGoesOn(pg, p), Review!Show(d, p),
             UNCHANGED <<requests, unsure, loads>>, Review!DeskOnly
      PROVE  DeskInv'
  <2>1. PageFits(p) /\ p.state = desk[d].state /\ p.id = desk[d].id
    BY <1>1, <1>4, GoesOnFits DEF PageGoesOn
  <2> QED BY <1>4, <2>1, PageStays
<1>5. CASE Review!TypeReason(d)
  <2> DEFINE p == [pg EXCEPT !.reason = ~pg.reason, !.error = pg.needsSync /\ pg.error]
  <2>1. p \in Review!Workbenches /\ PageGoesOn(pg, p)
    BY ZenonT(30) DEF Review!Workbenches, PageGoesOn
  <2>2. Review!Show(d, p) /\ UNCHANGED <<requests, unsure, loads>> /\ Review!DeskOnly
    BY <1>1, <1>5 DEF Review!TypeReason
  <2> HIDE DEF p
  <2> QED BY <1>4, <2>1, <2>2
<1>6. ASSUME NEW decision \in Review!Decisions, Review!SubmitDecision(d, decision) PROVE DeskInv'
  <2> DEFINE p == [pg EXCEPT !.submitting = TRUE, !.error = FALSE]
  <2>1. p \in Review!Workbenches /\ PageGoesOn(pg, p)
    BY DEF Review!Workbenches, PageGoesOn
  <2>2. /\ desk' = [desk EXCEPT ![d] = p] /\ UNCHANGED <<version, reviews, grade, unsure, loads>>
        /\ Review!Send(d, decision, TRUE) /\ desk[d].state = "shown"
    BY <1>1, <1>6 DEF Review!SubmitDecision, Review!Show, Review!DeskOnly, Review!CanDecide
  <2> HIDE DEF p
  <2>3. PageFits(p) /\ p.state = "shown" /\ p.id = desk[d].id
    BY <1>1, <2>1, <2>2, GoesOnFits DEF PageGoesOn
  <2> QED BY <2>1, <2>2, <2>3, SendKeeps
<1>7. CASE Review!RejectWithoutReason(d)
  <2> DEFINE p == [pg EXCEPT !.error = TRUE]
  <2>1. p \in Review!Workbenches /\ PageGoesOn(pg, p)
    BY DEF Review!Workbenches, PageGoesOn
  <2>2. Review!Show(d, p) /\ UNCHANGED <<requests, unsure, loads>> /\ Review!DeskOnly
    BY <1>1, <1>7 DEF Review!RejectWithoutReason
  <2> HIDE DEF p
  <2> QED BY <1>4, <2>1, <2>2
<1>8. CASE Review!AskToConfirm(d)
  <2> DEFINE p == [pg EXCEPT !.confirming = TRUE, !.error = FALSE]
  <2>1. p \in Review!Workbenches /\ PageGoesOn(pg, p)
    BY DEF Review!Workbenches, PageGoesOn
  <2>2. Review!Show(d, p) /\ UNCHANGED <<requests, unsure, loads>> /\ Review!DeskOnly
    BY <1>1, <1>8 DEF Review!AskToConfirm
  <2> HIDE DEF p
  <2> QED BY <1>4, <2>1, <2>2
<1>9. CASE Review!CloseConfirmation(d)
  <2> DEFINE p == [pg EXCEPT !.confirming = FALSE]
  <2>1. p \in Review!Workbenches /\ PageGoesOn(pg, p)
    BY DEF Review!Workbenches, PageGoesOn
  <2>2. Review!Show(d, p) /\ UNCHANGED <<requests, unsure, loads>> /\ Review!DeskOnly
    BY <1>1, <1>9 DEF Review!CloseConfirmation
  <2> HIDE DEF p
  <2> QED BY <1>4, <2>1, <2>2
<1> QED BY <1>2, <1>3, <1>5, <1>6, <1>7, <1>8, <1>9 DEF Review!Deciding

LEMMA GradingKeeps ==
  ASSUME DeskInv, Review!DeskAssumption, NEW d \in Desks, Review!Grading(d)
  PROVE  DeskInv'
<1>1. PICK pg \in Review!Workbenches : pg = desk[d] /\ PageFits(pg)
  BY DeskTypes DEF DeskInv
<1>2. ASSUME NEW p \in Review!Workbenches, PageGoesOn(pg, p), Review!Show(d, p),
             UNCHANGED <<requests, unsure, loads>>, Review!DeskOnly
      PROVE  DeskInv'
  <2>1. PageFits(p) /\ p.state = desk[d].state /\ p.id = desk[d].id
    BY <1>1, <1>2, GoesOnFits DEF PageGoesOn
  <2> QED BY <1>2, <2>1, PageStays
<1>3. CASE Review!FetchPackageDetail(d)
  <2> DEFINE p == [pg EXCEPT !.current = grade]
  <2>1. p \in Review!Workbenches /\ PageGoesOn(pg, p)
    BY <1>1, <1>3, DeskTypes DEF Review!Workbenches, PageGoesOn, Review!FetchPackageDetail
  <2>2. Review!Show(d, [pg EXCEPT !.current = grade]) /\ UNCHANGED <<requests, unsure, loads>> /\ Review!DeskOnly
    BY <1>1, <1>3 DEF Review!FetchPackageDetail
  <2> HIDE DEF p
  <2> QED BY <1>2, <2>1, <2>2 DEF p
<1>4. ASSUME NEW g \in Grades, Review!PickGrade(d, g) PROVE DeskInv'
  <2> DEFINE p == [pg EXCEPT !.picked = g, !.byHand = TRUE]
  <2>1. p \in Review!Workbenches /\ p.state = pg.state /\ p.id = pg.id
    BY DEF Review!Workbenches
  <2>2. PageFits(p)
    BY <1>1 DEF Review!Workbenches, PageFits
  <2>3. Review!Show(d, p) /\ UNCHANGED <<requests, unsure, loads>> /\ Review!DeskOnly
    BY <1>1, <1>4 DEF Review!PickGrade
  <2> HIDE DEF p
  <2> QED BY <1>1, <2>1, <2>2, <2>3, PageStays
<1>5. CASE Review!SubmitGrade(d)
  <2> DEFINE p == [pg EXCEPT !.grading = TRUE]
  <2>1. p \in Review!Workbenches /\ PageGoesOn(pg, p)
    BY DEF Review!Workbenches, PageGoesOn
  <2>2. /\ desk' = [desk EXCEPT ![d] = p] /\ UNCHANGED <<version, reviews, grade, unsure, loads>>
        /\ Review!Send(d, pg.picked, pg.byHand) /\ pg.current # Review!NoGrade /\ pg.picked # Review!NoGrade
    BY <1>1, <1>5 DEF Review!SubmitGrade, Review!Show, Review!DeskOnly
  <2> HIDE DEF p
  <2>3. /\ PageFits(p) /\ p.state = "shown" /\ p.id = desk[d].id /\ pg.state = "shown" /\ pg.byHand = TRUE
    BY <1>1, <2>1, <2>2, GoesOnFits DEF PageGoesOn, PageFits
  <2>4. pg.picked \in Grades /\ pg.byHand \in BOOLEAN
    BY <2>2 DEF Review!Workbenches
  <2> QED BY <1>1, <2>1, <2>2, <2>3, <2>4, SendKeeps
<1> QED BY <1>3, <1>4, <1>5 DEF Review!Grading

\* A request goes on to q, and its page, when it hears of it, to p.
LEMMA OneAnswerKeeps ==
  ASSUME DeskInv, UNCHANGED <<version, reviews>>, grade' \in Grades, unsure' \subseteq Desks, loads' = loads,
         NEW i \in DOMAIN requests, NEW q \in Review!Requests, Follows(requests[i], q),
         requests' = [requests EXCEPT ![i] = q],
         \/ UNCHANGED desk
         \/ \E p \in Review!Workbenches :
              /\ desk' = [desk EXCEPT ![requests[i].desk] = p] /\ PageFits(p)
              /\ p.state = desk[requests[i].desk].state /\ p.id = desk[requests[i].desk].id
  PROVE  DeskInv'
<1>1. requests' \in Seq(Review!Requests) /\ Len(requests') = Len(requests)
      /\ \A j \in DOMAIN requests : requests'[j] = IF j = i THEN q ELSE requests[j]
  BY DeskTypes
<1>2. \A j \in DOMAIN requests : Follows(requests[j], requests'[j])
  BY <1>1 DEF Follows
<1>3. \A j \in DOMAIN requests : requests[j].desk \in Desks
  <2>1. \A j \in DOMAIN requests : requests[j] \in Review!Requests
    BY DeskTypes
  <2>2. \A x \in Review!Requests : x.desk \in Desks
    BY DEF Review!Requests
  <2> QED BY <2>1, <2>2
<1>4. /\ desk' \in [Desks -> Review!Workbenches] /\ \A d \in Desks : PageFits(desk'[d])
      /\ \A d \in Desks : desk'[d].state = desk[d].state /\ desk'[d].id = desk[d].id
  BY SMTT(30), <1>3, DeskTypes DEF DeskInv
<1> QED BY <1>1, <1>2, <1>3, <1>4, DeskTypes, AnswerKeeps

\* The answers that decide nothing, and those that are lost.
LEMMA AnswersKeep ==
  ASSUME DeskInv, Review!DeskAssumption, NEW i \in DOMAIN requests,
         \/ Review!RefuseDecision(i) \/ Review!SetPackageGrade(i) \/ Review!DecisionComes(i)
         \/ Review!Conflict(i) \/ Review!GradeComes(i) \/ Review!Dropped(i) \/ Review!Losing(i)
  PROVE  DeskInv'
<1>1. PICK q \in Review!Requests : q = requests[i] /\ RequestFits(q) /\ Heard(q)
  BY DeskTypes DEF DeskInv
<1>2. /\ q.desk \in Desks /\ q.what \in Review!Decisions \union Grades
      /\ Grades \intersect Review!Decisions = {}
  BY DEF Review!Requests, Review!DeskAssumption, Review!Decisions
<1>3. PICK pg \in Review!Workbenches : pg = desk[q.desk] /\ PageFits(pg)
  BY <1>2, DeskTypes DEF DeskInv
<1>4. grade \in Grades /\ unsure \subseteq Desks
  BY DeskTypes
<1>5. ASSUME NEW state \in {"sent", "written", "refused", "answered", "dropped"}
      PROVE  /\ [q EXCEPT !.state = state] \in Review!Requests
             /\ q.what \in Grades \/ state \notin {"written", "answered"} \/ q.state \in {"written", "answered"} =>
                  Follows(q, [q EXCEPT !.state = state])
  BY <1>2 DEF Review!Requests, Follows
<1>6. CASE Review!RefuseDecision(i)
  <2>1. /\ requests' = [requests EXCEPT ![i] = [q EXCEPT !.state = "refused"]]
        /\ UNCHANGED <<version, reviews, grade, desk, unsure, loads>>
    BY <1>1, <1>6 DEF Review!RefuseDecision, Review!Becomes
  <2>2. [q EXCEPT !.state = "refused"] \in Review!Requests /\ Follows(q, [q EXCEPT !.state = "refused"])
    BY <1>5
  <2> QED BY <1>1, <1>4, <2>1, <2>2, OneAnswerKeeps
<1>7. CASE Review!Dropped(i)
  <2>1. /\ requests' = [requests EXCEPT ![i] = [q EXCEPT !.state = "dropped"]]
        /\ UNCHANGED <<version, reviews, grade, desk, unsure, loads>>
    BY <1>1, <1>7 DEF Review!Dropped, Review!Becomes
  <2>2. [q EXCEPT !.state = "dropped"] \in Review!Requests /\ Follows(q, [q EXCEPT !.state = "dropped"])
    BY <1>5
  <2> QED BY <1>1, <1>4, <2>1, <2>2, OneAnswerKeeps
<1>8. CASE Review!SetPackageGrade(i)
  <2>1. /\ requests' = [requests EXCEPT ![i] = [q EXCEPT !.state = "written"]]
        /\ UNCHANGED <<version, reviews, desk, unsure, loads>> /\ grade' \in Grades /\ q.what \in Grades
    BY <1>1, <1>8 DEF Review!SetPackageGrade, Review!Becomes
  <2>2. [q EXCEPT !.state = "written"] \in Review!Requests /\ Follows(q, [q EXCEPT !.state = "written"])
    BY <1>5, <2>1
  <2> QED BY <1>1, <1>4, <2>1, <2>2, OneAnswerKeeps
<1>9. CASE Review!Conflict(i)
  <2>1. Review!Load(q.desk, q.id) /\ q.id \in DOMAIN reviews /\ loads' \in 0 .. MaxLoads
    BY <1>1, <1>9, DeskTypes DEF Review!Conflict, Review!Of, RequestFits
  <2> QED BY <1>2, <2>1, LoadKeeps
<1>10. ASSUME NEW p \in Review!Workbenches, Review!Hear(i, p), UNCHANGED <<version, reviews, grade, loads>>,
              unsure' \subseteq Desks, NEW s \in Review!Requests, Follows(q, s), requests' = [requests EXCEPT ![i] = s],
              q.heard = TRUE => p.state = "shown" /\ p.id = q.id /\ PageFits(p)
       PROVE  DeskInv'
  <2>1. CASE q.heard = TRUE
    <3>1. desk' = [desk EXCEPT ![q.desk] = p] /\ pg.state = "shown" /\ pg.id = q.id
      BY <1>1, <1>3, <1>10, <2>1 DEF Review!Hear, Review!Of, Review!Show, Heard
    <3> QED BY <1>1, <1>3, <1>4, <1>10, <2>1, <3>1, OneAnswerKeeps
  <2>2. CASE q.heard = FALSE
    <3>1. UNCHANGED desk
      BY <1>1, <1>10, <2>2 DEF Review!Hear
    <3> QED BY <1>1, <1>4, <1>10, <3>1, OneAnswerKeeps
  <2> QED BY <2>1, <2>2 DEF Review!Requests
<1>11. CASE Review!DecisionComes(i)
  <2> DEFINE p == [pg EXCEPT !.submitting = FALSE, !.confirming = FALSE, !.status = Review!Decided(q.what)]
             s == [q EXCEPT !.state = "answered"]
  <2>1. /\ requests' = [requests EXCEPT ![i] = s] /\ Review!Hear(i, p) /\ UNCHANGED <<version, reviews, grade, unsure, loads>>
        /\ q.state = "written" /\ q.what \in Review!Decisions
    BY <1>1, <1>3, <1>11 DEF Review!DecisionComes, Review!Becomes, Review!Of, Review!DeskOnly
  <2>2. s \in Review!Requests /\ Follows(q, s)
    BY <1>5, <2>1
  <2>3. Review!Decided(q.what) \in {"approved", "rejected"} /\ reviews[q.id].status = Review!Decided(q.what)
    BY <1>1, <2>1 DEF Review!Decided, RequestFits
  <2>4. /\ p \in Review!Workbenches /\ p.state = pg.state /\ p.id = pg.id /\ p.content = pg.content
        /\ p.status = Review!Decided(q.what) /\ p.current = pg.current /\ p.picked = pg.picked
        /\ p.byHand = pg.byHand /\ p.needsSync = pg.needsSync
    BY <2>3 DEF Review!Workbenches
  <2> HIDE DEF p, s
  <2>5. q.heard = TRUE => p.state = "shown" /\ p.id = q.id /\ PageFits(p)
    BY <1>1, <1>3, <2>3, <2>4 DEF Heard, PageFits
  <2> QED BY <1>4, <1>10, <2>1, <2>2, <2>4, <2>5
<1>12. CASE Review!GradeComes(i)
  <2> DEFINE p == [pg EXCEPT !.grading = FALSE, !.picked = Review!NoGrade, !.byHand = FALSE, !.current = Review!NoGrade]
             s == [q EXCEPT !.state = "answered"]
  <2>1. /\ requests' = [requests EXCEPT ![i] = s] /\ Review!Hear(i, p) /\ UNCHANGED <<version, reviews, grade, unsure, loads>>
        /\ q.what \in Grades
    BY <1>1, <1>3, <1>12 DEF Review!GradeComes, Review!Becomes, Review!Of, Review!DeskOnly
  <2>2. s \in Review!Requests /\ Follows(q, s)
    BY <1>5, <2>1
  <2>3. /\ p \in Review!Workbenches /\ p.state = pg.state /\ p.id = pg.id /\ p.content = pg.content
        /\ p.status = pg.status /\ p.current = Review!NoGrade /\ p.picked = Review!NoGrade
        /\ p.needsSync = pg.needsSync
    BY DEF Review!Workbenches
  <2> HIDE DEF p, s
  <2>4. q.heard = TRUE => p.state = "shown" /\ p.id = q.id /\ PageFits(p)
    BY <1>1, <1>3, <2>3 DEF Heard, PageFits
  <2> QED BY <1>4, <1>10, <2>1, <2>2, <2>3, <2>4
<1>13. ASSUME NEW kind \in {"retryable", "body"}, Review!Lost(i, kind) PROVE DeskInv'
  <2> DEFINE s == [q EXCEPT !.heard = FALSE]
             given == [pg EXCEPT !.submitting = FALSE, !.error = TRUE, !.needsSync = kind = "retryable"]
             left == [pg EXCEPT !.grading = FALSE]
  <2>1. s \in Review!Requests /\ Follows(q, s)
    BY DEF Review!Requests, Follows
  <2>2. requests' = [requests EXCEPT ![i] = s] /\ UNCHANGED <<version, reviews, grade, loads>>
        /\ unsure' \subseteq Desks
    BY <1>1, <1>2, <1>4, <1>13 DEF Review!Lost, Review!DeskOnly, Review!Of
  <2>3. Review!Hear(i, IF q.what \in Review!Decisions THEN given ELSE left)
    BY <1>1, <1>3, <1>13 DEF Review!Lost, Review!Of
  <2>4. given \in Review!Workbenches /\ left \in Review!Workbenches /\ PageGoesOn(pg, left)
        /\ given.state = pg.state /\ given.id = pg.id /\ given.content = pg.content
        /\ given.status = pg.status /\ given.current = pg.current /\ given.picked = pg.picked
        /\ given.byHand = pg.byHand
    BY ZenonT(30) DEF Review!Workbenches, PageGoesOn
  <2> HIDE DEF s, given, left
  <2>5. q.heard = TRUE => pg.state = "shown" /\ pg.id = q.id
    BY <1>1, <1>3 DEF Heard
  <2>6. q.heard = TRUE => PageFits(given) /\ PageFits(left) /\ left.state = "shown" /\ left.id = q.id
    BY <1>3, <2>4, <2>5 DEF PageFits, PageGoesOn
  <2>7. CASE q.what \in Review!Decisions
    BY <1>10, <2>1, <2>2, <2>3, <2>4, <2>5, <2>6, <2>7
  <2>8. CASE q.what \notin Review!Decisions
    BY <1>10, <2>1, <2>2, <2>3, <2>4, <2>5, <2>6, <2>8
  <2> QED BY <2>7, <2>8
<1> QED BY <1>6, <1>7, <1>8, <1>9, <1>11, <1>12, <1>13 DEF Review!Losing

\* The author's steps: a review that was pending is taken back before another is opened.
LEMMA AuthorKeeps ==
  ASSUME DeskInv, Review!Submit \/ Review!Revise
  PROVE  DeskInv'
<1>1. PICK n \in Nat : n = Len(reviews) /\ DOMAIN reviews = 1 .. n /\ reviews \in Seq(Review!Reviews)
  BY DeskTypes
<1>2. /\ UNCHANGED <<grade, desk, requests, unsure, loads>> /\ version \in Review!Versions /\ grade \in Grades
  BY DeskTypes DEF Review!Submit, Review!Revise, Review!ServerOnly
<1>3. ASSUME reviews' \in Seq(Review!Reviews), version' \in Review!Versions, ReviewsStay,
             version'.lifecycle # "published", OnePending'
      PROVE  DeskInv'
  <2>1. Review!TypeOK'
    BY <1>2, <1>3 DEF DeskInv, Review!TypeOK
  <2>2. \A d \in Desks : PageFits(desk[d])'
    <3> SUFFICES ASSUME NEW d \in Desks PROVE PageFits(desk[d])'
      OBVIOUS
    <3>1. PICK p : p = desk[d] /\ PageFits(p)
      BY DEF DeskInv
    <3> QED BY <1>2, <1>3, <3>1, FitsStay
  <2>3. ASSUME NEW i \in DOMAIN requests PROVE RequestFits(requests[i])' /\ Heard(requests[i])'
    <3>1. PICK q : q = requests[i] /\ RequestFits(q) /\ Heard(q)
      BY DEF DeskInv
    <3>2. RequestFits(q)'
      BY <1>3, <3>1, FitsStay
    <3> QED BY <1>2, <3>1, <3>2 DEF Heard
  <2> QED BY <1>2, <1>3, <2>1, <2>2, <2>3 DEF DeskInv, Review!ReleasedWasShown, Review!DecidedOnce
<1>4. CASE Review!Submit
  <2> DEFINE new == [content |-> version.content, status |-> "pending", grade |-> grade]
  <2>1. new \in Review!Reviews
    BY <1>2 DEF Review!Versions, Review!Reviews
  <2>2. reviews' = Append(reviews, new) /\ version.lifecycle = "draft"
        /\ version' = [version EXCEPT !.lifecycle = "review_required"]
    BY <1>4 DEF Review!Submit
  <2>3. /\ version' \in Review!Versions /\ version'.lifecycle = "review_required"
        /\ version'.content = version.content /\ new.content = version.content
    BY <1>2, <2>2 DEF Review!Versions
  <2> HIDE DEF new
  <2>4. /\ reviews' \in Seq(Review!Reviews) /\ DOMAIN reviews' = 1 .. n + 1 /\ reviews'[n + 1] = new
        /\ \A k \in 1 .. n : reviews'[k] = reviews[k]
    BY <1>1, <2>1, <2>2
  <2>5. ReviewsStay
    BY <1>1, <2>4 DEF ReviewsStay
  <2>6. \A k \in 1 .. n : reviews[k].status # "pending"
    BY <1>1, <2>2 DEF DeskInv, OnePending
  <2>7. \A k \in 1 .. n + 1 : k \in 1 .. n \/ k = n + 1
    BY <1>1
  <2>8. OnePending'
    BY <2>3, <2>4, <2>6, <2>7 DEF OnePending
  <2> QED BY <1>3, <2>3, <2>4, <2>5, <2>8
<1>5. CASE Review!Revise
  <2>1. /\ version' = [content |-> version.content + 1, lifecycle |-> "draft"]
        /\ reviews' = [k \in 1 .. n |->
             IF reviews[k].status = "pending" THEN [reviews[k] EXCEPT !.status = "superseded"] ELSE reviews[k]]
    BY <1>1, <1>5 DEF Review!Revise
  <2>2. ASSUME NEW k \in 1 .. n
        PROVE  /\ reviews'[k] \in Review!Reviews /\ reviews'[k].status # "pending"
               /\ reviews'[k].content = reviews[k].content
               /\ reviews[k].status \in {"approved", "rejected"} => reviews'[k].status = reviews[k].status
    <3>1. PICK x \in Review!Reviews : x = reviews[k]
      BY <1>1
    <3>2. reviews'[k] = IF x.status = "pending" THEN [x EXCEPT !.status = "superseded"] ELSE x
      BY <2>1, <3>1
    <3> QED BY <3>1, <3>2 DEF Review!Reviews
  <2>3. reviews' \in Seq(Review!Reviews) /\ DOMAIN reviews' = 1 .. n
    <3>1. reviews' \in [1 .. n -> Review!Reviews]
      BY <2>1, <2>2
    <3> QED BY <3>1, IsASeq
  <2>4. version' \in Review!Versions /\ version'.lifecycle = "draft"
    BY <1>2, <2>1 DEF Review!Versions
  <2>5. ReviewsStay /\ OnePending'
    BY <1>1, <2>2, <2>3 DEF ReviewsStay, OnePending
  <2> QED BY <1>3, <2>3, <2>4, <2>5
<1> QED BY <1>4, <1>5

\* The one pending review is decided, of the content the page showed.
LEMMA DecideKeeps ==
  ASSUME DeskInv, Review!DeskAssumption, NEW i \in DOMAIN requests, Review!DecideReview(i)
  PROVE  DeskInv'
<1>1. PICK q \in Review!Requests : q = requests[i] /\ RequestFits(q) /\ Heard(q)
  BY DeskTypes DEF DeskInv
<1>2. PICK k \in DOMAIN reviews : k = q.id
  BY <1>1 DEF RequestFits
<1>3. PICK old \in Review!Reviews : old = reviews[k]
  BY DeskTypes
<1>4. PICK status \in {"approved", "rejected"} : status = Review!Decided(q.what)
  BY DEF Review!Decided
<1> DEFINE new == [old EXCEPT !.status = status]
           s == [q EXCEPT !.state = "written"]
           lifecycle == IF q.what = "approve" THEN "published" ELSE "draft"
<1>5. /\ q.state = "sent" /\ q.what \in Review!Decisions /\ old.status = "pending"
      /\ version.lifecycle = "review_required"
      /\ reviews' = [reviews EXCEPT ![k] = new] /\ requests' = [requests EXCEPT ![i] = s]
      /\ version' = [version EXCEPT !.lifecycle = lifecycle]
      /\ UNCHANGED <<grade, desk, unsure, loads>>
  BY <1>1, <1>2, <1>3, <1>4 DEF Review!DecideReview, Review!Becomes
<1>6. /\ new \in Review!Reviews /\ new.status = status /\ new.content = old.content
      /\ s \in Review!Requests /\ s.id = k /\ s.what = q.what /\ s.content = q.content /\ s.heard = q.heard
      /\ s.desk = q.desk /\ s.byHand = q.byHand /\ s.state = "written"
  BY <1>2 DEF Review!Reviews, Review!Requests
<1>7. /\ version' \in Review!Versions /\ version'.content = version.content /\ version'.lifecycle = lifecycle
      /\ lifecycle \in {"published", "draft"}
  BY <1>5, DeskTypes DEF Review!Versions
<1> HIDE DEF new, s
<1>8. /\ reviews' \in Seq(Review!Reviews) /\ DOMAIN reviews' = DOMAIN reviews
      /\ \A m \in DOMAIN reviews : reviews'[m] = IF m = k THEN new ELSE reviews[m]
  BY <1>5, <1>6, DeskTypes
<1>9. /\ requests' \in Seq(Review!Requests) /\ DOMAIN requests' = DOMAIN requests
      /\ \A j \in DOMAIN requests : requests'[j] = IF j = i THEN s ELSE requests[j]
  BY <1>5, <1>6, DeskTypes
<1>10. ReviewsStay
  BY <1>3, <1>5, <1>6, <1>8 DEF ReviewsStay
<1>11. Review!TypeOK'
  BY <1>5, <1>7, <1>8, <1>9 DEF DeskInv, Review!TypeOK
<1>12. \A d \in Desks : PageFits(desk[d])'
  <2> SUFFICES ASSUME NEW d \in Desks PROVE PageFits(desk[d])'
    OBVIOUS
  <2>1. PICK p : p = desk[d] /\ PageFits(p)
    BY DEF DeskInv
  <2> QED BY <1>5, <1>10, <2>1, FitsStay
<1>13. ASSUME NEW j \in DOMAIN requests PROVE RequestFits(requests[j])' /\ Heard(requests[j])'
  <2>1. PICK x : x = requests[j] /\ RequestFits(x) /\ Heard(x)
    BY DEF DeskInv
  <2>2. RequestFits(x)'
    BY <1>10, <2>1, FitsStay
  <2>3. CASE j # i
    BY <1>5, <1>9, <2>1, <2>2, <2>3 DEF Heard
  <2>4. CASE j = i
    <3>1. RequestFits(q)'
      BY <1>1, <1>10, FitsStay
    <3>2. RequestFits(s)'
      BY <1>2, <1>4, <1>6, <1>8, <3>1 DEF RequestFits
    <3> QED BY <1>1, <1>5, <1>6, <1>9, <1>2, <2>4, <3>2 DEF Heard
  <2> QED BY <2>3, <2>4
<1>14. OnePending'
  BY <1>3, <1>5, <1>6, <1>8 DEF DeskInv, OnePending
<1>15. Review!ReleasedWasShown'
  <2> SUFFICES ASSUME version'.lifecycle = "published"
               PROVE  \E j \in DOMAIN requests' : requests'[j].what = "approve" /\ requests'[j].content = version'.content
    BY DEF Review!ReleasedWasShown
  <2>1. q.what = "approve"
    BY <1>7
  <2>2. q.content = version.content
    BY <1>1, <1>2, <1>3, <1>5 DEF DeskInv, OnePending, RequestFits
  <2> QED BY <1>6, <1>7, <1>9, <2>1, <2>2
<1>16. Review!DecidedOnce'
  <2> SUFFICES ASSUME NEW a \in DOMAIN requests, NEW b \in DOMAIN requests, a # b,
                      requests'[a].id = requests'[b].id,
                      requests'[a].what \in Review!Decisions, requests'[b].what \in Review!Decisions,
                      requests'[a].state \in {"written", "answered"},
                      requests'[b].state \in {"written", "answered"}
               PROVE  FALSE
    BY <1>9 DEF Review!DecidedOnce, Review!Decisions
  <2>1. ASSUME NEW j \in DOMAIN requests, j # i, requests[j].id = k,
               requests[j].what \in Review!Decisions, requests[j].state \in {"written", "answered"}
        PROVE  FALSE
    <3>1. reviews[k].status = Review!Decided(requests[j].what)
      BY <2>1 DEF DeskInv, RequestFits
    <3> QED BY <1>3, <1>5, <3>1 DEF Review!Decided
  <2>2. a # i /\ b # i
    BY <1>6, <1>9, <2>1
  <2> QED BY <1>9, <2>2 DEF DeskInv, Review!DecidedOnce
<1> QED BY <1>9, <1>11, <1>12, <1>13, <1>14, <1>15, <1>16 DEF DeskInv

LEMMA DeskStep ==
  ASSUME DeskInv, Review!DeskAssumption, [Review!Next]_(Review!deskVars)
  PROVE  DeskInv'
<1>1. CASE UNCHANGED Review!deskVars
  BY <1>1 DEF DeskInv, Review!deskVars, Review!TypeOK, PageFits, RequestFits, Heard, OnePending,
     Review!ReleasedWasShown, Review!DecidedOnce
<1>2. ASSUME NEW i \in DOMAIN requests, Review!Answers(i) \/ Review!Losing(i) PROVE DeskInv'
  BY <1>2, AnswersKeep, DecideKeeps DEF Review!Answers
<1> QED BY <1>1, <1>2, AuthorKeeps, DecidingKeeps, GradingKeeps DEF Review!Next

LEMMA DeskStart == ASSUME Review!DeskAssumption, Review!Init PROVE DeskInv
<1>1. Review!ClosedDesk \in Review!Workbenches /\ PageFits(Review!ClosedDesk)
  BY DEF Review!ClosedDesk, Review!Workbenches, Review!NoGrade, PageFits
<1>2. Review!TypeOK
  BY <1>1 DEF Review!Init, Review!TypeOK, Review!Versions, Review!DeskAssumption
<1> QED BY <1>1, <1>2 DEF Review!Init, DeskInv, OnePending, Review!ReleasedWasShown, Review!DecidedOnce

\* For any number of reviewers and grades: a page shows a review as decided only if it is,
\* what is released stood on the page it was approved from, a review is decided once, and
\* a grade is replaced by one picked by hand (submitDecision, decideReview, submitGrade).
THEOREM DecisionsAreReal ==
  ASSUME Review!DeskAssumption
  PROVE  Review!Spec => [](/\ Review!TypeOK /\ Review!ShownDecisionIsReal /\ Review!ReleasedWasShown
                           /\ Review!DecidedOnce /\ Review!GradeWasPicked)
<1>1. ASSUME DeskInv
      PROVE  /\ Review!TypeOK /\ Review!ShownDecisionIsReal /\ Review!ReleasedWasShown
             /\ Review!DecidedOnce /\ Review!GradeWasPicked
  BY <1>1 DEF DeskInv, PageFits, RequestFits, Review!ShownDecisionIsReal, Review!GradeWasPicked
<1> QED BY <1>1, DeskStart, DeskStep, PTL DEF Review!Spec

\* No answer to a decision is cut off behind its head, where the client does not notice
\* that it is missing.
Whole == \A i \in DOMAIN requests :
  requests[i].what \in Review!Decisions /\ requests[i].heard => ~Review!Lost(i, "body")
AnswersWhole == [][Whole]_(Review!deskVars)

\* A desk that misses an answer to a decision knows it.
Knows == \A d \in unsure : desk[d].needsSync = TRUE

LEMMA KnowsStep ==
  ASSUME DeskInv, Knows, Review!DeskAssumption, Review!Next, Whole
  PROVE  Knows' /\ Review!SentSurely
<1>1. /\ desk \in [Desks -> Review!Workbenches] /\ unsure \subseteq Desks
      /\ Len(requests) \in Nat /\ requests \in Seq(Review!Requests) /\ DOMAIN requests = 1 .. Len(requests)
  BY DeskTypes
<1>2. ASSUME Len(requests') = Len(requests) PROVE Review!SentSurely
  BY <1>1, <1>2 DEF Review!SentSurely
<1>3. ASSUME NEW i \in DOMAIN requests, NEW q, requests' = [requests EXCEPT ![i] = q]
      PROVE  Len(requests') = Len(requests)
  BY <1>1, <1>3
<1>4. ASSUME NEW d, NEW p, Review!Show(d, p), p.needsSync = desk[d].needsSync, unsure' = unsure
      PROVE  Knows'
  BY <1>1, <1>4 DEF Knows, Review!Show
<1>5. ASSUME NEW d, NEW id, Review!Load(d, id) PROVE Knows' /\ Review!SentSurely
  <2>1. Knows'
    BY <1>1, <1>5 DEF Knows, Review!Load, Review!Show
  <2>2. Len(requests') = Len(requests)
    <3>1. requests' = [i \in 1 .. Len(requests) |-> [requests[i] EXCEPT !.heard = requests[i].heard /\ requests[i].desk # d]]
      BY <1>1, <1>5 DEF Review!Load, Review!Forgotten
    <3> QED BY <1>1, <3>1, IsASeq, LenProperties
  <2> QED BY <1>2, <2>1, <2>2
<1>6. CASE Review!Submit \/ Review!Revise
  BY <1>2, <1>6 DEF Review!Submit, Review!Revise, Review!ServerOnly, Knows
<1>7. ASSUME NEW d \in Desks, Review!Deciding(d) PROVE Knows' /\ Review!SentSurely
  <2>1. PICK pg \in Review!Workbenches : pg = desk[d]
    BY <1>1
  <2>2. CASE Review!Open(d) \/ Review!Sync(d)
    BY <1>5, <2>2 DEF Review!Open, Review!Sync
  <2>3. ASSUME NEW p, Review!Show(d, p), p.needsSync = pg.needsSync, UNCHANGED <<unsure, requests>>
        PROVE  Knows' /\ Review!SentSurely
    BY <1>2, <1>4, <2>1, <2>3
  <2>4. ASSUME NEW decision \in Review!Decisions, Review!SubmitDecision(d, decision)
        PROVE  Knows' /\ Review!SentSurely
    <3>1. /\ Review!Show(d, [pg EXCEPT !.submitting = TRUE, !.error = FALSE]) /\ unsure' = unsure
          /\ ~pg.needsSync
      BY <2>1, <2>4 DEF Review!SubmitDecision
    <3>2. Knows'
      BY <1>4, <2>1, <3>1 DEF Review!Workbenches
    <3>3. d \notin unsure
      BY <2>1, <3>1 DEF Knows
    <3>4. requests'[Len(requests')].desk = d
      BY <1>1, <2>4 DEF Review!SubmitDecision, Review!Send
    <3> QED BY <3>2, <3>3, <3>4 DEF Review!SentSurely
  <2>5. CASE Review!FindReviewWorkbench(d)
    BY <2>1, <2>3, <2>5 DEF Review!FindReviewWorkbench, Review!Workbenches
  <2>6. CASE Review!TypeReason(d)
    BY <2>1, <2>3, <2>6 DEF Review!TypeReason, Review!Workbenches
  <2>7. CASE Review!RejectWithoutReason(d)
    BY <2>1, <2>3, <2>7 DEF Review!RejectWithoutReason, Review!Workbenches
  <2>8. CASE Review!AskToConfirm(d) \/ Review!CloseConfirmation(d)
    BY <2>1, <2>3, <2>8 DEF Review!AskToConfirm, Review!CloseConfirmation, Review!Workbenches
  <2> QED BY <1>7, <2>2, <2>4, <2>5, <2>6, <2>7, <2>8 DEF Review!Deciding
<1>8. ASSUME NEW d \in Desks, Review!Grading(d) PROVE Knows' /\ Review!SentSurely
  <2>1. PICK pg \in Review!Workbenches : pg = desk[d]
    BY <1>1
  <2>2. ASSUME NEW p, Review!Show(d, p), p.needsSync = pg.needsSync, UNCHANGED <<unsure, requests>>
        PROVE  Knows' /\ Review!SentSurely
    BY <1>2, <1>4, <2>1, <2>2
  <2>3. CASE Review!FetchPackageDetail(d)
    BY <2>1, <2>2, <2>3 DEF Review!FetchPackageDetail, Review!Workbenches
  <2>4. ASSUME NEW g \in Grades, Review!PickGrade(d, g) PROVE Knows' /\ Review!SentSurely
    BY <2>1, <2>2, <2>4 DEF Review!PickGrade, Review!Workbenches
  <2>5. CASE Review!SubmitGrade(d)
    <3>1. /\ Review!Show(d, [pg EXCEPT !.grading = TRUE]) /\ unsure' = unsure
          /\ Review!Send(d, pg.picked, pg.byHand) /\ pg.picked # Review!NoGrade
      BY <2>1, <2>5 DEF Review!SubmitGrade
    <3>2. Knows'
      BY <1>4, <2>1, <3>1 DEF Review!Workbenches
    <3>3. requests'[Len(requests')].what = pg.picked
      BY <1>1, <3>1 DEF Review!Send
    <3>4. pg.picked \notin Review!Decisions
      BY <3>1 DEF Review!Workbenches, Review!Decisions, Review!DeskAssumption
    <3> QED BY <3>2, <3>3, <3>4 DEF Review!SentSurely
  <2> QED BY <1>8, <2>3, <2>4, <2>5 DEF Review!Grading
<1>9. ASSUME NEW i \in DOMAIN requests, Review!Answers(i) \/ Review!Losing(i) PROVE Knows' /\ Review!SentSurely
  <2>1. PICK q \in Review!Requests : q = requests[i]
    BY <1>1
  <2>2. PICK pg \in Review!Workbenches : pg = desk[q.desk]
    BY <1>1 DEF Review!Requests
  <2>3. ASSUME NEW p, Review!Hear(i, p), p.needsSync = pg.needsSync, unsure' = unsure
        PROVE  Knows'
    BY <1>4, <2>1, <2>2, <2>3 DEF Review!Hear, Review!Of, Knows
  <2>4. ASSUME NEW state, Review!Becomes(i, state) PROVE Review!SentSurely
    BY <1>2, <1>3, <2>4 DEF Review!Becomes
  <2>5. CASE Review!DecideReview(i) \/ Review!RefuseDecision(i) \/ Review!SetPackageGrade(i) \/ Review!Dropped(i)
    BY <2>4, <2>5 DEF Review!DecideReview, Review!RefuseDecision, Review!SetPackageGrade, Review!Dropped, Knows
  <2>6. CASE Review!DecisionComes(i)
    BY <2>1, <2>2, <2>3, <2>4, <2>6 DEF Review!DecisionComes, Review!Of, Review!Workbenches
  <2>7. CASE Review!GradeComes(i)
    BY <2>1, <2>2, <2>3, <2>4, <2>7 DEF Review!GradeComes, Review!Of, Review!Workbenches
  <2>8. CASE Review!Conflict(i)
    BY <1>5, <2>8 DEF Review!Conflict
  <2>9. CASE Review!Losing(i)
    <3>1. q.heard
      BY <2>1, <2>9 DEF Review!Losing
    <3>2. PICK kind : Review!Lost(i, kind) /\ (kind = "body" => q.what \notin Review!Decisions)
                      /\ kind \in {"retryable", "body"}
      BY <2>1, <2>9 DEF Review!Losing, Whole
    <3>3. Review!SentSurely
      BY <1>2, <1>3, <3>2 DEF Review!Lost
    <3>4. CASE q.what \in Review!Decisions
      <4>1. /\ Review!Show(q.desk, [pg EXCEPT !.submitting = FALSE, !.error = TRUE, !.needsSync = TRUE])
            /\ unsure' = unsure \cup {q.desk}
        BY <2>1, <2>2, <3>1, <3>2, <3>4 DEF Review!Lost, Review!Hear, Review!Of
      <4>2. [pg EXCEPT !.submitting = FALSE, !.error = TRUE, !.needsSync = TRUE].needsSync = TRUE
        BY DEF Review!Workbenches
      <4>3. PICK p : p.needsSync = TRUE /\ desk' = [desk EXCEPT ![q.desk] = p]
        BY <4>1, <4>2 DEF Review!Show
      <4>4. q.desk \in Desks
        BY DEF Review!Requests
      <4>5. Knows'
        BY <1>1, <4>1, <4>3, <4>4 DEF Knows
      <4> QED BY <3>3, <4>5
    <3>5. CASE q.what \notin Review!Decisions
      <4>1. Review!Hear(i, [pg EXCEPT !.grading = FALSE]) /\ unsure' = unsure
        BY <2>1, <2>2, <3>2, <3>5 DEF Review!Lost, Review!Of
      <4> QED BY <2>3, <3>3, <4>1 DEF Review!Workbenches
    <3> QED BY <3>4, <3>5
  <2> QED BY <1>9, <2>5, <2>6, <2>7, <2>8, <2>9 DEF Review!Answers
<1> QED BY <1>6, <1>7, <1>8, <1>9 DEF Review!Next

\* After an answer that is missing no decision is sent before the page is loaded again, as
\* long as a missing answer shows: one that is cut off behind its head does not.
THEOREM SentSurelyHolds ==
  ASSUME Review!DeskAssumption
  PROVE  Review!Spec /\ AnswersWhole => [][Review!SentSurely]_(Review!deskVars)
<1>1. Review!Init => Knows
  BY DEF Review!Init, Knows
<1>2. ASSUME DeskInv, Knows, [Review!Next]_(Review!deskVars), [Whole]_(Review!deskVars)
      PROVE  Knows' /\ [Review!SentSurely]_(Review!deskVars)
  BY <1>2, KnowsStep DEF Knows, Review!deskVars
<1> QED BY <1>1, <1>2, DeskStart, DeskStep, PTL DEF Review!Spec, AnswersWhole

-----------------------------------------------------------------------------
(* The notices of a user *)

CONSTANTS Tabs, Types, Published, Limit, MaxNotices
VARIABLES notices, audit, tab, tabRequests, tabLoads

Notes == INSTANCE Inbox WITH requests <- tabRequests, loads <- tabLoads

\* What a tab shows is of a notice there is, and read only if that is.
ListFits(p) ==
  \A n \in 1 .. Len(p.local) :
    /\ p.local[n].id \in DOMAIN notices
    /\ p.local[n].status = "read" => notices[p.local[n].id].status = "read"

\* A notice whose request was served is read.
ReadingFits(q) ==
  /\ q.id \in DOMAIN notices
  /\ q.state \in {"done", "answered"} => notices[q.id].status = "read"

\* The notices that are read are those recorded, each once.
Recorded ==
  /\ \A n \in 1 .. Len(audit) : audit[n] \in DOMAIN notices /\ notices[audit[n]].status = "read"
  /\ \A n, m \in 1 .. Len(audit) : audit[n] = audit[m] => n = m
  /\ \A id \in DOMAIN notices : notices[id].status = "read" => \E n \in 1 .. Len(audit) : audit[n] = id

InboxInv ==
  /\ Notes!TypeOK /\ Len(notices) <= MaxNotices
  /\ \A t \in Tabs : ListFits(tab[t])
  /\ \A i \in DOMAIN tabRequests : ReadingFits(tabRequests[i])
  /\ Recorded

LEMMA InboxTypes ==
  ASSUME InboxInv
  PROVE  /\ notices \in Seq(Notes!Notices) /\ audit \in Seq(1 .. MaxNotices)
         /\ tab \in [Tabs -> Notes!Lists] /\ tabRequests \in Seq(Notes!Requests) /\ tabLoads \in 0 .. MaxLoads
         /\ Len(notices) \in Nat /\ Len(notices) <= MaxNotices /\ Len(audit) \in Nat /\ Len(tabRequests) \in Nat
         /\ DOMAIN notices = 1 .. Len(notices) /\ DOMAIN audit = 1 .. Len(audit)
         /\ DOMAIN tabRequests = 1 .. Len(tabRequests)
         /\ \A t \in Tabs : tab[t].local \in Seq(Notes!Items) /\ Len(tab[t].local) \in Nat
BY DEF InboxInv, Notes!TypeOK, Notes!Lists

\* A tab and the requests change, what is written does not.
LEMMA TabKeeps ==
  ASSUME InboxInv, UNCHANGED <<notices, audit>>, tabLoads' \in 0 .. MaxLoads,
         NEW t \in Tabs, NEW p \in Notes!Lists, ListFits(p), Notes!Change(t, p),
         tabRequests' \in Seq(Notes!Requests), \A i \in DOMAIN tabRequests' : ReadingFits(tabRequests'[i])
  PROVE  InboxInv'
<1>1. tab' \in [Tabs -> Notes!Lists] /\ \A u \in Tabs : ListFits(tab'[u])
  BY InboxTypes DEF InboxInv, Notes!Change
<1>2. Notes!TypeOK'
  BY <1>1 DEF InboxInv, Notes!TypeOK
<1>3. Recorded' /\ (\A i \in DOMAIN tabRequests : ReadingFits(tabRequests[i]))' /\ (\A u \in Tabs : ListFits(tab[u]))'
  BY <1>1 DEF InboxInv, Recorded, ReadingFits, ListFits
<1> QED BY <1>2, <1>3 DEF InboxInv

\* What a user does in a tab, and what the tab asks and is given.
LEMMA TabStep ==
  ASSUME InboxInv, Notes!InboxAssumption, NEW t \in Tabs,
         \/ Notes!Open(t) \/ Notes!FetchNotifications(t) \/ Notes!FetchFails(t)
         \/ \E filter \in Notes!Filters : Notes!SetFilter(t, filter)
         \/ \E id \in 1 .. MaxNotices : Notes!HandleRead(t, id)
  PROVE  InboxInv' /\ Notes!StaysRead
<1>1. PICK l \in Notes!Lists : l = tab[t] /\ ListFits(l)
  BY InboxTypes DEF InboxInv
<1>2. l.local \in Seq(Notes!Items) /\ Len(l.local) \in Nat /\ MaxNotices \in Nat /\ MaxLoads \in Nat /\ Limit \in Nat
  BY DEF Notes!Lists, Notes!InboxAssumption
<1>3. ASSUME NEW p, Notes!Change(t, p), p.local = l.local \/ l.state # "shown" \/ p.state # "shown"
      PROVE  Notes!StaysRead
  <2>1. ASSUME NEW u \in Tabs, tab[u].state = "shown", tab'[u].state = "shown", NEW n \in DOMAIN tab[u].local,
               tab[u].local[n].status = "read"
        PROVE  tab'[u].local[n].status = "read"
    <3>1. u # t => tab'[u] = tab[u]
      BY <1>3, InboxTypes DEF Notes!Change
    <3>2. u = t => tab'[u] = p
      BY <1>3, InboxTypes DEF Notes!Change
    <3> QED BY <1>1, <1>3, <2>1, <3>1, <3>2
  <2> QED BY <2>1 DEF Notes!StaysRead
<1>4. ASSUME NEW p \in Notes!Lists, ListFits(p), Notes!Change(t, p), UNCHANGED <<notices, audit, tabRequests, tabLoads>>
      PROVE  InboxInv'
  BY <1>4, TabKeeps, InboxTypes DEF InboxInv
<1>5. CASE Notes!Open(t)
  <2> DEFINE filter == IF l.state = "error" THEN l.filter ELSE "unread"
             p == [Notes!ClosedList EXCEPT !.state = "loading", !.filter = filter]
  <2>1. filter \in Notes!Filters
    BY DEF Notes!Lists, Notes!Filters
  <2> HIDE DEF filter
  <2>2. Notes!ClosedList \in Notes!Lists
    BY <1>2 DEF Notes!ClosedList, Notes!Lists, Notes!Idle, Notes!Filters
  <2>3. p \in Notes!Lists /\ p.state = "loading" /\ p.local = <<>>
    BY <2>1, <2>2 DEF Notes!Lists, Notes!ClosedList
  <2>4. Notes!Change(t, p) /\ UNCHANGED <<notices, audit>> /\ tabLoads' \in 0 .. MaxLoads
    BY <1>1, <1>2, <1>5, InboxTypes DEF Notes!Open, filter
  <2> HIDE DEF p
  <2>5. ListFits(p)
    BY <2>3 DEF ListFits
  <2>6. ASSUME NEW i \in 1 .. Len(tabRequests)
        PROVE  tabRequests'[i] \in Notes!Requests /\ ReadingFits(tabRequests'[i])
    <3>1. PICK q \in Notes!Requests : q = tabRequests[i] /\ ReadingFits(q)
      BY InboxTypes DEF InboxInv
    <3>2. tabRequests'[i] = [q EXCEPT !.heard = q.heard /\ q.tab # t]
      BY <1>5, <3>1, InboxTypes DEF Notes!Open
    <3> QED BY <3>1, <3>2 DEF Notes!Requests, ReadingFits
  <2>7. tabRequests' \in Seq(Notes!Requests) /\ DOMAIN tabRequests' = 1 .. Len(tabRequests)
    <3>1. tabRequests' \in [1 .. Len(tabRequests) -> Notes!Requests]
      BY <1>5, <2>6, InboxTypes DEF Notes!Open
    <3> QED BY SMTT(30), <3>1, InboxTypes, IsASeq
  <2> QED BY <1>3, <2>3, <2>4, <2>5, <2>6, <2>7, TabKeeps
<1>6. CASE Notes!FetchNotifications(t)
  <2> DEFINE items == Notes!ListNotifications
             list == Notes!Page(items)
             state == IF notices = <<>> THEN "empty" ELSE "shown"
             p == [l EXCEPT !.state = state, !.local = list]
  <2>1. /\ items \in Seq(Notes!Items) /\ Len(items) = Len(notices)
        /\ \A n \in 1 .. Len(notices) : items[n].id = n /\ items[n].status = notices[n].status
    <3>1. \A n \in 1 .. Len(notices) : n \in 1 .. MaxNotices
      BY <1>2, InboxTypes
    <3>2. items = [n \in 1 .. Len(notices) |-> [id |-> n, type |-> notices[n].type, status |-> notices[n].status]]
      BY InboxTypes DEF Notes!ListNotifications
    <3>3. ASSUME NEW n \in 1 .. Len(notices) PROVE items[n] \in Notes!Items
      <4>1. PICK x \in Notes!Notices : x = notices[n]
        BY InboxTypes
      <4>2. items[n] = [id |-> n, type |-> x.type, status |-> x.status] /\ n \in 1 .. MaxNotices
        BY <3>1, <3>2, <4>1
      <4> QED BY <4>2 DEF Notes!Items, Notes!Notices
    <3>4. PICK k \in Nat : k = Len(notices)
      BY InboxTypes
    <3> HIDE DEF items
    <3>5. items \in [1 .. k -> Notes!Items]
      BY <3>2, <3>3, <3>4
    <3>6. items \in Seq(Notes!Items)
      BY <3>5, IsASeq
    <3> QED BY <3>2, <3>4, <3>5, <3>6, LenProperties
  <2> HIDE DEF items
  <2>2. PICK m \in Nat : m <= Len(items) /\ list = SubSeq(items, 1, m)
    <3>1. \A a, b \in Nat : Notes!Min({a, b}) \in Nat /\ Notes!Min({a, b}) <= b
      BY DEF Notes!Min
    <3> QED BY <1>2, <2>1, <3>1, InboxTypes DEF Notes!Page
  <2>3. list \in Seq(Notes!Items) /\ Len(list) = m /\ \A n \in 1 .. m : list[n] = items[n]
    BY <2>1, <2>2
  <2> HIDE DEF list
  <2>4. p \in Notes!Lists /\ p.local = list
    BY <2>3 DEF Notes!Lists
  <2>5. Notes!Change(t, p) /\ l.state = "loading" /\ UNCHANGED <<notices, audit, tabRequests, tabLoads>>
    BY <1>1, <1>6 DEF Notes!FetchNotifications, items, list
  <2> HIDE DEF p
  <2>6. ListFits(p)
    <3>1. \A n \in 1 .. m : n \in 1 .. Len(notices) /\ list[n].id = n /\ list[n].status = notices[n].status
      BY <2>1, <2>2, <2>3, InboxTypes
    <3> QED BY <2>3, <2>4, <3>1, InboxTypes DEF ListFits
  <2> QED BY <1>3, <1>4, <2>4, <2>5, <2>6
<1>7. CASE Notes!FetchFails(t)
  <2> DEFINE p == [l EXCEPT !.state = "error"]
  <2>1. p \in Notes!Lists /\ p.local = l.local
    BY DEF Notes!Lists
  <2>2. Notes!Change(t, p) /\ UNCHANGED <<notices, audit, tabRequests, tabLoads>>
    BY <1>1, <1>7 DEF Notes!FetchFails
  <2> HIDE DEF p
  <2> QED BY <1>1, <1>3, <1>4, <2>1, <2>2 DEF ListFits
<1>8. ASSUME NEW filter \in Notes!Filters, Notes!SetFilter(t, filter) PROVE InboxInv' /\ Notes!StaysRead
  <2> DEFINE p == [l EXCEPT !.filter = filter]
  <2>1. p \in Notes!Lists /\ p.local = l.local
    BY DEF Notes!Lists
  <2>2. Notes!Change(t, p) /\ UNCHANGED <<notices, audit, tabRequests, tabLoads>>
    BY <1>1, <1>8 DEF Notes!SetFilter
  <2> HIDE DEF p
  <2> QED BY <1>1, <1>3, <1>4, <2>1, <2>2 DEF ListFits
<1>9. ASSUME NEW id \in 1 .. MaxNotices, Notes!HandleRead(t, id) PROVE InboxInv' /\ Notes!StaysRead
  <2> DEFINE p == [l EXCEPT !.busy = id, !.error = FALSE]
             q == [tab |-> t, id |-> id, heard |-> TRUE, state |-> "sent"]
  <2>1. p \in Notes!Lists /\ p.local = l.local
    <3>1. id \in 0 .. MaxNotices
      BY <1>2
    <3> QED BY <3>1 DEF Notes!Lists
  <2>2. /\ Notes!Change(t, p) /\ UNCHANGED <<notices, audit, tabLoads>>
        /\ tabRequests' = Append(tabRequests, q)
    BY <1>1, <1>9 DEF Notes!HandleRead
  <2>3. id \in DOMAIN notices
    <3>1. PICK item \in Notes!FilterNotifications(l.local, l.filter) : item.id = id
      BY <1>1, <1>9 DEF Notes!HandleRead
    <3>2. PICK n \in 1 .. Len(l.local) : item = l.local[n]
      BY <1>2, <3>1 DEF Notes!FilterNotifications, Notes!ToSet
    <3> QED BY <1>1, <3>1, <3>2 DEF ListFits
  <2>4. q \in Notes!Requests /\ ReadingFits(q)
    BY <2>3 DEF Notes!Requests, ReadingFits
  <2> HIDE DEF p, q
  <2>5. /\ tabRequests' \in Seq(Notes!Requests) /\ \A i \in DOMAIN tabRequests' : ReadingFits(tabRequests'[i])
    BY <2>2, <2>4, InboxTypes DEF InboxInv
  <2>6. ListFits(p)
    BY <1>1, <2>1 DEF ListFits
  <2> QED BY <1>3, <2>1, <2>2, <2>5, <2>6, TabKeeps, InboxTypes
<1> QED BY <1>5, <1>6, <1>7, <1>8, <1>9

LEMMA NothingForgotten ==
  ASSUME InboxInv,
         \/ UNCHANGED tab
         \/ \E t \in Tabs, p \in Notes!Lists :
              /\ Notes!Change(t, p)
              /\ \A n \in DOMAIN tab[t].local : tab[t].local[n].status = "read" => p.local[n].status = "read"
  PROVE  Notes!StaysRead
<1>1. CASE UNCHANGED tab
  BY <1>1 DEF Notes!StaysRead
<1>2. ASSUME NEW t \in Tabs, NEW p \in Notes!Lists, Notes!Change(t, p),
             \A n \in DOMAIN tab[t].local : tab[t].local[n].status = "read" => p.local[n].status = "read",
             NEW u \in Tabs, NEW n \in DOMAIN tab[u].local, tab[u].local[n].status = "read"
      PROVE  tab'[u].local[n].status = "read"
  <2>1. tab'[u] = IF u = t THEN p ELSE tab[u]
    BY <1>2, InboxTypes DEF Notes!Change
  <2> QED BY <1>2, <2>1
<1> QED BY <1>1, <1>2 DEF Notes!StaysRead

\* A notice more: what was said of the others stays true.
LEMMA NotifyStep ==
  ASSUME InboxInv, Notes!InboxAssumption, NEW type \in Types, Notes!Notify(type)
  PROVE  InboxInv' /\ Notes!StaysRead
<1> DEFINE x == [type |-> type, status |-> "unread"]
<1>1. x \in Notes!Notices /\ x.status = "unread"
  BY DEF Notes!Notices, Notes!Statuses
<1>2. notices' = Append(notices, x) /\ Len(notices) < MaxNotices /\ UNCHANGED <<audit, tab, tabRequests, tabLoads>>
  BY DEF Notes!Notify
<1> HIDE DEF x
<1>3. /\ notices' \in Seq(Notes!Notices) /\ Len(notices') <= MaxNotices
      /\ DOMAIN notices' = 1 .. (Len(notices) + 1)
      /\ \A k \in DOMAIN notices : k \in DOMAIN notices' /\ notices'[k] = notices[k]
      /\ \A k \in DOMAIN notices' : k \in DOMAIN notices \/ notices'[k].status = "unread"
  BY <1>1, <1>2, InboxTypes DEF Notes!InboxAssumption
<1>4. Notes!TypeOK'
  BY <1>2, <1>3, InboxTypes DEF Notes!TypeOK
<1>5. (\A t \in Tabs : ListFits(tab[t]))' /\ (\A i \in DOMAIN tabRequests : ReadingFits(tabRequests[i]))'
  BY <1>2, <1>3 DEF InboxInv, ListFits, ReadingFits
<1>6. Recorded'
  BY SMTT(30), <1>2, <1>3 DEF InboxInv, Recorded
<1> QED BY <1>2, <1>3, <1>4, <1>5, <1>6, NothingForgotten DEF InboxInv

LEMMA MarkStep ==
  ASSUME InboxInv, NEW i \in DOMAIN tabRequests, Notes!MarkNotificationRead(i)
  PROVE  InboxInv' /\ Notes!StaysRead
<1>1. PICK q \in Notes!Requests : q = tabRequests[i] /\ ReadingFits(q)
  BY InboxTypes DEF InboxInv
<1>2. PICK k \in DOMAIN notices : k = q.id
  BY <1>1 DEF ReadingFits
<1>3. PICK x \in Notes!Notices : x = notices[k]
  BY InboxTypes
<1> DEFINE y == [x EXCEPT !.status = "read"]
           r == [q EXCEPT !.state = "done"]
<1>4. y \in Notes!Notices /\ y.status = "read"
  BY DEF Notes!Notices, Notes!Statuses
<1>5. r \in Notes!Requests /\ r.id = k /\ r.state = "done"
  BY <1>2 DEF Notes!Requests
<1>6. /\ notices' = [notices EXCEPT ![k] = y] /\ tabRequests' = [tabRequests EXCEPT ![i] = r]
      /\ audit' = IF notices[k].status = "unread" THEN Append(audit, k) ELSE audit
      /\ UNCHANGED <<tab, tabLoads>>
  BY <1>1, <1>2, <1>3 DEF Notes!MarkNotificationRead
<1> HIDE DEF y, r
<1>7. /\ notices' \in Seq(Notes!Notices) /\ DOMAIN notices' = DOMAIN notices /\ Len(notices') = Len(notices)
      /\ notices'[k].status = "read" /\ \A j \in DOMAIN notices : j # k => notices'[j] = notices[j]
  BY <1>4, <1>6, InboxTypes
<1>8. k \in 1 .. MaxNotices
  BY <1>2 DEF Notes!Requests
<1>9. audit' \in Seq(1 .. MaxNotices)
  <2>1. Append(audit, k) \in Seq(1 .. MaxNotices)
    BY <1>8, InboxTypes
  <2> QED BY <1>6, <2>1, InboxTypes
<1>10. /\ tabRequests' \in Seq(Notes!Requests) /\ DOMAIN tabRequests' = DOMAIN tabRequests
       /\ tabRequests'[i] = r /\ \A j \in DOMAIN tabRequests : j # i => tabRequests'[j] = tabRequests[j]
  BY <1>5, <1>6, InboxTypes
<1>11. Notes!TypeOK'
  BY <1>6, <1>7, <1>9, <1>10, InboxTypes DEF Notes!TypeOK
<1>12. (\A t \in Tabs : ListFits(tab[t]))'
  <2>1. ASSUME NEW t \in Tabs, NEW n \in 1 .. Len(tab[t].local)
        PROVE  /\ tab[t].local[n].id \in DOMAIN notices'
               /\ tab[t].local[n].status = "read" => notices'[tab[t].local[n].id].status = "read"
    BY <1>7 DEF InboxInv, ListFits
  <2> QED BY <1>6, <2>1 DEF ListFits
<1>13. (\A j \in DOMAIN tabRequests : ReadingFits(tabRequests[j]))'
  <2>1. ASSUME NEW j \in DOMAIN tabRequests PROVE (ReadingFits(tabRequests[j]))'
    <3>1. CASE j = i
      BY <1>5, <1>7, <1>10, <3>1 DEF ReadingFits
    <3>2. CASE j # i
      BY <1>7, <1>10, <3>2 DEF InboxInv, ReadingFits
    <3> QED BY <3>1, <3>2
  <2> QED BY <1>10, <2>1 DEF ReadingFits
<1>14. Recorded'
  <2>1. CASE notices[k].status = "unread"
    <3>1. \A n \in 1 .. Len(audit) : audit[n] # k
      BY <2>1 DEF InboxInv, Recorded
    <3>2. /\ Len(audit') = Len(audit) + 1 /\ audit'[Len(audit) + 1] = k
          /\ \A n \in 1 .. Len(audit) : audit'[n] = audit[n]
      BY <1>6, <1>8, <2>1, InboxTypes
    <3>3. \A n \in 1 .. Len(audit') : n \in 1 .. Len(audit) \/ n = Len(audit) + 1
      BY <3>2, InboxTypes
    <3>4. \A n \in 1 .. Len(audit') : audit'[n] \in DOMAIN notices' /\ notices'[audit'[n]].status = "read"
      BY <1>7, <3>2, <3>3 DEF InboxInv, Recorded
    <3>5. \A n, m \in 1 .. Len(audit') : audit'[n] = audit'[m] => n = m
      BY <3>1, <3>2, <3>3 DEF InboxInv, Recorded
    <3>6. ASSUME NEW id \in DOMAIN notices', notices'[id].status = "read"
          PROVE  \E n \in 1 .. Len(audit') : audit'[n] = id
      <4>1. CASE id = k
        BY <3>2, <4>1, InboxTypes
      <4>2. CASE id # k
        <5>1. PICK n \in 1 .. Len(audit) : audit[n] = id
          BY <1>7, <3>6, <4>2 DEF InboxInv, Recorded
        <5>2. n \in 1 .. Len(audit') /\ audit'[n] = id
          BY <3>2, <5>1, InboxTypes
        <5> QED BY <5>2
      <4> QED BY <4>1, <4>2
    <3> QED BY <3>4, <3>5, <3>6 DEF Recorded
  <2>2. CASE notices[k].status # "unread"
    <3>1. notices[k].status = "read" /\ audit' = audit
      BY <1>3, <1>6, <2>2 DEF Notes!Notices, Notes!Statuses
    <3>2. \A j \in DOMAIN notices : notices'[j].status = notices[j].status
      BY <1>7, <3>1
    <3> QED BY <1>7, <3>1, <3>2 DEF InboxInv, Recorded
  <2> QED BY <2>1, <2>2
<1> QED BY <1>6, <1>7, <1>11, <1>12, <1>13, <1>14, NothingForgotten DEF InboxInv

LEMMA DroppedStep ==
  ASSUME InboxInv, NEW i \in DOMAIN tabRequests, Notes!Dropped(i)
  PROVE  InboxInv' /\ Notes!StaysRead
<1>1. PICK q \in Notes!Requests : q = tabRequests[i] /\ ReadingFits(q)
  BY InboxTypes DEF InboxInv
<1> DEFINE r == [q EXCEPT !.state = "dropped"]
<1>2. r \in Notes!Requests /\ r.id = q.id /\ r.state = "dropped"
  BY DEF Notes!Requests
<1>3. tabRequests' = [tabRequests EXCEPT ![i] = r] /\ UNCHANGED <<notices, audit, tab, tabLoads>>
  BY <1>1 DEF Notes!Dropped
<1> HIDE DEF r
<1>4. /\ tabRequests' \in Seq(Notes!Requests) /\ DOMAIN tabRequests' = DOMAIN tabRequests
      /\ tabRequests'[i] = r /\ \A j \in DOMAIN tabRequests : j # i => tabRequests'[j] = tabRequests[j]
  BY <1>2, <1>3, InboxTypes
<1>5. Notes!TypeOK'
  BY <1>3, <1>4, InboxTypes DEF Notes!TypeOK
<1>6. (\A j \in DOMAIN tabRequests : ReadingFits(tabRequests[j]))'
  BY <1>1, <1>2, <1>3, <1>4 DEF InboxInv, ReadingFits
<1>7. (\A t \in Tabs : ListFits(tab[t]))' /\ Recorded'
  BY <1>3 DEF InboxInv, ListFits, Recorded
<1> QED BY <1>3, <1>5, <1>6, <1>7, NothingForgotten DEF InboxInv

\* An answer, or none: the tab changes, and the request.
LEMMA HeardStep ==
  ASSUME InboxInv, Notes!InboxAssumption, NEW i \in DOMAIN tabRequests, Notes!Answered(i) \/ Notes!ReadFails(i)
  PROVE  InboxInv' /\ Notes!StaysRead
<1>1. PICK q \in Notes!Requests : q = tabRequests[i] /\ ReadingFits(q)
  BY InboxTypes DEF InboxInv
<1>2. PICK t \in Tabs : t = q.tab
  BY DEF Notes!Requests
<1>3. PICK l \in Notes!Lists : l = tab[t] /\ ListFits(l)
  BY InboxTypes DEF InboxInv
<1>4. l.local \in Seq(Notes!Items) /\ Len(l.local) \in Nat /\ DOMAIN l.local = 1 .. Len(l.local) /\ 0 \in 0 .. MaxNotices
  <2>1. 0 \in 0 .. MaxNotices
    BY DEF Notes!InboxAssumption
  <2> QED BY <2>1 DEF Notes!Lists
<1>5. ASSUME NEW r \in Notes!Requests, ReadingFits(r), tabRequests' = [tabRequests EXCEPT ![i] = r],
             UNCHANGED <<notices, audit, tabLoads>>,
             NEW p \in Notes!Lists, ListFits(p), Notes!Change(t, p),
             \A n \in DOMAIN l.local : l.local[n].status = "read" => p.local[n].status = "read"
      PROVE  InboxInv' /\ Notes!StaysRead
  <2>1. tabRequests' \in Seq(Notes!Requests) /\ \A j \in DOMAIN tabRequests' : ReadingFits(tabRequests'[j])
    BY <1>5, InboxTypes DEF InboxInv
  <2>2. InboxInv'
    BY <1>5, <2>1, TabKeeps, InboxTypes
  <2>3. Notes!StaysRead
    BY <1>3, <1>5, NothingForgotten
  <2> QED BY <2>2, <2>3
<1>6. CASE Notes!Answered(i)
  <2> DEFINE r == [q EXCEPT !.state = "answered"]
  <2>1. r \in Notes!Requests /\ r.id = q.id
    BY DEF Notes!Requests
  <2>2. /\ q.state = "done" /\ tabRequests' = [tabRequests EXCEPT ![i] = r] /\ UNCHANGED <<notices, audit, tabLoads>>
        /\ Notes!Hear(i, [l EXCEPT !.local = Notes!Updated(l.local, q.id), !.busy = Notes!Idle])
    BY <1>1, <1>2, <1>3, <1>6 DEF Notes!Answered
  <2> HIDE DEF r
  <2>3. ReadingFits(r) /\ q.id \in DOMAIN notices /\ notices[q.id].status = "read"
    BY <1>1, <2>1, <2>2 DEF ReadingFits
  <2> DEFINE list == Notes!Updated(l.local, q.id)
             p == [l EXCEPT !.local = list, !.busy = Notes!Idle]
  <2>4. /\ list = [n \in 1 .. Len(l.local) |->
                     IF l.local[n].id = q.id THEN [l.local[n] EXCEPT !.status = "read"] ELSE l.local[n]]
    BY <1>4 DEF Notes!Updated
  <2>5. ASSUME NEW n \in 1 .. Len(l.local)
        PROVE  /\ list[n] \in Notes!Items /\ list[n].id = l.local[n].id
               /\ list[n].status = "read" => l.local[n].status = "read" \/ list[n].id = q.id
               /\ l.local[n].status = "read" => list[n].status = "read"
    <3>1. PICK x \in Notes!Items : x = l.local[n]
      BY <1>4
    <3>2. list[n] = IF x.id = q.id THEN [x EXCEPT !.status = "read"] ELSE x
      BY <2>4, <3>1
    <3> QED BY <3>1, <3>2 DEF Notes!Items, Notes!Statuses
  <2> HIDE DEF list
  <2>6. list \in Seq(Notes!Items) /\ Len(list) = Len(l.local)
    <3>1. PICK k \in Nat : k = Len(l.local)
      BY <1>4
    <3>2. list \in [1 .. k -> Notes!Items]
      BY <2>4, <2>5, <3>1
    <3> QED BY <3>1, <3>2, IsASeq, LenProperties
  <2>7. p \in Notes!Lists /\ p.local = list
    BY <1>4, <2>6 DEF Notes!Lists, Notes!Idle
  <2>8. Notes!Hear(i, p)
    BY <2>2 DEF list
  <2> HIDE DEF p
  <2>9. ListFits(p)
    BY <1>3, <2>3, <2>5, <2>6, <2>7 DEF ListFits
  <2>10. CASE q.heard = TRUE
    <3>1. Notes!Change(t, p)
      BY <1>1, <1>2, <2>8, <2>10 DEF Notes!Hear
    <3> QED BY <1>4, <1>5, <2>1, <2>2, <2>3, <2>5, <2>7, <2>9, <3>1
  <2>11. CASE ~q.heard
    <3>1. UNCHANGED tab
      BY <1>1, <2>8, <2>11 DEF Notes!Hear
    <3>2. tab = [tab EXCEPT ![t] = l]
      BY <1>3, InboxTypes
    <3>3. Notes!Change(t, l)
      BY <3>1, <3>2 DEF Notes!Change
    <3> QED BY <1>3, <1>5, <2>1, <2>2, <2>3, <3>3
  <2>12. q.heard \in BOOLEAN
    BY DEF Notes!Requests
  <2> QED BY <2>10, <2>11, <2>12
<1>7. CASE Notes!ReadFails(i)
  <2> DEFINE r == [q EXCEPT !.heard = FALSE]
             p == [l EXCEPT !.busy = Notes!Idle, !.error = TRUE]
  <2>1. r \in Notes!Requests /\ r.id = q.id /\ r.state = q.state
    BY DEF Notes!Requests
  <2>2. p \in Notes!Lists /\ p.local = l.local
    BY <1>4 DEF Notes!Lists, Notes!Idle
  <2>3. tabRequests' = [tabRequests EXCEPT ![i] = r] /\ Notes!Change(t, p) /\ UNCHANGED <<notices, audit, tabLoads>>
    BY <1>1, <1>2, <1>3, <1>7 DEF Notes!ReadFails
  <2> HIDE DEF r, p
  <2>4. ReadingFits(r) /\ ListFits(p)
    BY <1>1, <1>3, <2>1, <2>2 DEF ReadingFits, ListFits
  <2> QED BY <1>5, <2>1, <2>2, <2>3, <2>4
<1> QED BY <1>6, <1>7

LEMMA InboxStart ==
  ASSUME Notes!InboxAssumption, Notes!Init
  PROVE  InboxInv
<1>1. Notes!ClosedList \in Notes!Lists /\ Notes!ClosedList.local = <<>>
  BY DEF Notes!InboxAssumption, Notes!ClosedList, Notes!Lists, Notes!Idle, Notes!Filters
<1>2. Notes!TypeOK
  BY <1>1 DEF Notes!InboxAssumption, Notes!Init, Notes!TypeOK
<1>3. \A t \in Tabs : ListFits(tab[t])
  BY <1>1 DEF Notes!Init, ListFits
<1>4. Recorded /\ Len(notices) <= MaxNotices /\ \A i \in DOMAIN tabRequests : ReadingFits(tabRequests[i])
  BY DEF Notes!InboxAssumption, Notes!Init, Recorded
<1> QED BY <1>2, <1>3, <1>4 DEF InboxInv

LEMMA InboxStep ==
  ASSUME Notes!InboxAssumption, InboxInv, [Notes!Next]_(Notes!inboxVars)
  PROVE  InboxInv' /\ [Notes!StaysRead]_(Notes!inboxVars)
<1>1. CASE UNCHANGED Notes!inboxVars
  BY <1>1 DEF Notes!inboxVars, InboxInv, Notes!TypeOK, ListFits, ReadingFits, Recorded
<1>2. CASE Notes!Next
  BY <1>2, NotifyStep, TabStep, MarkStep, DroppedStep, HeardStep DEF Notes!Next, Notes!Reads
<1> QED BY <1>1, <1>2

LEMMA SameCardinality == \A S : Notes!Cardinality(S) = Cardinality(S)
BY Zenon DEF Notes!Cardinality, Cardinality

LEMMA RecordedIsOnce ==
  ASSUME InboxInv
  PROVE  Notes!ReadRecordedOnce
<1>1. ASSUME NEW id \in DOMAIN notices
      PROVE  Cardinality({n \in DOMAIN audit : audit[n] = id}) = IF notices[id].status = "read" THEN 1 ELSE 0
  <2>1. CASE notices[id].status = "read"
    <3>1. PICK m \in 1 .. Len(audit) : audit[m] = id
      BY <2>1 DEF InboxInv, Recorded
    <3>2. {n \in DOMAIN audit : audit[n] = id} = {m}
      BY <3>1, InboxTypes DEF InboxInv, Recorded
    <3> QED BY <2>1, <3>2, FS_Singleton
  <2>2. CASE notices[id].status # "read"
    <3>1. {n \in DOMAIN audit : audit[n] = id} = {}
      BY <2>2, InboxTypes DEF InboxInv, Recorded
    <3> QED BY <2>2, <3>1, FS_EmptySet
  <2> QED BY <2>1, <2>2
<1> QED BY <1>1, SameCardinality DEF Notes!ReadRecordedOnce

LEMMA InboxInvHolds ==
  ASSUME Notes!InboxAssumption
  PROVE  Notes!Spec => []InboxInv /\ [][Notes!StaysRead]_(Notes!inboxVars)
<1>1. Notes!Init => InboxInv
  BY InboxStart
<1>2. InboxInv /\ [Notes!Next]_(Notes!inboxVars) => InboxInv' /\ [Notes!StaysRead]_(Notes!inboxVars)
  BY InboxStep
<1> QED BY <1>1, <1>2, PTL DEF Notes!Spec

(* A notice is recorded as read once, and only if it is (the condition on  *)
(* its status in markNotificationRead), and no tab shows one as read that   *)
(* is not: however many tabs mark it, and whatever answers are lost.        *)
THEOREM ReadOnceHolds ==
  ASSUME Notes!InboxAssumption
  PROVE  Notes!Spec => [](Notes!TypeOK /\ Notes!ReadRecordedOnce /\ Notes!ShownReadIsReal)
<1>1. InboxInv => Notes!TypeOK /\ Notes!ReadRecordedOnce
  BY RecordedIsOnce DEF InboxInv
<1>2. InboxInv => Notes!ShownReadIsReal
  <2>1. ASSUME InboxInv, NEW t \in Tabs, NEW item \in Notes!ToSet(tab[t].local), item.status = "read"
        PROVE  notices[item.id].status = "read"
    <3>1. PICK n \in 1 .. Len(tab[t].local) : item = tab[t].local[n]
      BY <2>1, InboxTypes DEF Notes!ToSet
    <3> QED BY <2>1, <3>1 DEF InboxInv, ListFits
  <2> QED BY <2>1 DEF Notes!ShownReadIsReal
<1> QED BY <1>1, <1>2, InboxInvHolds, PTL

(* What a tab was told is read is not offered there as unread again while  *)
(* its list stands (the update of the item in handleRead).                  *)
THEOREM StaysReadHolds ==
  ASSUME Notes!InboxAssumption
  PROVE  Notes!Spec => [][Notes!StaysRead]_(Notes!inboxVars)
BY InboxInvHolds

-----------------------------------------------------------------------------
(* The support channels of a package *)

CONSTANTS Editors, Addresses, Typed, Trim(_), Blank, Label, MaxChannels, MaxSaves, MaxEdits
VARIABLES table, tx, editor, saves, edits, last

Channels == INSTANCE SupportChannels

\* What a transaction has inserted is the beginning of the list it was sent.
Begun(x) ==
  /\ \A i, j \in 1 .. Len(x.sent) : x.sent[i] = x.sent[j] => i = j
  /\ IsFiniteSet(x.inserted) /\ Cardinality(x.inserted) <= Len(x.sent)
  /\ \A r \in x.inserted : r.order < Cardinality(x.inserted) /\ r.key = x.sent[r.order + 1]
  /\ \A r, s \in x.inserted : r.order = s.order => r = s
  /\ \A k \in 0 .. Cardinality(x.inserted) - 1 : \E r \in x.inserted : r.order = k

TxFits(x) ==
  /\ x.state \notin {"inserts", "saved"} => x.deleted = {} /\ x.inserted = {}
  /\ x.state = "saved" => x.deleted = {} /\ IsFiniteSet(x.inserted)
  /\ x.state \in {"begun", "read", "deletes", "inserts"} => Begun(x)

\* What it deletes is there until it commits, and what it inserts doubles no other row.
OfTable(x) ==
  x.state = "inserts" =>
    x.deleted \subseteq table /\ \A r \in x.inserted, s \in table \ x.deleted : r.key # s.key

\* Two transactions at a time hold different keys.
Apart(x, y) ==
  x.state = "inserts" /\ y.state = "inserts" =>
    \A r \in x.deleted \cup x.inserted, s \in y.deleted \cup y.inserted : r.key # s.key

ChannelsInv ==
  /\ Channels!TypeOK /\ IsFiniteSet(table)
  /\ \A e \in Editors : TxFits(tx[e]) /\ OfTable(tx[e])
  /\ \A e, o \in Editors : e # o => Apart(tx[e], tx[o])
  /\ Channels!AddressesUnique /\ Channels!LastSaveComplete

LEMMA SameCount == \A S : Channels!Cardinality(S) = Cardinality(S)
BY Zenon DEF Channels!Cardinality, Cardinality

LEMMA ChannelTypes ==
  ASSUME ChannelsInv
  PROVE  /\ table \subseteq Channels!Rows /\ tx \in [Editors -> Channels!Transactions]
         /\ editor \in [Editors -> Channels!Editor]
         /\ saves \in 0 .. MaxSaves /\ edits \in 0 .. MaxEdits /\ last \in Channels!Contents
BY DEF ChannelsInv, Channels!TypeOK

\* One line of a draft.
Lines == [address : Typed, label : {Label, Blank}]

\* A list of rows is one the editor can show.
LEMMA DraftOfRows ==
  ASSUME Channels!ChannelsAssumption, NEW rows \in SUBSET Channels!Rows, IsFiniteSet(rows),
         NEW list \in Channels!ListSupportChannels(rows)
  PROVE  Channels!ToDraft(list) \in Channels!Drafts
<1>1. PICK n \in Nat : n = Cardinality(rows)
  BY FS_CardinalityType
<1>2. list \in [1 .. n -> rows]
  BY <1>1, SameCount DEF Channels!ListSupportChannels
<1> DEFINE rest == [i \in 1 .. n |-> [address |-> list[i].key, label |-> Label]]
<1>3. Channels!ToDraft(list) = rest
  BY <1>2 DEF Channels!ToDraft
<1>4. \A i \in 1 .. n : list[i].key \in Typed
  BY <1>2 DEF Channels!Rows, Channels!ChannelsAssumption
<1>5. rest \in [1 .. n -> Lines]
  BY <1>4 DEF Lines
<1> HIDE DEF rest
<1>6. rest \in Seq(Lines)
  BY <1>5, IsASeq
<1> QED BY <1>3, <1>6 DEF Channels!Drafts, Lines

\* Only the pages change.
LEMMA EditorKeeps ==
  ASSUME ChannelsInv, NEW e \in Editors, NEW p \in Channels!Editor, Channels!Put(e, p),
         UNCHANGED <<table, tx, saves, last>>, edits' \in 0 .. MaxEdits
  PROVE  ChannelsInv'
<1>1. editor' \in [Editors -> Channels!Editor]
  BY ChannelTypes DEF Channels!Put
<1>2. Channels!TypeOK'
  BY <1>1, ChannelTypes DEF Channels!TypeOK
<1>3. /\ (Channels!AddressesUnique)' /\ (Channels!LastSaveComplete)'
      /\ (\A o \in Editors : TxFits(tx[o]) /\ OfTable(tx[o]))' /\ IsFiniteSet(table')
      /\ (\A d, o \in Editors : d # o => Apart(tx[d], tx[o]))'
  BY DEF ChannelsInv, Channels!AddressesUnique, Channels!LastSaveComplete, TxFits, OfTable, Apart, Begun
<1> QED BY <1>2, <1>3 DEF ChannelsInv

LEMMA EditStep ==
  ASSUME ChannelsInv, Channels!ChannelsAssumption, NEW e \in Editors,
         \/ Channels!Open(e) \/ Channels!Leave(e) \/ Channels!Patch(e) \/ Channels!RemoveRow(e)
         \/ Channels!AddRow(e) \/ Channels!HandleInvalid(e)
  PROVE  ChannelsInv' /\ UNCHANGED <<table, tx>>
<1>1. PICK p \in Channels!Editor : p = editor[e]
  BY ChannelTypes
<1>2. p.draft \in Seq(Lines)
  BY DEF Channels!Editor, Channels!Drafts, Lines
<1>3. Channels!Closed \in Channels!Editor
  BY DEF Channels!Closed, Channels!Editor, Channels!Drafts
<1>4. ASSUME NEW draft \in Seq(Lines), Channels!Edit(e, draft)
      PROVE  ChannelsInv' /\ UNCHANGED <<table, tx>>
  <2> DEFINE q == [p EXCEPT !.draft = draft]
  <2>1. q \in Channels!Editor
    BY <1>4 DEF Channels!Editor, Channels!Drafts, Lines
  <2>2. Channels!Put(e, q) /\ UNCHANGED <<table, tx, saves, last>> /\ edits' \in 0 .. MaxEdits
    BY <1>1, <1>4, ChannelTypes DEF Channels!Edit, Channels!ChannelsAssumption
  <2> HIDE DEF q
  <2> QED BY <2>1, <2>2, EditorKeeps
<1>5. CASE Channels!Open(e)
  <2>1. PICK list \in Channels!ListSupportChannels(table) :
          Channels!Put(e, [Channels!Closed EXCEPT !.open = TRUE, !.draft = Channels!ToDraft(list)])
    BY <1>5 DEF Channels!Open
  <2>2. PICK draft \in Channels!Drafts : draft = Channels!ToDraft(list)
    BY DraftOfRows, ChannelTypes DEF ChannelsInv
  <2> DEFINE q == [Channels!Closed EXCEPT !.open = TRUE, !.draft = draft]
  <2>3. q \in Channels!Editor
    BY <1>3 DEF Channels!Editor, Channels!Closed
  <2>4. Channels!Put(e, q) /\ UNCHANGED <<table, tx, saves, edits, last>>
    BY <1>5, <2>1, <2>2 DEF Channels!Open
  <2> HIDE DEF q
  <2> QED BY <2>3, <2>4, EditorKeeps, ChannelTypes
<1>6. CASE Channels!Leave(e)
  BY <1>3, <1>6, EditorKeeps, ChannelTypes DEF Channels!Leave
<1>7. CASE Channels!Patch(e)
  <2>1. PICK i \in DOMAIN p.draft :
          \/ \E v \in Typed : Channels!Edit(e, [p.draft EXCEPT ![i].address = v])
          \/ \E v \in {Label, Blank} : Channels!Edit(e, [p.draft EXCEPT ![i].label = v])
    BY <1>1, <1>7 DEF Channels!Patch
  <2>2. PICK c \in Lines : c = p.draft[i]
    BY <1>2
  <2>3. ASSUME NEW v \in Typed PROVE [p.draft EXCEPT ![i].address = v] \in Seq(Lines)
    <3>1. [c EXCEPT !.address = v] \in Lines
      BY DEF Lines
    <3>2. [p.draft EXCEPT ![i].address = v] = [p.draft EXCEPT ![i] = [c EXCEPT !.address = v]]
      BY <2>2
    <3> QED BY <1>2, <3>1, <3>2
  <2>4. ASSUME NEW v \in {Label, Blank} PROVE [p.draft EXCEPT ![i].label = v] \in Seq(Lines)
    <3>1. [c EXCEPT !.label = v] \in Lines
      BY DEF Lines
    <3>2. [p.draft EXCEPT ![i].label = v] = [p.draft EXCEPT ![i] = [c EXCEPT !.label = v]]
      BY <2>2
    <3> QED BY <1>2, <3>1, <3>2
  <2> QED BY <1>4, <2>1, <2>3, <2>4
<1>8. CASE Channels!RemoveRow(e)
  <2>1. PICK i \in 1 .. Len(p.draft) : Channels!Edit(e, Channels!RemoveAt(p.draft, i))
    BY <1>1, <1>2, <1>8 DEF Channels!RemoveRow
  <2>2. Channels!RemoveAt(p.draft, i) \in Seq(Lines)
    BY <1>2 DEF Channels!RemoveAt
  <2> QED BY <1>4, <2>1, <2>2
<1>9. CASE Channels!AddRow(e)
  <2> DEFINE c == [address |-> Blank, label |-> Blank]
  <2>1. c \in Lines
    BY DEF Channels!ChannelsAssumption, Lines
  <2>2. Channels!Edit(e, Append(p.draft, c))
    BY <1>1, <1>9 DEF Channels!AddRow
  <2> HIDE DEF c
  <2>3. Append(p.draft, c) \in Seq(Lines)
    BY <1>2, <2>1
  <2> QED BY <1>4, <2>2, <2>3
<1>10. CASE Channels!HandleInvalid(e)
  <2> DEFINE q == [p EXCEPT !.error = TRUE, !.message = FALSE]
  <2>1. q \in Channels!Editor
    BY DEF Channels!Editor
  <2>2. Channels!Put(e, q) /\ UNCHANGED <<table, tx, saves, edits, last>>
    BY <1>1, <1>10 DEF Channels!HandleInvalid
  <2> HIDE DEF q
  <2> QED BY <2>1, <2>2, EditorKeeps, ChannelTypes
<1> QED BY <1>5, <1>6, <1>7, <1>8, <1>9, <1>10

\* One transaction goes on, what is committed does not change.
LEMMA StatementKeeps ==
  ASSUME ChannelsInv, NEW e \in Editors, NEW x \in Channels!Transactions, tx' = [tx EXCEPT ![e] = x],
         UNCHANGED <<table, last>>, TxFits(x), OfTable(x),
         \A o \in Editors : o # e => Apart(x, tx[o]),
         editor' \in [Editors -> Channels!Editor], saves' \in 0 .. MaxSaves, edits' = edits
  PROVE  ChannelsInv'
<1>1. tx' \in [Editors -> Channels!Transactions] /\ tx'[e] = x /\ \A o \in Editors : o # e => tx'[o] = tx[o]
  BY ChannelTypes
<1>2. Channels!TypeOK'
  BY <1>1, ChannelTypes DEF Channels!TypeOK
<1>3. \A o \in Editors : TxFits(tx'[o]) /\ OfTable(tx'[o])
  BY <1>1 DEF ChannelsInv
<1>4. \A d, o \in Editors : d # o => Apart(tx'[d], tx'[o])
  <2>1. ASSUME NEW d \in Editors, NEW o \in Editors, d # o PROVE Apart(tx'[d], tx'[o])
    <3>1. CASE d = e
      BY <1>1, <2>1, <3>1
    <3>2. CASE o = e
      <4>1. Apart(x, tx[d])
        BY <2>1, <3>2
      <4>2. tx'[o] = x /\ tx'[d] = tx[d]
        BY <1>1, <2>1, <3>2
      <4> QED BY <4>1, <4>2 DEF Apart
    <3>3. CASE d # e /\ o # e
      BY <1>1, <2>1, <3>3 DEF ChannelsInv
    <3> QED BY <3>1, <3>2, <3>3
  <2> QED BY <2>1
<1>5. /\ (\A o \in Editors : TxFits(tx[o]) /\ OfTable(tx[o]))'
      /\ (\A d, o \in Editors : d # o => Apart(tx[d], tx[o]))'
  BY <1>3, <1>4 DEF TxFits, OfTable, Apart, Begun
<1>6. (Channels!AddressesUnique)' /\ (Channels!LastSaveComplete)' /\ IsFiniteSet(table')
  BY DEF ChannelsInv, Channels!AddressesUnique, Channels!LastSaveComplete
<1> QED BY <1>2, <1>5, <1>6 DEF ChannelsInv

\* What is known of one transaction.
LEMMA TxTypes ==
  ASSUME ChannelsInv, NEW e \in Editors
  PROVE  /\ tx[e] \in Channels!Transactions /\ TxFits(tx[e]) /\ OfTable(tx[e])
         /\ \A o \in Editors : o # e => Apart(tx[e], tx[o])
BY ChannelTypes DEF ChannelsInv

\* A transaction that holds nothing disturbs nobody.
LEMMA HoldsNothing ==
  ASSUME ChannelsInv, NEW e \in Editors, NEW x \in Channels!Transactions, tx' = [tx EXCEPT ![e] = x],
         UNCHANGED <<table, last, edits>>, x.state # "inserts", TxFits(x),
         editor' \in [Editors -> Channels!Editor], saves' \in 0 .. MaxSaves
  PROVE  ChannelsInv'
<1>1. OfTable(x) /\ \A o \in Editors : o # e => Apart(x, tx[o])
  BY DEF OfTable, Apart
<1> QED BY <1>1, StatementKeeps

LEMMA NoTxFits == Channels!NoTx \in Channels!Transactions /\ TxFits(Channels!NoTx)
BY DEF Channels!NoTx, Channels!Transactions, Channels!Contents, TxFits

LEMMA SaveStep ==
  ASSUME ChannelsInv, Channels!ChannelsAssumption, NEW e \in Editors, Channels!HandleSave(e)
  PROVE  ChannelsInv' /\ UNCHANGED table /\ tx' = [tx EXCEPT ![e] = tx'[e]] /\ tx'[e].state \in {"begun", "failed"}
<1>1. PICK p \in Channels!Editor : p = editor[e]
  BY ChannelTypes
<1>2. p.draft \in Seq(Lines)
  BY DEF Channels!Editor, Channels!Drafts, Lines
<1>3. PICK n \in Nat : n = Len(p.draft) /\ DOMAIN p.draft = 1 .. n
  BY <1>2
<1> DEFINE sent == Channels!ToSupportChannelPayload(p.draft)
<1>4. Channels!ValidateSupportChannels(p.draft)
  BY <1>1 DEF Channels!HandleSave
<1>5. sent = [i \in 1 .. n |-> Trim(p.draft[i].address)]
  BY <1>3 DEF Channels!ToSupportChannelPayload
<1>6. \A i \in 1 .. n : Trim(p.draft[i].address) \in Addresses
  <2>1. ASSUME NEW i \in 1 .. n PROVE Trim(p.draft[i].address) \in Addresses
    <3>1. PICK c \in Lines : c = p.draft[i]
      BY <1>2, <1>3
    <3>2. Trim(c.address) \in Addresses \cup {Blank}
      BY DEF Lines, Channels!ChannelsAssumption
    <3>3. Trim(c.address) # Blank
      BY <1>3, <1>4, <3>1 DEF Channels!ValidateSupportChannels
    <3> QED BY <3>1, <3>2, <3>3
  <2> QED BY <2>1
<1>7. \A i, j \in 1 .. n : Trim(p.draft[i].address) = Trim(p.draft[j].address) => i = j
  BY <1>3, <1>4 DEF Channels!ValidateSupportChannels
<1> HIDE DEF sent
<1>8. sent \in [1 .. n -> Addresses] /\ \A i, j \in 1 .. n : sent[i] = sent[j] => i = j
  BY <1>5, <1>6, <1>7
<1>9. sent \in Seq(Addresses) /\ Len(sent) = n
  BY <1>8, IsASeq, LenProperties
<1>10. PICK state \in {"begun", "failed"} :
          tx' = [tx EXCEPT ![e] = [Channels!NoTx EXCEPT !.save = saves + 1, !.sent = sent, !.state = state]]
  BY <1>1 DEF Channels!HandleSave, sent
<1> DEFINE x == [Channels!NoTx EXCEPT !.save = saves + 1, !.sent = sent, !.state = state]
<1>11. /\ x \in Channels!Transactions /\ x.sent = sent /\ x.state = state
       /\ x.deleted = {} /\ x.inserted = {}
  <2>1. PICK m \in Nat : m = saves + 1
    BY ChannelTypes DEF Channels!ChannelsAssumption
  <2>2. x = [Channels!NoTx EXCEPT !.save = m, !.sent = sent, !.state = state]
    BY <2>1
  <2>3. sent \in Channels!Contents
    BY <1>9 DEF Channels!Contents
  <2> HIDE DEF x
  <2>4. x = [state |-> state, save |-> m, sent |-> sent, previous |-> {}, sees |-> {}, deleted |-> {}, inserted |-> {}]
    BY <2>2 DEF Channels!NoTx
  <2> QED BY <2>3, <2>4 DEF Channels!Transactions
<1> HIDE DEF x
<1>12. TxFits(x)
  <2>1. IsFiniteSet({}) /\ Cardinality({}) = 0
    BY FS_EmptySet
  <2> QED BY <1>8, <1>9, <1>11, <2>1 DEF TxFits, Begun
<1>13. /\ UNCHANGED <<table, last, edits>> /\ saves' \in 0 .. MaxSaves
  BY ChannelTypes DEF Channels!HandleSave, Channels!ChannelsAssumption
<1>14. editor' \in [Editors -> Channels!Editor]
  <2> DEFINE q == [p EXCEPT !.saving = TRUE, !.error = FALSE]
  <2>1. q \in Channels!Editor
    BY DEF Channels!Editor
  <2>2. editor' = [editor EXCEPT ![e] = q]
    BY <1>1 DEF Channels!HandleSave, Channels!Put
  <2> HIDE DEF q
  <2> QED BY <2>1, <2>2, ChannelTypes
<1>15. tx' = [tx EXCEPT ![e] = x] /\ tx'[e] = x
  BY <1>10, ChannelTypes DEF x
<1>16. x.state # "inserts"
  BY <1>11
<1> QED BY <1>11, <1>12, <1>13, <1>14, <1>15, <1>16, HoldsNothing

LEMMA AnswerStep ==
  ASSUME ChannelsInv, Channels!ChannelsAssumption, NEW e \in Editors, Channels!Answered(e)
  PROVE  ChannelsInv' /\ UNCHANGED table /\ tx' = [tx EXCEPT ![e] = Channels!NoTx]
<1>1. PICK p \in Channels!Editor : p = editor[e]
  BY ChannelTypes
<1>2. PICK x \in Channels!Transactions : x = tx[e] /\ TxFits(x)
  BY TxTypes
<1>3. editor' \in [Editors -> Channels!Editor]
  <2>1. ASSUME NEW list \in Channels!ListSupportChannels(x.inserted), x.state = "saved",
               Channels!Put(e, [p EXCEPT !.draft = Channels!ToDraft(list), !.message = TRUE, !.saving = FALSE])
        PROVE  editor' \in [Editors -> Channels!Editor]
    <3>1. x.inserted \in SUBSET Channels!Rows /\ IsFiniteSet(x.inserted)
      BY <1>2, <2>1 DEF Channels!Transactions, TxFits
    <3>2. PICK draft \in Channels!Drafts : draft = Channels!ToDraft(list)
      BY <3>1, DraftOfRows
    <3> DEFINE q == [p EXCEPT !.draft = draft, !.message = TRUE, !.saving = FALSE]
    <3>3. q \in Channels!Editor
      BY DEF Channels!Editor
    <3>4. editor' = [editor EXCEPT ![e] = q]
      BY <2>1, <3>2 DEF Channels!Put
    <3> HIDE DEF q
    <3> QED BY <3>3, <3>4, ChannelTypes
  <2>2. ASSUME Channels!Put(e, [p EXCEPT !.error = TRUE, !.saving = FALSE])
        PROVE  editor' \in [Editors -> Channels!Editor]
    <3> DEFINE q == [p EXCEPT !.error = TRUE, !.saving = FALSE]
    <3>1. q \in Channels!Editor
      BY DEF Channels!Editor
    <3>2. editor' = [editor EXCEPT ![e] = q]
      BY <2>2 DEF Channels!Put
    <3> HIDE DEF q
    <3> QED BY <3>1, <3>2, ChannelTypes
  <2>3. \/ /\ x.state = "saved"
           /\ \E list \in Channels!ListSupportChannels(x.inserted) :
                Channels!Put(e, [p EXCEPT !.draft = Channels!ToDraft(list), !.message = TRUE, !.saving = FALSE])
        \/ Channels!Put(e, [p EXCEPT !.error = TRUE, !.saving = FALSE])
        \/ editor' = editor
    BY <1>1, <1>2 DEF Channels!Answered
  <2> QED BY <2>1, <2>2, <2>3, ChannelTypes
<1>4. tx' = [tx EXCEPT ![e] = Channels!NoTx] /\ UNCHANGED <<table, saves, edits, last>>
  BY DEF Channels!Answered
<1>5. Channels!NoTx.state # "inserts"
  BY DEF Channels!NoTx
<1> QED BY <1>3, <1>4, <1>5, NoTxFits, HoldsNothing, ChannelTypes

\* What a transaction that reads, or is given up, has changed of the rest: nothing.
LEMMA ReadStep ==
  ASSUME ChannelsInv, NEW e \in Editors,
         \/ Channels!Select(e) \/ Channels!StartDelete(e) \/ Channels!Refused(e)
         \/ Channels!Detect(e) \/ Channels!Fail(e)
  PROVE  ChannelsInv' /\ UNCHANGED table
<1>1. PICK x \in Channels!Transactions : x = tx[e] /\ TxFits(x)
  BY TxTypes
<1>2. ASSUME NEW y \in Channels!Transactions, TxFits(y), y.state # "inserts",
             Channels!Statement(e, y), UNCHANGED <<table, last>>
      PROVE  ChannelsInv' /\ UNCHANGED table
  <2>1. tx' = [tx EXCEPT ![e] = y] /\ UNCHANGED <<editor, saves, edits>>
    BY <1>2 DEF Channels!Statement
  <2> QED BY <1>2, <2>1, HoldsNothing, ChannelTypes
<1>3. CASE Channels!Select(e)
  <2> DEFINE y == [x EXCEPT !.state = "read", !.previous = table]
  <2>1. /\ y \in Channels!Transactions /\ y.state = "read"
        /\ y.deleted = x.deleted /\ y.inserted = x.inserted /\ y.sent = x.sent
    BY ChannelTypes DEF Channels!Transactions
  <2>2. x.state = "begun" /\ Channels!Statement(e, y) /\ UNCHANGED <<table, last>>
    BY <1>1, <1>3 DEF Channels!Select
  <2> HIDE DEF y
  <2>3. TxFits(y)
    BY <1>1, <2>1, <2>2 DEF TxFits, Begun
  <2> QED BY <1>2, <2>1, <2>2, <2>3
<1>4. CASE Channels!StartDelete(e)
  <2> DEFINE y == [x EXCEPT !.state = "deletes", !.sees = table]
  <2>1. /\ y \in Channels!Transactions /\ y.state = "deletes"
        /\ y.deleted = x.deleted /\ y.inserted = x.inserted /\ y.sent = x.sent
    BY ChannelTypes DEF Channels!Transactions
  <2>2. x.state = "read" /\ Channels!Statement(e, y) /\ UNCHANGED <<table, last>>
    BY <1>1, <1>4 DEF Channels!StartDelete
  <2> HIDE DEF y
  <2>3. TxFits(y)
    BY <1>1, <2>1, <2>2 DEF TxFits, Begun
  <2> QED BY <1>2, <2>1, <2>2, <2>3
<1>5. CASE Channels!Refused(e) \/ Channels!Detect(e) \/ Channels!Fail(e)
  <2> DEFINE y == [Channels!NoTx EXCEPT !.state = "failed", !.save = x.save, !.sent = x.sent]
  <2>1. y \in Channels!Transactions /\ y.state = "failed" /\ y.deleted = {} /\ y.inserted = {}
    BY DEF Channels!Transactions, Channels!NoTx
  <2>2. Channels!Statement(e, y) /\ UNCHANGED <<table, last>>
    BY <1>1, <1>5 DEF Channels!Refused, Channels!Detect, Channels!Fail, Channels!RolledBack
  <2> HIDE DEF y
  <2>3. TxFits(y)
    BY <2>1 DEF TxFits
  <2> QED BY <1>2, <2>1, <2>2, <2>3
<1> QED BY <1>3, <1>4, <1>5

\* The delete takes the rows no other transaction holds.
LEMMA DeleteStep ==
  ASSUME ChannelsInv, NEW e \in Editors, Channels!Delete(e)
  PROVE  ChannelsInv' /\ UNCHANGED table
<1>1. PICK x \in Channels!Transactions : x = tx[e] /\ TxFits(x)
  BY TxTypes
<1> DEFINE y == [x EXCEPT !.state = "inserts", !.deleted = x.sees \cap table]
<1>2. /\ y \in Channels!Transactions /\ y.state = "inserts"
      /\ y.deleted = x.sees \cap table /\ y.inserted = x.inserted /\ y.sent = x.sent
  BY ChannelTypes DEF Channels!Transactions
<1>3. /\ x.state = "deletes" /\ Channels!WaitsFor(e) = {}
      /\ Channels!Statement(e, y) /\ UNCHANGED <<table, last>>
  BY <1>1 DEF Channels!Delete
<1> HIDE DEF y
<1>4. TxFits(y) /\ OfTable(y) /\ y.inserted = {}
  BY <1>1, <1>2, <1>3 DEF TxFits, OfTable, Begun
<1>5. ASSUME NEW o \in Editors, o # e PROVE Apart(y, tx[o])
  <2>1. ASSUME tx[o].state = "inserts", NEW r \in y.deleted, NEW s \in tx[o].deleted \cup tx[o].inserted, r.key = s.key
        PROVE  FALSE
    <3>1. r \in x.sees /\ r \in table
      BY <1>2, <2>1
    <3>2. (tx[o].deleted \cup tx[o].inserted) \cap x.sees = {}
      BY <1>1, <1>3, <1>5, <2>1 DEF Channels!WaitsFor, Channels!Others, Channels!Uncommitted
    <3>3. OfTable(tx[o]) /\ Channels!AddressesUnique
      BY DEF ChannelsInv
    <3>4. CASE s \in tx[o].deleted
      BY <2>1, <3>1, <3>2, <3>3, <3>4 DEF OfTable, Channels!AddressesUnique
    <3>5. CASE s \in tx[o].inserted
      BY <2>1, <3>1, <3>2, <3>3, <3>5 DEF OfTable
    <3> QED BY <2>1, <3>4, <3>5
  <2> QED BY <1>4, <2>1 DEF Apart
<1>6. tx' = [tx EXCEPT ![e] = y] /\ UNCHANGED <<editor, saves, edits>>
  BY <1>3 DEF Channels!Statement
<1> QED BY <1>2, <1>3, <1>4, <1>5, <1>6, StatementKeeps, ChannelTypes

\* The row that comes next: of the key no other row has, with the next number.
LEMMA RowIsNew ==
  ASSUME ChannelsInv, Channels!ChannelsAssumption, NEW e \in Editors, tx[e].state = "inserts", Channels!Inserting(e)
  PROVE  /\ Channels!NewRow(e) \in Channels!Rows /\ Channels!Key(e) \in Addresses
         /\ Channels!NewRow(e).key = tx[e].sent[Cardinality(tx[e].inserted) + 1]
         /\ Channels!NewRow(e).order = Cardinality(tx[e].inserted)
         /\ Cardinality(tx[e].inserted) \in Nat /\ Cardinality(tx[e].inserted) < Len(tx[e].sent)
<1>1. PICK x \in Channels!Transactions : x = tx[e] /\ TxFits(x)
  BY TxTypes
<1>2. PICK n \in Nat : n = Cardinality(x.inserted) /\ n = Channels!Cardinality(x.inserted)
  BY <1>1, FS_CardinalityType, SameCount DEF TxFits, Begun
<1>3. n < Len(x.sent) /\ x.sent \in Seq(Addresses)
  BY <1>1, <1>2 DEF Channels!Inserting, Channels!Transactions, Channels!Contents
<1>4. x.sent[n + 1] \in Addresses /\ Channels!Key(e) = x.sent[n + 1]
  BY <1>1, <1>2, <1>3 DEF Channels!Key
<1> DEFINE known == {r \in x.previous : r.key = Channels!Key(e)}
           before == CHOOSE r \in known : TRUE
<1>5. PICK m \in Nat : m = x.save * MaxChannels + n
  BY DEF Channels!Transactions, Channels!ChannelsAssumption
<1>6. PICK id \in Nat, created \in Nat :
        Channels!NewRow(e) = [id |-> id, key |-> Channels!Key(e), order |-> n, created |-> created, at |-> x.save]
  <2>1. CASE known = {}
    <3>1. Channels!NewRow(e) = [id |-> m, key |-> Channels!Key(e), order |-> n, created |-> x.save, at |-> x.save]
      BY <1>1, <1>2, <1>5, <2>1 DEF Channels!NewRow
    <3> QED BY <3>1 DEF Channels!Transactions
  <2>2. CASE known # {}
    <3>1. before \in known
      BY <2>2
    <3>2. before \in Channels!Rows
      BY <3>1 DEF Channels!Transactions
    <3>3. Channels!NewRow(e) =
            [id |-> before.id, key |-> Channels!Key(e), order |-> n, created |-> before.created, at |-> x.save]
      BY <1>1, <1>2, <2>2 DEF Channels!NewRow
    <3> HIDE DEF before
    <3> QED BY <3>2, <3>3 DEF Channels!Rows
  <2> QED BY <2>1, <2>2
<1> HIDE DEF known, before
<1>7. Channels!NewRow(e) \in Channels!Rows
  BY <1>4, <1>6 DEF Channels!Rows, Channels!Transactions
<1> QED BY <1>1, <1>2, <1>3, <1>4, <1>6, <1>7

LEMMA InsertStep ==
  ASSUME ChannelsInv, Channels!ChannelsAssumption, NEW e \in Editors, Channels!Insert(e)
  PROVE  ChannelsInv' /\ UNCHANGED table
<1>1. PICK x \in Channels!Transactions : x = tx[e] /\ TxFits(x) /\ OfTable(x) /\ \A o \in Editors : o # e => Apart(x, tx[o])
  BY TxTypes
<1>2. x.state = "inserts" /\ Channels!Inserting(e) /\ Channels!WaitsFor(e) = {} /\ ~Channels!Taken(e) /\ UNCHANGED <<table, last>>
  BY <1>1 DEF Channels!Insert, Channels!Inserting
<1>3. PICK n \in Nat : n = Cardinality(x.inserted) /\ n < Len(x.sent)
  BY <1>1, <1>2, RowIsNew
<1>4. PICK new \in Channels!Rows : /\ new = Channels!NewRow(e) /\ new.key = x.sent[n + 1] /\ new.order = n
                                    /\ new.key = Channels!Key(e)
  <2>1. Channels!Key(e) = x.sent[n + 1]
    BY <1>1, <1>3, SameCount DEF Channels!Key
  <2> QED BY <1>1, <1>2, <1>3, <2>1, RowIsNew
<1> DEFINE y == [x EXCEPT !.inserted = x.inserted \cup {new}]
<1>5. /\ y \in Channels!Transactions /\ y.state = "inserts" /\ y.sent = x.sent
      /\ y.deleted = x.deleted /\ y.inserted = x.inserted \cup {new}
  BY <1>2 DEF Channels!Transactions
<1>6. Channels!Statement(e, y)
  BY <1>1, <1>4 DEF Channels!Insert
<1> HIDE DEF y
<1>7. Begun(x) /\ new \notin x.inserted
  BY <1>1, <1>2, <1>3, <1>4 DEF TxFits, Begun
<1>8. IsFiniteSet(y.inserted) /\ Cardinality(y.inserted) = n + 1
  BY <1>3, <1>5, <1>7, FS_AddElement DEF Begun
<1>9. TxFits(y)
  <2>1. \A r \in y.inserted : r.order < n + 1 /\ r.key = y.sent[r.order + 1]
    <3>1. \A r \in x.inserted : r.order \in Nat
      BY DEF Channels!Transactions, Channels!Rows
    <3>2. \A r \in x.inserted : r.order < n /\ r.key = x.sent[r.order + 1]
      BY <1>3, <1>7 DEF Begun
    <3>3. \A r \in x.inserted : r.order < n + 1
      BY <3>1, <3>2
    <3>4. new.order < n + 1 /\ new.key = x.sent[new.order + 1]
      BY <1>4
    <3> QED BY <1>5, <3>2, <3>3, <3>4
  <2>2. \A r, s \in y.inserted : r.order = s.order => r = s
    BY <1>3, <1>4, <1>5, <1>7 DEF Begun
  <2>3. \A k \in 0 .. n : \E r \in y.inserted : r.order = k
    <3>1. ASSUME NEW k \in 0 .. n PROVE \E r \in y.inserted : r.order = k
      <4>1. CASE k = n
        BY <1>4, <1>5, <4>1
      <4>2. CASE k # n
        <5>1. k \in 0 .. n - 1
          BY <4>2
        <5>2. PICK r \in x.inserted : r.order = k
          BY <1>3, <1>7, <5>1 DEF Begun
        <5> QED BY <1>5, <5>2
      <4> QED BY <4>1, <4>2
    <3> QED BY <3>1
  <2>4. n + 1 <= Len(y.sent) /\ n + 1 - 1 = n
    BY <1>3, <1>5 DEF Channels!Transactions, Channels!Contents
  <2>5. Begun(y)
    <3>1. \A i, j \in 1 .. Len(y.sent) : y.sent[i] = y.sent[j] => i = j
      BY <1>5, <1>7 DEF Begun
    <3>2. 0 .. Cardinality(y.inserted) - 1 = 0 .. n
      BY <1>8, <2>4
    <3> QED BY <1>8, <2>1, <2>2, <2>3, <2>4, <3>1, <3>2 DEF Begun
  <2> QED BY <1>5, <2>5 DEF TxFits
<1>10. OfTable(y)
  BY <1>1, <1>2, <1>4, <1>5 DEF OfTable, Channels!Taken
<1>11. ASSUME NEW o \in Editors, o # e PROVE Apart(y, tx[o])
  <2>1. tx[o].state = "inserts" => \A s \in tx[o].deleted \cup tx[o].inserted : s.key # new.key
    BY <1>1, <1>2, <1>4, <1>11 DEF Channels!WaitsFor, Channels!Others, Channels!Uncommitted, Channels!KeysOf
  <2>2. Apart(x, tx[o])
    BY <1>1, <1>11
  <2> QED BY <1>2, <1>5, <2>1, <2>2 DEF Apart
<1>12. tx' = [tx EXCEPT ![e] = y] /\ UNCHANGED <<editor, saves, edits>>
  BY <1>6 DEF Channels!Statement
<1> QED BY <1>2, <1>5, <1>9, <1>10, <1>11, <1>12, StatementKeeps, ChannelTypes

\* What is committed is the whole list, beside the rows the delete did not see.
LEMMA CommitStep ==
  ASSUME ChannelsInv, NEW e \in Editors, Channels!Commit(e)
  PROVE  ChannelsInv'
<1>1. PICK x \in Channels!Transactions : x = tx[e] /\ TxFits(x) /\ OfTable(x) /\ \A o \in Editors : o # e => Apart(x, tx[o])
  BY TxTypes
<1> DEFINE y == [x EXCEPT !.state = "saved", !.deleted = {}]
<1>2. y \in Channels!Transactions /\ y.state = "saved" /\ y.deleted = {} /\ y.inserted = x.inserted
  BY DEF Channels!Transactions
<1>3. /\ x.state = "inserts" /\ ~Channels!Inserting(e)
      /\ table' = (table \ x.deleted) \cup x.inserted /\ last' = x.sent
      /\ tx' = [tx EXCEPT ![e] = y] /\ UNCHANGED <<editor, saves, edits>>
  BY <1>1 DEF Channels!Commit, Channels!Statement
<1> HIDE DEF y
<1>4. /\ tx' \in [Editors -> Channels!Transactions] /\ tx'[e] = y
      /\ \A o \in Editors : o # e => tx'[o] = tx[o]
  BY <1>2, <1>3, ChannelTypes
<1>5. Begun(x)
  BY <1>1, <1>3 DEF TxFits
<1>6. Channels!TypeOK'
  BY <1>3, <1>4, ChannelTypes DEF Channels!TypeOK, Channels!Transactions, Channels!Contents
<1>7. IsFiniteSet(table')
  BY <1>3, <1>5, FS_Difference, FS_Union DEF ChannelsInv, Begun
<1>8. \A o \in Editors : TxFits(tx'[o])
  <2>1. TxFits(y)
    BY <1>2, <1>5 DEF TxFits, Begun
  <2> QED BY <1>4, <2>1 DEF ChannelsInv
<1>9. ASSUME NEW o \in Editors PROVE (OfTable(tx[o]))'
  <2>1. CASE o = e
    BY <1>2, <1>4, <2>1 DEF OfTable
  <2>2. CASE o # e
    <3>1. OfTable(tx[o]) /\ Apart(x, tx[o]) /\ tx'[o] = tx[o]
      BY <1>1, <1>4, <2>2 DEF ChannelsInv
    <3>2. ASSUME tx[o].state = "inserts", NEW r \in tx[o].deleted PROVE r \in table'
      BY <1>3, <3>1, <3>2 DEF OfTable, Apart
    <3>3. ASSUME tx[o].state = "inserts", NEW r \in tx[o].inserted, NEW s \in table' \ tx[o].deleted
          PROVE  r.key # s.key
      BY <1>3, <3>1, <3>3 DEF OfTable, Apart
    <3> QED BY <3>1, <3>2, <3>3 DEF OfTable
  <2> QED BY <2>1, <2>2
<1>10. \A d, o \in Editors : d # o => Apart(tx'[d], tx'[o])
  BY <1>2, <1>4 DEF ChannelsInv, Apart
<1>11. (Channels!AddressesUnique)'
  <2>1. ASSUME NEW r \in table', NEW s \in table', r.key = s.key PROVE r = s
    <3>1. CASE r \in table \ x.deleted /\ s \in table \ x.deleted
      BY <2>1, <3>1 DEF ChannelsInv, Channels!AddressesUnique
    <3>2. CASE r \in x.inserted /\ s \in x.inserted
      <4>1. /\ r.order + 1 \in 1 .. Len(x.sent) /\ s.order + 1 \in 1 .. Len(x.sent)
            /\ r.order \in Nat /\ s.order \in Nat
        <5>1. r.order \in Nat /\ s.order \in Nat /\ Len(x.sent) \in Nat /\ Cardinality(x.inserted) \in Nat
          BY <1>5, <3>2, FS_CardinalityType DEF Channels!Transactions, Channels!Rows, Channels!Contents, Begun
        <5> QED BY <1>5, <3>2, <5>1 DEF Begun
      <4>2. x.sent[r.order + 1] = x.sent[s.order + 1]
        BY <1>5, <2>1, <3>2 DEF Begun
      <4>3. r.order = s.order
        BY <1>5, <4>1, <4>2 DEF Begun
      <4> QED BY <1>5, <3>2, <4>3 DEF Begun
    <3>3. CASE r \in x.inserted /\ s \in table \ x.deleted
      BY <1>1, <1>3, <2>1, <3>3 DEF OfTable
    <3>4. CASE s \in x.inserted /\ r \in table \ x.deleted
      BY <1>1, <1>3, <2>1, <3>4 DEF OfTable
    <3> QED BY <1>3, <2>1, <3>1, <3>2, <3>3, <3>4
  <2> QED BY <2>1 DEF Channels!AddressesUnique
<1>12. (Channels!LastSaveComplete)'
  <2>1. PICK n \in Nat : n = Len(x.sent) /\ DOMAIN x.sent = 1 .. n
    BY DEF Channels!Transactions, Channels!Contents
  <2>2. Cardinality(x.inserted) = n
    BY <1>1, <1>3, <1>5, <2>1, FS_CardinalityType, SameCount DEF Channels!Inserting, Begun
  <2>3. ASSUME NEW i \in 1 .. n PROVE \E r \in x.inserted : r.key = x.sent[i]
    <3>1. i - 1 \in 0 .. n - 1 /\ i - 1 + 1 = i
      OBVIOUS
    <3>2. PICK r \in x.inserted : r.order = i - 1
      BY <1>5, <2>2, <3>1 DEF Begun
    <3>3. r.key = x.sent[r.order + 1]
      BY <1>5 DEF Begun
    <3> QED BY <3>1, <3>2, <3>3
  <2>4. ASSUME NEW k \in Channels!Range(x.sent) PROVE \E r \in table' : r.key = k
    <3>1. PICK i \in 1 .. n : k = x.sent[i]
      BY <2>1, <2>4 DEF Channels!Range
    <3> QED BY <1>3, <2>3, <3>1
  <2> QED BY <1>3, <2>4 DEF Channels!LastSaveComplete, Channels!KeysOf
<1>13. (\A o \in Editors : TxFits(tx[o]))' /\ (\A d, o \in Editors : d # o => Apart(tx[d], tx[o]))'
  BY <1>8, <1>10 DEF TxFits, Apart, Begun
<1> QED BY <1>6, <1>7, <1>9, <1>11, <1>12, <1>13 DEF ChannelsInv

LEMMA ChannelsStart ==
  ASSUME Channels!ChannelsAssumption, Channels!Init
  PROVE  ChannelsInv
<1>1. Channels!Closed \in Channels!Editor
  BY DEF Channels!Closed, Channels!Editor, Channels!Drafts
<1>2. Channels!TypeOK
  BY <1>1, NoTxFits DEF Channels!ChannelsAssumption, Channels!Init, Channels!TypeOK, Channels!Contents
<1>3. \A e \in Editors : TxFits(tx[e]) /\ tx[e].state = "none"
  BY NoTxFits DEF Channels!Init, Channels!NoTx
<1>4. (\A e \in Editors : OfTable(tx[e])) /\ \A e, o \in Editors : Apart(tx[e], tx[o])
  BY <1>3 DEF OfTable, Apart
<1>5. Channels!AddressesUnique /\ Channels!LastSaveComplete /\ IsFiniteSet(table)
  BY FS_EmptySet DEF Channels!Init, Channels!AddressesUnique, Channels!LastSaveComplete, Channels!Range
<1> QED BY <1>2, <1>3, <1>4, <1>5 DEF ChannelsInv

LEMMA ChannelsStep ==
  ASSUME Channels!ChannelsAssumption, ChannelsInv, [Channels!Next]_(Channels!channelVars)
  PROVE  ChannelsInv'
<1>1. CASE UNCHANGED Channels!channelVars
  BY <1>1 DEF Channels!channelVars, ChannelsInv, Channels!TypeOK, TxFits, Begun, OfTable, Apart,
              Channels!AddressesUnique, Channels!LastSaveComplete
<1>2. CASE Channels!Next
  BY <1>2, EditStep, SaveStep, AnswerStep, ReadStep, DeleteStep, InsertStep, CommitStep DEF Channels!Next, Channels!Runs
<1> QED BY <1>1, <1>2

(* However many maintainers save at a time, no two rows of a package name  *)
(* the same type and address (the unique index), and every channel of the   *)
(* save committed last is in the table, whatever other transactions delete, *)
(* wait for or are refused (saveSupportChannels).                           *)
THEOREM ChannelsCompleteHolds ==
  ASSUME Channels!ChannelsAssumption
  PROVE  Channels!Spec => [](Channels!TypeOK /\ Channels!AddressesUnique /\ Channels!LastSaveComplete)
<1>1. Channels!Init => ChannelsInv
  BY ChannelsStart
<1>2. ChannelsInv /\ [Channels!Next]_(Channels!channelVars) => ChannelsInv'
  BY ChannelsStep
<1>3. ChannelsInv => Channels!TypeOK /\ Channels!AddressesUnique /\ Channels!LastSaveComplete
  BY DEF ChannelsInv
<1> QED BY <1>1, <1>2, <1>3, PTL DEF Channels!Spec

\* With one editor the table does not change under a transaction.
LooksAtTable(x) ==
  /\ x.state \in {"read", "deletes", "inserts"} => x.previous = table
  /\ x.state = "deletes" => x.sees = table
  /\ x.state = "inserts" =>
       /\ x.deleted = table
       /\ \A r \in x.inserted, s \in table : r.key = s.key => r.id = s.id /\ r.created = s.created

AloneInv == ChannelsInv /\ \A e \in Editors : LooksAtTable(tx[e])

LEMMA AloneStep ==
  ASSUME Channels!ChannelsAssumption, AloneInv, NEW e, Editors = {e}, [Channels!Next]_(Channels!channelVars)
  PROVE  AloneInv' /\ Channels!KeepsIdentity
<1>1. ChannelsInv /\ ChannelsInv'
  BY ChannelsStep DEF AloneInv
<1>2. PICK x \in Channels!Transactions : x = tx[e] /\ TxFits(x) /\ OfTable(x) /\ LooksAtTable(x)
  BY <1>1, TxTypes DEF AloneInv
<1>3. PICK z \in Channels!Transactions : z = tx'[e]
  BY <1>1 DEF ChannelsInv, Channels!TypeOK
<1>4. tx \in [{e} -> Channels!Transactions]
  BY <1>1, ChannelTypes
<1>5. ASSUME UNCHANGED table, LooksAtTable(z) PROVE AloneInv' /\ Channels!KeepsIdentity
  <2>1. (LooksAtTable(tx[e]))'
    BY <1>3, <1>5 DEF LooksAtTable
  <2>2. Channels!KeepsIdentity
    BY <1>1, <1>5 DEF ChannelsInv, Channels!AddressesUnique, Channels!KeepsIdentity
  <2> QED BY <1>1, <2>1, <2>2 DEF AloneInv
<1>6. ASSUME UNCHANGED <<table, tx>> PROVE AloneInv' /\ Channels!KeepsIdentity
  BY <1>2, <1>3, <1>5, <1>6
<1>7. CASE UNCHANGED Channels!channelVars
  BY <1>6, <1>7 DEF Channels!channelVars
<1>8. CASE \/ Channels!Open(e) \/ Channels!Leave(e) \/ Channels!Patch(e) \/ Channels!RemoveRow(e)
           \/ Channels!AddRow(e) \/ Channels!HandleInvalid(e)
  BY <1>1, <1>6, <1>8, EditStep
<1>9. CASE Channels!HandleSave(e)
  BY <1>1, <1>3, <1>5, <1>9, SaveStep DEF LooksAtTable
<1>10. CASE Channels!Answered(e)
  <2>1. z = Channels!NoTx /\ UNCHANGED table
    BY <1>1, <1>3, <1>4, <1>10, AnswerStep
  <2> QED BY <1>5, <2>1 DEF LooksAtTable, Channels!NoTx
<1>11. CASE Channels!Select(e)
  <2>1. z = [x EXCEPT !.state = "read", !.previous = table] /\ UNCHANGED table
    BY <1>2, <1>3, <1>4, <1>11 DEF Channels!Select, Channels!Statement
  <2>2. z.state = "read" /\ z.previous = table
    BY <2>1 DEF Channels!Transactions
  <2> QED BY <1>5, <2>1, <2>2 DEF LooksAtTable
<1>12. CASE Channels!StartDelete(e)
  <2>1. x.state = "read" /\ z = [x EXCEPT !.state = "deletes", !.sees = table] /\ UNCHANGED table
    BY <1>2, <1>3, <1>4, <1>12 DEF Channels!StartDelete, Channels!Statement
  <2>2. z.state = "deletes" /\ z.sees = table /\ z.previous = x.previous
    BY <2>1 DEF Channels!Transactions
  <2> QED BY <1>2, <1>5, <2>1, <2>2 DEF LooksAtTable
<1>13. CASE Channels!Delete(e)
  <2>1. x.state = "deletes" /\ z = [x EXCEPT !.state = "inserts", !.deleted = x.sees \cap table] /\ UNCHANGED table
    BY <1>2, <1>3, <1>4, <1>13 DEF Channels!Delete, Channels!Statement
  <2>2. z.state = "inserts" /\ z.deleted = x.sees \cap table /\ z.previous = x.previous /\ z.inserted = x.inserted
    BY <2>1 DEF Channels!Transactions
  <2> QED BY <1>2, <1>5, <2>1, <2>2 DEF LooksAtTable, TxFits
<1>14. CASE Channels!Insert(e)
  <2>1. /\ x.state = "inserts" /\ z = [x EXCEPT !.inserted = x.inserted \cup {Channels!NewRow(e)}] /\ UNCHANGED table
        /\ Channels!Inserting(e)
    BY <1>2, <1>3, <1>4, <1>14 DEF Channels!Insert, Channels!Statement, Channels!Inserting
  <2>2. PICK new \in Channels!Rows : new = Channels!NewRow(e)
    BY <1>1, <1>2, <2>1, RowIsNew
  <2>3. /\ z.state = "inserts" /\ z.deleted = x.deleted /\ z.previous = x.previous
        /\ z.inserted = x.inserted \cup {new}
    BY <2>1, <2>2 DEF Channels!Transactions
  <2>4. ASSUME NEW s \in table, new.key = s.key PROVE new.id = s.id /\ new.created = s.created
    <3> DEFINE known == {r \in x.previous : r.key = Channels!Key(e)}
               before == CHOOSE r \in known : TRUE
    <3>1. new.key = Channels!Key(e)
      BY <2>2 DEF Channels!NewRow
    <3>2. s \in known
      BY <1>2, <2>1, <2>4, <3>1 DEF LooksAtTable
    <3>3. before \in known
      BY <3>2
    <3>4. before = s
      BY ZenonT(30), <1>1, <1>2, <2>1, <2>4, <3>1, <3>3 DEF LooksAtTable, ChannelsInv, Channels!AddressesUnique
    <3>5. new.id = before.id /\ new.created = before.created
      BY <1>2, <2>2, <3>2 DEF Channels!NewRow
    <3> QED BY <3>4, <3>5
  <2>5. LooksAtTable(z)
    BY <1>2, <2>1, <2>3, <2>4 DEF LooksAtTable
  <2> QED BY <1>5, <2>1, <2>5
<1>15. CASE Channels!Refused(e) \/ Channels!Detect(e) \/ Channels!Fail(e)
  <2>1. z = [Channels!NoTx EXCEPT !.state = "failed", !.save = x.save, !.sent = x.sent] /\ UNCHANGED table
    BY <1>2, <1>3, <1>4, <1>15
       DEF Channels!Refused, Channels!Detect, Channels!Fail, Channels!Statement, Channels!RolledBack
  <2>2. z.state = "failed"
    BY <2>1 DEF Channels!NoTx
  <2> QED BY <1>5, <2>1, <2>2 DEF LooksAtTable
<1>16. CASE Channels!Commit(e)
  <2>1. /\ x.state = "inserts" /\ z = [x EXCEPT !.state = "saved", !.deleted = {}]
        /\ table' = (table \ x.deleted) \cup x.inserted
    BY <1>2, <1>3, <1>4, <1>16 DEF Channels!Commit, Channels!Statement
  <2>2. z.state = "saved"
    BY <2>1 DEF Channels!Transactions
  <2>3. (LooksAtTable(tx[e]))'
    BY <1>3, <2>2 DEF LooksAtTable
  <2>4. Channels!KeepsIdentity
    BY <1>2, <2>1 DEF LooksAtTable, Channels!KeepsIdentity
  <2> QED BY <1>1, <2>3, <2>4 DEF AloneInv
<1> QED BY <1>7, <1>8, <1>9, <1>10, <1>11, <1>12, <1>13, <1>14, <1>15, <1>16 DEF Channels!Next, Channels!Runs

(* While one maintainer at a time saves, a channel that is kept keeps its  *)
(* id and the time it was created, wherever in the list it stands and       *)
(* however often its save failed before (the rows of the select that the    *)
(* insert looks up).                                                        *)
THEOREM KeepsIdentityHolds ==
  ASSUME Channels!ChannelsAssumption, NEW e, Editors = {e}
  PROVE  Channels!Spec => [][Channels!KeepsIdentity]_(Channels!channelVars)
<1>1. Channels!Init => AloneInv
  <2>1. ASSUME Channels!Init PROVE \A o \in Editors : LooksAtTable(tx[o])
    BY <2>1 DEF Channels!Init, Channels!NoTx, LooksAtTable
  <2> QED BY <2>1, ChannelsStart DEF AloneInv
<1>2. AloneInv /\ [Channels!Next]_(Channels!channelVars) => AloneInv' /\ [Channels!KeepsIdentity]_(Channels!channelVars)
  BY AloneStep
<1> QED BY <1>1, <1>2, PTL DEF Channels!Spec

-----------------------------------------------------------------------------
(* The feedback on a package *)

CONSTANTS Reporters, Consoles, Anonymous, MaxReports, MaxChanges, MaxTurns
VARIABLES package, maintains, feedback, statusLines, form, told, sent, console, changes, calm, turns

Reports == INSTANCE Feedback WITH audit <- statusLines

Of(r) == {i \in DOMAIN feedback : feedback[i].author = r}
Pending(p) == IF p.state = "stored" THEN 1 ELSE 0

\* A report a form still waits for is stored, and so are those it was told of; what is sent is filled in.
FormsFit ==
  \A r \in Reporters :
    /\ told[r] + Pending(form[r]) <= Cardinality(Of(r))
    /\ form[r].state = "sent" => form[r].report.satisfaction # 0

LinesOf(id) == {k \in DOMAIN statusLines : statusLines[k].id = id}

\* A record has the status of its last line, and is open without one.
StatusesFit ==
  /\ \A k \in DOMAIN statusLines : statusLines[k].id \in DOMAIN feedback
  /\ \A id \in DOMAIN feedback :
       /\ LinesOf(id) = {} => feedback[id].status = "open"
       /\ \A k \in LinesOf(id) : (\A j \in LinesOf(id) : j <= k) => feedback[id].status = statusLines[k].status

\* A status the record had.
Had(id, status) == status = "open" \/ \E k \in DOMAIN statusLines : statusLines[k].id = id /\ statusLines[k].status = status

\* A console shows records there are, with a status they had.
ConsoleFits(p) ==
  /\ Len(p.local) <= Len(feedback)
  /\ \A id \in 1 .. Len(p.local) : Had(id, p.local[id].status)
  /\ p.state = "closed" => ~p.counted /\ ~p.listed

\* What a console shows while no record changes is what there is.
Current(p) ==
  /\ p.counted => p.summary = Reports!SummarizeFeedback(feedback)
  /\ p.listed => p.local = feedback

ChangeFits(q) ==
  /\ q.id \in DOMAIN feedback
  /\ q.state = "updated" => Had(q.id, q.status)
  /\ q.heard = TRUE => console[q.console].state # "closed"
  /\ q.heard = TRUE /\ q.state = "updated" => q.console \notin calm

FeedbackInv ==
  /\ Reports!TypeOK /\ FormsFit /\ StatusesFit
  /\ \A c \in Consoles : ConsoleFits(console[c]) /\ (c \in calm => Current(console[c]))
  /\ \A i \in DOMAIN changes : ChangeFits(changes[i])

LEMMA FeedbackTypes ==
  ASSUME FeedbackInv
  PROVE  /\ package \in [active : BOOLEAN, public : BOOLEAN] /\ maintains \subseteq Consoles
         /\ feedback \in Seq(Reports!Records) /\ statusLines \in Seq([id : Nat, status : Reports!Statuses, by : Consoles])
         /\ form \in [Reporters -> Reports!Forms] /\ told \in [Reporters -> Nat] /\ sent \in 0 .. MaxReports
         /\ console \in [Consoles -> Reports!Pages] /\ changes \in Seq(Reports!Changes) /\ calm \subseteq Consoles
         /\ turns \in 0 .. MaxTurns
         /\ \A c \in Consoles : console[c].state = "shown" => console[c].counted /\ console[c].listed
         /\ Len(feedback) \in Nat /\ DOMAIN feedback = 1 .. Len(feedback)
         /\ Len(statusLines) \in Nat /\ DOMAIN statusLines = 1 .. Len(statusLines)
         /\ Len(changes) \in Nat /\ DOMAIN changes = 1 .. Len(changes)
<1>1. /\ feedback \in Seq(Reports!Records) /\ statusLines \in Seq([id : Nat, status : Reports!Statuses, by : Consoles])
      /\ changes \in Seq(Reports!Changes)
  BY DEF FeedbackInv, Reports!TypeOK
<1> QED BY <1>1 DEF FeedbackInv, Reports!TypeOK

\* A part of a sequence's places can be counted.
LEMMA PlacesCounted ==
  ASSUME NEW n \in Nat, NEW S \in SUBSET (1 .. n)
  PROVE  IsFiniteSet(S) /\ Cardinality(S) \in Nat /\ Reports!Cardinality(S) = Cardinality(S)
<1>1. IsFiniteSet(1 .. n)
  BY FS_Interval
<1>2. IsFiniteSet(S)
  BY <1>1, FS_Subset
<1>3. \A T : Reports!Cardinality(T) = Cardinality(T)
  BY Zenon DEF Reports!Cardinality, Cardinality
<1> QED BY <1>2, <1>3, FS_CardinalityType

LEMMA HasLast ==
  ASSUME NEW n \in Nat, NEW S \in SUBSET (1 .. n), S # {}
  PROVE  \E k \in S : \A j \in S : j <= k
<1> DEFINE less == {pair \in Nat \X Nat : pair[1] < pair[2]}
           T == {n - k : k \in S}
<1>1. IsWellFoundedOn(less, Nat)
  BY NatLessThanWellFounded DEF OpToRel
<1>2. T \in SUBSET Nat /\ T # {}
  <2>1. \A k \in S : n - k \in Nat
    OBVIOUS
  <2> QED BY <2>1
<1>3. PICK m \in T : \A k \in T : ~(<<k, m>> \in less)
  <2> HIDE DEF less, T
  <2> QED BY <1>1, <1>2, WFMin
<1>4. \A k \in T : ~(k < m)
  BY <1>2, <1>3
<1>5. PICK k \in S : m = n - k
  OBVIOUS
<1>6. ASSUME NEW j \in S PROVE j <= k
  <2>1. n - j \in T /\ j \in Nat /\ k \in Nat
    OBVIOUS
  <2> HIDE DEF T
  <2>2. ~(n - j < n - k)
    BY <1>4, <1>5, <2>1
  <2> QED BY <2>1, <2>2
<1> QED BY <1>6

\* What a person types and sends.
LEMMA FormStep ==
  ASSUME FeedbackInv, Reports!FeedbackAssumption, NEW r \in Reporters,
         \/ Reports!SubmitInvalid(r) \/ Reports!HandleSubmit(r) \/ Reports!Again(r)
         \/ \E v \in Reports!Values : Reports!Type(r, v)
         \/ Reports!RefuseFeedback(r) \/ Reports!Received(r) \/ Reports!SubmitFails(r)
  PROVE  FeedbackInv'
<1>1. PICK p \in Reports!Forms : p = form[r]
  BY FeedbackTypes
<1>2. UNCHANGED <<package, maintains, feedback, statusLines, console, changes, calm, turns>>
  BY DEF Reports!SubmitInvalid, Reports!HandleSubmit, Reports!Again, Reports!Type, Reports!RefuseFeedback,
         Reports!Received, Reports!SubmitFails, Reports!FormOnly
<1>3. ASSUME NEW q \in Reports!Forms, Reports!Fill(r, q), sent' \in 0 .. MaxReports,
             \/ told' = told /\ Pending(q) <= Pending(p)
             \/ told' = [told EXCEPT ![r] = @ + 1] /\ q.state # "stored" /\ p.state = "stored",
             q.state # "sent" \/ q.report.satisfaction # 0
      PROVE  FeedbackInv'
  <2>1. /\ form' \in [Reporters -> Reports!Forms] /\ told' \in [Reporters -> Nat]
        /\ \A u \in Reporters : u # r => form'[u] = form[u] /\ told'[u] = told[u]
        /\ form'[r] = q
    BY <1>3, FeedbackTypes DEF Reports!Fill
  <2>2. told'[r] + Pending(q) <= told[r] + Pending(p)
    BY <1>3, FeedbackTypes DEF Pending
  <2>3. PICK n \in Nat : n = Cardinality(Of(r))
    BY PlacesCounted, FeedbackTypes DEF Of
  <2>4. told[r] + Pending(p) <= n /\ told'[r] \in Nat /\ told[r] \in Nat
    BY <1>1, <2>1, <2>3, FeedbackTypes DEF FeedbackInv, FormsFit
  <2>5. told'[r] + Pending(q) <= n
    BY <2>2, <2>4 DEF Pending
  <2>6. FormsFit'
    <3>1. ASSUME NEW u \in Reporters
          PROVE  /\ told'[u] + Pending(form'[u]) <= Cardinality(Of(u))
                 /\ form'[u].state = "sent" => form'[u].report.satisfaction # 0
      <4>1. CASE u = r
        <5>1. form'[u] = q /\ told'[u] + Pending(form'[u]) <= Cardinality(Of(u))
          BY <2>1, <2>3, <2>5, <4>1
        <5> QED BY <1>3, <5>1
      <4>2. CASE u # r
        BY <2>1, <4>2 DEF FeedbackInv, FormsFit
      <4> QED BY <4>1, <4>2
    <3>2. \A u : Of(u)' = Of(u)
      BY <1>2 DEF Of
    <3> QED BY <3>1, <3>2 DEF FormsFit, Pending
  <2>7. Reports!TypeOK'
    BY <1>2, <1>3, <2>1, FeedbackTypes DEF Reports!TypeOK
  <2>8. StatusesFit' /\ (\A c \in Consoles : ConsoleFits(console[c]) /\ (c \in calm => Current(console[c])))'
        /\ (\A i \in DOMAIN changes : ChangeFits(changes[i]))'
    BY <1>2 DEF FeedbackInv, StatusesFit, LinesOf, ConsoleFits, Current, ChangeFits, Had
  <2> QED BY <2>6, <2>7, <2>8 DEF FeedbackInv
<1>4. CASE Reports!SubmitInvalid(r)
  <2> DEFINE q == [p EXCEPT !.error = TRUE]
  <2>1. q \in Reports!Forms /\ q.state = p.state /\ p.state = "editing"
    BY <1>1, <1>4 DEF Reports!Forms, Reports!SubmitInvalid
  <2>2. Reports!Fill(r, q) /\ UNCHANGED <<told, sent>>
    BY <1>1, <1>4 DEF Reports!SubmitInvalid
  <2> HIDE DEF q
  <2>3. Pending(q) <= Pending(p)
    BY <2>1 DEF Pending
  <2> QED BY <1>3, <2>1, <2>2, <2>3, FeedbackTypes
<1>5. CASE Reports!HandleSubmit(r)
  <2> DEFINE q == [p EXCEPT !.state = "sent", !.error = FALSE, !.report = p.value]
  <2>1. q \in Reports!Forms /\ q.state = "sent" /\ q.report = p.value
    BY DEF Reports!Forms
  <2>2. Reports!Fill(r, q) /\ told' = told /\ sent' \in 0 .. MaxReports
    BY <1>1, <1>5, FeedbackTypes DEF Reports!HandleSubmit, Reports!FeedbackAssumption
  <2>3. p.value.satisfaction # 0
    BY <1>1, <1>5 DEF Reports!HandleSubmit, Reports!ValidateFeedback
  <2> HIDE DEF q
  <2> QED BY <1>3, <2>1, <2>2, <2>3 DEF Pending
<1>6. CASE Reports!Again(r)
  <2> DEFINE q == [p EXCEPT !.state = "editing"]
  <2>1. q \in Reports!Forms /\ q.state = "editing" /\ q.state # "sent"
    BY DEF Reports!Forms
  <2>2. Reports!Fill(r, q) /\ UNCHANGED <<told, sent>>
    BY <1>1, <1>6 DEF Reports!Again
  <2> HIDE DEF q
  <2>3. Pending(q) <= Pending(p)
    BY <2>1 DEF Pending
  <2> QED BY <1>3, <2>1, <2>2, <2>3, FeedbackTypes
<1>7. ASSUME NEW v \in Reports!Values, Reports!Type(r, v) PROVE FeedbackInv'
  <2> DEFINE q == [p EXCEPT !.value = v]
  <2>1. q \in Reports!Forms /\ q.state = p.state /\ q.report = p.report
    BY DEF Reports!Forms
  <2>2. Reports!Fill(r, q) /\ UNCHANGED <<told, sent>>
    BY <1>1, <1>7 DEF Reports!Type
  <2>3. p.state = "sent" => p.report.satisfaction # 0
    BY <1>1 DEF FeedbackInv, FormsFit
  <2> HIDE DEF q
  <2> QED BY <1>3, <2>1, <2>2, <2>3, FeedbackTypes DEF Pending
<1>8. CASE Reports!RefuseFeedback(r)
  <2> DEFINE q == [p EXCEPT !.state = "refused"]
  <2>1. q \in Reports!Forms /\ q.state = "refused" /\ q.state # "sent"
    BY DEF Reports!Forms
  <2>2. Reports!Fill(r, q) /\ UNCHANGED <<told, sent>>
    BY <1>1, <1>8 DEF Reports!RefuseFeedback
  <2> HIDE DEF q
  <2>3. Pending(q) <= Pending(p)
    BY <2>1 DEF Pending
  <2> QED BY <1>3, <2>1, <2>2, <2>3, FeedbackTypes
<1>9. CASE Reports!Received(r)
  <2> DEFINE q == [p EXCEPT !.state = "done", !.value = Reports!EmptyValue]
  <2>1. q \in Reports!Forms /\ q.state = "done" /\ q.state # "sent"
    <3>1. Reports!EmptyValue \in Reports!Values
      <4>1. 0 \in 0 .. 5
        OBVIOUS
      <4> QED BY <4>1, Zenon DEF Reports!Values, Reports!EmptyValue
    <3> QED BY <3>1 DEF Reports!Forms
  <2>2. /\ Reports!Fill(r, q) /\ UNCHANGED sent /\ p.state = "stored"
        /\ told' = [told EXCEPT ![r] = @ + 1]
    BY <1>1, <1>9 DEF Reports!Received
  <2> HIDE DEF q
  <2> QED BY <1>3, <2>1, <2>2, FeedbackTypes
<1>10. CASE Reports!SubmitFails(r)
  <2> DEFINE q == [p EXCEPT !.state = "editing", !.error = TRUE]
  <2>1. q \in Reports!Forms /\ q.state = "editing" /\ q.state # "sent"
    BY DEF Reports!Forms
  <2>2. Reports!Fill(r, q) /\ UNCHANGED <<told, sent>>
    BY <1>1, <1>10 DEF Reports!SubmitFails
  <2> HIDE DEF q
  <2>3. Pending(q) <= Pending(p)
    BY <2>1 DEF Pending
  <2> QED BY <1>3, <2>1, <2>2, <2>3, FeedbackTypes
<1> QED BY <1>4, <1>5, <1>6, <1>7, <1>8, <1>9, <1>10

\* A report is stored: the record has no line yet, and no console is current.
LEMMA StoreStep ==
  ASSUME FeedbackInv, NEW r \in Reporters, Reports!SubmitFeedback(r)
  PROVE  FeedbackInv'
<1>1. PICK p \in Reports!Forms : p = form[r] /\ p.state = "sent"
  BY FeedbackTypes DEF Reports!SubmitFeedback
<1> DEFINE x == [author |-> r, satisfaction |-> p.report.satisfaction, needs |-> p.report.needs, status |-> "open"]
           q == [p EXCEPT !.state = "stored"]
<1>2. q \in Reports!Forms /\ q.state = "stored"
  BY DEF Reports!Forms
<1>3. /\ feedback' = Append(feedback, x) /\ form' = [form EXCEPT ![r] = q] /\ calm' = {}
      /\ UNCHANGED <<package, maintains, statusLines, told, sent, console, changes, turns>>
  BY <1>1 DEF Reports!SubmitFeedback, Reports!Fill
<1>4. x \in Reports!Records /\ x.author = r /\ x.status = "open"
  <2>1. PICK v \in Reports!Values : v = p.report
    BY DEF Reports!Forms
  <2>2. v.satisfaction \in 0 .. 5 /\ v.needs \in BOOLEAN
    BY DEF Reports!Values
  <2>3. v.satisfaction \in 1 .. 5
    BY <1>1, <2>1, <2>2 DEF FeedbackInv, FormsFit
  <2> QED BY <2>1, <2>2, <2>3 DEF Reports!Records, Reports!Statuses
<1> HIDE DEF x, q
<1>5. PICK n \in Nat : n = Len(feedback)
  BY FeedbackTypes
<1>6. /\ feedback' \in Seq(Reports!Records) /\ Len(feedback') = n + 1 /\ DOMAIN feedback' = 1 .. (n + 1)
      /\ feedback'[n + 1] = x /\ \A i \in 1 .. n : feedback'[i] = feedback[i]
      /\ DOMAIN feedback = 1 .. n
  BY <1>3, <1>4, <1>5, FeedbackTypes
<1>7. /\ form' \in [Reporters -> Reports!Forms] /\ form'[r] = q
      /\ \A u \in Reporters : u # r => form'[u] = form[u]
  BY <1>2, <1>3, FeedbackTypes
<1>8. Reports!TypeOK'
  BY <1>3, <1>6, <1>7, FeedbackTypes DEF Reports!TypeOK
<1>9. FormsFit'
  <2>1. ASSUME NEW u \in Reporters
        PROVE  /\ told[u] + Pending(form'[u]) <= Cardinality(Of(u)')
               /\ form'[u].state = "sent" => form'[u].report.satisfaction # 0
    <3>1. /\ told[u] + Pending(form[u]) <= Cardinality(Of(u)) /\ told[u] \in Nat
          /\ form[u].state = "sent" => form[u].report.satisfaction # 0
      BY FeedbackTypes DEF FeedbackInv, FormsFit
    <3>2. Of(u) \in SUBSET (1 .. n) /\ IsFiniteSet(Of(u)) /\ Cardinality(Of(u)) \in Nat
      BY <1>6, PlacesCounted DEF Of
    <3>3. CASE u = r
      <4>1. Of(u)' = Of(u) \cup {n + 1} /\ n + 1 \notin Of(u)
        BY <1>4, <1>6, <3>3 DEF Of
      <4>2. Cardinality(Of(u)') = Cardinality(Of(u)) + 1
        BY <3>2, <4>1, FS_AddElement
      <4>3. Pending(form[u]) = 0 /\ Pending(form'[u]) = 1 /\ form'[u].state # "sent"
        BY <1>1, <1>2, <1>7, <3>3 DEF Pending
      <4> QED BY <3>1, <3>2, <4>2, <4>3
    <3>4. CASE u # r
      <4>1. Of(u)' = Of(u)
        BY <1>4, <1>6, <3>4 DEF Of
      <4> QED BY <1>7, <3>1, <3>4, <4>1
    <3> QED BY <3>3, <3>4
  <2> QED BY <1>3, <2>1 DEF FormsFit, Pending
<1>10. StatusesFit'
  <2>1. \A k \in DOMAIN statusLines : statusLines[k].id \in DOMAIN feedback'
    BY <1>6 DEF FeedbackInv, StatusesFit
  <2>2. LinesOf(n + 1) = {}
    BY <1>6 DEF FeedbackInv, StatusesFit, LinesOf
  <2>3. ASSUME NEW id \in DOMAIN feedback'
        PROVE  /\ LinesOf(id) = {} => feedback'[id].status = "open"
               /\ \A k \in LinesOf(id) : (\A j \in LinesOf(id) : j <= k) => feedback'[id].status = statusLines[k].status
    <3>1. CASE id = n + 1
      BY <1>4, <1>6, <2>2, <3>1
    <3>2. CASE id # n + 1
      <4>1. id \in DOMAIN feedback /\ feedback'[id] = feedback[id]
        BY <1>6, <2>3, <3>2
      <4> QED BY <4>1 DEF FeedbackInv, StatusesFit
    <3> QED BY <3>1, <3>2
  <2>4. \A id : LinesOf(id)' = LinesOf(id)
    BY <1>3 DEF LinesOf
  <2> QED BY <1>3, <2>1, <2>3, <2>4 DEF StatusesFit
<1>11. (\A c \in Consoles : ConsoleFits(console[c]) /\ (c \in calm => Current(console[c])))'
  <2>1. \A id, status : Had(id, status)' <=> Had(id, status)
    BY <1>3 DEF Had
  <2>2. ASSUME NEW c \in Consoles PROVE ConsoleFits(console[c])'
    <3>1. PICK m \in Nat : m = Len(console[c].local)
      BY FeedbackTypes DEF Reports!Pages
    <3> QED BY <1>3, <1>5, <1>6, <2>1, <3>1 DEF FeedbackInv, ConsoleFits
  <2> QED BY <1>3, <2>2
<1>12. (\A i \in DOMAIN changes : ChangeFits(changes[i]))'
  BY <1>3, <1>6 DEF FeedbackInv, ChangeFits, Had
<1> QED BY <1>8, <1>9, <1>10, <1>11, <1>12 DEF FeedbackInv

\* A role is taken away, or the package is hidden: no page knows.
LEMMA TurnStep ==
  ASSUME FeedbackInv, Reports!FeedbackAssumption, Reports!Turn
  PROVE  FeedbackInv'
<1>1. UNCHANGED <<feedback, statusLines, form, told, sent, console, changes, calm>> /\ turns' \in 0 .. MaxTurns
  BY FeedbackTypes DEF Reports!Turn, Reports!FeedbackAssumption
<1>2. package' \in [active : BOOLEAN, public : BOOLEAN] /\ maintains' \subseteq Consoles
  BY FeedbackTypes DEF Reports!Turn
<1>3. Reports!TypeOK'
  BY <1>1, <1>2, FeedbackTypes DEF Reports!TypeOK
<1>4. FormsFit' /\ StatusesFit' /\ (\A c \in Consoles : ConsoleFits(console[c]) /\ (c \in calm => Current(console[c])))'
      /\ (\A i \in DOMAIN changes : ChangeFits(changes[i]))'
  BY <1>1 DEF FeedbackInv, FormsFit, Of, StatusesFit, LinesOf, ConsoleFits, Current, ChangeFits, Had
<1> QED BY <1>3, <1>4 DEF FeedbackInv

\* One console changes, and what it asked for; no record does.
LEMMA ConsoleKeeps ==
  ASSUME FeedbackInv, NEW c \in Consoles, NEW p \in Reports!Pages, Reports!View(c, p), Reports!ConsoleOnly,
         changes' \in Seq(Reports!Changes), calm' \subseteq calm \cup {c},
         p.state = "shown" => p.counted /\ p.listed, ConsoleFits(p), c \in calm' => Current(p),
         \A i \in DOMAIN changes' : ChangeFits(changes[i])'
  PROVE  FeedbackInv'
<1>1. /\ console' \in [Consoles -> Reports!Pages] /\ console'[c] = p
      /\ \A d \in Consoles : d # c => console'[d] = console[d]
  BY FeedbackTypes DEF Reports!View
<1>2. UNCHANGED <<package, maintains, feedback, statusLines, form, told, sent, turns>>
  BY DEF Reports!ConsoleOnly
<1>3. \A d \in Consoles : console'[d].state = "shown" => console'[d].counted /\ console'[d].listed
  BY <1>1, FeedbackTypes
<1>4. Reports!TypeOK'
  BY <1>1, <1>2, <1>3, FeedbackTypes DEF Reports!TypeOK
<1>5. FormsFit' /\ StatusesFit'
  BY <1>2 DEF FeedbackInv, FormsFit, Of, StatusesFit, LinesOf
<1>6. \A d \in Consoles : ConsoleFits(console'[d]) /\ (d \in calm' => Current(console'[d]))
  BY <1>1 DEF FeedbackInv
<1>7. (\A d \in Consoles : ConsoleFits(console[d]) /\ (d \in calm => Current(console[d])))'
  BY <1>2, <1>6 DEF ConsoleFits, Current, Had
<1> QED BY <1>4, <1>5, <1>7 DEF FeedbackInv

LEMMA SummaryTyped ==
  ASSUME FeedbackInv
  PROVE  Reports!SummarizeFeedback(feedback) \in Reports!Summaries
<1>1. PICK n \in Nat : n = Len(feedback) /\ DOMAIN feedback = 1 .. n
  BY FeedbackTypes
<1>2. {i \in DOMAIN feedback : Reports!Wanted(feedback[i])} \in SUBSET (1 .. n)
  BY <1>1
<1>3. {i \in DOMAIN feedback : Reports!Pending(feedback[i])} \in SUBSET (1 .. n)
  BY <1>1
<1>4. Reports!Cardinality({i \in DOMAIN feedback : Reports!Wanted(feedback[i])}) \in Nat
  BY <1>2, PlacesCounted
<1>5. Reports!Cardinality({i \in DOMAIN feedback : Reports!Pending(feedback[i])}) \in Nat
  BY <1>3, PlacesCounted
<1> QED BY <1>1, <1>4, <1>5 DEF Reports!SummarizeFeedback, Reports!Counted, Reports!Summaries

\* A maintainer opens the page, is answered, looks at the records and asks for a change.
LEMMA ConsoleStep ==
  ASSUME FeedbackInv, NEW c \in Consoles,
         \/ Reports!Locate(c) \/ Reports!GetFeedbackSummary(c) \/ Reports!ListFeedback(c) \/ Reports!Leave(c)
         \/ \E needs \in {"any", "yes", "no"}, status \in Reports!Statuses \cup {"any"} :
              Reports!SetFilter(c, [needs |-> needs, status |-> status])
         \/ \E id \in 1 .. MaxReports, status \in Reports!Statuses : Reports!ChangeStatus(c, id, status)
  PROVE  FeedbackInv'
<1>1. PICK p \in Reports!Pages : p = console[c] /\ ConsoleFits(p) /\ (c \in calm => Current(p))
  BY FeedbackTypes DEF FeedbackInv
<1>2. p.state = "shown" => p.counted /\ p.listed
  BY <1>1, FeedbackTypes
<1>3. ASSUME NEW q \in Reports!Pages, Reports!View(c, q), q.state # "closed", Reports!ConsoleOnly,
             UNCHANGED <<changes, calm>>, q.state = "shown" => q.counted /\ q.listed, ConsoleFits(q),
             c \in calm => Current(q)
      PROVE  FeedbackInv'
  <2>1. \A d \in Consoles : console'[d].state = "closed" => console[d].state = "closed"
    BY <1>3, FeedbackTypes DEF Reports!View
  <2>2. ASSUME NEW i \in DOMAIN changes PROVE changes[i].console \in Consoles
    <3>1. changes[i] \in Reports!Changes
      BY FeedbackTypes
    <3> QED BY <3>1 DEF Reports!Changes
  <2>3. UNCHANGED <<feedback, statusLines>>
    BY <1>3 DEF Reports!ConsoleOnly
  <2>4. \A i \in DOMAIN changes' : ChangeFits(changes[i])'
    BY <1>3, <2>1, <2>2, <2>3 DEF FeedbackInv, ChangeFits, Had
  <2> QED BY <1>3, <2>4, ConsoleKeeps, FeedbackTypes
<1>4. Reports!ClosedPage \in Reports!Pages
  BY DEF Reports!ClosedPage, Reports!Pages, Reports!NoSummary, Reports!Summaries, Reports!AllFilter
<1>5. CASE Reports!Locate(c)
  <2> DEFINE q == [Reports!ClosedPage EXCEPT !.state = "loading"]
  <2>1. /\ q \in Reports!Pages /\ q.state = "loading" /\ q.counted = FALSE /\ q.listed = FALSE /\ q.local = <<>>
    BY <1>4 DEF Reports!Pages, Reports!ClosedPage
  <2>2. /\ Reports!View(c, q) /\ p.state = "closed" /\ calm' = calm \cup {c} /\ UNCHANGED changes /\ Reports!ConsoleOnly
    BY <1>1, <1>5 DEF Reports!Locate
  <2> HIDE DEF q
  <2>3. ConsoleFits(q) /\ Current(q)
    BY <2>1, FeedbackTypes DEF ConsoleFits, Current
  <2>4. ASSUME NEW i \in DOMAIN changes' PROVE ChangeFits(changes[i])'
    <3>1. i \in DOMAIN changes /\ changes'[i] = changes[i] /\ ChangeFits(changes[i]) /\ changes[i].console \in Consoles
      <4>1. i \in DOMAIN changes /\ changes'[i] = changes[i] /\ changes[i] \in Reports!Changes
        BY <2>2, <2>4, FeedbackTypes
      <4> QED BY <4>1 DEF FeedbackInv, Reports!Changes
    <3>2. changes[i].heard = TRUE => changes[i].console # c
      BY <1>1, <2>2, <3>1 DEF ChangeFits
    <3>3. \A d \in Consoles : d # c => console'[d] = console[d]
      BY <2>2, FeedbackTypes DEF Reports!View
    <3>4. UNCHANGED <<feedback, statusLines>>
      BY <2>2 DEF Reports!ConsoleOnly
    <3> QED BY <2>2, <3>1, <3>2, <3>3, <3>4 DEF ChangeFits, Had
  <2> QED BY <2>1, <2>2, <2>3, <2>4, ConsoleKeeps, FeedbackTypes
<1>6. CASE Reports!GetFeedbackSummary(c)
  <2>1. PICK summary \in Reports!Summaries : summary = Reports!SummarizeFeedback(feedback)
    BY SummaryTyped
  <2> DEFINE q == [p EXCEPT !.counted = TRUE, !.summary = summary]
             r == [q EXCEPT !.state = IF q.counted /\ q.listed THEN "shown" ELSE "loading"]
  <2>2. /\ q \in Reports!Pages /\ q.local = p.local /\ q.listed = p.listed /\ q.counted = TRUE /\ q.summary = summary
    BY DEF Reports!Pages
  <2>3. Reports!View(c, r) /\ Reports!ConsoleOnly /\ UNCHANGED <<changes, calm>>
    BY <1>1, <1>6, <2>1 DEF Reports!GetFeedbackSummary, Reports!Show
  <2> HIDE DEF q
  <2>4. /\ r \in Reports!Pages /\ r.local = p.local /\ r.listed = p.listed /\ r.counted = TRUE /\ r.summary = summary
        /\ r.state = IF q.counted /\ q.listed THEN "shown" ELSE "loading"
    BY <2>2 DEF Reports!Pages
  <2> HIDE DEF r
  <2>5. ConsoleFits(r) /\ (c \in calm => Current(r))
    BY <1>1, <2>1, <2>4 DEF ConsoleFits, Current
  <2> QED BY <1>3, <2>2, <2>3, <2>4, <2>5
<1>7. CASE Reports!ListFeedback(c)
  <2>1. PICK records \in Seq(Reports!Records) : records = feedback
    BY FeedbackTypes
  <2> DEFINE q == [p EXCEPT !.listed = TRUE, !.local = records]
             r == [q EXCEPT !.state = IF q.counted /\ q.listed THEN "shown" ELSE "loading"]
  <2>2. /\ q \in Reports!Pages /\ q.local = records /\ q.listed = TRUE /\ q.counted = p.counted /\ q.summary = p.summary
    BY DEF Reports!Pages
  <2>3. Reports!View(c, r) /\ Reports!ConsoleOnly /\ UNCHANGED <<changes, calm>>
    BY <1>1, <1>7, <2>1 DEF Reports!ListFeedback, Reports!Show
  <2> HIDE DEF q
  <2>4. /\ r \in Reports!Pages /\ r.local = records /\ r.listed = TRUE /\ r.counted = p.counted /\ r.summary = p.summary
        /\ r.state = IF q.counted /\ q.listed THEN "shown" ELSE "loading"
    BY <2>2 DEF Reports!Pages
  <2> HIDE DEF r
  <2>5. \A id \in DOMAIN feedback : Had(id, feedback[id].status)
    <3>1. ASSUME NEW id \in DOMAIN feedback PROVE Had(id, feedback[id].status)
      <4>1. CASE LinesOf(id) = {}
        BY <4>1 DEF FeedbackInv, StatusesFit, Had
      <4>2. CASE LinesOf(id) # {}
        <5>1. PICK k \in LinesOf(id) : \A j \in LinesOf(id) : j <= k
          BY <4>2, HasLast, FeedbackTypes DEF LinesOf
        <5> QED BY <5>1 DEF FeedbackInv, StatusesFit, LinesOf, Had
      <4> QED BY <4>1, <4>2
    <3> QED BY <3>1
  <2>6. ConsoleFits(r) /\ (c \in calm => Current(r))
    BY <1>1, <2>1, <2>4, <2>5, FeedbackTypes DEF ConsoleFits, Current
  <2> QED BY <1>3, <2>2, <2>3, <2>4, <2>6
<1>8. CASE Reports!Leave(c)
  <2> DEFINE q == Reports!ClosedPage
  <2>1. q \in Reports!Pages /\ q.state = "closed" /\ q.counted = FALSE /\ q.listed = FALSE /\ q.local = <<>>
    BY <1>4 DEF Reports!ClosedPage
  <2> HIDE DEF q
  <2>2. ConsoleFits(q) /\ Current(q)
    BY <2>1, FeedbackTypes DEF ConsoleFits, Current
  <2>3. /\ Reports!View(c, q) /\ UNCHANGED calm /\ Reports!ConsoleOnly
        /\ changes' = [i \in DOMAIN changes |-> [changes[i] EXCEPT !.heard = @ /\ changes[i].console # c]]
    BY <1>8 DEF Reports!Leave, q
  <2>4. UNCHANGED <<feedback, statusLines>> /\ \A d \in Consoles : d # c => console'[d] = console[d]
    BY <2>3, FeedbackTypes DEF Reports!ConsoleOnly, Reports!View
  <2>5. ASSUME NEW i \in 1 .. Len(changes)
        PROVE  changes'[i] \in Reports!Changes /\ ChangeFits(changes[i])'
    <3>1. PICK x \in Reports!Changes : x = changes[i] /\ ChangeFits(x)
      BY FeedbackTypes DEF FeedbackInv
    <3> DEFINE y == [x EXCEPT !.heard = x.heard /\ x.console # c]
    <3>2. changes'[i] = y
      BY <2>3, <3>1, FeedbackTypes
    <3>3. /\ y \in Reports!Changes /\ y.id = x.id /\ y.state = x.state /\ y.status = x.status /\ y.console = x.console
          /\ y.heard = TRUE => x.heard = TRUE /\ x.console # c
      BY DEF Reports!Changes
    <3>4. x.console \in Consoles
      BY DEF Reports!Changes
    <3> HIDE DEF y
    <3>5. Had(x.id, x.status)' <=> Had(x.id, x.status)
      BY <2>4 DEF Had
    <3>6. ChangeFits(changes[i])'
      <4>1. y.id \in DOMAIN feedback'
        BY <2>4, <3>1, <3>3 DEF ChangeFits
      <4>2. y.state = "updated" => Had(y.id, y.status)'
        BY <3>1, <3>3, <3>5 DEF ChangeFits
      <4>3. y.heard = TRUE => console'[y.console].state # "closed"
        BY <2>4, <3>1, <3>3, <3>4 DEF ChangeFits
      <4>4. y.heard = TRUE /\ y.state = "updated" => y.console \notin calm'
        BY <2>3, <3>1, <3>3 DEF ChangeFits
      <4> QED BY <3>2, <4>1, <4>2, <4>3, <4>4 DEF ChangeFits
    <3> QED BY <3>2, <3>3, <3>6
  <2>6. changes' \in Seq(Reports!Changes) /\ DOMAIN changes' = 1 .. Len(changes)
    <3>1. PICK k \in Nat : k = Len(changes)
      BY FeedbackTypes
    <3>2. changes' \in [1 .. k -> Reports!Changes]
      BY <2>3, <2>5, <3>1, FeedbackTypes
    <3> QED BY <3>1, <3>2, IsASeq
  <2> QED BY <2>1, <2>2, <2>3, <2>5, <2>6, ConsoleKeeps
<1>9. ASSUME NEW needs \in {"any", "yes", "no"}, NEW status \in Reports!Statuses \cup {"any"},
             Reports!SetFilter(c, [needs |-> needs, status |-> status])
      PROVE  FeedbackInv'
  <2> DEFINE q == [p EXCEPT !.filter = [needs |-> needs, status |-> status]]
  <2>1. /\ q \in Reports!Pages /\ q.state = p.state /\ q.local = p.local /\ q.counted = p.counted
        /\ q.listed = p.listed /\ q.summary = p.summary
    BY DEF Reports!Pages
  <2>2. Reports!View(c, q) /\ p.state = "shown" /\ Reports!ConsoleOnly /\ UNCHANGED <<changes, calm>>
    BY <1>1, <1>9 DEF Reports!SetFilter
  <2> HIDE DEF q
  <2> QED BY <1>1, <1>2, <1>3, <2>1, <2>2 DEF ConsoleFits, Current
<1>10. ASSUME NEW id \in 1 .. MaxReports, NEW status \in Reports!Statuses, Reports!ChangeStatus(c, id, status)
       PROVE  FeedbackInv'
  <2> DEFINE q == [p EXCEPT !.busy = id, !.error = FALSE]
             x == [console |-> c, id |-> id, status |-> status, state |-> "sent", heard |-> TRUE]
  <2>1. id \in DOMAIN p.local /\ id \in DOMAIN feedback /\ id \in Nat
    <3>1. p.local \in Seq(Reports!Records)
      BY DEF Reports!Pages
    <3>2. id \in DOMAIN p.local
      BY <1>1, <1>10 DEF Reports!ChangeStatus
    <3> QED BY <1>1, <3>1, <3>2, FeedbackTypes DEF ConsoleFits
  <2>2. /\ q \in Reports!Pages /\ q.state = p.state /\ q.local = p.local /\ q.counted = p.counted
        /\ q.listed = p.listed /\ q.summary = p.summary
    BY <2>1 DEF Reports!Pages
  <2>3. x \in Reports!Changes /\ x.id = id /\ x.state = "sent" /\ x.console = c
    BY <2>1 DEF Reports!Changes
  <2>4. /\ Reports!View(c, q) /\ p.state = "shown" /\ Reports!ConsoleOnly /\ UNCHANGED calm
        /\ changes' = Append(changes, x)
    BY <1>1, <1>10 DEF Reports!ChangeStatus
  <2> HIDE DEF q, x
  <2>5. ConsoleFits(q) /\ (c \in calm' => Current(q))
    BY <1>1, <2>2, <2>4 DEF ConsoleFits, Current
  <2>6. PICK n \in Nat : n = Len(changes) /\ DOMAIN changes = 1 .. n
    BY FeedbackTypes
  <2>7. /\ changes' \in Seq(Reports!Changes) /\ DOMAIN changes' = 1 .. (n + 1) /\ changes'[n + 1] = x
        /\ \A i \in 1 .. n : changes'[i] = changes[i]
    BY <2>3, <2>4, <2>6, FeedbackTypes
  <2>8. /\ \A d \in Consoles : console'[d].state = "closed" => console[d].state = "closed"
        /\ console'[c].state # "closed" /\ UNCHANGED <<feedback, statusLines>>
    BY <1>1, <2>2, <2>4, FeedbackTypes DEF Reports!View, Reports!ConsoleOnly
  <2>9. ASSUME NEW i \in DOMAIN changes' PROVE ChangeFits(changes[i])'
    <3>1. CASE i = n + 1
      BY <2>1, <2>3, <2>7, <2>8, <3>1 DEF ChangeFits
    <3>2. CASE i # n + 1
      <4>1. PICK y \in Reports!Changes : y = changes[i] /\ ChangeFits(y) /\ changes'[i] = y
        BY <2>6, <2>7, <2>9, <3>2, FeedbackTypes DEF FeedbackInv
      <4>2. y.console \in Consoles
        BY DEF Reports!Changes
      <4> QED BY <2>4, <2>8, <4>1, <4>2 DEF ChangeFits, Had
    <3> QED BY <3>1, <3>2
  <2> QED BY <1>2, <2>2, <2>4, <2>5, <2>7, <2>9, ConsoleKeeps
<1> QED BY <1>5, <1>6, <1>7, <1>8, <1>9, <1>10

\* What happens to a change of a status touches no form.
LEMMA UpdateStep ==
  ASSUME FeedbackInv, NEW i \in DOMAIN changes, Reports!UpdateFeedbackStatus(i)
  PROVE  FeedbackInv'
<1>1. PICK q \in Reports!Changes : q = changes[i] /\ ChangeFits(q)
  BY FeedbackTypes DEF FeedbackInv
<1>2. PICK id \in DOMAIN feedback : id = q.id
  BY <1>1 DEF ChangeFits
<1>3. PICK x \in Reports!Records : x = feedback[id]
  BY FeedbackTypes
<1> DEFINE y == [x EXCEPT !.status = q.status]
           r == [q EXCEPT !.state = "updated"]
           line == [id |-> id, status |-> q.status, by |-> q.console]
<1>4. /\ y \in Reports!Records /\ y.author = x.author /\ y.status = q.status
      /\ line \in [id : Nat, status : Reports!Statuses, by : Consoles] /\ line.id = id /\ line.status = q.status
  <2>1. q.status \in Reports!Statuses /\ q.console \in Consoles /\ id \in Nat
    BY <1>2 DEF Reports!Changes
  <2> QED BY <2>1 DEF Reports!Records
<1>5. r \in Reports!Changes /\ r.id = id /\ r.status = q.status /\ r.heard = q.heard /\ r.console = q.console
  BY <1>2 DEF Reports!Changes
<1>6. /\ feedback' = [feedback EXCEPT ![id] = y] /\ statusLines' = Append(statusLines, line)
      /\ changes' = [changes EXCEPT ![i] = r] /\ calm' = {}
      /\ UNCHANGED <<package, maintains, form, told, sent, console, turns>>
  BY <1>1, <1>2, <1>3 DEF Reports!UpdateFeedbackStatus, Reports!Became
<1> HIDE DEF y, r, line
<1>7. /\ feedback' \in Seq(Reports!Records) /\ DOMAIN feedback' = DOMAIN feedback /\ Len(feedback') = Len(feedback)
      /\ feedback'[id] = y /\ \A k \in DOMAIN feedback : k # id => feedback'[k] = feedback[k]
  BY <1>4, <1>6, FeedbackTypes
<1>8. PICK n \in Nat : n = Len(statusLines) /\ DOMAIN statusLines = 1 .. n
  BY FeedbackTypes
<1>9. /\ statusLines' \in Seq([id : Nat, status : Reports!Statuses, by : Consoles])
      /\ DOMAIN statusLines' = 1 .. (n + 1) /\ statusLines'[n + 1] = line
      /\ \A k \in 1 .. n : statusLines'[k] = statusLines[k]
  BY <1>4, <1>6, <1>8, FeedbackTypes
<1>10. /\ changes' \in Seq(Reports!Changes) /\ DOMAIN changes' = DOMAIN changes /\ changes'[i] = r
       /\ \A j \in DOMAIN changes : j # i => changes'[j] = changes[j]
  BY <1>5, <1>6, FeedbackTypes
<1>11. Reports!TypeOK'
  <2>1. \A c \in Consoles : console'[c].state = "shown" => console'[c].counted /\ console'[c].listed
    BY <1>6, FeedbackTypes
  <2> QED BY <1>6, <1>7, <1>9, <1>10, <2>1, FeedbackTypes DEF Reports!TypeOK
<1>12. FormsFit'
  <2>1. \A k \in DOMAIN feedback : feedback'[k].author = feedback[k].author
    BY <1>3, <1>4, <1>7
  <2>2. \A u : Of(u)' = Of(u)
    BY <1>7, <2>1 DEF Of
  <2> QED BY <1>6, <2>2 DEF FeedbackInv, FormsFit
<1>13. StatusesFit'
  <2>1. ASSUME NEW k \in DOMAIN statusLines' PROVE statusLines'[k].id \in DOMAIN feedback'
    <3>1. CASE k = n + 1
      BY <1>4, <1>7, <1>9, <3>1
    <3>2. CASE k # n + 1
      BY <1>7, <1>8, <1>9, <2>1, <3>2 DEF FeedbackInv, StatusesFit
    <3> QED BY <3>1, <3>2
  <2>2. ASSUME NEW j \in DOMAIN feedback'
        PROVE  /\ LinesOf(j)' = {} => feedback'[j].status = "open"
               /\ \A k \in LinesOf(j)' : (\A m \in LinesOf(j)' : m <= k) => feedback'[j].status = statusLines'[k].status
    <3>1. CASE j = id
      <4>1. n + 1 \in LinesOf(j)' /\ \A m \in LinesOf(j)' : m <= n + 1
        BY <1>4, <1>9, <3>1 DEF LinesOf
      <4>2. ASSUME NEW k \in LinesOf(j)', \A m \in LinesOf(j)' : m <= k PROVE k = n + 1
        BY <1>9, <4>1, <4>2 DEF LinesOf
      <4> QED BY <1>4, <1>7, <1>9, <3>1, <4>1, <4>2
    <3>2. CASE j # id
      <4>1. LinesOf(j)' = LinesOf(j)
        BY <1>4, <1>8, <1>9, <3>2 DEF LinesOf
      <4>2. \A k \in LinesOf(j) : statusLines'[k] = statusLines[k]
        BY <1>8, <1>9 DEF LinesOf
      <4> QED BY <1>7, <2>2, <3>2, <4>1, <4>2 DEF FeedbackInv, StatusesFit
    <3> QED BY <3>1, <3>2
  <2> QED BY <2>1, <2>2 DEF StatusesFit
<1>14. \A k, status : Had(k, status) => Had(k, status)'
  <2>1. ASSUME NEW k, NEW status, NEW m \in DOMAIN statusLines, statusLines[m].id = k, statusLines[m].status = status
        PROVE  \E l \in DOMAIN statusLines' : statusLines'[l].id = k /\ statusLines'[l].status = status
    <3>1. m \in DOMAIN statusLines' /\ statusLines'[m] = statusLines[m]
      BY <1>8, <1>9, <2>1
    <3> QED BY <2>1, <3>1
  <2> QED BY <2>1 DEF Had
<1>15. Had(id, q.status)'
  <2>1. n + 1 \in DOMAIN statusLines' /\ statusLines'[n + 1].id = id /\ statusLines'[n + 1].status = q.status
    BY <1>4, <1>9
  <2> QED BY <2>1 DEF Had
<1>16. (\A c \in Consoles : ConsoleFits(console[c]) /\ (c \in calm => Current(console[c])))'
  BY <1>6, <1>7, <1>14 DEF FeedbackInv, ConsoleFits
<1>17. ASSUME NEW j \in DOMAIN changes' PROVE ChangeFits(changes[j])'
  <2>1. CASE j = i
    <3>1. ChangeFits(q) /\ r.heard = TRUE => console'[r.console].state # "closed"
      BY <1>5, <1>6 DEF ChangeFits
    <3> QED BY <1>1, <1>5, <1>6, <1>7, <1>10, <1>15, <2>1, <3>1 DEF ChangeFits
  <2>2. CASE j # i
    <3>1. j \in DOMAIN changes /\ changes'[j] = changes[j]
      BY <1>10, <1>17, <2>2
    <3> QED BY <1>6, <1>7, <1>14, <3>1 DEF FeedbackInv, ChangeFits
  <2> QED BY <2>1, <2>2
<1> QED BY <1>11, <1>12, <1>13, <1>16, <1>17 DEF FeedbackInv

\* The page hears of its change, or that it failed, or is no longer there to hear of it.
LEMMA HearsStep ==
  ASSUME FeedbackInv, NEW i \in DOMAIN changes,
         \/ Reports!AdmitChange(i) \/ Reports!RefuseChange(i)
         \/ Reports!Answered(i) \/ Reports!ChangeFails(i) \/ Reports!ChangeBreaks(i)
  PROVE  FeedbackInv'
<1>1. PICK q \in Reports!Changes : q = changes[i] /\ ChangeFits(q)
  BY FeedbackTypes DEF FeedbackInv
<1>2. PICK c \in Consoles : c = q.console
  BY DEF Reports!Changes
<1>3. PICK p \in Reports!Pages : p = console[c] /\ ConsoleFits(p) /\ (c \in calm => Current(p))
  BY FeedbackTypes DEF FeedbackInv
<1>4. p.state = "shown" => p.counted /\ p.listed
  BY <1>3, FeedbackTypes
<1>5. console = [console EXCEPT ![c] = p]
  BY <1>3, FeedbackTypes
<1>6. ASSUME NEW r \in Reports!Changes, r.id = q.id, r.console = q.console, r.heard = TRUE => q.heard = TRUE,
             r.state # "updated", changes' = [changes EXCEPT ![i] = r], Reports!ConsoleOnly, UNCHANGED calm,
             NEW z \in Reports!Pages, Reports!View(c, z), z.state = p.state,
             z.counted = p.counted, z.listed = p.listed, ConsoleFits(z), c \in calm => Current(z)
      PROVE  FeedbackInv'
  <2>1. /\ changes' \in Seq(Reports!Changes) /\ DOMAIN changes' = DOMAIN changes /\ changes'[i] = r
        /\ \A j \in DOMAIN changes : j # i => changes'[j] = changes[j]
    BY <1>6, FeedbackTypes
  <2>2. /\ \A d \in Consoles : console'[d].state = console[d].state
        /\ UNCHANGED <<feedback, statusLines>>
    BY <1>3, <1>6, FeedbackTypes DEF Reports!View, Reports!ConsoleOnly
  <2>3. ASSUME NEW j \in DOMAIN changes' PROVE ChangeFits(changes[j])'
    <3>1. CASE j = i
      BY <1>1, <1>2, <1>6, <2>1, <2>2, <3>1 DEF ChangeFits
    <3>2. CASE j # i
      <4>1. PICK y \in Reports!Changes : y = changes[j] /\ ChangeFits(y) /\ changes'[j] = y
        BY <2>1, <2>3, <3>2, FeedbackTypes DEF FeedbackInv
      <4>2. y.console \in Consoles
        BY DEF Reports!Changes
      <4> QED BY <1>6, <2>2, <4>1, <4>2 DEF ChangeFits, Had
    <3> QED BY <3>1, <3>2
  <2> QED BY <1>4, <1>6, <2>1, <2>3, ConsoleKeeps
<1>7. ASSUME NEW state \in {"admitted", "refused", "answered"}, Reports!Became(i, state)
       PROVE  \E r \in Reports!Changes :
                /\ r.id = q.id /\ r.console = q.console /\ r.heard = q.heard /\ r.state = state
                /\ changes' = [changes EXCEPT ![i] = r]
  <2> DEFINE r == [q EXCEPT !.state = state]
  <2>1. r \in Reports!Changes /\ r.id = q.id /\ r.heard = q.heard /\ r.console = q.console /\ r.state = state
    BY DEF Reports!Changes
  <2>2. changes' = [changes EXCEPT ![i] = r]
    BY <1>1, <1>7 DEF Reports!Became
  <2> HIDE DEF r
  <2> QED BY <2>1, <2>2
<1>8. ASSUME NEW state \in {"admitted", "refused", "answered"}, Reports!Became(i, state), Reports!ConsoleOnly,
             UNCHANGED <<console, calm>>
      PROVE  FeedbackInv'
  <2>1. Reports!View(c, p)
    BY <1>5, <1>8 DEF Reports!View
  <2>2. PICK r \in Reports!Changes : /\ r.id = q.id /\ r.console = q.console /\ r.heard = q.heard /\ r.state = state
                                     /\ changes' = [changes EXCEPT ![i] = r]
    BY <1>8, <1>7
  <2>3. r.state # "updated"
    BY <2>2
  <2> QED BY <1>3, <1>6, <1>8, <2>1, <2>2, <2>3
<1>9. ASSUME NEW new, Reports!Hears(i, new), q.heard = FALSE PROVE UNCHANGED console
  BY <1>1, <1>9 DEF Reports!Hears
<1>10. ASSUME NEW new, Reports!Hears(i, new), q.heard = TRUE PROVE Reports!View(c, new)
  BY <1>1, <1>2, <1>10 DEF Reports!Hears, Reports!View
<1>11. q.heard \in BOOLEAN
  BY DEF Reports!Changes
<1>12. ASSUME Reports!Became(i, "answered"), Reports!ConsoleOnly, UNCHANGED calm,
              NEW z \in Reports!Pages, Reports!View(c, z), z.state = p.state,
              z.counted = p.counted, z.listed = p.listed, ConsoleFits(z), c \in calm => Current(z)
       PROVE  FeedbackInv'
  <2>1. PICK r \in Reports!Changes : /\ r.id = q.id /\ r.console = q.console /\ r.heard = q.heard /\ r.state = "answered"
                                     /\ changes' = [changes EXCEPT ![i] = r]
    BY <1>7, <1>12
  <2>2. r.state # "updated"
    BY <2>1
  <2> QED BY <1>6, <1>12, <2>1, <2>2
<1>13. CASE Reports!AdmitChange(i) \/ Reports!RefuseChange(i)
  BY <1>8, <1>13 DEF Reports!AdmitChange, Reports!RefuseChange
<1>14. CASE Reports!Answered(i)
  <2> DEFINE list == [k \in DOMAIN p.local |-> IF k = q.id THEN [p.local[k] EXCEPT !.status = q.status] ELSE p.local[k]]
             z == [p EXCEPT !.busy = 0, !.local = list]
  <2>1. /\ q.state = "updated" /\ Reports!Became(i, "answered") /\ Reports!ConsoleOnly /\ UNCHANGED calm
        /\ Reports!Hears(i, z)
    BY <1>1, <1>2, <1>3, <1>14 DEF Reports!Answered
  <2>2. PICK n \in Nat : n = Len(p.local) /\ DOMAIN p.local = 1 .. n /\ p.local \in Seq(Reports!Records)
    BY DEF Reports!Pages
  <2>3. ASSUME NEW k \in 1 .. n
        PROVE  /\ list[k] \in Reports!Records
               /\ list[k].status = p.local[k].status \/ (k = q.id /\ list[k].status = q.status)
    <3>1. PICK x \in Reports!Records : x = p.local[k]
      BY <2>2
    <3>2. list[k] = IF k = q.id THEN [x EXCEPT !.status = q.status] ELSE x
      BY <2>2, <3>1
    <3>3. q.status \in Reports!Statuses
      BY DEF Reports!Changes
    <3> HIDE DEF list
    <3>4. [x EXCEPT !.status = q.status] \in Reports!Records /\ [x EXCEPT !.status = q.status].status = q.status
      BY <3>3 DEF Reports!Records
    <3> QED BY <3>1, <3>2, <3>4
  <2>4. list \in [1 .. n -> Reports!Records]
    BY <2>2, <2>3
  <2> HIDE DEF list
  <2>5. list \in Seq(Reports!Records) /\ Len(list) = n
    BY <2>4, IsASeq, LenProperties
  <2>6. /\ z \in Reports!Pages /\ z.state = p.state /\ z.counted = p.counted /\ z.listed = p.listed /\ z.local = list
    BY <2>5 DEF Reports!Pages
  <2> HIDE DEF z
  <2>7. CASE q.heard = TRUE
    <3>1. Reports!View(c, z)
      BY <1>10, <2>1, <2>7
    <3>2. c \notin calm /\ Had(q.id, q.status)
      BY <1>1, <1>2, <2>1, <2>7 DEF ChangeFits
    <3>3. ConsoleFits(z)
      BY <1>3, <2>2, <2>3, <2>5, <2>6, <3>2 DEF ConsoleFits
    <3> QED BY <1>12, <2>1, <2>6, <3>1, <3>2, <3>3
  <2>8. CASE q.heard = FALSE
    BY <1>8, <1>9, <2>1, <2>8
  <2> QED BY <1>11, <2>7, <2>8
<1>15. PICK z \in Reports!Pages :
         /\ z = [p EXCEPT !.busy = 0, !.error = TRUE]
         /\ z.state = p.state /\ z.counted = p.counted /\ z.listed = p.listed /\ z.local = p.local
         /\ z.summary = p.summary
  <2> DEFINE y == [p EXCEPT !.busy = 0, !.error = TRUE]
  <2>1. /\ y \in Reports!Pages /\ y.state = p.state /\ y.counted = p.counted /\ y.listed = p.listed
        /\ y.local = p.local /\ y.summary = p.summary
    BY DEF Reports!Pages
  <2> QED BY <2>1
<1>16. ConsoleFits(z) /\ (c \in calm => Current(z))
  BY <1>3, <1>15 DEF ConsoleFits, Current
<1>17. CASE Reports!ChangeFails(i)
  <2>1. Reports!Became(i, "answered") /\ Reports!ConsoleOnly /\ UNCHANGED calm /\ Reports!Hears(i, z)
    BY <1>1, <1>2, <1>3, <1>17, <1>15 DEF Reports!ChangeFails
  <2>2. CASE q.heard = TRUE
    BY <1>10, <1>12, <1>15, <1>16, <2>1, <2>2
  <2>3. CASE q.heard = FALSE
    BY <1>8, <1>9, <2>1, <2>3
  <2> QED BY <1>11, <2>2, <2>3
<1>18. CASE Reports!ChangeBreaks(i)
  <2>1. /\ q.state \in {"sent", "admitted"} /\ changes' = [changes EXCEPT ![i].heard = FALSE]
        /\ Reports!View(c, z) /\ Reports!ConsoleOnly /\ UNCHANGED calm
    BY <1>1, <1>2, <1>3, <1>15, <1>18 DEF Reports!ChangeBreaks
  <2> DEFINE r == [q EXCEPT !.heard = FALSE]
  <2>2. /\ r \in Reports!Changes /\ r.id = q.id /\ r.console = q.console /\ r.heard = FALSE /\ r.state = q.state
    BY DEF Reports!Changes
  <2>3. changes' = [changes EXCEPT ![i] = r]
    BY <1>1, <2>1
  <2> HIDE DEF r
  <2>4. r.state # "updated"
    BY <2>1, <2>2
  <2> QED BY <1>6, <1>15, <1>16, <2>1, <2>2, <2>3, <2>4
<1> QED BY <1>13, <1>14, <1>17, <1>18

LEMMA FeedbackStart ==
  ASSUME Reports!FeedbackAssumption, Reports!Init
  PROVE  FeedbackInv
<1>1. Reports!EmptyValue \in Reports!Values
  <2>1. 0 \in 0 .. 5
    OBVIOUS
  <2> QED BY <2>1, Zenon DEF Reports!Values, Reports!EmptyValue
<1>2. Reports!EmptyForm \in Reports!Forms /\ Reports!EmptyForm.state = "editing"
  BY <1>1 DEF Reports!EmptyForm, Reports!Forms
<1>3. /\ Reports!ClosedPage \in Reports!Pages /\ Reports!ClosedPage.state = "closed" /\ Reports!ClosedPage.local = <<>>
      /\ Reports!ClosedPage.counted = FALSE /\ Reports!ClosedPage.listed = FALSE
  BY DEF Reports!ClosedPage, Reports!Pages, Reports!NoSummary, Reports!Summaries, Reports!AllFilter
<1>4. Reports!TypeOK
  BY <1>2, <1>3 DEF Reports!FeedbackAssumption, Reports!Init, Reports!TypeOK
<1>5. FormsFit
  <2>1. \A r \in Reporters : Of(r) = {}
    BY DEF Of, Reports!Init
  <2>2. Cardinality({}) = 0
    BY FS_EmptySet
  <2>3. \A r \in Reporters : told[r] = 0 /\ form[r].state = "editing"
    BY <1>2 DEF Reports!Init
  <2> QED BY <2>1, <2>2, <2>3 DEF FormsFit, Pending
<1>6. StatusesFit /\ \A i \in DOMAIN changes : ChangeFits(changes[i])
  BY DEF Reports!Init, StatusesFit
<1>7. \A c \in Consoles : ConsoleFits(console[c]) /\ c \notin calm
  BY <1>3 DEF Reports!Init, ConsoleFits
<1> QED BY <1>4, <1>5, <1>6, <1>7 DEF FeedbackInv

LEMMA FeedbackStep ==
  ASSUME Reports!FeedbackAssumption, FeedbackInv, [Reports!Next]_(Reports!feedbackVars)
  PROVE  FeedbackInv'
<1>1. CASE UNCHANGED Reports!feedbackVars
  <2>1. Reports!TypeOK'
    BY <1>1 DEF Reports!feedbackVars, FeedbackInv, Reports!TypeOK
  <2>2. FormsFit' /\ StatusesFit'
    BY <1>1 DEF Reports!feedbackVars, FeedbackInv, FormsFit, Of, StatusesFit, LinesOf
  <2>3. (\A c \in Consoles : ConsoleFits(console[c]) /\ (c \in calm => Current(console[c])))'
    BY <1>1 DEF Reports!feedbackVars, FeedbackInv, ConsoleFits, Current, Had
  <2>4. (\A i \in DOMAIN changes : ChangeFits(changes[i]))'
    BY <1>1 DEF Reports!feedbackVars, FeedbackInv, ChangeFits, Had
  <2> QED BY <2>1, <2>2, <2>3, <2>4 DEF FeedbackInv
<1>2. CASE Reports!Next
  BY <1>2, TurnStep, FormStep, StoreStep, ConsoleStep, UpdateStep, HearsStep DEF Reports!Next, Reports!Runs
<1> QED BY <1>1, <1>2

(* A form that says a report was received has a record of it; the last     *)
(* audit line of a record names its status; a console shows only statuses   *)
(* that were; and while no record changes its figures are those of its      *)
(* list (experience-service.ts and the pages, whatever answers are lost).   *)
THEOREM FeedbackIsTrueHolds ==
  ASSUME Reports!FeedbackAssumption
  PROVE  Reports!Spec => [](/\ Reports!TypeOK /\ Reports!ReceivedIsStored /\ Reports!AuditTellsStatus
                            /\ Reports!ShownStatusWasReal /\ Reports!FiguresAreOfTheList)
<1>1. Reports!Init => FeedbackInv
  BY FeedbackStart
<1>2. FeedbackInv /\ [Reports!Next]_(Reports!feedbackVars) => FeedbackInv'
  BY FeedbackStep
<1>3. ASSUME FeedbackInv PROVE Reports!ReceivedIsStored
  <2>1. ASSUME NEW r \in Reporters
        PROVE  told[r] <= Reports!Cardinality({i \in DOMAIN feedback : feedback[i].author = r})
    <3>1. told[r] + Pending(form[r]) <= Cardinality(Of(r)) /\ told[r] \in Nat
      BY <1>3, FeedbackTypes DEF FeedbackInv, FormsFit
    <3>2. Cardinality(Of(r)) \in Nat /\ Reports!Cardinality(Of(r)) = Cardinality(Of(r))
      BY <1>3, PlacesCounted, FeedbackTypes DEF Of
    <3> QED BY <3>1, <3>2 DEF Pending, Of
  <2> QED BY <2>1, Zenon DEF Reports!ReceivedIsStored
<1>4. ASSUME FeedbackInv PROVE Reports!AuditTellsStatus
  <2>1. ASSUME NEW id \in DOMAIN feedback
        PROVE  LET newest == CHOOSE k \in LinesOf(id) : \A j \in LinesOf(id) : j <= k
               IN  feedback[id].status = IF LinesOf(id) = {} THEN "open" ELSE statusLines[newest].status
    <3> DEFINE newest == CHOOSE k \in LinesOf(id) : \A j \in LinesOf(id) : j <= k
    <3>1. CASE LinesOf(id) = {}
      BY <1>4, <3>1 DEF FeedbackInv, StatusesFit
    <3>2. CASE LinesOf(id) # {}
      <4>1. \E k \in LinesOf(id) : \A j \in LinesOf(id) : j <= k
        BY <1>4, <3>2, HasLast, FeedbackTypes DEF LinesOf
      <4>2. newest \in LinesOf(id) /\ \A j \in LinesOf(id) : j <= newest
        BY <4>1
      <4> HIDE DEF newest
      <4>3. feedback[id].status = statusLines[newest].status
        BY <1>4, <4>2 DEF FeedbackInv, StatusesFit
      <4> QED BY <3>2, <4>3 DEF newest
    <3> QED BY <3>1, <3>2
  <2> QED BY <2>1, Zenon DEF Reports!AuditTellsStatus, LinesOf
<1>5. ASSUME FeedbackInv PROVE Reports!ShownStatusWasReal
  <2>1. ASSUME NEW c \in Consoles, NEW id \in DOMAIN console[c].local
        PROVE  console[c].local[id].status \in {"open"} \cup Reports!Told(id)
    <3>1. PICK p \in Reports!Pages : p = console[c] /\ ConsoleFits(p)
      BY <1>5, FeedbackTypes DEF FeedbackInv
    <3>2. id \in 1 .. Len(p.local)
      BY <2>1, <3>1 DEF Reports!Pages
    <3> QED BY <3>1, <3>2 DEF ConsoleFits, Had, Reports!Told
  <2> QED BY <2>1 DEF Reports!ShownStatusWasReal
<1>6. ASSUME FeedbackInv PROVE Reports!FiguresAreOfTheList
  <2>1. ASSUME NEW c \in calm, console[c].state = "shown"
        PROVE  /\ console[c].summary.total = Len(console[c].local)
               /\ console[c].summary.open =
                    Reports!Cardinality({i \in {i \in DOMAIN console[c].local : console[c].local[i].needs} :
                                           console[c].local[i].status \in {"open", "acknowledged"}})
    <3>1. console[c].local = feedback /\ console[c].summary = Reports!SummarizeFeedback(feedback)
      BY <1>6, <2>1, FeedbackTypes DEF FeedbackInv, Current
    <3>2. ASSUME NEW i \in DOMAIN feedback PROVE feedback[i].status \in Reports!Statuses
      <4>1. feedback[i] \in Reports!Records
        BY <1>6, FeedbackTypes
      <4> QED BY <4>1 DEF Reports!Records
    <3>3. {i \in {i \in DOMAIN feedback : feedback[i].needs} : feedback[i].status \in {"open", "acknowledged"}}
            = {i \in DOMAIN feedback : Reports!Pending(feedback[i])}
      BY <3>2 DEF Reports!Pending, Reports!Statuses
    <3>4. /\ Reports!SummarizeFeedback(feedback).total = Len(feedback)
          /\ Reports!SummarizeFeedback(feedback).open
               = Reports!Cardinality({i \in DOMAIN feedback : Reports!Pending(feedback[i])})
      BY DEF Reports!SummarizeFeedback, Reports!Counted
    <3> QED BY <3>1, <3>3, <3>4
  <2> QED BY <2>1, Zenon DEF Reports!FiguresAreOfTheList
<1>7. FeedbackInv => Reports!TypeOK
  BY DEF FeedbackInv
<1> QED BY <1>1, <1>2, <1>3, <1>4, <1>5, <1>6, <1>7, PTL DEF Reports!Spec
=============================================================================
