----------------------------- MODULE ReviewDesk -----------------------------
(***************************************************************************)
(* The desks of the reviewers: the page of one review, the decision sent   *)
(* from it, and the panel that grades the package.                          *)
(*                                                                         *)
(* The version is the author's: it is revised and submitted again while    *)
(* the pages stand open.  An answer may be lost before or after the server *)
(* has written, and its body may be cut off after its head has arrived.     *)
(***************************************************************************)
EXTENDS Naturals, Sequences, FiniteSets

CONSTANTS
  Desks,          \* the open pages, each of a reviewer who may decide
  Grades,         \* the grades of a package
  MaxRevisions,   \* bound: revisions by the author
  MaxRequests,    \* bound: decisions and grades sent
  MaxLoads        \* bound: times a page is opened or synchronised

DeskAssumption ==
  /\ Grades \cap {"approve", "reject", "none"} = {}
  /\ MaxRevisions \in Nat /\ MaxRequests \in Nat /\ MaxLoads \in Nat

VARIABLES
  version,    \* the content there is, and its lifecycle
  reviews,    \* the reviews, with the snapshots they were opened on
  grade,      \* the grade of the package
  desk,       \* the page of each reviewer
  requests,   \* what the pages sent
  unsure,     \* desks whose decision got no answer, until they are loaded again
  loads       \* how often pages were opened or synchronised

deskVars == <<version, reviews, grade, desk, requests, unsure, loads>>

Decisions == {"approve", "reject"}
Decided(decision) == IF decision = "approve" THEN "approved" ELSE "rejected"
NoGrade == "none"

\* The package snapshot of a review keeps the grade of that day.
Reviews == [content : Nat, status : {"pending", "approved", "rejected", "superseded"}, grade : Grades]

Versions == [content : Nat, lifecycle : {"draft", "review_required", "published"}]

Workbenches == [state : {"closed", "loading", "shown"}, id : Nat,
                status : {"pending", "approved", "rejected", "superseded"}, content : Nat, reason : BOOLEAN,
                submitting : BOOLEAN, confirming : BOOLEAN, needsSync : BOOLEAN, error : BOOLEAN,
                current : Grades \cup {NoGrade}, picked : Grades \cup {NoGrade}, byHand : BOOLEAN, grading : BOOLEAN]
ClosedDesk == [state |-> "closed", id |-> 0, status |-> "pending", content |-> 0, reason |-> FALSE,
               submitting |-> FALSE, confirming |-> FALSE, needsSync |-> FALSE, error |-> FALSE,
               current |-> NoGrade, picked |-> NoGrade, byHand |-> FALSE, grading |-> FALSE]

\* what: a decision, or the grade asked for; content: what the page showed then.
Requests == [desk : Desks, id : Nat, content : Nat, what : Decisions \cup Grades, byHand : BOOLEAN, heard : BOOLEAN,
             state : {"sent", "written", "refused", "answered", "dropped"}]

-----------------------------------------------------------------------------
(* The author. *)

ServerOnly == UNCHANGED <<grade, desk, requests, unsure, loads>>

\* Submitted, and passed by the runner or left to the reviewer.
Submit ==
  /\ version.lifecycle = "draft"
  /\ version' = [version EXCEPT !.lifecycle = "review_required"]
  /\ reviews' = Append(reviews, [content |-> version.content, status |-> "pending", grade |-> grade])
  /\ ServerOnly

Revise ==
  /\ version.lifecycle # "draft" /\ version.content < MaxRevisions
  /\ version' = [content |-> version.content + 1, lifecycle |-> "draft"]
  /\ reviews' = [i \in DOMAIN reviews |->
                   IF reviews[i].status = "pending" THEN [reviews[i] EXCEPT !.status = "superseded"] ELSE reviews[i]]
  /\ ServerOnly

-----------------------------------------------------------------------------
(* The page and its two requests. *)

Show(d, page) == desk' = [desk EXCEPT ![d] = page]
DeskOnly == UNCHANGED <<version, reviews, grade>>
Forgotten(d) == [i \in DOMAIN requests |-> [requests[i] EXCEPT !.heard = @ /\ requests[i].desk # d]]

\* A page left hears of nothing it sent.
Load(d, id) ==
  /\ Show(d, [ClosedDesk EXCEPT !.state = "loading", !.id = id])
  /\ requests' = Forgotten(d) /\ unsure' = unsure \ {d}
  /\ DeskOnly

Click == loads < MaxLoads /\ loads' = loads + 1

Open(d) == Click /\ \E id \in DOMAIN reviews : id # desk[d].id /\ Load(d, id)

FindReviewWorkbench(d) ==
  /\ desk[d].state = "loading"
  /\ Show(d, [desk[d] EXCEPT !.state = "shown", !.status = reviews[desk[d].id].status,
                              !.content = reviews[desk[d].id].content])
  /\ UNCHANGED <<requests, unsure, loads>> /\ DeskOnly

\* The panel asks for the grade of now.
FetchPackageDetail(d) ==
  /\ desk[d].state = "shown" /\ desk[d].current = NoGrade
  /\ Show(d, [desk[d] EXCEPT !.current = grade])
  /\ UNCHANGED <<requests, unsure, loads>> /\ DeskOnly

\* The commands the reviewer reads, target by target.
CommandBlock(d) == desk[d].content

-----------------------------------------------------------------------------
(* The decision. *)

CanDecide(d) == desk[d].state = "shown" /\ desk[d].status = "pending"

TypeReason(d) ==
  /\ CanDecide(d)
  /\ Show(d, [desk[d] EXCEPT !.reason = ~@, !.error = desk[d].needsSync /\ @])
  /\ UNCHANGED <<requests, unsure, loads>> /\ DeskOnly

ReviewDecisionError(decision, reason) == decision = "reject" /\ ~reason

Send(d, what, byHand) ==
  /\ Len(requests) < MaxRequests
  /\ requests' = Append(requests, [desk |-> d, id |-> desk[d].id, content |-> CommandBlock(d), what |-> what, byHand |-> byHand,
                                    heard |-> TRUE, state |-> "sent"])

\* Seeded fault: the page shows the decision before it is answered.
SubmitAhead(d, decision) ==
  /\ CanDecide(d) /\ ~desk[d].submitting /\ ~desk[d].needsSync
  /\ (decision = "approve") = desk[d].confirming
  /\ ~ReviewDecisionError(decision, desk[d].reason)
  /\ Send(d, decision, TRUE)
  /\ Show(d, [desk[d] EXCEPT !.submitting = TRUE, !.error = FALSE, !.status = Decided(decision)])
  /\ UNCHANGED <<unsure, loads>> /\ DeskOnly

\* Seeded fault: the buttons know nothing of an answer that is missing.
SubmitAnyway(d, decision) ==
  /\ CanDecide(d) /\ ~desk[d].submitting
  /\ (decision = "approve") = desk[d].confirming
  /\ ~ReviewDecisionError(decision, desk[d].reason)
  /\ Send(d, decision, TRUE)
  /\ Show(d, [desk[d] EXCEPT !.submitting = TRUE, !.error = FALSE])
  /\ UNCHANGED <<unsure, loads>> /\ DeskOnly

\* The dialog covers the page: an approval is confirmed, a rejection is sent.
SubmitDecision(d, decision) ==
  /\ CanDecide(d) /\ ~desk[d].submitting /\ ~desk[d].needsSync
  /\ (decision = "approve") = desk[d].confirming
  /\ ~ReviewDecisionError(decision, desk[d].reason)
  /\ Send(d, decision, TRUE)
  /\ Show(d, [desk[d] EXCEPT !.submitting = TRUE, !.error = FALSE])
  /\ UNCHANGED <<unsure, loads>> /\ DeskOnly

RejectWithoutReason(d) ==
  /\ CanDecide(d) /\ ~desk[d].submitting /\ ~desk[d].needsSync /\ ~desk[d].confirming
  /\ ReviewDecisionError("reject", desk[d].reason)
  /\ Show(d, [desk[d] EXCEPT !.error = TRUE])
  /\ UNCHANGED <<requests, unsure, loads>> /\ DeskOnly

\* What was wrong with a rejection is no longer said.
AskToConfirm(d) ==
  /\ CanDecide(d) /\ ~desk[d].submitting /\ ~desk[d].needsSync /\ ~desk[d].confirming
  /\ Show(d, [desk[d] EXCEPT !.confirming = TRUE, !.error = FALSE])
  /\ UNCHANGED <<requests, unsure, loads>> /\ DeskOnly

CloseConfirmation(d) ==
  /\ desk[d].confirming /\ ~desk[d].submitting
  /\ Show(d, [desk[d] EXCEPT !.confirming = FALSE])
  /\ UNCHANGED <<requests, unsure, loads>> /\ DeskOnly

Sync(d) == desk[d].needsSync /\ ~desk[d].submitting /\ Click /\ Load(d, desk[d].id)

-----------------------------------------------------------------------------
(* The grade. *)

PickGrade(d, g) ==
  /\ desk[d].current # NoGrade /\ ~desk[d].grading
  /\ Show(d, [desk[d] EXCEPT !.picked = g, !.byHand = TRUE])
  /\ UNCHANGED <<requests, unsure, loads>> /\ DeskOnly

SubmitGrade(d) ==
  /\ desk[d].current # NoGrade /\ ~desk[d].grading
  /\ desk[d].picked \notin {NoGrade, desk[d].current}
  /\ Send(d, desk[d].picked, desk[d].byHand)
  /\ Show(d, [desk[d] EXCEPT !.grading = TRUE])
  /\ UNCHANGED <<unsure, loads>> /\ DeskOnly

-----------------------------------------------------------------------------
(* The server, and its answers. *)

Becomes(i, state) == requests' = [requests EXCEPT ![i].state = state]

DecideReview(i) ==
  LET r == requests[i] IN
  /\ r.state = "sent" /\ r.what \in Decisions
  /\ reviews[r.id].status = "pending" /\ version.lifecycle = "review_required"
  /\ reviews' = [reviews EXCEPT ![r.id].status = Decided(r.what)]
  /\ version' = [version EXCEPT !.lifecycle = IF r.what = "approve" THEN "published" ELSE "draft"]
  /\ Becomes(i, "written")
  /\ UNCHANGED <<grade, desk, unsure, loads>>

RefuseDecision(i) ==
  LET r == requests[i] IN
  /\ r.state = "sent" /\ r.what \in Decisions
  /\ reviews[r.id].status # "pending" \/ version.lifecycle # "review_required"
  /\ Becomes(i, "refused")
  /\ UNCHANGED <<version, reviews, grade, desk, unsure, loads>>

SetPackageGrade(i) ==
  /\ requests[i].state = "sent" /\ requests[i].what \in Grades
  /\ grade' = requests[i].what
  /\ Becomes(i, "written")
  /\ UNCHANGED <<version, reviews, desk, unsure, loads>>

Of(i) == requests[i].desk
Hear(i, page) == IF requests[i].heard THEN Show(Of(i), page) ELSE UNCHANGED desk

\* Seeded fault: the page takes what was asked for what is.
DecisionAsked(i) ==
  LET d == Of(i) IN
  /\ requests[i].what \in Decisions /\ requests[i].state = "written"
  /\ Becomes(i, "answered")
  /\ Hear(i, [desk[d] EXCEPT !.submitting = FALSE, !.confirming = FALSE, !.status = requests[i].what])
  /\ UNCHANGED <<unsure, loads>> /\ DeskOnly

DecisionComes(i) ==
  LET d == Of(i) IN
  /\ requests[i].what \in Decisions /\ requests[i].state = "written"
  /\ Becomes(i, "answered")
  /\ Hear(i, [desk[d] EXCEPT !.submitting = FALSE, !.confirming = FALSE, !.status = Decided(requests[i].what)])
  /\ UNCHANGED <<unsure, loads>> /\ DeskOnly

\* 409: the page is loaded again.
Conflict(i) ==
  /\ requests[i].what \in Decisions /\ requests[i].state = "refused" /\ requests[i].heard
  /\ Load(Of(i), requests[i].id) /\ UNCHANGED loads

GradeComes(i) ==
  LET d == Of(i) IN
  /\ requests[i].what \in Grades /\ requests[i].state = "written"
  /\ Becomes(i, "answered")
  /\ Hear(i, [desk[d] EXCEPT !.grading = FALSE, !.picked = NoGrade, !.byHand = FALSE, !.current = NoGrade])
  /\ UNCHANGED <<unsure, loads>> /\ DeskOnly

\* Seeded fault: an answer that is missing leaves the buttons greyed out.
LostStuck(i, kind) ==
  LET d == Of(i)
      decision == requests[i].what \in Decisions
  IN /\ requests[i].state # "answered" /\ (kind = "body" => requests[i].state = "written")
     /\ requests' = [requests EXCEPT ![i].heard = FALSE]
     /\ Hear(i, IF decision THEN [desk[d] EXCEPT !.error = TRUE, !.needsSync = kind = "retryable"]
                ELSE [desk[d] EXCEPT !.grading = FALSE])
     /\ unsure' = IF requests[i].heard /\ decision THEN unsure \cup {d} ELSE unsure
     /\ UNCHANGED loads /\ DeskOnly

(* No answer: the network, a time limit or a 5xx.  The client makes an     *)
(* ApiError of these, but not of a body cut off behind the head of a 200.   *)
Lost(i, kind) ==
  LET d == Of(i)
      decision == requests[i].what \in Decisions
  IN /\ requests[i].state # "answered" /\ (kind = "body" => requests[i].state = "written")
     /\ requests' = [requests EXCEPT ![i].heard = FALSE]
     /\ Hear(i, IF decision THEN [desk[d] EXCEPT !.submitting = FALSE, !.error = TRUE, !.needsSync = kind = "retryable"]
                ELSE [desk[d] EXCEPT !.grading = FALSE])
     /\ unsure' = IF requests[i].heard /\ decision THEN unsure \cup {d} ELSE unsure
     /\ UNCHANGED loads /\ DeskOnly

-----------------------------------------------------------------------------

Init ==
  /\ version = [content |-> 0, lifecycle |-> "draft"] /\ reviews = <<>> /\ grade \in Grades
  /\ desk = [d \in Desks |-> ClosedDesk] /\ requests = <<>> /\ unsure = {} /\ loads = 0

\* A request given up may never have left.
Dropped(i) ==
  /\ requests[i].state = "sent" /\ ~requests[i].heard
  /\ Becomes(i, "dropped")
  /\ UNCHANGED <<version, reviews, grade, desk, unsure, loads>>

Answers(i) ==
  \/ DecideReview(i) \/ RefuseDecision(i) \/ SetPackageGrade(i)
  \/ DecisionComes(i) \/ Conflict(i) \/ GradeComes(i) \/ Dropped(i)

Losing(i) == requests[i].heard /\ (Lost(i, "retryable") \/ Lost(i, "body"))

Deciding(d) ==
  \/ Open(d) \/ FindReviewWorkbench(d) \/ TypeReason(d)
  \/ \E decision \in Decisions : SubmitDecision(d, decision)
  \/ RejectWithoutReason(d) \/ AskToConfirm(d) \/ CloseConfirmation(d) \/ Sync(d)

Grading(d) == FetchPackageDetail(d) \/ SubmitGrade(d) \/ \E g \in Grades : PickGrade(d, g)

Next ==
  \/ Submit \/ Revise
  \/ \E d \in Desks : Deciding(d) \/ Grading(d)
  \/ \E i \in DOMAIN requests : Answers(i) \/ Losing(i)

\* The server works, answers come or are lost.
Fairness == \A i \in 1 .. MaxRequests : WF_deskVars(i \in DOMAIN requests /\ (Answers(i) \/ Losing(i)))

Spec == Init /\ [][Next]_deskVars /\ Fairness

-----------------------------------------------------------------------------
(* Properties. *)

TypeOK ==
  /\ version \in Versions /\ reviews \in Seq(Reviews) /\ grade \in Grades
  /\ desk \in [Desks -> Workbenches] /\ requests \in Seq(Requests)
  /\ unsure \subseteq Desks /\ loads \in 0 .. MaxLoads

(* A page shows a review as approved or rejected only if it is: answers    *)
(* lost, refused or late never make it say otherwise.                      *)
ShownDecisionIsReal ==
  \A d \in Desks : desk[d].state = "shown" /\ desk[d].status \in {"approved", "rejected"} =>
    reviews[desk[d].id].status = desk[d].status

(* What is released stood on the page it was approved from, though the     *)
(* version is revised and submitted again under the open pages.            *)
ReleasedWasShown ==
  version.lifecycle = "published" =>
    \E i \in DOMAIN requests : requests[i].what = "approve" /\ requests[i].content = version.content

(* However often it is decided, on one desk or on several, one decision of *)
(* a review is written.                                                    *)
DecidedOnce ==
  \A i, j \in DOMAIN requests :
    /\ i # j /\ requests[i].id = requests[j].id
    /\ {requests[i].what, requests[j].what} \subseteq Decisions
    => ~ {requests[i].state, requests[j].state} \subseteq {"written", "answered"}

(* A grade somebody set is replaced only by one picked by hand, never by   *)
(* the one the page of a review started from.                              *)
GradeWasPicked == \A i \in DOMAIN requests : requests[i].what \in Grades => requests[i].byHand

(* After an answer that is missing, no decision is sent before the page is *)
(* loaded again.                                                           *)
SentSurely ==
  \A d \in unsure : Len(requests') > Len(requests) =>
    ~ (requests'[Len(requests')].desk = d /\ requests'[Len(requests')].what \in Decisions)

=============================================================================
