----------------------------- MODULE ReviewQueue -----------------------------
(***************************************************************************)
(* The queue of the reviews: the page with its filters and its cursor in    *)
(* the URL, and the request the server answers in many reads.               *)
(*                                                                         *)
(* The server lists the reviews, checks one by one which of them the        *)
(* reviewer may see, then reads each once more with its evidence, in any    *)
(* order.  Reviews are opened and decided, and the reviewer role is given   *)
(* and taken, between any two of these reads.                               *)
(***************************************************************************)
EXTENDS Naturals, Sequences, SequencesExt, FiniteSets

CONSTANTS
  Systems,      \* the operating systems versions have targets for
  PageSize,     \* reviews of one page
  MaxReviews,   \* bound: reviews there are
  MaxChanges,   \* bound: changes by others
  MaxAsked      \* bound: requests of the page

QueueAssumption ==
  PageSize \in Nat \ {0} /\ MaxReviews \in Nat \ {0} /\ MaxChanges \in Nat /\ MaxAsked \in Nat

VARIABLES
  reviews,    \* the reviews, oldest first
  role,       \* may the user review
  url,        \* the filters and the cursor of the page
  draft,      \* the filters in the form
  view,       \* what the page shows
  asked,      \* the request on its way
  trail,      \* the cursors of the pages turned, up to this one
  calm,       \* nothing changed since the request was made
  changes, asks

queueVars == <<reviews, role, url, draft, view, asked, trail, calm, changes, asks>>

Statuses == {"pending", "approved", "rejected", "superseded"}
AllSystems == "all"
\* own: the user is its author; targets: the systems its script targets are for;
\* legacy: the version was written when its row still named them.
Reviews == {r \in [own : BOOLEAN, targets : SUBSET Systems, legacy : BOOLEAN, status : Statuses] : r.legacy => r.targets # {}}
Ids == 1 .. MaxReviews

Filters == [status : Statuses, os : Systems \cup {AllSystems}]
FirstPage == 0
Urls == [filters : Filters, cursor : Nat]
Cleared == [status |-> "pending", os |-> AllSystems]

Answers == [items : Seq(Ids), next : Nat]
NoAnswer == [items |-> <<>>, next |-> FirstPage]
Views == [state : {"loading", "empty", "success", "error"}, answer : Answers]

\* left: listed and not checked yet; visible: checked; read: with their evidence.
Requests == [step : {"sent", "checking", "reading", "not_found", "over"},
             left : Seq(Ids), visible : Seq(Ids), read : SUBSET Ids]
SentRequest == [step |-> "sent", left |-> <<>>, visible |-> <<>>, read |-> {}]

-----------------------------------------------------------------------------
(* The others. *)

Changed == changes < MaxChanges /\ changes' = changes + 1 /\ calm' = FALSE
PageRests == UNCHANGED <<url, draft, view, asked, trail, asks>>

OpenReview(review) ==
  /\ Changed /\ Len(reviews) < MaxReviews /\ review.status = "pending"
  /\ reviews' = Append(reviews, review)
  /\ UNCHANGED role /\ PageRests

DecideReview(id) ==
  /\ Changed /\ reviews[id].status = "pending"
  /\ \E status \in Statuses \ {"pending"} : reviews' = [reviews EXCEPT ![id].status = status]
  /\ UNCHANGED role /\ PageRests

ChangeRole == Changed /\ role' = ~role /\ UNCHANGED reviews /\ PageRests

-----------------------------------------------------------------------------
(* The page. *)

\* The filters in the URL are another array each time: usePageState asks again.
Ask(u) ==
  /\ asks < MaxAsked /\ asks' = asks + 1
  /\ url' = u /\ draft' = IF u.filters = url.filters THEN draft ELSE u.filters
  /\ view' = [state |-> "loading", answer |-> NoAnswer]
  /\ asked' = SentRequest /\ calm' = TRUE
  /\ UNCHANGED <<reviews, role, changes>>

TypeDraft(filters) ==
  /\ filters # draft /\ draft' = filters
  /\ UNCHANGED <<reviews, role, url, view, asked, trail, calm, changes, asks>>

ApplyFilters == Ask([filters |-> draft, cursor |-> FirstPage]) /\ trail' = <<FirstPage>>

Clear == Ask([filters |-> Cleared, cursor |-> FirstPage]) /\ trail' = <<FirstPage>>

NextPage ==
  /\ view.state = "success" /\ view.answer.next # FirstPage
  /\ Ask([url EXCEPT !.cursor = view.answer.next])
  /\ trail' = Append(trail, view.answer.next)

PreviousReviewCursor(cursor) == IF cursor <= PageSize THEN FirstPage ELSE cursor - PageSize

PreviousPage ==
  /\ view.state = "success" /\ url.cursor # FirstPage
  /\ Ask([url EXCEPT !.cursor = PreviousReviewCursor(url.cursor)])
  /\ trail' = IF Len(trail) > 1 THEN Front(trail) ELSE <<PreviousReviewCursor(url.cursor)>>

\* A URL that was kept or typed in.
OpenUrl(cursor) ==
  /\ Ask([url EXCEPT !.cursor = cursor])
  /\ trail' = <<cursor>>

Reload == view.state = "error" /\ Ask(url) /\ UNCHANGED trail

-----------------------------------------------------------------------------
(* The server. *)

Goes(request) == asked' = request
ServerOnly == UNCHANGED <<reviews, role, url, draft, view, trail, calm, changes, asks>>

\* Numbers, each once, the lowest first.
InOrder(S) ==
  CHOOSE s \in [1 .. Cardinality(S) -> S] :
    /\ \A x \in S : \E i \in DOMAIN s : s[i] = x
    /\ \A i, j \in DOMAIN s : i < j => s[i] < s[j]

\* What a filter leaves of a list.
Kept(s, S) ==
  LET places == InOrder({i \in DOMAIN s : s[i] \in S})
  IN [k \in DOMAIN places |-> s[places[k]]]

WithStatus(status) == InOrder({id \in DOMAIN reviews : reviews[id].status = status})

ListReviews ==
  /\ asked.step = "sent"
  /\ Goes([asked EXCEPT !.step = "checking", !.left = WithStatus(url.filters.status)])
  /\ ServerOnly

CanReview(id) == ~reviews[id].own /\ role

CheckListed ==
  /\ asked.step = "checking" /\ asked.left # <<>>
  /\ Goes([asked EXCEPT !.left = Tail(@), !.visible = IF CanReview(Head(asked.left)) THEN Append(@, Head(asked.left)) ELSE @])
  /\ ServerOnly

Checked ==
  /\ asked.step = "checking" /\ asked.left = <<>>
  /\ Goes([asked EXCEPT !.step = "reading"])
  /\ ServerOnly

\* The reads begin together; one that fails fails them all.
FindReviewWorkbench(id) ==
  /\ asked.step = "reading" /\ id \in ToSet(asked.visible) \ asked.read
  /\ Goes(IF ~reviews[id].own /\ role THEN [asked EXCEPT !.read = @ \cup {id}] ELSE [asked EXCEPT !.step = "not_found"])
  /\ ServerOnly

\* createVersion writes a row that supports nothing, and no target is written back to it.
SupportedOs(review) == IF review.legacy THEN review.targets ELSE {}

Supports(id) == url.filters.os \in SupportedOs(reviews[id]) \cup {AllSystems}

\* The filters of the systems, then the page.
Page(ids) ==
  LET all == Kept(ids, {id \in ToSet(ids) : Supports(id)})
      items == SubSeq(all, url.cursor + 1, Min({url.cursor + PageSize, Len(all)}))
      next == url.cursor + Len(items)
  IN [items |-> items, next |-> IF next < Len(all) THEN next ELSE FirstPage]

IsEmptyReviewPage(answer) == url.cursor = FirstPage /\ answer.items = <<>>

Shows(v) == view' = v /\ Goes([asked EXCEPT !.step = "over"]) /\ UNCHANGED <<reviews, role, url, draft, trail, calm, changes, asks>>

Answered ==
  /\ asked.step = "reading" /\ asked.read = ToSet(asked.visible)
  /\ LET answer == Page(asked.visible) IN
     Shows([state |-> IF IsEmptyReviewPage(answer) THEN "empty" ELSE "success", answer |-> answer])

\* 404, or the connection.
Fails ==
  /\ asked.step # "over"
  /\ Shows([state |-> "error", answer |-> NoAnswer])

-----------------------------------------------------------------------------

Init ==
  /\ reviews \in [1 .. MaxReviews - 1 -> {r \in Reviews : r.status = "pending"}]
  /\ role \in BOOLEAN
  /\ url = [filters |-> Cleared, cursor |-> FirstPage] /\ draft = Cleared /\ trail = <<FirstPage>>
  /\ view = [state |-> "loading", answer |-> NoAnswer] /\ asked = SentRequest
  /\ calm = TRUE /\ changes = 0 /\ asks = 0

Serves == ListReviews \/ CheckListed \/ Checked \/ (\E id \in Ids : FindReviewWorkbench(id)) \/ Answered \/ Fails

Next ==
  \/ \E review \in Reviews : OpenReview(review)
  \/ \E id \in DOMAIN reviews : DecideReview(id)
  \/ ChangeRole
  \/ \E filters \in Filters : TypeDraft(filters)
  \/ ApplyFilters \/ Clear \/ NextPage \/ PreviousPage \/ Reload
  \/ \E cursor \in Ids : OpenUrl(cursor)
  \/ Serves

\* The server goes on.
Fairness == WF_queueVars(Serves)

Spec == Init /\ [][Next]_queueVars /\ Fairness

-----------------------------------------------------------------------------
(* Properties. *)

TypeOK ==
  /\ reviews \in Seq(Reviews) /\ role \in BOOLEAN /\ url \in Urls /\ draft \in Filters
  /\ view \in Views /\ asked \in Requests /\ trail \in Seq(Nat)
  /\ calm \in BOOLEAN /\ changes \in 0 .. MaxChanges /\ asks \in 0 .. MaxAsked

(* As long as nothing changes the queue is found: the reads that follow    *)
(* the list refuse none of the reviews the list let through.                *)
CalmQueueIsFound == calm => asked.step # "not_found"

(* What is read in many steps is the page of the queue: the reviews of     *)
(* others, of the status asked for and with the system in the row of their *)
(* version, the oldest first, from the cursor on, and more to come exactly  *)
(* if there are more.                                                       *)
CalmPageIsOfQueue ==
  LET queue == InOrder({id \in DOMAIN reviews :
                 /\ role /\ ~reviews[id].own
                 /\ reviews[id].status = url.filters.status
                 /\ url.filters.os = AllSystems \/ (reviews[id].legacy /\ url.filters.os \in reviews[id].targets)})
      rest == SubSeq(queue, url.cursor + 1, Len(queue))
  IN calm /\ view.state \in {"empty", "success"} =>
       /\ view.answer.items = SubSeq(rest, 1, Min({PageSize, Len(rest)}))
       /\ (view.answer.next # FirstPage) = (Len(rest) > PageSize)

(* A review whose version has a target for the system asked for is in the  *)
(* queue of that system.                                                    *)
TargetsAreFound ==
  calm /\ view.state \in {"empty", "success"} /\ url.cursor = FirstPage /\ view.answer.next = FirstPage =>
    \A id \in DOMAIN reviews :
      role /\ ~reviews[id].own /\ reviews[id].status = url.filters.status /\ url.filters.os \in reviews[id].targets =>
        id \in ToSet(view.answer.items)

(* Page before page leads back the way the user came.                      *)
PreviousIsBack == Last(trail) = url.cursor

(* The page does not load for ever.                                         *)
LoadingEnds == view.state = "loading" ~> view.state # "loading"

=============================================================================
