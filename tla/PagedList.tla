------------------------------ MODULE PagedList ------------------------------
(***************************************************************************)
(* A page that shows a list of the server in pieces: the cursor stack of   *)
(* the page, usePageState with its requests, and the slice the server cuts *)
(* out of the list at the moment it answers.                                *)
(*                                                                         *)
(* A cursor is a position in the list, not a row: the list may be another  *)
(* one by the time the cursor is used.  Answers arrive in any order; the   *)
(* requests given up are only ignored when they come back.                  *)
(***************************************************************************)
EXTENDS Naturals, Sequences, SequencesExt

CONSTANTS
  Items,          \* what the lists are made of
  Options,        \* the filters, or the scopes, a user can choose
  Limit,          \* rows of one page
  Listed(_, _),   \* the list the server answers from, by its rows and the choice
  MaxAsked,       \* bound: requests the page makes
  MaxChanges      \* bound: changes of the rows by others

PageAssumption == Limit \in Nat \ {0} /\ MaxAsked \in Nat \ {0} /\ MaxChanges \in Nat

VARIABLES
  rows,       \* the items there are
  choice,     \* what the user chose
  stack,      \* the cursors of the pages before this one
  page,       \* what the page shows
  requests,   \* the requests made, in order
  seen,       \* the items shown since the first page was asked for
  calm,       \* nobody changed the rows or the list since then
  changes     \* how often the rows changed

listVars == <<rows, choice, stack, page, requests, seen, calm, changes>>

Queries == [choice : Options, offset : Nat]
Answers == [items : Seq(Items), next : Nat]
NoAnswer == [items |-> <<>>, next |-> 0]
Requests == [query : Queries, aborted : BOOLEAN, state : {"sent", "answered", "failed", "over"}, answer : Answers]

\* of: the query the page answers, or is waiting for.
Pages == [state : {"loading", "success", "empty", "error"}, of : Queries, answer : Answers]

Cursor(s) == IF s = <<>> THEN 0 ELSE Last(s)
Query == [choice |-> choice, offset |-> Cursor(stack)]

Slice(list, n) == SubSeq(list, n + 1, Min({n + Limit, Len(list)}))

\* nextCursor is left out at the end of the list: 0 here.
Answer(q) ==
  LET list == Listed(rows, q.choice)
      next == q.offset + Len(Slice(list, q.offset))
  IN [items |-> Slice(list, q.offset), next |-> IF next < Len(list) THEN next ELSE 0]

-----------------------------------------------------------------------------
(* usePageState. *)

Sent(q) == [query |-> q, aborted |-> FALSE, state |-> "sent", answer |-> NoAnswer]

\* Seeded fault: the request before is not given up.
GivenUpNone(rs) == rs

GivenUp(rs) == [i \in DOMAIN rs |-> [rs[i] EXCEPT !.aborted = TRUE]]

\* The effect runs again: what was asked is given up and the page loads.
Ask(c, s) ==
  LET q == [choice |-> c, offset |-> Cursor(s)] IN
  /\ Len(requests) < MaxAsked
  /\ choice' = c /\ stack' = s
  /\ requests' = Append(GivenUp(requests), Sent(q))
  /\ page' = [state |-> "loading", of |-> q, answer |-> NoAnswer]
  /\ UNCHANGED <<rows, changes>>

\* The server answers from the rows it has now.
Serve(i) ==
  /\ requests[i].state = "sent"
  /\ requests' = [requests EXCEPT ![i].state = "answered", ![i].answer = Answer(requests[i].query)]
  /\ UNCHANGED <<rows, choice, stack, page, seen, calm, changes>>

Lose(i) ==
  /\ requests[i].state = "sent"
  /\ requests' = [requests EXCEPT ![i].state = "failed"]
  /\ UNCHANGED <<rows, choice, stack, page, seen, calm, changes>>

\* An empty first page shows a message, an empty later one its pager.
Shown(r) ==
  [state |-> IF r.answer.items = <<>> /\ r.query.offset = 0 THEN "empty" ELSE "success",
   of |-> r.query, answer |-> r.answer]

Deliver(i) ==
  LET r == requests[i] IN
  /\ r.state = "answered"
  /\ requests' = [requests EXCEPT ![i].state = "over"]
  /\ IF r.aborted THEN UNCHANGED <<page, seen>>
     ELSE page' = Shown(r) /\ seen' = seen \union ToSet(r.answer.items)
  /\ UNCHANGED <<rows, choice, stack, calm, changes>>

ErrorShown(r) ==
  IF r.aborted THEN page ELSE [state |-> "error", of |-> r.query, answer |-> NoAnswer]

DeliverError(i) ==
  /\ requests[i].state = "failed"
  /\ requests' = [requests EXCEPT ![i].state = "over"]
  /\ page' = ErrorShown(requests[i])
  /\ UNCHANGED <<rows, choice, stack, seen, calm, changes>>

-----------------------------------------------------------------------------
(* The user, and the others. *)

\* Another choice is another list: its first page is asked for.
Fresh == <<>>

Open(c) ==
  /\ Ask(c, Fresh)
  /\ seen' = {} /\ calm' = TRUE

NextPage ==
  /\ page.state = "success" /\ page.answer.next # 0
  /\ Ask(choice, Append(stack, page.answer.next))
  /\ UNCHANGED <<seen, calm>>

PreviousPage ==
  /\ page.state = "success" /\ stack # <<>>
  /\ Ask(choice, Front(stack))
  /\ UNCHANGED <<seen, calm>>

Reload ==
  /\ page.state = "error"
  /\ Ask(choice, stack)
  /\ UNCHANGED <<seen, calm>>

\* A row appears in the lists or leaves them.
Change(x) ==
  /\ changes < MaxChanges
  /\ rows' = IF x \in rows THEN rows \ {x} ELSE rows \union {x}
  /\ calm' = FALSE /\ changes' = changes + 1
  /\ UNCHANGED <<choice, stack, page, requests, seen>>

InitPage(c) ==
  /\ rows = Items
  /\ choice = c /\ stack = <<>>
  /\ requests = <<Sent([choice |-> c, offset |-> 0])>>
  /\ page = [state |-> "loading", of |-> [choice |-> c, offset |-> 0], answer |-> NoAnswer]
  /\ seen = {} /\ calm = TRUE /\ changes = 0

Transport(i) == Serve(i) \/ Lose(i) \/ Deliver(i) \/ DeliverError(i)

\* The server answers or the connection fails, and the browser says which.
Comes(i) == i \in DOMAIN requests /\ Transport(i)

-----------------------------------------------------------------------------
(* Properties. *)

PageTypeOK ==
  /\ rows \subseteq Items /\ choice \in Options /\ stack \in Seq(Nat)
  /\ page \in Pages /\ requests \in Seq(Requests)
  /\ seen \subseteq Items /\ calm \in BOOLEAN /\ changes \in 0 .. MaxChanges

\* Answers overtake one another, but what the page shows answers what the
\* user asked for last (the aborted checks of use-page-state.ts).
ShownIsAsked == page.of = Query

\* Over a list that nobody changes, going on to the last page shows every
\* item once asked for: no cut leaves one out (slice and nextCursor).
PagesCoverTheList ==
  calm /\ page.state = "success" /\ page.answer.next = 0 => ToSet(Listed(rows, choice)) \subseteq seen

\* A page that loads does not load for ever.
LoadingEnds == page.state = "loading" ~> page.state # "loading"

=============================================================================
