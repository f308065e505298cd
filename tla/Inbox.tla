-------------------------------- MODULE Inbox --------------------------------
(***************************************************************************)
(* The notices of one user, and the tabs the user reads them in.           *)
(*                                                                         *)
(* A tab asks for the notices once, splits them by filter on its own, and  *)
(* marks them as read one by one.  Requests to mark overtake one another,   *)
(* and their answers may be lost.                                           *)
(***************************************************************************)
EXTENDS Naturals, Sequences, FiniteSets, SequencesExt

CONSTANTS
  Tabs,         \* the tabs the user has open
  Types,        \* the types of notices
  Published,    \* the type of a new version
  Limit,        \* notices the server gives to who asks for no number of them
  MaxNotices,   \* bound: notices written
  MaxRequests,  \* bound: requests to mark as read
  MaxLoads      \* bound: times the pages ask for the notices

InboxAssumption ==
  /\ Published \in Types /\ Limit \in Nat \ {0}
  /\ MaxNotices \in Nat /\ MaxRequests \in Nat /\ MaxLoads \in Nat

VARIABLES
  notices,    \* what was written to the user, oldest first
  audit,      \* the notices whose reading was recorded
  tab,        \* what each tab shows
  requests,   \* the requests to mark as read
  loads       \* how often the notices were asked for

inboxVars == <<notices, audit, tab, requests, loads>>

Statuses == {"unread", "read"}
Notices == [type : Types, status : Statuses]

\* An item is a notice as the tab knows it.
Items == [id : 1 .. MaxNotices, type : Types, status : Statuses]
Filters == {"unread", "all", "upgrade", "risk"}
Lists == [state : {"closed", "loading", "empty", "shown", "error"}, local : Seq(Items), filter : Filters,
          busy : 0 .. MaxNotices, error : BOOLEAN]
Idle == 0
ClosedList == [state |-> "closed", local |-> <<>>, filter |-> "unread", busy |-> Idle, error |-> FALSE]

Requests == [tab : Tabs, id : 1 .. MaxNotices, heard : BOOLEAN,
             state : {"sent", "done", "answered", "dropped"}]

Change(t, list) == tab' = [tab EXCEPT ![t] = list]

-----------------------------------------------------------------------------
(* The server. *)

\* notifyExistingInstallers, or the notices of a delisting.
Notify(type) ==
  /\ Len(notices) < MaxNotices
  /\ notices' = Append(notices, [type |-> type, status |-> "unread"])
  /\ UNCHANGED <<audit, tab, requests, loads>>

ListNotifications == [i \in DOMAIN notices |-> [id |-> i, type |-> notices[i].type, status |-> notices[i].status]]

\* The first page: the page of the user asks for no other.
Page(items) == SubSeq(items, 1, Min({Limit, Len(items)}))

\* The update finds an unread notice once; who comes later is told it is read.
MarkNotificationRead(i) ==
  LET id == requests[i].id IN
  /\ requests[i].state = "sent"
  /\ notices' = [notices EXCEPT ![id].status = "read"]
  /\ audit' = IF notices[id].status = "unread" THEN Append(audit, id) ELSE audit
  /\ requests' = [requests EXCEPT ![i].state = "done"]
  /\ UNCHANGED <<tab, loads>>

\* A request given up may never arrive.
Dropped(i) ==
  /\ requests[i].state = "sent" /\ ~requests[i].heard
  /\ requests' = [requests EXCEPT ![i].state = "dropped"]
  /\ UNCHANGED <<notices, audit, tab, loads>>

-----------------------------------------------------------------------------
(* The page. *)

\* The filter is chosen above the list and stays; the list is forgotten.
Open(t) ==
  /\ loads < MaxLoads /\ loads' = loads + 1
  /\ tab[t].state # "loading"
  /\ Change(t, [ClosedList EXCEPT !.state = "loading", !.filter = IF tab[t].state = "error" THEN tab[t].filter ELSE "unread"])
  /\ requests' = [i \in DOMAIN requests |-> [requests[i] EXCEPT !.heard = @ /\ requests[i].tab # t]]
  /\ UNCHANGED <<notices, audit>>

FetchNotifications(t) ==
  /\ tab[t].state = "loading"
  /\ Change(t, [tab[t] EXCEPT !.state = IF notices = <<>> THEN "empty" ELSE "shown", !.local = Page(ListNotifications)])
  /\ UNCHANGED <<notices, audit, requests, loads>>

FetchFails(t) ==
  /\ tab[t].state = "loading"
  /\ Change(t, [tab[t] EXCEPT !.state = "error"])
  /\ UNCHANGED <<notices, audit, requests, loads>>

SetFilter(t, filter) ==
  /\ tab[t].state # "closed"
  /\ Change(t, [tab[t] EXCEPT !.filter = filter])
  /\ UNCHANGED <<notices, audit, requests, loads>>

FilterNotifications(items, filter) ==
  {item \in ToSet(items) :
    CASE filter = "unread"  -> item.status = "unread"
      [] filter = "upgrade" -> item.type = Published
      [] filter = "risk"    -> item.type # Published
      [] filter = "all"     -> TRUE}

\* Only the button of the item that was pressed last is greyed out.
HandleRead(t, id) ==
  /\ tab[t].state = "shown" /\ tab[t].busy # id /\ Len(requests) < MaxRequests
  /\ \E item \in FilterNotifications(tab[t].local, tab[t].filter) : item.id = id /\ item.status = "unread"
  /\ requests' = Append(requests, [tab |-> t, id |-> id, heard |-> TRUE, state |-> "sent"])
  /\ Change(t, [tab[t] EXCEPT !.busy = id, !.error = FALSE])
  /\ UNCHANGED <<notices, audit, loads>>

Hear(i, list) == IF requests[i].heard THEN Change(requests[i].tab, list) ELSE UNCHANGED tab

\* The answer replaces the item, whatever else was pressed since.
Updated(items, id) ==
  [n \in DOMAIN items |-> IF items[n].id = id THEN [items[n] EXCEPT !.status = "read"] ELSE items[n]]

Answered(i) ==
  LET t == requests[i].tab IN
  /\ requests[i].state = "done"
  /\ requests' = [requests EXCEPT ![i].state = "answered"]
  /\ Hear(i, [tab[t] EXCEPT !.local = Updated(@, requests[i].id), !.busy = Idle])
  /\ UNCHANGED <<notices, audit, loads>>

\* No answer: the notice may be read all the same.
ReadFails(i) ==
  LET t == requests[i].tab IN
  /\ requests[i].state \in {"sent", "done"} /\ requests[i].heard
  /\ requests' = [requests EXCEPT ![i].heard = FALSE]
  /\ Change(t, [tab[t] EXCEPT !.busy = Idle, !.error = TRUE])
  /\ UNCHANGED <<notices, audit, loads>>

-----------------------------------------------------------------------------

Init ==
  /\ notices = <<>> /\ audit = <<>> /\ requests = <<>> /\ loads = 0
  /\ tab = [t \in Tabs |-> ClosedList]

Reads(i) == MarkNotificationRead(i) \/ Dropped(i) \/ Answered(i) \/ ReadFails(i)

Next ==
  \/ \E type \in Types : Notify(type)
  \/ \E t \in Tabs :
       \/ Open(t) \/ FetchNotifications(t) \/ FetchFails(t)
       \/ \E filter \in Filters : SetFilter(t, filter)
       \/ \E id \in 1 .. MaxNotices : HandleRead(t, id)
  \/ \E i \in DOMAIN requests : Reads(i)

\* The server answers, or the browser says that it did not.
Fairness ==
  /\ \A i \in 1 .. MaxRequests : WF_inboxVars(i \in DOMAIN requests /\ Reads(i))
  /\ \A t \in Tabs : WF_inboxVars(FetchNotifications(t) \/ FetchFails(t))

Spec == Init /\ [][Next]_inboxVars /\ Fairness

-----------------------------------------------------------------------------
(* Properties. *)

TypeOK ==
  /\ notices \in Seq(Notices) /\ audit \in Seq(1 .. MaxNotices)
  /\ tab \in [Tabs -> Lists] /\ requests \in Seq(Requests) /\ loads \in 0 .. MaxLoads

(* A notice is recorded as read once, and only if it is, though it is      *)
(* marked in two tabs at a time, pressed twice, or sent again after an      *)
(* answer that was lost (the status condition of markNotificationRead).     *)
ReadRecordedOnce ==
  \A id \in DOMAIN notices :
    Cardinality({n \in DOMAIN audit : audit[n] = id}) = IF notices[id].status = "read" THEN 1 ELSE 0

(* No tab shows a notice as read that is not (nothing is shown ahead of    *)
(* the answer of the server).                                               *)
ShownReadIsReal ==
  \A t \in Tabs : \A item \in ToSet(tab[t].local) : item.status = "read" => notices[item.id].status = "read"

(* What a tab was told is read is not offered there as unread again while  *)
(* its list stands, however the answers overtake one another.               *)
StaysRead ==
  \A t \in Tabs : tab[t].state = "shown" /\ tab'[t].state = "shown" =>
    \A n \in DOMAIN tab[t].local : tab[t].local[n].status = "read" => tab'[t].local[n].status = "read"

(* The page takes all notices at once and splits them by itself: every      *)
(* notice there is stands in some filter of a page that was just loaded.    *)
AllNoticesFetched ==
  [][\A t \in Tabs : tab[t].state = "loading" /\ tab'[t].state = "shown" =>
       Len(tab'[t].local) = Len(notices)]_inboxVars

=============================================================================
