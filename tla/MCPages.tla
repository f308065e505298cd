------------------------------- MODULE MCPages -------------------------------
(***************************************************************************)
(* The pages of the web user interface with the services behind them, on   *)
(* small instances.                                                         *)
(*                                                                         *)
(* The components share no variable, so each property of one of them holds *)
(* of all behaviours if it holds of those in which only that one moves:     *)
(* part names the one that does, the others rest in their initial states.   *)
(***************************************************************************)
EXTENDS Naturals, Sequences, FiniteSets

CONSTANTS Parts,                     \* the parts of this run
          NoCondition, Grant         \* model values of CatalogPool and MaintainedHub

VARIABLES
  part,
  rows, choice, stack, page, requests, seen, calm, changes,    \* CatalogPool, MaintainedHub
  history, position, canSeeAll, told,
  table, tx, editor, saves, edits, last,                       \* SupportChannels
  package, maintains, feedback, lines, form, received, sent,   \* Feedback
  console, statusChanges, settled, turns,
  version, reviews, grade, desk, deskRequests, unsure, deskLoads,  \* ReviewDesk
  notices, readings, tab, tabRequests, tabLoads,               \* Inbox
  queue, role, url, draft, view, asked, trail, quiet, queueChanges, asks  \* ReviewQueue

listVars == <<rows, choice, stack, page, requests, seen, calm, changes, history, position, canSeeAll, told>>
channelVars == <<table, tx, editor, saves, edits, last>>
feedbackVars == <<package, maintains, feedback, lines, form, received, sent, console, statusChanges, settled, turns>>
deskVars == <<version, reviews, grade, desk, deskRequests, unsure, deskLoads>>
inboxVars == <<notices, readings, tab, tabRequests, tabLoads>>
queueVars == <<queue, role, url, draft, view, asked, trail, quiet, queueChanges, asks>>
pagesVars == <<part, listVars, channelVars, feedbackVars, deskVars, inboxVars, queueVars>>

-----------------------------------------------------------------------------
(* The instances. *)

\* Three packages, two of one name, on pages of two rows, and a history of two addresses.
PoolPage == INSTANCE CatalogPool WITH
  Packages <- 1 .. 3, Words <- {"code", "web"}, Grades <- {"basic", "premium"},
  TextOf <- [p \in 1 .. 3 |-> IF p = 2 THEN {} ELSE {"code"}], TeamOf <- [p \in 1 .. 3 |-> "web"],
  GradeOf <- [p \in 1 .. 3 |-> IF p = 3 THEN "premium" ELSE "basic"],
  NameOf <- <<1, 2, 2>>, IdOf <- <<2, 1, 3>>,
  Limit <- 2, MaxAsked <- 3, MaxChanges <- 1, MaxHistory <- 2

\* One package of the viewer's own, one of the team, one of another team.
HubPage == INSTANCE MaintainedHub WITH
  Packages <- 1 .. 3, Mine <- {2}, Ours <- {2, 3}, PlaceOf <- <<1, 2, 3>>,
  Limit <- 1, MaxAsked <- 4, MaxChanges <- 1

\* Two addresses, one of them also typed with a blank behind it.
Trimmed(v) == IF v = "a_" THEN "a" ELSE v
OneEditor == INSTANCE SupportChannels WITH
  Editors <- {"left"}, Addresses <- {"a", "b"}, Typed <- {"a", "a_", "b", "none"}, Trim <- Trimmed,
  Blank <- "none", Label <- "label", MaxChannels <- 2, MaxSaves <- 3, MaxEdits <- 5
TwoEditors == INSTANCE SupportChannels WITH
  Editors <- {"left", "right"}, Addresses <- {"a", "b"}, Typed <- {"a", "a_", "b", "none"}, Trim <- Trimmed,
  Blank <- "none", Label <- "label", MaxChannels <- 2, MaxSaves <- 2, MaxEdits <- 2

\* One form and one console; two consoles; a package that is archived meanwhile.
OneConsole == INSTANCE Feedback WITH
  Reporters <- {"guest"}, Anonymous <- {"guest"}, Consoles <- {"left"}, MaxReports <- 2, MaxChanges <- 1,
  MaxTurns <- 0, audit <- lines, told <- received, changes <- statusChanges, calm <- settled
TwoConsoles == INSTANCE Feedback WITH
  Reporters <- {"guest"}, Anonymous <- {"guest"}, Consoles <- {"left", "right"}, MaxReports <- 1, MaxChanges <- 2,
  MaxTurns <- 0, audit <- lines, told <- received, changes <- statusChanges, calm <- settled
Closing == INSTANCE Feedback WITH
  Reporters <- {"guest"}, Anonymous <- {"guest"}, Consoles <- {"left"}, MaxReports <- 1, MaxChanges <- 1,
  MaxTurns <- 1, audit <- lines, told <- received, changes <- statusChanges, calm <- settled

\* Two reviewers; one reviewer who also grades.
TwoDesks == INSTANCE ReviewDesk WITH
  Desks <- {"left", "right"}, Grades <- {"basic"}, MaxRevisions <- 1, MaxRequests <- 2, MaxLoads <- 3,
  requests <- deskRequests, loads <- deskLoads
OneDesk == INSTANCE ReviewDesk WITH
  Desks <- {"left"}, Grades <- {"basic", "premium"}, MaxRevisions <- 1, MaxRequests <- 2, MaxLoads <- 2,
  requests <- deskRequests, loads <- deskLoads

\* Two tabs of one user; one tab with every filter.
TwoTabs == INSTANCE Inbox WITH
  Tabs <- {"left", "right"}, Types <- {"version_published"}, Published <- "version_published",
  Limit <- 2, MaxNotices <- 2, MaxRequests <- 3, MaxLoads <- 2,
  audit <- readings, requests <- tabRequests, loads <- tabLoads
OneTab == INSTANCE Inbox WITH
  Tabs <- {"left"}, Types <- {"version_published", "version_emergency_disabled"}, Published <- "version_published",
  Limit <- 2, MaxNotices <- 2, MaxRequests <- 2, MaxLoads <- 2,
  audit <- readings, requests <- tabRequests, loads <- tabLoads

\* A queue others change; its pages turned to and fro.
ChangedQueue == INSTANCE ReviewQueue WITH
  Systems <- {"linux"}, PageSize <- 2, MaxReviews <- 3, MaxChanges <- 1, MaxAsked <- 2,
  reviews <- queue, calm <- quiet, changes <- queueChanges
TurnedQueue == INSTANCE ReviewQueue WITH
  Systems <- {"linux"}, PageSize <- 1, MaxReviews <- 3, MaxChanges <- 1, MaxAsked <- 3,
  reviews <- queue, calm <- quiet, changes <- queueChanges

-----------------------------------------------------------------------------
(* What moves. *)

ListOnly(p) == part = p /\ UNCHANGED <<part, channelVars, feedbackVars, deskVars, inboxVars, queueVars>>
ChannelsOnly(p) == part = p /\ UNCHANGED <<part, listVars, feedbackVars, deskVars, inboxVars, queueVars>>
FeedbackOnly(p) == part = p /\ UNCHANGED <<part, listVars, channelVars, deskVars, inboxVars, queueVars>>
DeskOnly(p) == part = p /\ UNCHANGED <<part, listVars, channelVars, feedbackVars, inboxVars, queueVars>>
InboxOnly(p) == part = p /\ UNCHANGED <<part, listVars, channelVars, feedbackVars, deskVars, queueVars>>
QueueOnly(p) == part = p /\ UNCHANGED <<part, listVars, channelVars, feedbackVars, deskVars, inboxVars>>

\* Filters in one condition at a time.
OneCondition(f) == (f.keyword # NoCondition => f.grade = NoCondition) /\ (f.sort = "name_desc" => f.keyword = NoCondition)

PoolMoves ==
  /\ ListOnly("pool") /\ UNCHANGED <<canSeeAll, told>>
  /\ \/ PoolPage!Turn /\ UNCHANGED <<history, position>>
     \/ \E i \in 1 .. 3 : PoolPage!List!Comes(i) /\ UNCHANGED <<history, position>>
     \/ \E p \in 1 .. 3 : PoolPage!List!Change(p) /\ UNCHANGED <<history, position>>
     \/ \E f \in PoolPage!Filters : OneCondition(f) /\ PoolPage!UpdateParams(f)
     \/ \E i \in 1 .. 2 : PoolPage!Travel(i)

HubMoves == ListOnly("hub") /\ UNCHANGED <<history, position>> /\ HubPage!Next

\* What an editor types before saving disturbs nobody: here it is one step.
Drafts == {<<[address |-> "a", label |-> "label"], [address |-> "b", label |-> "label"]>>,
           <<[address |-> "b", label |-> "label"], [address |-> "a_", label |-> "label"]>>,
           <<[address |-> "b", label |-> "label"]>>, <<>>}

EditorMoves == ChannelsOnly("editor") /\ OneEditor!Next
EditorsMove ==
  /\ ChannelsOnly("editors")
  /\ \E e \in {"left", "right"} :
       \/ TwoEditors!Open(e) \/ TwoEditors!HandleSave(e) \/ TwoEditors!Answered(e) \/ TwoEditors!Runs(e)
       \/ \E d \in Drafts : TwoEditors!Edit(e, d)

\* A form with something missing, or filled in; every record, or the open needs.
Filled == {[satisfaction |-> 1, category |-> "other", detail |-> "text", needs |-> TRUE],
           [satisfaction |-> 5, category |-> "other", detail |-> "blank", needs |-> FALSE]}
Chosen == {[needs |-> "any", status |-> "any"], [needs |-> "yes", status |-> "open"]}

\* The console on the right stays open.
ConsoleMoves ==
  \E c \in {"left", "right"} :
    \/ TwoConsoles!Locate(c) \/ TwoConsoles!GetFeedbackSummary(c) \/ TwoConsoles!ListFeedback(c)
    \/ c = "left" /\ TwoConsoles!Leave(c)
    \/ \E status \in TwoConsoles!Statuses : TwoConsoles!ChangeStatus(c, 1, status)

ReportsMove ==
  /\ FeedbackOnly("reports")
  /\ \/ OneConsole!Runs
     \/ OneConsole!SubmitInvalid("guest") \/ OneConsole!HandleSubmit("guest") \/ OneConsole!Again("guest")
     \/ \E v \in Filled : OneConsole!Type("guest", v)
     \/ OneConsole!Locate("left") \/ OneConsole!GetFeedbackSummary("left") \/ OneConsole!ListFeedback("left") \/ OneConsole!Leave("left")
     \/ \E f \in Chosen : OneConsole!SetFilter("left", f)
     \/ \E id \in 1 .. 2, status \in OneConsole!Statuses : OneConsole!ChangeStatus("left", id, status)

\* One report, as soon as it is typed.
ConsolesMove ==
  /\ FeedbackOnly("consoles")
  /\ \/ TwoConsoles!Runs \/ ConsoleMoves \/ TwoConsoles!HandleSubmit("guest")
     \/ form["guest"].value = TwoConsoles!EmptyValue
        /\ \E v \in Filled : TwoConsoles!ValidateFeedback(v) /\ TwoConsoles!Type("guest", v)

ClosingMoves ==
  /\ FeedbackOnly("closing")
  /\ \/ Closing!Turn \/ Closing!Runs
     \/ Closing!HandleSubmit("guest") \/ Closing!Again("guest") \/ \E v \in Filled : Closing!Type("guest", v)
     \/ Closing!Locate("left") \/ Closing!GetFeedbackSummary("left") \/ Closing!ListFeedback("left") \/ Closing!Leave("left")
     \/ \E status \in Closing!Statuses : Closing!ChangeStatus("left", 1, status)

\* Two reviewers decide; the grade of the package rests.
DesksMove ==
  /\ DeskOnly("desks")
  /\ \/ TwoDesks!Submit \/ TwoDesks!Revise
     \/ \E d \in {"left", "right"} : TwoDesks!Deciding(d)
     \/ \E i \in DOMAIN deskRequests : TwoDesks!Answers(i) \/ TwoDesks!Losing(i)

\* Answers are lost, but no body is cut off.
DeskComes(i) == OneDesk!Answers(i) \/ (deskRequests[i].heard /\ OneDesk!Lost(i, "retryable"))
DeskMoves ==
  /\ DeskOnly("desk")
  /\ \/ OneDesk!Submit \/ OneDesk!Revise \/ OneDesk!Deciding("left") \/ OneDesk!Grading("left")
     \/ \E i \in DOMAIN deskRequests : DeskComes(i)

\* Two tabs that show the unread notices or all of them.
TabsMove ==
  /\ InboxOnly("tabs")
  /\ \/ TwoTabs!Notify("version_published")
     \/ \E t \in {"left", "right"} :
          \/ TwoTabs!Open(t) \/ TwoTabs!FetchNotifications(t) \/ TwoTabs!FetchFails(t) \/ TwoTabs!SetFilter(t, "all")
          \/ \E id \in 1 .. 2 : TwoTabs!HandleRead(t, id)
     \/ \E i \in DOMAIN tabRequests : TwoTabs!Reads(i)

TabMoves == InboxOnly("tab") /\ OneTab!Next

Typed == {[status |-> "approved", os |-> ChangedQueue!AllSystems], [status |-> "pending", os |-> "linux"]}
QueueMoves ==
  /\ QueueOnly("queue")
  /\ \/ \E review \in ChangedQueue!Reviews : ChangedQueue!OpenReview(review)
     \/ \E id \in DOMAIN queue : ChangedQueue!DecideReview(id)
     \/ ChangedQueue!ChangeRole
     \/ \E filters \in Typed : ChangedQueue!TypeDraft(filters)
     \/ ChangedQueue!ApplyFilters \/ ChangedQueue!Reload \/ \E cursor \in ChangedQueue!Ids : ChangedQueue!OpenUrl(cursor)
     \/ ChangedQueue!Serves

\* One review more, the role that comes and goes, and every way to turn a page.
TurnedMoves ==
  /\ QueueOnly("turned")
  /\ \/ \E review \in TurnedQueue!Reviews : TurnedQueue!OpenReview(review)
     \/ TurnedQueue!ChangeRole
     \/ TurnedQueue!TypeDraft([status |-> "pending", os |-> "linux"])
     \/ TurnedQueue!ApplyFilters \/ TurnedQueue!Clear \/ TurnedQueue!NextPage \/ TurnedQueue!PreviousPage \/ TurnedQueue!Reload
     \/ TurnedQueue!OpenUrl(1)
     \/ TurnedQueue!Serves

-----------------------------------------------------------------------------

\* A list has no history of filters in the hub, no right in the pool.
ListInit ==
  IF part = "hub" THEN HubPage!Init /\ history = <<>> /\ position = 0
  ELSE PoolPage!Init /\ canSeeAll = FALSE /\ told = <<>>

\* The reviews there already are of versions written before there were targets.
QueueInit ==
  /\ IF part = "turned" THEN TurnedQueue!Init ELSE ChangedQueue!Init
  /\ role /\ \A id \in DOMAIN queue : queue[id].legacy = (queue[id].targets # {})
  /\ part \notin {"queue", "turned"} => \A id \in DOMAIN queue : queue[id].own /\ queue[id].targets = {}

Init ==
  /\ part \in Parts
  /\ ListInit
  /\ IF part = "editors" THEN TwoEditors!Init ELSE OneEditor!Init
  /\ IF part = "consoles" THEN TwoConsoles!Init ELSE OneConsole!Init
  /\ IF part = "desks" THEN TwoDesks!Init ELSE OneDesk!Init /\ (part # "desk" => grade = "basic")
  /\ IF part = "tabs" THEN TwoTabs!Init ELSE OneTab!Init
  /\ QueueInit

Next ==
  \/ PoolMoves \/ HubMoves
  \/ EditorMoves \/ EditorsMove
  \/ ReportsMove \/ ConsolesMove \/ ClosingMoves
  \/ DesksMove \/ DeskMoves
  \/ TabsMove \/ TabMoves
  \/ QueueMoves \/ TurnedMoves

Spec == Init /\ [][Next]_pagesVars

(* Requests come back, with an answer or without; nobody has to press      *)
(* anything.  Each part has at most four actions that go on by themselves:  *)
(* the one of a given number is fair, of whichever part it is.              *)
Comes(i) ==
  \/ ListOnly("pool") /\ PoolPage!List!Comes(i) /\ UNCHANGED <<history, position, canSeeAll, told>>
  \/ ListOnly("hub") /\ HubPage!Comes(i) /\ UNCHANGED <<history, position>>
  \/ ChannelsOnly("editors") /\ \/ i = 1 /\ TwoEditors!Runs("left")
                                \/ i = 2 /\ TwoEditors!Answered("left")
                                \/ i = 3 /\ TwoEditors!Runs("right")
                                \/ i = 4 /\ TwoEditors!Answered("right")
  \/ FeedbackOnly("closing") /\ i = 1 /\ Closing!Runs
  \/ DeskOnly("desk") /\ i \in DOMAIN deskRequests /\ DeskComes(i)
  \/ InboxOnly("tab") /\ \/ i \in DOMAIN tabRequests /\ OneTab!Reads(i)
                         \/ i = 3 /\ (OneTab!FetchNotifications("left") \/ OneTab!FetchFails("left"))
  \/ QueueOnly("turned") /\ i = 1 /\ TurnedQueue!Serves

FairSpec == Spec /\ \A i \in 1 .. 4 : WF_pagesVars(Comes(i))

-----------------------------------------------------------------------------
(* The properties of the components, by what they are about. *)

ASSUME PagesAssumption ==
  /\ PoolPage!List!PageAssumption /\ HubPage!List!PageAssumption
  /\ PoolPage!PoolAssumption /\ HubPage!HubAssumption /\ OneEditor!ChannelsAssumption /\ TwoEditors!ChannelsAssumption
  /\ OneConsole!FeedbackAssumption /\ TwoConsoles!FeedbackAssumption /\ Closing!FeedbackAssumption
  /\ TwoDesks!DeskAssumption /\ OneDesk!DeskAssumption /\ TwoTabs!InboxAssumption /\ OneTab!InboxAssumption
  /\ ChangedQueue!QueueAssumption /\ TurnedQueue!QueueAssumption

In(p, holds) == part = p => holds

Shapes ==
  /\ In("pool", PoolPage!TypeOK) /\ In("hub", HubPage!TypeOK)
  /\ In("editor", OneEditor!TypeOK) /\ In("editors", TwoEditors!TypeOK)
  /\ In("reports", OneConsole!TypeOK) /\ In("consoles", TwoConsoles!TypeOK) /\ In("closing", Closing!TypeOK)
  /\ In("desks", TwoDesks!TypeOK) /\ In("desk", OneDesk!TypeOK)
  /\ In("tabs", TwoTabs!TypeOK) /\ In("tab", OneTab!TypeOK)
  /\ In("queue", ChangedQueue!TypeOK) /\ In("turned", TurnedQueue!TypeOK)

(* What a page of a list shows is what its address, its tab or its filters *)
(* ask for, however the answers overtake one another and the list changes   *)
(* under the cursors.                                                       *)
ListsShowWhatIsAsked ==
  /\ Shapes
  /\ In("pool", PoolPage!ShownIsAsked /\ PoolPage!ShownMatches /\ PoolPage!PagesCoverTheList)
  /\ In("hub", HubPage!TabTellsTheScope /\ HubPage!AllNeedsTheRight /\ HubPage!PagesCoverTheList)
  /\ In("turned", TurnedQueue!CalmPageIsOfQueue /\ TurnedQueue!PreviousIsBack)
  /\ In("queue", ChangedQueue!CalmQueueIsFound /\ ChangedQueue!CalmPageIsOfQueue)

(* A page tells of nothing the server has not written: no decision, no     *)
(* status of a report, no notice read and no report received, though        *)
(* answers are lost, late or refused.                                       *)
ShownIsReal ==
  /\ In("desks", TwoDesks!ShownDecisionIsReal)
  /\ In("tabs", TwoTabs!ShownReadIsReal)
  /\ In("reports", OneConsole!ReceivedIsStored /\ OneConsole!FiguresAreOfTheList)
  /\ In("consoles", TwoConsoles!ShownStatusWasReal)

(* Where several people write at the same time, or one twice, what is      *)
(* stored is what they were told: one decision of a review, of what the     *)
(* page showed; one record of a reading; the status of the last audit line; *)
(* all channels of the last save, and none twice.                           *)
StoredIsDecided ==
  /\ In("desks", TwoDesks!ReleasedWasShown /\ TwoDesks!DecidedOnce)
  /\ In("tabs", TwoTabs!ReadRecordedOnce)
  /\ In("consoles", TwoConsoles!AuditTellsStatus)
  /\ In("editors", TwoEditors!AddressesUnique /\ TwoEditors!LastSaveComplete)
  /\ In("desk", OneDesk!GradeWasPicked)

(* No step of a page undoes what it was told: nothing is sent again before *)
(* a missing answer was looked up, no notice turns unread, a channel that   *)
(* is kept keeps its identity and the list saved is the whole result.       *)
PagesRemember ==
  [][/\ part = "desk" => OneDesk!SentSurely
     /\ part = "editor" => OneEditor!CommitsWhole /\ OneEditor!KeepsIdentity
     /\ part = "tab" => OneTab!StaysRead]_pagesVars

\* What a page waits for; an editor and a tab wait for two things at a time.
Waits ==
  \/ part \in {"pool", "hub"} /\ page.state = "loading"
  \/ part = "turned" /\ view.state = "loading"
  \/ part = "editors" /\ editor["left"].saving
  \/ part = "closing" /\ form["guest"].state \notin {"editing", "done"}
  \/ part = "desk" /\ desk["left"].submitting
  \/ part = "tab" /\ tab["left"].state = "loading"
WaitsToo ==
  \/ part = "editors" /\ editor["right"].saving
  \/ part = "closing" /\ console["left"].busy # 0
  \/ part = "tab" /\ tab["left"].busy # 0

(* No page waits for ever: not for a list, a decision, a change of status, *)
(* a notice, or two transactions that wait for one another.                 *)
WaitingEnds == (Waits ~> ~Waits) /\ (WaitsToo ~> ~WaitsToo)

=============================================================================
