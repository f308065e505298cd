------------------------------ MODULE Feedback ------------------------------
(***************************************************************************)
(* Feedback on the versions of one package: the forms it is sent from, the *)
(* service and its table, and the consoles of the maintainers, whose page   *)
(* asks for the figures and for the records in two requests.                *)
(***************************************************************************)
EXTENDS Naturals, Sequences, FiniteSets, SequencesExt

CONSTANTS
  Reporters,    \* the open forms, of people logged in or anonymous
  Consoles,     \* the open consoles, each of one person
  Anonymous,    \* the reporters who are not logged in
  MaxReports,   \* bound: reports sent
  MaxChanges,   \* bound: changes of a status asked for
  MaxTurns      \* bound: changes of the package and of the roles

FeedbackAssumption ==
  /\ Anonymous \subseteq Reporters
  /\ MaxReports \in Nat /\ MaxChanges \in Nat /\ MaxTurns \in Nat

VARIABLES
  package,    \* its lifecycle and visibility
  maintains,  \* the consoles whose user may maintain the package
  feedback,   \* the table; a record's id is its place
  audit,      \* the audit lines of the changes
  form,       \* the form of each reporter
  told,       \* how often a form said that the report was received
  sent,       \* how many reports were sent
  console,    \* the page of each maintainer
  changes,    \* the changes of a status asked for
  calm,       \* consoles during whose loading, and since, no record changed
  turns       \* how often the package or a role changed

feedbackVars == <<package, maintains, feedback, audit, form, told, sent, console, changes, calm, turns>>

Statuses == {"open", "acknowledged", "resolved"}
Records == [author : Reporters, satisfaction : 1 .. 5, needs : BOOLEAN, status : Statuses]

\* 0, "" and "blank": not chosen, empty, nothing but blanks.
Values == [satisfaction : 0 .. 5, category : {"", "other"}, detail : {"", "blank", "text"}, needs : BOOLEAN]
EmptyValue == [satisfaction |-> 0, category |-> "", detail |-> "", needs |-> FALSE]

Forms == [value : Values, state : {"editing", "sent", "stored", "refused", "done"}, error : BOOLEAN, report : Values]
EmptyForm == [value |-> EmptyValue, state |-> "editing", error |-> FALSE, report |-> EmptyValue]

Summaries == [total : Nat, needs : Nat, open : Nat]
NoSummary == [total |-> 0, needs |-> 0, open |-> 0]

\* The answers of a page that is loading come one by one.
Pages == [state : {"closed", "loading", "shown"}, counted : BOOLEAN, listed : BOOLEAN, summary : Summaries,
          local : Seq(Records), filter : [needs : {"any", "yes", "no"}, status : Statuses \cup {"any"}],
          busy : Nat, error : BOOLEAN]
AllFilter == [needs |-> "any", status |-> "any"]
ClosedPage == [state |-> "closed", counted |-> FALSE, listed |-> FALSE, summary |-> NoSummary,
               local |-> <<>>, filter |-> AllFilter, busy |-> 0, error |-> FALSE]

Changes == [console : Consoles, id : Nat, status : Statuses, heard : BOOLEAN,
            state : {"sent", "admitted", "updated", "refused", "answered"}]

-----------------------------------------------------------------------------
(* Who may see what. *)

RequireVisiblePackage(r) == package.active /\ (package.public \/ r \notin Anonymous)
RequireMaintainer(c) == c \in maintains

\* An administrator archives the package, hides it or takes a role away.
Turn ==
  /\ turns < MaxTurns /\ turns' = turns + 1
  /\ \/ package.active /\ package' = [package EXCEPT !.active = FALSE] /\ maintains' = maintains
     \/ package.public /\ package' = [package EXCEPT !.public = FALSE] /\ maintains' = maintains
     \/ \E c \in maintains : maintains' = maintains \ {c} /\ package' = package
  /\ UNCHANGED <<feedback, audit, form, told, sent, console, changes, calm>>

-----------------------------------------------------------------------------
(* The form. *)

Fill(r, new) == form' = [form EXCEPT ![r] = new]
FormOnly == UNCHANGED <<package, maintains, feedback, audit, console, changes, calm, turns>>

\* The fields are open while a report is on its way.
Type(r, value) ==
  /\ form[r].state # "done" /\ value # form[r].value
  /\ Fill(r, [form[r] EXCEPT !.value = value])
  /\ UNCHANGED <<told, sent>> /\ FormOnly

ValidateFeedback(value) == value.satisfaction # 0 /\ value.category # "" /\ value.detail \notin {"", "blank"}

SubmitInvalid(r) ==
  /\ form[r].state = "editing" /\ ~form[r].error /\ ~ValidateFeedback(form[r].value)
  /\ Fill(r, [form[r] EXCEPT !.error = TRUE])
  /\ UNCHANGED <<told, sent>> /\ FormOnly

HandleSubmit(r) ==
  /\ form[r].state = "editing" /\ ValidateFeedback(form[r].value) /\ sent < MaxReports
  /\ sent' = sent + 1
  /\ Fill(r, [form[r] EXCEPT !.state = "sent", !.error = FALSE, !.report = form[r].value])
  /\ UNCHANGED told /\ FormOnly

\* Of an anonymous reporter the record keeps the UUID.
SubmitFeedback(r) ==
  /\ form[r].state = "sent" /\ RequireVisiblePackage(r)
  /\ feedback' = Append(feedback, [author |-> r, satisfaction |-> form[r].report.satisfaction,
                                   needs |-> form[r].report.needs, status |-> "open"])
  /\ Fill(r, [form[r] EXCEPT !.state = "stored"])
  /\ calm' = {}
  /\ UNCHANGED <<package, maintains, audit, told, sent, console, changes, turns>>

RefuseFeedback(r) ==
  /\ form[r].state = "sent" /\ ~RequireVisiblePackage(r)
  /\ Fill(r, [form[r] EXCEPT !.state = "refused"])
  /\ UNCHANGED <<told, sent>> /\ FormOnly

Received(r) ==
  /\ form[r].state = "stored"
  /\ Fill(r, [form[r] EXCEPT !.state = "done", !.value = EmptyValue])
  /\ told' = [told EXCEPT ![r] = @ + 1]
  /\ UNCHANGED sent /\ FormOnly

\* Refused, or the request or its answer is lost: what was typed stays.
SubmitFails(r) ==
  /\ form[r].state \in {"sent", "stored", "refused"}
  /\ Fill(r, [form[r] EXCEPT !.state = "editing", !.error = TRUE])
  /\ UNCHANGED <<told, sent>> /\ FormOnly

Again(r) ==
  /\ form[r].state = "done"
  /\ Fill(r, [form[r] EXCEPT !.state = "editing"])
  /\ UNCHANGED <<told, sent>> /\ FormOnly

-----------------------------------------------------------------------------
(* The console. *)

Counted(records, Test(_)) == Cardinality({i \in DOMAIN records : Test(records[i])})
Pending(record) == record.needs /\ record.status # "resolved"
Wanted(record) == record.needs

SummarizeFeedback(records) ==
  [total |-> Len(records), needs |-> Counted(records, Wanted), open |-> Counted(records, Pending)]

FilterFeedback(record, filter) ==
  /\ filter.needs # "any" => record.needs = (filter.needs = "yes")
  /\ filter.status # "any" => record.status = filter.status

View(c, new) == console' = [console EXCEPT ![c] = new]
ConsoleOnly == UNCHANGED <<package, maintains, feedback, audit, form, told, sent, turns>>

Locate(c) ==
  /\ console[c].state = "closed"
  /\ View(c, [ClosedPage EXCEPT !.state = "loading"])
  /\ calm' = calm \cup {c}
  /\ UNCHANGED changes /\ ConsoleOnly

Show(page) == [page EXCEPT !.state = IF page.counted /\ page.listed THEN "shown" ELSE "loading"]

GetFeedbackSummary(c) ==
  /\ console[c].state = "loading" /\ ~console[c].counted /\ RequireMaintainer(c)
  /\ View(c, Show([console[c] EXCEPT !.counted = TRUE, !.summary = SummarizeFeedback(feedback)]))
  /\ UNCHANGED <<changes, calm>> /\ ConsoleOnly

ListFeedback(c) ==
  /\ console[c].state = "loading" /\ ~console[c].listed /\ RequireMaintainer(c)
  /\ View(c, Show([console[c] EXCEPT !.listed = TRUE, !.local = feedback]))
  /\ UNCHANGED <<changes, calm>> /\ ConsoleOnly

\* A request fails, or another package is chosen: the page hears of no change it asked for.
Leave(c) ==
  /\ console[c].state # "closed"
  /\ View(c, ClosedPage)
  /\ changes' = [i \in DOMAIN changes |-> [changes[i] EXCEPT !.heard = @ /\ changes[i].console # c]]
  /\ UNCHANGED calm /\ ConsoleOnly

SetFilter(c, filter) ==
  /\ console[c].state = "shown" /\ filter # console[c].filter
  /\ View(c, [console[c] EXCEPT !.filter = filter])
  /\ UNCHANGED <<changes, calm>> /\ ConsoleOnly

\* The buttons of a record.
Offered(status) ==
  CASE status = "open" -> {"acknowledged", "resolved"}
    [] status = "acknowledged" -> {"resolved"}
    [] status = "resolved" -> {"open"}

\* busyId holds one id: a change of another record frees the buttons of the first.
ChangeStatus(c, id, status) ==
  /\ console[c].state = "shown" /\ id \in DOMAIN console[c].local /\ Len(changes) < MaxChanges
  /\ FilterFeedback(console[c].local[id], console[c].filter)
  /\ console[c].busy # id /\ status \in Offered(console[c].local[id].status)
  /\ View(c, [console[c] EXCEPT !.busy = id, !.error = FALSE])
  /\ changes' = Append(changes, [console |-> c, id |-> id, status |-> status, state |-> "sent", heard |-> TRUE])
  /\ UNCHANGED calm /\ ConsoleOnly

Became(i, state) == changes' = [changes EXCEPT ![i].state = state]

\* The role is asked for before the transaction that writes, which does not ask again.
AdmitChange(i) ==
  /\ changes[i].state = "sent" /\ RequireMaintainer(changes[i].console)
  /\ Became(i, "admitted")
  /\ UNCHANGED <<console, calm>> /\ ConsoleOnly

\* Whatever the status was: there is none the caller expects.
UpdateFeedbackStatus(i) ==
  /\ changes[i].state = "admitted"
  /\ feedback' = [feedback EXCEPT ![changes[i].id].status = changes[i].status]
  /\ audit' = Append(audit, [id |-> changes[i].id, status |-> changes[i].status, by |-> changes[i].console])
  /\ calm' = {} /\ Became(i, "updated")
  /\ UNCHANGED <<package, maintains, form, told, sent, console, turns>>

RefuseChange(i) ==
  /\ changes[i].state = "sent" /\ ~RequireMaintainer(changes[i].console)
  /\ Became(i, "refused")
  /\ UNCHANGED <<console, calm>> /\ ConsoleOnly

Hears(i, new) == console' = IF changes[i].heard THEN [console EXCEPT ![changes[i].console] = new] ELSE console

Answered(i) ==
  LET c == changes[i].console
      id == changes[i].id
  IN /\ changes[i].state = "updated" /\ Became(i, "answered")
     /\ Hears(i, [console[c] EXCEPT !.busy = 0,
                    !.local = [k \in DOMAIN @ |-> IF k = id THEN [@[k] EXCEPT !.status = changes[i].status] ELSE @[k]]])
     /\ UNCHANGED calm /\ ConsoleOnly

\* Refused, or the request or its answer is lost.
ChangeFails(i) ==
  LET c == changes[i].console IN
  /\ changes[i].state # "answered" /\ Became(i, "answered")
  /\ Hears(i, [console[c] EXCEPT !.busy = 0, !.error = TRUE])
  /\ UNCHANGED calm /\ ConsoleOnly

\* The connection breaks under a request that goes on: it may be written yet.
ChangeBreaks(i) ==
  LET c == changes[i].console IN
  /\ changes[i].state \in {"sent", "admitted"} /\ changes[i].heard
  /\ changes' = [changes EXCEPT ![i].heard = FALSE]
  /\ View(c, [console[c] EXCEPT !.busy = 0, !.error = TRUE])
  /\ UNCHANGED calm /\ ConsoleOnly

-----------------------------------------------------------------------------

Init ==
  /\ package = [active |-> TRUE, public |-> TRUE] /\ maintains = Consoles
  /\ feedback = <<>> /\ audit = <<>>
  /\ form = [r \in Reporters |-> EmptyForm] /\ told = [r \in Reporters |-> 0] /\ sent = 0
  /\ console = [c \in Consoles |-> ClosedPage] /\ changes = <<>> /\ calm = {} /\ turns = 0

\* What comes of a request, one way or another.
Runs ==
  \/ \E r \in Reporters : SubmitFeedback(r) \/ RefuseFeedback(r) \/ Received(r) \/ SubmitFails(r)
  \/ \E i \in DOMAIN changes :
       \/ AdmitChange(i) \/ UpdateFeedbackStatus(i) \/ RefuseChange(i)
       \/ Answered(i) \/ ChangeFails(i) \/ ChangeBreaks(i)

Next ==
  \/ Turn \/ Runs
  \/ \E r \in Reporters : SubmitInvalid(r) \/ HandleSubmit(r) \/ Again(r) \/ \E v \in Values : Type(r, v)
  \/ \E c \in Consoles :
       \/ Locate(c) \/ GetFeedbackSummary(c) \/ ListFeedback(c) \/ Leave(c)
       \/ \E needs \in {"any", "yes", "no"}, status \in Statuses \cup {"any"} :
            SetFilter(c, [needs |-> needs, status |-> status])
       \/ \E id \in 1 .. MaxReports, status \in Statuses : ChangeStatus(c, id, status)

Spec == Init /\ [][Next]_feedbackVars /\ WF_feedbackVars(Runs)

-----------------------------------------------------------------------------
(* Properties. *)

TypeOK ==
  /\ package \in [active : BOOLEAN, public : BOOLEAN] /\ maintains \subseteq Consoles
  /\ feedback \in Seq(Records) /\ audit \in Seq([id : Nat, status : Statuses, by : Consoles])
  /\ form \in [Reporters -> Forms] /\ told \in [Reporters -> Nat] /\ sent \in 0 .. MaxReports
  /\ console \in [Consoles -> Pages] /\ changes \in Seq(Changes) /\ calm \subseteq Consoles
  /\ turns \in 0 .. MaxTurns
  /\ \A c \in Consoles : console[c].state = "shown" => console[c].counted /\ console[c].listed

(* As often as a form said that a report was received, there is a record   *)
(* of it: answers may be lost and reports sent again, never the reverse.   *)
ReceivedIsStored ==
  \A r \in Reporters : told[r] <= Cardinality({i \in DOMAIN feedback : feedback[i].author = r})

Told(id) == {audit[k].status : k \in {k \in DOMAIN audit : audit[k].id = id}}

(* The audit line of a record written last names the status the record     *)
(* has, whichever console changed it; a record without a line is open.  The *)
(* lines are told in the order they were written: each also has the time    *)
(* its request was admitted, which overlapping changes may write in another *)
(* order.                                                                  *)
AuditTellsStatus ==
  \A id \in DOMAIN feedback :
    LET lines == {k \in DOMAIN audit : audit[k].id = id}
        newest == CHOOSE k \in lines : \A j \in lines : j <= k
    IN feedback[id].status = IF lines = {} THEN "open" ELSE audit[newest].status

(* A console shows of a record only a status it once had, though requests  *)
(* are refused, lost and answered out of order.                            *)
ShownStatusWasReal ==
  \A c \in Consoles : \A id \in DOMAIN console[c].local :
    console[c].local[id].status \in {"open"} \cup Told(id)

(* When no record changed while the page loaded, nor since, the figures of *)
(* the page are those of the records it lists.                             *)
FiguresAreOfTheList ==
  \A c \in calm : console[c].state = "shown" =>
    LET records == console[c].local
        needing == {i \in DOMAIN records : records[i].needs}
    IN /\ console[c].summary.total = Len(records)
       /\ console[c].summary.open = Cardinality({i \in needing : records[i].status \in {"open", "acknowledged"}})

=============================================================================
