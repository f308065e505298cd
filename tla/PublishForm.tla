----------------------------- MODULE PublishForm -----------------------------
(***************************************************************************)
(* The page on which a version is written (PublishForm in PublishPage.tsx, *)
(* publish-model.ts), used by several editors at once on the targets of    *)
(* ScriptTargets.                                                          *)
(*                                                                         *)
(* The page keeps the targets the server told it of, one form filled from  *)
(* the selected target, and a gate that holds the token of the newest      *)
(* request: whatever the editor does next takes the gate away from an      *)
(* older request, whose answer then changes the list of targets and        *)
(* nothing else.  The text areas stay open while a request is under way.   *)
(***************************************************************************)
EXTENDS ScriptTargets, Integers

CONSTANTS
  Editors,       \* the people who have the page open
  Owner,         \* whose page a request comes from
  NoRequest      \* the gate is held by no request

FormAssumption == TargetsAssumption /\ Owner \in [Requests -> Editors] /\ NoRequest \notin Requests

VARIABLES
  session,       \* the targets each page knows of
  selected,      \* the target its form is for
  form,          \* what its form holds: of which target, showing and expecting which revision
  gate,          \* the request whose token is current
  busy,          \* requestState # 'idle'
  submitted,     \* reviewSubmitted
  unsaved        \* words typed into the form since it was filled or sent

pageVars == <<session, selected, form, gate, busy, submitted, unsaved>>
vars == <<serverVars, pageVars>>

\* known: the newest revision the page had been told of when the form was filled.
Forms == [on : Targets \union {NoTarget}, shown : Nat, expected : Nat, known : Nat]
EmptyForm == [on |-> NoTarget, shown |-> 0, expected |-> 0, known |-> 0]

\* createVersion has just answered on every page: a draft without targets.
PageInit ==
  /\ Init
  /\ session = [e \in Editors |-> NoAnswer]
  /\ selected = [e \in Editors |-> NoTarget]
  /\ form = [e \in Editors |-> EmptyForm]
  /\ gate = [e \in Editors |-> NoRequest]
  /\ busy = [e \in Editors |-> FALSE]
  /\ submitted = [e \in Editors |-> FALSE]
  /\ unsaved = [e \in Editors |-> FALSE]

-----------------------------------------------------------------------------
(* What the page makes of a record. *)

\* currentScriptVersion: the current revision, or the newest when the target was just restored.
CurrentScriptVersion(record) == IF record.current # 0 THEN record.current ELSE record.last

Shown(e, t) == session[e][t].status = "active"
SelectedTarget(e) == selected[e] # NoTarget /\ Shown(e, selected[e])

TargetDraftFromRecord(t, record) ==
  [on |-> t, shown |-> record.current, expected |-> CurrentScriptVersion(record), known |-> record.last]

\* Seeded fault: the form keeps the words of the target it was on.
FillKept(e, t, record) ==
  /\ selected' = [selected EXCEPT ![e] = t]
  /\ unsaved' = [unsaved EXCEPT ![e] = FALSE]
  /\ form' = IF SelectedTarget(e) THEN form
             ELSE [form EXCEPT ![e] = TargetDraftFromRecord(t, record)]

\* selectTarget: the form is filled anew.
Fill(e, t, record) ==
  /\ selected' = [selected EXCEPT ![e] = t]
  /\ form' = [form EXCEPT ![e] = TargetDraftFromRecord(t, record)]
  /\ unsaved' = [unsaved EXCEPT ![e] = FALSE]

ClearForm(e) ==
  /\ selected' = [selected EXCEPT ![e] = NoTarget]
  /\ form' = [form EXCEPT ![e] = EmptyForm]
  /\ unsaved' = [unsaved EXCEPT ![e] = FALSE]

KeepForm == UNCHANGED <<selected, form, unsaved>>

\* reviewReadiness: every target the page knows of has a current revision.
CanSubmit(e) ==
  /\ \E t \in Targets : Shown(e, t)
  /\ \A t \in Targets : Shown(e, t) => session[e][t].current # 0

-----------------------------------------------------------------------------
(* What the editor does.  A request takes the gate; selecting a target      *)
(* takes it away and makes the page idle.                                   *)

Begin(e, r) == gate' = [gate EXCEPT ![e] = r] /\ busy' = [busy EXCEPT ![e] = TRUE]
Interrupt(e) == gate' = [gate EXCEPT ![e] = NoRequest] /\ busy' = [busy EXCEPT ![e] = FALSE]

Type(e) ==
  /\ SelectedTarget(e)
  /\ unsaved' = [unsaved EXCEPT ![e] = TRUE]
  /\ UNCHANGED <<serverVars, session, selected, form, gate, busy, submitted>>

Select(e, t) ==
  /\ Shown(e, t)
  /\ Interrupt(e)
  /\ Fill(e, t, session[e][t])
  /\ UNCHANGED <<serverVars, session, submitted>>

\* addTarget: the answer will take the form over, and the editor asked for that.
Add(e, r, t) ==
  /\ ~Shown(e, t) /\ ~busy[e]
  /\ Begin(e, r)
  /\ Arrive(r, "create", t, NoTarget, 0, NoContent)
  /\ unsaved' = [unsaved EXCEPT ![e] = FALSE]
  /\ UNCHANGED <<tables, session, selected, form, submitted>>

\* The form as it stands, trimmed and with its options normalised.
SaveRevisionPayload(e) == form[e]

\* A copy expects the version the page knows the destination at, whatever the form holds.
CopyExpects(e) == CurrentScriptVersion(session[e][selected[e]])

\* saveCurrent: the form goes to the selected target.
Save(e, r) ==
  /\ SelectedTarget(e) /\ ~busy[e]
  /\ Begin(e, r)
  /\ Arrive(r, "save", selected[e], NoTarget, SaveRevisionPayload(e).expected, SaveRevisionPayload(e))
  /\ unsaved' = [unsaved EXCEPT ![e] = FALSE]
  /\ UNCHANGED <<tables, session, selected, form, submitted>>

\* The sources offered are the other targets with a current revision.
Copy(e, r, s) ==
  /\ SelectedTarget(e) /\ ~busy[e]
  /\ Shown(e, s) /\ session[e][s].current # 0 /\ s # selected[e]
  /\ Begin(e, r)
  /\ Arrive(r, "copy", selected[e], s, CopyExpects(e), NoContent)
  /\ unsaved' = [unsaved EXCEPT ![e] = FALSE]
  /\ UNCHANGED <<tables, session, selected, form, submitted>>

\* removeTarget is offered while another request is under way, too.
Remove(e, r, t) ==
  /\ Shown(e, t)
  /\ Begin(e, r)
  /\ Arrive(r, "delete", t, NoTarget, CurrentScriptVersion(session[e][t]), NoContent)
  /\ unsaved' = [unsaved EXCEPT ![e] = @ /\ selected[e] # t]
  /\ UNCHANGED <<tables, session, selected, form, submitted>>

Reload(e, r) ==
  /\ Begin(e, r)
  /\ Arrive(r, "load", NoTarget, NoTarget, 0, NoContent)
  /\ unsaved' = [unsaved EXCEPT ![e] = FALSE]
  /\ UNCHANGED <<tables, session, selected, form, submitted>>

\* showHistory selects the target and asks for its revisions.
ShowHistory(e, r, t) ==
  /\ Shown(e, t)
  /\ Begin(e, r)
  /\ Arrive(r, "history", t, NoTarget, 0, NoContent)
  /\ Fill(e, t, session[e][t])
  /\ UNCHANGED <<tables, session, submitted>>

\* submitReview, with the check governance makes of the draft again; the answer is immediate.
SubmitReview(e) ==
  /\ CanSubmit(e) /\ ~busy[e] /\ ~submitted[e]
  /\ SubmitVersion
  /\ submitted' = [submitted EXCEPT ![e] = TRUE]
  /\ UNCHANGED <<session, selected, form, gate, busy, unsaved>>

-----------------------------------------------------------------------------
(* What the page does with an answer. *)

HasGate(e, r) == gate[e] = r

Told(r) == call[r].answer[call[r].target]

\* The record takes its place among the targets, or among the deleted ones.
ApplyTargetRecord(e, r) == session' = [session EXCEPT ![e][call[r].target] = Told(r)]

\* replaceTarget: the form follows when the request still has the gate.
TakeTarget(e, r) ==
  /\ call[r].op \in {"create", "save", "copy"}
  /\ ApplyTargetRecord(e, r)
  /\ IF HasGate(e, r) /\ Told(r).status = "active" THEN Fill(e, call[r].target, Told(r)) ELSE KeepForm
  /\ UNCHANGED submitted

TakeRemoved(e, r) ==
  /\ call[r].op = "delete"
  /\ ApplyTargetRecord(e, r)
  /\ IF HasGate(e, r) /\ selected[e] = call[r].target THEN ClearForm(e) ELSE KeepForm
  /\ UNCHANGED submitted

\* One of the active targets is selected, the first of the matrix.
HydratePublishSession(e, r) ==
  /\ session' = [session EXCEPT ![e] = call[r].answer]
  /\ \/ \E t \in Targets : call[r].answer[t].status = "active" /\ Fill(e, t, call[r].answer[t])
     \/ (\A t \in Targets : call[r].answer[t].status # "active") /\ ClearForm(e)

\* loadVersion
TakeVersion(e, r) ==
  /\ call[r].op = "load"
  /\ IF HasGate(e, r)
     THEN /\ HydratePublishSession(e, r)
          /\ submitted' = [submitted EXCEPT ![e] = ~call[r].draft]
     ELSE UNCHANGED <<session, submitted>> /\ KeepForm

TakeHistory(r) ==
  /\ call[r].op = "history"
  /\ UNCHANGED <<session, submitted>> /\ KeepForm

TakeRefusal(r) ==
  /\ call[r].stage = "refused"
  /\ UNCHANGED <<session, submitted>> /\ KeepForm

FinishRequest(e, r) ==
  /\ busy' = [busy EXCEPT ![e] = @ /\ ~HasGate(e, r)]
  /\ UNCHANGED gate

TakeAnswer(e, r) ==
  /\ Hangup(r)
  /\ \/ TakeRefusal(r)
     \/ call[r].stage = "answered" /\ (TakeTarget(e, r) \/ TakeRemoved(e, r) \/ TakeVersion(e, r) \/ TakeHistory(r))
  /\ FinishRequest(e, r)
  /\ UNCHANGED <<tables, calls>>

Click(e, r) ==
  \/ \E t \in Targets : Add(e, r, t) \/ Copy(e, r, t) \/ Remove(e, r, t) \/ ShowHistory(e, r, t)
  \/ Save(e, r)
  \/ Reload(e, r)

PageNext ==
  \/ \E r \in Requests :
       \/ Click(Owner[r], r)
       \/ Serve(r) /\ UNCHANGED pageVars
       \/ TakeAnswer(Owner[r], r)
  \/ \E e \in Editors : Type(e) \/ SubmitReview(e) \/ \E t \in Targets : Select(e, t)
  \/ ReviseVersion /\ UNCHANGED pageVars

PageSpec == PageInit /\ [][PageNext]_vars

-----------------------------------------------------------------------------
(* Properties. *)

PageTypeOK ==
  /\ TypeOK
  /\ session \in [Editors -> [Targets -> Records]]
  /\ selected \in [Editors -> Targets \union {NoTarget}]
  /\ form \in [Editors -> Forms]
  /\ gate \in [Editors -> Requests \union {NoRequest}]
  /\ busy \in [Editors -> BOOLEAN]
  /\ submitted \in [Editors -> BOOLEAN]
  /\ unsaved \in [Editors -> BOOLEAN]

Written(t) == {i \in 1 .. LastRevision(t) : revisions[t][i].copiedFrom = NoTarget}

\* What is saved to a target was written on that target's form, whatever answers came in and
\* whatever was selected, added or removed in the meantime.
SavedWhereWritten ==
  \A t \in Targets : \A i \in Written(t) : revisions[t][i].content.on = t

\* No revision replaces one its author's page had not been told of.
SavedOnKnownRevisions ==
  \A t \in Targets : \A i \in Written(t) : revisions[t][i].content.known >= i - 1

\* The gate: a page that waits waits for a request of its own that is under way, and no
\* answer, whatever the editor did before it came, leaves it busy for good.
BusyIsAnswered ==
  \A e \in Editors : busy[e] =>
    gate[e] \in Requests /\ Owner[gate[e]] = e /\ call[gate[e]].stage # "none"

\* "Updated by another request, please reload": whoever saves over a current revision has had
\* its words in the form.
SavedOnShownRevision ==
  \A t \in Targets : \A i \in Written(t) :
    revisions[t][i].over # 0 => revisions[t][i].content.shown = revisions[t][i].over

\* An answer that comes late does not take away words the editor typed after asking.
TypedWordsKept ==
  [][\A r \in Requests :
       call[r].stage \in {"answered", "refused"} /\ call'[r].stage = "none" =>
         \A e \in Editors : unsaved[e] => unsaved'[e]]_vars

=============================================================================
