---------------------------- MODULE ScriptTargets ----------------------------
(***************************************************************************)
(* The script targets of one draft version as PostgresCatalogRepository    *)
(* keeps them, and the calls CatalogService takes for it.                   *)
(*                                                                         *)
(* A target is one pair of an operating system and a client.  Its row says *)
(* whether it is deleted and which revision is the current one; its        *)
(* revisions stay whatever becomes of the row.  A call is checked against  *)
(* the version it reads first, runs one transaction that holds the row of  *)
(* the version, and then reads its answer back in two queries of their     *)
(* own.  The content of a revision is a value the caller chooses.          *)
(***************************************************************************)
EXTENDS Naturals, Sequences

CONSTANTS
  Targets,       \* the pairs of operating system and client
  Requests,      \* the calls that can be under way at one time
  Contents,      \* what a caller can put into a revision
  NoTarget,      \* the source of a revision that is not a copy, and of a call that names none
  NoContent,     \* the content of a call that carries none
  MaxCalls       \* bound: calls made in all

TargetsAssumption == NoTarget \notin Targets /\ NoContent \notin Contents /\ MaxCalls \in Nat

VARIABLES
  lifecycle,     \* of the version
  row,           \* the row of each target
  revisions,     \* the revisions of each target, by script version
  events,        \* the domain events of the targets, in order
  call,          \* the calls under way
  calls          \* how many calls were made

tables == <<lifecycle, row, revisions, events>>
serverVars == <<lifecycle, row, revisions, events, call, calls>>

Ops == {"create", "save", "copy", "delete", "load", "history"}
ReadOnly == {"load", "history"}

\* The row of a target: not made, or made and deleted or not; current is 0 when no revision is.
Rows == [made : BOOLEAN, deleted : BOOLEAN, current : Nat]
NoRow == [made |-> FALSE, deleted |-> FALSE, current |-> 0]
IsActive(t) == row[t].made /\ ~row[t].deleted
LastRevision(t) == Len(revisions[t])

\* over: the revision that was current when this one was saved.
Revisions == [content : Contents, copiedFrom : Targets \union {NoTarget}, over : Nat]

Events == [type : {"created", "restored", "revision_saved", "revision_copied", "deleted"},
           target : Targets, scriptVersion : Nat]

\* What a caller is told of one target: its status, its current revision and its newest one.
Records == [status : {"absent", "active", "deleted"}, current : Nat, last : Nat]
NoRecord == [status |-> "absent", current |-> 0, last |-> 0]
NoAnswer == [t \in Targets |-> NoRecord]

NoCall == [stage |-> "none", op |-> "load", target |-> NoTarget, from |-> NoTarget,
           expected |-> 0, content |-> NoContent, seen |-> [t \in Targets |-> NoRow],
           draft |-> FALSE, answer |-> NoAnswer]
Stages == {"none", "arrived", "admitted", "committed", "row read", "answered", "refused"}

Init ==
  /\ lifecycle = "draft"
  /\ row = [t \in Targets |-> NoRow]
  /\ revisions = [t \in Targets |-> <<>>]
  /\ events = <<>>
  /\ call = [r \in Requests |-> NoCall]
  /\ calls = 0

-----------------------------------------------------------------------------
(* A call comes in and is checked. *)

Call(op, t, s, n, c) ==
  [NoCall EXCEPT !.stage = "arrived", !.op = op, !.target = t, !.from = s,
                 !.expected = n, !.content = c]

Arrive(r, op, t, s, n, c) ==
  /\ call[r].stage = "none" /\ calls < MaxCalls
  /\ call' = [call EXCEPT ![r] = Call(op, t, s, n, c)]
  /\ calls' = calls + 1

\* requireMutableVersion reads the version outside the transaction; reading needs no draft.
Check(r) ==
  /\ call[r].stage = "arrived"
  /\ call' = [call EXCEPT ![r].stage =
                IF call[r].op \in ReadOnly THEN "committed"
                ELSE IF lifecycle = "draft" THEN "admitted" ELSE "refused"]
  /\ UNCHANGED <<tables, calls>>

-----------------------------------------------------------------------------
(* The transactions.  Each holds the row of the version from its first      *)
(* statement on, so one is one step.                                        *)

\* Seeded fault: the check made before the transaction is trusted.
DraftChecked == TRUE

\* requireDraftVersionForUpdate: asked again of the row that is now held.
DraftForUpdate == lifecycle = "draft"

\* The expected script version is compared with the newest revision, current or not.
MayRevise(t, n) == IsActive(t) /\ n = LastRevision(t)

Record(type, t, n) == events' = Append(events, [type |-> type, target |-> t, scriptVersion |-> n])

Revise(t, rev) ==
  /\ revisions' = [revisions EXCEPT ![t] = Append(@, rev)]
  /\ row' = [row EXCEPT ![t].current = LastRevision(t) + 1]

\* The revisions of a deleted target stay; the row has no current one until the next is saved.
RestoredRow(t) == [made |-> TRUE, deleted |-> FALSE, current |-> 0]

DeletedRow(t) == [row[t] EXCEPT !.current = 0, !.deleted = TRUE]

RestoredEvent(t) == IF row[t].made THEN "restored" ELSE "created"

CreateTarget(r) ==
  LET t == call[r].target IN
  /\ ~IsActive(t)
  /\ row' = [row EXCEPT ![t] = RestoredRow(t)]
  /\ Record(RestoredEvent(t), t, 0)
  /\ UNCHANGED revisions

SaveRevision(r) ==
  LET t == call[r].target IN
  /\ MayRevise(t, call[r].expected)
  /\ Revise(t, [content |-> call[r].content, copiedFrom |-> NoTarget, over |-> row[t].current])
  /\ Record("revision_saved", t, LastRevision(t) + 1)

\* A copy takes the current revision of another active target of the version.
CopyRevision(r) ==
  LET t == call[r].target
      s == call[r].from
  IN /\ IsActive(s) /\ row[s].current # 0 /\ s # t
     /\ MayRevise(t, call[r].expected)
     /\ Revise(t, [content |-> revisions[s][row[s].current].content, copiedFrom |-> s,
                   over |-> row[t].current])
     /\ Record("revision_copied", t, LastRevision(t) + 1)

DeleteTarget(r) ==
  LET t == call[r].target IN
  /\ MayRevise(t, call[r].expected)
  /\ row' = [row EXCEPT ![t] = DeletedRow(t)]
  /\ Record("deleted", t, LastRevision(t))
  /\ UNCHANGED revisions

Transaction(r) ==
  \/ call[r].op = "create" /\ CreateTarget(r)
  \/ call[r].op = "save" /\ SaveRevision(r)
  \/ call[r].op = "copy" /\ CopyRevision(r)
  \/ call[r].op = "delete" /\ DeleteTarget(r)

Commit(r) ==
  /\ call[r].stage = "admitted"
  /\ DraftForUpdate
  /\ Transaction(r)
  /\ call' = [call EXCEPT ![r].stage = "committed"]
  /\ UNCHANGED <<lifecycle, calls>>

\* The conditions under which a transaction throws and leaves the tables alone.
Conflicts(r) ==
  LET t == call[r].target
      s == call[r].from
  IN \/ ~DraftForUpdate
     \/ call[r].op = "create" /\ IsActive(t)
     \/ call[r].op # "create" /\ ~MayRevise(t, call[r].expected)
     \/ call[r].op = "copy" /\ (~IsActive(s) \/ row[s].current = 0 \/ s = t)

Refuse(r) ==
  /\ call[r].stage = "admitted" /\ Conflicts(r)
  /\ call' = [call EXCEPT ![r].stage = "refused"]
  /\ UNCHANGED <<tables, calls>>

-----------------------------------------------------------------------------
(* The answer is read back after the transaction, rows first.               *)

Asks(r) == IF call[r].op = "load" THEN Targets ELSE {call[r].target}

ReadRows(r) ==
  /\ call[r].stage = "committed"
  /\ call' = [call EXCEPT ![r].stage = "row read",
                          ![r].draft = call[r].op = "load" /\ lifecycle = "draft",
                          ![r].seen = [t \in Targets |-> IF t \in Asks(r) THEN row[t] ELSE NoRow]]
  /\ UNCHANGED <<tables, calls>>

\* mapTarget: the current revision is the one the row named when it was read.
MapTarget(seen, last) ==
  IF ~seen.made THEN NoRecord
  ELSE [status |-> IF seen.deleted THEN "deleted" ELSE "active", current |-> seen.current, last |-> last]

\* A version is loaded with its active targets, one target is returned deleted or not.
ReadRevisions(r) ==
  /\ call[r].stage = "row read"
  /\ call' = [call EXCEPT ![r].stage = "answered", ![r].seen = NoCall.seen,
                ![r].answer = [t \in Targets |->
                   IF call[r].op = "load" /\ call[r].seen[t].deleted THEN NoRecord
                   ELSE MapTarget(call[r].seen[t], LastRevision(t))]]
  /\ UNCHANGED <<tables, calls>>

\* The caller has its answer.
Hangup(r) ==
  /\ call[r].stage \in {"answered", "refused"}
  /\ call' = [call EXCEPT ![r] = NoCall]

-----------------------------------------------------------------------------
(* Governance takes a complete draft away and gives it back.                *)

Complete ==
  /\ \E t \in Targets : IsActive(t)
  /\ \A t \in Targets : IsActive(t) => row[t].current # 0

SubmitVersion ==
  /\ lifecycle = "draft" /\ Complete
  /\ lifecycle' = "validating"
  /\ UNCHANGED <<row, revisions, events, call, calls>>

ReviseVersion ==
  /\ lifecycle = "validating"
  /\ lifecycle' = "draft"
  /\ UNCHANGED <<row, revisions, events, call, calls>>

Serve(r) == Check(r) \/ Commit(r) \/ Refuse(r) \/ ReadRows(r) \/ ReadRevisions(r)

AnyCall(r) ==
  \E op \in Ops, t \in Targets, s \in Targets, n \in 0 .. MaxCalls, c \in Contents :
    /\ op # "copy" => s = t
    /\ op \in ReadOnly => n = 0
    /\ op # "save" => c = CHOOSE x \in Contents : TRUE
    /\ Arrive(r, op, t, s, n, c)
    /\ UNCHANGED tables

Next ==
  \/ \E r \in Requests : AnyCall(r) \/ Serve(r) \/ (Hangup(r) /\ UNCHANGED <<tables, calls>>)
  \/ SubmitVersion
  \/ ReviseVersion

Spec == Init /\ [][Next]_serverVars

-----------------------------------------------------------------------------
(* Properties. *)

TypeOK ==
  /\ lifecycle \in {"draft", "validating"}
  /\ row \in [Targets -> Rows]
  /\ revisions \in [Targets -> Seq(Revisions)]
  /\ events \in Seq(Events)
  /\ call \in [Requests ->
       [stage : Stages, op : Ops, target : Targets \union {NoTarget},
        from : Targets \union {NoTarget}, expected : Nat,
        content : Contents \union {NoContent}, seen : [Targets -> Rows],
        draft : BOOLEAN, answer : [Targets -> Records]]]
  /\ calls \in 0 .. MaxCalls

\* The revision the download and the review take from the row is never an older one: the
\* row names the newest revision or, when it was deleted or just restored, none.
CurrentIsNewest ==
  \A t \in Targets :
    /\ row[t].current \in {0, LastRevision(t)}
    /\ row[t].deleted => row[t].current = 0
    /\ ~row[t].made => LastRevision(t) = 0

\* A version under review keeps its targets, whatever was let in while it was a draft, and
\* no revision is ever changed or dropped, not by deleting its target either.
KeepsHistory ==
  \A t \in Targets :
    /\ row'[t] # row[t] \/ revisions'[t] # revisions[t] => lifecycle = "draft" /\ lifecycle' = "draft"
    /\ SubSeq(revisions'[t], 1, LastRevision(t)) = revisions[t]

EventsOf(t) == SelectSeq(events, LAMBDA e : e.target = t)

\* The events alone tell what became of each target: their last one gives its state, a target
\* is created once, and every revision has its event.
EventsTellTargets ==
  \A t \in Targets :
    LET told == EventsOf(t)
        saved == SelectSeq(told, LAMBDA e : e.type \in {"revision_saved", "revision_copied"})
    IN /\ row[t].made <=> told # <<>>
       /\ row[t].made => /\ told[1].type = "created"
                         /\ row[t].deleted <=> told[Len(told)].type = "deleted"
       /\ \A i \in 2 .. Len(told) : told[i].type # "created"
       /\ Len(saved) = LastRevision(t)
       /\ \A i \in 1 .. Len(saved) : saved[i].scriptVersion = i

=============================================================================
