---------------------------- MODULE MemoryTargets ----------------------------
(***************************************************************************)
(* The script targets of one draft version as MemoryCatalogRepository      *)
(* keeps them: a map of its own, from which the store's version record is  *)
(* given a copy of the active targets after every change.  The catalogue   *)
(* reads the map and governance the copy.  An operation runs through       *)
(* without giving up the thread, answer included.                          *)
(***************************************************************************)
EXTENDS ScriptTargets

VARIABLE copy      \* the active targets in the store's record of the version

memoryVars == <<serverVars, copy>>

Kept(r, n) == IF r.made /\ ~r.deleted THEN [status |-> "active", current |-> r.current, last |-> n]
                                      ELSE NoRecord

\* Seeded fault: the copy is taken before the map is written.
SyncBefore == [t \in Targets |-> Kept(row[t], Len(revisions[t]))]

\* The copy after a step: the active targets of the map, each with its revisions.
SyncVersionTargets == [t \in Targets |-> Kept(row'[t], Len(revisions'[t]))]

MemoryInit == Init /\ copy = NoAnswer

\* The target with its newest revision, as the map holds it now.
Told(t) == MapTarget(row'[t], Len(revisions'[t]))

MemoryCreateTarget(r) == call[r].op = "create" /\ CreateTarget(r)
MemorySaveRevision(r) == call[r].op = "save" /\ SaveRevision(r)
MemoryCopyRevision(r) == call[r].op = "copy" /\ CopyRevision(r)
MemoryDeleteTarget(r) == call[r].op = "delete" /\ DeleteTarget(r)

MemoryCommit(r) ==
  /\ call[r].stage = "admitted" /\ DraftForUpdate
  /\ \/ MemoryCreateTarget(r) \/ MemorySaveRevision(r)
     \/ MemoryCopyRevision(r) \/ MemoryDeleteTarget(r)
  /\ copy' = SyncVersionTargets
  /\ call' = [call EXCEPT ![r].stage = "answered",
                          ![r].answer = [NoAnswer EXCEPT ![call[r].target] = Told(call[r].target)]]
  /\ UNCHANGED <<lifecycle, calls>>

MemoryRefuse(r) == Refuse(r) /\ UNCHANGED copy

\* A version is read with its active targets, the history with the one target, deleted or not.
MemoryRead(r) ==
  /\ call[r].stage = "committed"
  /\ UNCHANGED <<tables, calls, copy>>
  /\ call' = [call EXCEPT ![r].stage = "answered", ![r].draft = call[r].op = "load" /\ lifecycle = "draft",
                ![r].answer = [t \in Targets |->
                   IF t \in Asks(r) /\ (call[r].op = "load" => IsActive(t)) THEN Told(t) ELSE NoRecord]]

\* A change of the version's own fields writes the record back with the copy it holds.
MemoryGovern == (SubmitVersion \/ ReviseVersion) /\ UNCHANGED copy

MemoryNext ==
  \/ \E r \in Requests :
       \/ (AnyCall(r) \/ Check(r) \/ (Hangup(r) /\ UNCHANGED <<tables, calls>>)) /\ UNCHANGED copy
       \/ MemoryCommit(r) \/ MemoryRefuse(r) \/ MemoryRead(r)
  \/ MemoryGovern

MemorySpec == MemoryInit /\ [][MemoryNext]_memoryVars

-----------------------------------------------------------------------------
(* Properties. *)

\* Governance submits and serves from the copy what the catalogue shows from the map: after
\* every operation the copy holds the active targets with their newest revisions, and only them.
CopyIsTheMap ==
  \A t \in Targets :
    copy[t] = IF IsActive(t) THEN [status |-> "active", current |-> row[t].current,
                                   last |-> LastRevision(t)]
              ELSE NoRecord

\* A version away from its author keeps its targets in the map and in the copy.
KeepsFrozen ==
  lifecycle # "draft" \/ lifecycle' # "draft" => UNCHANGED <<row, revisions, copy>>

\* Nobody is told of a target with a newer revision than its current one, unless the target was
\* deleted since: the answer of the memory repository is taken at one moment.
AnswerIsWhole ==
  \A r \in Requests, t \in Targets :
    call[r].stage = "answered" /\ call[r].answer[t].status = "active" /\ call[r].answer[t].last > 0
      /\ call[r].answer[t].current = 0
    => \E i \in DOMAIN events : events[i].type = "deleted" /\ events[i].target = t
=============================================================================
