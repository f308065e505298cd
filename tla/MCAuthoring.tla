----------------------------- MODULE MCAuthoring -----------------------------
(***************************************************************************)
(* What authors make, on small instances: packages and versions in the     *)
(* tables and in memory, script targets in the tables and in memory, the    *)
(* page they are written on, the options of a script; and what becomes of   *)
(* it: the order of versions, and what the machines of users run.           *)
(*                                                                         *)
(* Each component has its variables and part names the one that moves, the *)
(* others rest in their initial states; the script targets of the tables,   *)
(* those in memory and the pages are three parts over the same variables.   *)
(***************************************************************************)
EXTENDS Integers, Sequences, FiniteSets, TLC

CONSTANTS
  Parts,                         \* the parts of this run
  linux, windows, r1, r2, words, NoTarget, NoContent, NoRequest, Nobody, NoTeam   \* model values

VARIABLES
  part,
  pkg, version, log, request, requests,                          \* Catalog, MemoryCatalog
  lifecycle, row, revisions, events, call, calls,                \* ScriptTargets, MemoryTargets, PublishForm
  copy,                                                          \* MemoryTargets
  session, selected, form, gate, busy, submitted, unsaved,       \* PublishForm
  draft, typed, stored, verdict, edits,                          \* ScriptOptions
  left, right, other, compared, ordered, latest,                 \* SemanticVersion
  stage, machine, script, transit, table, notices, now, runs, moves   \* Installations

catalogVars == <<pkg, version, log, request, requests>>
targetVars == <<lifecycle, row, revisions, events, call, calls>>
pageVars == <<session, selected, form, gate, busy, submitted, unsaved>>
optionVars == <<draft, typed, stored, verdict, edits>>
orderVars == <<left, right, other, compared, ordered, latest>>
machineVars == <<stage, machine, script, transit, table, notices, now, runs, moves>>
afterVars == <<orderVars, machineVars>>
authoringVars == <<part, catalogVars, targetVars, copy, pageVars, optionVars, afterVars>>

Symmetric == Permutations({linux, windows}) \union Permutations({r1, r2})

-----------------------------------------------------------------------------
(* The instances. *)

\* One package, two teams, and a person for every way to a right.
People == {"ann", "bob", "rev"}
Teams == {"data", "web"}
TeamsOf == [u \in People |-> IF u = "ann" THEN {"web"} ELSE {}]
ScopedTeams == [u \in People |-> IF u = "bob" THEN {"data"} ELSE {}]
Tables == INSTANCE Catalog WITH
  Packages <- {"tool"}, Names <- {"v1"}, Admins <- {}, GlobalMaintainers <- {"bob"}, Reviewers <- {"rev"},
  Requests <- {r1, r2}, MaxCalls <- 3, call <- request, calls <- requests
Memory == INSTANCE MemoryCatalog WITH
  Packages <- {"tool"}, Names <- {"v1"}, Admins <- {}, GlobalMaintainers <- {"bob"}, Reviewers <- {"rev"},
  Requests <- {r1, r2}, MaxCalls <- 3, call <- request, calls <- requests

\* Two targets of one version and two calls at a time.
Scripts == INSTANCE ScriptTargets WITH
  Targets <- {linux, windows}, Requests <- {r1, r2}, Contents <- {words}, MaxCalls <- 4
Copies == INSTANCE MemoryTargets WITH
  Targets <- {linux, windows}, Requests <- {r1, r2}, Contents <- {words}, MaxCalls <- 3

\* One editor with two requests under way, or two editors with one each.  A form never
\* shows or expects more revisions than there are calls.
FormContents == [on : {linux, windows, NoTarget}, shown : 0 .. 4, expected : 0 .. 4, known : 0 .. 4]
OneEditor == INSTANCE PublishForm WITH
  Targets <- {linux, windows}, Requests <- {r1, r2}, Contents <- FormContents, MaxCalls <- 4,
  Editors <- {"ann"}, Owner <- (r1 :> "ann") @@ (r2 :> "ann")
TwoEditors == INSTANCE PublishForm WITH
  Targets <- {linux}, Requests <- {1, 2}, Contents <- FormContents, MaxCalls <- 4,
  Editors <- {"ann", "bob"}, Owner <- <<"ann", "bob">>

Options == INSTANCE ScriptOptions WITH
  NameWords <- {"--option", "--scope", "Scope"}, Words <- {"", "a", "b"}, MaxOptions <- 2, MaxEdits <- 5

\* Prereleases and texts of one release; then releases and their prereleases.
Texts == INSTANCE SemanticVersion WITH
  Cores <- {<<1, 0, 0>>}, Values <- {2, 10}, Places <- {0, 1}, Zeros <- {0, 1}, Builds <- {0}, MaxParts <- 2,
  verdict <- ordered
Releases == INSTANCE SemanticVersion WITH
  Cores <- {<<1, 2, 0>>, <<1, 10, 0>>, <<2, 0, 0>>}, Values <- {2, 12}, Places <- {1}, Zeros <- {0}, Builds <- {0, 1},
  MaxParts <- 1, verdict <- ordered

\* One user with three scripts.
Machines == INSTANCE Installations WITH
  Users <- {"user"}, Uids <- {"user"}, Author <- "author", Versions <- {1, 2}, Environments <- {"codex on linux"},
  Targets <- [v \in {1, 2} |-> {"codex on linux"}], Legacy <- {1}, MaxTime <- 1, MaxRuns <- 3, MaxMoves <- 1,
  lifecycle <- stage

-----------------------------------------------------------------------------
(* What moves. *)

\* The calls on the catalogue worth making: what an operation does not look at is fixed.
Arrive(r, op, u, t, g) ==
  \E v \in {"public", "internal"}, l \in BOOLEAN :
    /\ v = "internal" \/ op = "update"
    /\ l \/ op = "create"
    /\ t = "web" \/ op \in {"create", "update"}
    /\ g = "premium" \/ op = "grade"
    /\ Tables!Arrive(r, op, u, [package |-> "tool", name |-> "v1", team |-> t, grade |-> g,
                                visibility |-> v, licence |-> l])

\* The guard of Arrive, before any call is enumerated.
FreeRequests == IF requests < 3 THEN {r \in {r1, r2} : request[r].stage = "none"} ELSE {}

CatalogNext ==
  \/ \E r \in {r1, r2} : \/ Tables!Check(r) \/ Tables!Hangup(r)
                         \/ part = "tables" /\ (Tables!Commit(r) \/ Tables!Fail(r))
                         \/ part = "memory" /\ Memory!MemCommit(r)
  \/ \E r \in FreeRequests, op \in Tables!Writes, u \in People \union {Nobody}, t \in Teams, g \in Tables!Grades :
        Arrive(r, op, u, t, g)
  \/ Tables!Govern("tool", "v1")

AtRest == <<1, 0, 0>>

Init ==
  /\ part \in Parts
  /\ Tables!Init /\ Options!Init /\ copy = Copies!NoAnswer
  /\ IF part = "editors" THEN TwoEditors!PageInit ELSE OneEditor!PageInit
  /\ CASE part = "texts" -> Texts!Init
       [] part = "releases" -> Releases!Init
       [] OTHER -> left = AtRest /\ right = AtRest /\ other = AtRest /\ compared = TRUE
                   /\ ordered = Texts!NotCompared /\ latest = AtRest
  /\ Machines!Init

Next ==
  \/ /\ part \in {"tables", "memory"} /\ CatalogNext
     /\ UNCHANGED <<part, targetVars, copy, pageVars, optionVars, afterVars>>
  \/ /\ part = "targets" /\ Scripts!Next
     /\ UNCHANGED <<part, catalogVars, copy, pageVars, optionVars, afterVars>>
  \/ /\ part = "copies" /\ Copies!MemoryNext
     /\ UNCHANGED <<part, catalogVars, pageVars, optionVars, afterVars>>
  \/ /\ \/ part = "editor" /\ OneEditor!PageNext
        \/ part = "editors" /\ TwoEditors!PageNext
     /\ UNCHANGED <<part, catalogVars, copy, optionVars, afterVars>>
  \/ /\ part = "options" /\ Options!Next
     /\ UNCHANGED <<part, catalogVars, targetVars, copy, pageVars, afterVars>>
  \/ /\ \/ part = "texts" /\ Texts!Next
        \/ part = "releases" /\ Releases!Next
     /\ UNCHANGED <<part, catalogVars, targetVars, copy, pageVars, optionVars, machineVars>>
  \/ /\ part = "machines" /\ Machines!Next
     /\ UNCHANGED <<part, catalogVars, targetVars, copy, pageVars, optionVars, orderVars>>

Spec == Init /\ [][Next]_authoringVars

-----------------------------------------------------------------------------
(* The properties of the components, by what they are about. *)

ASSUME AuthoringAssumption ==
  /\ Tables!PeopleAssumption /\ Scripts!TargetsAssumption /\ OneEditor!FormAssumption
  /\ TwoEditors!FormAssumption /\ Options!OptionsAssumption
  /\ Texts!VersionAssumption /\ Releases!VersionAssumption /\ Machines!InstallationsAssumption

In(p, holds) == part = p => holds

Shapes ==
  /\ In("tables", Tables!TypeOK) /\ In("memory", Memory!TypeOK) /\ part \in {"targets", "copies"} => Scripts!TypeOK
  /\ In("editor", OneEditor!PageTypeOK) /\ In("editors", TwoEditors!PageTypeOK) /\ In("options", Options!OptionsTypeOK)
  /\ In("texts", Texts!TypeOK) /\ In("releases", Releases!TypeOK) /\ In("machines", Machines!TypeOK)

(* Of a package and its versions the rows tell what was decided, by whom   *)
(* and once, although a write is checked on rows that may be old when it    *)
(* commits; and lists, details and downloads agree on what a person has.    *)
CatalogueIsTrue ==
  /\ Shapes
  /\ In("tables", /\ Tables!CreatedOnce /\ Tables!WriterHadTheRight /\ Tables!GradeIsDecided
                  /\ Tables!FoundCanBeTaken /\ Tables!MaintainableIsListed)
  /\ In("memory", Memory!WriterHadTheRight /\ Memory!VersionsHaveOwners)

(* The row, the revisions and the events of a target, and the copy         *)
(* governance serves from, tell one history, whatever calls overlap.        *)
RevisionsTellHistory ==
  /\ part \in {"targets", "copies", "editor"} => Scripts!CurrentIsNewest
  /\ part \in {"targets", "copies"} => Scripts!EventsTellTargets
  /\ In("copies", Copies!CopyIsTheMap /\ Copies!AnswerIsWhole)

(* No step rewrites what was made: a version keeps its author and does not *)
(* come back to draft once released, and the targets of a version under     *)
(* review stay as they are, with every revision there ever was.             *)
HistoryKept ==
  [][/\ In("tables", Tables!KeepsVersions)
     /\ In("targets", Scripts!KeepsHistory)
     /\ In("copies", Copies!KeepsFrozen)]_authoringVars

(* However answers overtake one another, what the page saves goes where it *)
(* was written, replaces no revision the page had not been told of, and a   *)
(* page that waits has something to wait for.                               *)
PagesSaveWhatTheyShow ==
  /\ In("editor", OneEditor!SavedWhereWritten /\ OneEditor!BusyIsAnswered)
  /\ In("editors", TwoEditors!SavedOnKnownRevisions /\ TwoEditors!BusyIsAnswered)

(* A stored option list passes all the checks again and a script can be    *)
(* made of it with every choice it offers.                                  *)
StoredOptionsWork == In("options", Options!StoredOptionsWork)

(* Any versions are in one order, in which a release follows its           *)
(* prereleases and the latest is the latest; and however late reports       *)
(* arrive, once they are in they tell what each machine runs.               *)
VersionsTellMachines ==
  /\ In("texts", Texts!Antisymmetric /\ Texts!Transitive)
  /\ In("releases", /\ Releases!SameRankSameVersion /\ Releases!ReleaseFollowsPrereleases
                    /\ Releases!LatestIsLatest)
  /\ In("machines", Machines!FoldTellsMachine /\ Machines!PeriodToNowIsCurrent)

=============================================================================
