----------------------------- MODULE MCGoverned ------------------------------
(***************************************************************************)
(* Publication governance beside the instances of MCGovernance: in manual  *)
(* mode, with two versions whose notices meet, and over the repository in   *)
(* memory; and those it is about: people with their roles, assignments and  *)
(* logins, and users who are told of a release.                             *)
(*                                                                         *)
(* part names the one that moves, the others rest in their initial states. *)
(***************************************************************************)
EXTENDS Integers, Sequences, FiniteSets, TLC

CONSTANTS
  Parts,                                      \* the parts of this run
  q1, q2, r1, r2, s1, s2, c1, c2, None        \* model values

VARIABLES
  part,
  lifecycle, notes, digest, manifest, bundle, run, review, log,    \* Governance
  installs, notice, delistings, req, now,
  asked,                                                           \* MemoryGovernance
  identities, roles, assignment, trail, call,                      \* ReviewerRoles
  time, issued, pending, callback, admitted, session, cookie, known,   \* LoginSession
  stage, machine, script, transit, table, told, clock, runs, moves  \* Installations

governanceVars == <<lifecycle, notes, digest, manifest, bundle, run, review, log,
                    installs, notice, delistings, req, now>>
roleVars == <<identities, roles, assignment, trail, call>>
loginVars == <<time, issued, pending, callback, admitted, session, cookie, known>>
userVars == <<stage, machine, script, transit, table, told, clock, runs, moves>>
peopleVars == <<roleVars, loginVars, userVars>>
governedVars == <<part, governanceVars, asked, peopleVars>>

\* Rows, requests, scopes and callbacks have no identity beyond their name.
Symmetric == Permutations({q1, q2}) \union Permutations({r1, r2}) \union Permutations({s1, s2}) \union Permutations({c1, c2})

-----------------------------------------------------------------------------
(* The instances. *)

\* ann writes and maintains, rex reviews; no validation runs.
Manual == INSTANCE Governance WITH
  Version <- {"v1"}, User <- {"ann", "rex"}, Request <- {q1, q2}, RunId <- {r1, r2},
  Notes <- {"n1", "n2"}, Bundle <- {"b1"}, Author <- [v \in {"v1"} |-> "ann"],
  Maintainer <- {"ann"}, Reviewer <- {"rex"}, Admin <- {}, OwnerTeam <- {"ann"}, Installer <- {},
  ValidationMode <- "manual", TTL <- 1, MaxTime <- 1

\* Two authors who maintain, review and install, each of one of two versions.
Notices == INSTANCE Governance WITH
  Version <- {"v1", "v2"}, User <- {"ann", "mia"}, Request <- {q1}, RunId <- {r1, r2},
  Notes <- {"n1"}, Bundle <- {"b1"}, Author <- [v \in {"v1", "v2"} |-> IF v = "v1" THEN "ann" ELSE "mia"],
  Maintainer <- {"ann", "mia"}, Reviewer <- {"ann", "mia"}, Admin <- {"mia"}, OwnerTeam <- {"ann"},
  Installer <- {"ann"}, ValidationMode <- "automated", TTL <- 1, MaxTime <- 0

\* Two submissions of one version, retries of one, and two versions with a reader of notices.
Memory == INSTANCE MemoryGovernance WITH
  Version <- {"v1"}, User <- {"ann", "pat"}, Request <- {q1, q2}, RunId <- {r1, r2},
  Notes <- {"n1"}, Bundle <- {"b1"}, Author <- [v \in {"v1"} |-> "ann"],
  Maintainer <- {"ann"}, Reviewer <- {"ann", "pat"}, Admin <- {}, OwnerTeam <- {"ann"}, Installer <- {},
  ValidationMode <- "automated", TTL <- 1, MaxTime <- 0
Retries == INSTANCE MemoryGovernance WITH
  Version <- {"v1"}, User <- {"ann", "pat"}, Request <- {q1, q2}, RunId <- {r1},
  Notes <- {"n1"}, Bundle <- {"b1"}, Author <- [v \in {"v1"} |-> "ann"],
  Maintainer <- {"ann"}, Reviewer <- {"ann"}, Admin <- {"pat"}, OwnerTeam <- {"ann"}, Installer <- {},
  ValidationMode <- "automated", TTL <- 1, MaxTime <- 2
Reader == INSTANCE MemoryGovernance WITH
  Version <- {"v1", "v2"}, User <- {"ann", "pat"}, Request <- {q1}, RunId <- {r1},
  Notes <- {"n1"}, Bundle <- {"b1"}, Author <- [v \in {"v1", "v2"} |-> "ann"],
  Maintainer <- {"ann"}, Reviewer <- {"ann"}, Admin <- {"pat"}, OwnerTeam <- {"ann"}, Installer <- {"pat"},
  ValidationMode <- "automated", TTL <- 1, MaxTime <- 0

\* Two requests at a time; then one at a time and a server that dies; and in memory.
Roles == INSTANCE ReviewerRoles WITH
  User <- {"pat", "rex"}, Bootstrap <- {"pat"}, Scope <- {s1}, Team <- {"web"}, Role <- {"reviewer", "platform_admin"},
  Request <- {q1, q2}, Operations <- {"assign", "revoke", "grant", "withdraw"}, Backend <- "postgres",
  Crashes <- FALSE, MaxAssigned <- 2, req <- call
Retried == INSTANCE ReviewerRoles WITH
  User <- {"pat", "rex"}, Bootstrap <- {"pat"}, Scope <- {s1, s2}, Team <- {}, Role <- {"reviewer", "platform_admin"},
  Request <- {q1}, Operations <- {"assign", "revoke"}, Backend <- "postgres", Crashes <- TRUE, MaxAssigned <- 3,
  req <- call
InMemory == INSTANCE ReviewerRoles WITH
  User <- {"pat", "rex"}, Bootstrap <- {"pat"}, Scope <- {s1, s2}, Team <- {}, Role <- {"reviewer", "platform_admin"},
  Request <- {q1}, Operations <- {"assign", "revoke"}, Backend <- "memory", Crashes <- FALSE, MaxAssigned <- 3,
  req <- call

\* One browser, two callbacks at a time, an allowed uid and one that is not.
Logins == INSTANCE LoginSession WITH
  Browser <- {"browser"}, User <- {"ann", "eve"}, Allowed <- {"ann"}, Requested <- {"home", "page", "alien"},
  Destination <- {"home", "page"}, Home <- "home", Callback <- {c1, c2}, StateTTL <- 1, Lifetime <- 2,
  MaxTime <- 3, MaxLogins <- 2, MaxSessions <- 2, now <- time, identities <- admitted

\* Three versions and users who are told of them, the author and a guest among them.
Told == INSTANCE Installations WITH
  Users <- {"user", "author", "guest"}, Uids <- {"user", "author"}, Author <- "author", Versions <- {1, 2, 3},
  Environments <- {"codex on linux"}, Targets <- [v \in {1, 2, 3} |-> {"codex on linux"}], Legacy <- {1},
  MaxTime <- 0, MaxRuns <- 2, MaxMoves <- 3, lifecycle <- stage, notices <- told, now <- clock

-----------------------------------------------------------------------------
(* What moves. *)

GovernanceOnly == UNCHANGED <<part, asked, peopleVars>>
MemoryOnly == UNCHANGED <<part, peopleVars>>
RolesOnly == UNCHANGED <<part, governanceVars, asked, loginVars, userVars>>

Init ==
  /\ part \in Parts
  /\ CASE part = "reader" -> Reader!MemInit
       [] part = "retries" -> Retries!MemInit
       [] part = "notices" -> Notices!Init /\ asked = <<>>
       [] part = "manual" -> Manual!Init /\ asked = <<>>
       [] OTHER -> Memory!MemInit
  /\ IF part = "roles" THEN Roles!Init ELSE Retried!Init
  /\ Logins!Init /\ Told!Init

Next ==
  \/ part = "manual" /\ Manual!Next /\ GovernanceOnly
  \/ part = "notices" /\ Notices!Next /\ GovernanceOnly
  \/ part = "memory" /\ Memory!MemNext /\ MemoryOnly
  \/ part = "retries" /\ Retries!MemNext /\ MemoryOnly
  \/ part = "reader" /\ Reader!MemNext /\ MemoryOnly
  \/ part = "roles" /\ Roles!Next /\ RolesOnly
  \/ part = "retried" /\ Retried!Next /\ RolesOnly
  \/ part = "in memory" /\ InMemory!Next /\ RolesOnly
  \/ part = "logins" /\ Logins!Next /\ UNCHANGED <<part, governanceVars, asked, roleVars, userVars>>
  \/ part = "told" /\ Told!Next /\ UNCHANGED <<part, governanceVars, asked, roleVars, loginVars>>

Spec == Init /\ [][Next]_governedVars

-----------------------------------------------------------------------------
(* The properties of the components, by what they are about. *)

ASSUME GovernedAssumption ==
  /\ Manual!GovernanceAssumption /\ Notices!GovernanceAssumption
  /\ Memory!GovernanceAssumption /\ Retries!GovernanceAssumption /\ Reader!GovernanceAssumption
  /\ Roles!ReviewerRolesAssumption /\ Retried!ReviewerRolesAssumption /\ InMemory!ReviewerRolesAssumption
  /\ Logins!LoginSessionAssumption /\ Told!InstallationsAssumption

In(p, holds) == part = p => holds

Shapes ==
  /\ In("manual", Manual!TypeOK) /\ In("notices", Notices!TypeOK) /\ In("memory", Memory!TypeOK)
  /\ In("retries", Retries!TypeOK) /\ In("reader", Reader!TypeOK)
  /\ In("roles", Roles!TypeOK) /\ In("retried", Retried!TypeOK) /\ In("in memory", InMemory!TypeOK)
  /\ In("logins", Logins!TypeOK) /\ In("told", Told!TypeOK)

(* Where nothing validates, and where transactions are copies of a store,  *)
(* it is as in the database: one open run, one open review, and what is     *)
(* released is what somebody else approved.                                 *)
ReleasedAsReviewed ==
  /\ Shapes
  /\ In("manual", Manual!OneOpenReview /\ Manual!ReviewedBeforeRelease /\ Manual!ValidatedBeforeRelease)
  /\ In("retries", Retries!OneOpenRun /\ Retries!AttemptsTellTheRun /\ Retries!OneOwner)
  /\ In("memory", Memory!OneOpenRun /\ Memory!OneOpenReview /\ Memory!ReviewedBeforeRelease)

(* Two versions that are released and withdrawn in any order leave the     *)
(* notices of what happened, to those it concerns.                          *)
NoticesHaveCause == In("notices", Notices!NoticesHaveCause)

(* Whoever installed a version has an unread notice of its withdrawal in   *)
(* the step that withdraws it, a notice that was read stays read, and a     *)
(* release is told to everyone known to run an older version.               *)
NoticesReachReaders ==
  [][/\ In("notices", Notices!ReachesInstallers /\ Notices!KeepsRead)
     /\ In("reader", Reader!ReachesInstallers /\ Reader!KeepsRead)
     /\ In("told", Told!OutdatedAreTold)]_governedVars

(* Manual mode and the repository in memory keep the promise of            *)
(* PublicationLifecycle, and of the attempts of a run only the last closes  *)
(* it, in memory too.                                                       *)
ImplementsPromises ==
  /\ In("manual", Manual!PL!Init) /\ In("memory", Memory!MemPL!Init)
  /\ [][/\ In("manual", [Manual!PL!Next]_Manual!PL!vars)
        /\ In("memory", [Memory!MemPL!Next]_Memory!MemPL!vars)
        /\ In("retries", Retries!Closes(r1) => Retries!ClosedByItsLastAttempt(r1))]_governedVars

(* Assignments and their trail agree however many admins work at once, an  *)
(* answered request keeps its promise although the server died on the way   *)
(* to it, and a login makes one session, for one who is allowed.            *)
PeopleHaveWhatTheyWereGiven ==
  /\ In("roles", Roles!TrailTellsAssignments)
  /\ In("retried", Retried!TrailTellsAssignments /\ Retried!AnswerKeepsPromise)
  /\ In("in memory", InMemory!TrailTellsAssignments /\ InMemory!InAndOutTogether)
  /\ In("logins", Logins!StateUsedOnce /\ Logins!CallbackFitsLogin /\ Logins!OnlyAllowedKnown)

(* No step takes the last admin away or brings an ended session back, and  *)
(* logins that nobody finishes do not pile up.                              *)
StepsKeepPromises ==
  [][/\ In("roles", Roles!AdminsRemain)
     /\ In("logins", Logins!NoneExpired /\ Logins!EndedStaysEnded /\ Logins!LogoutEnds)]_governedVars

=============================================================================
