------------------------------ MODULE Catalog ------------------------------
(***************************************************************************)
(* The packages and the versions of the catalogue as CatalogService and    *)
(* PostgresCatalogRepository keep them.                                     *)
(*                                                                         *)
(* A call that writes is checked against the aggregate it reads, and then  *)
(* writes in a transaction that does not read it again: between the two    *)
(* another call can commit.  The calls that only read are operators on the *)
(* state.  Governance moves the versions, see Governance.                   *)
(***************************************************************************)
EXTENDS Naturals, Sequences, FiniteSets, VersionStateMachine

CONSTANTS
  Packages, Names,     \* the package identifiers and the version names
  People, Teams,
  TeamsOf,             \* the teams each person belongs to
  Admins,              \* platform administrators
  GlobalMaintainers,   \* maintainers of everything
  ScopedTeams,         \* the teams each person holds the maintainer role for
  Reviewers,
  Nobody, NoTeam,
  Requests,            \* the calls that can be under way at one time
  MaxCalls             \* bound: calls made in all

PeopleAssumption ==
  /\ TeamsOf \in [People -> SUBSET Teams] /\ ScopedTeams \in [People -> SUBSET Teams]
  /\ Admins \union GlobalMaintainers \union Reviewers \subseteq People
  /\ Nobody \notin People /\ NoTeam \notin Teams /\ MaxCalls \in Nat

VARIABLES
  pkg,       \* the rows of packages
  version,   \* the rows of package_versions
  log,       \* the domain events of both, in order
  call,      \* the calls under way
  calls      \* how many calls were made

tables == <<pkg, version, log>>
catalogVars == <<pkg, version, log, call, calls>>

Grades == {"basic", "premium"}
Writes == {"create", "update", "grade", "archive", "version"}

\* by: created_by_uid.  The lifecycle "none" stands for no row.
PackageRows == [lifecycle : {"none", "active", "archived"}, team : Teams \union {NoTeam},
                publisher : Teams \union {NoTeam}, by : People \union {Nobody},
                grade : Grades, visibility : {"public", "internal"}]
NoPackage == [lifecycle |-> "none", team |-> NoTeam, publisher |-> NoTeam, by |-> Nobody,
              grade |-> "basic", visibility |-> "internal"]

VersionRows == [lifecycle : Lifecycles \union {"none"}, author : People \union {Nobody}]

NoVersion == [lifecycle |-> "none", author |-> Nobody]

\* team, grade: what the row says after the event.
LogEntries == [type : Writes, package : Packages, actor : People, team : Teams, grade : Grades]

\* What a caller sends; a creation may leave the licence out.
Inputs == [package : Packages, name : Names, team : Teams, grade : Grades,
           visibility : {"public", "internal"}, licence : BOOLEAN]

NoCall == [stage |-> "none"]
Calls == [stage : {"arrived", "admitted", "done", "refused", "failed"},
          op : Writes, who : People \union {Nobody}, input : Inputs]

Init ==
  /\ pkg = [p \in Packages |-> NoPackage]
  /\ version = [p \in Packages |-> [v \in Names |-> NoVersion]]
  /\ log = <<>>
  /\ call = [r \in Requests |-> NoCall]
  /\ calls = 0

-----------------------------------------------------------------------------
(* Who may do what. *)

\* requireMaintainer: whoever belongs to the team, and who maintains everything.
MayMaintain(u, t) ==
  u \in People /\ (t \in TeamsOf[u] \/ u \in Admins \/ u \in GlobalMaintainers)

MayReview(u) == u \in Admins \union Reviewers

Exists(p) == pkg[p].lifecycle # "none"

\* canBrowsePackage: whoever is not signed in sees the public packages.
CanBrowse(u, p) ==
  pkg[p].lifecycle = "active" /\ (pkg[p].visibility = "public" \/ u \in People)

-----------------------------------------------------------------------------
(* A call comes in and is checked. *)

Arrive(r, op, u, in) ==
  /\ call[r].stage = "none" /\ calls < MaxCalls
  /\ call' = [call EXCEPT ![r] = [stage |-> "arrived", op |-> op, who |-> u, input |-> in]]
  /\ calls' = calls + 1
  /\ UNCHANGED tables

CreateAdmitted(u, in) == MayMaintain(u, in.team) /\ ~Exists(in.package)

\* Seeded fault: the team the caller gives is asked, not the one that owns the package.
UpdateAdmittedByInput(u, in) == Exists(in.package) /\ MayMaintain(u, in.team)

UpdateAdmitted(u, in) == Exists(in.package) /\ MayMaintain(u, pkg[in.package].team)

ArchiveAdmitted(u, in) == Exists(in.package) /\ MayMaintain(u, pkg[in.package].team)

\* A reviewer grades, and never what is archived.
GradeAdmitted(u, in) ==
  Exists(in.package) /\ MayReview(u) /\ pkg[in.package].lifecycle = "active"

\* Whether the package is archived is not asked.
VersionAdmitted(u, in) ==
  /\ Exists(in.package) /\ MayMaintain(u, pkg[in.package].team)
  /\ version[in.package][in.name] = NoVersion

Admitted(c) ==
  \/ c.op = "create" /\ CreateAdmitted(c.who, c.input)
  \/ c.op = "update" /\ UpdateAdmitted(c.who, c.input)
  \/ c.op = "archive" /\ ArchiveAdmitted(c.who, c.input)
  \/ c.op = "grade" /\ GradeAdmitted(c.who, c.input)
  \/ c.op = "version" /\ VersionAdmitted(c.who, c.input)

Check(r) ==
  /\ call[r].stage = "arrived"
  /\ call' = [call EXCEPT ![r].stage = IF Admitted(call[r]) THEN "admitted" ELSE "refused"]
  /\ UNCHANGED <<tables, calls>>

-----------------------------------------------------------------------------
(* The transactions. *)

\* packages_package_id_uidx, and the columns that may not be null.
Insertable(in) == ~Exists(in.package) /\ in.licence

\* package_versions_package_version_uidx
VersionFree(in) == version[in.package][in.name] = NoVersion

Write(p, row, op, u) ==
  /\ pkg' = [pkg EXCEPT ![p] = row]
  /\ log' = Append(log, [type |-> op, package |-> p, actor |-> u, team |-> row.team, grade |-> row.grade])

\* The publisher is the team unless one is named; the grade is never the creator's choice.
CreatePackage(u, in) ==
  /\ Insertable(in)
  /\ Write(in.package, [lifecycle |-> "active", team |-> in.team, publisher |-> in.team, by |-> u,
                        grade |-> "basic", visibility |-> in.visibility], "create", u)
  /\ UNCHANGED version

\* toPackageColumns: what the body may name.
Columns(p, in) == [pkg[p] EXCEPT !.team = in.team, !.visibility = in.visibility]

UpdatePackage(u, in) ==
  Write(in.package, Columns(in.package, in), "update", u) /\ UNCHANGED version

SetPackageGrade(u, in) ==
  Write(in.package, [pkg[in.package] EXCEPT !.grade = in.grade], "grade", u) /\ UNCHANGED version

ArchivePackage(u, in) ==
  Write(in.package, [pkg[in.package] EXCEPT !.lifecycle = "archived"], "archive", u) /\ UNCHANGED version

CreateVersion(u, in) ==
  /\ VersionFree(in)
  /\ version' = [version EXCEPT ![in.package][in.name] = [lifecycle |-> "draft", author |-> u]]
  /\ Write(in.package, pkg[in.package], "version", u)

Transaction(c) ==
  \/ c.op = "create" /\ CreatePackage(c.who, c.input)
  \/ c.op = "update" /\ UpdatePackage(c.who, c.input)
  \/ c.op = "grade" /\ SetPackageGrade(c.who, c.input)
  \/ c.op = "archive" /\ ArchivePackage(c.who, c.input)
  \/ c.op = "version" /\ CreateVersion(c.who, c.input)

Commit(r) ==
  /\ call[r].stage = "admitted"
  /\ Transaction(call[r])
  /\ call' = [call EXCEPT ![r].stage = "done"]
  /\ UNCHANGED calls

\* A constraint of the tables refuses the insert: the caller is told of a fault of the server.
Fail(r) ==
  /\ call[r].stage = "admitted"
  /\ \/ call[r].op = "create" /\ ~Insertable(call[r].input)
     \/ call[r].op = "version" /\ ~VersionFree(call[r].input)
  /\ call' = [call EXCEPT ![r].stage = "failed"]
  /\ UNCHANGED <<tables, calls>>

\* The caller has its answer.
Hangup(r) ==
  /\ call[r].stage \in {"done", "refused", "failed"}
  /\ call' = [call EXCEPT ![r] = NoCall]
  /\ UNCHANGED <<tables, calls>>

\* A governance transaction moves a version along its state machine.
Govern(p, v) ==
  /\ \E step \in Transitions :
        step[1] = version[p][v].lifecycle /\ version' = [version EXCEPT ![p][v].lifecycle = step[3]]
  /\ UNCHANGED <<pkg, log, call, calls>>

Next ==
  \/ \E r \in Requests : Check(r) \/ Commit(r) \/ Fail(r) \/ Hangup(r)
  \/ \E r \in Requests, op \in Writes, u \in People \union {Nobody}, in \in Inputs :
        Arrive(r, op, u, in)
  \/ \E p \in Packages, v \in Names : Govern(p, v)

Spec == Init /\ [][Next]_catalogVars

-----------------------------------------------------------------------------
(* The calls that read. *)

Published(p) == {v \in Names : version[p][v].lifecycle = "published"}

Search(u) == {p \in Packages : CanBrowse(u, p) /\ Published(p) # {}}

\* Who wrote a version of the package or may review it sees what waits for review.
Detail(u, p) ==
  LET pending == MayReview(u) \/ \E v \in Names : u \in People /\ version[p][v].author = u
  IN IF ~CanBrowse(u, p) THEN {}
     ELSE Published(p) \union
          {v \in Names : pending /\ version[p][v].lifecycle = "review_required"}

Download(u, p) == IF CanBrowse(u, p) THEN Published(p) ELSE {}

Scope(u, scope) ==
  IF scope = "all" /\ u \notin Admins \union GlobalMaintainers THEN "team" ELSE scope

InTeamScope(u, p) == pkg[p].by = u \/ pkg[p].team \in TeamsOf[u] \union ScopedTeams[u]

ListMaintained(u, scope) ==
  {p \in Packages : /\ pkg[p].lifecycle = "active"
                    /\ \/ Scope(u, scope) = "all"
                       \/ Scope(u, scope) = "mine" /\ pkg[p].by = u
                       \/ Scope(u, scope) = "team" /\ InTeamScope(u, p)}

-----------------------------------------------------------------------------
(* Properties. *)

TypeOK ==
  /\ pkg \in [Packages -> PackageRows]
  /\ version \in [Packages -> [Names -> VersionRows]]
  /\ log \in Seq(LogEntries)
  /\ call \in [Requests -> Calls \union {NoCall}]
  /\ calls \in 0 .. MaxCalls

\* Of two creations that both found the identifier free one is kept: the
\* package names the one person whose creation is in the log
\* (packages_package_id_uidx behind createPackage's check).
CreatedOnce ==
  \A p \in Packages :
    LET made == {i \in 1 .. Len(log) : log[i].type = "create" /\ log[i].package = p}
    IN IF Exists(p) THEN \E i \in made : made = {i} /\ log[i].actor = pkg[p].by ELSE made = {}

\* The check of a write may be old when it commits, but it was about this
\* package: whoever changed it could maintain it under a team that owned it
\* (requireMaintainer on the aggregate, not on the input).
WriterHadTheRight ==
  \A i \in 1 .. Len(log) : log[i].type \in {"update", "archive", "version"} =>
    \E j \in 1 .. i - 1 : log[j].package = log[i].package /\ MayMaintain(log[i].actor, log[j].team)

\* Whatever maintainers write, in whatever order, the grade of a package is
\* the one a reviewer decided last, or the one it was born with
\* (setPackageGrade apart from updatePackage).
GradeIsDecided ==
  \A p \in Packages :
    \/ pkg[p].grade = "basic" /\ \A i \in 1 .. Len(log) : log[i].package = p => log[i].type # "grade"
    \/ \E i \in 1 .. Len(log) :
         /\ log[i].package = p /\ log[i].type = "grade"
         /\ MayReview(log[i].actor) /\ log[i].grade = pkg[p].grade
         /\ \A j \in i + 1 .. Len(log) : log[j].package = p => log[j].type # "grade"

\* A version row is made once: no later creation changes its author or takes
\* it back to draft while it is released (createVersion's check and insert).
KeepsVersions ==
  \A p \in Packages, v \in Names : version[p][v] # NoVersion =>
    /\ version'[p][v].author = version[p][v].author
    /\ (version[p][v].lifecycle \in Released \ {"published"} => version'[p][v].lifecycle # "draft")

\* What a person finds in the pool opens, and can be downloaded; what can be
\* downloaded is shown (search, getDetail and getDownload ask one another's
\* conditions in three places).
FoundCanBeTaken ==
  \A u \in People \union {Nobody}, p \in Packages :
    /\ p \in Search(u) <=> Download(u, p) # {}
    /\ Download(u, p) \subseteq Detail(u, p)
    /\ \A v \in Detail(u, p) : version[p][v].lifecycle \in {"published", "review_required"}

\* Whoever may maintain an active package finds it in the list of the widest
\* scope, whether it has a version or not (listMaintainedPackages).
MaintainableIsListed ==
  \A u \in People, p \in Packages :
    pkg[p].lifecycle = "active" /\ MayMaintain(u, pkg[p].team) => p \in ListMaintained(u, "all")

\* listMaintainedPackages: "the list must agree with requireMaintainer, or it
\* shows packages the user then cannot operate".
ListedCanMaintain ==
  \A u \in People : \A p \in ListMaintained(u, "team") : MayMaintain(u, pkg[p].team)

\* requireMaintainer: "any of four paths ... 3. the maintainer of that team".
ScopedMaintainerMayMaintain ==
  \A u \in People : \A t \in ScopedTeams[u] : ~\E r \in Requests :
    /\ call[r].stage = "refused" /\ call[r].who = u /\ call[r].input.team = t
    /\ call[r].op = "create" /\ ~Exists(call[r].input.package)

\* setPackageGrade: "the grade of an archived package cannot be changed".
ArchivedKeepsGrade ==
  [][\A p \in Packages : pkg[p].lifecycle = "archived" => pkg'[p].grade = pkg[p].grade]_catalogVars

\* listMaintainedPackages: "an archived package can have no further version".
ArchivedGetsNoVersion ==
  [][\A p \in Packages, v \in Names :
       pkg[p].lifecycle = "archived" /\ version[p][v] = NoVersion => version'[p][v] = NoVersion]_catalogVars

\* POST /api/packages: "sourceUri and license are not required; left out they
\* are kept as empty strings".
LeftOutIsKept == \A r \in Requests : call[r].stage = "failed" => call[r].input.licence

\* create-package-model.ts: "a package is an asset of its team, the publisher
\* is the team that owns it".
PublisherIsOwner == \A p \in Packages : Exists(p) => pkg[p].publisher = pkg[p].team

=============================================================================
