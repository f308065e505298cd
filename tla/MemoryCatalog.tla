---------------------------- MODULE MemoryCatalog ----------------------------
(***************************************************************************)
(* The packages and versions as MemoryCatalogRepository keeps them: the    *)
(* checks are those of CatalogService, the writes are those of Catalog     *)
(* without the constraints of the tables.  The repository tells no events   *)
(* of packages; the log is kept here for the properties.                    *)
(***************************************************************************)
EXTENDS Catalog

\* A package that is there is replaced, its versions stay.
MemCreatePackage(u, in) ==
  /\ Write(in.package, [lifecycle |-> "active", team |-> in.team, publisher |-> in.team, by |-> u,
                        grade |-> "basic", visibility |-> in.visibility], "create", u)
  /\ UNCHANGED version

MemUpdatePackage(u, in) == UpdatePackage(u, in)

MemSetPackageGrade(u, in) == SetPackageGrade(u, in)

MemArchivePackage(u, in) == ArchivePackage(u, in)

\* A version that is there is replaced.
MemCreateVersion(u, in) ==
  /\ version' = [version EXCEPT ![in.package][in.name] = [lifecycle |-> "draft", author |-> u]]
  /\ Write(in.package, pkg[in.package], "version", u)

MemCommit(r) ==
  LET c == call[r] IN
  /\ c.stage = "admitted"
  /\ \/ c.op = "create" /\ MemCreatePackage(c.who, c.input)
     \/ c.op = "update" /\ MemUpdatePackage(c.who, c.input)
     \/ c.op = "grade" /\ MemSetPackageGrade(c.who, c.input)
     \/ c.op = "archive" /\ MemArchivePackage(c.who, c.input)
     \/ c.op = "version" /\ MemCreateVersion(c.who, c.input)
  /\ call' = [call EXCEPT ![r].stage = "done"]
  /\ UNCHANGED calls

MemNext ==
  \/ \E r \in Requests : Check(r) \/ MemCommit(r) \/ Hangup(r)
  \/ \E r \in Requests, op \in Writes, u \in People \union {Nobody}, in \in Inputs :
        Arrive(r, op, u, in)
  \/ \E p \in Packages, v \in Names : Govern(p, v)

MemSpec == Init /\ [][MemNext]_catalogVars

-----------------------------------------------------------------------------
(* Properties. *)

\* Even where one creation can replace another, a version belongs to a package
\* and names as its author the person who made it, whoever made the package
\* (createVersion of the memory repository).
VersionsHaveOwners ==
  \A p \in Packages, v \in Names : version[p][v] # NoVersion =>
    /\ Exists(p)
    /\ \E i \in 1 .. Len(log) : /\ log[i].type = "version" /\ log[i].package = p
                                /\ log[i].actor = version[p][v].author

=============================================================================
