--------------------------- MODULE Authoring_proofs ---------------------------
(***************************************************************************)
(* Theorems about what authors write, for any packages, people and calls:  *)
(* the catalogue, where a write is checked on rows that may be old when it *)
(* commits, in Postgres and in memory; the script targets of a version     *)
(* with their revisions, and the page they are written on; and the order   *)
(* in which the versions of a package stand.                               *)
(***************************************************************************)
EXTENDS MemoryCatalog, WellFoundedInduction, TLAPS

-----------------------------------------------------------------------------
(* The invariant of the catalogue *)

\* Nothing is told of a package that was not made, and of one that was the log
\* names the team.
LogTellsPackages ==
  \A p \in Packages :
    /\ ~Exists(p) => \A i \in 1 .. Len(log) : log[i].package # p
    /\ Exists(p) => \E i \in 1 .. Len(log) : log[i].package = p /\ log[i].team = pkg[p].team

\* What was found when a call was checked: that the caller could maintain the
\* package is still in the log when the package has changed hands.
Owned(u, p) == \E i \in 1 .. Len(log) : log[i].package = p /\ MayMaintain(u, log[i].team)

Checked(c) ==
  c.stage = "admitted" =>
    /\ c.who \in People
    /\ c.op # "create" => Exists(c.input.package)
    /\ c.op \in {"update", "archive", "version"} => Owned(c.who, c.input.package)
    /\ c.op = "grade" => MayReview(c.who)

\* What the catalogue keeps in the tables and in memory; in the tables an identifier is
\* taken once and so a grade is not forgotten.
CoreInv ==
  /\ TypeOK
  /\ LogTellsPackages
  /\ \A r \in Requests : Checked(call[r])
  /\ WriterHadTheRight

CatalogInv == CoreInv /\ CreatedOnce /\ GradeIsDecided

MemoryCatalogInv == CoreInv /\ VersionsHaveOwners

-----------------------------------------------------------------------------
(* One write *)

LEMMA Logged ==
  ASSUME NEW entry \in LogEntries, log \in Seq(LogEntries), log' = Append(log, entry)
  PROVE  /\ log' \in Seq(LogEntries) /\ Len(log) \in Nat /\ Len(log') = Len(log) + 1
         /\ \A i \in 1 .. Len(log) : log'[i] = log[i]
         /\ log'[Len(log) + 1] = entry
  OBVIOUS

\* Who could maintain a package once could.
LEMMA OwnedStays ==
  ASSUME NEW entry \in LogEntries, log \in Seq(LogEntries), log' = Append(log, entry),
         NEW u, NEW p, Owned(u, p)
  PROVE  Owned(u, p)'
BY Logged DEF Owned, MayMaintain

\* The row that u, who has the right to it, may write of the package p.
Rightful(p, row, op, u) ==
  /\ row.lifecycle # "none" /\ row.team \in Teams
  /\ op = "create" => row.by = u /\ row.grade = "basic"
  /\ op # "create" => Exists(p) /\ row.by = pkg[p].by
  /\ op \notin {"create", "grade"} => row.grade = pkg[p].grade
  /\ op = "grade" => MayReview(u)
  /\ op \in {"update", "archive", "version"} => Owned(u, p)

LEMMA WriteAppends ==
  ASSUME TypeOK, NEW p \in Packages, NEW row \in PackageRows, NEW op \in Writes, NEW u \in People,
         Write(p, row, op, u), row.team \in Teams
  PROVE  \E n \in Nat :
           /\ n = Len(log) /\ log' \in Seq(LogEntries) /\ Len(log') = n + 1
           /\ \A i \in 1 .. n : log'[i] = log[i]
           /\ log'[n + 1] = [type |-> op, package |-> p, actor |-> u, team |-> row.team, grade |-> row.grade]
           /\ pkg' \in [Packages -> PackageRows] /\ pkg'[p] = row
           /\ \A q \in Packages \ {p} : pkg'[q] = pkg[q]
           /\ \A w, q : Owned(w, q) => Owned(w, q)'
<1> DEFINE entry == [type |-> op, package |-> p, actor |-> u, team |-> row.team, grade |-> row.grade]
<1>1. pkg \in [Packages -> PackageRows] /\ log \in Seq(LogEntries)
  BY DEF TypeOK
<1>2. entry \in LogEntries
  BY DEF PackageRows, Grades, LogEntries
<1>3. log' = Append(log, entry) /\ pkg' = [pkg EXCEPT ![p] = row]
  BY DEF Write
<1> HIDE DEF entry
<1>4. /\ log' \in Seq(LogEntries) /\ Len(log) \in Nat /\ Len(log') = Len(log) + 1
      /\ \A i \in 1 .. Len(log) : log'[i] = log[i]
      /\ log'[Len(log) + 1] = entry
  BY <1>1, <1>2, <1>3, Logged
<1>5. pkg' \in [Packages -> PackageRows] /\ pkg'[p] = row
      /\ \A q \in Packages \ {p} : pkg'[q] = pkg[q]
  BY <1>1, <1>3
<1>6. \A w, q : Owned(w, q) => Owned(w, q)'
  BY <1>1, <1>2, <1>3, OwnedStays
<1> QED BY <1>4, <1>5, <1>6 DEF entry

\* A write of the package p by u, who has the right to it.
LEMMA WriteTells ==
  ASSUME CoreInv, NEW p \in Packages, NEW row \in PackageRows, NEW op \in Writes, NEW u \in People,
         Write(p, row, op, u), Rightful(p, row, op, u)
  PROVE  /\ pkg' \in [Packages -> PackageRows] /\ log' \in Seq(LogEntries)
         /\ LogTellsPackages' /\ WriterHadTheRight'
         /\ \A q \in Packages : Exists(q) => Exists(q)'
         /\ \A w, q : Owned(w, q) => Owned(w, q)'
<1> DEFINE entry == [type |-> op, package |-> p, actor |-> u, team |-> row.team, grade |-> row.grade]
<1>1. PICK n \in Nat :
      /\ n = Len(log) /\ log' \in Seq(LogEntries) /\ Len(log') = n + 1
      /\ \A i \in 1 .. n : log'[i] = log[i]
      /\ log'[n + 1] = entry
      /\ pkg' \in [Packages -> PackageRows] /\ pkg'[p] = row
      /\ \A q \in Packages \ {p} : pkg'[q] = pkg[q]
      /\ \A w, q : Owned(w, q) => Owned(w, q)'
  BY WriteAppends DEF CoreInv, CatalogInv, Rightful
<1>4. /\ entry.type = op /\ entry.package = p /\ entry.actor = u /\ entry.team = row.team
      /\ entry.grade = row.grade
  OBVIOUS
<1> HIDE DEF entry
<1>5. /\ log' \in Seq(LogEntries) /\ n \in Nat /\ n = Len(log) /\ Len(log') = n + 1
      /\ \A i \in 1 .. n : log'[i] = log[i]
      /\ log'[n + 1] = entry
  BY <1>1
<1>6. pkg' \in [Packages -> PackageRows] /\ pkg'[p] = row
      /\ \A q \in Packages \ {p} : pkg'[q] = pkg[q]
  BY <1>1
<1>7. Exists(p)' /\ \A q \in Packages \ {p} : Exists(q)' <=> Exists(q)
  BY <1>6 DEF Exists, Rightful
<1>9. LogTellsPackages'
  <2>1. ASSUME NEW q \in Packages, ~Exists(q)', NEW i \in 1 .. n + 1
        PROVE  log'[i].package # q
    <3>1. q # p /\ ~Exists(q)
      BY <1>7, <2>1
    <3>2. CASE i = n + 1
      BY <1>4, <1>5, <3>1, <3>2
    <3>3. CASE i \in 1 .. n
      BY <1>5, <3>1, <3>3 DEF CoreInv, LogTellsPackages
    <3> QED BY <1>5, <3>2, <3>3
  <2>2. ASSUME NEW q \in Packages, Exists(q)'
        PROVE  \E i \in 1 .. n + 1 : log'[i].package = q /\ log'[i].team = pkg'[q].team
    <3>1. CASE q = p
      BY <1>4, <1>5, <1>6, <3>1
    <3>2. CASE q # p
      <4>1. PICK i \in 1 .. n : log[i].package = q /\ log[i].team = pkg[q].team
        BY <1>5, <1>7, <2>2, <3>2 DEF CoreInv, LogTellsPackages
      <4> QED BY <1>5, <1>6, <3>2, <4>1
    <3> QED BY <3>1, <3>2
  <2> QED BY <1>5, <2>1, <2>2 DEF LogTellsPackages
<1>10. WriterHadTheRight'
  <2>1. ASSUME NEW i \in 1 .. n + 1, log'[i].type \in {"update", "archive", "version"}
        PROVE  \E j \in 1 .. i - 1 : log'[j].package = log'[i].package /\ MayMaintain(log'[i].actor, log'[j].team)
    <3>1. CASE i = n + 1
      <4>1. PICK j \in 1 .. n : log[j].package = p /\ MayMaintain(u, log[j].team)
        BY <1>4, <1>5, <2>1, <3>1 DEF Owned, Rightful
      <4> QED BY <1>4, <1>5, <3>1, <4>1
    <3>2. CASE i \in 1 .. n
      <4>1. PICK j \in 1 .. i - 1 : log[j].package = log[i].package /\ MayMaintain(log[i].actor, log[j].team)
        BY <1>5, <2>1, <3>2 DEF CoreInv, WriterHadTheRight
      <4> QED BY <1>5, <3>2, <4>1
    <3> QED BY <1>5, <3>1, <3>2
  <2> QED BY <1>5, <2>1 DEF WriterHadTheRight, MayMaintain
<1> QED BY <1>1, <1>7, <1>9, <1>10

\* In the tables an identifier is taken once.
LEMMA WriteDecides ==
  ASSUME CatalogInv, NEW p \in Packages, NEW row \in PackageRows, NEW op \in Writes, NEW u \in People,
         Write(p, row, op, u), Rightful(p, row, op, u), op = "create" => ~Exists(p)
  PROVE  CreatedOnce' /\ GradeIsDecided'
<1> DEFINE entry == [type |-> op, package |-> p, actor |-> u, team |-> row.team, grade |-> row.grade]
<1>1. PICK n \in Nat :
      /\ n = Len(log) /\ log' \in Seq(LogEntries) /\ Len(log') = n + 1
      /\ \A i \in 1 .. n : log'[i] = log[i]
      /\ log'[n + 1] = entry
      /\ pkg' \in [Packages -> PackageRows] /\ pkg'[p] = row
      /\ \A q \in Packages \ {p} : pkg'[q] = pkg[q]
      /\ \A w, q : Owned(w, q) => Owned(w, q)'
  BY WriteAppends DEF CoreInv, CatalogInv, Rightful
<1>4. /\ entry.type = op /\ entry.package = p /\ entry.actor = u /\ entry.team = row.team
      /\ entry.grade = row.grade
  OBVIOUS
<1> HIDE DEF entry
<1>5. /\ log' \in Seq(LogEntries) /\ n \in Nat /\ n = Len(log) /\ Len(log') = n + 1
      /\ \A i \in 1 .. n : log'[i] = log[i]
      /\ log'[n + 1] = entry
  BY <1>1
<1>6. pkg' \in [Packages -> PackageRows] /\ pkg'[p] = row
      /\ \A q \in Packages \ {p} : pkg'[q] = pkg[q]
  BY <1>1
<1>7. Exists(p)' /\ \A q \in Packages \ {p} : Exists(q)' <=> Exists(q)
  BY <1>6 DEF Exists, Rightful
<1>8. /\ op = "create" => row.by = u /\ row.grade = "basic"
      /\ op # "create" => Exists(p) /\ row.by = pkg[p].by
      /\ op \notin {"create", "grade"} => row.grade = pkg[p].grade
      /\ op = "grade" => MayReview(u)
  BY DEF Rightful
<1>9. CreatedOnce'
  <2> DEFINE made(q) == {i \in 1 .. Len(log) : log[i].type = "create" /\ log[i].package = q}
             Once(q) == IF Exists(q) THEN \E i \in made(q) : made(q) = {i} /\ log[i].actor = pkg[q].by
                                     ELSE made(q) = {}
  <2>1. \A q \in Packages : Once(q)
    BY DEF CatalogInv, CreatedOnce
  <2>2. ASSUME NEW q \in Packages PROVE Once(q)'
    <3>1. CASE q = p /\ op = "create"
      <4>1. made(q)' = {n + 1}
        <5>1. made(q) = {}
          BY <2>1, <3>1
        <5>2. ASSUME NEW i \in 1 .. n PROVE i \notin made(q)'
          BY <1>5, <5>1
        <5>3. n + 1 \in made(q)'
          BY <1>4, <1>5, <3>1
        <5> QED BY <1>5, <5>2, <5>3
      <4> QED BY <1>4, <1>5, <1>6, <1>7, <1>8, <3>1, <4>1
    <3>2. CASE ~(q = p /\ op = "create")
      <4>1. made(q)' = made(q)
        BY <1>4, <1>5, <3>2
      <4>2. Exists(q)' <=> Exists(q)
        BY <1>7, <1>8, <3>2
      <4>3. Exists(q) => pkg'[q].by = pkg[q].by
        BY <1>6, <1>8, <3>2
      <4>4. \A i \in made(q) : log'[i] = log[i]
        BY <1>5
      <4> HIDE DEF made
      <4> QED BY <2>1, <4>1, <4>2, <4>3, <4>4
    <3> QED BY <3>1, <3>2
  <2> QED BY <2>2 DEF CreatedOnce
<1>10. GradeIsDecided'
  <2> DEFINE Graded(i, q) == /\ log[i].package = q /\ log[i].type = "grade"
                             /\ MayReview(log[i].actor) /\ log[i].grade = pkg[q].grade
                             /\ \A j \in i + 1 .. Len(log) : log[j].package = q => log[j].type # "grade"
             Born(q) == pkg[q].grade = "basic"
                        /\ \A i \in 1 .. Len(log) : log[i].package = q => log[i].type # "grade"
  <2>1. ASSUME NEW q \in Packages PROVE Born(q)' \/ \E i \in 1 .. n + 1 : Graded(i, q)'
    <3>1. Born(q) \/ \E i \in 1 .. n : Graded(i, q)
      BY <1>5 DEF CatalogInv, GradeIsDecided
    <3>2. CASE q = p /\ op = "grade"
      <4>1. Graded(n + 1, q)'
        BY <1>4, <1>5, <1>6, <1>8, <3>2 DEF MayReview
      <4> HIDE DEF Graded
      <4> QED BY <1>5, <4>1
    <3>3. CASE q = p /\ op = "create"
      <4>1. \A i \in 1 .. n : log[i].package # p
        BY <1>5, <1>8, <3>3 DEF CatalogInv, CoreInv, LogTellsPackages
      <4>2. Born(q)'
        BY <1>4, <1>5, <1>6, <1>8, <3>3, <4>1
      <4> QED BY <4>2
    <3>4. CASE q # p \/ op \notin {"create", "grade"}
      <4>1. pkg'[q].grade = pkg[q].grade
        BY <1>6, <1>8, <3>4
      <4>2. log'[n + 1].package = q => log'[n + 1].type # "grade"
        BY <1>4, <1>5, <3>4
      <4>3. CASE Born(q)
        <5>1. Born(q)'
          BY <1>5, <4>1, <4>2, <4>3
        <5> QED BY <5>1
      <4>4. ASSUME NEW i \in 1 .. n, Graded(i, q) PROVE Graded(i, q)'
        BY <1>5, <4>1, <4>2, <4>4 DEF MayReview
      <4> HIDE DEF Born, Graded
      <4>5. \A i \in 1 .. n : i \in 1 .. n + 1
        BY <1>5
      <4> QED BY <3>1, <4>3, <4>4, <4>5
    <3> QED BY <3>2, <3>3, <3>4
  <2> QED BY <1>5, <2>1 DEF GradeIsDecided
<1> QED BY <1>9, <1>10

-----------------------------------------------------------------------------
(* The steps *)

\* A step that leaves packages and log alone, and admits no call without its checks.
LEMMA CallsGoOn ==
  ASSUME CoreInv, UNCHANGED <<pkg, log>>,
         version' \in [Packages -> [Names -> VersionRows]],
         call' \in [Requests -> Calls \union {NoCall}], calls' \in 0 .. MaxCalls,
         NEW r \in Requests, Checked(call'[r]),
         \A q \in Requests \ {r} : call'[q] = call[q]
  PROVE  CoreInv'
<1>1. ASSUME NEW c, Checked(c) PROVE Checked(c)'
  BY <1>1 DEF Checked, Owned, MayMaintain, Exists, MayReview
<1>2. LogTellsPackages' /\ WriterHadTheRight'
  BY DEF CoreInv, LogTellsPackages, WriterHadTheRight, Exists,
         MayMaintain, MayReview
<1>3. TypeOK'
  BY DEF CoreInv, TypeOK
<1>4. ASSUME NEW q \in Requests PROVE Checked(call[q])'
  <2>1. PICK c : c = call'[q]
    OBVIOUS
  <2>2. Checked(c)
    BY <2>1 DEF CoreInv
  <2>3. Checked(c)'
    BY <1>1, <2>2
  <2> QED BY <2>1, <2>3
<1> QED BY <1>2, <1>3, <1>4 DEF CoreInv

\* What a call was checked on.
LEMMA AdmittedIsChecked ==
  ASSUME CoreInv, PeopleAssumption, NEW c \in Calls, Admitted(c)
  PROVE  /\ c.who \in People
         /\ c.op # "create" => Exists(c.input.package)
         /\ c.op \in {"update", "archive", "version"} => Owned(c.who, c.input.package)
         /\ c.op = "grade" => MayReview(c.who)
<1>1. c.input.package \in Packages
  BY DEF Calls, Inputs
<1>2. ASSUME Exists(c.input.package), MayMaintain(c.who, pkg[c.input.package].team)
      PROVE  Owned(c.who, c.input.package)
  BY <1>1, <1>2 DEF CoreInv, LogTellsPackages, Owned
<1>3. c.who \in People
  BY DEF Admitted, CreateAdmitted, UpdateAdmitted, ArchiveAdmitted, GradeAdmitted, VersionAdmitted,
         MayMaintain, MayReview, PeopleAssumption
<1> QED BY <1>2, <1>3 DEF Admitted, CreateAdmitted, UpdateAdmitted, ArchiveAdmitted, GradeAdmitted,
             VersionAdmitted

\* A write of a call that was checked, in the tables or in memory.
LEMMA CommitWrites ==
  ASSUME CoreInv, PeopleAssumption, NEW r \in Requests, MemCommit(r)
  PROVE  \E c \in Calls, row \in PackageRows :
           /\ c = call[r] /\ c.stage = "admitted" /\ c.who \in People
           /\ Write(c.input.package, row, c.op, c.who) /\ Rightful(c.input.package, row, c.op, c.who)
           /\ c.op # "version" => version' = version
           /\ c.op = "version" => version' = [version EXCEPT ![c.input.package][c.input.name] =
                                                [lifecycle |-> "draft", author |-> c.who]]
<1>1. pkg \in [Packages -> PackageRows] /\ call \in [Requests -> Calls \union {NoCall}]
  BY DEF CoreInv, TypeOK
<1>2. PICK c \in Calls : c = call[r] /\ c.stage = "admitted"
  BY <1>1 DEF MemCommit, NoCall
<1>3. PICK u \in People, in \in Inputs : u = c.who /\ in = c.input
  BY <1>2 DEF CoreInv, Checked, Calls
<1>4. /\ c.op # "create" => Exists(in.package)
      /\ c.op \in {"update", "archive", "version"} => Owned(u, in.package)
      /\ c.op = "grade" => MayReview(u)
  BY <1>2, <1>3 DEF CoreInv, Checked
<1>5. in.package \in Packages /\ in.name \in Names /\ in.team \in Teams /\ in.grade \in Grades
      /\ in.visibility \in {"public", "internal"}
  BY DEF Inputs
<1>6. ASSUME Exists(in.package)
      PROVE  pkg[in.package].lifecycle # "none" /\ pkg[in.package].team \in Teams
  <2>1. PICK i \in 1 .. Len(log) : log[i].team = pkg[in.package].team
    BY <1>5, <1>6 DEF CoreInv, LogTellsPackages
  <2>2. log[i] \in LogEntries
    BY DEF CoreInv, TypeOK
  <2> QED BY <1>6, <2>1, <2>2 DEF Exists, LogEntries
<1> DEFINE Result(row) == /\ Write(in.package, row, c.op, u) /\ Rightful(in.package, row, c.op, u)
                          /\ c.op # "version" => version' = version
                          /\ c.op = "version" => version' = [version EXCEPT ![in.package][in.name] =
                                                               [lifecycle |-> "draft", author |-> u]]
<1>7. ASSUME c.op = "create" PROVE \E row \in PackageRows : Result(row)
  <2> DEFINE row == [lifecycle |-> "active", team |-> in.team, publisher |-> in.team, by |-> u,
                     grade |-> "basic", visibility |-> in.visibility]
  <2>1. row \in PackageRows
    BY <1>5 DEF PackageRows, Grades
  <2>2. Write(in.package, row, "create", u) /\ version' = version
    BY <1>2, <1>3, <1>7 DEF MemCommit, MemCreatePackage
  <2>3. row.lifecycle # "none" /\ row.team \in Teams /\ row.by = u /\ row.grade = "basic"
    BY <1>5
  <2> HIDE DEF row
  <2>4. Rightful(in.package, row, c.op, u)
    BY <1>7, <2>3 DEF Rightful
  <2> QED BY <1>7, <2>1, <2>2, <2>4
<1>8. ASSUME c.op # "create" PROVE \E row \in PackageRows : Result(row)
  <2>1. PICK old \in PackageRows : old = pkg[in.package]
    BY <1>1, <1>5
  <2>2. old.lifecycle # "none" /\ old.team \in Teams /\ Exists(in.package)
    BY <1>4, <1>6, <1>8, <2>1
  <2>3. ASSUME NEW row, row.lifecycle # "none" /\ row.team \in Teams /\ row.by = old.by,
               c.op # "grade" => row.grade = old.grade
        PROVE  Rightful(in.package, row, c.op, u)
    BY <1>4, <1>8, <2>1, <2>2, <2>3 DEF Rightful
  <2>4. CASE c.op = "update"
    <3> DEFINE row == [old EXCEPT !.team = in.team, !.visibility = in.visibility]
    <3>1. Write(in.package, row, c.op, u) /\ version' = version
      BY <1>2, <1>3, <2>1, <2>4 DEF MemCommit, MemUpdatePackage, UpdatePackage, Columns
    <3>2. row \in PackageRows /\ row.lifecycle = old.lifecycle /\ row.team = in.team
          /\ row.by = old.by /\ row.grade = old.grade
      BY <1>5 DEF PackageRows
    <3> HIDE DEF row
    <3> QED BY <1>5, <2>2, <2>3, <2>4, <3>1, <3>2
  <2>5. CASE c.op = "grade"
    <3> DEFINE row == [old EXCEPT !.grade = in.grade]
    <3>1. Write(in.package, row, c.op, u) /\ version' = version
      BY <1>2, <1>3, <2>1, <2>5 DEF MemCommit, MemSetPackageGrade, SetPackageGrade
    <3>2. row \in PackageRows /\ row.lifecycle = old.lifecycle /\ row.team = old.team
          /\ row.by = old.by
      BY <1>5 DEF PackageRows
    <3> HIDE DEF row
    <3> QED BY <2>2, <2>3, <2>5, <3>1, <3>2
  <2>6. CASE c.op = "archive"
    <3> DEFINE row == [old EXCEPT !.lifecycle = "archived"]
    <3>1. Write(in.package, row, c.op, u) /\ version' = version
      BY <1>2, <1>3, <2>1, <2>6 DEF MemCommit, MemArchivePackage, ArchivePackage
    <3>2. row \in PackageRows /\ row.lifecycle = "archived" /\ row.team = old.team
          /\ row.by = old.by /\ row.grade = old.grade
      BY <1>5 DEF PackageRows
    <3> HIDE DEF row
    <3> QED BY <2>2, <2>3, <2>6, <3>1, <3>2
  <2>7. CASE c.op = "version"
    <3>1. Write(in.package, old, c.op, u)
          /\ version' = [version EXCEPT ![in.package][in.name] = [lifecycle |-> "draft", author |-> u]]
      BY <1>2, <1>3, <2>1, <2>7 DEF MemCommit, MemCreateVersion
    <3> QED BY <2>2, <2>3, <2>7, <3>1
  <2>8. c.op \in {"update", "grade", "archive", "version"}
    BY <1>8 DEF Calls, Writes
  <2> QED BY <2>4, <2>5, <2>6, <2>7, <2>8
<1>9. PICK row \in PackageRows : Result(row)
  BY <1>7, <1>8
<1> QED BY <1>2, <1>3, <1>9

LEMMA CommitKeepsCore ==
  ASSUME CoreInv, PeopleAssumption, NEW r \in Requests, MemCommit(r)
  PROVE  CoreInv'
<1>1. /\ version \in [Packages -> [Names -> VersionRows]]
      /\ call \in [Requests -> Calls \union {NoCall}] /\ calls \in 0 .. MaxCalls
  BY DEF CoreInv, TypeOK
<1>2. PICK c \in Calls, row \in PackageRows :
           /\ c = call[r] /\ c.stage = "admitted" /\ c.who \in People
           /\ Write(c.input.package, row, c.op, c.who) /\ Rightful(c.input.package, row, c.op, c.who)
           /\ c.op # "version" => version' = version
           /\ c.op = "version" => version' = [version EXCEPT ![c.input.package][c.input.name] =
                                                [lifecycle |-> "draft", author |-> c.who]]
  BY CommitWrites
<1>3. c.input.package \in Packages /\ c.input.name \in Names /\ c.op \in Writes
  BY DEF Calls, Inputs
<1>4. /\ pkg' \in [Packages -> PackageRows] /\ log' \in Seq(LogEntries)
      /\ LogTellsPackages' /\ WriterHadTheRight'
      /\ \A q \in Packages : Exists(q) => Exists(q)'
      /\ \A w, q : Owned(w, q) => Owned(w, q)'
  BY <1>2, <1>3, WriteTells
<1>5. version' \in [Packages -> [Names -> VersionRows]]
  <2>1. CASE c.op = "version"
    <3> DEFINE made == [lifecycle |-> "draft", author |-> c.who]
    <3>1. made \in VersionRows
      BY <1>2 DEF VersionRows, Lifecycles
    <3>2. version' = [version EXCEPT ![c.input.package][c.input.name] = made]
      BY <1>2, <2>1
    <3> HIDE DEF made
    <3>3. PICK p \in Packages, v \in Names : p = c.input.package /\ v = c.input.name
      BY <1>3
    <3>4. version' = [version EXCEPT ![p] = [version[p] EXCEPT ![v] = made]]
      BY <3>2, <3>3
    <3> QED BY <1>1, <3>1, <3>4
  <2>2. CASE c.op # "version"
    BY <1>1, <1>2, <2>2
  <2> QED BY <2>1, <2>2
<1>6. call' = [call EXCEPT ![r].stage = "done"] /\ calls' = calls
  BY DEF MemCommit
<1>7. call' \in [Requests -> Calls \union {NoCall}] /\ call'[r].stage # "admitted"
  <2>1. [c EXCEPT !.stage = "done"] \in Calls
    BY DEF Calls
  <2>2. call' = [call EXCEPT ![r] = [c EXCEPT !.stage = "done"]]
    BY <1>2, <1>6
  <2> QED BY <1>1, <1>2, <2>1, <2>2
<1>8. ASSUME NEW q \in Requests PROVE Checked(call[q])'
  <2>1. CASE q = r
    BY <1>7, <2>1 DEF Checked
  <2>2. CASE q # r
    <3>1. PICK d : d = call[q] /\ d = call'[q] /\ d \in Calls \union {NoCall}
      BY <1>1, <1>6, <2>2
    <3>2. Checked(d)
      BY <3>1 DEF CoreInv
    <3>3. ASSUME d.stage = "admitted" PROVE d.input.package \in Packages
      BY <3>1, <3>3 DEF NoCall, Calls, Inputs
    <3>4. Checked(d)'
      BY <1>4, <3>2, <3>3 DEF Checked, MayReview
    <3> QED BY <3>1, <3>4
  <2> QED BY <2>1, <2>2
<1>9. TypeOK'
  BY <1>1, <1>4, <1>5, <1>6, <1>7 DEF TypeOK
<1> QED BY <1>4, <1>8, <1>9 DEF CoreInv

\* What the tables do memory could have done.
LEMMA TablesAsMemory ==
  ASSUME NEW r \in Requests, Commit(r)
  PROVE  MemCommit(r)
BY Zenon DEF Commit, Transaction, MemCommit, CreatePackage, MemCreatePackage, MemUpdatePackage,
   MemSetPackageGrade, MemArchivePackage, CreateVersion, MemCreateVersion

LEMMA CommitKeeps ==
  ASSUME CatalogInv, PeopleAssumption, NEW r \in Requests, Commit(r)
  PROVE  CatalogInv'
<1>1. CoreInv /\ MemCommit(r)
  BY TablesAsMemory DEF CatalogInv
<1>2. PICK c \in Calls, row \in PackageRows :
           /\ c = call[r] /\ c.who \in People
           /\ Write(c.input.package, row, c.op, c.who) /\ Rightful(c.input.package, row, c.op, c.who)
  BY <1>1, CommitWrites
<1>3. c.input.package \in Packages /\ c.op \in Writes
  BY DEF Calls, Inputs
<1>4. c.op = "create" => ~Exists(c.input.package)
  BY <1>2 DEF Commit, Transaction, CreatePackage, Insertable
<1>5. CreatedOnce' /\ GradeIsDecided'
  BY <1>2, <1>3, <1>4, WriteDecides
<1> QED BY <1>1, <1>5, CommitKeepsCore DEF CatalogInv

\* The versions under governance.
LEMMA GovernKeeps ==
  ASSUME TypeOK, NEW p \in Packages, NEW v \in Names, Govern(p, v)
  PROVE  version' \in [Packages -> [Names -> VersionRows]] /\ KeepsVersions
<1>1. PICK step \in Transitions :
        /\ step[1] = version[p][v].lifecycle
        /\ version' = [version EXCEPT ![p][v].lifecycle = step[3]]
  BY DEF Govern
<1>2. /\ step[1] \in Lifecycles /\ step[3] \in Lifecycles
      /\ step[1] \in Released \ {"published"} => step[3] # "draft"
  BY DEF Transitions, Lifecycles, Released
<1>3. version \in [Packages -> [Names -> VersionRows]]
  BY DEF TypeOK
<1>4. version' \in [Packages -> [Names -> VersionRows]]
  <2>1. [version[p][v] EXCEPT !.lifecycle = step[3]] \in VersionRows
    <3>1. version[p][v] \in VersionRows
      BY <1>3
    <3>2. PICK old, next : old = version[p][v] /\ next = step[3] /\ next \in Lifecycles
      BY <1>2
    <3>3. [old EXCEPT !.lifecycle = next] \in VersionRows
      BY <3>1, <3>2 DEF VersionRows
    <3> QED BY <3>2, <3>3
  <2>2. [version[p] EXCEPT ![v] = [version[p][v] EXCEPT !.lifecycle = step[3]]] \in [Names -> VersionRows]
    BY <1>3, <2>1
  <2> QED BY <1>1, <1>3, <2>2
<1>5. ASSUME NEW q \in Packages, NEW w \in Names
      PROVE  /\ version'[q][w].author = version[q][w].author
             /\ version[q][w].lifecycle \in Released \ {"published"} =>
                  version'[q][w].lifecycle # "draft"
  BY <1>1, <1>2, <1>3 DEF VersionRows, Released
<1> QED BY <1>4, <1>5 DEF KeepsVersions

CallNext ==
  \/ \E r \in Requests : Check(r) \/ Fail(r) \/ Hangup(r)
  \/ \E r \in Requests, op \in Writes, u \in People \union {Nobody}, in \in Inputs : Arrive(r, op, u, in)
  \/ \E p \in Packages, v \in Names : Govern(p, v)

\* Every step but a commit and a stutter leaves the packages and the log alone.
LEMMA CallStep ==
  ASSUME CoreInv, PeopleAssumption, CallNext
  PROVE  CoreInv' /\ UNCHANGED <<pkg, log>>
<1>1. /\ version \in [Packages -> [Names -> VersionRows]]
      /\ call \in [Requests -> Calls \union {NoCall}] /\ calls \in 0 .. MaxCalls /\ MaxCalls \in Nat
  BY DEF CoreInv, TypeOK, PeopleAssumption
<1>3. ASSUME NEW r \in Requests, Check(r) PROVE CoreInv'
  <2>1. PICK c \in Calls : c = call[r] /\ c.stage = "arrived"
    BY <1>1, <1>3 DEF Check, NoCall
  <2>2. PICK stage \in {"admitted", "refused"} :
          call' = [call EXCEPT ![r].stage = stage] /\ (stage = "admitted" => Admitted(c))
    BY <1>3, <2>1 DEF Check
  <2> DEFINE d == [c EXCEPT !.stage = stage]
  <2>3. d \in Calls /\ d.stage = stage /\ d.who = c.who /\ d.input = c.input /\ d.op = c.op
    BY DEF Calls
  <2>4. call' = [call EXCEPT ![r] = d]
    BY <2>1, <2>2
  <2> HIDE DEF d
  <2>5. Checked(d)
    BY <2>2, <2>3, AdmittedIsChecked DEF Checked
  <2>6. call'[r] = d /\ call' \in [Requests -> Calls \union {NoCall}]
        /\ \A q \in Requests \ {r} : call'[q] = call[q]
    BY <1>1, <2>3, <2>4
  <2>7. UNCHANGED <<pkg, version, log, calls>>
    BY <1>3 DEF Check, tables
  <2> QED BY <1>1, <2>5, <2>6, <2>7, CallsGoOn
<1>4. ASSUME NEW r \in Requests, Fail(r) \/ Hangup(r) PROVE CoreInv'
  <2>1. PICK c \in Calls : c = call[r]
    BY <1>1, <1>4 DEF Fail, Hangup, NoCall
  <2>2. PICK d \in Calls \union {NoCall} : d.stage # "admitted" /\ call' = [call EXCEPT ![r] = d]
    <3>1. CASE Fail(r)
      <4>1. [c EXCEPT !.stage = "failed"] \in Calls /\ [c EXCEPT !.stage = "failed"].stage # "admitted"
        BY DEF Calls
      <4> QED BY <2>1, <3>1, <4>1 DEF Fail
    <3>2. CASE Hangup(r)
      BY <3>2 DEF Hangup, NoCall
    <3> QED BY <1>4, <3>1, <3>2
  <2>3. call'[r] = d /\ call' \in [Requests -> Calls \union {NoCall}]
        /\ \A q \in Requests \ {r} : call'[q] = call[q]
    BY <1>1, <2>2
  <2>4. Checked(call'[r])
    BY <2>2, <2>3 DEF Checked
  <2>5. UNCHANGED <<pkg, version, log, calls>>
    BY <1>4 DEF Fail, Hangup, tables
  <2> QED BY <1>1, <2>3, <2>4, <2>5, CallsGoOn
<1>5. ASSUME NEW r \in Requests, NEW op \in Writes, NEW u \in People \union {Nobody},
             NEW in \in Inputs, Arrive(r, op, u, in)
      PROVE  CoreInv'
  <2> DEFINE d == [stage |-> "arrived", op |-> op, who |-> u, input |-> in]
  <2>1. d \in Calls /\ d.stage = "arrived"
    BY DEF Calls
  <2>2. call' = [call EXCEPT ![r] = d] /\ calls < MaxCalls /\ calls' = calls + 1
        /\ UNCHANGED <<pkg, version, log>>
    BY <1>5 DEF Arrive, tables
  <2> HIDE DEF d
  <2>3. call'[r] = d /\ call' \in [Requests -> Calls \union {NoCall}]
        /\ \A q \in Requests \ {r} : call'[q] = call[q]
    BY <1>1, <2>1, <2>2
  <2>4. Checked(call'[r])
    BY <2>1, <2>3 DEF Checked
  <2>5. calls' \in 0 .. MaxCalls
    BY <1>1, <2>2
  <2> QED BY <1>1, <2>2, <2>3, <2>4, <2>5, CallsGoOn
<1>6. ASSUME NEW p \in Packages, NEW v \in Names, Govern(p, v) PROVE CoreInv'
  <2>1. version' \in [Packages -> [Names -> VersionRows]] /\ UNCHANGED <<pkg, log, call, calls>>
    BY <1>6, GovernKeeps DEF CoreInv, Govern
  <2> QED BY <2>1 DEF CoreInv, TypeOK, LogTellsPackages, Checked, Owned, MayMaintain,
             MayReview, Exists, WriterHadTheRight
<1>7. UNCHANGED <<pkg, log>>
  BY DEF CallNext, Check, Fail, Hangup, Arrive, Govern, tables
<1> QED BY <1>3, <1>4, <1>5, <1>6, <1>7 DEF CallNext

LEMMA CoreStutters ==
  ASSUME CoreInv, UNCHANGED catalogVars
  PROVE  CoreInv'
BY DEF CoreInv, catalogVars, TypeOK, LogTellsPackages, Checked, Owned, MayMaintain, MayReview, Exists, WriterHadTheRight

LEMMA CatalogStep ==
  ASSUME CatalogInv, PeopleAssumption, [Next]_catalogVars
  PROVE  CatalogInv'
<1>1. CASE UNCHANGED catalogVars
  BY <1>1, CoreStutters DEF CatalogInv, catalogVars, Exists, CreatedOnce, GradeIsDecided, MayReview
<1>2. CASE CallNext
  BY <1>2, CallStep DEF CatalogInv, Exists, CreatedOnce, GradeIsDecided, MayReview
<1>3. CASE \E r \in Requests : Commit(r)
  BY <1>3, CommitKeeps
<1> QED BY <1>1, <1>2, <1>3 DEF Next, CallNext

\* A version that memory keeps was made by its author, of a package that is there.
LEMMA MemoryCatalogStep ==
  ASSUME MemoryCatalogInv, PeopleAssumption, [MemNext]_catalogVars
  PROVE  MemoryCatalogInv'
<1>1. /\ version \in [Packages -> [Names -> VersionRows]] /\ log \in Seq(LogEntries)
      /\ call \in [Requests -> Calls \union {NoCall}] /\ CoreInv /\ VersionsHaveOwners
  BY DEF MemoryCatalogInv, CoreInv, TypeOK
<1>2. CASE UNCHANGED catalogVars
  BY <1>1, <1>2, CoreStutters DEF MemoryCatalogInv, catalogVars, Exists, VersionsHaveOwners
<1>3. CASE CallNext
  <2>1. CoreInv' /\ UNCHANGED <<pkg, log>>
    BY <1>1, <1>3, CallStep
  <2>2. CASE UNCHANGED version
    BY <1>1, <2>1, <2>2 DEF MemoryCatalogInv, Exists, VersionsHaveOwners
  <2>3. ASSUME NEW p \in Packages, NEW v \in Names, Govern(p, v)
        PROVE  VersionsHaveOwners'
    <3>1. ASSUME NEW q \in Packages, NEW w \in Names
          PROVE  /\ version'[q][w].author = version[q][w].author
                 /\ version'[q][w] # NoVersion => version[q][w] # NoVersion
      BY <1>1, <2>3 DEF Govern, Transitions, VersionRows, NoVersion
    <3> QED BY <1>1, <2>1, <3>1 DEF VersionsHaveOwners, Exists
  <2> QED BY <1>3, <2>1, <2>2, <2>3 DEF CallNext, Check, Fail, Hangup, Arrive, tables, MemoryCatalogInv
<1>4. ASSUME NEW r \in Requests, MemCommit(r) PROVE MemoryCatalogInv'
  <2>1. PICK c \in Calls, row \in PackageRows :
           /\ c = call[r] /\ c.stage = "admitted" /\ c.who \in People
           /\ Write(c.input.package, row, c.op, c.who) /\ Rightful(c.input.package, row, c.op, c.who)
           /\ c.op # "version" => version' = version
           /\ c.op = "version" => version' = [version EXCEPT ![c.input.package][c.input.name] =
                                                [lifecycle |-> "draft", author |-> c.who]]
    BY <1>1, <1>4, CommitWrites
  <2>2. PICK p \in Packages, u \in People, name \in Names, op \in Writes :
           p = c.input.package /\ u = c.who /\ name = c.input.name /\ op = c.op
    BY <2>1 DEF Calls, Inputs
  <2>3. \A q \in Packages : Exists(q) => Exists(q)'
    BY <1>1, <2>1, <2>2, WriteTells
  <2>4. PICK n \in Nat :
           /\ n = Len(log) /\ Len(log') = n + 1
           /\ \A i \in 1 .. n : log'[i] = log[i]
           /\ log'[n + 1] = [type |-> op, package |-> p, actor |-> u, team |-> row.team, grade |-> row.grade]
    BY SMTT(30), <1>1, <2>1, <2>2, WriteAppends DEF CoreInv, Rightful
  <2>5. ASSUME NEW q \in Packages, NEW v \in Names, version'[q][v] # NoVersion
        PROVE  Exists(q)' /\ \E i \in 1 .. n + 1 : /\ log'[i].type = "version" /\ log'[i].package = q
                                                    /\ log'[i].actor = version'[q][v].author
    <3>1. CASE op = "version" /\ q = p /\ v = name
      <4>1. Exists(q)
        BY <2>1, <2>2, <3>1 DEF Rightful
      <4>2. version'[q][v].author = u
        BY <1>1, <2>1, <2>2, <3>1
      <4> QED BY <2>3, <2>4, <3>1, <4>1, <4>2
    <3>2. CASE ~(op = "version" /\ q = p /\ v = name)
      <4>1. version'[q][v] = version[q][v]
        BY <1>1, <2>1, <2>2, <3>2
      <4>2. Exists(q) /\ \E i \in 1 .. n : /\ log[i].type = "version" /\ log[i].package = q
                                            /\ log[i].actor = version[q][v].author
        BY <1>1, <2>4, <2>5, <4>1 DEF VersionsHaveOwners
      <4> QED BY <2>3, <2>4, <4>1, <4>2
    <3> QED BY <3>1, <3>2
  <2>6. VersionsHaveOwners'
    BY <2>4, <2>5 DEF VersionsHaveOwners
  <2> QED BY <1>1, <1>4, <2>6, CommitKeepsCore DEF MemoryCatalogInv
<1> QED BY <1>2, <1>3, <1>4 DEF MemNext, CallNext

LEMMA CatalogStarts ==
  ASSUME Init, PeopleAssumption
  PROVE  CatalogInv /\ MemoryCatalogInv
<1>1. TypeOK
  BY DEF Init, TypeOK, PackageRows, NoPackage, VersionRows, NoVersion, Grades, PeopleAssumption
<1>2. \A p \in Packages : ~Exists(p) /\ pkg[p].grade = "basic"
  BY DEF Init, NoPackage, Exists
<1>3. Len(log) = 0
  BY DEF Init
<1>4. CreatedOnce
  BY <1>2, <1>3 DEF CreatedOnce
<1>5. CoreInv
  BY <1>1, <1>2, <1>3 DEF Init, CoreInv, LogTellsPackages, Checked, NoCall, WriterHadTheRight
<1>6. GradeIsDecided /\ VersionsHaveOwners
  BY <1>2, <1>3 DEF Init, GradeIsDecided, VersionsHaveOwners
<1> QED BY <1>4, <1>5, <1>6 DEF CatalogInv, MemoryCatalogInv

LEMMA CatalogInvariant == ASSUME PeopleAssumption PROVE Spec => []CatalogInv
BY CatalogStarts, CatalogStep, PTL DEF Spec

LEMMA MemoryCatalogInvariant == ASSUME PeopleAssumption PROVE MemSpec => []MemoryCatalogInv
BY CatalogStarts, MemoryCatalogStep, PTL DEF MemSpec

-----------------------------------------------------------------------------
(* The theorems about the catalogue *)

\* Of any number of creations that overlap one is kept, and the package names the
\* person who made it (createPackage behind packages_package_id_uidx).
THEOREM CreatedOnceHolds ==
  ASSUME PeopleAssumption PROVE Spec => [](TypeOK /\ CreatedOnce)
<1>1. CatalogInv => TypeOK /\ CreatedOnce
  BY DEF CatalogInv, CoreInv
<1> QED BY <1>1, CatalogInvariant, PTL

\* However old the check of a write is when it commits, it was made of a team that
\* owned the package (requireMaintainer).
THEOREM WriterHadTheRightHolds ==
  ASSUME PeopleAssumption PROVE Spec => []WriterHadTheRight
<1>1. CatalogInv => WriterHadTheRight
  BY DEF CatalogInv, CoreInv
<1> QED BY <1>1, CatalogInvariant, PTL

\* The grade is the last one a reviewer decided, whatever maintainers write around
\* it (setPackageGrade apart from updatePackage).
THEOREM GradeIsDecidedHolds ==
  ASSUME PeopleAssumption PROVE Spec => []GradeIsDecided
<1>1. CatalogInv => GradeIsDecided
  BY DEF CatalogInv, CoreInv
<1> QED BY <1>1, CatalogInvariant, PTL

\* No call made twice and no governance takes a version from its author or a
\* withdrawn one back to draft (createVersion's check and insert).
THEOREM KeepsVersionsHolds ==
  ASSUME PeopleAssumption PROVE Spec => [][KeepsVersions]_catalogVars
<1>1. ASSUME CatalogInv, Next PROVE KeepsVersions
  <2>1. CASE UNCHANGED version
    BY <2>1 DEF KeepsVersions, Released
  <2>2. ASSUME NEW r \in Requests, Commit(r) PROVE KeepsVersions
    <3>1. SUFFICES ASSUME version' # version PROVE KeepsVersions
      BY <2>1
    <3>2. CreateVersion(call[r].who, call[r].input)
      BY <2>2, <3>1, Zenon DEF Commit, Transaction, CreatePackage, UpdatePackage, SetPackageGrade,
         ArchivePackage
    <3>3. PICK in, u : CreateVersion(u, in)
      BY <3>2
    <3>4. version \in [Packages -> [Names -> VersionRows]]
      BY <1>1 DEF CatalogInv, CoreInv, TypeOK
    <3>5. ASSUME NEW p \in Packages, NEW v \in Names, version[p][v] # NoVersion
          PROVE  version'[p][v] = version[p][v]
      <4>1. p # in.package \/ v # in.name
        BY <3>3, <3>5 DEF CreateVersion, VersionFree
      <4> QED BY <3>3, <3>4, <4>1 DEF CreateVersion
    <3> QED BY <3>5 DEF KeepsVersions, Released
  <2>3. ASSUME NEW p \in Packages, NEW v \in Names, Govern(p, v) PROVE KeepsVersions
    BY <1>1, <2>3, GovernKeeps DEF CatalogInv, CoreInv
  <2> QED BY <1>1, <2>1, <2>2, <2>3 DEF Next, Check, Fail, Hangup, Arrive, tables
<1>2. CatalogInv /\ [Next]_catalogVars => [KeepsVersions]_catalogVars
  BY <1>1
<1> QED BY <1>2, CatalogInvariant, PTL DEF Spec

\* For any people and roles, what is found can be taken, what can be taken is shown,
\* and who may maintain an active package finds it listed (search, getDetail,
\* getDownload and listMaintainedPackages).
THEOREM ReadsAgreeHolds ==
  ASSUME PeopleAssumption PROVE Spec => [](FoundCanBeTaken /\ MaintainableIsListed)
<1>1. FoundCanBeTaken
  BY DEF FoundCanBeTaken, Search, Download, Detail, Published
<1>2. MaintainableIsListed
  BY DEF MaintainableIsListed, MayMaintain, ListMaintained, Scope, InTeamScope
<1> QED BY <1>1, <1>2, PTL

\* In memory too, where a creation can replace a package that another has made, a write
\* was checked on a team that owned the package, and a version names its author
\* (createVersion of the memory repository).
THEOREM MemoryHasOwners ==
  ASSUME PeopleAssumption PROVE MemSpec => [](TypeOK /\ WriterHadTheRight /\ VersionsHaveOwners)
<1>1. MemoryCatalogInv => TypeOK /\ WriterHadTheRight /\ VersionsHaveOwners
  BY DEF MemoryCatalogInv, CoreInv
<1> QED BY <1>1, MemoryCatalogInvariant, PTL

-----------------------------------------------------------------------------
(* The script targets of a version *)

CONSTANTS Targets, Contents, NoTarget, NoContent
VARIABLES lifecycle, row, revisions, events, asked, asks, copy

Scripts == INSTANCE MemoryTargets WITH call <- asked, calls <- asks

AskedRecords ==
  [stage : Scripts!Stages, op : Scripts!Ops, target : Targets \union {NoTarget},
   from : Targets \union {NoTarget}, expected : Nat,
   content : Contents \union {NoContent}, seen : [Targets -> Scripts!Rows],
   draft : BOOLEAN, answer : [Targets -> Scripts!Records]]

\* A call under way that writes names its target, a copy its source, and a save its content.
Named(c) ==
  /\ c.op \in Scripts!ReadOnly \/ c.target \in Targets
  /\ c.op = "copy" => c.from \in Targets
  /\ c.op = "save" => c.content \in Contents

TargetsInv ==
  /\ Scripts!TypeOK
  /\ Scripts!CurrentIsNewest
  /\ \A r \in Requests : Named(asked[r])

\* A transaction adds to the revisions and leaves the newest of them the current one.
LEMMA TransactionKeeps ==
  ASSUME TargetsInv, NEW r \in Requests, asked[r].stage # "none", Scripts!Transaction(r)
  PROVE  /\ row' \in [Targets -> Scripts!Rows]
         /\ revisions' \in [Targets -> Seq(Scripts!Revisions)]
         /\ events' \in Seq(Scripts!Events)
         /\ Scripts!CurrentIsNewest'
         /\ \A t \in Targets : SubSeq(revisions'[t], 1, Scripts!LastRevision(t)) = revisions[t]
<1>1. /\ row \in [Targets -> Scripts!Rows] /\ revisions \in [Targets -> Seq(Scripts!Revisions)]
      /\ events \in Seq(Scripts!Events) /\ asked \in [Requests -> AskedRecords]
  BY DEF TargetsInv, Scripts!TypeOK, AskedRecords
<1>2. PICK c \in AskedRecords : c = asked[r] /\ Named(c)
  BY <1>1 DEF TargetsInv
<1>3. PICK t \in Targets : t = c.target
  BY <1>2 DEF Scripts!Transaction, Scripts!ReadOnly, Named
<1>4. \A u \in Targets : /\ row[u].current \in {0, Scripts!LastRevision(u)}
                         /\ row[u].deleted => row[u].current = 0
                         /\ ~row[u].made => Scripts!LastRevision(u) = 0
                         /\ Scripts!LastRevision(u) = Len(revisions[u])
                         /\ Scripts!LastRevision(u) \in Nat
  BY <1>1 DEF TargetsInv, Scripts!CurrentIsNewest, Scripts!LastRevision
<1>5. \A u \in Targets : SubSeq(revisions[u], 1, Scripts!LastRevision(u)) = revisions[u]
  BY <1>1 DEF Scripts!LastRevision
<1>6. ASSUME NEW rev \in Scripts!Revisions, Scripts!Revise(t, rev), row[t].made, ~row[t].deleted
      PROVE  /\ row' \in [Targets -> Scripts!Rows]
             /\ revisions' \in [Targets -> Seq(Scripts!Revisions)]
             /\ Scripts!CurrentIsNewest'
             /\ \A u \in Targets : SubSeq(revisions'[u], 1, Scripts!LastRevision(u)) = revisions[u]
  <2>1. row' = [row EXCEPT ![t].current = Scripts!LastRevision(t) + 1]
        /\ revisions' = [revisions EXCEPT ![t] = Append(revisions[t], rev)]
    BY <1>6 DEF Scripts!Revise
  <2>2. revisions' \in [Targets -> Seq(Scripts!Revisions)]
        /\ revisions'[t] = Append(revisions[t], rev)
        /\ \A u \in Targets \ {t} : revisions'[u] = revisions[u]
    BY <1>1, <1>6, <2>1
  <2>3. row' \in [Targets -> Scripts!Rows] /\ row'[t].current = Scripts!LastRevision(t) + 1
        /\ row'[t].made = row[t].made /\ row'[t].deleted = row[t].deleted
        /\ \A u \in Targets \ {t} : row'[u] = row[u]
    <3>1. PICK old, n : old = row[t] /\ n = Scripts!LastRevision(t) + 1 /\ n \in Nat
      BY <1>4
    <3>2. old \in Scripts!Rows
      BY <1>1, <3>1
    <3>3. [old EXCEPT !.current = n] \in Scripts!Rows
      BY <3>1, <3>2 DEF Scripts!Rows
    <3>4. row' = [row EXCEPT ![t] = [old EXCEPT !.current = n]]
      BY <2>1, <3>1
    <3> QED BY <1>1, <3>1, <3>2, <3>3, <3>4 DEF Scripts!Rows
  <2>4. Len(revisions'[t]) = Scripts!LastRevision(t) + 1
    BY <1>1, <1>4, <2>2
  <2>5. SubSeq(revisions'[t], 1, Scripts!LastRevision(t)) = revisions[t]
    BY <1>1, <1>4, <2>2
  <2>6. Scripts!CurrentIsNewest'
    BY <1>4, <1>6, <2>2, <2>3, <2>4 DEF Scripts!CurrentIsNewest, Scripts!LastRevision
  <2> QED BY <1>5, <2>2, <2>3, <2>5, <2>6
<1>7. ASSUME NEW new \in Scripts!Rows, row' = [row EXCEPT ![t] = new], UNCHANGED revisions,
             new.made, new.current = 0
      PROVE  /\ row' \in [Targets -> Scripts!Rows]
             /\ revisions' \in [Targets -> Seq(Scripts!Revisions)]
             /\ Scripts!CurrentIsNewest'
             /\ \A u \in Targets : SubSeq(revisions'[u], 1, Scripts!LastRevision(u)) = revisions[u]
  <2>1. row' \in [Targets -> Scripts!Rows] /\ row'[t] = new /\ \A u \in Targets \ {t} : row'[u] = row[u]
    BY <1>1, <1>7
  <2>2. Scripts!CurrentIsNewest'
    BY <1>4, <1>7, <2>1 DEF Scripts!CurrentIsNewest, Scripts!LastRevision
  <2> QED BY <1>1, <1>5, <1>7, <2>1, <2>2
<1>8. ASSUME NEW type \in {"created", "restored", "revision_saved", "revision_copied", "deleted"},
             NEW n \in Nat, Scripts!Record(type, t, n)
      PROVE  events' \in Seq(Scripts!Events)
  <2>1. [type |-> type, target |-> t, scriptVersion |-> n] \in Scripts!Events
    BY DEF Scripts!Events
  <2> QED BY <1>1, <1>8, <2>1 DEF Scripts!Record
<1>9. /\ Scripts!LastRevision(t) \in Nat /\ Scripts!LastRevision(t) + 1 \in Nat
      /\ row[t] \in Scripts!Rows /\ row[t].current \in Nat
  BY <1>1, <1>4 DEF Scripts!Rows
<1>10. CASE c.op = "create" /\ Scripts!CreateTarget(r)
  <2>1. /\ row' = [row EXCEPT ![t] = Scripts!RestoredRow(t)] /\ UNCHANGED revisions
        /\ Scripts!Record(Scripts!RestoredEvent(t), t, 0)
    BY <1>2, <1>3, <1>10 DEF Scripts!CreateTarget
  <2>2. Scripts!RestoredRow(t) \in Scripts!Rows /\ Scripts!RestoredRow(t).made
        /\ Scripts!RestoredRow(t).current = 0
    BY DEF Scripts!RestoredRow, Scripts!Rows
  <2>3. PICK type \in {"created", "restored"} : type = Scripts!RestoredEvent(t)
    BY DEF Scripts!RestoredEvent
  <2>4. events' \in Seq(Scripts!Events)
    BY <1>8, <2>1, <2>3
  <2> QED BY <1>7, <2>1, <2>2, <2>4
<1>11. CASE c.op = "save" /\ Scripts!SaveRevision(r)
  <2> DEFINE rev == [content |-> c.content, copiedFrom |-> NoTarget, over |-> row[t].current]
  <2>1. /\ Scripts!IsActive(t) /\ Scripts!Revise(t, rev)
        /\ Scripts!Record("revision_saved", t, Scripts!LastRevision(t) + 1)
    BY <1>2, <1>3, <1>11 DEF Scripts!SaveRevision, Scripts!MayRevise
  <2>2. rev \in Scripts!Revisions
    BY <1>2, <1>9, <1>11 DEF Scripts!Revisions, Named
  <2> HIDE DEF rev
  <2> QED BY <1>6, <1>8, <1>9, <2>1, <2>2 DEF Scripts!IsActive
<1>12. CASE c.op = "copy" /\ Scripts!CopyRevision(r)
  <2>1. PICK s \in Targets : s = c.from
    BY <1>2, <1>12 DEF Named
  <2> DEFINE rev == [content |-> revisions[s][row[s].current].content, copiedFrom |-> s,
                     over |-> row[t].current]
  <2>2. /\ Scripts!IsActive(t) /\ Scripts!Revise(t, rev) /\ row[s].current # 0
        /\ Scripts!Record("revision_copied", t, Scripts!LastRevision(t) + 1)
    BY <1>2, <1>3, <1>12, <2>1 DEF Scripts!CopyRevision, Scripts!MayRevise
  <2>3. row[s].current \in 1 .. Len(revisions[s])
    BY <1>4, <2>2
  <2>4. revisions[s][row[s].current] \in Scripts!Revisions
    BY <1>1, <2>3
  <2>5. rev \in Scripts!Revisions
    BY <1>9, <2>4 DEF Scripts!Revisions
  <2> HIDE DEF rev
  <2> QED BY <1>6, <1>8, <1>9, <2>2, <2>5 DEF Scripts!IsActive
<1>13. CASE c.op = "delete" /\ Scripts!DeleteTarget(r)
  <2>1. /\ Scripts!IsActive(t) /\ row' = [row EXCEPT ![t] = Scripts!DeletedRow(t)] /\ UNCHANGED revisions
        /\ Scripts!Record("deleted", t, Scripts!LastRevision(t))
    BY <1>2, <1>3, <1>13 DEF Scripts!DeleteTarget, Scripts!MayRevise
  <2>2. Scripts!DeletedRow(t) \in Scripts!Rows /\ Scripts!DeletedRow(t).made
        /\ Scripts!DeletedRow(t).current = 0
    BY <1>9, <2>1 DEF Scripts!DeletedRow, Scripts!Rows, Scripts!IsActive
  <2> QED BY <1>7, <1>8, <1>9, <2>1, <2>2
<1> QED BY <1>2, <1>10, <1>11, <1>12, <1>13 DEF Scripts!Transaction

\* What a call is told is of the shape of an answer.
LEMMA ToldIsRecord ==
  ASSUME NEW seen \in Scripts!Rows, NEW n \in Nat
  PROVE  Scripts!MapTarget(seen, n) \in Scripts!Records /\ Scripts!NoRecord \in Scripts!Records
BY DEF Scripts!MapTarget, Scripts!NoRecord, Scripts!Records, Scripts!Rows

LEMMA NoCallIsRecord == Scripts!NoCall \in AskedRecords
BY DEF Scripts!NoCall, AskedRecords, Scripts!Stages, Scripts!Ops, Scripts!NoAnswer, Scripts!NoRecord,
       Scripts!NoRow, Scripts!Rows, Scripts!Records

\* A step that leaves the tables alone.
LEMMA AskedGoOn ==
  ASSUME TargetsInv, UNCHANGED <<row, revisions, events>>, lifecycle' \in {"draft", "validating"},
         asks' \in 0 .. MaxCalls,
         NEW r \in Requests, NEW d \in AskedRecords, asked' = [asked EXCEPT ![r] = d], Named(d)
  PROVE  TargetsInv'
<1>1. asked \in [Requests -> AskedRecords]
  BY DEF TargetsInv, Scripts!TypeOK, AskedRecords
<1>2. asked' \in [Requests -> AskedRecords] /\ \A q \in Requests : Named(asked'[q])
  BY <1>1 DEF TargetsInv, Named
<1>3. Scripts!TypeOK'
  BY <1>2 DEF TargetsInv, Scripts!TypeOK, AskedRecords
<1> QED BY <1>2, <1>3 DEF TargetsInv, Named, Scripts!CurrentIsNewest, Scripts!LastRevision

\* What both repositories do around their transactions.
LEMMA AroundKeeps ==
  ASSUME TargetsInv, Scripts!TargetsAssumption,
         \/ \E r \in Requests : Scripts!AnyCall(r) \/ Scripts!Check(r) \/ Scripts!Refuse(r)
         \/ \E r \in Requests : Scripts!Hangup(r) /\ UNCHANGED <<Scripts!tables, asks>>
         \/ Scripts!SubmitVersion
         \/ Scripts!ReviseVersion
  PROVE  TargetsInv' /\ UNCHANGED <<row, revisions>>
<1>1. /\ lifecycle \in {"draft", "validating"} /\ asked \in [Requests -> AskedRecords]
      /\ asks \in 0 .. MaxCalls /\ MaxCalls \in Nat
  BY DEF TargetsInv, Scripts!TypeOK, AskedRecords, Scripts!TargetsAssumption
<1>2. ASSUME NEW r \in Requests, Scripts!AnyCall(r) PROVE TargetsInv' /\ UNCHANGED <<row, revisions>>
  <2>1. PICK op \in Scripts!Ops, t \in Targets, s \in Targets, n \in 0 .. MaxCalls, x \in Contents :
          Scripts!Arrive(r, op, t, s, n, x) /\ UNCHANGED Scripts!tables
    BY <1>2 DEF Scripts!AnyCall
  <2> DEFINE d == Scripts!Call(op, t, s, n, x)
  <2>2. d \in AskedRecords /\ d.target = t /\ d.from = s /\ d.content = x
    <3>1. PICK none \in AskedRecords : none = Scripts!NoCall
      BY NoCallIsRecord
    <3>2. n \in Nat /\ "arrived" \in Scripts!Stages
      BY <1>1 DEF Scripts!Stages
    <3>3. d = [none EXCEPT !.stage = "arrived", !.op = op, !.target = t, !.from = s,
                           !.expected = n, !.content = x]
      BY <3>1 DEF Scripts!Call
    <3> HIDE DEF d
    <3> QED BY <3>2, <3>3 DEF AskedRecords
  <2>3. asked' = [asked EXCEPT ![r] = d] /\ asks < MaxCalls /\ asks' = asks + 1
        /\ UNCHANGED <<lifecycle, row, revisions, events>>
    BY <2>1 DEF Scripts!Arrive, Scripts!tables
  <2> HIDE DEF d
  <2>4. asks' \in 0 .. MaxCalls
    BY <1>1, <2>3
  <2> QED BY <1>1, <2>2, <2>3, <2>4, AskedGoOn DEF Named
<1>3. ASSUME NEW r \in Requests, Scripts!Check(r) \/ Scripts!Refuse(r)
      PROVE  TargetsInv' /\ UNCHANGED <<row, revisions>>
  <2>1. PICK stage \in Scripts!Stages : asked' = [asked EXCEPT ![r].stage = stage] /\ asked[r].stage # "none"
    BY <1>3 DEF Scripts!Check, Scripts!Refuse, Scripts!Stages
  <2>2. PICK c \in AskedRecords : c = asked[r] /\ Named(c)
    BY <1>1 DEF TargetsInv
  <2> DEFINE d == [c EXCEPT !.stage = stage]
  <2>3. d \in AskedRecords /\ Named(d)
    BY <2>1, <2>2 DEF AskedRecords, Named
  <2>4. asked' = [asked EXCEPT ![r] = d] /\ UNCHANGED <<lifecycle, row, revisions, events, asks>>
    BY <1>3, <2>1, <2>2 DEF Scripts!Check, Scripts!Refuse, Scripts!tables
  <2> HIDE DEF d
  <2> QED BY <1>1, <2>3, <2>4, AskedGoOn
<1>4. ASSUME NEW r \in Requests, Scripts!Hangup(r), UNCHANGED <<Scripts!tables, asks>>
      PROVE  TargetsInv' /\ UNCHANGED <<row, revisions>>
  <2>1. Scripts!NoCall \in AskedRecords /\ Named(Scripts!NoCall)
    BY NoCallIsRecord DEF Scripts!NoCall, Scripts!ReadOnly, Named
  <2>2. asked' = [asked EXCEPT ![r] = Scripts!NoCall] /\ UNCHANGED <<lifecycle, row, revisions, events>>
    BY <1>4 DEF Scripts!Hangup, Scripts!tables
  <2> QED BY <1>1, <1>4, <2>1, <2>2, AskedGoOn
<1>5. CASE Scripts!SubmitVersion \/ Scripts!ReviseVersion
  BY <1>5 DEF Scripts!SubmitVersion, Scripts!ReviseVersion, TargetsInv, Scripts!TypeOK, Named,
     Scripts!CurrentIsNewest, Scripts!LastRevision
<1> QED BY <1>2, <1>3, <1>4, <1>5

\* A transaction in which the call goes on to d.
LEMMA CommittedKeeps ==
  ASSUME TargetsInv, NEW r \in Requests, asked[r].stage # "none", Scripts!Transaction(r),
         UNCHANGED <<lifecycle, asks>>,
         NEW d \in AskedRecords, asked' = [asked EXCEPT ![r] = d], Named(d)
  PROVE  TargetsInv'
<1>1. asked \in [Requests -> AskedRecords]
  BY DEF TargetsInv, Scripts!TypeOK, AskedRecords
<1>2. asked' \in [Requests -> AskedRecords] /\ \A q \in Requests : Named(asked'[q])
  BY <1>1 DEF TargetsInv, Named
<1>3. Scripts!TypeOK'
  BY <1>2, TransactionKeeps DEF TargetsInv, Scripts!TypeOK, AskedRecords
<1> QED BY <1>2, <1>3, TransactionKeeps DEF TargetsInv, Named


LEMMA TargetsStep ==
  ASSUME TargetsInv, Scripts!TargetsAssumption, [Scripts!Next]_(Scripts!serverVars)
  PROVE  TargetsInv' /\ [Scripts!KeepsHistory]_(Scripts!serverVars)
<1>1. /\ lifecycle \in {"draft", "validating"} /\ asked \in [Requests -> AskedRecords]
      /\ asks \in 0 .. MaxCalls /\ row \in [Targets -> Scripts!Rows]
      /\ revisions \in [Targets -> Seq(Scripts!Revisions)]
  BY DEF TargetsInv, Scripts!TypeOK, AskedRecords
<1>2. \A t \in Targets : SubSeq(revisions[t], 1, Scripts!LastRevision(t)) = revisions[t]
  BY <1>1 DEF Scripts!LastRevision
<1>3. ASSUME UNCHANGED <<row, revisions>> PROVE Scripts!KeepsHistory
  BY <1>2, <1>3 DEF Scripts!KeepsHistory
<1>4. CASE UNCHANGED Scripts!serverVars
  BY <1>4 DEF TargetsInv, Scripts!serverVars, Scripts!TypeOK, Named, Scripts!CurrentIsNewest,
     Scripts!LastRevision
<1>5. ASSUME NEW r \in Requests, Scripts!Commit(r) PROVE TargetsInv' /\ Scripts!KeepsHistory
  <2>1. PICK c \in AskedRecords : c = asked[r] /\ Named(c) /\ c.stage = "admitted"
    BY <1>1, <1>5 DEF TargetsInv, Scripts!Commit
  <2> DEFINE d == [c EXCEPT !.stage = "committed"]
  <2>2. d \in AskedRecords /\ Named(d)
    BY <2>1 DEF AskedRecords, Scripts!Stages, Named
  <2>3. asked' = [asked EXCEPT ![r] = d] /\ Scripts!Transaction(r) /\ UNCHANGED <<lifecycle, asks>>
        /\ lifecycle = "draft"
    BY <1>5, <2>1 DEF Scripts!Commit, Scripts!DraftForUpdate
  <2> HIDE DEF d
  <2>4. TargetsInv'
    BY <2>1, <2>2, <2>3, CommittedKeeps
  <2>5. Scripts!KeepsHistory
    BY <2>1, <2>3, TransactionKeeps DEF Scripts!KeepsHistory
  <2> QED BY <2>4, <2>5
<1>6. ASSUME NEW r \in Requests, Scripts!ReadRows(r)
      PROVE TargetsInv' /\ UNCHANGED <<row, revisions>>
  <2>1. PICK c \in AskedRecords : c = asked[r] /\ Named(c) /\ c.stage = "committed"
    BY <1>1, <1>6 DEF TargetsInv, Scripts!ReadRows
  <2> DEFINE seen == [t \in Targets |-> IF t \in Scripts!Asks(r) THEN row[t] ELSE Scripts!NoRow]
             draft == c.op = "load" /\ lifecycle = "draft"
             d == [c EXCEPT !.stage = "row read", !.draft = draft, !.seen = seen]
  <2>2. seen \in [Targets -> Scripts!Rows] /\ draft \in BOOLEAN
    BY <1>1 DEF Scripts!NoRow, Scripts!Rows
  <2>3. asked' = [asked EXCEPT ![r] = d] /\ UNCHANGED <<lifecycle, row, revisions, events, asks>>
    BY <1>6, <2>1 DEF Scripts!ReadRows, Scripts!tables
  <2> HIDE DEF seen, draft
  <2>4. d \in AskedRecords /\ Named(d)
    BY <2>1, <2>2 DEF AskedRecords, Scripts!Stages, Named
  <2> HIDE DEF d
  <2> QED BY <1>1, <2>3, <2>4, AskedGoOn
<1>7. ASSUME NEW r \in Requests, Scripts!ReadRevisions(r)
      PROVE TargetsInv' /\ UNCHANGED <<row, revisions>>
  <2>1. PICK c \in AskedRecords : c = asked[r] /\ Named(c) /\ c.stage = "row read"
    BY <1>1, <1>7 DEF TargetsInv, Scripts!ReadRevisions
  <2> DEFINE answer == [t \in Targets |->
                          IF c.op = "load" /\ c.seen[t].deleted THEN Scripts!NoRecord
                          ELSE Scripts!MapTarget(c.seen[t], Scripts!LastRevision(t))]
             d == [c EXCEPT !.stage = "answered", !.seen = Scripts!NoCall.seen, !.answer = answer]
  <2>2. answer \in [Targets -> Scripts!Records]
    <3>1. ASSUME NEW t \in Targets
          PROVE  /\ Scripts!MapTarget(c.seen[t], Scripts!LastRevision(t)) \in Scripts!Records
                 /\ Scripts!NoRecord \in Scripts!Records
      <4>1. c.seen[t] \in Scripts!Rows /\ Scripts!LastRevision(t) \in Nat
        BY <1>1 DEF AskedRecords, Scripts!LastRevision
      <4> QED BY <4>1, ToldIsRecord
    <3> QED BY <3>1
  <2>3. asked' = [asked EXCEPT ![r] = d] /\ UNCHANGED <<lifecycle, row, revisions, events, asks>>
    BY <1>7, <2>1 DEF Scripts!ReadRevisions, Scripts!tables
  <2>4. Scripts!NoCall.seen \in [Targets -> Scripts!Rows]
    BY NoCallIsRecord DEF AskedRecords
  <2> HIDE DEF answer
  <2>5. d \in AskedRecords /\ Named(d)
    BY <2>1, <2>2, <2>4 DEF AskedRecords, Scripts!Stages, Named
  <2> HIDE DEF d
  <2> QED BY <1>1, <2>3, <2>5, AskedGoOn
<1>8. CASE Scripts!Next
  BY <1>3, <1>5, <1>6, <1>7, <1>8, AroundKeeps DEF Scripts!Next, Scripts!Serve
<1> QED BY <1>4, <1>8

LEMMA TargetsStart ==
  ASSUME Scripts!TargetsAssumption, Scripts!Init PROVE TargetsInv
<1>1. Scripts!NoRow \in Scripts!Rows
  BY DEF Scripts!NoRow, Scripts!Rows
<1>2. asked \in [Requests -> AskedRecords] /\ \A r \in Requests : Named(asked[r])
  BY NoCallIsRecord DEF Scripts!Init, Scripts!NoCall, Scripts!ReadOnly, Named
<1>3. Scripts!TypeOK
  BY <1>1, <1>2 DEF Scripts!Init, Scripts!TypeOK, AskedRecords, Scripts!TargetsAssumption
<1>4. Scripts!CurrentIsNewest
  BY DEF Scripts!Init, Scripts!NoRow, Scripts!CurrentIsNewest, Scripts!LastRevision
<1> QED BY <1>2, <1>3, <1>4 DEF TargetsInv

\* The row of a target names its newest revision or none, whatever calls overlap
\* (saveTargetRevision and copyTargetRevision under the lock on the version).
THEOREM CurrentIsNewestHolds ==
  ASSUME Scripts!TargetsAssumption
  PROVE  Scripts!Spec => [](Scripts!TypeOK /\ Scripts!CurrentIsNewest)
<1>1. TargetsInv => Scripts!TypeOK /\ Scripts!CurrentIsNewest
  BY DEF TargetsInv
<1> QED BY <1>1, TargetsStart, TargetsStep, PTL DEF Scripts!Spec

\* No revision is changed or dropped and a version that was submitted keeps its
\* targets, whatever was let in before (requireDraftVersionForUpdate).
THEOREM KeepsHistoryHolds ==
  ASSUME Scripts!TargetsAssumption
  PROVE  Scripts!Spec => [][Scripts!KeepsHistory]_(Scripts!serverVars)
BY TargetsStart, TargetsStep, PTL DEF Scripts!Spec


-----------------------------------------------------------------------------
(* The script targets in memory *)

DeleteTold(t) == \E i \in DOMAIN events : events[i].type = "deleted" /\ events[i].target = t

\* A target that has revisions and none of them is current was deleted once.
DeletedTold ==
  \A t \in Targets : row[t].current = 0 /\ Scripts!LastRevision(t) > 0 => DeleteTold(t)

MemoryInv ==
  /\ TargetsInv
  /\ Scripts!CopyIsTheMap
  /\ DeletedTold
  /\ Scripts!AnswerIsWhole

\* Events are only added.
LEMMA TransactionTells ==
  ASSUME TargetsInv, DeletedTold, NEW r \in Requests, asked[r].stage # "none", Scripts!Transaction(r)
  PROVE  /\ \A t \in Targets : DeleteTold(t) => DeleteTold(t)'
         /\ DeletedTold'
<1>1. /\ row \in [Targets -> Scripts!Rows] /\ revisions \in [Targets -> Seq(Scripts!Revisions)]
      /\ events \in Seq(Scripts!Events)
  BY DEF TargetsInv, Scripts!TypeOK
<1>2. PICK t \in Targets : t = asked[r].target
  BY DEF TargetsInv, Scripts!Transaction, Scripts!ReadOnly, Named
<1>3. PICK entry :
        /\ events' = Append(events, entry)
        /\ entry.target = t
        /\ Scripts!DeleteTarget(r) => entry.type = "deleted"
  <2>1. CASE Scripts!CreateTarget(r) /\ ~Scripts!DeleteTarget(r)
    BY <1>2, <2>1 DEF Scripts!CreateTarget, Scripts!Record, Scripts!RestoredEvent
  <2>2. CASE Scripts!SaveRevision(r) /\ ~Scripts!DeleteTarget(r)
    BY <1>2, <2>2 DEF Scripts!SaveRevision, Scripts!Record
  <2>3. CASE Scripts!CopyRevision(r) /\ ~Scripts!DeleteTarget(r)
    BY <1>2, <2>3 DEF Scripts!CopyRevision, Scripts!Record
  <2>4. CASE Scripts!DeleteTarget(r)
    BY <1>2, <2>4 DEF Scripts!DeleteTarget, Scripts!Record
  <2> QED BY <2>1, <2>2, <2>3, <2>4 DEF Scripts!Transaction
<1>4. /\ Len(events') = Len(events) + 1 /\ events'[Len(events) + 1] = entry
      /\ \A i \in DOMAIN events : i \in DOMAIN events' /\ events'[i] = events[i]
      /\ Len(events) + 1 \in DOMAIN events'
  BY <1>1, <1>3
<1>5. \A u \in Targets : DeleteTold(u) => DeleteTold(u)'
  BY <1>4 DEF DeleteTold
<1>6. Scripts!DeleteTarget(r) => DeleteTold(t)'
  BY <1>3, <1>4 DEF DeleteTold
<1>7. ASSUME NEW u \in Targets, u # t PROVE row'[u] = row[u] /\ revisions'[u] = revisions[u]
  BY <1>1, <1>2, <1>7 DEF Scripts!Transaction, Scripts!CreateTarget, Scripts!SaveRevision,
     Scripts!CopyRevision, Scripts!DeleteTarget, Scripts!Revise
<1>8. ASSUME row'[t].current = 0, Len(revisions'[t]) > 0 PROVE DeleteTold(t)'
  <2>1. CASE Scripts!DeleteTarget(r)
    BY <1>6, <2>1
  <2>2. CASE Scripts!CreateTarget(r)
    <3>1. revisions' = revisions /\ ~Scripts!IsActive(t)
      BY <1>2, <2>2 DEF Scripts!CreateTarget
    <3>2. row[t].current = 0
      BY <1>1, <1>8, <3>1 DEF TargetsInv, Scripts!CurrentIsNewest, Scripts!IsActive, Scripts!LastRevision
    <3> QED BY <1>5, <1>8, <3>1, <3>2 DEF DeletedTold, Scripts!LastRevision
  <2>3. CASE Scripts!SaveRevision(r) \/ Scripts!CopyRevision(r)
    <3>1. row' = [row EXCEPT ![t].current = Scripts!LastRevision(t) + 1]
      BY <1>2, <2>3 DEF Scripts!SaveRevision, Scripts!CopyRevision, Scripts!Revise
    <3>2. Scripts!LastRevision(t) + 1 # 0
      BY <1>1 DEF Scripts!LastRevision
    <3> QED BY <1>1, <1>8, <3>1, <3>2 DEF Scripts!Rows
  <2> QED BY <2>1, <2>2, <2>3 DEF Scripts!Transaction
<1>9. DeletedTold'
  BY <1>5, <1>7, <1>8 DEF DeletedTold, Scripts!LastRevision
<1> QED BY <1>5, <1>9

\* What a call was told of t is whole, given what the events tell.
Whole(c, t) ==
  c.stage = "answered" /\ c.answer[t].status = "active" /\ c.answer[t].last > 0 /\ c.answer[t].current = 0

LEMMA AnsweredGoesOn ==
  ASSUME TargetsInv, Scripts!AnswerIsWhole, \A t \in Targets : DeleteTold(t) => DeleteTold(t)',
         NEW r \in Requests, NEW d \in AskedRecords, asked' = [asked EXCEPT ![r] = d],
         \A t \in Targets : Whole(d, t) => DeleteTold(t)'
  PROVE  Scripts!AnswerIsWhole'
<1>1. asked \in [Requests -> AskedRecords]
  BY DEF TargetsInv, Scripts!TypeOK, AskedRecords
<1>2. ASSUME NEW q \in Requests, NEW t \in Targets, Whole(asked[q], t)' PROVE DeleteTold(t)'
  <2>1. CASE q = r
    BY <1>1, <1>2, <2>1 DEF Whole
  <2>2. CASE q # r
    BY <1>1, <1>2, <2>2 DEF Whole, Scripts!AnswerIsWhole, DeleteTold
  <2> QED BY <2>1, <2>2
<1> QED BY <1>2 DEF Whole, Scripts!AnswerIsWhole, DeleteTold

LEMMA MemoryStep ==
  ASSUME MemoryInv, Scripts!TargetsAssumption, [Scripts!MemoryNext]_(Scripts!memoryVars)
  PROVE  MemoryInv' /\ [Scripts!KeepsFrozen]_(Scripts!memoryVars)
<1>1. /\ lifecycle \in {"draft", "validating"} /\ asked \in [Requests -> AskedRecords]
      /\ asks \in 0 .. MaxCalls /\ row \in [Targets -> Scripts!Rows]
      /\ revisions \in [Targets -> Seq(Scripts!Revisions)]
  BY DEF MemoryInv, TargetsInv, Scripts!TypeOK, AskedRecords
<1>2. CASE UNCHANGED Scripts!memoryVars
  BY <1>2 DEF MemoryInv, TargetsInv, Scripts!memoryVars, Scripts!serverVars, Scripts!TypeOK, Named,
     Scripts!CurrentIsNewest, Scripts!LastRevision, Scripts!CopyIsTheMap, Scripts!IsActive,
     DeletedTold, DeleteTold, Scripts!AnswerIsWhole
<1>3. ASSUME NEW r \in Requests, Scripts!MemoryCommit(r) PROVE MemoryInv' /\ Scripts!KeepsFrozen
  <2>1. PICK c \in AskedRecords : c = asked[r] /\ Named(c) /\ c.stage = "admitted"
    BY <1>1, <1>3 DEF MemoryInv, TargetsInv, Scripts!MemoryCommit
  <2>2. Scripts!Transaction(r) /\ lifecycle = "draft" /\ UNCHANGED <<lifecycle, asks>>
        /\ copy' = Scripts!SyncVersionTargets
    BY <1>3 DEF Scripts!MemoryCommit, Scripts!MemoryCreateTarget, Scripts!MemorySaveRevision,
       Scripts!MemoryCopyRevision, Scripts!MemoryDeleteTarget, Scripts!Transaction, Scripts!DraftForUpdate
  <2>3. row' \in [Targets -> Scripts!Rows] /\ revisions' \in [Targets -> Seq(Scripts!Revisions)]
    BY <2>1, <2>2, TransactionKeeps DEF MemoryInv
  <2>4. (\A t \in Targets : DeleteTold(t) => DeleteTold(t)') /\ DeletedTold'
    BY <2>1, <2>2, TransactionTells DEF MemoryInv
  <2>5. PICK u \in Targets : u = c.target
    BY <2>1, <2>2 DEF Scripts!Transaction, Scripts!ReadOnly, Named
  <2> DEFINE answer == [Scripts!NoAnswer EXCEPT ![u] = Scripts!Told(u)]
             d == [c EXCEPT !.stage = "answered", !.answer = answer]
  <2>6. asked' = [asked EXCEPT ![r] = d]
    BY <1>3, <2>1, <2>5 DEF Scripts!MemoryCommit
  <2>7. /\ answer \in [Targets -> Scripts!Records]
        /\ answer[u] = Scripts!Told(u)
        /\ \A t \in Targets \ {u} : answer[t] = Scripts!NoRecord
    <3>1. Scripts!Told(u) \in Scripts!Records /\ Scripts!NoRecord \in Scripts!Records
      BY <2>3, ToldIsRecord DEF Scripts!Told
    <3> QED BY <3>1 DEF Scripts!NoAnswer
  <2> HIDE DEF answer
  <2>8. d \in AskedRecords /\ Named(d) /\ d.answer = answer
    BY <2>1, <2>7 DEF AskedRecords, Scripts!Stages, Named
  <2> HIDE DEF d
  <2>9. TargetsInv'
    BY <2>1, <2>2, <2>6, <2>8, CommittedKeeps DEF MemoryInv
  <2>10. ASSUME NEW t \in Targets, Whole(d, t) PROVE DeleteTold(t)'
    <3>1. t = u
      BY <2>7, <2>8, <2>10 DEF Whole, Scripts!NoRecord
    <3>2. row'[t].current = 0 /\ Len(revisions'[t]) > 0
      BY <2>7, <2>8, <2>10, <3>1 DEF Whole, Scripts!Told, Scripts!MapTarget, Scripts!NoRecord
    <3> QED BY <2>4, <3>2 DEF DeletedTold, Scripts!LastRevision
  <2>11. Scripts!AnswerIsWhole'
    BY <2>4, <2>6, <2>8, <2>10, AnsweredGoesOn DEF MemoryInv
  <2>12. Scripts!CopyIsTheMap'
    BY <2>2 DEF Scripts!CopyIsTheMap, Scripts!SyncVersionTargets, Scripts!Kept, Scripts!IsActive,
       Scripts!LastRevision
  <2> QED BY <2>2, <2>4, <2>9, <2>11, <2>12 DEF MemoryInv, Scripts!KeepsFrozen
<1>4. ASSUME NEW r \in Requests, Scripts!MemoryRead(r)
      PROVE  MemoryInv' /\ UNCHANGED <<row, revisions, copy>>
  <2>1. PICK c \in AskedRecords : c = asked[r] /\ Named(c) /\ c.stage = "committed"
    BY <1>1, <1>4 DEF MemoryInv, TargetsInv, Scripts!MemoryRead
  <2> DEFINE shown(t) == t \in Scripts!Asks(r) /\ (c.op = "load" => Scripts!IsActive(t))
             answer == [t \in Targets |-> IF shown(t) THEN Scripts!Told(t) ELSE Scripts!NoRecord]
             draft == c.op = "load" /\ lifecycle = "draft"
             d == [c EXCEPT !.stage = "answered", !.draft = draft, !.answer = answer]
  <2>2. asked' = [asked EXCEPT ![r] = d] /\ UNCHANGED <<lifecycle, row, revisions, events, asks, copy>>
    BY <1>4, <2>1 DEF Scripts!MemoryRead, Scripts!tables
  <2>3. \A t \in Targets : Scripts!Told(t) \in Scripts!Records /\ Scripts!NoRecord \in Scripts!Records
    BY <1>1, <2>2, ToldIsRecord DEF Scripts!Told
  <2> HIDE DEF shown
  <2>4. answer \in [Targets -> Scripts!Records] /\ draft \in BOOLEAN
    BY <2>3
  <2>5. ASSUME NEW t \in Targets
        PROVE  answer[t] = Scripts!Told(t) \/ answer[t] = Scripts!NoRecord
    OBVIOUS
  <2> HIDE DEF answer, draft
  <2>6. d \in AskedRecords /\ Named(d) /\ d.answer = answer
    BY <2>1, <2>4 DEF AskedRecords, Scripts!Stages, Named
  <2> HIDE DEF d
  <2>7. TargetsInv'
    BY <1>1, <2>2, <2>6, AskedGoOn DEF MemoryInv
  <2>8. \A t \in Targets : DeleteTold(t) => DeleteTold(t)'
    BY <2>2 DEF DeleteTold
  <2>9. DeletedTold'
    BY <2>2 DEF MemoryInv, DeletedTold, DeleteTold, Scripts!LastRevision
  <2>10. ASSUME NEW t \in Targets, Whole(d, t) PROVE DeleteTold(t)'
    <3>1. row'[t].current = 0 /\ Len(revisions'[t]) > 0
      <4>1. PICK told : told = answer[t] /\ told.status = "active" /\ told.last > 0 /\ told.current = 0
        BY <2>6, <2>10 DEF Whole
      <4>2. told = Scripts!MapTarget(row'[t], Len(revisions'[t]))
        BY <2>5, <4>1 DEF Scripts!Told, Scripts!NoRecord
      <4> QED BY <4>1, <4>2 DEF Scripts!MapTarget, Scripts!NoRecord
    <3> QED BY <2>9, <3>1 DEF DeletedTold, Scripts!LastRevision
  <2>11. Scripts!AnswerIsWhole'
    BY <2>2, <2>6, <2>8, <2>10, AnsweredGoesOn DEF MemoryInv
  <2>12. Scripts!CopyIsTheMap'
    BY <2>2 DEF MemoryInv, Scripts!CopyIsTheMap, Scripts!IsActive, Scripts!LastRevision
  <2> QED BY <2>2, <2>7, <2>9, <2>11, <2>12 DEF MemoryInv
<1>5. ASSUME \/ \E r \in Requests : Scripts!AnyCall(r) \/ Scripts!Check(r) \/ Scripts!Refuse(r)
             \/ \E r \in Requests : Scripts!Hangup(r) /\ UNCHANGED <<Scripts!tables, asks>>
             \/ Scripts!SubmitVersion
             \/ Scripts!ReviseVersion,
             UNCHANGED copy
      PROVE  MemoryInv' /\ UNCHANGED <<row, revisions, copy>>
  <2>1. TargetsInv' /\ UNCHANGED <<row, revisions>>
    BY <1>5, AroundKeeps DEF MemoryInv
  <2>2. UNCHANGED events
    BY <1>5 DEF Scripts!AnyCall, Scripts!Check, Scripts!Refuse, Scripts!tables, Scripts!SubmitVersion,
       Scripts!ReviseVersion
  <2>3. ASSUME NEW q \in Requests PROVE asked'[q] = asked[q] \/ asked'[q].stage # "answered"
    <3>1. ASSUME NEW r \in Requests, Scripts!AnyCall(r)
          PROVE  asked'[q] = asked[q] \/ asked'[q].stage # "answered"
      BY <1>1, <3>1 DEF Scripts!AnyCall, Scripts!Arrive, Scripts!Call, Scripts!NoCall
    <3>2. ASSUME NEW r \in Requests, Scripts!Check(r) \/ Scripts!Refuse(r)
          PROVE  asked'[q] = asked[q] \/ asked'[q].stage # "answered"
      <4>1. PICK stage : asked' = [asked EXCEPT ![r].stage = stage] /\ stage # "answered"
        BY <3>2 DEF Scripts!Check, Scripts!Refuse
      <4> QED BY <1>1, <4>1 DEF AskedRecords
    <3>3. ASSUME NEW r \in Requests, Scripts!Hangup(r)
          PROVE  asked'[q] = asked[q] \/ asked'[q].stage # "answered"
      BY <1>1, <3>3 DEF Scripts!Hangup, Scripts!NoCall
    <3> QED BY <1>5, <3>1, <3>2, <3>3 DEF Scripts!SubmitVersion, Scripts!ReviseVersion
  <2>4. Scripts!AnswerIsWhole'
    BY <2>2, <2>3 DEF MemoryInv, Scripts!AnswerIsWhole
  <2>5. DeletedTold' /\ Scripts!CopyIsTheMap'
    BY <1>5, <2>1, <2>2 DEF MemoryInv, DeletedTold, DeleteTold, Scripts!LastRevision,
       Scripts!CopyIsTheMap, Scripts!IsActive
  <2> QED BY <1>5, <2>1, <2>4, <2>5 DEF MemoryInv
<1>6. UNCHANGED <<row, revisions, copy>> => Scripts!KeepsFrozen
  BY DEF Scripts!KeepsFrozen
<1> QED BY <1>2, <1>3, <1>4, <1>5, <1>6 DEF Scripts!MemoryNext, Scripts!MemoryRefuse, Scripts!MemoryGovern

LEMMA MemoryInvariant ==
  ASSUME Scripts!TargetsAssumption PROVE Scripts!MemorySpec => []MemoryInv
<1>1. ASSUME Scripts!MemoryInit PROVE MemoryInv
  <2>1. TargetsInv
    BY <1>1, TargetsStart DEF Scripts!MemoryInit
  <2>2. \A t \in Targets : Scripts!LastRevision(t) = 0 /\ ~Scripts!IsActive(t) /\ copy[t] = Scripts!NoRecord
    BY <1>1 DEF Scripts!MemoryInit, Scripts!Init, Scripts!LastRevision, Scripts!IsActive, Scripts!NoRow,
       Scripts!NoAnswer
  <2>3. \A r \in Requests : asked[r].stage = "none"
    BY <1>1 DEF Scripts!MemoryInit, Scripts!Init, Scripts!NoCall
  <2> QED BY <2>1, <2>2, <2>3 DEF MemoryInv, Scripts!CopyIsTheMap, DeletedTold, Scripts!AnswerIsWhole
<1> QED BY <1>1, MemoryStep, PTL DEF Scripts!MemorySpec

\* The copy governance reads is the map the catalogue writes, after every operation
\* (syncVersionTargets).
THEOREM CopyIsTheMapHolds ==
  ASSUME Scripts!TargetsAssumption
  PROVE  Scripts!MemorySpec => [](Scripts!TypeOK /\ Scripts!CurrentIsNewest /\ Scripts!CopyIsTheMap)
<1>1. MemoryInv => Scripts!TypeOK /\ Scripts!CurrentIsNewest /\ Scripts!CopyIsTheMap
  BY DEF MemoryInv, TargetsInv
<1> QED BY <1>1, MemoryInvariant, PTL

\* An answer from memory tells of one moment: a target with revisions and none of them
\* current was deleted (the operations of MemoryCatalogRepository).
THEOREM AnswerIsWholeHolds ==
  ASSUME Scripts!TargetsAssumption
  PROVE  Scripts!MemorySpec => []Scripts!AnswerIsWhole
<1>1. MemoryInv => Scripts!AnswerIsWhole
  BY DEF MemoryInv
<1> QED BY <1>1, MemoryInvariant, PTL

\* A version that was submitted keeps its targets in the map and in the copy
\* (requireDraftVersion).
THEOREM KeepsFrozenHolds ==
  ASSUME Scripts!TargetsAssumption
  PROVE  Scripts!MemorySpec => [][Scripts!KeepsFrozen]_(Scripts!memoryVars)
BY MemoryInvariant, MemoryStep, PTL DEF Scripts!MemorySpec

-----------------------------------------------------------------------------
(* The page on which a version is written *)

CONSTANTS Editors, Owner, NoRequest
VARIABLES session, selected, form, gate, busy, submitted, unsaved

Page == INSTANCE PublishForm WITH call <- asked, calls <- asks

\* What the page knows of a target never names a revision newer than the newest.
SessionTells ==
  /\ session \in [Editors -> [Targets -> Page!Records]]
  /\ submitted \in [Editors -> BOOLEAN]
  /\ \A e \in Editors, t \in Targets : session[e][t].current <= session[e][t].last

\* The form is that of the selected target.
FormFollows ==
  /\ selected \in [Editors -> Targets \union {NoTarget}]
  /\ form \in [Editors -> Page!Forms]
  /\ unsaved \in [Editors -> BOOLEAN]
  /\ \A e \in Editors : /\ selected[e] # NoTarget => form[e].on = selected[e]
                        /\ form[e].expected <= form[e].known

GateHolds ==
  /\ gate \in [Editors -> Requests \union {NoRequest}]
  /\ busy \in [Editors -> BOOLEAN]
  /\ Page!BusyIsAnswered

\* What a call carries: a save the form it was sent from, an answer what was true of the target.
Carries(c) ==
  /\ \A t \in Targets : /\ c.seen[t].current <= Scripts!LastRevision(t)
                        /\ c.answer[t].current <= c.answer[t].last
  /\ c.op = "save" => /\ c.content \in Page!Forms
                      /\ c.content.on = c.target /\ c.expected <= c.content.known

SavesTell == Page!SavedWhereWritten /\ Page!SavedOnKnownRevisions

PageInv ==
  /\ TargetsInv /\ SessionTells /\ FormFollows /\ GateHolds
  /\ \A r \in Requests : Carries(asked[r])
  /\ SavesTell

\* The server of the page is that of the script targets.
LEMMA SameServer ==
  ASSUME NEW r
  PROVE  /\ Page!Transaction(r) => Scripts!Transaction(r)
         /\ Page!Hangup(r) => Scripts!Hangup(r)
         /\ Page!Serve(r) => Scripts!Serve(r)
         /\ Page!Records = Scripts!Records /\ Page!NoCall = Scripts!NoCall
<1>1. Page!Records = Scripts!Records /\ Page!NoCall = Scripts!NoCall
  BY DEF Page!Records, Scripts!Records, Page!NoCall, Scripts!NoCall, Page!NoRow, Scripts!NoRow,
         Page!NoAnswer, Scripts!NoAnswer, Page!NoRecord, Scripts!NoRecord
<1>2. Page!Hangup(r) => Scripts!Hangup(r)
  BY <1>1 DEF Page!Hangup, Scripts!Hangup
<1>3. Page!Transaction(r) => Scripts!Transaction(r)
  <2>1. \A t : Page!IsActive(t) <=> Scripts!IsActive(t)
    BY Zenon DEF Page!IsActive, Scripts!IsActive
  <2>2. \A t : Page!LastRevision(t) = Scripts!LastRevision(t)
    BY Zenon DEF Page!LastRevision, Scripts!LastRevision
  <2>3. \A t, n : Page!MayRevise(t, n) <=> Scripts!MayRevise(t, n)
    BY <2>1, <2>2, Zenon DEF Page!MayRevise, Scripts!MayRevise
  <2>4. \A type, t, n : Page!Record(type, t, n) <=> Scripts!Record(type, t, n)
    BY Zenon DEF Page!Record, Scripts!Record
  <2>5. \A t, rev : Page!Revise(t, rev) <=> Scripts!Revise(t, rev)
    BY Zenon DEF Page!Revise, Scripts!Revise, Page!LastRevision, Scripts!LastRevision
  <2>6. Page!CreateTarget(r) <=> Scripts!CreateTarget(r)
    BY Zenon DEF Page!CreateTarget, Scripts!CreateTarget, Page!IsActive, Scripts!IsActive, Page!RestoredRow,
       Scripts!RestoredRow, Page!Record, Scripts!Record, Page!RestoredEvent, Scripts!RestoredEvent
  <2>7. Page!SaveRevision(r) <=> Scripts!SaveRevision(r)
    BY Zenon DEF Page!SaveRevision, Scripts!SaveRevision, Page!Revise, Scripts!Revise, Page!Record, Scripts!Record,
       Page!MayRevise, Scripts!MayRevise, Page!IsActive, Scripts!IsActive, Page!LastRevision, Scripts!LastRevision
  <2>8. Page!CopyRevision(r) <=> Scripts!CopyRevision(r)
    BY Zenon DEF Page!CopyRevision, Scripts!CopyRevision, Page!Revise, Scripts!Revise, Page!Record, Scripts!Record,
       Page!MayRevise, Scripts!MayRevise, Page!IsActive, Scripts!IsActive, Page!LastRevision, Scripts!LastRevision
  <2>9. Page!DeleteTarget(r) <=> Scripts!DeleteTarget(r)
    BY Zenon DEF Page!DeleteTarget, Scripts!DeleteTarget, Page!DeletedRow, Scripts!DeletedRow, Page!Record, Scripts!Record,
       Page!MayRevise, Scripts!MayRevise, Page!IsActive, Scripts!IsActive, Page!LastRevision, Scripts!LastRevision
  <2> QED BY <2>6, <2>7, <2>8, <2>9, Zenon DEF Page!Transaction, Scripts!Transaction
<1>4. ASSUME Page!Serve(r) PROVE Scripts!Serve(r)
  <2>1. Page!MapTarget(Page!NoRow, 0) = Scripts!MapTarget(Scripts!NoRow, 0)
        /\ \A seen, n : Page!MapTarget(seen, n) = Scripts!MapTarget(seen, n)
    BY DEF Page!MapTarget, Scripts!MapTarget, Page!NoRecord, Scripts!NoRecord, Page!NoRow, Scripts!NoRow
  <2>2. Page!Commit(r) => Scripts!Commit(r)
    BY <1>3, Zenon DEF Page!Commit, Scripts!Commit, Page!DraftForUpdate, Scripts!DraftForUpdate
  <2>3. Page!Check(r) => Scripts!Check(r)
    BY Zenon DEF Page!Check, Scripts!Check, Page!ReadOnly, Scripts!ReadOnly, Page!tables, Scripts!tables
  <2>4. Page!Refuse(r) => Scripts!Refuse(r)
    BY Zenon DEF Page!Refuse, Scripts!Refuse, Page!Conflicts, Scripts!Conflicts, Page!DraftForUpdate,
       Scripts!DraftForUpdate, Page!IsActive, Scripts!IsActive, Page!MayRevise, Scripts!MayRevise,
       Page!LastRevision, Scripts!LastRevision, Page!tables, Scripts!tables
  <2>5. Page!ReadRows(r) => Scripts!ReadRows(r)
    BY Zenon DEF Page!ReadRows, Scripts!ReadRows, Page!Asks, Scripts!Asks, Page!NoRow, Scripts!NoRow,
       Page!tables, Scripts!tables
  <2>6. Page!ReadRevisions(r) => Scripts!ReadRevisions(r)
    BY <1>1, Zenon DEF Page!ReadRevisions, Scripts!ReadRevisions, Page!MapTarget, Scripts!MapTarget,
       Page!NoRecord, Scripts!NoRecord, Page!LastRevision, Scripts!LastRevision, Page!tables, Scripts!tables
  <2> QED BY <1>4, <2>2, <2>3, <2>4, <2>5, <2>6, Zenon DEF Page!Serve, Scripts!Serve
<1> QED BY <1>1, <1>2, <1>3, <1>4

\* What a transaction adds to the revisions.
LEMMA TransactionWrites ==
  ASSUME TargetsInv, Scripts!TargetsAssumption, NEW r \in Requests, Scripts!Transaction(r)
  PROVE  \A t \in Targets :
           \/ revisions'[t] = revisions[t]
           \/ \E rev : /\ revisions'[t] = Append(revisions[t], rev)
                       /\ rev.copiedFrom = NoTarget =>
                            /\ asked[r].op = "save" /\ asked[r].target = t
                            /\ rev.content = asked[r].content
                            /\ asked[r].expected = Scripts!LastRevision(t)
<1>1. revisions \in [Targets -> Seq(Scripts!Revisions)] /\ NoTarget \notin Targets /\ Named(asked[r])
  BY DEF TargetsInv, Scripts!TypeOK, Scripts!TargetsAssumption
<1>2. ASSUME NEW u, NEW rev, Scripts!Revise(u, rev), NEW t \in Targets
      PROVE  revisions'[t] = IF u = t THEN Append(revisions[t], rev) ELSE revisions[t]
  BY <1>1, <1>2 DEF Scripts!Revise
<1>3. CASE asked[r].op = "save" /\ Scripts!SaveRevision(r)
  <2> DEFINE t == asked[r].target
             rev == [content |-> asked[r].content, copiedFrom |-> NoTarget, over |-> row[t].current]
  <2>1. Scripts!Revise(t, rev) /\ asked[r].expected = Scripts!LastRevision(t)
    BY <1>3 DEF Scripts!SaveRevision, Scripts!MayRevise
  <2>2. rev.content = asked[r].content
    OBVIOUS
  <2> HIDE DEF rev
  <2> QED BY <1>2, <1>3, <2>1, <2>2
<1>4. CASE asked[r].op = "copy" /\ Scripts!CopyRevision(r)
  <2>1. PICK rev : Scripts!Revise(asked[r].target, rev) /\ rev.copiedFrom = asked[r].from
    BY <1>4 DEF Scripts!CopyRevision
  <2>2. rev.copiedFrom # NoTarget
    BY <1>1, <1>4, <2>1 DEF Named
  <2> QED BY <1>2, <2>1, <2>2
<1>5. CASE Scripts!CreateTarget(r) \/ Scripts!DeleteTarget(r)
  BY <1>5 DEF Scripts!CreateTarget, Scripts!DeleteTarget
<1> QED BY <1>3, <1>4, <1>5 DEF Scripts!Transaction

\* Whatever is saved was written on its target's form, over the newest revision its author knew.
LEMMA TransactionSaves ==
  ASSUME PageInv, Scripts!TargetsAssumption, NEW r \in Requests, Scripts!Transaction(r)
  PROVE  SavesTell' /\ \A t \in Targets : Scripts!LastRevision(t) <= Scripts!LastRevision(t)'
<1>1. /\ revisions \in [Targets -> Seq(Scripts!Revisions)]
      /\ asked \in [Requests -> AskedRecords] /\ TargetsInv /\ Carries(asked[r])
  BY DEF PageInv, TargetsInv, Scripts!TypeOK, AskedRecords
<1>2. \A t \in Targets : \A i \in 1 .. Len(revisions[t]) :
        revisions[t][i].copiedFrom = NoTarget =>
          revisions[t][i].content.on = t /\ revisions[t][i].content.known >= i - 1
  BY DEF PageInv, SavesTell, Page!SavedWhereWritten, Page!SavedOnKnownRevisions, Page!Written, Page!LastRevision
<1>3. ASSUME NEW t \in Targets
      PROVE  /\ Len(revisions[t]) <= Len(revisions'[t])
             /\ \A i \in 1 .. Len(revisions'[t]) :
                  revisions'[t][i].copiedFrom = NoTarget =>
                    revisions'[t][i].content.on = t /\ revisions'[t][i].content.known >= i - 1
  <2>1. CASE revisions'[t] = revisions[t]
    BY <1>1, <1>2, <2>1
  <2>2. ASSUME NEW rev, revisions'[t] = Append(revisions[t], rev),
               rev.copiedFrom = NoTarget =>
                 /\ asked[r].op = "save" /\ asked[r].target = t
                 /\ rev.content = asked[r].content
                 /\ asked[r].expected = Scripts!LastRevision(t)
        PROVE  /\ Len(revisions[t]) <= Len(revisions'[t])
               /\ \A i \in 1 .. Len(revisions'[t]) :
                    revisions'[t][i].copiedFrom = NoTarget =>
                      revisions'[t][i].content.on = t /\ revisions'[t][i].content.known >= i - 1
    <3>1. PICK n \in Nat : n = Len(revisions[t])
      BY <1>1
    <3>2. /\ Len(revisions'[t]) = n + 1 /\ revisions'[t][n + 1] = rev
          /\ \A i \in 1 .. n : revisions'[t][i] = revisions[t][i]
      BY <1>1, <2>2, <3>1
    <3>3. rev.copiedFrom = NoTarget => rev.content.on = t /\ rev.content.known >= n
      BY <1>1, <2>2, <3>1 DEF Carries, Scripts!LastRevision
    <3>4. ASSUME NEW i \in 1 .. n + 1, revisions'[t][i].copiedFrom = NoTarget
          PROVE  revisions'[t][i].content.on = t /\ revisions'[t][i].content.known >= i - 1
      <4>1. CASE i \in 1 .. n
        BY <1>2, <3>1, <3>2, <3>4, <4>1
      <4>2. CASE i = n + 1
        <5>1. i - 1 = n
          BY <3>1, <4>2
        <5> QED BY <3>2, <3>3, <3>4, <4>2, <5>1, Zenon
      <4> QED BY <3>1, <4>1, <4>2
    <3> QED BY <3>1, <3>2, <3>4
  <2>3. \/ revisions'[t] = revisions[t]
        \/ \E rev : /\ revisions'[t] = Append(revisions[t], rev)
                    /\ rev.copiedFrom = NoTarget =>
                         /\ asked[r].op = "save" /\ asked[r].target = t
                         /\ rev.content = asked[r].content
                         /\ asked[r].expected = Scripts!LastRevision(t)
    BY <1>1, TransactionWrites, Zenon
  <2> QED BY <2>1, <2>2, <2>3, Zenon
<1> QED BY <1>3 DEF SavesTell, Page!SavedWhereWritten, Page!SavedOnKnownRevisions, Page!Written,
           Page!LastRevision, Scripts!LastRevision

\* One call goes on to d, and no revision is lost.
LEMMA AllCarry ==
  ASSUME PageInv, NEW r \in Requests, NEW d \in AskedRecords, asked' = [asked EXCEPT ![r] = d],
         \A t \in Targets : Scripts!LastRevision(t) <= Scripts!LastRevision(t)',
         \A t \in Targets : Scripts!LastRevision(t)' \in Nat,
         Carries(d)'
  PROVE  (\A q \in Requests : Carries(asked[q]))'
<1>1. /\ asked \in [Requests -> AskedRecords]
      /\ \A t \in Targets : Scripts!LastRevision(t) \in Nat
  BY DEF PageInv, TargetsInv, Scripts!TypeOK, AskedRecords, Scripts!LastRevision
<1>2. ASSUME NEW q \in Requests PROVE Carries(asked[q])'
  <2>1. CASE q = r
    BY <1>1, <2>1
  <2>2. CASE q # r
    <3>1. PICK c \in AskedRecords : c = asked[q] /\ c = asked'[q] /\ Carries(c)
      BY <1>1, <2>2 DEF PageInv
    <3>2. \A t \in Targets : c.seen[t].current \in Nat
      BY <3>1 DEF AskedRecords, Scripts!Rows
    <3>3. \A t \in Targets : c.seen[t].current <= Scripts!LastRevision(t)'
      BY <1>1, <3>1, <3>2 DEF Carries
    <3> QED BY <3>1, <3>3 DEF Carries
  <2> QED BY <2>1, <2>2
<1> QED BY <1>2

\* The server goes on with a call.
LEMMA ServeKeeps ==
  ASSUME PageInv, Scripts!TargetsAssumption, NEW r \in Requests, Scripts!Serve(r)
  PROVE  /\ TargetsInv' /\ SavesTell' /\ (\A q \in Requests : Carries(asked[q]))'
         /\ \A q \in Requests : asked[q].stage # "none" => asked'[q].stage # "none"
<1>1. /\ asked \in [Requests -> AskedRecords] /\ row \in [Targets -> Scripts!Rows]
      /\ TargetsInv /\ SavesTell /\ Carries(asked[r])
      /\ \A t \in Targets : /\ Scripts!LastRevision(t) \in Nat /\ row[t].current \in Nat
                            /\ row[t].current <= Scripts!LastRevision(t)
  BY DEF PageInv, TargetsInv, Scripts!TypeOK, AskedRecords, Scripts!LastRevision, Scripts!CurrentIsNewest,
         Scripts!Rows
<1>2. TargetsInv'
  BY <1>1, TargetsStep DEF Scripts!Next
<1>3. \A t \in Targets : Scripts!LastRevision(t)' \in Nat
  BY <1>2 DEF TargetsInv, Scripts!TypeOK, Scripts!LastRevision
<1>4. ASSUME UNCHANGED revisions
      PROVE  SavesTell' /\ \A t \in Targets : Scripts!LastRevision(t)' = Scripts!LastRevision(t)
  BY <1>1, <1>4 DEF SavesTell, Page!SavedWhereWritten, Page!SavedOnKnownRevisions, Page!Written,
     Page!LastRevision, Scripts!LastRevision
<1>5. PICK c \in AskedRecords : c = asked[r] /\ Carries(c)
  BY <1>1
<1>6. ASSUME NEW stage \in Scripts!Stages, stage # "none", asked' = [asked EXCEPT ![r].stage = stage],
             \A t \in Targets : Scripts!LastRevision(t) <= Scripts!LastRevision(t)'
      PROVE  /\ (\A q \in Requests : Carries(asked[q]))'
             /\ \A q \in Requests : asked[q].stage # "none" => asked'[q].stage # "none"
  <2> DEFINE d == [c EXCEPT !.stage = stage]
  <2>1. asked' = [asked EXCEPT ![r] = d]
    BY <1>5, <1>6
  <2>2. d \in AskedRecords /\ d.stage = stage /\ d.seen = c.seen /\ d.answer = c.answer /\ d.op = c.op
        /\ d.content = c.content /\ d.target = c.target /\ d.expected = c.expected
    BY DEF AskedRecords
  <2> HIDE DEF d
  <2>3. \A t \in Targets : c.seen[t].current \in Nat
    BY DEF AskedRecords, Scripts!Rows
  <2>4. Carries(d)'
    BY <1>1, <1>3, <1>5, <1>6, <2>2, <2>3 DEF Carries
  <2>5. (\A q \in Requests : Carries(asked[q]))'
    BY <1>3, <1>6, <2>1, <2>2, <2>4, AllCarry
  <2> QED BY <1>1, <1>6, <2>1, <2>2, <2>5
<1>7. CASE Scripts!Check(r) \/ Scripts!Refuse(r)
  <2>1. /\ UNCHANGED revisions
        /\ \E stage \in Scripts!Stages : stage # "none" /\ asked' = [asked EXCEPT ![r].stage = stage]
    BY <1>7 DEF Scripts!Check, Scripts!Refuse, Scripts!Stages, Scripts!tables
  <2>2. \A t \in Targets : Scripts!LastRevision(t) <= Scripts!LastRevision(t)'
    BY <1>1, <1>4, <2>1
  <2> QED BY <1>2, <1>4, <1>6, <2>1, <2>2
<1>8. CASE Scripts!Commit(r)
  <2>1. Scripts!Transaction(r) /\ asked' = [asked EXCEPT ![r].stage = "committed"]
        /\ "committed" \in Scripts!Stages
    BY <1>8 DEF Scripts!Commit, Scripts!Stages
  <2> QED BY <1>2, <1>6, <2>1, TransactionSaves
<1>9. CASE Scripts!ReadRows(r)
  <2> DEFINE seen == [t \in Targets |-> IF t \in Scripts!Asks(r) THEN row[t] ELSE Scripts!NoRow]
             draft == c.op = "load" /\ lifecycle = "draft"
             next == [c EXCEPT !.stage = "row read", !.draft = draft, !.seen = seen]
  <2>1. seen \in [Targets -> Scripts!Rows] /\ draft \in BOOLEAN
        /\ \A t \in Targets : seen[t].current <= Scripts!LastRevision(t)
    BY <1>1 DEF Scripts!NoRow, Scripts!Rows
  <2>2. asked' = [asked EXCEPT ![r] = next] /\ UNCHANGED revisions
    BY <1>5, <1>9 DEF Scripts!ReadRows, Scripts!tables
  <2> HIDE DEF seen, draft
  <2>3. PICK d \in AskedRecords :
             /\ d = next /\ d.stage = "row read" /\ d.seen = seen /\ d.answer = c.answer
             /\ d.op = c.op /\ d.content = c.content /\ d.target = c.target /\ d.expected = c.expected
    <3>1. next \in AskedRecords
      BY <2>1 DEF AskedRecords, Scripts!Stages
    <3>2. /\ next.stage = "row read" /\ next.seen = seen /\ next.answer = c.answer
          /\ next.op = c.op /\ next.content = c.content /\ next.target = c.target /\ next.expected = c.expected
      BY DEF AskedRecords
    <3> HIDE DEF next
    <3> QED BY <3>1, <3>2
  <2> HIDE DEF next
  <2>4. \A t \in Targets : Scripts!LastRevision(t) <= Scripts!LastRevision(t)'
    BY <1>1, <1>4, <2>2
  <2>5. Carries(d)'
    BY <1>1, <1>4, <1>5, <2>1, <2>2, <2>3 DEF Carries
  <2>6. (\A q \in Requests : Carries(asked[q]))'
    BY <1>3, <2>2, <2>3, <2>4, <2>5, AllCarry
  <2> QED BY <1>1, <1>2, <1>4, <2>2, <2>3, <2>6
<1>10. CASE Scripts!ReadRevisions(r)
  <2> DEFINE answer == [t \in Targets |->
                          IF c.op = "load" /\ c.seen[t].deleted THEN Scripts!NoRecord
                          ELSE Scripts!MapTarget(c.seen[t], Scripts!LastRevision(t))]
             next == [c EXCEPT !.stage = "answered", !.seen = Scripts!NoCall.seen, !.answer = answer]
  <2>1. ASSUME NEW t \in Targets
        PROVE  answer[t] \in Scripts!Records /\ answer[t].current <= answer[t].last
    <3>1. c.seen[t] \in Scripts!Rows /\ Scripts!LastRevision(t) \in Nat
          /\ c.seen[t].current <= Scripts!LastRevision(t)
      BY <1>1, <1>5 DEF AskedRecords, Carries
    <3>2. /\ Scripts!MapTarget(c.seen[t], Scripts!LastRevision(t)) \in Scripts!Records
          /\ Scripts!NoRecord \in Scripts!Records
      BY <3>1, ToldIsRecord
    <3>3. Scripts!MapTarget(c.seen[t], Scripts!LastRevision(t)).current
            <= Scripts!MapTarget(c.seen[t], Scripts!LastRevision(t)).last
      BY <3>1 DEF Scripts!MapTarget, Scripts!NoRecord, Scripts!Rows
    <3>4. Scripts!NoRecord.current <= Scripts!NoRecord.last
      BY DEF Scripts!NoRecord
    <3> QED BY <3>2, <3>3, <3>4
  <2>2. asked' = [asked EXCEPT ![r] = next] /\ UNCHANGED revisions
    BY <1>5, <1>10 DEF Scripts!ReadRevisions, Scripts!tables
  <2>3. answer \in [Targets -> Scripts!Records]
    BY <2>1
  <2>4. /\ Scripts!NoCall.seen \in [Targets -> Scripts!Rows]
        /\ \A t \in Targets : Scripts!NoCall.seen[t].current = 0
    BY NoCallIsRecord DEF AskedRecords, Scripts!NoCall, Scripts!NoRow
  <2> HIDE DEF answer
  <2>5. PICK d \in AskedRecords :
             /\ d = next /\ d.stage = "answered" /\ d.seen = Scripts!NoCall.seen /\ d.answer = answer
             /\ d.op = c.op /\ d.content = c.content /\ d.target = c.target /\ d.expected = c.expected
    <3>1. next \in AskedRecords
      BY <2>3, <2>4 DEF AskedRecords, Scripts!Stages
    <3>2. /\ next.stage = "answered" /\ next.seen = Scripts!NoCall.seen /\ next.answer = answer
          /\ next.op = c.op /\ next.content = c.content /\ next.target = c.target /\ next.expected = c.expected
      BY DEF AskedRecords
    <3> HIDE DEF next
    <3> QED BY <3>1, <3>2
  <2> HIDE DEF next
  <2>6. \A t \in Targets : Scripts!LastRevision(t) <= Scripts!LastRevision(t)'
    BY <1>1, <1>4, <2>2
  <2>7. Carries(d)'
    BY <1>1, <1>4, <1>5, <2>1, <2>2, <2>4, <2>5 DEF Carries
  <2>8. (\A q \in Requests : Carries(asked[q]))'
    BY <1>3, <2>2, <2>5, <2>6, <2>7, AllCarry
  <2> QED BY <1>1, <1>2, <1>4, <2>2, <2>5, <2>8
<1> QED BY <1>7, <1>8, <1>9, <1>10 DEF Scripts!Serve

\* A call comes in from the page.
LEMMA AskKeeps ==
  ASSUME PageInv, Scripts!TargetsAssumption, NEW r \in Requests, NEW op \in Scripts!Ops,
         NEW t \in Targets \union {NoTarget}, NEW s \in Targets \union {NoTarget}, NEW n \in Nat,
         NEW x \in Contents \union {NoContent}, Page!Arrive(r, op, t, s, n, x), UNCHANGED Page!tables,
         op \in Scripts!ReadOnly \/ t \in Targets, op = "copy" => s \in Targets,
         op = "save" => x \in Contents /\ x \in Page!Forms /\ x.on = t /\ n <= x.known
  PROVE  /\ TargetsInv' /\ SavesTell' /\ (\A q \in Requests : Carries(asked[q]))'
         /\ asked'[r].stage # "none" /\ \A q \in Requests \ {r} : asked'[q] = asked[q]
<1>1. /\ asked \in [Requests -> AskedRecords] /\ asks \in 0 .. MaxCalls /\ MaxCalls \in Nat
      /\ lifecycle \in {"draft", "validating"}
      /\ \A u \in Targets : Scripts!LastRevision(u) \in Nat
      /\ UNCHANGED <<lifecycle, row, revisions, events>> /\ SavesTell /\ TargetsInv
  BY DEF PageInv, TargetsInv, Scripts!TypeOK, AskedRecords, Scripts!TargetsAssumption, Scripts!LastRevision,
         Page!tables
<1>2. PICK none \in AskedRecords : none = Scripts!NoCall
  BY NoCallIsRecord
<1>3. /\ \A u \in Targets : none.seen[u].current = 0 /\ none.answer[u].current = 0 /\ none.answer[u].last = 0
  BY <1>2 DEF Scripts!NoCall, Scripts!NoRow, Scripts!NoAnswer, Scripts!NoRecord
<1> DEFINE d == [none EXCEPT !.stage = "arrived", !.op = op, !.target = t, !.from = s,
                             !.expected = n, !.content = x]
<1>4. d \in AskedRecords /\ d.stage = "arrived" /\ d.op = op /\ d.target = t /\ d.from = s
      /\ d.expected = n /\ d.content = x /\ d.seen = none.seen /\ d.answer = none.answer
  BY DEF AskedRecords, Scripts!Stages
<1>5. asked' = [asked EXCEPT ![r] = d] /\ asks < MaxCalls /\ asks' = asks + 1
  BY <1>2, SameServer DEF Page!Arrive, Page!Call
<1> HIDE DEF d
<1>6. TargetsInv'
  <2>1. Named(d)
    BY <1>4 DEF Named
  <2>2. asks' \in 0 .. MaxCalls
    BY <1>1, <1>5
  <2>3. d \in AskedRecords
    BY <1>4
  <2> QED BY <1>1, <1>5, <2>1, <2>2, <2>3, AskedGoOn
<1>7. SavesTell' /\ \A u \in Targets : Scripts!LastRevision(u)' = Scripts!LastRevision(u)
  BY <1>1 DEF SavesTell, Page!SavedWhereWritten, Page!SavedOnKnownRevisions, Page!Written,
     Page!LastRevision, Scripts!LastRevision
<1>8. Carries(d)'
  BY <1>1, <1>3, <1>4, <1>7 DEF Carries
<1>9. /\ \A u \in Targets : Scripts!LastRevision(u) <= Scripts!LastRevision(u)'
      /\ \A u \in Targets : Scripts!LastRevision(u)' \in Nat
  BY <1>1, <1>7
<1>10. (\A q \in Requests : Carries(asked[q]))'
  BY <1>4, <1>5, <1>8, <1>9, AllCarry
<1> QED BY <1>1, <1>4, <1>5, <1>6, <1>7, <1>10

\* The call hangs up.
LEMMA HangupKeeps ==
  ASSUME PageInv, Scripts!TargetsAssumption, NEW r \in Requests, Scripts!Hangup(r),
         UNCHANGED <<lifecycle, row, revisions, events, asks>>
  PROVE  /\ TargetsInv' /\ SavesTell' /\ (\A q \in Requests : Carries(asked[q]))'
         /\ \A q \in Requests \ {r} : asked'[q] = asked[q]
<1>1. /\ asked \in [Requests -> AskedRecords] /\ SavesTell /\ TargetsInv
      /\ \A u \in Targets : Scripts!LastRevision(u) \in Nat
  BY DEF PageInv, TargetsInv, Scripts!TypeOK, AskedRecords, Scripts!LastRevision
<1>2. TargetsInv'
  BY <1>1, TargetsStep DEF Scripts!Next, Scripts!tables
<1>3. PICK d \in AskedRecords : d = Scripts!NoCall
  BY NoCallIsRecord
<1>4. /\ \A u \in Targets : d.seen[u].current = 0 /\ d.answer[u].current = 0 /\ d.answer[u].last = 0
      /\ d.op = "load"
  BY <1>3 DEF Scripts!NoCall, Scripts!NoRow, Scripts!NoAnswer, Scripts!NoRecord
<1>5. asked' = [asked EXCEPT ![r] = d]
  BY <1>3 DEF Scripts!Hangup
<1>6. SavesTell' /\ \A u \in Targets : Scripts!LastRevision(u)' = Scripts!LastRevision(u)
  BY <1>1 DEF SavesTell, Page!SavedWhereWritten, Page!SavedOnKnownRevisions, Page!Written,
     Page!LastRevision, Scripts!LastRevision
<1>7. Carries(d)'
  BY <1>1, <1>4, <1>6 DEF Carries
<1>8. /\ \A u \in Targets : Scripts!LastRevision(u) <= Scripts!LastRevision(u)'
      /\ \A u \in Targets : Scripts!LastRevision(u)' \in Nat
  BY <1>1, <1>6
<1>9. (\A q \in Requests : Carries(asked[q]))'
  BY <1>5, <1>7, <1>8, AllCarry
<1> QED BY <1>1, <1>2, <1>5, <1>6, <1>9

\* The form is filled from what is true of a target, or cleared.
LEMMA FillKeeps ==
  ASSUME FormFollows, NEW e \in Editors, NEW t \in Targets, NEW record \in Page!Records,
         record.current <= record.last, Page!Fill(e, t, record)
  PROVE  FormFollows'
<1> DEFINE new == Page!TargetDraftFromRecord(t, record)
<1>1. new \in Page!Forms /\ new.on = t /\ new.expected <= new.known
  BY DEF Page!TargetDraftFromRecord, Page!CurrentScriptVersion, Page!Forms, Page!Records
<1>2. /\ selected' = [selected EXCEPT ![e] = t] /\ form' = [form EXCEPT ![e] = new]
      /\ unsaved' = [unsaved EXCEPT ![e] = FALSE]
  BY DEF Page!Fill
<1> HIDE DEF new
<1> QED BY <1>1, <1>2 DEF FormFollows

LEMMA ClearKeeps ==
  ASSUME FormFollows, NoTarget \notin Targets, NEW e \in Editors, Page!ClearForm(e)
  PROVE  FormFollows'
<1>1. Page!EmptyForm \in Page!Forms /\ Page!EmptyForm.expected <= Page!EmptyForm.known
  BY DEF Page!EmptyForm, Page!Forms
<1> QED BY <1>1 DEF FormFollows, Page!ClearForm

\* A request takes the gate of its own page.
LEMMA BeginKeeps ==
  ASSUME GateHolds, Page!FormAssumption, NEW r \in Requests, Page!Begin(Owner[r], r),
         asked'[r].stage # "none", \A q \in Requests \ {r} : asked'[q] = asked[q]
  PROVE  GateHolds'
BY DEF GateHolds, Page!FormAssumption, Page!Begin, Page!BusyIsAnswered

\* What the editor asks for.
LEMMA ClickKeeps ==
  ASSUME PageInv, Page!FormAssumption, Page!Forms \subseteq Contents,
         NEW r \in Requests, Page!Click(Owner[r], r)
  PROVE  PageInv'
<1>1. /\ Owner[r] \in Editors /\ Scripts!TargetsAssumption /\ NoTarget \notin Targets
      /\ SessionTells /\ FormFollows /\ GateHolds
      /\ {"create", "save", "copy", "delete", "load", "history"} = Scripts!Ops
      /\ {"load", "history"} = Scripts!ReadOnly
  BY DEF Page!FormAssumption, Page!TargetsAssumption, Scripts!TargetsAssumption, PageInv, Scripts!Ops,
         Scripts!ReadOnly
<1>2. PICK e \in Editors : e = Owner[r]
  BY <1>1
<1>3. /\ session \in [Editors -> [Targets -> Page!Records]] /\ form \in [Editors -> Page!Forms]
      /\ selected \in [Editors -> Targets \union {NoTarget}]
      /\ \A t \in Targets : session[e][t] \in Page!Records /\ session[e][t].current <= session[e][t].last
  BY <1>1, <1>2 DEF SessionTells, FormFollows
<1>4. \A t \in Targets : Page!CurrentScriptVersion(session[e][t]) \in Nat
  BY <1>3 DEF Page!CurrentScriptVersion, Page!Records
<1>5. ASSUME NEW op \in Scripts!Ops, NEW t \in Targets \union {NoTarget}, NEW s \in Targets \union {NoTarget},
             NEW n \in Nat, NEW x \in Contents \union {NoContent},
             Page!Begin(e, r), Page!Arrive(r, op, t, s, n, x), UNCHANGED Page!tables,
             UNCHANGED <<session, submitted>>, FormFollows',
             op \in Scripts!ReadOnly \/ t \in Targets, op = "copy" => s \in Targets,
             op = "save" => x \in Contents /\ x \in Page!Forms /\ x.on = t /\ n <= x.known
      PROVE  PageInv'
  <2>1. /\ TargetsInv' /\ SavesTell' /\ (\A q \in Requests : Carries(asked[q]))'
        /\ asked'[r].stage # "none" /\ \A q \in Requests \ {r} : asked'[q] = asked[q]
    BY <1>1, <1>5, AskKeeps
  <2>2. GateHolds'
    BY <1>1, <1>2, <1>5, <2>1, BeginKeeps
  <2>3. SessionTells'
    BY <1>1, <1>5 DEF SessionTells
  <2> QED BY <1>5, <2>1, <2>2, <2>3 DEF PageInv
<1>6. ASSUME UNCHANGED <<selected, form>>, unsaved' \in [Editors -> BOOLEAN] PROVE FormFollows'
  BY <1>1, <1>6 DEF FormFollows
<1>7. ASSUME NEW t \in Targets, Page!Add(e, r, t) PROVE PageInv'
  <2>1. FormFollows'
    BY <1>1, <1>6, <1>7 DEF Page!Add, FormFollows
  <2> QED BY <1>1, <1>5, <1>7, <2>1 DEF Page!Add
<1>8. ASSUME NEW t \in Targets, Page!Copy(e, r, t) PROVE PageInv'
  <2>1. FormFollows'
    BY <1>1, <1>6, <1>8 DEF Page!Copy, FormFollows
  <2>2. selected[e] \in Targets
    BY <1>3, <1>8 DEF Page!Copy, Page!SelectedTarget
  <2>3. Page!CopyExpects(e) \in Nat
    BY <1>4, <2>2 DEF Page!CopyExpects
  <2> QED BY <1>1, <1>5, <1>8, <2>1, <2>2, <2>3 DEF Page!Copy
<1>9. ASSUME NEW t \in Targets, Page!Remove(e, r, t) PROVE PageInv'
  <2>1. FormFollows'
    BY <1>1, <1>6, <1>9 DEF Page!Remove, FormFollows
  <2> QED BY <1>1, <1>4, <1>5, <1>9, <2>1 DEF Page!Remove
<1>10. ASSUME NEW t \in Targets, Page!ShowHistory(e, r, t) PROVE PageInv'
  <2>1. FormFollows'
    BY <1>1, <1>3, <1>10, FillKeeps DEF Page!ShowHistory
  <2> QED BY <1>1, <1>5, <1>10, <2>1 DEF Page!ShowHistory
<1>11. CASE Page!Save(e, r)
  <2>1. FormFollows'
    BY <1>1, <1>6, <1>11 DEF Page!Save, FormFollows
  <2>2. selected[e] \in Targets
    BY <1>3, <1>11 DEF Page!Save, Page!SelectedTarget
  <2>3. /\ form[e] \in Page!Forms /\ form[e] \in Contents /\ form[e].on = selected[e]
        /\ form[e].expected <= form[e].known /\ form[e].expected \in Nat
    BY <1>1, <1>3, <2>2 DEF FormFollows, Page!Forms
  <2> QED BY <1>1, <1>5, <1>11, <2>1, <2>2, <2>3 DEF Page!Save, Page!SaveRevisionPayload
<1>12. CASE Page!Reload(e, r)
  <2>1. FormFollows'
    BY <1>1, <1>6, <1>12 DEF Page!Reload, FormFollows
  <2> QED BY <1>1, <1>5, <1>12, <2>1 DEF Page!Reload
<1> QED BY <1>2, <1>7, <1>8, <1>9, <1>10, <1>11, <1>12 DEF Page!Click

\* What the page does with an answer.
LEMMA AnswerKeeps ==
  ASSUME PageInv, Page!FormAssumption, NEW r \in Requests, Page!TakeAnswer(Owner[r], r)
  PROVE  PageInv'
<1>1. /\ Scripts!TargetsAssumption /\ NoTarget \notin Targets /\ NoRequest \notin Requests
      /\ Owner \in [Requests -> Editors] /\ SessionTells /\ FormFollows /\ GateHolds
      /\ asked \in [Requests -> AskedRecords] /\ Carries(asked[r]) /\ Named(asked[r])
  BY DEF Page!FormAssumption, Page!TargetsAssumption, Scripts!TargetsAssumption, PageInv, TargetsInv,
         Scripts!TypeOK, AskedRecords
<1>2. PICK e \in Editors : e = Owner[r]
  BY <1>1
<1>3. /\ Page!Hangup(r) /\ UNCHANGED <<lifecycle, row, revisions, events, asks>> /\ Page!FinishRequest(e, r)
      /\ \/ Page!TakeRefusal(r)
         \/ Page!TakeTarget(e, r) \/ Page!TakeRemoved(e, r) \/ Page!TakeVersion(e, r) \/ Page!TakeHistory(r)
  BY <1>2 DEF Page!TakeAnswer, Page!tables
<1>4. /\ TargetsInv' /\ SavesTell' /\ (\A q \in Requests : Carries(asked[q]))'
      /\ \A q \in Requests \ {r} : asked'[q] = asked[q]
  BY <1>1, <1>3, SameServer, HangupKeeps
<1>5. GateHolds'
  <2>1. gate' = gate /\ busy' = [busy EXCEPT ![e] = busy[e] /\ gate[e] # r]
        /\ gate \in [Editors -> Requests \union {NoRequest}] /\ busy \in [Editors -> BOOLEAN]
    BY <1>1, <1>3 DEF Page!FinishRequest, Page!HasGate, GateHolds
  <2>2. busy' \in [Editors -> BOOLEAN]
    BY <2>1
  <2>3. ASSUME NEW f \in Editors, busy'[f]
        PROVE  gate[f] \in Requests /\ Owner[gate[f]] = f /\ asked'[gate[f]].stage # "none"
    <3>1. busy[f] /\ (f = e => gate[f] # r)
      BY <2>1, <2>3
    <3>2. gate[f] \in Requests /\ Owner[gate[f]] = f /\ asked[gate[f]].stage # "none"
      BY <1>1, <3>1 DEF GateHolds, Page!BusyIsAnswered
    <3> QED BY <1>2, <1>4, <3>1, <3>2
  <2> QED BY <2>1, <2>2, <2>3 DEF GateHolds, Page!BusyIsAnswered
<1>6. PICK c \in AskedRecords : c = asked[r]
  BY <1>1
<1>7. /\ c.answer \in [Targets -> Page!Records]
      /\ \A t \in Targets : c.answer[t] \in Page!Records /\ c.answer[t].current <= c.answer[t].last
  BY <1>1, <1>6, SameServer DEF AskedRecords, Carries
<1>8. ASSUME UNCHANGED <<session, submitted>>, Page!KeepForm PROVE SessionTells' /\ FormFollows'
  BY <1>1, <1>8 DEF SessionTells, FormFollows, Page!KeepForm
<1>9. ASSUME Page!KeepForm PROVE FormFollows'
  BY <1>1, <1>9 DEF FormFollows, Page!KeepForm
<1>10. ASSUME NEW t \in Targets, t = c.target, Page!ApplyTargetRecord(e, r), UNCHANGED submitted
       PROVE  SessionTells'
  <2>1. PICK told \in [Targets -> Page!Records] : told = session[e] /\ \A u \in Targets : told[u].current <= told[u].last
    BY <1>1 DEF SessionTells
  <2>2. session' = [session EXCEPT ![e] = [told EXCEPT ![t] = c.answer[t]]]
    BY <1>6, <1>10, <2>1 DEF Page!ApplyTargetRecord, Page!Told
  <2> QED BY <1>1, <1>7, <1>10, <2>1, <2>2 DEF SessionTells
<1>11. CASE Page!TakeRefusal(r) \/ Page!TakeHistory(r)
  BY <1>4, <1>5, <1>8, <1>11 DEF Page!TakeRefusal, Page!TakeHistory, PageInv
<1>12. CASE Page!TakeTarget(e, r)
  <2>1. PICK t \in Targets : t = c.target
    BY <1>1, <1>6, <1>12 DEF Page!TakeTarget, Named, Scripts!ReadOnly
  <2>2. SessionTells'
    BY <1>10, <1>12, <2>1 DEF Page!TakeTarget
  <2>3. Page!Fill(e, t, c.answer[t]) \/ Page!KeepForm
    BY <1>6, <1>12, <2>1 DEF Page!TakeTarget, Page!Told
  <2>4. FormFollows'
    BY <1>1, <1>7, <1>9, <2>3, FillKeeps
  <2> QED BY <1>4, <1>5, <2>2, <2>4 DEF PageInv
<1>13. CASE Page!TakeRemoved(e, r)
  <2>1. PICK t \in Targets : t = c.target
    BY <1>1, <1>6, <1>13 DEF Page!TakeRemoved, Named, Scripts!ReadOnly
  <2>2. SessionTells'
    BY <1>10, <1>13, <2>1 DEF Page!TakeRemoved
  <2>3. FormFollows'
    BY <1>1, <1>9, <1>13, ClearKeeps DEF Page!TakeRemoved
  <2> QED BY <1>4, <1>5, <2>2, <2>3 DEF PageInv
<1>14. CASE Page!TakeVersion(e, r)
  <2>1. CASE UNCHANGED <<session, submitted>> /\ Page!KeepForm
    BY <1>4, <1>5, <1>8, <2>1 DEF PageInv
  <2>2. CASE Page!HydratePublishSession(e, r) /\ submitted' = [submitted EXCEPT ![e] = ~asked[r].draft]
    <3>1. session' = [session EXCEPT ![e] = c.answer]
      BY <1>6, <2>2 DEF Page!HydratePublishSession
    <3>2. SessionTells'
      BY <1>1, <1>7, <2>2, <3>1 DEF SessionTells
    <3>3. (\E t \in Targets : Page!Fill(e, t, c.answer[t])) \/ Page!ClearForm(e)
      BY <1>6, <2>2 DEF Page!HydratePublishSession
    <3>4. FormFollows'
      BY <1>1, <1>7, <3>3, FillKeeps, ClearKeeps
    <3> QED BY <1>4, <1>5, <3>2, <3>4 DEF PageInv
  <2> QED BY <1>14, <2>1, <2>2 DEF Page!TakeVersion
<1> QED BY <1>3, <1>11, <1>12, <1>13, <1>14

LEMMA PageStep ==
  ASSUME PageInv, Page!FormAssumption, Page!Forms \subseteq Contents, [Page!PageNext]_(Page!vars)
  PROVE  PageInv'
<1>1. /\ Scripts!TargetsAssumption /\ SessionTells /\ FormFollows /\ GateHolds /\ TargetsInv
  BY DEF Page!FormAssumption, Page!TargetsAssumption, Scripts!TargetsAssumption, PageInv
<1>2. ASSUME UNCHANGED <<selected, form, unsaved>> PROVE FormFollows'
  BY <1>1, <1>2 DEF FormFollows
<1>3. ASSUME UNCHANGED <<session, submitted>> PROVE SessionTells'
  BY <1>1, <1>3 DEF SessionTells
<1>4. ASSUME UNCHANGED <<gate, busy>>, \A q \in Requests : asked[q].stage # "none" => asked'[q].stage # "none"
      PROVE  GateHolds'
  BY <1>1, <1>4, Zenon DEF GateHolds, Page!BusyIsAnswered
<1>5. ASSUME UNCHANGED <<row, revisions, events, asked, asks>>, lifecycle' \in {"draft", "validating"}
      PROVE  TargetsInv' /\ SavesTell' /\ (\A q \in Requests : Carries(asked[q]))'
  <2>1. TargetsInv'
    BY <1>1, <1>5 DEF TargetsInv, Scripts!TypeOK, Named, Scripts!CurrentIsNewest, Scripts!LastRevision
  <2>2. SavesTell'
    BY <1>5 DEF PageInv, SavesTell, Page!SavedWhereWritten, Page!SavedOnKnownRevisions, Page!Written,
       Page!LastRevision
  <2>3. (\A q \in Requests : Carries(asked[q]))'
    BY <1>5 DEF PageInv, Carries, Scripts!LastRevision
  <2> QED BY <2>1, <2>2, <2>3
<1>6. lifecycle \in {"draft", "validating"}
  BY <1>1 DEF TargetsInv, Scripts!TypeOK
<1>7. CASE UNCHANGED Page!vars
  BY <1>2, <1>3, <1>4, <1>5, <1>6, <1>7 DEF Page!vars, Page!pageVars, Page!serverVars, PageInv
<1>8. ASSUME NEW r \in Requests, Page!Serve(r), UNCHANGED Page!pageVars PROVE PageInv'
  <2>1. /\ TargetsInv' /\ SavesTell' /\ (\A q \in Requests : Carries(asked[q]))'
        /\ \A q \in Requests : asked[q].stage # "none" => asked'[q].stage # "none"
    BY <1>1, <1>8, SameServer, ServeKeeps
  <2> QED BY <1>2, <1>3, <1>4, <1>8, <2>1 DEF Page!pageVars, PageInv
<1>9. ASSUME NEW e \in Editors, Page!Type(e) PROVE PageInv'
  <2>1. FormFollows'
    BY <1>1, <1>9 DEF Page!Type, FormFollows
  <2> QED BY <1>3, <1>4, <1>5, <1>6, <1>9, <2>1 DEF Page!Type, Page!serverVars, PageInv
<1>10. ASSUME NEW e \in Editors, NEW t \in Targets, Page!Select(e, t) PROVE PageInv'
  <2>1. session[e][t] \in Page!Records /\ session[e][t].current <= session[e][t].last
    BY <1>1 DEF SessionTells
  <2>2. FormFollows'
    BY <1>1, <1>10, <2>1, FillKeeps DEF Page!Select
  <2>3. GateHolds'
    <3>1. gate' = [gate EXCEPT ![e] = NoRequest] /\ busy' = [busy EXCEPT ![e] = FALSE] /\ asked' = asked
      BY <1>10 DEF Page!Select, Page!Interrupt, Page!serverVars
    <3>2. /\ gate \in [Editors -> Requests \union {NoRequest}] /\ busy \in [Editors -> BOOLEAN]
          /\ Page!BusyIsAnswered
      BY <1>1 DEF GateHolds
    <3>3. \A f \in Editors \ {e} : gate'[f] = gate[f] /\ busy'[f] = busy[f]
      BY <3>1, <3>2
    <3>4. busy'[e] = FALSE /\ gate' \in [Editors -> Requests \union {NoRequest}] /\ busy' \in [Editors -> BOOLEAN]
      BY <3>1, <3>2
    <3> QED BY <3>1, <3>2, <3>3, <3>4 DEF GateHolds, Page!BusyIsAnswered
  <2> QED BY <1>3, <1>5, <1>6, <1>10, <2>2, <2>3 DEF Page!Select, Page!serverVars, PageInv
<1>11. ASSUME NEW e \in Editors, Page!SubmitReview(e) PROVE PageInv'
  <2>1. SessionTells'
    BY <1>1, <1>11 DEF SessionTells, Page!SubmitReview
  <2>2. UNCHANGED <<row, revisions, events, asked, asks>> /\ lifecycle' \in {"draft", "validating"}
    BY <1>11 DEF Page!SubmitReview, Page!SubmitVersion
  <2> QED BY <1>2, <1>4, <1>5, <1>11, <2>1, <2>2 DEF Page!SubmitReview, PageInv
<1>12. CASE Page!ReviseVersion /\ UNCHANGED Page!pageVars
  BY <1>2, <1>3, <1>4, <1>5, <1>12 DEF Page!ReviseVersion, Page!pageVars, PageInv
<1> QED BY <1>7, <1>8, <1>9, <1>10, <1>11, <1>12, ClickKeeps, AnswerKeeps DEF Page!PageNext

LEMMA PageStart ==
  ASSUME Page!FormAssumption, Page!PageInit PROVE PageInv
<1>1. Scripts!TargetsAssumption /\ NoRequest \notin Requests /\ Scripts!Init
  BY SameServer DEF Page!FormAssumption, Page!TargetsAssumption, Scripts!TargetsAssumption, Page!PageInit,
     Page!Init, Scripts!Init, Page!NoRow, Scripts!NoRow
<1>2. TargetsInv
  BY <1>1, TargetsStart
<1>3. Scripts!NoRecord \in Scripts!Records /\ Scripts!NoRecord.current = 0 /\ Scripts!NoRecord.last = 0
  BY DEF Scripts!NoRecord, Scripts!Records
<1>4. SessionTells
  BY SMTT(30), <1>3, SameServer DEF SessionTells, Page!PageInit, Page!NoAnswer, Page!NoRecord, Scripts!NoRecord
<1>5. FormFollows
  BY DEF FormFollows, Page!PageInit, Page!EmptyForm, Page!Forms
<1>6. GateHolds
  BY DEF GateHolds, Page!PageInit, Page!BusyIsAnswered
<1>7. revisions = [t \in Targets |-> <<>>] /\ asked = [r \in Requests |-> Scripts!NoCall]
  BY <1>1 DEF Scripts!Init
<1>8. \A r \in Requests : Carries(asked[r])
  BY <1>3, <1>7 DEF Carries, Scripts!NoCall, Scripts!NoRow, Scripts!NoAnswer, Scripts!LastRevision
<1>9. SavesTell
  BY <1>7 DEF SavesTell, Page!SavedWhereWritten, Page!SavedOnKnownRevisions, Page!Written, Page!LastRevision
<1> QED BY <1>2, <1>4, <1>5, <1>6, <1>8, <1>9 DEF PageInv

\* Whatever answers came in late and whatever was selected, added or removed in the
\* meantime, what is saved to a target was written on that target's form and replaces no
\* revision the page had not been told of (saveCurrent, replaceTarget).  A revision holds
\* what a form does: nothing of it is refused.
THEOREM SavedWhereWrittenHolds ==
  ASSUME Page!FormAssumption, Page!Forms \subseteq Contents
  PROVE  Page!PageSpec => [](Page!SavedWhereWritten /\ Page!SavedOnKnownRevisions)
<1>1. PageInv => Page!SavedWhereWritten /\ Page!SavedOnKnownRevisions
  BY DEF PageInv, SavesTell
<1> QED BY <1>1, PageStart, PageStep, PTL DEF Page!PageSpec

\* The request gate: a page that waits does so for a request of its own that is under
\* way, for any number of editors and requests.
THEOREM BusyIsAnsweredHolds ==
  ASSUME Page!FormAssumption, Page!Forms \subseteq Contents
  PROVE  Page!PageSpec => [](Page!PageTypeOK /\ Page!BusyIsAnswered)
<1>1. PageInv => Page!PageTypeOK /\ Page!BusyIsAnswered
  <2>1. Scripts!TypeOK => Page!TypeOK
    BY SameServer DEF Scripts!TypeOK, Page!TypeOK, Scripts!Rows, Page!Rows, Scripts!Revisions, Page!Revisions,
       Scripts!Events, Page!Events, Scripts!Stages, Page!Stages, Scripts!Ops, Page!Ops
  <2> QED BY <2>1 DEF PageInv, TargetsInv, SessionTells, FormFollows, GateHolds, Page!PageTypeOK
<1> QED BY <1>1, PageStart, PageStep, PTL DEF Page!PageSpec

-----------------------------------------------------------------------------
(* The order of versions *)

CONSTANTS Cores, Values, Places, Zeros, Builds, MaxParts
VARIABLES left, right, other, compared, verdict, latest

Order == INSTANCE SemanticVersion

\* A set of numbers that is not empty has a least one.
LEMMA HasLeast == ASSUME NEW S \in SUBSET Nat, S # {} PROVE \E m \in S : \A k \in S : m <= k
<1> DEFINE less == {pair \in Nat \X Nat : pair[1] < pair[2]}
<1>1. IsWellFoundedOn(less, Nat)
  BY NatLessThanWellFounded DEF OpToRel
<1>3. PICK m \in S : \A k \in S : ~(<<k, m>> \in less)
  <2> HIDE DEF less
  <2> QED BY <1>1, WFMin
<1>2. \A k \in S : ~(k < m)
  BY <1>3
<1> QED BY <1>1, <1>2

\* What comparing two lists says, of the lengths m and n and with the verdicts d of their
\* members: the first one that decides, or that of the lengths.
Outcome(m, n, d) ==
  LET shared == 1 .. (IF m < n THEN m ELSE n)
      differing == {i \in shared : d[i] # 0}
  IN IF differing = {} THEN Order!Sign(m - n)
     ELSE LET i == CHOOSE i \in differing : \A j \in differing : i <= j IN d[i]

Shorter(l, r) == IF Len(l) < Len(r) THEN Len(l) ELSE Len(r)

\* The verdicts of a comparison.
Sides == {-1, 0, 1}

\* What a prerelease is made of.
Identifiers == Order!Digits \cup Order!Texts

\* What comparing x with y and y with z says about comparing x with z.
Chain(xy, yz, xz) ==
  /\ {xy, yz, xz} \subseteq Sides
  /\ xy <= 0 /\ yz <= 0 => xz <= 0 /\ (xz = 0 <=> xy = 0 /\ yz = 0)

Judged(m, n, d) == \A i \in 1 .. (IF m < n THEN m ELSE n) : d[i] \in Sides

LEMMA OutcomeTells ==
  ASSUME NEW m \in Nat, NEW n \in Nat, NEW d, Judged(m, n, d)
  PROVE  LET shared == 1 .. (IF m < n THEN m ELSE n)
             x == Outcome(m, n, d)
         IN /\ x \in Sides
            /\ \/ x = Order!Sign(m - n) /\ \A i \in shared : d[i] = 0
               \/ x # 0 /\ \E i \in shared : d[i] = x /\ \A j \in 1 .. i - 1 : d[j] = 0
<1> DEFINE shared == 1 .. (IF m < n THEN m ELSE n)
           D == {i \in shared : d[i] # 0}
<1>1. CASE D = {}
  <2>1. Outcome(m, n, d) = Order!Sign(m - n)
    BY <1>1 DEF Outcome
  <2> QED BY <1>1, <2>1 DEF Order!Sign, Sides
<1>2. CASE D # {}
  <2>1. D \subseteq Nat
    OBVIOUS
  <2> DEFINE i == CHOOSE i \in D : \A j \in D : i <= j
  <2>2. i \in D /\ \A j \in D : i <= j
    BY <1>2, <2>1, HasLeast
  <2>3. Outcome(m, n, d) = d[i]
    BY <1>2, Zenon DEF Outcome
  <2> HIDE DEF i
  <2>4. \A j \in 1 .. i - 1 : d[j] = 0
    BY <2>2
  <2> QED BY <2>2, <2>3, <2>4 DEF Judged
<1> QED BY <1>1, <1>2

\* The other way round it is the opposite.
LEMMA OutcomeTurns ==
  ASSUME NEW m \in Nat, NEW n \in Nat, NEW d, NEW e, Judged(m, n, d),
         \A i \in 1 .. (IF m < n THEN m ELSE n) : e[i] = -d[i]
  PROVE  Outcome(n, m, e) = -Outcome(m, n, d)
<1> DEFINE shared == 1 .. (IF m < n THEN m ELSE n)
           x == Outcome(m, n, d)
           y == Outcome(n, m, e)
<1>1. (IF n < m THEN n ELSE m) = (IF m < n THEN m ELSE n)
  OBVIOUS
<1>2. Judged(n, m, e)
  BY <1>1 DEF Judged, Sides
<1>3. /\ x \in Sides
      /\ \/ x = Order!Sign(m - n) /\ \A i \in shared : d[i] = 0
         \/ x # 0 /\ \E i \in shared : d[i] = x /\ \A j \in 1 .. i - 1 : d[j] = 0
  BY OutcomeTells
<1>4. /\ y \in Sides
      /\ \/ y = Order!Sign(n - m) /\ \A i \in shared : e[i] = 0
         \/ y # 0 /\ \E i \in shared : e[i] = y /\ \A j \in 1 .. i - 1 : e[j] = 0
  BY <1>1, <1>2, OutcomeTells
<1> HIDE DEF x, y
<1> QED BY <1>3, <1>4 DEF Order!Sign, Sides, Judged, x, y

\* Where the members make a chain the lists do: in the first place where two of the three
\* differ the verdict of the ends is decided, or the lengths decide.
LEMMA OutcomeChain ==
  ASSUME NEW m \in Nat, NEW n \in Nat, NEW o \in Nat, NEW a, NEW b, NEW c,
         Judged(m, n, a), Judged(n, o, b), Judged(m, o, c),
         \A i \in Nat \ {0} : i <= m /\ i <= n /\ i <= o => Chain(a[i], b[i], c[i])
  PROVE  Chain(Outcome(m, n, a), Outcome(n, o, b), Outcome(m, o, c))
<1> DEFINE x == Outcome(m, n, a)
           y == Outcome(n, o, b)
           z == Outcome(m, o, c)
           Decides(k, l, d, i, w) == /\ i \in Nat /\ 1 <= i /\ i <= k /\ i <= l /\ d[i] = w /\ w # 0
                                     /\ \A j \in 1 .. i - 1 : d[j] = 0
           Even(k, l, d, w) == w = Order!Sign(k - l) /\ \A i \in Nat \ {0} : i <= k /\ i <= l => d[i] = 0
<1>1. x \in Sides /\ (Even(m, n, a, x) \/ \E i \in Nat : Decides(m, n, a, i, x))
  BY OutcomeTells
<1>2. y \in Sides /\ (Even(n, o, b, y) \/ \E i \in Nat : Decides(n, o, b, i, y))
  BY OutcomeTells
<1>3. z \in Sides /\ (Even(m, o, c, z) \/ \E i \in Nat : Decides(m, o, c, i, z))
  BY OutcomeTells
<1> HIDE DEF x, y, z
<1>9. ASSUME NEW k \in Nat, 1 <= k, k <= m, k <= o, c[k] = -1, \A h \in 1 .. k - 1 : c[h] = 0
      PROVE  z = -1
  <2>1. ~Even(m, o, c, z)
    BY <1>9
  <2>2. PICK i \in Nat : Decides(m, o, c, i, z)
    BY <1>3, <2>1
  <2>3. ~(i < k) /\ ~(k < i)
    BY <1>9, <2>2
  <2>4. i = k
    BY <1>9, <2>2, <2>3
  <2> QED BY <1>9, <2>2, <2>4
<1>4. SUFFICES ASSUME x <= 0, y <= 0
               PROVE  z <= 0 /\ (z = 0 <=> x = 0 /\ y = 0)
  BY <1>1, <1>2, <1>3 DEF Chain, x, y, z
<1>5. CASE Even(m, n, a, x) /\ Even(n, o, b, y)
  <2>1. m <= n /\ n <= o
    BY <1>4, <1>5 DEF Order!Sign
  <2>2. Even(m, o, c, z)
    BY <1>3, <1>5, <2>1 DEF Chain
  <2> QED BY <1>5, <2>1, <2>2 DEF Order!Sign
<1>6. ASSUME Even(m, n, a, x), NEW i \in Nat, Decides(n, o, b, i, y)
      PROVE  z = -1 /\ y = -1
  <2>1. m <= n /\ y = -1 /\ i <= o
    BY <1>2, <1>4, <1>6 DEF Order!Sign, Sides
  <2>2. CASE i <= m
    <3>1. \A j \in 1 .. i - 1 : c[j] = 0
      BY <1>6, <2>1, <2>2 DEF Chain
    <3>2. c[i] = -1
      BY <1>6, <2>1, <2>2 DEF Chain, Sides
    <3>3. 1 <= i
      BY <1>6
    <3>4. z = -1
      BY <1>9, <2>1, <2>2, <3>1, <3>2, <3>3
    <3> QED BY <2>1, <3>4
  <2>3. CASE m < i
    <3>1. \A j \in Nat \ {0} : j <= m /\ j <= o => c[j] = 0
      BY <1>6, <2>1, <2>3 DEF Chain
    <3> QED BY <1>3, <2>1, <2>3, <3>1 DEF Order!Sign
  <2> QED BY <2>2, <2>3
<1>7. ASSUME NEW i \in Nat, Decides(m, n, a, i, x), Even(n, o, b, y)
      PROVE  z = -1 /\ x = -1
  <2>1. n <= o /\ x = -1 /\ i <= m /\ i <= n
    BY <1>1, <1>4, <1>7 DEF Order!Sign, Sides
  <2>2. \A j \in 1 .. i - 1 : c[j] = 0
    BY <1>7, <2>1 DEF Chain
  <2>3. c[i] = -1
    BY <1>7, <2>1 DEF Chain, Sides
  <2>4. 1 <= i /\ i <= o
    BY <1>7, <2>1
  <2>5. z = -1
    BY <1>9, <2>1, <2>2, <2>3, <2>4
  <2> QED BY <2>1, <2>5
<1>8. ASSUME NEW i \in Nat, Decides(m, n, a, i, x), NEW j \in Nat, Decides(n, o, b, j, y)
      PROVE  z = -1 /\ x = -1
  <2>1. x = -1 /\ y = -1
    BY <1>1, <1>2, <1>4, <1>8 DEF Sides
  <2> DEFINE k == IF i < j THEN i ELSE j
  <2>2. k \in Nat /\ 1 <= k /\ k <= m /\ k <= n /\ k <= o
    BY <1>8
  <2>3. a[k] \in {-1, 0} /\ b[k] \in {-1, 0} /\ (a[k] = -1 \/ b[k] = -1)
    BY <1>8, <2>1
  <2>4. c[k] = -1
    BY <2>2, <2>3 DEF Chain, Sides
  <2>5. \A h \in 1 .. k - 1 : a[h] = 0 /\ b[h] = 0
    BY <1>8
  <2>6. \A h \in 1 .. k - 1 : c[h] = 0
    BY <2>2, <2>5 DEF Chain
  <2> HIDE DEF k
  <2>7. z = -1
    BY <1>9, <2>2, <2>4, <2>6
  <2> QED BY <2>1, <2>7
<1> QED BY <1>1, <1>2, <1>5, <1>6, <1>7, <1>8

\* Each of the four comparisons of members is an order.  A lemma cannot take the comparison
\* as a parameter, so what follows is said of each of them.
LEMMA RunsOrdered ==
  ASSUME Order!VersionAssumption, NEW u \in Order!Runs, NEW v \in Order!Runs, NEW w \in Order!Runs
  PROVE  /\ Order!CompareRuns(u, v) \in Sides /\ Order!CompareRuns(v, u) = -Order!CompareRuns(u, v)
         /\ Chain(Order!CompareRuns(u, v), Order!CompareRuns(v, w), Order!CompareRuns(u, w))
         /\ Order!CompareRuns(u, v) = 0 => u.digits = v.digits /\ u.value = v.value
<1>1. \A x \in Order!Runs : x.digits \in BOOLEAN /\ x.value \in Nat /\ x.zeros \in Nat
                          /\ x = [digits |-> x.digits, value |-> x.value, zeros |-> x.zeros]
  <2> TAKE x \in Order!Runs
  <2>1. CASE x \in Order!Texts
    BY <2>1 DEF Order!VersionAssumption, Order!Texts
  <2>2. CASE x \notin Order!Texts
    BY <2>2 DEF Order!VersionAssumption, Order!Runs, Order!Digits
  <2> QED BY <2>1, <2>2
<1> QED BY <1>1 DEF Chain, Sides, Order!Sign, Order!CompareText, Order!CompareNumericText, Order!CompareRuns

LEMMA IdentifiersOrdered ==
  ASSUME Order!VersionAssumption,
         NEW u \in Identifiers, NEW v \in Identifiers, NEW w \in Identifiers
  PROVE  /\ Order!CompareIdentifiers(u, v) \in Sides /\ Order!CompareIdentifiers(v, u) = -Order!CompareIdentifiers(u, v)
         /\ Chain(Order!CompareIdentifiers(u, v), Order!CompareIdentifiers(v, w),
                  Order!CompareIdentifiers(u, w))
         /\ Order!CompareIdentifiers(u, v) = 0 => u = v
<1>1. \A x \in Identifiers : x.digits \in BOOLEAN /\ x.value \in Nat /\ x.zeros \in Nat
                          /\ x = [digits |-> x.digits, value |-> x.value, zeros |-> x.zeros] /\ x.zeros = 0
  <2> TAKE x \in Identifiers
  <2>1. CASE x \in Order!Texts
    BY <2>1 DEF Order!VersionAssumption, Order!Texts, Identifiers
  <2>2. CASE x \notin Order!Texts
    BY <2>2 DEF Order!VersionAssumption, Order!Digits, Identifiers
  <2> QED BY <2>1, <2>2
<1> QED BY <1>1 DEF Chain, Sides, Order!Sign, Order!CompareText, Order!CompareNumericText, Order!CompareRuns,
                    Order!CompareIdentifiers

LEMMA ZerosOrdered ==
  ASSUME Order!VersionAssumption, NEW u \in Order!Runs, NEW v \in Order!Runs, NEW w \in Order!Runs
  PROVE  /\ Order!CompareZeros(u, v) \in Sides /\ Order!CompareZeros(v, u) = -Order!CompareZeros(u, v)
         /\ Chain(Order!CompareZeros(u, v), Order!CompareZeros(v, w), Order!CompareZeros(u, w))
         /\ Order!CompareZeros(u, v) = 0 => u.zeros = v.zeros
<1>1. \A x \in Order!Runs : x.digits \in BOOLEAN /\ x.value \in Nat /\ x.zeros \in Nat
                          /\ x = [digits |-> x.digits, value |-> x.value, zeros |-> x.zeros]
  <2> TAKE x \in Order!Runs
  <2>1. CASE x \in Order!Texts
    BY <2>1 DEF Order!VersionAssumption, Order!Texts
  <2>2. CASE x \notin Order!Texts
    BY <2>2 DEF Order!VersionAssumption, Order!Runs, Order!Digits
  <2> QED BY <2>1, <2>2
<1> QED BY <1>1 DEF Chain, Sides, Order!Sign, Order!CompareZeros

LEMMA NumbersOrdered ==
  ASSUME Order!VersionAssumption, NEW u \in Nat, NEW v \in Nat, NEW w \in Nat
  PROVE  /\ Order!CompareNumbers(u, v) \in Sides /\ Order!CompareNumbers(v, u) = -Order!CompareNumbers(u, v)
         /\ Chain(Order!CompareNumbers(u, v), Order!CompareNumbers(v, w), Order!CompareNumbers(u, w))
         /\ Order!CompareNumbers(u, v) = 0 => u = v
BY DEF Chain, Sides, Order!Sign, Order!CompareNumbers

\* The first difference of two lists is an outcome, and so an order of the lists.
LEMMA FirstRuns ==
  ASSUME NEW l, NEW r, Len(l) \in Nat, Len(r) \in Nat
  PROVE  Order!FirstDifference(l, r, Order!CompareRuns)
         = Outcome(Len(l), Len(r), [i \in 1 .. Shorter(l, r) |-> Order!CompareRuns(l[i], r[i])])
<1> DEFINE d == [i \in 1 .. Shorter(l, r) |-> Order!CompareRuns(l[i], r[i])]
           D == {i \in 1 .. Shorter(l, r) : Order!CompareRuns(l[i], r[i]) # 0}
<1>1. D = {i \in 1 .. Shorter(l, r) : d[i] # 0}
  OBVIOUS
<1>2. CASE D = {}
  BY <1>1, <1>2 DEF Order!FirstDifference, Outcome, Shorter
<1>3. CASE D # {}
  <2>1. D \subseteq Nat
    BY DEF Shorter
  <2> DEFINE i == CHOOSE i \in D : \A j \in D : i <= j
  <2>2. i \in D
    BY <1>3, <2>1, HasLeast
  <2>3. d[i] = Order!CompareRuns(l[i], r[i])
    BY <2>2
  <2>4. Order!FirstDifference(l, r, Order!CompareRuns) = Order!CompareRuns(l[i], r[i])
    BY <1>3 DEF Order!FirstDifference, Shorter
  <2>5. Outcome(Len(l), Len(r), d) = d[i]
    BY <1>1, <1>3, Zenon DEF Outcome, Shorter
  <2> QED BY <2>3, <2>4, <2>5
<1> QED BY <1>2, <1>3

LEMMA ListsOfRuns ==
  ASSUME Order!VersionAssumption,
         NEW l \in Seq(Order!Runs), NEW r \in Seq(Order!Runs), NEW o \in Seq(Order!Runs)
  PROVE  LET First(p, q) == Order!FirstDifference(p, q, Order!CompareRuns)
         IN /\ First(l, r) \in Sides /\ First(r, l) = -First(l, r)
            /\ Chain(First(l, r), First(r, o), First(l, o))
            /\ First(l, r) = 0 =>
                 Len(l) = Len(r) /\ \A i \in 1 .. Len(l) : Order!CompareRuns(l[i], r[i]) = 0
<1> DEFINE d(p, q) == [i \in 1 .. Shorter(p, q) |-> Order!CompareRuns(p[i], q[i])]
           L == Seq(Order!Runs)
           First(p, q) == Order!FirstDifference(p, q, Order!CompareRuns)
<1>3. \A p, q \in L : Len(p) \in Nat /\ Len(q) \in Nat
  OBVIOUS
<1>1. \A p, q \in L : First(p, q) = Outcome(Len(p), Len(q), d(p, q))
  <2> TAKE p, q \in L
  <2>1. Len(p) \in Nat /\ Len(q) \in Nat
    BY <1>3
  <2> QED BY <2>1, FirstRuns, Zenon
<1>2. \A p, q \in L : Judged(Len(p), Len(q), d(p, q))
  <2> TAKE p, q \in L
  <2> SUFFICES ASSUME NEW i \in 1 .. Shorter(p, q)
               PROVE  Order!CompareRuns(p[i], q[i]) \in Sides
    BY <1>3 DEF Judged, Shorter
  <2>1. p[i] \in Order!Runs /\ q[i] \in Order!Runs
    BY <1>3 DEF Shorter
  <2> HIDE DEF L
  <2> QED BY <2>1, RunsOrdered
<1>4. \A i \in 1 .. Shorter(l, r) : d(r, l)[i] = -d(l, r)[i]
  BY RunsOrdered DEF Shorter
<1>5. First(r, l) = -First(l, r)
  <2> DEFINE m == Len(l)
             n == Len(r)
             e == d(l, r)
             f == d(r, l)
  <2>1. /\ m \in Nat /\ n \in Nat /\ Judged(m, n, e)
        /\ First(l, r) = Outcome(m, n, e) /\ First(r, l) = Outcome(n, m, f)
    BY <1>1, <1>2, <1>3
  <2>2. \A i \in 1 .. (IF m < n THEN m ELSE n) : f[i] = -e[i]
    BY <1>4 DEF Shorter
  <2> HIDE DEF m, n, e, f, First
  <2>3. Outcome(n, m, f) = -Outcome(m, n, e)
    BY SMTT(30), <2>1, <2>2, OutcomeTurns
  <2> QED BY <2>1, <2>3
<1>6. ASSUME NEW i \in Nat \ {0}, i <= Len(l), i <= Len(r), i <= Len(o)
      PROVE  Chain(d(l, r)[i], d(r, o)[i], d(l, o)[i])
  <2>1. i \in 1 .. Shorter(l, r) /\ i \in 1 .. Shorter(r, o) /\ i \in 1 .. Shorter(l, o)
    BY <1>3, <1>6 DEF Shorter
  <2>2. l[i] \in Order!Runs /\ r[i] \in Order!Runs /\ o[i] \in Order!Runs
    BY <1>6
  <2> QED BY <2>1, <2>2, RunsOrdered
<1>7. Chain(First(l, r), First(r, o), First(l, o))
  <2> DEFINE m == Len(l)
             n == Len(r)
             k == Len(o)
             a == d(l, r)
             b == d(r, o)
             c == d(l, o)
  <2>1. /\ m \in Nat /\ n \in Nat /\ k \in Nat
        /\ Judged(m, n, a) /\ Judged(n, k, b) /\ Judged(m, k, c)
    BY <1>2, <1>3
  <2>2. \A i \in Nat \ {0} : i <= m /\ i <= n /\ i <= k => Chain(a[i], b[i], c[i])
    BY <1>6
  <2>3. First(l, r) = Outcome(m, n, a) /\ First(r, o) = Outcome(n, k, b) /\ First(l, o) = Outcome(m, k, c)
    BY <1>1
  <2> HIDE DEF m, n, k, a, b, c, First
  <2>4. Chain(Outcome(m, n, a), Outcome(n, k, b), Outcome(m, k, c))
    BY <2>1, <2>2, OutcomeChain
  <2> QED BY <2>3, <2>4
<1>8. First(l, r) \in Sides
  BY <1>7 DEF Chain
<1>9. First(l, r) = 0 => Len(l) = Len(r) /\ \A i \in 1 .. Len(l) : Order!CompareRuns(l[i], r[i]) = 0
  <2> SUFFICES ASSUME First(l, r) = 0
               PROVE  Len(l) = Len(r) /\ \A i \in 1 .. Len(l) : Order!CompareRuns(l[i], r[i]) = 0
    OBVIOUS
  <2> DEFINE e == d(l, r)
             m == Len(l)
             n == Len(r)
  <2>1. Judged(m, n, e) /\ m \in Nat /\ n \in Nat /\ Outcome(m, n, e) = First(l, r)
    BY <1>1, <1>2, <1>3
  <2>2. 0 = Order!Sign(m - n) /\ \A i \in 1 .. (IF m < n THEN m ELSE n) : e[i] = 0
    <3> HIDE DEF e, m, n, First
    <3> QED BY <2>1, OutcomeTells
  <2>3. m = n
    BY <2>1, <2>2 DEF Order!Sign
  <2> QED BY <2>2, <2>3 DEF Shorter
<1> HIDE DEF First
<1> QED BY <1>5, <1>7, <1>8, <1>9, Zenon DEF First

LEMMA FirstIdentifiers ==
  ASSUME NEW l, NEW r, Len(l) \in Nat, Len(r) \in Nat
  PROVE  Order!FirstDifference(l, r, Order!CompareIdentifiers)
         = Outcome(Len(l), Len(r), [i \in 1 .. Shorter(l, r) |-> Order!CompareIdentifiers(l[i], r[i])])
<1> DEFINE d == [i \in 1 .. Shorter(l, r) |-> Order!CompareIdentifiers(l[i], r[i])]
           D == {i \in 1 .. Shorter(l, r) : Order!CompareIdentifiers(l[i], r[i]) # 0}
<1>1. D = {i \in 1 .. Shorter(l, r) : d[i] # 0}
  OBVIOUS
<1>2. CASE D = {}
  BY <1>1, <1>2 DEF Order!FirstDifference, Outcome, Shorter
<1>3. CASE D # {}
  <2>1. D \subseteq Nat
    BY DEF Shorter
  <2> DEFINE i == CHOOSE i \in D : \A j \in D : i <= j
  <2>2. i \in D
    BY <1>3, <2>1, HasLeast
  <2>3. d[i] = Order!CompareIdentifiers(l[i], r[i])
    BY <2>2
  <2>4. Order!FirstDifference(l, r, Order!CompareIdentifiers) = Order!CompareIdentifiers(l[i], r[i])
    BY <1>3 DEF Order!FirstDifference, Shorter
  <2>5. Outcome(Len(l), Len(r), d) = d[i]
    BY <1>1, <1>3, Zenon DEF Outcome, Shorter
  <2> QED BY <2>3, <2>4, <2>5
<1> QED BY <1>2, <1>3

LEMMA ListsOfIdentifiers ==
  ASSUME Order!VersionAssumption,
         NEW l \in Seq(Identifiers), NEW r \in Seq(Identifiers), NEW o \in Seq(Identifiers)
  PROVE  LET First(p, q) == Order!FirstDifference(p, q, Order!CompareIdentifiers)
         IN /\ First(l, r) \in Sides /\ First(r, l) = -First(l, r)
            /\ Chain(First(l, r), First(r, o), First(l, o))
            /\ First(l, r) = 0 =>
                 Len(l) = Len(r) /\ \A i \in 1 .. Len(l) : Order!CompareIdentifiers(l[i], r[i]) = 0
<1> DEFINE d(p, q) == [i \in 1 .. Shorter(p, q) |-> Order!CompareIdentifiers(p[i], q[i])]
           L == Seq(Identifiers)
           First(p, q) == Order!FirstDifference(p, q, Order!CompareIdentifiers)
<1>3. \A p, q \in L : Len(p) \in Nat /\ Len(q) \in Nat
  OBVIOUS
<1>1. \A p, q \in L : First(p, q) = Outcome(Len(p), Len(q), d(p, q))
  <2> TAKE p, q \in L
  <2>1. Len(p) \in Nat /\ Len(q) \in Nat
    BY <1>3
  <2> QED BY <2>1, FirstIdentifiers, Zenon
<1>2. \A p, q \in L : Judged(Len(p), Len(q), d(p, q))
  <2> TAKE p, q \in L
  <2> SUFFICES ASSUME NEW i \in 1 .. Shorter(p, q)
               PROVE  Order!CompareIdentifiers(p[i], q[i]) \in Sides
    BY <1>3 DEF Judged, Shorter
  <2>1. p[i] \in Identifiers /\ q[i] \in Identifiers
    BY <1>3 DEF Shorter
  <2> HIDE DEF L
  <2> QED BY <2>1, IdentifiersOrdered
<1>4. \A i \in 1 .. Shorter(l, r) : d(r, l)[i] = -d(l, r)[i]
  BY IdentifiersOrdered DEF Shorter
<1>5. First(r, l) = -First(l, r)
  <2> DEFINE m == Len(l)
             n == Len(r)
             e == d(l, r)
             f == d(r, l)
  <2>1. /\ m \in Nat /\ n \in Nat /\ Judged(m, n, e)
        /\ First(l, r) = Outcome(m, n, e) /\ First(r, l) = Outcome(n, m, f)
    BY <1>1, <1>2, <1>3
  <2>2. \A i \in 1 .. (IF m < n THEN m ELSE n) : f[i] = -e[i]
    BY <1>4 DEF Shorter
  <2> HIDE DEF m, n, e, f, First
  <2>3. Outcome(n, m, f) = -Outcome(m, n, e)
    BY <2>1, <2>2, OutcomeTurns
  <2> QED BY <2>1, <2>3
<1>6. ASSUME NEW i \in Nat \ {0}, i <= Len(l), i <= Len(r), i <= Len(o)
      PROVE  Chain(d(l, r)[i], d(r, o)[i], d(l, o)[i])
  <2>1. i \in 1 .. Shorter(l, r) /\ i \in 1 .. Shorter(r, o) /\ i \in 1 .. Shorter(l, o)
    BY <1>3, <1>6 DEF Shorter
  <2>2. l[i] \in Identifiers /\ r[i] \in Identifiers /\ o[i] \in Identifiers
    BY <1>6
  <2> QED BY <2>1, <2>2, IdentifiersOrdered
<1>7. Chain(First(l, r), First(r, o), First(l, o))
  <2> DEFINE m == Len(l)
             n == Len(r)
             k == Len(o)
             a == d(l, r)
             b == d(r, o)
             c == d(l, o)
  <2>1. /\ m \in Nat /\ n \in Nat /\ k \in Nat
        /\ Judged(m, n, a) /\ Judged(n, k, b) /\ Judged(m, k, c)
    BY <1>2, <1>3
  <2>2. \A i \in Nat \ {0} : i <= m /\ i <= n /\ i <= k => Chain(a[i], b[i], c[i])
    BY <1>6
  <2>3. First(l, r) = Outcome(m, n, a) /\ First(r, o) = Outcome(n, k, b) /\ First(l, o) = Outcome(m, k, c)
    BY <1>1
  <2> HIDE DEF m, n, k, a, b, c, First
  <2>4. Chain(Outcome(m, n, a), Outcome(n, k, b), Outcome(m, k, c))
    BY <2>1, <2>2, OutcomeChain
  <2> QED BY <2>3, <2>4
<1>8. First(l, r) \in Sides
  BY <1>7 DEF Chain
<1>9. First(l, r) = 0 => Len(l) = Len(r) /\ \A i \in 1 .. Len(l) : Order!CompareIdentifiers(l[i], r[i]) = 0
  <2> SUFFICES ASSUME First(l, r) = 0
               PROVE  Len(l) = Len(r) /\ \A i \in 1 .. Len(l) : Order!CompareIdentifiers(l[i], r[i]) = 0
    OBVIOUS
  <2> DEFINE e == d(l, r)
             m == Len(l)
             n == Len(r)
  <2>1. Judged(m, n, e) /\ m \in Nat /\ n \in Nat /\ Outcome(m, n, e) = First(l, r)
    BY <1>1, <1>2, <1>3
  <2>2. 0 = Order!Sign(m - n) /\ \A i \in 1 .. (IF m < n THEN m ELSE n) : e[i] = 0
    <3> HIDE DEF e, m, n, First
    <3> QED BY <2>1, OutcomeTells
  <2>3. m = n
    BY <2>1, <2>2 DEF Order!Sign
  <2> QED BY <2>2, <2>3 DEF Shorter
<1> HIDE DEF First
<1> QED BY <1>5, <1>7, <1>8, <1>9, Zenon DEF First

LEMMA FirstZeros ==
  ASSUME NEW l, NEW r, Len(l) \in Nat, Len(r) \in Nat
  PROVE  Order!FirstDifference(l, r, Order!CompareZeros)
         = Outcome(Len(l), Len(r), [i \in 1 .. Shorter(l, r) |-> Order!CompareZeros(l[i], r[i])])
<1> DEFINE d == [i \in 1 .. Shorter(l, r) |-> Order!CompareZeros(l[i], r[i])]
           D == {i \in 1 .. Shorter(l, r) : Order!CompareZeros(l[i], r[i]) # 0}
<1>1. D = {i \in 1 .. Shorter(l, r) : d[i] # 0}
  OBVIOUS
<1>2. CASE D = {}
  BY <1>1, <1>2 DEF Order!FirstDifference, Outcome, Shorter
<1>3. CASE D # {}
  <2>1. D \subseteq Nat
    BY DEF Shorter
  <2> DEFINE i == CHOOSE i \in D : \A j \in D : i <= j
  <2>2. i \in D
    BY <1>3, <2>1, HasLeast
  <2>3. d[i] = Order!CompareZeros(l[i], r[i])
    BY <2>2
  <2>4. Order!FirstDifference(l, r, Order!CompareZeros) = Order!CompareZeros(l[i], r[i])
    BY <1>3 DEF Order!FirstDifference, Shorter
  <2>5. Outcome(Len(l), Len(r), d) = d[i]
    BY <1>1, <1>3, Zenon DEF Outcome, Shorter
  <2> QED BY <2>3, <2>4, <2>5
<1> QED BY <1>2, <1>3

LEMMA ListsOfZeros ==
  ASSUME Order!VersionAssumption,
         NEW l \in Seq(Order!Runs), NEW r \in Seq(Order!Runs), NEW o \in Seq(Order!Runs)
  PROVE  LET First(p, q) == Order!FirstDifference(p, q, Order!CompareZeros)
         IN /\ First(l, r) \in Sides /\ First(r, l) = -First(l, r)
            /\ Chain(First(l, r), First(r, o), First(l, o))
            /\ First(l, r) = 0 =>
                 Len(l) = Len(r) /\ \A i \in 1 .. Len(l) : Order!CompareZeros(l[i], r[i]) = 0
<1> DEFINE d(p, q) == [i \in 1 .. Shorter(p, q) |-> Order!CompareZeros(p[i], q[i])]
           L == Seq(Order!Runs)
           First(p, q) == Order!FirstDifference(p, q, Order!CompareZeros)
<1>3. \A p, q \in L : Len(p) \in Nat /\ Len(q) \in Nat
  OBVIOUS
<1>1. \A p, q \in L : First(p, q) = Outcome(Len(p), Len(q), d(p, q))
  <2> TAKE p, q \in L
  <2>1. Len(p) \in Nat /\ Len(q) \in Nat
    BY <1>3
  <2> QED BY <2>1, FirstZeros, Zenon
<1>2. \A p, q \in L : Judged(Len(p), Len(q), d(p, q))
  <2> TAKE p, q \in L
  <2> SUFFICES ASSUME NEW i \in 1 .. Shorter(p, q)
               PROVE  Order!CompareZeros(p[i], q[i]) \in Sides
    BY <1>3 DEF Judged, Shorter
  <2>1. p[i] \in Order!Runs /\ q[i] \in Order!Runs
    BY <1>3 DEF Shorter
  <2> HIDE DEF L
  <2> QED BY <2>1, ZerosOrdered
<1>4. \A i \in 1 .. Shorter(l, r) : d(r, l)[i] = -d(l, r)[i]
  BY ZerosOrdered DEF Shorter
<1>5. First(r, l) = -First(l, r)
  <2> DEFINE m == Len(l)
             n == Len(r)
             e == d(l, r)
             f == d(r, l)
  <2>1. /\ m \in Nat /\ n \in Nat /\ Judged(m, n, e)
        /\ First(l, r) = Outcome(m, n, e) /\ First(r, l) = Outcome(n, m, f)
    BY <1>1, <1>2, <1>3
  <2>2. \A i \in 1 .. (IF m < n THEN m ELSE n) : f[i] = -e[i]
    BY <1>4 DEF Shorter
  <2> HIDE DEF m, n, e, f, First
  <2>3. Outcome(n, m, f) = -Outcome(m, n, e)
    BY SMTT(30), <2>1, <2>2, OutcomeTurns
  <2> QED BY <2>1, <2>3
<1>6. ASSUME NEW i \in Nat \ {0}, i <= Len(l), i <= Len(r), i <= Len(o)
      PROVE  Chain(d(l, r)[i], d(r, o)[i], d(l, o)[i])
  <2>1. i \in 1 .. Shorter(l, r) /\ i \in 1 .. Shorter(r, o) /\ i \in 1 .. Shorter(l, o)
    BY <1>3, <1>6 DEF Shorter
  <2>2. l[i] \in Order!Runs /\ r[i] \in Order!Runs /\ o[i] \in Order!Runs
    BY <1>6
  <2> QED BY <2>1, <2>2, ZerosOrdered
<1>7. Chain(First(l, r), First(r, o), First(l, o))
  <2> DEFINE m == Len(l)
             n == Len(r)
             k == Len(o)
             a == d(l, r)
             b == d(r, o)
             c == d(l, o)
  <2>1. /\ m \in Nat /\ n \in Nat /\ k \in Nat
        /\ Judged(m, n, a) /\ Judged(n, k, b) /\ Judged(m, k, c)
    BY <1>2, <1>3
  <2>2. \A i \in Nat \ {0} : i <= m /\ i <= n /\ i <= k => Chain(a[i], b[i], c[i])
    BY <1>6
  <2>3. First(l, r) = Outcome(m, n, a) /\ First(r, o) = Outcome(n, k, b) /\ First(l, o) = Outcome(m, k, c)
    BY <1>1
  <2> HIDE DEF m, n, k, a, b, c, First
  <2>4. Chain(Outcome(m, n, a), Outcome(n, k, b), Outcome(m, k, c))
    BY <2>1, <2>2, OutcomeChain
  <2> QED BY <2>3, <2>4
<1>8. First(l, r) \in Sides
  BY <1>7 DEF Chain
<1>9. First(l, r) = 0 => Len(l) = Len(r) /\ \A i \in 1 .. Len(l) : Order!CompareZeros(l[i], r[i]) = 0
  <2> SUFFICES ASSUME First(l, r) = 0
               PROVE  Len(l) = Len(r) /\ \A i \in 1 .. Len(l) : Order!CompareZeros(l[i], r[i]) = 0
    OBVIOUS
  <2> DEFINE e == d(l, r)
             m == Len(l)
             n == Len(r)
  <2>1. Judged(m, n, e) /\ m \in Nat /\ n \in Nat /\ Outcome(m, n, e) = First(l, r)
    BY <1>1, <1>2, <1>3
  <2>2. 0 = Order!Sign(m - n) /\ \A i \in 1 .. (IF m < n THEN m ELSE n) : e[i] = 0
    <3> HIDE DEF e, m, n, First
    <3> QED BY <2>1, OutcomeTells
  <2>3. m = n
    BY <2>1, <2>2 DEF Order!Sign
  <2> QED BY <2>2, <2>3 DEF Shorter
<1> HIDE DEF First
<1> QED BY <1>5, <1>7, <1>8, <1>9, Zenon DEF First

LEMMA FirstNumbers ==
  ASSUME NEW l, NEW r, Len(l) \in Nat, Len(r) \in Nat
  PROVE  Order!FirstDifference(l, r, Order!CompareNumbers)
         = Outcome(Len(l), Len(r), [i \in 1 .. Shorter(l, r) |-> Order!CompareNumbers(l[i], r[i])])
<1> DEFINE d == [i \in 1 .. Shorter(l, r) |-> Order!CompareNumbers(l[i], r[i])]
           D == {i \in 1 .. Shorter(l, r) : Order!CompareNumbers(l[i], r[i]) # 0}
<1>1. D = {i \in 1 .. Shorter(l, r) : d[i] # 0}
  OBVIOUS
<1>2. CASE D = {}
  BY <1>1, <1>2 DEF Order!FirstDifference, Outcome, Shorter
<1>3. CASE D # {}
  <2>1. D \subseteq Nat
    BY DEF Shorter
  <2> DEFINE i == CHOOSE i \in D : \A j \in D : i <= j
  <2>2. i \in D
    BY <1>3, <2>1, HasLeast
  <2>3. d[i] = Order!CompareNumbers(l[i], r[i])
    BY <2>2
  <2>4. Order!FirstDifference(l, r, Order!CompareNumbers) = Order!CompareNumbers(l[i], r[i])
    BY <1>3 DEF Order!FirstDifference, Shorter
  <2>5. Outcome(Len(l), Len(r), d) = d[i]
    BY <1>1, <1>3, Zenon DEF Outcome, Shorter
  <2> QED BY <2>3, <2>4, <2>5
<1> QED BY <1>2, <1>3

LEMMA ListsOfNumbers ==
  ASSUME Order!VersionAssumption,
         NEW l \in Seq(Nat), NEW r \in Seq(Nat), NEW o \in Seq(Nat)
  PROVE  LET First(p, q) == Order!FirstDifference(p, q, Order!CompareNumbers)
         IN /\ First(l, r) \in Sides /\ First(r, l) = -First(l, r)
            /\ Chain(First(l, r), First(r, o), First(l, o))
            /\ First(l, r) = 0 =>
                 Len(l) = Len(r) /\ \A i \in 1 .. Len(l) : Order!CompareNumbers(l[i], r[i]) = 0
<1> DEFINE d(p, q) == [i \in 1 .. Shorter(p, q) |-> Order!CompareNumbers(p[i], q[i])]
           L == Seq(Nat)
           First(p, q) == Order!FirstDifference(p, q, Order!CompareNumbers)
<1>3. \A p, q \in L : Len(p) \in Nat /\ Len(q) \in Nat
  OBVIOUS
<1>1. \A p, q \in L : First(p, q) = Outcome(Len(p), Len(q), d(p, q))
  <2> TAKE p, q \in L
  <2>1. Len(p) \in Nat /\ Len(q) \in Nat
    BY <1>3
  <2> QED BY <2>1, FirstNumbers, Zenon
<1>2. \A p, q \in L : Judged(Len(p), Len(q), d(p, q))
  <2> TAKE p, q \in L
  <2> SUFFICES ASSUME NEW i \in 1 .. Shorter(p, q)
               PROVE  Order!CompareNumbers(p[i], q[i]) \in Sides
    BY <1>3 DEF Judged, Shorter
  <2>1. p[i] \in Nat /\ q[i] \in Nat
    BY SMTT(30), <1>3 DEF Shorter
  <2> HIDE DEF L
  <2> QED BY <2>1, NumbersOrdered
<1>4. \A i \in 1 .. Shorter(l, r) : d(r, l)[i] = -d(l, r)[i]
  BY NumbersOrdered DEF Shorter
<1>5. First(r, l) = -First(l, r)
  <2> DEFINE m == Len(l)
             n == Len(r)
             e == d(l, r)
             f == d(r, l)
  <2>1. /\ m \in Nat /\ n \in Nat /\ Judged(m, n, e)
        /\ First(l, r) = Outcome(m, n, e) /\ First(r, l) = Outcome(n, m, f)
    BY <1>1, <1>2, <1>3
  <2>2. \A i \in 1 .. (IF m < n THEN m ELSE n) : f[i] = -e[i]
    BY <1>4 DEF Shorter
  <2> HIDE DEF m, n, e, f, First
  <2>3. Outcome(n, m, f) = -Outcome(m, n, e)
    BY ZenonT(30), <2>1, <2>2, OutcomeTurns
  <2> QED BY <2>1, <2>3
<1>6. ASSUME NEW i \in Nat \ {0}, i <= Len(l), i <= Len(r), i <= Len(o)
      PROVE  Chain(d(l, r)[i], d(r, o)[i], d(l, o)[i])
  <2>1. i \in 1 .. Shorter(l, r) /\ i \in 1 .. Shorter(r, o) /\ i \in 1 .. Shorter(l, o)
    BY <1>3, <1>6 DEF Shorter
  <2>2. l[i] \in Nat /\ r[i] \in Nat /\ o[i] \in Nat
    BY SMTT(30), <1>6
  <2> QED BY <2>1, <2>2, NumbersOrdered
<1>7. Chain(First(l, r), First(r, o), First(l, o))
  <2> DEFINE m == Len(l)
             n == Len(r)
             k == Len(o)
             a == d(l, r)
             b == d(r, o)
             c == d(l, o)
  <2>1. /\ m \in Nat /\ n \in Nat /\ k \in Nat
        /\ Judged(m, n, a) /\ Judged(n, k, b) /\ Judged(m, k, c)
    BY <1>2, <1>3
  <2>2. \A i \in Nat \ {0} : i <= m /\ i <= n /\ i <= k => Chain(a[i], b[i], c[i])
    BY <1>6
  <2>3. First(l, r) = Outcome(m, n, a) /\ First(r, o) = Outcome(n, k, b) /\ First(l, o) = Outcome(m, k, c)
    BY <1>1
  <2> HIDE DEF m, n, k, a, b, c, First
  <2>4. Chain(Outcome(m, n, a), Outcome(n, k, b), Outcome(m, k, c))
    BY <2>1, <2>2, OutcomeChain
  <2> QED BY <2>3, <2>4
<1>8. First(l, r) \in Sides
  BY <1>7 DEF Chain
<1>9. First(l, r) = 0 => Len(l) = Len(r) /\ \A i \in 1 .. Len(l) : Order!CompareNumbers(l[i], r[i]) = 0
  <2> SUFFICES ASSUME First(l, r) = 0
               PROVE  Len(l) = Len(r) /\ \A i \in 1 .. Len(l) : Order!CompareNumbers(l[i], r[i]) = 0
    OBVIOUS
  <2> DEFINE e == d(l, r)
             m == Len(l)
             n == Len(r)
  <2>1. Judged(m, n, e) /\ m \in Nat /\ n \in Nat /\ Outcome(m, n, e) = First(l, r)
    BY <1>1, <1>2, <1>3
  <2>2. 0 = Order!Sign(m - n) /\ \A i \in 1 .. (IF m < n THEN m ELSE n) : e[i] = 0
    <3> HIDE DEF e, m, n, First
    <3> QED BY <2>1, OutcomeTells
  <2>3. m = n
    BY <2>1, <2>2 DEF Order!Sign
  <2> QED BY <2>2, <2>3 DEF Shorter
<1> HIDE DEF First
<1> QED BY <1>5, <1>7, <1>8, <1>9, Zenon DEF First

\* The lists of a bounded length are sequences.
LEMMA UpToIsSeq ==
  ASSUME NEW n \in Nat, NEW S
  PROVE  Order!UpTo(n, S) \subseteq Seq(S)
<1> SUFFICES ASSUME NEW k \in 0 .. n, NEW f \in [1 .. k -> S]
             PROVE  f \in Seq(S)
  BY Zenon DEF Order!UpTo
<1> QED OBVIOUS

\* Lists of the same length with the same members are the same list.
LEMMA SameMembers ==
  ASSUME NEW S, NEW l \in Seq(S), NEW r \in Seq(S), Len(l) = Len(r), \A i \in 1 .. Len(l) : l[i] = r[i]
  PROVE  l = r
OBVIOUS

\* A verdict, and the next one where it does not decide.
Then(x, y) == IF x # 0 THEN x ELSE y

LEMMA ThenChain ==
  ASSUME NEW x1, NEW y1, NEW z1, NEW x2, NEW y2, NEW z2, Chain(x1, y1, z1), Chain(x2, y2, z2)
  PROVE  Chain(Then(x1, x2), Then(y1, y2), Then(z1, z2))
BY DEF Chain, Then, Sides

\* Two runs that compare equal, in themselves and in their zeros, are the same.
LEMMA SameRun ==
  ASSUME NEW u \in Order!Runs, NEW v \in Order!Runs,
         u.digits = v.digits, u.value = v.value, u.zeros = v.zeros
  PROVE  u = v
<1>1. \A x \in Order!Runs : x = [digits |-> x.digits, value |-> x.value, zeros |-> x.zeros]
  <2> TAKE x \in Order!Runs
  <2>1. CASE x \in Order!Texts
    BY <2>1 DEF Order!Texts
  <2>2. CASE x \notin Order!Texts
    BY <2>2 DEF Order!Runs
  <2> QED BY <2>1, <2>2
<1>2. u = [digits |-> v.digits, value |-> v.value, zeros |-> v.zeros]
  BY <1>1
<1> QED BY <1>1, <1>2

LEMMA NaturalOrdered ==
  ASSUME Order!VersionAssumption,
         NEW l \in Seq(Order!Runs), NEW r \in Seq(Order!Runs), NEW o \in Seq(Order!Runs)
  PROVE  /\ Order!CompareNatural(r, l) = -Order!CompareNatural(l, r)
         /\ Chain(Order!CompareNatural(l, r), Order!CompareNatural(r, o), Order!CompareNatural(l, o))
         /\ Order!CompareNatural(l, r) = 0 => l = r
<1> DEFINE R(p, q) == Order!FirstDifference(p, q, Order!CompareRuns)
           Z(p, q) == Order!FirstDifference(p, q, Order!CompareZeros)
           N(p, q) == Order!CompareNatural(p, q)
<1>1. \A p, q : N(p, q) = Then(R(p, q), Z(p, q))
  BY DEF Order!CompareNatural, Then
<1>2. /\ R(l, r) \in Sides /\ R(r, l) = -R(l, r) /\ Chain(R(l, r), R(r, o), R(l, o))
      /\ R(l, r) = 0 => Len(l) = Len(r) /\ \A i \in 1 .. Len(l) : Order!CompareRuns(l[i], r[i]) = 0
  BY ListsOfRuns, Zenon
<1>3. /\ Z(l, r) \in Sides /\ Z(r, l) = -Z(l, r) /\ Chain(Z(l, r), Z(r, o), Z(l, o))
      /\ Z(l, r) = 0 => Len(l) = Len(r) /\ \A i \in 1 .. Len(l) : Order!CompareZeros(l[i], r[i]) = 0
  BY ListsOfZeros, Zenon
<1>4. ASSUME R(l, r) = 0, Z(l, r) = 0
      PROVE  l = r
  <2>1. ASSUME NEW i \in 1 .. Len(l)
        PROVE  l[i] = r[i]
    <3>1. l[i] \in Order!Runs /\ r[i] \in Order!Runs
      BY <1>2, <1>4
    <3>2. Order!CompareRuns(l[i], r[i]) = 0 /\ Order!CompareZeros(l[i], r[i]) = 0
      BY <1>2, <1>3, <1>4
    <3>3. l[i].digits = r[i].digits /\ l[i].value = r[i].value /\ l[i].zeros = r[i].zeros
      BY <3>1, <3>2, RunsOrdered, ZerosOrdered
    <3> QED BY <3>1, <3>3, SameRun
  <2> QED BY <1>2, <1>4, <2>1, SameMembers
<1> HIDE DEF R, Z, N
<1>5. Chain(N(l, r), N(r, o), N(l, o))
  BY <1>1, <1>2, <1>3, ThenChain
<1>6. N(r, l) = -N(l, r) /\ (N(l, r) = 0 => l = r)
  BY <1>1, <1>2, <1>3, <1>4 DEF Then, Sides
<1> QED BY <1>5, <1>6 DEF N

\* A prerelease: a release is after each of its own.
Prereleases == Order!UpTo(MaxParts, Identifiers)
ComparePrereleases(l, r) ==
  IF <<>> \in {l, r} THEN Order!Sign(Len(r) - Len(l))
  ELSE Order!FirstDifference(l, r, Order!CompareIdentifiers)

LEMMA PrereleasesOrdered ==
  ASSUME Order!VersionAssumption, NEW l \in Prereleases, NEW r \in Prereleases, NEW o \in Prereleases
  PROVE  /\ ComparePrereleases(r, l) = -ComparePrereleases(l, r)
         /\ Chain(ComparePrereleases(l, r), ComparePrereleases(r, o), ComparePrereleases(l, o))
         /\ ComparePrereleases(l, r) = 0 => l = r
<1> DEFINE F(p, q) == Order!FirstDifference(p, q, Order!CompareIdentifiers)
<1>1. l \in Seq(Identifiers) /\ r \in Seq(Identifiers) /\ o \in Seq(Identifiers)
  BY UpToIsSeq DEF Prereleases, Order!VersionAssumption
<1>2. /\ F(l, r) \in Sides /\ F(r, l) = -F(l, r) /\ Chain(F(l, r), F(r, o), F(l, o))
      /\ F(l, r) = 0 => Len(l) = Len(r) /\ \A i \in 1 .. Len(l) : Order!CompareIdentifiers(l[i], r[i]) = 0
  BY <1>1, ListsOfIdentifiers, Zenon
<1>3. F(l, r) = 0 => l = r
  <2> SUFFICES ASSUME F(l, r) = 0
               PROVE  l = r
    OBVIOUS
  <2>1. ASSUME NEW i \in 1 .. Len(l)
        PROVE  l[i] = r[i]
    <3>1. l[i] \in Identifiers /\ r[i] \in Identifiers
      BY <1>1, <1>2
    <3>2. Order!CompareIdentifiers(l[i], r[i]) = 0
      BY <1>2
    <3> QED BY <3>1, <3>2, IdentifiersOrdered
  <2> HIDE DEF F
  <2> QED BY <1>1, <1>2, <2>1, SameMembers
<1>4. /\ Len(l) \in Nat /\ (l = <<>> <=> Len(l) = 0)
      /\ Len(r) \in Nat /\ (r = <<>> <=> Len(r) = 0)
      /\ Len(o) \in Nat /\ (o = <<>> <=> Len(o) = 0)
  BY <1>1
<1>5. \A p, q : ComparePrereleases(p, q)
                = IF p = <<>> \/ q = <<>> THEN Order!Sign(Len(q) - Len(p)) ELSE F(p, q)
  BY DEF ComparePrereleases
<1> HIDE DEF F
<1> QED BY <1>2, <1>3, <1>4, <1>5 DEF Chain, Sides, Order!Sign

LEMMA ParsedFacts ==
  ASSUME Order!VersionAssumption, NEW v \in Order!Parsed
  PROVE  /\ v.parsed = TRUE /\ v.core \in Seq(Nat) /\ Len(v.core) = 3
         /\ v.parts \in Prereleases /\ v.build \in Nat
         /\ v = [parsed |-> v.parsed, core |-> v.core, parts |-> v.parts, build |-> v.build]
<1>1. /\ v.parsed = TRUE /\ v.core \in Nat \X Nat \X Nat /\ v.parts \in Prereleases /\ v.build \in Nat
      /\ v = [parsed |-> v.parsed, core |-> v.core, parts |-> v.parts, build |-> v.build]
  BY DEF Order!Parsed, Order!VersionAssumption, Prereleases, Identifiers
<1>2. PICK a \in Nat, b \in Nat, c \in Nat : v.core = <<a, b, c>>
  BY <1>1
<1>3. <<a, b, c>> \in Seq(Nat) /\ Len(<<a, b, c>>) = 3
  OBVIOUS
<1> QED BY <1>1, <1>2, <1>3

LEMMA UnparsedFacts ==
  ASSUME Order!VersionAssumption, NEW v \in Order!Unparsed
  PROVE  /\ v.parsed = FALSE /\ v.core = <<0, 0, 0>> /\ v.parts \in Seq(Order!Runs) /\ v.build = 0
         /\ v = [parsed |-> FALSE, core |-> <<0, 0, 0>>, parts |-> v.parts, build |-> 0]
<1>1. /\ v.parsed = FALSE /\ v.core = <<0, 0, 0>> /\ v.build = 0 /\ v.parts \in Order!UpTo(MaxParts, Order!Runs)
      /\ v = [parsed |-> FALSE, core |-> <<0, 0, 0>>, parts |-> v.parts, build |-> 0]
  BY DEF Order!Unparsed
<1> QED BY <1>1, UpToIsSeq DEF Order!VersionAssumption

\* What versions of the same rank share: all but the build metadata.
SameButBuild(l, r) == l.parsed = r.parsed /\ l.core = r.core /\ l.parts = r.parts

LEMMA ParsedOrdered ==
  ASSUME Order!VersionAssumption, NEW l \in Order!Parsed, NEW r \in Order!Parsed, NEW o \in Order!Parsed
  PROVE  /\ Order!CompareParsedSemanticVersions(r, l) = -Order!CompareParsedSemanticVersions(l, r)
         /\ Chain(Order!CompareParsedSemanticVersions(l, r), Order!CompareParsedSemanticVersions(r, o),
                  Order!CompareParsedSemanticVersions(l, o))
         /\ Order!CompareParsedSemanticVersions(l, r) = 0 => SameButBuild(l, r)
<1> DEFINE C(p, q) == Order!FirstDifference(p.core, q.core, Order!CompareNumbers)
           P(p, q) == ComparePrereleases(p.parts, q.parts)
           S(p, q) == Order!CompareParsedSemanticVersions(p, q)
<1>1. \A p, q : S(p, q) = Then(C(p, q), P(p, q))
  BY DEF Order!CompareParsedSemanticVersions, Then, ComparePrereleases
<1>2. /\ l.core \in Seq(Nat) /\ r.core \in Seq(Nat) /\ o.core \in Seq(Nat)
      /\ l.parts \in Prereleases /\ r.parts \in Prereleases /\ o.parts \in Prereleases
      /\ l.parsed = r.parsed
  BY ParsedFacts
<1>3. /\ C(l, r) \in Sides /\ C(r, l) = -C(l, r) /\ Chain(C(l, r), C(r, o), C(l, o))
      /\ C(l, r) = 0 => Len(l.core) = Len(r.core)
                        /\ \A i \in 1 .. Len(l.core) : Order!CompareNumbers(l.core[i], r.core[i]) = 0
  BY <1>2, ListsOfNumbers, Zenon
<1>4. C(l, r) = 0 => l.core = r.core
  <2> SUFFICES ASSUME C(l, r) = 0
               PROVE  l.core = r.core
    OBVIOUS
  <2>1. ASSUME NEW i \in 1 .. Len(l.core)
        PROVE  l.core[i] = r.core[i]
    <3>1. l.core[i] \in Nat /\ r.core[i] \in Nat
      BY <1>2, <1>3
    <3>2. Order!CompareNumbers(l.core[i], r.core[i]) = 0
      BY <1>3
    <3> QED BY <3>1, <3>2, NumbersOrdered
  <2> HIDE DEF C
  <2> QED BY <1>2, <1>3, <2>1, SameMembers
<1>5. /\ P(r, l) = -P(l, r) /\ Chain(P(l, r), P(r, o), P(l, o))
      /\ P(l, r) = 0 => l.parts = r.parts
  BY <1>2, PrereleasesOrdered
<1> HIDE DEF C, P, S
<1>6. Chain(S(l, r), S(r, o), S(l, o))
  BY <1>1, <1>3, <1>5, ThenChain
<1>7. S(r, l) = -S(l, r) /\ (S(l, r) = 0 => SameButBuild(l, r))
  BY <1>1, <1>2, <1>3, <1>4, <1>5 DEF Then, Sides, Chain, SameButBuild
<1> QED BY <1>6, <1>7 DEF S

\* The order of versions: it is total, and it forgets only the build metadata.
LEMMA VersionsOrdered ==
  ASSUME Order!VersionAssumption, NEW l \in Order!Versions, NEW r \in Order!Versions, NEW o \in Order!Versions
  PROVE  /\ Order!CompareSemanticVersions(r, l) = -Order!CompareSemanticVersions(l, r)
         /\ Chain(Order!CompareSemanticVersions(l, r), Order!CompareSemanticVersions(r, o),
                  Order!CompareSemanticVersions(l, o))
         /\ Order!CompareSemanticVersions(l, r) = 0 => SameButBuild(l, r)
<1> DEFINE S(p, q) == Order!CompareParsedSemanticVersions(p, q)
           N(p, q) == Order!CompareNatural(p.parts, q.parts)
           V(p, q) == Order!CompareSemanticVersions(p, q)
<1>1. \A v \in Order!Versions : \/ v \in Order!Parsed /\ v.parsed = TRUE
                                \/ v \in Order!Unparsed /\ v.parsed = FALSE /\ v.parts \in Seq(Order!Runs)
  BY ParsedFacts, UnparsedFacts DEF Order!Versions
<1>2. \A p, q : V(p, q) = IF p.parsed /\ q.parsed THEN S(p, q)
                          ELSE IF p.parsed # q.parsed THEN (IF p.parsed THEN -1 ELSE 1) ELSE N(p, q)
  BY DEF Order!CompareSemanticVersions
<1>3. ASSUME NEW p \in Order!Parsed, NEW q \in Order!Parsed, NEW s \in Order!Parsed
      PROVE  S(q, p) = -S(p, q) /\ Chain(S(p, q), S(q, s), S(p, s)) /\ (S(p, q) = 0 => SameButBuild(p, q))
  BY ParsedOrdered
<1>4. ASSUME NEW p \in Order!Unparsed, NEW q \in Order!Unparsed, NEW s \in Order!Unparsed
      PROVE  N(q, p) = -N(p, q) /\ Chain(N(p, q), N(q, s), N(p, s)) /\ (N(p, q) = 0 => SameButBuild(p, q))
  <2>1. /\ p.parts \in Seq(Order!Runs) /\ q.parts \in Seq(Order!Runs) /\ s.parts \in Seq(Order!Runs)
        /\ p.parsed = q.parsed /\ p.core = q.core
    <3>1. \A v \in Order!Unparsed : v.parsed = FALSE /\ v.core = <<0, 0, 0>> /\ v.parts \in Seq(Order!Runs)
      BY UnparsedFacts
    <3> QED BY <3>1
  <2> QED BY <2>1, NaturalOrdered DEF SameButBuild
<1> HIDE DEF S, N, V
<1>5. V(r, l) = -V(l, r) /\ (V(l, r) = 0 => SameButBuild(l, r))
  <2>1. CASE l.parsed /\ r.parsed
    BY <1>1, <1>2, <1>3, <2>1
  <2>2. CASE ~l.parsed /\ ~r.parsed
    BY <1>1, <1>2, <1>4, <2>2
  <2>3. CASE l.parsed = TRUE /\ r.parsed = FALSE
    BY <1>2, <2>3
  <2>4. CASE l.parsed = FALSE /\ r.parsed = TRUE
    BY <1>2, <2>4
  <2> QED BY <1>1, <2>1, <2>2, <2>3, <2>4
<1>6. V(l, r) \in Sides /\ V(r, o) \in Sides /\ V(l, o) \in Sides
  <2> SUFFICES ASSUME NEW p \in Order!Versions, NEW q \in Order!Versions
               PROVE  V(p, q) \in Sides
    OBVIOUS
  <2>1. CASE p.parsed /\ q.parsed
    BY <1>1, <1>2, <1>3, <2>1 DEF Chain
  <2>2. CASE ~p.parsed /\ ~q.parsed
    BY <1>1, <1>2, <1>4, <2>2 DEF Chain
  <2>3. CASE p.parsed # q.parsed
    BY <1>1, <1>2, <2>3 DEF Sides
  <2> QED BY <1>1, <2>1, <2>2, <2>3
<1>7. Chain(V(l, r), V(r, o), V(l, o))
  <2>1. CASE l.parsed /\ r.parsed /\ o.parsed
    BY <1>1, <1>2, <1>3, <2>1
  <2>2. CASE ~l.parsed /\ ~r.parsed /\ ~o.parsed
    BY <1>1, <1>2, <1>4, <2>2
  <2>3. CASE ~(l.parsed /\ r.parsed /\ o.parsed) /\ ~(~l.parsed /\ ~r.parsed /\ ~o.parsed)
    BY <1>1, <1>2, <1>6, <2>3 DEF Chain, Sides
  <2> QED BY <2>1, <2>2, <2>3
<1> QED BY <1>5, <1>7 DEF V

\* The latest of versions is one of them, and none of them is after it.
LEMMA LaterTells ==
  ASSUME Order!VersionAssumption, NEW v \in Order!Versions, NEW w \in Order!Versions
  PROVE  /\ Order!Later(v, w) \in {v, w}
         /\ Order!CompareSemanticVersions(v, Order!Later(v, w)) <= 0
         /\ Order!CompareSemanticVersions(w, Order!Later(v, w)) <= 0
<1> DEFINE V(p, q) == Order!CompareSemanticVersions(p, q)
<1>1. \A p, q \in Order!Versions : V(p, q) \in Sides /\ V(q, p) = -V(p, q)
  BY VersionsOrdered DEF Chain
<1>2. V(v, v) = 0 /\ V(w, w) = 0
  BY <1>1 DEF Sides
<1>3. \/ Order!Later(v, w) = v /\ V(v, w) >= 0
      \/ Order!Later(v, w) = w /\ V(v, w) <= 0
  <2>1. V(v, w) \in Sides
    BY <1>1
  <2>2. Order!Later(v, w) = IF V(v, w) > 0 \/ (V(v, w) = 0 /\ v.build >= w.build) THEN v ELSE w
    BY DEF Order!Later
  <2> HIDE DEF V
  <2>3. CASE V(v, w) > 0 \/ (V(v, w) = 0 /\ v.build >= w.build)
    <3>1. Order!Later(v, w) = v
      BY <2>2, <2>3, Zenon
    <3>2. V(v, w) >= 0
      BY <2>1, <2>3 DEF Sides
    <3> QED BY <3>1, <3>2
  <2>4. CASE ~(V(v, w) > 0 \/ (V(v, w) = 0 /\ v.build >= w.build))
    BY <2>1, <2>2, <2>4 DEF Sides
  <2> QED BY <2>3, <2>4
<1> HIDE DEF V
<1>4. V(v, Order!Later(v, w)) <= 0 /\ V(w, Order!Later(v, w)) <= 0
  BY <1>1, <1>2, <1>3 DEF Sides
<1> QED BY <1>3, <1>4 DEF V

LEMMA LatestTells ==
  ASSUME Order!VersionAssumption, NEW v \in Order!Versions, NEW w \in Order!Versions, NEW x \in Order!Versions
  PROVE  /\ Order!LatestPublished(v, w, x) \in {v, w, x}
         /\ \A u \in {v, w, x} : Order!CompareSemanticVersions(u, Order!LatestPublished(v, w, x)) <= 0
<1> DEFINE V(p, q) == Order!CompareSemanticVersions(p, q)
           a == Order!Later(v, w)
           b == Order!Later(a, x)
<1>1. Order!LatestPublished(v, w, x) = b
  BY DEF Order!LatestPublished
<1>2. a \in {v, w} /\ V(v, a) <= 0 /\ V(w, a) <= 0
  BY LaterTells
<1>3. a \in Order!Versions
  BY <1>2
<1> HIDE DEF a
<1>4. b \in {a, x} /\ V(a, b) <= 0 /\ V(x, b) <= 0
  BY <1>3, LaterTells
<1>5. b \in Order!Versions
  BY <1>3, <1>4
<1> HIDE DEF b, V
<1>6. ASSUME NEW u \in Order!Versions, V(u, a) <= 0
      PROVE  V(u, b) <= 0
  <2>1. Chain(V(u, a), V(a, b), V(u, b))
    BY <1>3, <1>5, VersionsOrdered DEF V
  <2> QED BY <1>4, <1>6, <2>1 DEF Chain
<1> QED BY <1>1, <1>2, <1>4, <1>6 DEF V

\* What the run of the three versions keeps.
VersionInv ==
  /\ left \in Order!Versions /\ right \in Order!Versions /\ other \in Order!Versions
  /\ \/ compared = FALSE /\ verdict = Order!NotCompared /\ latest = left
     \/ compared = TRUE /\ verdict = Order!Compare(left, right, other)
        /\ latest = Order!LatestPublished(left, right, other)

LEMMA VersionInvariant == Order!Spec => []VersionInv
<1>1. Order!Init => VersionInv
  BY DEF Order!Init, VersionInv
<1>2. VersionInv /\ [Order!Next]_Order!orderVars => VersionInv'
  BY DEF VersionInv, Order!Next, Order!CompareThree, Order!orderVars
<1> QED BY <1>1, <1>2, PTL DEF Order!Spec

LEMMA VersionInvTells ==
  ASSUME Order!VersionAssumption, VersionInv
  PROVE  /\ Order!TypeOK /\ Order!Antisymmetric /\ Order!Transitive
         /\ Order!SameRankSameVersion
<1> DEFINE V(p, q) == Order!CompareSemanticVersions(p, q)
<1>1. /\ V(right, left) = -V(left, right) /\ Chain(V(left, right), V(right, other), V(left, other))
      /\ V(left, right) = 0 => SameButBuild(left, right)
      /\ V(right, left) \in Sides
  <2> USE DEF VersionInv
  <2>1. /\ V(right, left) = -V(left, right) /\ Chain(V(left, right), V(right, other), V(left, other))
        /\ V(left, right) = 0 => SameButBuild(left, right)
    BY VersionsOrdered
  <2> QED BY <2>1 DEF Chain, Sides
<1>2. \/ compared = FALSE /\ verdict = [lr |-> 0, rl |-> 0, ro |-> 0, lo |-> 0]
      \/ compared = TRUE
         /\ verdict = [lr |-> V(left, right), rl |-> V(right, left),
                        ro |-> V(right, other), lo |-> V(left, other)]
  BY DEF VersionInv, Order!NotCompared, Order!Compare
<1>3. compared \in BOOLEAN /\ left \in Order!Versions /\ right \in Order!Versions /\ latest \in {left, right, other}
      /\ other \in Order!Versions
  BY LatestTells DEF VersionInv
<1> HIDE DEF V
<1>4. verdict \in Order!Verdicts
  BY <1>1, <1>2 DEF Order!Verdicts, Chain, Sides
<1>5. Order!TypeOK
  BY <1>3, <1>4 DEF Order!TypeOK
<1>6. Order!Antisymmetric /\ Order!Transitive
  BY <1>1, <1>2 DEF Order!Antisymmetric, Order!Transitive, Chain, Sides
<1>7. ASSUME SameButBuild(left, right)
      PROVE  [left EXCEPT !.build = right.build] = right
  <2>1. \A v \in Order!Versions : v = [parsed |-> v.parsed, core |-> v.core, parts |-> v.parts, build |-> v.build]
    <3>1. ASSUME NEW v \in Order!Unparsed
          PROVE  v = [parsed |-> v.parsed, core |-> v.core, parts |-> v.parts, build |-> v.build]
      <4>1. /\ v.parsed = FALSE /\ v.core = <<0, 0, 0>> /\ v.build = 0
            /\ v = [parsed |-> FALSE, core |-> <<0, 0, 0>>, parts |-> v.parts, build |-> 0]
        BY UnparsedFacts
      <4> QED BY <4>1, Zenon
    <3> QED BY <3>1, ParsedFacts DEF Order!Versions
  <2>2. left = [parsed |-> left.parsed, core |-> left.core, parts |-> left.parts, build |-> left.build]
        /\ right = [parsed |-> left.parsed, core |-> left.core, parts |-> left.parts, build |-> right.build]
    BY <1>3, <1>7, <2>1 DEF SameButBuild
  <2> QED BY <2>2
<1>8. Order!SameRankSameVersion
  BY <1>1, <1>2, <1>7 DEF Order!SameRankSameVersion
<1> QED BY <1>5, <1>6, <1>8

LEMMA VersionInvReleases ==
  ASSUME Order!VersionAssumption, VersionInv
  PROVE  Order!ReleaseFollowsPrereleases
<1> DEFINE C(p, q) == Order!FirstDifference(p.core, q.core, Order!CompareNumbers)
<1> SUFFICES ASSUME compared, left.parsed, right.parsed, left.core = right.core, left.parts # <<>>, right.parts = <<>>
             PROVE  verdict.lr < 0
  BY DEF Order!ReleaseFollowsPrereleases
<1>1. verdict.lr = Order!CompareSemanticVersions(left, right)
  BY DEF VersionInv, Order!Compare
<1>2. left \in Order!Parsed /\ right \in Order!Parsed
  BY UnparsedFacts DEF VersionInv, Order!Versions
<1>3. left.core \in Seq(Nat) /\ right.core \in Seq(Nat) /\ left.parts \in Seq(Identifiers)
  BY <1>2, ParsedFacts, UpToIsSeq DEF Prereleases, Order!VersionAssumption
<1>4. C(left, right) \in Sides /\ C(right, left) = -C(left, right)
  BY <1>3, ListsOfNumbers, Zenon
<1>5. C(right, left) = C(left, right)
  OBVIOUS
<1>6. C(left, right) = 0
  <2> HIDE DEF C
  <2> QED BY <1>4, <1>5 DEF Sides
<1>7. Order!CompareSemanticVersions(left, right) = Order!Sign(Len(right.parts) - Len(left.parts))
  BY <1>6 DEF Order!CompareSemanticVersions, Order!CompareParsedSemanticVersions
<1>8. Len(right.parts) = 0 /\ Len(left.parts) \in Nat /\ Len(left.parts) # 0
  BY <1>3
<1> QED BY <1>1, <1>7, <1>8 DEF Order!Sign

\* Of two cores the one that is after the other is higher in the first number that differs.
LEMMA CoreOutranks ==
  ASSUME Order!VersionAssumption, NEW c \in Seq(Nat), NEW e \in Seq(Nat), Len(c) = 3, Len(e) = 3, c # e
  PROVE  LET x == Order!FirstDifference(c, e, Order!CompareNumbers)
         IN /\ x \in {-1, 1}
            /\ x = -1 => \E i \in 1 .. 3 : e[i] > c[i] /\ \A j \in 1 .. i - 1 : e[j] = c[j]
<1> DEFINE x == Order!FirstDifference(c, e, Order!CompareNumbers)
           d == [i \in 1 .. Shorter(c, e) |-> Order!CompareNumbers(c[i], e[i])]
<1>1. ASSUME NEW i \in 1 .. 3
      PROVE  c[i] \in Nat /\ e[i] \in Nat
  <2>1. i \in 1 .. Len(c) /\ i \in 1 .. Len(e)
    OBVIOUS
  <2>2. \A s \in Seq(Nat) : \A k \in 1 .. Len(s) : s[k] \in Nat
    OBVIOUS
  <2> QED BY <2>1, <2>2
<1>2. x \in Sides
  BY ListsOfNumbers, Zenon
<1>3. x # 0
  <2> SUFFICES ASSUME x = 0
               PROVE  c = e
    OBVIOUS
  <2>1. \A i \in 1 .. Len(c) : Order!CompareNumbers(c[i], e[i]) = 0
    BY ListsOfNumbers, Zenon
  <2>2. ASSUME NEW i \in 1 .. Len(c)
        PROVE  c[i] = e[i]
    BY SMTT(30), <1>1, <2>1, NumbersOrdered
  <2> QED BY <2>2, SameMembers
<1>4. x = Outcome(3, 3, d)
  <2>1. Len(c) \in Nat /\ Len(e) \in Nat
    OBVIOUS
  <2>2. x = Outcome(Len(c), Len(e), d)
    BY <2>1, FirstNumbers, Zenon
  <2> HIDE DEF x, d
  <2> QED BY <2>2
<1>5. ASSUME NEW i \in 1 .. 3
      PROVE  d[i] = Order!Sign(c[i] - e[i])
  <2>1. i \in 1 .. Shorter(c, e)
    BY DEF Shorter
  <2> QED BY <2>1, Zenon DEF Order!CompareNumbers
<1> HIDE DEF x, d
<1>6. Judged(3, 3, d)
  BY <1>1, <1>5 DEF Judged, Sides, Order!Sign
<1>7. ASSUME x = -1
      PROVE  \E i \in 1 .. 3 : e[i] > c[i] /\ \A j \in 1 .. i - 1 : e[j] = c[j]
  <2>1. PICK i \in 1 .. 3 : d[i] = -1 /\ \A j \in 1 .. i - 1 : d[j] = 0
    <3>1. \/ x = Order!Sign(3 - 3)
          \/ \E i \in 1 .. 3 : d[i] = x /\ \A j \in 1 .. i - 1 : d[j] = 0
      BY <1>4, <1>6, OutcomeTells
    <3> QED BY <1>7, <3>1 DEF Order!Sign
  <2>2. e[i] > c[i]
    <3>1. c[i] \in Nat /\ e[i] \in Nat
      BY <1>1
    <3>2. Order!Sign(c[i] - e[i]) = -1
      BY <1>5, <2>1
    <3> QED BY <3>1, <3>2 DEF Order!Sign
  <2>3. ASSUME NEW j \in 1 .. i - 1
        PROVE  e[j] = c[j]
    <3>1. j \in 1 .. 3 /\ d[j] = 0
      BY <2>1
    <3>2. c[j] \in Nat /\ e[j] \in Nat
      BY <1>1, <3>1
    <3>3. Order!Sign(c[j] - e[j]) = 0
      BY <1>5, <3>1
    <3> QED BY SMTT(30), <3>2, <3>3 DEF Order!Sign
  <2> QED BY <2>2, <2>3
<1> QED BY <1>2, <1>3, <1>7 DEF Sides, x

LEMMA VersionInvLatest ==
  ASSUME Order!VersionAssumption, VersionInv
  PROVE  Order!LatestIsLatest
<1> SUFFICES ASSUME compared, NEW v \in {left, right, other}, v.parsed, latest.parsed, v.core # latest.core
             PROVE  \E i \in 1 .. 3 : /\ latest.core[i] > v.core[i]
                                      /\ \A j \in 1 .. i - 1 : latest.core[j] = v.core[j]
  BY DEF Order!LatestIsLatest
<1> DEFINE x == Order!FirstDifference(v.core, latest.core, Order!CompareNumbers)
<1>1. v \in Order!Versions /\ latest \in Order!Versions /\ Order!CompareSemanticVersions(v, latest) <= 0
  BY LatestTells DEF VersionInv
<1>2. v \in Order!Parsed /\ latest \in Order!Parsed
  BY <1>1, UnparsedFacts DEF Order!Versions
<1>3. /\ v.core \in Seq(Nat) /\ latest.core \in Seq(Nat) /\ Len(v.core) = 3 /\ Len(latest.core) = 3
  BY <1>2, ParsedFacts
<1>4. x \in {-1, 1}
  BY <1>3, CoreOutranks, Zenon
<1>5. x = -1
  <2>1. Order!CompareParsedSemanticVersions(v, latest) <= 0
    BY <1>1 DEF Order!CompareSemanticVersions
  <2>2. x # 0
    <3> HIDE DEF x
    <3> QED BY <1>4
  <2>3. Order!CompareParsedSemanticVersions(v, latest) = x
    BY <2>2 DEF Order!CompareParsedSemanticVersions
  <2> HIDE DEF x
  <2> QED BY <1>4, <2>1, <2>3
<1> QED BY <1>3, <1>5, CoreOutranks, Zenon

(* What is compared are versions, and the verdicts are those of a          *)
(* comparison, for any cores, values, places and numbers of parts.          *)
THEOREM VersionTypeCorrect ==
  ASSUME Order!VersionAssumption
  PROVE  Order!Spec => []Order!TypeOK
BY VersionInvariant, VersionInvTells, PTL

(* compareSemanticVersions puts any versions in one order: two the other   *)
(* way round compare the other way round, and what is not after something   *)
(* that is not after a third is not after the third, whether the texts are  *)
(* versions or not and whatever they are made of.                           *)
THEOREM OrderIsTotal ==
  ASSUME Order!VersionAssumption
  PROVE  Order!Spec => [](Order!Antisymmetric /\ Order!Transitive)
BY VersionInvariant, VersionInvTells, PTL

(* Two versions of the same rank are the same but for their build          *)
(* metadata.                                                                *)
THEOREM SameRankIsSame ==
  ASSUME Order!VersionAssumption
  PROVE  Order!Spec => []Order!SameRankSameVersion
BY VersionInvariant, VersionInvTells, PTL

(* A release follows each of its prereleases.                              *)
THEOREM ReleasesFollow ==
  ASSUME Order!VersionAssumption
  PROVE  Order!Spec => []Order!ReleaseFollowsPrereleases
BY VersionInvariant, VersionInvReleases, PTL

(* The latest of three published versions is of the highest core of        *)
(* theirs, in whatever order they are compared.                             *)
THEOREM LatestOutranks ==
  ASSUME Order!VersionAssumption
  PROVE  Order!Spec => []Order!LatestIsLatest
BY VersionInvariant, VersionInvLatest, PTL

===============================================================================
