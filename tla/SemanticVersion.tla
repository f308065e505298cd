--------------------------- MODULE SemanticVersion ---------------------------
(***************************************************************************)
(* The order of the versions of a package, and the latest of several.      *)
(*                                                                         *)
(* A text is split into runs of digits and runs of other characters: a run *)
(* of digits is its value and its leading zeros, another run its place in   *)
(* the order of such runs; the runs at place 0 sort before the digits.      *)
(***************************************************************************)
EXTENDS Integers, Sequences, FiniteSets

CONSTANTS
  Cores,      \* major, minor, patch
  Values,     \* values of runs of digits
  Places,     \* places of runs of other characters
  Zeros,      \* numbers of leading zeros
  Builds,     \* build metadata by the order of its texts, 0 where there is none
  MaxParts    \* bound: identifiers of a prerelease, runs of a text

VersionAssumption ==
  /\ Cores \subseteq Nat \X Nat \X Nat /\ Values \subseteq Nat \ {0} /\ Places \subseteq Nat /\ Zeros \subseteq Nat
  /\ Builds \subseteq Nat /\ 0 \in Builds /\ MaxParts \in Nat

VARIABLES
  left, right, other,   \* three versions
  compared,             \* were they compared yet
  verdict,              \* what comparing them two at a time says
  latest                \* the latest of them

orderVars == <<left, right, other, compared, verdict, latest>>

\* Runs of digits in a prerelease have no leading zeros, or it is none.
Digits == [digits : {TRUE}, value : Values, zeros : {0}]
Texts == [digits : {FALSE}, value : Places, zeros : {0}]
Runs == [digits : {TRUE}, value : Values, zeros : Zeros] \cup Texts

UpTo(n, S) == UNION {[1 .. k -> S] : k \in 0 .. n}

Parsed == [parsed : {TRUE}, core : Cores, parts : UpTo(MaxParts, Digits \cup Texts), build : Builds]
Alternating(parts) == \A i \in 1 .. Len(parts) - 1 : parts[i].digits # parts[i + 1].digits
Unparsed == [parsed : {FALSE}, core : {<<0, 0, 0>>}, parts : {p \in UpTo(MaxParts, Runs) : p # <<>> /\ Alternating(p)}, build : {0}]
Versions == Parsed \cup Unparsed

-----------------------------------------------------------------------------

Sign(n) == IF n < 0 THEN -1 ELSE IF n > 0 THEN 1 ELSE 0

\* Two runs of other characters, or one of them.
CompareText(l, r) == IF l.digits = r.digits THEN Sign(l.value - r.value)
                     ELSE IF l.digits THEN (IF r.value = 0 THEN 1 ELSE -1)
                     ELSE IF l.value = 0 THEN -1 ELSE 1

CompareNumericText(l, r) == Sign(l.value - r.value)

CompareRuns(l, r) == IF l.digits /\ r.digits THEN CompareNumericText(l, r) ELSE CompareText(l, r)

\* Numbers before texts.
CompareIdentifiers(l, r) ==
  IF l.digits # r.digits THEN (IF l.digits THEN -1 ELSE 1) ELSE CompareRuns(l, r)

\* What the first difference says; without one the shorter list is the smaller.
FirstDifference(l, r, Compare(_, _)) ==
  LET shared == 1 .. (IF Len(l) < Len(r) THEN Len(l) ELSE Len(r))
      differing == {i \in shared : Compare(l[i], r[i]) # 0}
  IN IF differing = {} THEN Sign(Len(l) - Len(r))
     ELSE LET i == CHOOSE i \in differing : \A j \in differing : i <= j IN Compare(l[i], r[i])

\* Texts that are equal run by run differ in their zeros: the longer run begins with one.
CompareZeros(l, r) == Sign(r.zeros - l.zeros)

CompareNatural(l, r) ==
  LET difference == FirstDifference(l, r, CompareRuns)
  IN IF difference # 0 THEN difference ELSE FirstDifference(l, r, CompareZeros)

CompareNumbers(m, n) == Sign(m - n)

CompareParsedSemanticVersions(l, r) ==
  LET core == FirstDifference(l.core, r.core, CompareNumbers) IN
  IF core # 0 THEN core
  ELSE IF <<>> \in {l.parts, r.parts} THEN Sign(Len(r.parts) - Len(l.parts))
  ELSE FirstDifference(l.parts, r.parts, CompareIdentifiers)

CompareSemanticVersions(l, r) ==
  IF l.parsed /\ r.parsed THEN CompareParsedSemanticVersions(l, r)
  ELSE IF l.parsed # r.parsed THEN (IF l.parsed THEN -1 ELSE 1)
  ELSE CompareNatural(l.parts, r.parts)

\* The last one of those sorted; what compares equal is ordered by its text.
Later(v, w) ==
  LET order == CompareSemanticVersions(v, w) IN
  IF order > 0 \/ (order = 0 /\ v.build >= w.build) THEN v ELSE w

LatestPublished(v, w, x) == Later(Later(v, w), x)

-----------------------------------------------------------------------------

Verdicts == [lr : -1 .. 1, rl : -1 .. 1, ro : -1 .. 1, lo : -1 .. 1]
Compare(l, r, o) ==
  [lr |-> CompareSemanticVersions(l, r), rl |-> CompareSemanticVersions(r, l),
   ro |-> CompareSemanticVersions(r, o), lo |-> CompareSemanticVersions(l, o)]

NotCompared == [lr |-> 0, rl |-> 0, ro |-> 0, lo |-> 0]

\* Any three versions.
Init ==
  /\ left \in Versions /\ right \in Versions /\ other \in Versions
  /\ compared = FALSE /\ verdict = NotCompared /\ latest = left

CompareThree ==
  /\ ~compared /\ compared' = TRUE
  /\ verdict' = Compare(left, right, other)
  /\ latest' = LatestPublished(left, right, other)
  /\ UNCHANGED <<left, right, other>>

Next == CompareThree

Spec == Init /\ [][Next]_orderVars

-----------------------------------------------------------------------------
(* Properties. *)

TypeOK == {left, right, other, latest} \subseteq Versions /\ compared \in BOOLEAN /\ verdict \in Verdicts

(* The order of two versions is that of the same two the other way round.  *)
Antisymmetric == verdict.lr = -verdict.rl

(* What is sorted by comparing two at a time is sorted: versions, texts    *)
(* that are none, and both of them mixed.                                   *)
Transitive == verdict.lr <= 0 /\ verdict.ro <= 0 => verdict.lo <= 0

(* Two versions are of the same rank only if they are the same but for     *)
(* their build metadata.                                                    *)
SameRankSameVersion == compared /\ verdict.lr = 0 => [left EXCEPT !.build = right.build] = right

(* A release follows its prereleases: no one who runs it is told to        *)
(* upgrade to one of them.                                                  *)
ReleaseFollowsPrereleases ==
  compared /\ left.parsed /\ right.parsed /\ left.core = right.core /\ left.parts # <<>> /\ right.parts = <<>> =>
    verdict.lr < 0

(* The latest of the published versions is not older than any of them: a   *)
(* prerelease of a core that comes later outranks every release of one that *)
(* comes before.                                                            *)
LatestIsLatest ==
  compared =>
  \A v \in {left, right, other} : v.parsed /\ latest.parsed /\ v.core # latest.core =>
    \E i \in 1 .. 3 : latest.core[i] > v.core[i] /\ \A j \in 1 .. i - 1 : latest.core[j] = v.core[j]

=============================================================================
