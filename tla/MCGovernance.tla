---------------------------- MODULE MCGovernance ----------------------------
(***************************************************************************)
(* The small instances on which TLC checks Governance.                     *)
(***************************************************************************)
EXTENDS Governance, TLC

CONSTANTS v1, v2,                \* versions
          ann, mia, rex, pat,    \* uids
          q1, q2, q3,            \* requests
          r1, r2,                \* validation runs
          n1, n2, b1, b2         \* release notes, bundles

\* ann writes every version and maintains the package; mia maintains it too
\* and reviews; rex only reviews; pat is a platform admin.
MCAuthor == [v \in Version |-> ann]

\* Rows and requests have no identity beyond their name.
MCSymmetry == Permutations(RunId) \cup Permutations(Request)
=============================================================================
