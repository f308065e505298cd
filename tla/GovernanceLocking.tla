------------------------- MODULE GovernanceLocking -------------------------
(***************************************************************************)
(* The governance transactions of one version, statement by statement,     *)
(* with the rows they lock: the version, its newest validation run and its *)
(* newest review.  Governance takes a transaction for one step; here two    *)
(* wait for one another, and Postgres ends one of them.                     *)
(*                                                                         *)
(* A statement sees committed values.  One that selects FOR UPDATE waits    *)
(* for the row and looks then; one that updates WHERE looks, waits for the  *)
(* row if it matched, and looks again.                                      *)
(***************************************************************************)
EXTENDS Naturals, Sequences

CONSTANTS
  Workers,      \* the connections transactions run on
  MaxStarted    \* bound: transactions in all

LockingAssumption == MaxStarted \in Nat

VARIABLES
  row,       \* the committed value of each row
  tx,        \* the transaction of each worker
  started    \* how many transactions were begun

lockingVars == <<row, tx, started>>

Rows == {"version", "run", "review"}
Values == {"none", "draft", "validating", "review_required", "published", "emergency_disabled",
           "running", "passed", "failed", "pending", "approved", "rejected", "superseded"}

\* how: "lock" selects FOR UPDATE and goes on with what it finds; "match" and "try" update
\* WHERE, "try" may match no row.
Step(how, r, from, to) == [how |-> how, row |-> r, from |-> from, to |-> to]

Open == {"none", "passed", "failed", "approved", "rejected", "superseded"}

BeginValidation ==
  <<Step("match", "version", {"draft"}, "validating"), Step("match", "run", Open, "running")>>

ClaimValidationRetry ==
  <<Step("lock", "run", {"running"}, "running"), Step("match", "run", {"running"}, "running")>>

CompletePassed ==
  <<Step("lock", "run", {"running"}, "running"), Step("match", "version", {"validating"}, "review_required"),
    Step("match", "run", {"running"}, "passed"), Step("match", "review", Open, "pending")>>

CompleteFailed ==
  <<Step("lock", "run", {"running"}, "running"), Step("match", "version", {"validating"}, "draft"),
    Step("match", "run", {"running"}, "failed")>>

Approve ==
  <<Step("lock", "review", {"pending"}, "pending"), Step("match", "version", {"review_required"}, "published"),
    Step("match", "review", {"pending"}, "approved")>>

Reject ==
  <<Step("lock", "review", {"pending"}, "pending"), Step("match", "version", {"review_required"}, "draft"),
    Step("match", "review", {"pending"}, "rejected")>>

\* Seeded fault: the open review is left as it is.
ReviseQuiet == <<Step("lock", "version", {"review_required", "published"}, "draft")>>

\* updateVersionContent takes the same rows in the same order when it leaves review.
Revise ==
  <<Step("lock", "version", {"review_required", "published"}, "draft"),
    Step("try", "review", {"pending"}, "superseded")>>

EmergencyDisable == <<Step("lock", "version", {"published"}, "emergency_disabled")>>

Plans == [begin |-> BeginValidation, claim |-> ClaimValidationRetry, passed |-> CompletePassed,
          failed |-> CompleteFailed, approve |-> Approve, reject |-> Reject,
          revise |-> Revise, emergency |-> EmergencyDisable]
Kinds == DOMAIN Plans

\* holds: the rows locked; wrote: the values not yet committed.
Idle == [kind |-> "none", at |-> 1, holds |-> {}, wrote |-> [r \in Rows |-> "none"]]

Init ==
  /\ row = [r \in Rows |-> IF r = "version" THEN "draft" ELSE "none"]
  /\ tx = [w \in Workers |-> Idle]
  /\ started = 0

-----------------------------------------------------------------------------

Busy(w) == tx[w].kind # "none"
Done(w) == Busy(w) /\ tx[w].at > Len(Plans[tx[w].kind])
Now(w) == Plans[tx[w].kind][tx[w].at]

\* What a worker sees of a row: what it wrote itself, or what is committed.
Sees(w, r) == IF tx[w].wrote[r] # "none" THEN tx[w].wrote[r] ELSE row[r]

Matches(w) == Sees(w, Now(w).row) \in Now(w).from

Held(w, r) == \E o \in Workers \ {w} : r \in tx[o].holds

\* A statement waits for the row it locks, or that it would change.
Waits(w) ==
  /\ Busy(w) /\ ~Done(w)
  /\ Held(w, Now(w).row) /\ (Now(w).how = "lock" \/ Matches(w))

WaitsFor(w, o) == Waits(w) /\ Now(w).row \in tx[o].holds

Begin(w, k) ==
  /\ ~Busy(w) /\ started < MaxStarted
  /\ tx' = [tx EXCEPT ![w] = [Idle EXCEPT !.kind = k]]
  /\ started' = started + 1
  /\ UNCHANGED row

Execute(w) ==
  /\ Busy(w) /\ ~Done(w) /\ ~Waits(w) /\ Matches(w)
  /\ tx' = [tx EXCEPT ![w].at = @ + 1, ![w].holds = @ \union {Now(w).row},
                      ![w].wrote[Now(w).row] = Now(w).to]
  /\ UNCHANGED <<row, started>>

\* The update of the reviews may find none.
Pass(w) ==
  /\ Busy(w) /\ ~Done(w) /\ ~Waits(w) /\ ~Matches(w) /\ Now(w).how = "try"
  /\ tx' = [tx EXCEPT ![w].at = @ + 1]
  /\ UNCHANGED <<row, started>>

\* No row was returned: the transaction throws.
Throw(w) ==
  /\ Busy(w) /\ ~Done(w) /\ ~Waits(w) /\ ~Matches(w) /\ Now(w).how # "try"
  /\ tx' = [tx EXCEPT ![w] = Idle]
  /\ UNCHANGED <<row, started>>

Commit(w) ==
  /\ Done(w)
  /\ row' = [r \in Rows |-> Sees(w, r)]
  /\ tx' = [tx EXCEPT ![w] = Idle]
  /\ UNCHANGED started

Deadlocked(w, o) == WaitsFor(w, o) /\ WaitsFor(o, w)

\* deadlock_timeout: Postgres ends one of the two.
Detect(w) ==
  /\ \E o \in Workers : Deadlocked(w, o)
  /\ tx' = [tx EXCEPT ![w] = Idle]
  /\ UNCHANGED <<row, started>>

Goes(w) == Execute(w) \/ Pass(w) \/ Throw(w) \/ Commit(w)

Next == \E w \in Workers : Goes(w) \/ Detect(w) \/ \E k \in Kinds : Begin(w, k)

\* A statement that need not wait runs, and Postgres looks for deadlocks.
Fairness == \A w \in Workers : WF_lockingVars(Goes(w)) /\ WF_lockingVars(Detect(w))

Spec == Init /\ [][Next]_lockingVars /\ Fairness

-----------------------------------------------------------------------------
(* Properties. *)

TypeOK ==
  /\ row \in [Rows -> Values] /\ started \in 0 .. MaxStarted
  /\ tx \in [Workers -> [kind : Kinds \union {"none"}, at : 1 .. 5,
                          holds : SUBSET Rows, wrote : [Rows -> Values]]]

\* However the statements of two transactions interleave, what is committed
\* agrees: a version waits for review if and only if its review is open, runs
\* if and only if its run does, and is published by an approved review (the
\* updates WHERE that look again, beginValidation to emergencyDisableVersion).
RowsAgree ==
  /\ row["version"] = "review_required" <=> row["review"] = "pending"
  /\ row["version"] = "validating" <=> row["run"] = "running"
  /\ row["version"] = "published" => row["review"] = "approved"

\* Two transactions wait for one another only when one decides the review,
\* which it locks before the version, and the other takes the version out of
\* review, which it locks before the review (decideReview and reviseVersion).
OnlyDecisionMeetsRevision ==
  \A w, o \in Workers : Deadlocked(w, o) =>
    {tx[w].kind, tx[o].kind} \in {{"approve", "revise"}, {"reject", "revise"}}

=============================================================================
