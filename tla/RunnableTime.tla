---------------------------- MODULE RunnableTime ----------------------------
(***************************************************************************)
(* How long users take until a version runs (timeToRunnable): each install  *)
(* of a user is paired with the user's latest download before it, found by  *)
(* binary search, and the durations are summed up by their percentiles.     *)
(***************************************************************************)
EXTENDS Integers, Sequences, FiniteSets, SequencesExt, Functions

CONSTANTS
  MaxTime,        \* bound: times
  MaxDownloads,   \* bound: downloads of one user and version
  MaxSuccesses    \* bound: installs of one user and version

TimeAssumption == MaxTime \in Nat /\ MaxDownloads \in Nat /\ MaxSuccesses \in Nat

VARIABLES
  downloads,   \* when each download started, as read
  successes,   \* the installs, as read
  sorted,      \* the downloads sorted
  next,        \* the install that is looked for
  lower, upper,\* the places the search is between
  employee,    \* durations from download to end
  platform,    \* durations from start to end
  metrics      \* the percentiles of both

timeVars == <<downloads, successes, sorted, next, lower, upper, employee, platform, metrics>>

Times == 0 .. MaxTime
Successes == {s \in [started : Times, ended : Times] : s.started <= s.ended}
UpTo(n, S) == UNION {[1 .. k -> S] : k \in 0 .. n}

Percentiles == {50, 90, 95}
NoMetrics == [size |-> -1]

AtLeastZero(n) == IF n < 0 THEN 0 ELSE n

-----------------------------------------------------------------------------

\* Ascending.
Ascending(values) == SortSeq(values, LAMBDA x, y : x < y)

NearestRank(values, percentile) ==
  LET rank == (percentile * Len(values) + 99) \div 100 IN values[IF rank < 1 THEN 1 ELSE rank]

TimeDistribution(durations) ==
  [size |-> Len(durations),
   at |-> IF durations = <<>> THEN <<>> ELSE [p \in Percentiles |-> NearestRank(Ascending(durations), p)]]

-----------------------------------------------------------------------------

Sort ==
  /\ next = 0 /\ next' = 1
  /\ sorted' = Ascending(downloads)
  /\ platform' = [i \in DOMAIN successes |-> AtLeastZero(successes[i].ended - successes[i].started)]
  /\ lower' = 0 /\ upper' = Len(downloads)
  /\ UNCHANGED <<downloads, successes, employee, metrics>>

Searching == next \in DOMAIN successes /\ lower < upper

NotAfter(download, success) == download <= success.started

Half(middle) ==
  /\ IF NotAfter(sorted[middle + 1], successes[next])
     THEN lower' = middle + 1 /\ UNCHANGED upper
     ELSE upper' = middle /\ UNCHANGED lower
  /\ UNCHANGED <<downloads, successes, sorted, next, employee, platform, metrics>>

Halve == Searching /\ Half((lower + upper) \div 2)

Pair ==
  /\ next \in DOMAIN successes /\ lower = upper
  /\ employee' = IF lower = 0 THEN employee
                 ELSE Append(employee, AtLeastZero(successes[next].ended - sorted[lower]))
  /\ next' = next + 1 /\ lower' = 0 /\ upper' = Len(sorted)
  /\ UNCHANGED <<downloads, successes, sorted, platform, metrics>>

Report ==
  /\ next = Len(successes) + 1 /\ metrics = NoMetrics
  /\ metrics' = [employee |-> TimeDistribution(employee), platform |-> TimeDistribution(platform)]
  /\ UNCHANGED <<downloads, successes, sorted, next, lower, upper, employee, platform>>

Init ==
  /\ downloads \in UpTo(MaxDownloads, Times) /\ successes \in UpTo(MaxSuccesses, Successes)
  /\ sorted = <<>> /\ next = 0 /\ lower = 0 /\ upper = 0
  /\ employee = <<>> /\ platform = <<>> /\ metrics = NoMetrics

Next == Sort \/ Halve \/ Pair \/ Report

\* A computation goes on.
Spec == Init /\ [][Next]_timeVars /\ WF_timeVars(Next)

-----------------------------------------------------------------------------
(* Properties. *)

Done == metrics # NoMetrics

\* The duration of an install by the downloads as they were read.
Duration(success) ==
  LET before == {i \in DOMAIN downloads : downloads[i] <= success.started}
      latest == CHOOSE i \in before : \A j \in before : downloads[j] <= downloads[i]
  IN IF before = {} THEN {} ELSE {success.ended - downloads[latest]}

(* Each install counts from the latest download that does not come after   *)
(* it, and one without such a download does not count.                      *)
PairedWithLatest ==
  Done => LET paired == SelectSeq([i \in DOMAIN successes |-> Duration(successes[i])], LAMBDA d : d # {})
          IN employee = [i \in DOMAIN paired |-> CHOOSE d \in paired[i] : TRUE]

(* A percentile is the least of the durations that so many percent of them *)
(* do not exceed.                                                           *)
LeastThatManyReach ==
  Done =>
  \A <<durations, m>> \in {<<employee, metrics.employee>>, <<platform, metrics.platform>>} : durations # <<>> =>
    \A p \in Percentiles :
      LET Reaches(value) == 100 * Cardinality({i \in DOMAIN durations : durations[i] <= value}) >= p * Len(durations)
      IN /\ m.at[p] \in Range(durations) /\ Reaches(m.at[p])
         /\ \A value \in Range(durations) : Reaches(value) => m.at[p] <= value

=============================================================================
