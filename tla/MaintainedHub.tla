---------------------------- MODULE MaintainedHub ----------------------------
(***************************************************************************)
(* MaintainedPackagesPage over listMaintainedPackages: a tab for each      *)
(* scope, the one of all teams for whom the server allows it.  The server  *)
(* answers a scope it refuses with another, and the page follows.  The     *)
(* right to see all teams can be given and taken while the page is open.   *)
(***************************************************************************)
EXTENDS Naturals, Sequences, SequencesExt, FiniteSets

CONSTANTS
  Packages, Mine, Ours,   \* the viewer's own packages, and those of the team scope
  Grant,                  \* the viewer's right to see all teams, a row like the others
  PlaceOf,                \* in the order of the last updates, and of the identifiers where they agree
  Limit, MaxAsked, MaxChanges

HubAssumption ==
  /\ IsFiniteSet(Packages) /\ Grant \notin Packages /\ Mine \subseteq Ours /\ Ours \subseteq Packages
  /\ PlaceOf \in [Packages -> Nat] /\ \A p, q \in Packages : PlaceOf[p] = PlaceOf[q] => p = q

VARIABLES rows, choice, stack, page, requests, seen, calm, changes,
          canSeeAll,  \* what the page knows of it
          told        \* the scope each request was answered for, and whether all was allowed

hubVars == <<rows, choice, stack, page, requests, seen, calm, changes, canSeeAll, told>>
hubOwn == <<canSeeAll, told>>

Scopes == {"mine", "team", "all"}

Allowed(rs, s) == IF s = "all" /\ Grant \notin rs THEN "team" ELSE s

InScope(ps, s) ==
  CASE Allowed(ps, s) = "mine" -> ps \intersect Mine
    [] Allowed(ps, s) = "team" -> ps \intersect Ours
    [] OTHER -> ps \ {Grant}

Sorted(ps) ==
  CHOOSE s \in [1 .. Cardinality(ps) -> ps] :
    /\ \A p \in ps : \E i \in DOMAIN s : s[i] = p
    /\ \A i, j \in DOMAIN s : i < j => PlaceOf[s[i]] < PlaceOf[s[j]]

Maintained(ps, s) == Sorted(InScope(ps, s))

List == INSTANCE PagedList WITH Items <- Packages \union {Grant}, Options <- Scopes, Listed <- Maintained

Init ==
  /\ List!InitPage("mine")
  /\ canSeeAll = FALSE
  /\ told = [i \in 1 .. MaxAsked |-> [scope |-> "mine", all |-> FALSE]]

\* One request is left for a correction.
CanAsk == Len(requests) + 1 < MaxAsked

\* visibleTabs
ChooseTab(s) ==
  /\ s # choice /\ CanAsk /\ (s = "all" => canSeeAll)
  /\ List!Open(s)
  /\ UNCHANGED hubOwn

Turn == CanAsk /\ (List!NextPage \/ List!PreviousPage \/ List!Reload) /\ UNCHANGED hubOwn

Serve(i) ==
  /\ List!Serve(i)
  /\ told' = [told EXCEPT ![i] = [scope |-> Allowed(rows, requests[i].query.choice),
                               all |-> Grant \in rows]]
  /\ UNCHANGED canSeeAll

\* The answer is for another scope than the tab.
Follows(i) == told[i].scope # choice

\* What was given up throws before it tells the page anything.
Deliver(i) ==
  /\ ~Follows(i) \/ requests[i].aborted
  /\ List!Deliver(i)
  /\ canSeeAll' = IF requests[i].aborted THEN canSeeAll ELSE told[i].all
  /\ UNCHANGED told

\* The tab goes to the scope that was answered, and its list is asked for.
Correct(i) ==
  /\ Follows(i) /\ requests[i].state = "answered" /\ ~requests[i].aborted
  /\ List!Open(told[i].scope)
  /\ canSeeAll' = told[i].all
  /\ UNCHANGED told

Comes(i) ==
  /\ i \in DOMAIN requests
  /\ \/ Serve(i) \/ Deliver(i) \/ Correct(i)
     \/ (List!Lose(i) \/ List!DeliverError(i)) /\ UNCHANGED hubOwn

Next ==
  \/ Turn
  \/ \E s \in Scopes : ChooseTab(s)
  \/ \E i \in 1 .. MaxAsked : Comes(i)
  \/ \E x \in Packages \union {Grant} : List!Change(x) /\ UNCHANGED hubOwn

Fairness == \A i \in 1 .. MaxAsked : WF_hubVars(Comes(i))

Spec == Init /\ [][Next]_hubVars /\ Fairness

-----------------------------------------------------------------------------
(* Properties. *)

TypeOK == /\ List!PageTypeOK /\ canSeeAll \in BOOLEAN
          /\ told \in [1 .. MaxAsked -> [scope : Scopes, all : BOOLEAN]]

\* Whatever was granted or revoked between the click and the answer, a page
\* shows an answer given for the tab that is selected (listMaintainedPackages falls
\* back without an error, MaintainedPackagesPage follows).
TabTellsTheScope ==
  page.state \in {"success", "empty"} =>
    \E i \in DOMAIN requests : /\ requests[i].state = "over" /\ ~requests[i].aborted
                              /\ requests[i].answer = page.answer /\ told[i].scope = choice

\* Nobody is shown the packages of all teams by an answer given while they had no right to them.
AllNeedsTheRight ==
  \A i \in DOMAIN requests : requests[i].state = "answered" /\ ~told[i].all =>
    ToSet(requests[i].answer.items) \subseteq Ours

\* Over a list that nobody changes, going on to the last page shows every item once asked for.
PagesCoverTheList == List!PagesCoverTheList

\* The page settles: following the server's scope is not followed back for ever.
LoadingEnds == List!LoadingEnds

=============================================================================
