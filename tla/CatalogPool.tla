----------------------------- MODULE CatalogPool -----------------------------
(***************************************************************************)
(* The pool of skills: CatalogPage over CatalogService.search.             *)
(*                                                                         *)
(* The filters live in the address, so the browser's own back and forward  *)
(* change them; the cursor stack lives in the component and does not know. *)
(***************************************************************************)
EXTENDS Naturals, Sequences, SequencesExt, FiniteSets

CONSTANTS
  Packages, Words, Grades,
  TextOf,         \* the words in the identifier, name, purpose and category of each package
  TeamOf,         \* the word that is its owner team
  GradeOf,
  NameOf, IdOf,   \* the place of its name and of its identifier in their orders
  NoCondition,            \* no condition
  Limit, MaxAsked, MaxChanges,
  MaxHistory      \* bound: entries of the browser's history

PoolAssumption ==
  /\ TextOf \in [Packages -> SUBSET Words] /\ TeamOf \in [Packages -> Words]
  /\ GradeOf \in [Packages -> Grades] /\ MaxHistory \in Nat /\ IsFiniteSet(Packages)
  /\ NameOf \in [Packages -> Nat] /\ IdOf \in [Packages -> Nat]
  /\ \A p, q \in Packages : IdOf[p] = IdOf[q] => p = q

VARIABLES rows, choice, stack, page, requests, seen, calm, changes,
          history,   \* the filters of the addresses visited
          position   \* where in the history the browser is

poolVars == <<rows, choice, stack, page, requests, seen, calm, changes, history, position>>

\* readFilters lets no value of the address through that the server would refuse.
Filters == [keyword : Words \union {NoCondition}, grade : Grades \union {NoCondition}, sort : {"name_asc", "name_desc"}]

Matches(p, f) ==
  /\ f.keyword = NoCondition \/ f.keyword \in TextOf[p]
  /\ f.grade = NoCondition \/ GradeOf[p] = f.grade

\* By name up or down; packages of one name by their identifiers.
Precedes(p, q, f) ==
  \/ IF f.sort = "name_asc" THEN NameOf[p] < NameOf[q] ELSE NameOf[q] < NameOf[p]
  \/ NameOf[p] = NameOf[q] /\ IdOf[p] < IdOf[q]

Sorted(ps, f) ==
  CHOOSE s \in [1 .. Cardinality(ps) -> ps] :
    /\ \A p \in ps : \E i \in DOMAIN s : s[i] = p
    /\ \A i, j \in DOMAIN s : i < j => Precedes(s[i], s[j], f)

\* The list search cuts its pages from.
Found(ps, f) == Sorted({p \in ps : Matches(p, f)}, f)

List == INSTANCE PagedList WITH Items <- Packages, Options <- Filters, Listed <- Found

NoFilters == [keyword |-> NoCondition, grade |-> NoCondition, sort |-> "name_asc"]

Init ==
  /\ List!InitPage(NoFilters)
  /\ history = <<NoFilters>> /\ position = 1

\* updateParams: the address changes and the stack is emptied.
UpdateParams(f) ==
  /\ position < MaxHistory
  /\ List!Open(f)
  /\ history' = Append(SubSeq(history, 1, position), f) /\ position' = position + 1

\* The browser goes to another address of its history: the stack stays.
Travel(i) ==
  /\ i \in DOMAIN history /\ i # position
  /\ List!Ask(history[i], stack)
  /\ seen' = {} /\ calm' = FALSE
  /\ position' = i /\ UNCHANGED history

Turn == List!NextPage \/ List!PreviousPage \/ List!Reload

Next ==
  \/ Turn /\ UNCHANGED <<history, position>>
  \/ \E i \in 1 .. MaxAsked : List!Comes(i) /\ UNCHANGED <<history, position>>
  \/ \E p \in Packages : List!Change(p) /\ UNCHANGED <<history, position>>
  \/ \E f \in Filters : UpdateParams(f)
  \/ \E i \in 1 .. MaxHistory : Travel(i)

\* The requests that are out come back.
Fairness == \A i \in 1 .. MaxAsked : WF_poolVars(List!Comes(i) /\ UNCHANGED <<history, position>>)

Spec == Init /\ [][Next]_poolVars /\ Fairness

-----------------------------------------------------------------------------
(* Properties. *)

TypeOK == /\ List!PageTypeOK
          /\ history \in Seq(Filters) /\ position \in DOMAIN history /\ choice = history[position]

ShownIsAsked == List!ShownIsAsked

PagesCoverTheList == List!PagesCoverTheList

LoadingEnds == List!LoadingEnds

\* What the page shows are packages of the filters in the address, one time
\* each and in the order asked for, whatever happened to the rows meanwhile.
ShownMatches ==
  page.state = "success" =>
    LET items == page.answer.items IN
    /\ \A i \in DOMAIN items :
         /\ choice.grade # NoCondition => GradeOf[items[i]] = choice.grade
         /\ choice.keyword # NoCondition => choice.keyword \in TextOf[items[i]] \union {TeamOf[items[i]]}
    /\ \A i, j \in DOMAIN items : i < j =>
         /\ items[i] # items[j]
         /\ IF choice.sort = "name_asc" THEN NameOf[items[i]] <= NameOf[items[j]]
            ELSE NameOf[items[j]] <= NameOf[items[i]]

\* CatalogPage.tsx: "a change of the filters goes back to the first page, or
\* the cursor would point into the old result".
CursorIsOfThisList == [][choice' # choice => stack' = <<>>]_poolVars

\* CatalogPage.tsx: the search box says "search name, purpose or team".
KeywordFindsTeam ==
  \A p \in rows : choice.keyword = TeamOf[p] /\ choice.grade = NoCondition
    => \E i \in DOMAIN Found(rows, choice) : Found(rows, choice)[i] = p

=============================================================================
