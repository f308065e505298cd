----------------------------- MODULE Lists_proofs -----------------------------
(***************************************************************************)
(* Theorems about the lists that the pages show in pieces, for any items,  *)
(* any size of a page and any number of requests: the pool of the          *)
(* catalogue, the hub of the packages one maintains, and the queue of the  *)
(* reviews; then about the list of the options of a script, for any words  *)
(* and any number of options.                                              *)
(***************************************************************************)
EXTENDS Naturals, Sequences, FiniteSets, SequenceTheorems, FiniteSetTheorems, WellFoundedInduction, TLAPS

-----------------------------------------------------------------------------
(* The lists that are cut by cursors *)

CONSTANTS
  Items, Words, PoolGrades, TextOf, TeamOf, GradeOf, NameOf, IdOf, NoCondition, Limit, MaxAsked, MaxChanges,
  MaxHistory,
  Mine, Ours, Grant, PlaceOf

VARIABLES rows, choice, stack, page, fetches, seen, still, stirs, history, position, canSeeAll, told

Pool == INSTANCE CatalogPool WITH
  Packages <- Items, Grades <- PoolGrades, requests <- fetches, calm <- still, changes <- stirs

Hub == INSTANCE MaintainedHub WITH Packages <- Items, requests <- fetches, calm <- still, changes <- stirs

\* R orders U, and s lists S by R.
Orders(R, U) ==
  /\ \A p \in U : <<p, p>> \notin R
  /\ \A p, q \in U : p = q \/ <<p, q>> \in R \/ <<q, p>> \in R
  /\ \A p, q, r \in U : <<p, q>> \in R /\ <<q, r>> \in R => <<p, r>> \in R
ListsBy(s, S, R) ==
  /\ s \in [1 .. Cardinality(S) -> S]
  /\ \A p \in S : \E i \in DOMAIN s : s[i] = p
  /\ \A i, j \in DOMAIN s : i < j => <<s[i], s[j]>> \in R

LEMMA LeastOf == ASSUME NEW N \in SUBSET Nat, N # {} PROVE \E m \in N : \A k \in N : m <= k
<1> DEFINE less == {pair \in Nat \X Nat : pair[1] < pair[2]}
<1>1. IsWellFoundedOn(less, Nat)
  BY NatLessThanWellFounded DEF OpToRel
<1>2. PICK m \in N : \A k \in N : ~(<<k, m>> \in less)
  <2> HIDE DEF less
  <2> QED BY <1>1, WFMin
<1>3. ASSUME NEW k \in N PROVE m <= k
  <2>1. m \in Nat /\ k \in Nat /\ ~(<<k, m>> \in less)
    BY <1>2
  <2> QED BY <2>1
<1> QED BY <1>3

\* One more element has a place in a sorted list.
LEMMA Inserted ==
  ASSUME NEW U, NEW R, Orders(R, U), NEW S \in SUBSET U, NEW x \in S, NEW n \in Nat,
         Cardinality(S) = n + 1, Cardinality(S \ {x}) = n, NEW t, ListsBy(t, S \ {x}, R)
  PROVE  \E s : ListsBy(s, S, R)
<1>1. t \in [1 .. n -> S \ {x}] /\ DOMAIN t = 1 .. n
  BY DEF ListsBy
<1> DEFINE after == {i \in 1 .. n + 1 : i = n + 1 \/ <<x, t[i]>> \in R}
<1>2. PICK k \in after : \A i \in after : k <= i
  <2>1. after \in SUBSET Nat /\ n + 1 \in after
    OBVIOUS
  <2> HIDE DEF after
  <2> QED BY <2>1, LeastOf
<1>3. k \in 1 .. n + 1
  OBVIOUS
<1>4. ASSUME NEW i \in 1 .. n, i < k PROVE <<t[i], x>> \in R
  <2>1. i \notin after
    BY <1>2, <1>3, <1>4
  <2>2. t[i] \in U /\ t[i] # x /\ x \in U
    BY <1>1
  <2> QED BY <2>1, <2>2 DEF Orders
<1>5. ASSUME NEW i \in 1 .. n, k <= i PROVE <<x, t[i]>> \in R
  <2>1. <<x, t[k]>> \in R /\ k \in 1 .. n
    BY <1>3, <1>5
  <2>2. CASE i = k
    BY <2>1, <2>2
  <2>3. CASE i # k
    <3>1. <<t[k], t[i]>> \in R
      <4>1. k \in DOMAIN t /\ i \in DOMAIN t /\ k < i
        BY <1>1, <1>3, <1>5, <2>1, <2>3
      <4> QED BY <4>1 DEF ListsBy
    <3>2. t[k] \in U /\ t[i] \in U /\ x \in U
      BY <1>1, <2>1
    <3> QED BY <2>1, <3>1, <3>2 DEF Orders
  <2> QED BY <2>2, <2>3
<1> HIDE DEF after
<1> DEFINE s == [i \in 1 .. n + 1 |-> IF i < k THEN t[i] ELSE IF i = k THEN x ELSE t[i - 1]]
<1>6. s \in [1 .. n + 1 -> S]
  <2> SUFFICES ASSUME NEW i \in 1 .. n + 1 PROVE s[i] \in S
    OBVIOUS
  <2>1. CASE i < k
    <3>1. i \in 1 .. n
      BY <1>3, <2>1
    <3> QED BY <1>1, <2>1, <3>1
  <2>2. CASE k < i
    <3>1. i - 1 \in 1 .. n
      BY <1>3, <2>2
    <3> QED BY <1>1, <1>3, <2>2, <3>1
  <2>3. CASE i = k
    BY <1>3, <2>3
  <2> QED BY <1>3, <2>1, <2>2, <2>3
<1>7. ASSUME NEW p \in S PROVE \E i \in DOMAIN s : s[i] = p
  <2>1. CASE p = x
    BY <1>3, <2>1
  <2>2. CASE p # x
    <3>1. PICK j \in 1 .. n : t[j] = p
      BY <1>1, <2>2 DEF ListsBy
    <3>2. CASE j < k
      <4>1. j \in 1 .. n + 1 /\ s[j] = p
        BY <3>1, <3>2
      <4> QED BY <4>1
    <3>3. CASE ~(j < k)
      <4>1. j + 1 \in 1 .. n + 1 /\ ~(j + 1 < k) /\ j + 1 # k /\ (j + 1) - 1 = j
        BY <1>3, <3>3
      <4>2. s[j + 1] = p
        BY <3>1, <4>1
      <4> QED BY <4>1, <4>2
    <3> QED BY <3>2, <3>3
  <2> QED BY <2>1, <2>2
<1>8. ASSUME NEW i \in DOMAIN s, NEW j \in DOMAIN s, i < j PROVE <<s[i], s[j]>> \in R
  <2>0. i \in 1 .. n + 1 /\ j \in 1 .. n + 1
    BY <1>8
  <2>1. CASE j < k
    <3>1. s[i] = t[i] /\ s[j] = t[j] /\ i \in 1 .. n /\ j \in 1 .. n
      BY <1>3, <1>8, <2>0, <2>1
    <3> QED BY <1>1, <1>8, <3>1 DEF ListsBy
  <2>2. CASE j = k
    <3>1. s[i] = t[i] /\ s[j] = x /\ i \in 1 .. n /\ i < k
      BY <1>3, <1>8, <2>0, <2>2
    <3> QED BY <1>4, <3>1
  <2>3. CASE k < j /\ i < k
    <3>1. s[i] = t[i] /\ s[j] = t[j - 1] /\ i \in 1 .. n /\ j - 1 \in 1 .. n /\ i < j - 1
      BY <1>3, <1>8, <2>0, <2>3
    <3> QED BY <1>1, <3>1 DEF ListsBy
  <2>4. CASE k < j /\ i = k
    <3>1. s[i] = x /\ s[j] = t[j - 1] /\ j - 1 \in 1 .. n /\ k <= j - 1
      BY <1>3, <1>8, <2>0, <2>4
    <3> QED BY <1>5, <3>1
  <2>5. CASE k < j /\ k < i
    <3>1. s[i] = t[i - 1] /\ s[j] = t[j - 1] /\ i - 1 \in 1 .. n /\ j - 1 \in 1 .. n /\ i - 1 < j - 1
      BY <1>3, <1>8, <2>0, <2>5
    <3> QED BY <1>1, <3>1 DEF ListsBy
  <2> QED BY <1>3, <2>0, <2>1, <2>2, <2>3, <2>4, <2>5
<1>9. ListsBy(s, S, R)
  <2> HIDE DEF s
  <2> QED BY <1>6, <1>7, <1>8 DEF ListsBy
<1> QED BY <1>9

\* What is finite and ordered can be listed in its order.
LEMMA Sortable ==
  ASSUME NEW U, NEW R, Orders(R, U), IsFiniteSet(U), NEW S \in SUBSET U
  PROVE  \E s : ListsBy(s, S, R)
<1> DEFINE Bad == {T \in SUBSET U : ~\E s : ListsBy(s, T, R)}
           N == {Cardinality(T) : T \in Bad}
<1>1. \A T \in SUBSET U : IsFiniteSet(T) /\ Cardinality(T) \in Nat
  BY FS_Subset, FS_CardinalityType
<1> SUFFICES ASSUME Bad # {} PROVE FALSE
  OBVIOUS
<1>2. PICK T \in Bad : \A V \in Bad : Cardinality(T) <= Cardinality(V)
  <2>1. N \in SUBSET Nat /\ N # {}
    BY <1>1
  <2>2. PICK m \in N : \A k \in N : m <= k
    <3> HIDE DEF N
    <3> QED BY <2>1, LeastOf
  <2> QED BY <2>2
<1>3. CASE T = {}
  <2>1. Cardinality(T) = 0
    BY <1>3, FS_EmptySet
  <2>2. ListsBy([i \in 1 .. 0 |-> i], T, R)
    BY <1>3, <2>1 DEF ListsBy
  <2> QED BY <2>2
<1>4. CASE T # {}
  <2>1. PICK x \in T : TRUE
    BY <1>4
  <2>2. T \ {x} \in SUBSET U /\ Cardinality(T \ {x}) = Cardinality(T) - 1
    BY <1>1, FS_RemoveElement
  <2>3. PICK n \in Nat : Cardinality(T \ {x}) = n
    BY <1>1, <2>2
  <2>4. Cardinality(T) = n + 1
    BY <1>1, <2>2, <2>3
  <2>5. T \ {x} \notin Bad
    BY <1>2, <2>3, <2>4
  <2>6. PICK t : ListsBy(t, T \ {x}, R)
    BY <2>2, <2>5
  <2>7. \E s : ListsBy(s, T, R)
    BY <2>3, <2>4, <2>6, Inserted
  <2> QED BY <2>7
<1> QED BY <1>3, <1>4

ListLimits == Limit \in Nat \ {0} /\ MaxAsked \in Nat \ {0} /\ MaxChanges \in Nat

\* What PagedList keeps, for lists of S and choices of C.
Pieces(S) == [items : Seq(S), next : Nat]
Fetches(S, C) ==
  [query : [choice : C, offset : Nat], aborted : BOOLEAN, state : {"sent", "answered", "failed", "over"},
   answer : Pieces(S)]
Shows(S, C) ==
  [state : {"loading", "success", "empty", "error"}, of : [choice : C, offset : Nat], answer : Pieces(S)]
ListTypes(S, C) ==
  /\ rows \subseteq S /\ choice \in C /\ stack \in Seq(Nat)
  /\ page \in Shows(S, C) /\ fetches \in Seq(Fetches(S, C))
  /\ seen \subseteq S /\ still \in BOOLEAN /\ stirs \in 0 .. MaxChanges

CursorOf(s) == IF s = <<>> THEN 0 ELSE s[Len(s)]
Asking(c, s) == [choice |-> c, offset |-> CursorOf(s)]
Nothing == [items |-> <<>>, next |-> 0]
SentFor(q) == [query |-> q, aborted |-> FALSE, state |-> "sent", answer |-> Nothing]

\* All requests but the last were given up, and the last is for what the page shows.
OnlyLast ==
  /\ Len(fetches) \in 1 .. MaxAsked
  /\ \A i \in DOMAIN fetches : ~fetches[i].aborted => i = Len(fetches) /\ fetches[i].query = Asking(choice, stack)
  /\ page.of = Asking(choice, stack)

\* The piece of a list behind a cursor.
Piece(list, n) ==
  LET items == SubSeq(list, n + 1, IF n + Limit <= Len(list) THEN n + Limit ELSE Len(list))
      next == n + Len(items)
  IN [items |-> items, next |-> IF next < Len(list) THEN next ELSE 0]

Saw(list, n) == \A j \in 1 .. n : j <= Len(list) => list[j] \in seen

\* While nobody changed anything: all up to each cursor of the stack was shown, and
\* answers are pieces of the list there is.
Covered(list) ==
  still =>
    /\ \A k \in DOMAIN stack : Saw(list, stack[k])
    /\ \A i \in DOMAIN fetches : ~fetches[i].aborted /\ fetches[i].state = "answered" =>
         fetches[i].answer = Piece(list, CursorOf(stack))
    /\ page.state = "success" =>
         /\ page.answer = Piece(list, CursorOf(stack))
         /\ \A j \in DOMAIN page.answer.items : page.answer.items[j] \in seen

LEMMA ListFacts ==
  ASSUME NEW S, NEW C, ListTypes(S, C), OnlyLast
  PROVE  /\ Len(fetches) \in Nat /\ DOMAIN fetches = 1 .. Len(fetches) /\ Len(stack) \in Nat
         /\ DOMAIN stack = 1 .. Len(stack)
         /\ \A i \in DOMAIN fetches : fetches[i] \in Fetches(S, C)
         /\ CursorOf(stack) \in Nat
<1>1. fetches \in Seq(Fetches(S, C)) /\ stack \in Seq(Nat)
  BY DEF ListTypes
<1>2. \A i \in DOMAIN fetches : fetches[i] \in Fetches(S, C)
  BY <1>1
<1>3. CursorOf(stack) \in Nat
  <2>1. CASE stack = <<>>
    BY <2>1 DEF CursorOf
  <2>2. CASE stack # <<>>
    <3>1. Len(stack) \in DOMAIN stack
      BY <1>1, <2>2
    <3> QED BY <1>1, <2>2, <3>1 DEF CursorOf
  <2> QED BY <2>1, <2>2
<1> QED BY <1>1, <1>2, <1>3

\* The page asks for a piece, of this list or another one.
LEMMA AskingKeeps ==
  ASSUME NEW S, NEW C, ListLimits, ListTypes(S, C), OnlyLast, NEW c \in C, NEW s \in Seq(Nat),
         Len(fetches) < MaxAsked, choice' = c, stack' = s,
         fetches' = Append([i \in DOMAIN fetches |-> [fetches[i] EXCEPT !.aborted = TRUE]], SentFor(Asking(c, s))),
         page' = [state |-> "loading", of |-> Asking(c, s), answer |-> Nothing],
         rows' \subseteq S, stirs' \in 0 .. MaxChanges, seen' \subseteq S, still' \in BOOLEAN
  PROVE  /\ ListTypes(S, C)' /\ OnlyLast'
         /\ \A i \in DOMAIN fetches' :
              \/ fetches'[i] = SentFor(Asking(c, s))
              \/ i \in DOMAIN fetches /\ fetches'[i] = [fetches[i] EXCEPT !.aborted = TRUE]
         /\ \A list : (still' => \A k \in DOMAIN s : Saw(list, s[k])') => Covered(list)'
<1> DEFINE f == [i \in DOMAIN fetches |-> [fetches[i] EXCEPT !.aborted = TRUE]]
<1>1. CursorOf(s) \in Nat
  <2>1. CASE s = <<>>
    BY <2>1 DEF CursorOf
  <2>2. CASE s # <<>>
    <3>1. Len(s) \in DOMAIN s
      BY <2>2
    <3> QED BY <2>2, <3>1 DEF CursorOf
  <2> QED BY <2>1, <2>2
<1>2. Asking(c, s) \in [choice : C, offset : Nat] /\ Nothing \in Pieces(S)
  BY <1>1 DEF Asking, Nothing, Pieces
<1>3. SentFor(Asking(c, s)) \in Fetches(S, C) /\ page' \in Shows(S, C)
  BY <1>2 DEF SentFor, Fetches, Shows
<1>4. f \in Seq(Fetches(S, C)) /\ Len(f) = Len(fetches)
  <2>1. \A i \in 1 .. Len(fetches) : [fetches[i] EXCEPT !.aborted = TRUE] \in Fetches(S, C)
    <3> SUFFICES ASSUME NEW i \in 1 .. Len(fetches) PROVE [fetches[i] EXCEPT !.aborted = TRUE] \in Fetches(S, C)
      OBVIOUS
    <3>1. fetches[i] \in Fetches(S, C)
      BY ListFacts
    <3> QED BY <3>1 DEF Fetches
  <2>2. f = [i \in 1 .. Len(fetches) |-> [fetches[i] EXCEPT !.aborted = TRUE]]
    BY ListFacts
  <2>3. PICK m \in Nat : m = Len(fetches)
    BY ListFacts
  <2>4. f \in [1 .. m -> Fetches(S, C)]
    BY <2>1, <2>2, <2>3
  <2> HIDE DEF f
  <2> QED BY <2>3, <2>4
<1>5. \A i \in DOMAIN fetches : f[i].aborted = TRUE
  BY ListFacts DEF Fetches
<1> HIDE DEF f
<1>6. /\ fetches' \in Seq(Fetches(S, C)) /\ Len(fetches') = Len(fetches) + 1
      /\ fetches'[Len(fetches) + 1] = SentFor(Asking(c, s))
      /\ \A i \in DOMAIN fetches : fetches'[i] = f[i]
      /\ DOMAIN fetches' = 1 .. Len(fetches) + 1
  <2>1. fetches' = Append(f, SentFor(Asking(c, s)))
    BY DEF f
  <2>2. PICK m \in Nat : m = Len(fetches) /\ DOMAIN fetches = 1 .. m
    BY ListFacts
  <2>3. DOMAIN f = 1 .. m
    BY <1>4, <2>2
  <2>4. PICK e \in Fetches(S, C) : e = SentFor(Asking(c, s))
    BY <1>3
  <2>5. Len(f) = m
    BY <1>4, <2>2
  <2>6. f \in Seq(Fetches(S, C))
    BY <1>4
  <2>7. /\ Append(f, e) \in Seq(Fetches(S, C)) /\ Len(Append(f, e)) = m + 1 /\ Append(f, e)[m + 1] = e
        /\ \A i \in 1 .. m : Append(f, e)[i] = f[i]
    BY <2>5, <2>6, AppendProperties
  <2>8. DOMAIN Append(f, e) = 1 .. m + 1
    BY <2>7, LenProperties
  <2> QED BY <2>1, <2>2, <2>4, <2>7, <2>8
<1>7. ListTypes(S, C)'
  BY <1>3, <1>6 DEF ListTypes
<1>8. \A i \in DOMAIN fetches' :
        ~fetches'[i].aborted => i = Len(fetches') /\ fetches'[i] = SentFor(Asking(c, s))
  BY <1>5, <1>6, ListFacts
<1>9. OnlyLast'
  BY <1>6, <1>8, ListFacts DEF OnlyLast, SentFor, ListLimits
<1>10. ASSUME NEW list, still' => \A k \in DOMAIN s : Saw(list, s[k])' PROVE Covered(list)'
  BY <1>8, <1>10 DEF Covered, SentFor
<1>11. ASSUME NEW i \in DOMAIN fetches'
       PROVE  \/ fetches'[i] = SentFor(Asking(c, s))
              \/ i \in DOMAIN fetches /\ fetches'[i] = [fetches[i] EXCEPT !.aborted = TRUE]
  <2>1. i \in DOMAIN fetches \/ i = Len(fetches) + 1
    BY <1>6, ListFacts
  <2>2. \A j \in DOMAIN fetches : f[j] = [fetches[j] EXCEPT !.aborted = TRUE]
    BY DEF f
  <2> QED BY <1>6, <2>1, <2>2
<1> QED BY <1>7, <1>9, <1>10, <1>11

\* A request goes on, and is given up or not as before.
LEMMA FetchKeeps ==
  ASSUME NEW S, NEW C, ListTypes(S, C), OnlyLast, NEW i \in DOMAIN fetches, NEW q \in Fetches(S, C),
         fetches' = [fetches EXCEPT ![i] = q], q.query = fetches[i].query, q.aborted = fetches[i].aborted,
         UNCHANGED <<rows, choice, stack, still, stirs>>, page' \in Shows(S, C), page'.of = page.of, seen' \subseteq S
  PROVE  /\ ListTypes(S, C)' /\ OnlyLast'
         /\ DOMAIN fetches' = DOMAIN fetches /\ fetches'[i] = q
         /\ \A j \in DOMAIN fetches \ {i} : fetches'[j] = fetches[j]
<1>1. /\ fetches' \in Seq(Fetches(S, C)) /\ Len(fetches') = Len(fetches) /\ DOMAIN fetches' = DOMAIN fetches
      /\ fetches'[i] = q /\ \A j \in DOMAIN fetches \ {i} : fetches'[j] = fetches[j]
  <2>1. fetches \in Seq(Fetches(S, C))
    BY DEF ListTypes
  <2> QED BY <2>1
<1>2. ListTypes(S, C)'
  BY <1>1 DEF ListTypes
<1>3. OnlyLast'
  BY <1>1 DEF OnlyLast
<1> QED BY <1>1, <1>2, <1>3

LEMMA PieceFacts ==
  ASSUME NEW S, NEW list \in Seq(S), NEW n \in Nat, ListLimits
  PROVE  /\ Piece(list, n) \in Pieces(S) /\ Piece(list, n).items \in Seq(S) /\ Piece(list, n).next \in Nat
         /\ Piece(list, n).next # 0 => Piece(list, n).next = n + Len(Piece(list, n).items)
         /\ Piece(list, n).next = 0 => Len(list) <= n + Len(Piece(list, n).items)
         /\ Len(Piece(list, n).items) \in Nat
         /\ DOMAIN Piece(list, n).items = 1 .. Len(Piece(list, n).items)
         /\ \A j \in n + 1 .. n + Len(Piece(list, n).items) :
              /\ j \in DOMAIN list /\ j - n \in DOMAIN Piece(list, n).items
              /\ list[j] = Piece(list, n).items[j - n]
         /\ Piece(list, n).next # 0 => Len(Piece(list, n).items) = Limit
<1> DEFINE hi == IF n + Limit <= Len(list) THEN n + Limit ELSE Len(list)
           items == SubSeq(list, n + 1, hi)
<1>1. Len(list) \in Nat /\ DOMAIN list = 1 .. Len(list) /\ hi \in Nat /\ hi <= Len(list)
  BY DEF ListLimits
<1> HIDE DEF hi
<1>2. /\ items \in Seq(S) /\ Len(items) = IF n + 1 <= hi THEN hi - n ELSE 0
      /\ \A k \in 1 .. Len(items) : items[k] = list[n + k]
  <2>1. CASE n + 1 <= hi
    <3>1. n + 1 \in 1 .. Len(list) + 1 /\ hi \in 0 .. Len(list) /\ \A m \in (n + 1) .. hi : list[m] \in S
      BY <1>1, <2>1
    <3> QED BY <1>1, <2>1, <3>1, SubSeqProperties
  <2>2. CASE ~(n + 1 <= hi)
    <3>1. items = <<>>
      BY <1>1, <2>2
    <3> HIDE DEF items
    <3>2. items \in Seq(S) /\ Len(items) = 0
      BY <3>1
    <3> QED BY <2>2, <3>2
  <2> QED BY <2>1, <2>2
<1> HIDE DEF items
<1>3. /\ Piece(list, n).items = items
      /\ Piece(list, n).next = IF n + Len(items) < Len(list) THEN n + Len(items) ELSE 0
      /\ Piece(list, n) = [items |-> items, next |-> IF n + Len(items) < Len(list) THEN n + Len(items) ELSE 0]
  BY DEF Piece, items, hi
<1>4. Len(items) \in Nat /\ DOMAIN items = 1 .. Len(items)
  BY <1>2
<1>5. Piece(list, n) \in Pieces(S) /\ Piece(list, n).next \in Nat
  BY <1>1, <1>2, <1>3, <1>4 DEF Pieces
<1>6. \A j \in n + 1 .. n + Len(items) : j \in DOMAIN list /\ j - n \in DOMAIN items /\ list[j] = items[j - n]
  <2> SUFFICES ASSUME NEW j \in n + 1 .. n + Len(items)
               PROVE  j \in DOMAIN list /\ j - n \in DOMAIN items /\ list[j] = items[j - n]
    OBVIOUS
  <2>1. j - n \in 1 .. Len(items) /\ n + (j - n) = j
    BY <1>4
  <2>2. j \in 1 .. Len(list)
    <3>1. PICK m \in Nat : m = Len(items)
      BY <1>4
    <3>2. m # 0
      BY <1>4, <3>1
    <3>3. m = hi - n /\ n + m <= Len(list)
      BY <1>1, <1>2, <3>1, <3>2
    <3> QED BY <1>1, <3>1, <3>3
  <2> QED BY <1>1, <1>2, <1>4, <2>1, <2>2
<1>7. n + Len(items) < Len(list) => Len(items) = Limit
  <2>1. PICK m \in Nat : m = Len(items)
    BY <1>4
  <2>2. PICK l \in Nat : l = Len(list)
    BY <1>1
  <2>3. m = IF n + 1 <= hi THEN hi - n ELSE 0
    BY <1>2, <2>1
  <2>4. hi = IF n + Limit <= l THEN n + Limit ELSE l
    BY <2>2 DEF hi
  <2>5. n + m < l => m = Limit
    BY <1>1, <2>3, <2>4 DEF ListLimits
  <2> QED BY <2>1, <2>2, <2>5
<1>8. n + Len(items) < Len(list) \/ Len(list) <= n + Len(items)
  BY <1>1, <1>4
<1>9. /\ Piece(list, n).next # 0 => Piece(list, n).next = n + Len(items) /\ Len(items) = Limit
      /\ Piece(list, n).next = 0 => Len(list) <= n + Len(items)
  <2>1. CASE n + Len(items) < Len(list)
    <3>1. Len(items) = Limit /\ Piece(list, n).next = n + Len(items)
      BY <1>3, <1>7, <2>1
    <3>2. n + Len(items) # 0
      BY <1>4, <3>1 DEF ListLimits
    <3> QED BY <3>1, <3>2
  <2>2. CASE ~(n + Len(items) < Len(list))
    BY <1>3, <1>8, <2>2
  <2> QED BY <2>1, <2>2
<1>10. Piece(list, n).items = items
  BY <1>3
<1> QED BY <1>2, <1>4, <1>5, <1>6, <1>9, <1>10

\* With what the page shows, all up to its next cursor was shown.
LEMMA SawThePiece ==
  ASSUME NEW S, NEW C, ListLimits, ListTypes(S, C), OnlyLast, NEW list \in Seq(S), Covered(list), still = TRUE,
         page.state = "success"
  PROVE  Saw(list, CursorOf(stack) + Len(page.answer.items))
<1> DEFINE n == CursorOf(stack)
           items == page.answer.items
<1>1. n \in Nat /\ page.answer = Piece(list, n)
  BY ListFacts DEF Covered
<1>2. /\ Len(items) \in Nat
      /\ \A j \in n + 1 .. n + Len(items) : j - n \in DOMAIN items /\ list[j] = items[j - n]
  <2> HIDE DEF n
  <2> QED BY <1>1, PieceFacts
<1>3. Saw(list, n)
  <2>1. CASE stack = <<>>
    BY <2>1 DEF CursorOf, Saw
  <2>2. CASE stack # <<>>
    <3>1. Len(stack) \in DOMAIN stack
      BY <2>2, ListFacts DEF ListTypes
    <3> QED BY <2>2, <3>1 DEF Covered, CursorOf
  <2> QED BY <2>1, <2>2
<1>4. \A j \in DOMAIN items : items[j] \in seen
  BY DEF Covered
<1> SUFFICES ASSUME NEW j \in 1 .. n + Len(items), j <= Len(list) PROVE list[j] \in seen
  BY DEF Saw
<1> HIDE DEF n, items
<1>5. CASE j <= n
  BY <1>1, <1>2, <1>3, <1>5 DEF Saw
<1>6. CASE ~(j <= n)
  <2>1. j \in n + 1 .. n + Len(items)
    BY <1>1, <1>2, <1>6
  <2> QED BY <1>2, <1>4, <2>1
<1> QED BY <1>5, <1>6

\* The last page is the last.
LEMMA SawTheList ==
  ASSUME NEW S, NEW C, ListLimits, ListTypes(S, C), OnlyLast, NEW list \in Seq(S), Covered(list), still = TRUE,
         page.state = "success", page.answer.next = 0
  PROVE  \A j \in DOMAIN list : list[j] \in seen
<1>1. Saw(list, CursorOf(stack) + Len(page.answer.items))
  BY SawThePiece
<1>2. /\ CursorOf(stack) \in Nat /\ page.answer = Piece(list, CursorOf(stack))
      /\ Len(page.answer.items) \in Nat
      /\ Len(list) <= CursorOf(stack) + Len(page.answer.items)
  BY ListFacts, PieceFacts DEF Covered
<1> QED BY <1>1, <1>2 DEF Saw

\* The cursors of the page after this one, before this one, and of this one.
LEMMA TurningKeeps ==
  ASSUME NEW S, NEW C, ListLimits, ListTypes(S, C), OnlyLast, NEW list \in Seq(S), Covered(list), NEW s,
         \/ (page.state = "success" /\ page.answer.next # 0 /\ s = Append(stack, page.answer.next))
         \/ (stack # <<>> /\ s = SubSeq(stack, 1, Len(stack) - 1))
         \/ s = stack,
         UNCHANGED seen
  PROVE  s \in Seq(Nat) /\ (still = TRUE => \A k \in DOMAIN s : Saw(list, s[k])')
<1>1. stack \in Seq(Nat) /\ Len(stack) \in Nat /\ DOMAIN stack = 1 .. Len(stack)
  BY ListFacts DEF ListTypes
<1>2. still = TRUE => \A k \in DOMAIN stack : Saw(list, stack[k])
  BY DEF Covered
<1>3. \A n : Saw(list, n)' = Saw(list, n)
  BY DEF Saw
<1>4. CASE page.state = "success" /\ page.answer.next # 0 /\ s = Append(stack, page.answer.next)
  <2>1. page.answer.next \in Nat
    BY DEF ListTypes, Shows, Pieces
  <2>2. s \in Seq(Nat) /\ \A k \in DOMAIN s : (k \in DOMAIN stack /\ s[k] = stack[k]) \/ s[k] = page.answer.next
    <3>1. PICK m \in Nat : m = Len(stack)
      BY <1>1
    <3>2. PICK e \in Nat : e = page.answer.next
      BY <2>1
    <3>3. s = Append(stack, e)
      BY <1>4, <3>2
    <3>4. /\ Append(stack, e) \in Seq(Nat) /\ Len(Append(stack, e)) = m + 1 /\ Append(stack, e)[m + 1] = e
          /\ \A k \in 1 .. m : Append(stack, e)[k] = stack[k]
      <4>1. stack \in Seq(Nat)
        BY <1>1
      <4> QED BY <3>1, <4>1, AppendProperties
    <3>5. s \in Seq(Nat) /\ Len(s) = m + 1 /\ s[m + 1] = e /\ \A k \in 1 .. m : s[k] = stack[k]
      BY <3>3, <3>4
    <3>6. DOMAIN s = 1 .. m + 1
      BY <3>5, LenProperties
    <3> SUFFICES ASSUME NEW k \in DOMAIN s PROVE (k \in DOMAIN stack /\ s[k] = stack[k]) \/ s[k] = page.answer.next
      BY <3>5
    <3>7. k \in 1 .. m \/ k = m + 1
      BY <3>1, <3>6
    <3> QED BY <1>1, <3>1, <3>2, <3>5, <3>7
  <2>3. still = TRUE => Saw(list, page.answer.next)
    <3> SUFFICES ASSUME still = TRUE PROVE Saw(list, page.answer.next)
      OBVIOUS
    <3>1. PICK n \in Nat : n = CursorOf(stack) /\ page.answer = Piece(list, n)
      BY <1>4, ListFacts DEF Covered
    <3>2. page.answer.next = CursorOf(stack) + Len(page.answer.items)
      <4>1. Piece(list, n).next # 0
        BY <1>4, <3>1
      <4>2. Piece(list, n).next = n + Len(Piece(list, n).items)
        BY <4>1, PieceFacts
      <4> QED BY <3>1, <4>2
    <3> QED BY <1>4, <3>2, SawThePiece
  <2> QED BY <1>2, <1>3, <2>2, <2>3
<1>5. CASE stack # <<>> /\ s = SubSeq(stack, 1, Len(stack) - 1)
  <2>1. s \in Seq(Nat) /\ \A k \in DOMAIN s : k \in DOMAIN stack /\ s[k] = stack[k]
    <3>1. PICK m \in Nat : Len(stack) = m + 1
      <4>1. stack # <<>>
        BY <1>5
      <4>2. Len(stack) # 0
        BY <1>1, <4>1
      <4>3. Len(stack) - 1 \in Nat /\ Len(stack) = (Len(stack) - 1) + 1
        BY <1>1, <4>2
      <4> QED BY <4>3
    <3>2. s = SubSeq(stack, 1, m)
      BY <1>5, <3>1
    <3>3. 1 \in 1 .. Len(stack) + 1 /\ m \in 0 .. Len(stack) /\ \A k \in 1 .. m : stack[k] \in Nat
      BY <1>1, <3>1
    <3>4. /\ SubSeq(stack, 1, m) \in Seq(Nat) /\ Len(SubSeq(stack, 1, m)) = IF 1 <= m THEN m - 1 + 1 ELSE 0
          /\ \A k \in 1 .. m - 1 + 1 : SubSeq(stack, 1, m)[k] = stack[1 + k - 1]
      <4>1. 1 \in Int /\ m \in Int
        OBVIOUS
      <4> QED BY <3>3, <4>1, SubSeqProperties
    <3>5. s \in Seq(Nat) /\ Len(s) = m /\ \A k \in 1 .. m : s[k] = stack[k]
      BY <3>2, <3>4
    <3>6. DOMAIN s = 1 .. m
      BY <3>5, LenProperties
    <3> QED BY <1>1, <3>1, <3>5, <3>6
  <2> QED BY <1>2, <1>3, <2>1
<1>6. CASE s = stack
  BY <1>1, <1>2, <1>3, <1>6
<1> QED BY <1>4, <1>5, <1>6

\* The server answers with a piece of the list it has.
LEMMA ServingKeeps ==
  ASSUME NEW S, NEW C, ListLimits, ListTypes(S, C), OnlyLast, NEW i \in DOMAIN fetches, NEW a \in Pieces(S),
         fetches[i].state = "sent",
         fetches' = [fetches EXCEPT ![i].state = "answered", ![i].answer = a],
         UNCHANGED <<rows, choice, stack, page, seen, still, stirs>>
  PROVE  /\ ListTypes(S, C)' /\ OnlyLast' /\ DOMAIN fetches' = DOMAIN fetches
         /\ fetches'[i].answer = a /\ fetches'[i].query = fetches[i].query
         /\ fetches'[i].aborted = fetches[i].aborted /\ fetches'[i].state = "answered"
         /\ \A j \in DOMAIN fetches \ {i} : fetches'[j] = fetches[j]
         /\ \A list : /\ Covered(list)
                      /\ still /\ ~fetches[i].aborted => a = Piece(list, fetches[i].query.offset)
                      => Covered(list)'
<1> DEFINE q == [fetches[i] EXCEPT !.state = "answered", !.answer = a]
<1>1. fetches[i] \in Fetches(S, C)
  BY ListFacts
<1>2. /\ q \in Fetches(S, C) /\ q.query = fetches[i].query /\ q.aborted = fetches[i].aborted
      /\ q.state = "answered" /\ q.answer = a
  BY <1>1 DEF Fetches
<1>3. fetches' = [fetches EXCEPT ![i] = q]
  OBVIOUS
<1> HIDE DEF q
<1>4. page' \in Shows(S, C) /\ page'.of = page.of /\ seen' \subseteq S
  BY DEF ListTypes
<1>5. /\ ListTypes(S, C)' /\ OnlyLast' /\ DOMAIN fetches' = DOMAIN fetches /\ fetches'[i] = q
      /\ \A j \in DOMAIN fetches \ {i} : fetches'[j] = fetches[j]
  BY <1>2, <1>3, <1>4, FetchKeeps
<1>6. ~fetches[i].aborted => fetches[i].query.offset = CursorOf(stack)
  BY DEF OnlyLast, Asking
<1>7. ASSUME NEW list, Covered(list), still /\ ~fetches[i].aborted => a = Piece(list, fetches[i].query.offset)
      PROVE  Covered(list)'
  BY <1>2, <1>5, <1>6, <1>7 DEF Covered, Saw
<1> QED BY <1>2, <1>5, <1>7

\* A request is lost, or is told to have failed.
LEMMA FailingKeeps ==
  ASSUME NEW S, NEW C, ListLimits, ListTypes(S, C), OnlyLast, NEW i \in DOMAIN fetches,
         NEW state \in {"failed", "over"}, fetches' = [fetches EXCEPT ![i].state = state],
         page' = page \/ (page' = [state |-> "error", of |-> fetches[i].query, answer |-> Nothing] /\ ~fetches[i].aborted),
         UNCHANGED <<rows, choice, stack, seen, still, stirs>>
  PROVE  /\ ListTypes(S, C)' /\ OnlyLast' /\ DOMAIN fetches' = DOMAIN fetches
         /\ fetches'[i].state = state /\ fetches'[i].aborted = fetches[i].aborted
         /\ fetches'[i].answer = fetches[i].answer /\ fetches'[i].query = fetches[i].query
         /\ \A j \in DOMAIN fetches \ {i} : fetches'[j] = fetches[j]
         /\ \A list : Covered(list) => Covered(list)'
<1> DEFINE q == [fetches[i] EXCEPT !.state = state]
<1>1. fetches[i] \in Fetches(S, C)
  BY ListFacts
<1>2. /\ q \in Fetches(S, C) /\ q.query = fetches[i].query /\ q.aborted = fetches[i].aborted
      /\ q.state = state /\ q.answer = fetches[i].answer
  BY <1>1 DEF Fetches
<1>3. fetches' = [fetches EXCEPT ![i] = q]
  OBVIOUS
<1> HIDE DEF q
<1>4. page' \in Shows(S, C) /\ page'.of = page.of /\ seen' \subseteq S /\ (page' = page \/ page'.state = "error")
  <2>1. CASE page' = page
    BY <2>1 DEF ListTypes
  <2>2. CASE page' = [state |-> "error", of |-> fetches[i].query, answer |-> Nothing] /\ ~fetches[i].aborted
    <3>1. fetches[i].query \in [choice : C, offset : Nat] /\ Nothing \in Pieces(S)
      BY <1>1 DEF Fetches, Nothing, Pieces
    <3> QED BY <2>2, <3>1 DEF Shows, OnlyLast, ListTypes
  <2> QED BY <2>1, <2>2
<1>5. /\ ListTypes(S, C)' /\ OnlyLast' /\ DOMAIN fetches' = DOMAIN fetches /\ fetches'[i] = q
      /\ \A j \in DOMAIN fetches \ {i} : fetches'[j] = fetches[j]
  BY <1>2, <1>3, <1>4, FetchKeeps
<1>6. ASSUME NEW list, Covered(list) PROVE Covered(list)'
  BY <1>2, <1>4, <1>5, <1>6 DEF Covered, Saw
<1> QED BY <1>2, <1>5, <1>6

\* An answer is shown, unless its request was given up.
LEMMA DeliveringKeeps ==
  ASSUME NEW S, NEW C, ListLimits, ListTypes(S, C), OnlyLast, NEW i \in DOMAIN fetches,
         fetches[i].state = "answered", fetches' = [fetches EXCEPT ![i].state = "over"],
         IF fetches[i].aborted THEN UNCHANGED <<page, seen>>
         ELSE /\ page' = [state |-> IF fetches[i].answer.items = <<>> /\ fetches[i].query.offset = 0
                                    THEN "empty" ELSE "success",
                          of |-> fetches[i].query, answer |-> fetches[i].answer]
              /\ seen' = seen \cup {fetches[i].answer.items[j] : j \in DOMAIN fetches[i].answer.items},
         UNCHANGED <<rows, choice, stack, still, stirs>>
  PROVE  /\ ListTypes(S, C)' /\ OnlyLast' /\ DOMAIN fetches' = DOMAIN fetches
         /\ fetches'[i].state = "over" /\ fetches'[i].aborted = fetches[i].aborted
         /\ fetches'[i].answer = fetches[i].answer /\ fetches'[i].query = fetches[i].query
         /\ \A j \in DOMAIN fetches \ {i} : fetches'[j] = fetches[j]
         /\ \A list : Covered(list) => Covered(list)'
<1> DEFINE q == [fetches[i] EXCEPT !.state = "over"]
<1>1. fetches[i] \in Fetches(S, C)
  BY ListFacts
<1>2. /\ q \in Fetches(S, C) /\ q.query = fetches[i].query /\ q.aborted = fetches[i].aborted
      /\ q.state = "over" /\ q.answer = fetches[i].answer
  BY <1>1 DEF Fetches
<1>3. fetches' = [fetches EXCEPT ![i] = q]
  OBVIOUS
<1> HIDE DEF q
<1>4. page' \in Shows(S, C) /\ page'.of = page.of /\ seen' \subseteq S /\ seen \subseteq seen'
  <2>1. CASE fetches[i].aborted
    BY <2>1 DEF ListTypes
  <2>2. CASE ~fetches[i].aborted
    <3>1. fetches[i].query \in [choice : C, offset : Nat] /\ fetches[i].answer \in Pieces(S)
      BY <1>1 DEF Fetches
    <3>2. \A j \in DOMAIN fetches[i].answer.items : fetches[i].answer.items[j] \in S
      <4>1. fetches[i].answer.items \in Seq(S)
        BY <3>1 DEF Pieces
      <4> QED BY <4>1
    <3>3. seen \subseteq S
      BY DEF ListTypes
    <3>4. page.of = fetches[i].query
      BY <2>2 DEF OnlyLast
    <3>5. seen' \subseteq S /\ seen \subseteq seen'
      BY <2>2, <3>2, <3>3
    <3> QED BY <2>2, <3>1, <3>4, <3>5 DEF Shows
  <2> QED BY <2>1, <2>2
<1>5. /\ ListTypes(S, C)' /\ OnlyLast' /\ DOMAIN fetches' = DOMAIN fetches /\ fetches'[i] = q
      /\ \A j \in DOMAIN fetches \ {i} : fetches'[j] = fetches[j]
  BY <1>2, <1>3, <1>4, FetchKeeps
<1>6. ASSUME NEW list, Covered(list) PROVE Covered(list)'
  <2>1. \A n : Saw(list, n) => Saw(list, n)'
    BY <1>4 DEF Saw
  <2>2. CASE fetches[i].aborted
    BY <1>2, <1>4, <1>5, <1>6, <2>1, <2>2 DEF Covered
  <2>3. CASE ~fetches[i].aborted
    <3>1. page'.answer = fetches[i].answer /\ \A j \in DOMAIN fetches[i].answer.items : fetches[i].answer.items[j] \in seen'
      BY <2>3
    <3> QED BY <1>2, <1>5, <1>6, <2>1, <2>3, <3>1 DEF Covered
  <2> QED BY <2>2, <2>3
<1> QED BY <1>2, <1>5, <1>6

-----------------------------------------------------------------------------
(* The pool of skills *)

PoolCuts == Pool!PoolAssumption /\ Pool!List!PageAssumption

\* A list of the filters f: what they let through, in the order they ask for.
Fits(f, items) ==
  /\ \A i \in DOMAIN items : items[i] \in Items /\ Pool!Matches(items[i], f)
  /\ \A i, j \in DOMAIN items : i < j => Pool!Precedes(items[i], items[j], f)

LEMMA FoundFits ==
  ASSUME PoolCuts, NEW ps \in SUBSET Items, NEW f \in Pool!Filters
  PROVE  Pool!Found(ps, f) \in Seq(Items) /\ Fits(f, Pool!Found(ps, f))
<1> DEFINE T == {p \in ps : Pool!Matches(p, f)}
           R == {pair \in Items \X Items : Pool!Precedes(pair[1], pair[2], f)}
           In(s) == /\ s \in [1 .. Cardinality(T) -> T]
                    /\ \A p \in T : \E i \in DOMAIN s : s[i] = p
                    /\ \A i, j \in DOMAIN s : i < j => Pool!Precedes(s[i], s[j], f)
<1>1. /\ NameOf \in [Items -> Nat] /\ IdOf \in [Items -> Nat] /\ IsFiniteSet(Items)
      /\ \A p, q \in Items : IdOf[p] = IdOf[q] => p = q
  BY DEF PoolCuts, Pool!PoolAssumption, Pool!IsFiniteSet, IsFiniteSet
<1>2. Orders(R, Items)
  <2>1. \A p \in Items : <<p, p>> \notin R
    BY <1>1 DEF Pool!Precedes
  <2>2. \A p, q \in Items : p = q \/ <<p, q>> \in R \/ <<q, p>> \in R
    <3> SUFFICES ASSUME NEW p \in Items, NEW q \in Items, p # q PROVE <<p, q>> \in R \/ <<q, p>> \in R
      OBVIOUS
    <3>1. IdOf[p] # IdOf[q] /\ NameOf[p] \in Nat /\ NameOf[q] \in Nat /\ IdOf[p] \in Nat /\ IdOf[q] \in Nat
      BY <1>1
    <3>2. Pool!Precedes(p, q, f) \/ Pool!Precedes(q, p, f)
      BY <3>1 DEF Pool!Precedes
    <3> QED BY <3>2
  <2>3. \A p, q, r \in Items : <<p, q>> \in R /\ <<q, r>> \in R => <<p, r>> \in R
    <3> SUFFICES ASSUME NEW p \in Items, NEW q \in Items, NEW r \in Items,
                        Pool!Precedes(p, q, f), Pool!Precedes(q, r, f)
                 PROVE  Pool!Precedes(p, r, f)
      OBVIOUS
    <3>1. /\ NameOf[p] \in Nat /\ NameOf[q] \in Nat /\ NameOf[r] \in Nat
          /\ IdOf[p] \in Nat /\ IdOf[q] \in Nat /\ IdOf[r] \in Nat
      BY <1>1
    <3> QED BY <3>1 DEF Pool!Precedes
  <2> HIDE DEF R
  <2> QED BY <2>1, <2>2, <2>3 DEF Orders
<1>3. PICK s : ListsBy(s, T, R)
  <2>1. T \in SUBSET Items
    OBVIOUS
  <2> HIDE DEF T, R
  <2> QED BY <1>1, <1>2, <2>1, Sortable
<1>4. In(s)
  BY <1>3 DEF ListsBy
<1>5. Pool!Found(ps, f) = CHOOSE l \in [1 .. Cardinality(T) -> T] :
                            /\ \A p \in T : \E i \in DOMAIN l : l[i] = p
                            /\ \A i, j \in DOMAIN l : i < j => Pool!Precedes(l[i], l[j], f)
  BY DEF Pool!Found, Pool!Sorted, Pool!Cardinality, Cardinality
<1>6. In(Pool!Found(ps, f))
  BY <1>4, <1>5
<1>7. PICK l : l = Pool!Found(ps, f) /\ In(l)
  BY <1>6
<1>8. T \subseteq Items /\ \A p \in T : Pool!Matches(p, f)
  OBVIOUS
<1>9. PICK n \in Nat : n = Cardinality(T)
  BY <1>1, FS_Subset, FS_CardinalityType
<1> HIDE DEF T
<1>10. l \in [1 .. n -> Items] /\ \A i \in DOMAIN l : l[i] \in T
  BY <1>7, <1>8, <1>9
<1>11. l \in Seq(Items)
  BY <1>10
<1> QED BY <1>7, <1>8, <1>10, <1>11 DEF Fits

\* A piece of such a list is one.
LEMMA PieceFits ==
  ASSUME ListLimits, NEW f, NEW list \in Seq(Items), Fits(f, list), NEW n \in Nat
  PROVE  Fits(f, Piece(list, n).items)
<1> DEFINE items == Piece(list, n).items
<1>1. /\ Len(items) \in Nat /\ DOMAIN items = 1 .. Len(items) /\ DOMAIN list = 1 .. Len(list) /\ Len(list) \in Nat
      /\ \A j \in 1 .. Len(items) : n + j \in DOMAIN list /\ items[j] = list[n + j]
  <2>1. /\ Len(items) \in Nat /\ DOMAIN items = 1 .. Len(items)
        /\ \A j \in n + 1 .. n + Len(items) : j \in DOMAIN list /\ list[j] = items[j - n]
    BY PieceFacts
  <2> HIDE DEF items
  <2>2. \A j \in 1 .. Len(items) : n + j \in n + 1 .. n + Len(items) /\ (n + j) - n = j
    BY <2>1
  <2> QED BY <2>1, <2>2
<1> HIDE DEF items
<1>2. \A i, j \in DOMAIN items : i < j => n + i < n + j
  BY <1>1
<1>3. Fits(f, items)
  BY <1>1, <1>2 DEF Fits
<1> QED BY <1>3 DEF items

\* The operators of the list, as the lemmas about lists have them.
LEMMA PoolLists ==
  /\ \A s : Pool!List!Cursor(s) = CursorOf(s)
  /\ Pool!List!Query = Asking(choice, stack)
  /\ Pool!List!NoAnswer = Nothing
  /\ \A q : Pool!List!Sent(q) = SentFor(q)
  /\ Pool!List!PageTypeOK <=> ListTypes(Items, Pool!Filters)
<1>1. \A s : Pool!List!Cursor(s) = CursorOf(s)
  BY DEF Pool!List!Cursor, Pool!List!Last, CursorOf
<1>2. Pool!List!Query = Asking(choice, stack) /\ Pool!List!NoAnswer = Nothing
  BY <1>1 DEF Pool!List!Query, Asking, Pool!List!NoAnswer, Nothing
<1>3. \A q : Pool!List!Sent(q) = SentFor(q)
  BY <1>2 DEF Pool!List!Sent, SentFor
<1>4. Pool!List!PageTypeOK <=> ListTypes(Items, Pool!Filters)
  BY DEF Pool!List!PageTypeOK, ListTypes, Pool!List!Pages, Shows, Pool!List!Requests, Fetches, Pool!List!Answers,
         Pieces, Pool!List!Queries
<1> QED BY <1>1, <1>2, <1>3, <1>4

LEMMA PoolAnswers ==
  ASSUME PoolCuts, NEW ps \in SUBSET Items, rows = ps, NEW c \in Pool!Filters, NEW n \in Nat, NEW q, q = [choice |-> c, offset |-> n]
  PROVE  Pool!List!Answer(q) = Piece(Pool!Found(ps, c), n)
<1> DEFINE l == Pool!Found(ps, c)
<1>1. q.choice = c /\ q.offset = n
  OBVIOUS
<1>2. Len(l) \in Nat
  BY FoundFits
<1>3. Limit \in Nat
  BY DEF PoolCuts, Pool!List!PageAssumption
<1>4. Pool!List!Min({n + Limit, Len(l)}) = IF n + Limit <= Len(l) THEN n + Limit ELSE Len(l)
  <2> HIDE DEF l
  <2> QED BY <1>2, <1>3 DEF Pool!List!Min
<1>5. Pool!List!Slice(l, n) = SubSeq(l, n + 1, IF n + Limit <= Len(l) THEN n + Limit ELSE Len(l))
  BY <1>4 DEF Pool!List!Slice
<1>6. Pool!List!Answer(q) = LET next == n + Len(Pool!List!Slice(l, n)) IN
        [items |-> Pool!List!Slice(l, n), next |-> IF next < Len(l) THEN next ELSE 0]
  BY <1>1 DEF Pool!List!Answer
<1> QED BY <1>5, <1>6 DEF Piece

\* Every answer is for the filters it was asked for; and until somebody changes the
\* list, the pages cover it.
Addressed == history \in Seq(Pool!Filters) /\ position \in DOMAIN history /\ choice = history[position]
AnswersFit ==
  /\ \A i \in DOMAIN fetches : Fits(fetches[i].query.choice, fetches[i].answer.items)
  /\ Fits(page.of.choice, page.answer.items)
PoolInv ==
  /\ ListTypes(Items, Pool!Filters) /\ OnlyLast /\ Addressed /\ AnswersFit
  /\ Covered(Pool!Found(rows, choice))

\* What is there while the lists are looked at.
LEMMA PoolHas ==
  ASSUME PoolCuts, PoolInv
  PROVE  /\ ListLimits /\ ListTypes(Items, Pool!Filters) /\ OnlyLast
         /\ rows \in SUBSET Items /\ choice \in Pool!Filters
         /\ Pool!Found(rows, choice) \in Seq(Items) /\ Fits(choice, Pool!Found(rows, choice))
         /\ \A i \in DOMAIN fetches : fetches[i] \in Fetches(Items, Pool!Filters)
<1>1. ListLimits /\ ListTypes(Items, Pool!Filters) /\ OnlyLast
  BY DEF PoolCuts, Pool!List!PageAssumption, ListLimits, PoolInv
<1>2. rows \in SUBSET Items /\ choice \in Pool!Filters
  BY <1>1 DEF ListTypes
<1>3. \A i \in DOMAIN fetches : fetches[i] \in Fetches(Items, Pool!Filters)
  BY <1>1, ListFacts
<1> QED BY <1>1, <1>2, <1>3, FoundFits

LEMMA NothingFits == \A f : Fits(f, Nothing.items)
BY DEF Fits, Nothing

\* A page is asked for.
LEMMA PoolAsks ==
  ASSUME PoolCuts, PoolInv, NEW c \in Pool!Filters, NEW s \in Seq(Nat), Pool!List!Ask(c, s),
         seen' \subseteq Items, still' \in BOOLEAN, Addressed',
         still' => \A k \in DOMAIN s : Saw(Pool!Found(rows, c), s[k])'
  PROVE  PoolInv'
<1>1. /\ Len(fetches) < MaxAsked /\ choice' = c /\ stack' = s
      /\ fetches' = Append([i \in DOMAIN fetches |-> [fetches[i] EXCEPT !.aborted = TRUE]], SentFor(Asking(c, s)))
      /\ page' = [state |-> "loading", of |-> Asking(c, s), answer |-> Nothing]
      /\ rows' = rows /\ stirs' = stirs
  BY PoolLists DEF Pool!List!Ask, Pool!List!GivenUp, Asking
<1>2. rows' \subseteq Items /\ stirs' \in 0 .. MaxChanges
  BY <1>1, PoolHas DEF ListTypes
<1>3. /\ ListTypes(Items, Pool!Filters)' /\ OnlyLast'
      /\ \A i \in DOMAIN fetches' :
           \/ fetches'[i] = SentFor(Asking(c, s))
           \/ i \in DOMAIN fetches /\ fetches'[i] = [fetches[i] EXCEPT !.aborted = TRUE]
      /\ \A list : (still' => \A k \in DOMAIN s : Saw(list, s[k])') => Covered(list)'
  BY <1>1, <1>2, PoolHas, AskingKeeps
<1>4. Covered(Pool!Found(rows, choice))'
  <2>1. PICK list : list = Pool!Found(rows, c) /\ list = Pool!Found(rows, choice)'
    BY <1>1
  <2>2. still' => \A k \in DOMAIN s : Saw(list, s[k])'
    BY <1>1, <2>1 DEF Saw
  <2>3. Covered(list)'
    BY <1>3, <2>2
  <2> QED BY <2>1, <2>3 DEF Covered, Saw
<1>5. AnswersFit'
  <2>4. ASSUME NEW i \in DOMAIN fetches' PROVE Fits(fetches'[i].query.choice, fetches'[i].answer.items)
    <3>1. CASE fetches'[i] = SentFor(Asking(c, s))
      BY <3>1, NothingFits DEF SentFor
    <3>2. CASE i \in DOMAIN fetches /\ fetches'[i] = [fetches[i] EXCEPT !.aborted = TRUE]
      <4>1. fetches'[i].query = fetches[i].query /\ fetches'[i].answer = fetches[i].answer
        BY <3>2, PoolHas DEF Fetches
      <4> QED BY <3>2, <4>1 DEF PoolInv, AnswersFit
    <3> QED BY <1>3, <3>1, <3>2
  <2>5. Fits(page'.of.choice, page'.answer.items)
    BY <1>1, NothingFits
  <2> QED BY <2>4, <2>5 DEF AnswersFit, Fits
<1> QED BY <1>3, <1>4, <1>5 DEF PoolInv

\* A request comes back.
LEMMA PoolComes ==
  ASSUME PoolCuts, PoolInv, NEW i, Pool!List!Comes(i), UNCHANGED <<history, position>>
  PROVE  PoolInv'
<1>0. PICK list : list = Pool!Found(rows, choice)
  OBVIOUS
<1>1. /\ ListLimits /\ ListTypes(Items, Pool!Filters) /\ OnlyLast /\ i \in DOMAIN fetches
      /\ rows \in SUBSET Items /\ choice \in Pool!Filters /\ list \in Seq(Items)
      /\ fetches[i] \in Fetches(Items, Pool!Filters)
  BY <1>0, PoolHas DEF Pool!List!Comes
<1>2. PICK c \in Pool!Filters, n \in Nat : fetches[i].query = [choice |-> c, offset |-> n]
  BY <1>1 DEF Fetches
<1>3. UNCHANGED <<rows, choice, stack, still, stirs, history, position>>
  BY DEF Pool!List!Comes, Pool!List!Transport, Pool!List!Serve, Pool!List!Lose, Pool!List!Deliver,
         Pool!List!DeliverError
<1>4. Addressed'
  BY <1>3 DEF PoolInv, Addressed
<1>5. list = Pool!Found(rows, choice)'
  BY <1>0, <1>3
<1>6. Covered(list)
  BY <1>0 DEF PoolInv
<1>7. ASSUME ListTypes(Items, Pool!Filters)', OnlyLast', AnswersFit', Covered(list) => Covered(list)' PROVE PoolInv'
  <2>1. Covered(list)'
    BY <1>6, <1>7
  <2>2. Covered(Pool!Found(rows, choice))'
    BY <1>5, <2>1 DEF Covered, Saw
  <2> QED BY <1>4, <1>7, <2>2 DEF PoolInv
<1>8. CASE Pool!List!Serve(i)
  <2>1. PICK a : a = Piece(Pool!Found(rows, c), n)
    OBVIOUS
  <2>2. a = Pool!List!Answer(fetches[i].query)
    BY <1>1, <1>2, <2>1, PoolAnswers
  <2>3. Pool!Found(rows, c) \in Seq(Items) /\ Fits(c, Pool!Found(rows, c))
    BY <1>1, FoundFits
  <2>4. a \in Pieces(Items) /\ Fits(c, a.items)
    BY <1>1, <2>1, <2>3, PieceFacts, PieceFits
  <2>5. /\ fetches[i].state = "sent"
        /\ fetches' = [fetches EXCEPT ![i].state = "answered", ![i].answer = a]
        /\ UNCHANGED <<rows, choice, stack, page, seen, still, stirs>>
    BY <1>8, <2>2 DEF Pool!List!Serve
  <2>6. /\ ListTypes(Items, Pool!Filters)' /\ OnlyLast' /\ DOMAIN fetches' = DOMAIN fetches
        /\ fetches'[i].answer = a /\ fetches'[i].query = fetches[i].query
        /\ \A j \in DOMAIN fetches \ {i} : fetches'[j] = fetches[j]
        /\ \A l : /\ Covered(l)
                  /\ still /\ ~fetches[i].aborted => a = Piece(l, fetches[i].query.offset)
                  => Covered(l)'
    <3>1. a \in Pieces(Items)
      BY <2>4
    <3>2. /\ ListTypes(Items, Pool!Filters)' /\ OnlyLast' /\ DOMAIN fetches' = DOMAIN fetches
          /\ fetches'[i].answer = a /\ fetches'[i].query = fetches[i].query
          /\ fetches'[i].aborted = fetches[i].aborted /\ fetches'[i].state = "answered"
          /\ \A j \in DOMAIN fetches \ {i} : fetches'[j] = fetches[j]
          /\ \A l : /\ Covered(l)
                    /\ still /\ ~fetches[i].aborted => a = Piece(l, fetches[i].query.offset)
                    => Covered(l)'
      BY <1>1, <2>5, <3>1, ServingKeeps
    <3> QED BY <3>2
  <2>7. ~fetches[i].aborted => a = Piece(list, fetches[i].query.offset)
    <3>1. ~fetches[i].aborted => c = choice
      BY <1>1, <1>2 DEF OnlyLast, Asking
    <3> QED BY <1>0, <1>2, <2>1, <3>1
  <2>8. AnswersFit'
    BY <1>2, <2>4, <2>5, <2>6 DEF AnswersFit, PoolInv, Fits
  <2> QED BY <1>7, <2>6, <2>7, <2>8
<1>9. CASE Pool!List!Lose(i) \/ Pool!List!DeliverError(i)
  <2>1. PICK state \in {"failed", "over"} :
          /\ fetches' = [fetches EXCEPT ![i].state = state]
          /\ \/ page' = page
             \/ page' = [state |-> "error", of |-> fetches[i].query, answer |-> Nothing] /\ ~fetches[i].aborted
          /\ UNCHANGED <<rows, choice, stack, seen, still, stirs>>
    BY <1>9, PoolLists, Zenon DEF Pool!List!Lose, Pool!List!DeliverError, Pool!List!ErrorShown
  <2>2. /\ ListTypes(Items, Pool!Filters)' /\ OnlyLast' /\ DOMAIN fetches' = DOMAIN fetches
        /\ fetches'[i].answer = fetches[i].answer /\ fetches'[i].query = fetches[i].query
        /\ \A j \in DOMAIN fetches \ {i} : fetches'[j] = fetches[j]
        /\ \A l : Covered(l) => Covered(l)'
    BY <1>1, <2>1, FailingKeeps
  <2>3. \A j \in DOMAIN fetches : fetches'[j].answer = fetches[j].answer /\ fetches'[j].query = fetches[j].query
    BY <2>2
  <2>4. Fits(page'.of.choice, page'.answer.items)
    <3>1. CASE page' = page
      BY <3>1 DEF PoolInv, AnswersFit
    <3>2. CASE page'.answer = Nothing
      BY <3>2, NothingFits
    <3> QED BY <2>1, <3>1, <3>2
  <2>5. AnswersFit'
    <3>1. \A j \in DOMAIN fetches' : Fits(fetches'[j].query.choice, fetches'[j].answer.items)
      BY <2>2, <2>3 DEF PoolInv, AnswersFit
    <3> QED BY <2>4, <3>1 DEF AnswersFit, Fits
  <2> QED BY <1>7, <2>2, <2>5
<1>10. CASE Pool!List!Deliver(i)
  <2>1. /\ fetches[i].state = "answered" /\ fetches' = [fetches EXCEPT ![i].state = "over"]
        /\ IF fetches[i].aborted THEN UNCHANGED <<page, seen>>
           ELSE /\ page' = [state |-> IF fetches[i].answer.items = <<>> /\ fetches[i].query.offset = 0
                                      THEN "empty" ELSE "success",
                            of |-> fetches[i].query, answer |-> fetches[i].answer]
                /\ seen' = seen \cup {fetches[i].answer.items[j] : j \in DOMAIN fetches[i].answer.items}
        /\ UNCHANGED <<rows, choice, stack, still, stirs>>
    BY <1>10 DEF Pool!List!Deliver, Pool!List!Shown, Pool!List!ToSet
  <2>2. /\ ListTypes(Items, Pool!Filters)' /\ OnlyLast' /\ DOMAIN fetches' = DOMAIN fetches
        /\ fetches'[i].answer = fetches[i].answer /\ fetches'[i].query = fetches[i].query
        /\ \A j \in DOMAIN fetches \ {i} : fetches'[j] = fetches[j]
        /\ \A l : Covered(l) => Covered(l)'
    BY <1>1, <2>1, DeliveringKeeps
  <2>3. AnswersFit'
    BY <1>1, <2>1, <2>2 DEF AnswersFit, PoolInv, Fits
  <2> QED BY <1>7, <2>2, <2>3
<1> QED BY <1>8, <1>9, <1>10 DEF Pool!List!Comes, Pool!List!Transport

\* Somebody changes the list.
LEMMA PoolStirs ==
  ASSUME PoolCuts, PoolInv, NEW x \in Items, Pool!List!Change(x), UNCHANGED <<history, position>>
  PROVE  PoolInv'
<1>1. /\ rows' \subseteq Items /\ stirs' \in 0 .. MaxChanges /\ still' = FALSE
      /\ UNCHANGED <<choice, stack, page, fetches, seen>>
  BY PoolHas DEF Pool!List!Change, ListTypes, ListLimits
<1>2. ListTypes(Items, Pool!Filters)'
  BY <1>1, PoolHas DEF ListTypes
<1>3. OnlyLast' /\ Addressed' /\ AnswersFit' /\ \A l : Covered(l)'
  BY <1>1 DEF PoolInv, OnlyLast, Addressed, AnswersFit, Fits, Covered
<1>4. Covered(Pool!Found(rows, choice))'
  BY <1>1 DEF Covered
<1> QED BY <1>2, <1>3, <1>4 DEF PoolInv

\* The pages turn, or the user goes to another list.
LEMMA PoolTurns ==
  ASSUME PoolCuts, PoolInv, Pool!Turn, UNCHANGED <<history, position>>
  PROVE  PoolInv'
<1>0. PICK list : list = Pool!Found(rows, choice)
  OBVIOUS
<1>1. /\ ListLimits /\ ListTypes(Items, Pool!Filters) /\ OnlyLast /\ choice \in Pool!Filters /\ list \in Seq(Items)
      /\ Covered(list)
  BY <1>0, PoolHas DEF PoolInv
<1>2. PICK s : /\ Pool!List!Ask(choice, s) /\ UNCHANGED <<seen, still>>
               /\ \/ (page.state = "success" /\ page.answer.next # 0 /\ s = Append(stack, page.answer.next))
                  \/ (stack # <<>> /\ s = SubSeq(stack, 1, Len(stack) - 1))
                  \/ s = stack
  BY DEF Pool!Turn, Pool!List!NextPage, Pool!List!PreviousPage, Pool!List!Reload, Pool!List!Front
<1>3. choice' = choice
  BY <1>2 DEF Pool!List!Ask
<1>4. Addressed'
  BY <1>3 DEF PoolInv, Addressed
<1>5. seen' \subseteq Items /\ still' \in BOOLEAN
  BY <1>1, <1>2 DEF ListTypes
<1>6. s \in Seq(Nat) /\ (still = TRUE => \A k \in DOMAIN s : Saw(list, s[k])')
  BY <1>1, <1>2, TurningKeeps
<1>7. PICK c \in Pool!Filters : c = choice
  BY <1>1
<1>8. still' => \A k \in DOMAIN s : Saw(Pool!Found(rows, c), s[k])'
  <2>1. list = Pool!Found(rows, c)'
    BY <1>0, <1>2, <1>7 DEF Pool!List!Ask
  <2> QED BY <1>2, <1>5, <1>6, <2>1 DEF Saw
<1>9. Pool!List!Ask(c, s)
  BY <1>2, <1>7
<1> QED BY <1>4, <1>5, <1>6, <1>8, <1>9, PoolAsks

LEMMA PoolGoes ==
  ASSUME PoolCuts, PoolInv,
         \/ \E f \in Pool!Filters : Pool!UpdateParams(f)
         \/ \E i \in 1 .. MaxHistory : Pool!Travel(i)
  PROVE  PoolInv'
<1>1. history \in Seq(Pool!Filters) /\ position \in DOMAIN history
  BY DEF PoolInv, Addressed
<1>2. PICK m \in Nat : Len(history) = m /\ DOMAIN history = 1 .. m
  BY <1>1, LenProperties
<1>3. CASE \E f \in Pool!Filters : Pool!UpdateParams(f)
  <2>1. PICK f \in Pool!Filters : Pool!UpdateParams(f)
    BY <1>3
  <2>2. /\ Pool!List!Ask(f, <<>>) /\ seen' = {} /\ still' = TRUE
        /\ history' = Append(SubSeq(history, 1, position), f) /\ position' = position + 1
    BY <2>1 DEF Pool!UpdateParams, Pool!List!Open, Pool!List!Fresh
  <2>3. Addressed'
    <3>1. position \in Nat \ {0} /\ position <= m
      BY <1>1, <1>2
    <3>2. PICK h \in Seq(Pool!Filters) : h = SubSeq(history, 1, position) /\ Len(h) = position
      <4>1. \A k \in 1 .. position : history[k] \in Pool!Filters
        BY <1>1, <1>2, <3>1
      <4>2. 1 \in Int /\ position \in Int
        BY <3>1
      <4>3. /\ SubSeq(history, 1, position) \in Seq(Pool!Filters)
            /\ Len(SubSeq(history, 1, position)) = IF 1 <= position THEN position - 1 + 1 ELSE 0
        BY <4>1, <4>2, SubSeqProperties
      <4>4. Len(SubSeq(history, 1, position)) = position
        BY <3>1, <4>3
      <4> QED BY <4>3, <4>4
    <3>3. PICK p \in Nat : p = position
      BY <3>1
    <3>4. /\ Append(h, f) \in Seq(Pool!Filters) /\ Len(Append(h, f)) = p + 1 /\ Append(h, f)[p + 1] = f
      BY <3>2, <3>3, AppendProperties
    <3>5. DOMAIN Append(h, f) = 1 .. p + 1
      BY <3>4, LenProperties
    <3>6. choice' = f
      BY <2>2 DEF Pool!List!Ask
    <3> QED BY <2>2, <3>2, <3>3, <3>4, <3>5, <3>6 DEF Addressed
  <2>4. seen' \subseteq Items /\ still' \in BOOLEAN /\ <<>> \in Seq(Nat) /\ DOMAIN <<>> = {}
    BY <2>2
  <2> QED BY <2>2, <2>3, <2>4, PoolAsks
<1>4. CASE \E i \in 1 .. MaxHistory : Pool!Travel(i)
  <2>1. PICK i : Pool!Travel(i)
    BY <1>4
  <2>2. /\ i \in DOMAIN history /\ Pool!List!Ask(history[i], stack) /\ seen' = {} /\ still' = FALSE
        /\ position' = i /\ history' = history
    BY <2>1 DEF Pool!Travel
  <2>3. history[i] \in Pool!Filters /\ stack \in Seq(Nat)
    BY <1>1, <2>2, PoolHas DEF ListTypes
  <2>4. choice' = history[i]
    BY <2>2 DEF Pool!List!Ask
  <2>5. Addressed'
    BY <1>1, <2>2, <2>4 DEF Addressed
  <2>6. seen' \subseteq Items /\ still' \in BOOLEAN
    BY <2>2
  <2> QED BY <2>2, <2>3, <2>5, <2>6, PoolAsks
<1> QED BY <1>3, <1>4

LEMMA PoolStarts == ASSUME PoolCuts, Pool!Init PROVE PoolInv
<1>1. /\ rows = Items /\ choice = Pool!NoFilters /\ stack = <<>> /\ seen = {} /\ still = TRUE /\ stirs = 0
      /\ fetches = <<SentFor(Asking(choice, stack))>>
      /\ page = [state |-> "loading", of |-> Asking(choice, stack), answer |-> Nothing]
      /\ history = <<choice>> /\ position = 1
  BY PoolLists DEF Pool!Init, Pool!List!InitPage, Asking, CursorOf
<1>2. choice \in Pool!Filters
  BY <1>1 DEF Pool!NoFilters, Pool!Filters
<1>3. Asking(choice, stack) \in [choice : Pool!Filters, offset : Nat] /\ Nothing \in Pieces(Items)
  BY <1>1, <1>2 DEF Asking, CursorOf, Nothing, Pieces
<1>4. SentFor(Asking(choice, stack)) \in Fetches(Items, Pool!Filters) /\ page \in Shows(Items, Pool!Filters)
  BY <1>1, <1>3 DEF SentFor, Fetches, Shows
<1>5. MaxAsked \in Nat \ {0} /\ MaxChanges \in Nat
  BY DEF PoolCuts, Pool!List!PageAssumption
<1>6. ListTypes(Items, Pool!Filters)
  <2>1. fetches \in Seq(Fetches(Items, Pool!Filters)) /\ stack \in Seq(Nat)
    BY <1>1, <1>4
  <2> QED BY <1>1, <1>2, <1>4, <1>5, <2>1 DEF ListTypes
<1>7. OnlyLast
  BY <1>1, <1>5 DEF OnlyLast, SentFor
<1>8. Addressed
  <2>1. history \in Seq(Pool!Filters)
    BY <1>1, <1>2
  <2> QED BY <1>1, <2>1 DEF Addressed
<1>9. AnswersFit
  BY <1>1, NothingFits DEF AnswersFit, SentFor
<1>10. Covered(Pool!Found(rows, choice))
  BY <1>1 DEF Covered, SentFor
<1> QED BY <1>6, <1>7, <1>8, <1>9, <1>10 DEF PoolInv

LEMMA PoolTells ==
  ASSUME PoolCuts, PoolInv
  PROVE  Pool!TypeOK /\ Pool!ShownIsAsked /\ Pool!ShownMatches /\ Pool!PagesCoverTheList
<1>1. Pool!TypeOK
  BY PoolLists DEF Pool!TypeOK, PoolInv, Addressed
<1>2. Pool!ShownIsAsked
  BY PoolLists DEF Pool!ShownIsAsked, Pool!List!ShownIsAsked, PoolInv, OnlyLast
<1>3. Pool!ShownMatches
  <2> DEFINE items == page.answer.items
  <2>1. page.of.choice = choice
    BY DEF PoolInv, OnlyLast, Asking
  <2>2. Fits(choice, items)
    BY <2>1 DEF PoolInv, AnswersFit
  <2>3. /\ \A p \in Items : NameOf[p] \in Nat /\ IdOf[p] \in Nat
        /\ items \in Seq(Items)
    BY PoolHas DEF PoolCuts, Pool!PoolAssumption, ListTypes, Shows, Pieces
  <2> HIDE DEF items
  <2>4. ASSUME NEW i \in DOMAIN items
        PROVE  /\ choice.grade # NoCondition => GradeOf[items[i]] = choice.grade
               /\ choice.keyword # NoCondition => choice.keyword \in TextOf[items[i]] \cup {TeamOf[items[i]]}
    BY <2>2 DEF Fits, Pool!Matches
  <2>5. ASSUME NEW i \in DOMAIN items, NEW j \in DOMAIN items, i < j
        PROVE  /\ items[i] # items[j]
               /\ IF choice.sort = "name_asc" THEN NameOf[items[i]] <= NameOf[items[j]]
                  ELSE NameOf[items[j]] <= NameOf[items[i]]
    <3>1. Pool!Precedes(items[i], items[j], choice) /\ items[i] \in Items /\ items[j] \in Items
      BY <2>2, <2>5 DEF Fits
    <3>2. /\ NameOf[items[i]] \in Nat /\ IdOf[items[i]] \in Nat
          /\ NameOf[items[j]] \in Nat /\ IdOf[items[j]] \in Nat
      BY <2>3, <3>1
    <3> QED BY <3>1, <3>2 DEF Pool!Precedes
  <2> QED BY <2>4, <2>5 DEF Pool!ShownMatches, items
<1>4. Pool!PagesCoverTheList
  <2> DEFINE list == Pool!Found(rows, choice)
  <2> SUFFICES ASSUME still = TRUE, page.state = "success", page.answer.next = 0
               PROVE  Pool!List!ToSet(list) \subseteq seen
    BY PoolHas DEF Pool!PagesCoverTheList, Pool!List!PagesCoverTheList, ListTypes
  <2>1. /\ ListLimits /\ ListTypes(Items, Pool!Filters) /\ OnlyLast /\ list \in Seq(Items) /\ Covered(list)
    BY PoolHas DEF PoolInv
  <2> HIDE DEF list
  <2>2. \A j \in DOMAIN list : list[j] \in seen
    BY <2>1, SawTheList
  <2> QED BY <2>2 DEF Pool!List!ToSet
<1> QED BY <1>1, <1>2, <1>3, <1>4

\* The pool of the catalogue, for any packages, filters and size of a page: however the
\* answers overtake one another, what the page shows answers what was asked for last,
\* is found by its filters, and over rows nobody changes the pages leave no package out
\* (use-page-state.ts, listPackages).
THEOREM PoolShowsWhatIsAsked ==
  ASSUME PoolCuts
  PROVE  Pool!Spec => [](Pool!TypeOK /\ Pool!ShownIsAsked /\ Pool!ShownMatches /\ Pool!PagesCoverTheList)
<1>1. Pool!Init => PoolInv
  BY PoolStarts
<1>2. PoolInv /\ [Pool!Next]_(Pool!poolVars) => PoolInv'
  <2> SUFFICES ASSUME PoolInv, [Pool!Next]_(Pool!poolVars) PROVE PoolInv'
    OBVIOUS
  <2>1. CASE Pool!Next
    <3>1. CASE Pool!Turn /\ UNCHANGED <<history, position>>
      BY <3>1, PoolTurns
    <3>2. CASE \E i \in 1 .. MaxAsked : Pool!List!Comes(i) /\ UNCHANGED <<history, position>>
      BY <3>2, PoolComes
    <3>3. CASE \E p \in Items : Pool!List!Change(p) /\ UNCHANGED <<history, position>>
      BY <3>3, PoolStirs
    <3>4. CASE \/ \E f \in Pool!Filters : Pool!UpdateParams(f)
               \/ \E i \in 1 .. MaxHistory : Pool!Travel(i)
      BY <3>4, PoolGoes
    <3> QED BY <2>1, <3>1, <3>2, <3>3, <3>4 DEF Pool!Next
  <2>2. CASE UNCHANGED Pool!poolVars
    BY <2>2 DEF Pool!poolVars, PoolInv, ListTypes, OnlyLast, Addressed, AnswersFit, Fits, Covered, Saw
  <2> QED BY <2>1, <2>2
<1>3. PoolInv => Pool!TypeOK /\ Pool!ShownIsAsked /\ Pool!ShownMatches /\ Pool!PagesCoverTheList
  BY PoolTells
<1> QED BY <1>1, <1>2, <1>3, PTL DEF Pool!Spec

-----------------------------------------------------------------------------
(* The packages somebody maintains *)

HubCuts == Hub!HubAssumption /\ Hub!List!PageAssumption
Rows == Items \cup {Grant}

LEMMA MaintainedFits ==
  ASSUME HubCuts, NEW ps \in SUBSET Rows, NEW s \in Hub!Scopes
  PROVE  /\ Hub!Maintained(ps, s) \in Seq(Rows)
         /\ \A i \in DOMAIN Hub!Maintained(ps, s) : Hub!Maintained(ps, s)[i] \in Hub!InScope(ps, s)
<1> DEFINE T == Hub!InScope(ps, s)
           R == {pair \in Items \X Items : PlaceOf[pair[1]] < PlaceOf[pair[2]]}
           In(l) == /\ l \in [1 .. Cardinality(T) -> T]
                    /\ \A p \in T : \E i \in DOMAIN l : l[i] = p
                    /\ \A i, j \in DOMAIN l : i < j => PlaceOf[l[i]] < PlaceOf[l[j]]
<1>1. /\ PlaceOf \in [Items -> Nat] /\ IsFiniteSet(Items) /\ Mine \subseteq Items /\ Ours \subseteq Items
      /\ \A p, q \in Items : PlaceOf[p] = PlaceOf[q] => p = q
  BY DEF HubCuts, Hub!HubAssumption, Hub!IsFiniteSet, IsFiniteSet
<1>2. Orders(R, Items)
  <2>1. \A p \in Items : PlaceOf[p] \in Nat
    BY <1>1
  <2> QED BY <1>1, <2>1 DEF Orders
<1>3. T \in SUBSET Items
  BY <1>1 DEF Hub!InScope, Rows
<1>4. PICK l : ListsBy(l, T, R)
  <2> HIDE DEF T, R
  <2> QED BY <1>1, <1>2, <1>3, Sortable
<1>5. In(l)
  BY <1>4 DEF ListsBy
<1>6. Hub!Maintained(ps, s) = CHOOSE k \in [1 .. Cardinality(T) -> T] :
                                /\ \A p \in T : \E i \in DOMAIN k : k[i] = p
                                /\ \A i, j \in DOMAIN k : i < j => PlaceOf[k[i]] < PlaceOf[k[j]]
  BY DEF Hub!Maintained, Hub!Sorted, Hub!Cardinality, Cardinality
<1>7. In(Hub!Maintained(ps, s))
  BY <1>5, <1>6
<1>8. PICK k : k = Hub!Maintained(ps, s) /\ In(k)
  BY <1>7
<1>9. PICK n \in Nat : n = Cardinality(T)
  BY <1>1, <1>3, FS_Subset, FS_CardinalityType
<1> HIDE DEF T
<1>10. k \in [1 .. n -> Rows] /\ \A i \in DOMAIN k : k[i] \in T
  BY <1>3, <1>8, <1>9 DEF Rows
<1>11. k \in Seq(Rows)
  BY <1>10
<1> QED BY <1>8, <1>10, <1>11 DEF T

LEMMA HubLists ==
  /\ \A s : Hub!List!Cursor(s) = CursorOf(s)
  /\ Hub!List!Query = Asking(choice, stack)
  /\ Hub!List!NoAnswer = Nothing
  /\ \A q : Hub!List!Sent(q) = SentFor(q)
  /\ Hub!List!PageTypeOK <=> ListTypes(Rows, Hub!Scopes)
<1>1. \A s : Hub!List!Cursor(s) = CursorOf(s)
  BY DEF Hub!List!Cursor, Hub!List!Last, CursorOf
<1>2. Hub!List!Query = Asking(choice, stack) /\ Hub!List!NoAnswer = Nothing
  BY <1>1 DEF Hub!List!Query, Asking, Hub!List!NoAnswer, Nothing
<1>3. \A q : Hub!List!Sent(q) = SentFor(q)
  BY <1>2 DEF Hub!List!Sent, SentFor
<1>4. Hub!List!PageTypeOK <=> ListTypes(Rows, Hub!Scopes)
  BY DEF Hub!List!PageTypeOK, ListTypes, Hub!List!Pages, Shows, Hub!List!Requests, Fetches, Hub!List!Answers,
         Pieces, Hub!List!Queries, Rows
<1> QED BY <1>1, <1>2, <1>3, <1>4

LEMMA HubAnswers ==
  ASSUME HubCuts, NEW ps \in SUBSET Rows, rows = ps, NEW c \in Hub!Scopes, NEW n \in Nat, NEW q,
         q = [choice |-> c, offset |-> n]
  PROVE  Hub!List!Answer(q) = Piece(Hub!Maintained(ps, c), n)
<1> DEFINE l == Hub!Maintained(ps, c)
<1>1. q.choice = c /\ q.offset = n
  OBVIOUS
<1>2. Len(l) \in Nat
  BY MaintainedFits
<1>3. Limit \in Nat
  BY DEF HubCuts, Hub!List!PageAssumption
<1>4. Hub!List!Min({n + Limit, Len(l)}) = IF n + Limit <= Len(l) THEN n + Limit ELSE Len(l)
  <2> HIDE DEF l
  <2> QED BY <1>2, <1>3 DEF Hub!List!Min
<1>5. Hub!List!Slice(l, n) = SubSeq(l, n + 1, IF n + Limit <= Len(l) THEN n + Limit ELSE Len(l))
  BY <1>4 DEF Hub!List!Slice
<1>6. Hub!List!Answer(q) = LET next == n + Len(Hub!List!Slice(l, n)) IN
        [items |-> Hub!List!Slice(l, n), next |-> IF next < Len(l) THEN next ELSE 0]
  BY <1>1 DEF Hub!List!Answer
<1> QED BY <1>5, <1>6 DEF Piece

\* What is answered without the right to see all is of the team; what is shown was
\* told to be of the tab.
ToldTypes == canSeeAll \in BOOLEAN /\ told \in [1 .. MaxAsked -> [scope : Hub!Scopes, all : BOOLEAN]]
TeamWithoutRight ==
  \A i \in DOMAIN fetches : fetches[i].state = "answered" /\ ~told[i].all =>
    \A j \in DOMAIN fetches[i].answer.items : fetches[i].answer.items[j] \in Ours
TabTold ==
  page.state \in {"success", "empty"} =>
    \E i \in DOMAIN fetches : /\ fetches[i].state = "over" /\ ~fetches[i].aborted
                             /\ fetches[i].answer = page.answer /\ told[i].scope = choice
HubInv ==
  /\ ListTypes(Rows, Hub!Scopes) /\ OnlyLast /\ ToldTypes /\ TeamWithoutRight /\ TabTold
  /\ Covered(Hub!Maintained(rows, choice))

LEMMA HubHas ==
  ASSUME HubCuts, HubInv
  PROVE  /\ ListLimits /\ ListTypes(Rows, Hub!Scopes) /\ OnlyLast
         /\ rows \in SUBSET Rows /\ choice \in Hub!Scopes
         /\ Hub!Maintained(rows, choice) \in Seq(Rows)
         /\ \A i \in DOMAIN fetches : fetches[i] \in Fetches(Rows, Hub!Scopes) /\ i \in 1 .. MaxAsked
<1>1. ListLimits /\ ListTypes(Rows, Hub!Scopes) /\ OnlyLast
  BY DEF HubCuts, Hub!List!PageAssumption, ListLimits, HubInv
<1>2. rows \in SUBSET Rows /\ choice \in Hub!Scopes
  BY <1>1 DEF ListTypes
<1>3. /\ \A i \in DOMAIN fetches : fetches[i] \in Fetches(Rows, Hub!Scopes)
      /\ DOMAIN fetches = 1 .. Len(fetches) /\ Len(fetches) \in Nat
  BY <1>1, ListFacts
<1>4. \A i \in DOMAIN fetches : i \in 1 .. MaxAsked
  BY <1>1, <1>3 DEF OnlyLast, ListLimits
<1> QED BY <1>1, <1>2, <1>3, <1>4, MaintainedFits

LEMMA HubAsks ==
  ASSUME HubCuts, HubInv, NEW c \in Hub!Scopes, NEW s \in Seq(Nat), Hub!List!Ask(c, s),
         seen' \subseteq Rows, still' \in BOOLEAN, canSeeAll' \in BOOLEAN, told' = told,
         still' => \A k \in DOMAIN s : Saw(Hub!Maintained(rows, c), s[k])'
  PROVE  HubInv'
<1>1. /\ Len(fetches) < MaxAsked /\ choice' = c /\ stack' = s
      /\ fetches' = Append([i \in DOMAIN fetches |-> [fetches[i] EXCEPT !.aborted = TRUE]], SentFor(Asking(c, s)))
      /\ page' = [state |-> "loading", of |-> Asking(c, s), answer |-> Nothing]
      /\ rows' = rows /\ stirs' = stirs
  BY HubLists DEF Hub!List!Ask, Hub!List!GivenUp, Asking
<1>2. rows' \subseteq Rows /\ stirs' \in 0 .. MaxChanges
  BY <1>1, HubHas DEF ListTypes
<1>3. /\ ListTypes(Rows, Hub!Scopes)' /\ OnlyLast'
      /\ \A i \in DOMAIN fetches' :
           \/ fetches'[i] = SentFor(Asking(c, s))
           \/ i \in DOMAIN fetches /\ fetches'[i] = [fetches[i] EXCEPT !.aborted = TRUE]
      /\ \A list : (still' => \A k \in DOMAIN s : Saw(list, s[k])') => Covered(list)'
  BY <1>1, <1>2, HubHas, AskingKeeps
<1>4. Covered(Hub!Maintained(rows, choice))'
  <2>1. PICK list : list = Hub!Maintained(rows, c) /\ list = Hub!Maintained(rows, choice)'
    BY <1>1
  <2>2. still' => \A k \in DOMAIN s : Saw(list, s[k])'
    BY <1>1, <2>1 DEF Saw
  <2>3. Covered(list)'
    BY <1>3, <2>2
  <2> QED BY <2>1, <2>3 DEF Covered, Saw
<1>5. TeamWithoutRight'
  <2> SUFFICES ASSUME NEW i \in DOMAIN fetches', fetches'[i].state = "answered", ~told'[i].all,
                      NEW j \in DOMAIN fetches'[i].answer.items
               PROVE  fetches'[i].answer.items[j] \in Ours
    BY DEF TeamWithoutRight
  <2>1. i \in DOMAIN fetches /\ fetches'[i] = [fetches[i] EXCEPT !.aborted = TRUE]
    BY <1>3 DEF SentFor
  <2>2. fetches'[i].state = fetches[i].state /\ fetches'[i].answer = fetches[i].answer
    BY <2>1, HubHas DEF Fetches
  <2> QED BY <2>1, <2>2 DEF HubInv, TeamWithoutRight
<1>6. TabTold' /\ ToldTypes'
  BY <1>1 DEF TabTold, ToldTypes, HubInv
<1> QED BY <1>3, <1>4, <1>5, <1>6 DEF HubInv

\* A request comes back and the tab stays.
LEMMA HubComes ==
  ASSUME HubCuts, HubInv, NEW i \in DOMAIN fetches,
         \/ Hub!Serve(i)
         \/ Hub!Deliver(i)
         \/ (Hub!List!Lose(i) \/ Hub!List!DeliverError(i)) /\ UNCHANGED Hub!hubOwn
  PROVE  HubInv'
<1>0. PICK list : list = Hub!Maintained(rows, choice)
  OBVIOUS
<1>1. /\ ListLimits /\ ListTypes(Rows, Hub!Scopes) /\ OnlyLast /\ i \in 1 .. MaxAsked
      /\ rows \in SUBSET Rows /\ choice \in Hub!Scopes /\ list \in Seq(Rows)
      /\ fetches[i] \in Fetches(Rows, Hub!Scopes)
      /\ ToldTypes /\ TeamWithoutRight /\ TabTold
  BY <1>0, HubHas DEF HubInv
<1>2. PICK c \in Hub!Scopes, n \in Nat : fetches[i].query = [choice |-> c, offset |-> n]
  BY <1>1 DEF Fetches
<1>3. UNCHANGED <<rows, choice, stack, still, stirs>>
  BY DEF Hub!Serve, Hub!Deliver, Hub!List!Serve, Hub!List!Lose, Hub!List!Deliver, Hub!List!DeliverError
<1>5. list = Hub!Maintained(rows, choice)'
  BY <1>0, <1>3
<1>6. Covered(list)
  BY <1>0 DEF HubInv
<1>7. ASSUME ListTypes(Rows, Hub!Scopes)', OnlyLast', ToldTypes', TeamWithoutRight', TabTold',
             Covered(list) => Covered(list)'
      PROVE  HubInv'
  <2>1. Covered(list)'
    BY <1>6, <1>7
  <2>2. Covered(Hub!Maintained(rows, choice))'
    BY <1>5, <2>1 DEF Covered, Saw
  <2> QED BY <1>7, <2>2 DEF HubInv
<1>8. CASE Hub!Serve(i)
  <2>1. PICK a : a = Piece(Hub!Maintained(rows, c), n)
    OBVIOUS
  <2>2. a = Hub!List!Answer(fetches[i].query)
    BY <1>1, <1>2, <2>1, HubAnswers
  <2>3. /\ Hub!Maintained(rows, c) \in Seq(Rows)
        /\ \A j \in DOMAIN Hub!Maintained(rows, c) : Hub!Maintained(rows, c)[j] \in Hub!InScope(rows, c)
    BY <1>1, MaintainedFits
  <2>4. a \in Pieces(Rows) /\ \A j \in DOMAIN a.items : a.items[j] \in Hub!InScope(rows, c)
    <3>1. PICK l \in Seq(Rows) : l = Hub!Maintained(rows, c)
      BY <2>3
    <3>2. /\ a \in Pieces(Rows) /\ Len(a.items) \in Nat /\ DOMAIN a.items = 1 .. Len(a.items)
          /\ \A j \in n + 1 .. n + Len(a.items) : j \in DOMAIN l /\ l[j] = a.items[j - n]
      BY SMTT(30), <1>1, <2>1, <3>1, PieceFacts
    <3>3. \A j \in 1 .. Len(a.items) : n + j \in n + 1 .. n + Len(a.items) /\ (n + j) - n = j
      BY <3>2
    <3> QED BY <2>3, <3>1, <3>2, <3>3
  <2>5. /\ fetches[i].state = "sent"
        /\ fetches' = [fetches EXCEPT ![i].state = "answered", ![i].answer = a]
        /\ UNCHANGED <<rows, choice, stack, page, seen, still, stirs>>
    BY <1>8, <2>2 DEF Hub!Serve, Hub!List!Serve
  <2>6. told' = [told EXCEPT ![i] = [scope |-> Hub!Allowed(rows, c), all |-> Grant \in rows]] /\ canSeeAll' = canSeeAll
    BY <1>2, <1>8 DEF Hub!Serve
  <2>7. a \in Pieces(Rows)
    BY <2>4
  <2>8. /\ ListTypes(Rows, Hub!Scopes)' /\ OnlyLast' /\ DOMAIN fetches' = DOMAIN fetches
        /\ fetches'[i].answer = a /\ fetches'[i].query = fetches[i].query
        /\ fetches'[i].aborted = fetches[i].aborted /\ fetches'[i].state = "answered"
        /\ \A j \in DOMAIN fetches \ {i} : fetches'[j] = fetches[j]
        /\ \A l : /\ Covered(l)
                  /\ still /\ ~fetches[i].aborted => a = Piece(l, fetches[i].query.offset)
                  => Covered(l)'
    BY <1>1, <2>5, <2>7, ServingKeeps
  <2>9. ~fetches[i].aborted => a = Piece(list, fetches[i].query.offset)
    <3>1. ~fetches[i].aborted => c = choice
      BY <1>1, <1>2 DEF OnlyLast, Asking
    <3> QED BY <1>0, <1>2, <2>1, <3>1
  <2>10. ToldTypes'
    <3>1. Hub!Allowed(rows, c) \in Hub!Scopes /\ (Grant \in rows) \in BOOLEAN
      BY DEF Hub!Allowed, Hub!Scopes
    <3>2. PICK r \in [scope : Hub!Scopes, all : BOOLEAN] : r = [scope |-> Hub!Allowed(rows, c), all |-> Grant \in rows]
      BY <3>1
    <3>3. told' = [told EXCEPT ![i] = r]
      BY <2>6, <3>2
    <3> QED BY <1>1, <2>6, <3>3 DEF ToldTypes
  <2>11. told'[i].all = (Grant \in rows) /\ \A j \in DOMAIN fetches \ {i} : told'[j] = told[j]
    BY <1>1, <2>6 DEF ToldTypes
  <2>12. Grant \notin rows => Hub!InScope(rows, c) \subseteq Ours
    BY DEF Hub!InScope, Hub!Allowed, Hub!Scopes, HubCuts, Hub!HubAssumption
  <2>13. TeamWithoutRight'
    BY <1>1, <2>4, <2>8, <2>11, <2>12 DEF TeamWithoutRight
  <2>14. TabTold'
    BY <1>1, <2>5, <2>8, <2>11 DEF TabTold
  <2> QED BY <1>7, <2>8, <2>9, <2>10, <2>13, <2>14
<1>9. CASE (Hub!List!Lose(i) \/ Hub!List!DeliverError(i)) /\ UNCHANGED Hub!hubOwn
  <2>1. PICK state \in {"failed", "over"} :
          /\ fetches' = [fetches EXCEPT ![i].state = state]
          /\ \/ page' = page
             \/ page' = [state |-> "error", of |-> fetches[i].query, answer |-> Nothing] /\ ~fetches[i].aborted
          /\ UNCHANGED <<rows, choice, stack, seen, still, stirs>>
    BY <1>9, HubLists, Zenon DEF Hub!List!Lose, Hub!List!DeliverError, Hub!List!ErrorShown
  <2>2. /\ ListTypes(Rows, Hub!Scopes)' /\ OnlyLast' /\ DOMAIN fetches' = DOMAIN fetches
        /\ fetches'[i].state = state /\ fetches'[i].aborted = fetches[i].aborted
        /\ fetches'[i].answer = fetches[i].answer /\ fetches'[i].query = fetches[i].query
        /\ \A j \in DOMAIN fetches \ {i} : fetches'[j] = fetches[j]
        /\ \A l : Covered(l) => Covered(l)'
    BY <1>1, <2>1, FailingKeeps
  <2>3. fetches[i].state # "over" /\ UNCHANGED <<canSeeAll, told>>
    BY <1>9 DEF Hub!List!Lose, Hub!List!DeliverError, Hub!hubOwn
  <2>4. ToldTypes' /\ TeamWithoutRight'
    BY <1>1, <2>2, <2>3 DEF ToldTypes, TeamWithoutRight
  <2>5. TabTold'
    BY <1>1, <1>3, <2>1, <2>2, <2>3 DEF TabTold
  <2> QED BY <1>7, <2>2, <2>4, <2>5
<1>10. CASE Hub!Deliver(i)
  <2>1. /\ fetches[i].state = "answered" /\ fetches' = [fetches EXCEPT ![i].state = "over"]
        /\ IF fetches[i].aborted THEN UNCHANGED <<page, seen>>
           ELSE /\ page' = [state |-> IF fetches[i].answer.items = <<>> /\ fetches[i].query.offset = 0
                                      THEN "empty" ELSE "success",
                            of |-> fetches[i].query, answer |-> fetches[i].answer]
                /\ seen' = seen \cup {fetches[i].answer.items[j] : j \in DOMAIN fetches[i].answer.items}
        /\ UNCHANGED <<rows, choice, stack, still, stirs>>
    BY <1>10 DEF Hub!Deliver, Hub!List!Deliver, Hub!List!Shown, Hub!List!ToSet
  <2>2. /\ ListTypes(Rows, Hub!Scopes)' /\ OnlyLast' /\ DOMAIN fetches' = DOMAIN fetches
        /\ fetches'[i].state = "over" /\ fetches'[i].aborted = fetches[i].aborted
        /\ fetches'[i].answer = fetches[i].answer /\ fetches'[i].query = fetches[i].query
        /\ \A j \in DOMAIN fetches \ {i} : fetches'[j] = fetches[j]
        /\ \A l : Covered(l) => Covered(l)'
    BY <1>1, <2>1, DeliveringKeeps
  <2>3. /\ told' = told /\ canSeeAll' \in BOOLEAN
        /\ told[i].scope = choice \/ fetches[i].aborted
    BY <1>1, <1>10 DEF Hub!Deliver, Hub!Follows, ToldTypes
  <2>4. ToldTypes' /\ TeamWithoutRight'
    BY <1>1, <2>2, <2>3 DEF ToldTypes, TeamWithoutRight
  <2>5. TabTold'
    <3>1. CASE fetches[i].aborted
      BY <1>1, <1>3, <2>1, <2>2, <2>3, <3>1 DEF TabTold
    <3>2. CASE ~fetches[i].aborted
      <4>1. page'.answer = fetches[i].answer
        BY <2>1, <3>2
      <4> QED BY <1>1, <1>3, <2>2, <2>3, <3>2, <4>1 DEF TabTold, Fetches
    <3> QED BY <3>1, <3>2
  <2> QED BY <1>7, <2>2, <2>4, <2>5
<1> QED BY <1>8, <1>9, <1>10

LEMMA HubStirs ==
  ASSUME HubCuts, HubInv, NEW x \in Rows, Hub!List!Change(x), UNCHANGED Hub!hubOwn
  PROVE  HubInv'
<1>1. /\ rows' \subseteq Rows /\ stirs' \in 0 .. MaxChanges /\ still' = FALSE
      /\ UNCHANGED <<choice, stack, page, fetches, seen, canSeeAll, told>>
  BY HubHas DEF Hub!List!Change, ListTypes, ListLimits, Hub!hubOwn
<1>2. ListTypes(Rows, Hub!Scopes)'
  BY <1>1, HubHas DEF ListTypes
<1>3. OnlyLast' /\ ToldTypes' /\ TeamWithoutRight' /\ TabTold'
  BY <1>1 DEF HubInv, OnlyLast, ToldTypes, TeamWithoutRight, TabTold
<1>4. Covered(Hub!Maintained(rows, choice))'
  BY <1>1 DEF Covered
<1> QED BY <1>2, <1>3, <1>4 DEF HubInv

LEMMA HubTurns ==
  ASSUME HubCuts, HubInv, Hub!Turn
  PROVE  HubInv'
<1>0. PICK list : list = Hub!Maintained(rows, choice)
  OBVIOUS
<1>1. /\ ListLimits /\ ListTypes(Rows, Hub!Scopes) /\ OnlyLast /\ choice \in Hub!Scopes /\ list \in Seq(Rows)
      /\ Covered(list)
  BY <1>0, HubHas DEF HubInv
<1>2. PICK s : /\ Hub!List!Ask(choice, s) /\ UNCHANGED <<seen, still, canSeeAll, told>>
               /\ \/ (page.state = "success" /\ page.answer.next # 0 /\ s = Append(stack, page.answer.next))
                  \/ (stack # <<>> /\ s = SubSeq(stack, 1, Len(stack) - 1))
                  \/ s = stack
  BY DEF Hub!Turn, Hub!hubOwn, Hub!List!NextPage, Hub!List!PreviousPage, Hub!List!Reload, Hub!List!Front
<1>3. seen' \subseteq Rows /\ still' \in BOOLEAN /\ canSeeAll' \in BOOLEAN
  BY <1>1, <1>2 DEF ListTypes, HubInv, ToldTypes
<1>4. s \in Seq(Nat) /\ (still = TRUE => \A k \in DOMAIN s : Saw(list, s[k])')
  BY <1>1, <1>2, TurningKeeps
<1>5. PICK c \in Hub!Scopes : c = choice
  BY <1>1
<1>6. still' => \A k \in DOMAIN s : Saw(Hub!Maintained(rows, c), s[k])'
  <2>1. list = Hub!Maintained(rows, c)'
    BY <1>0, <1>2, <1>5 DEF Hub!List!Ask
  <2> QED BY <1>2, <1>3, <1>4, <2>1 DEF Saw
<1>7. Hub!List!Ask(c, s)
  BY <1>2, <1>5
<1> QED BY <1>2, <1>3, <1>4, <1>6, <1>7, HubAsks

\* Another tab, clicked or followed.
LEMMA HubOpens ==
  ASSUME HubCuts, HubInv, NEW c \in Hub!Scopes, Hub!List!Open(c), canSeeAll' \in BOOLEAN, told' = told
  PROVE  HubInv'
<1>1. Hub!List!Ask(c, <<>>) /\ seen' = {} /\ still' = TRUE
  BY DEF Hub!List!Open, Hub!List!Fresh
<1>2. seen' \subseteq Rows /\ still' \in BOOLEAN /\ <<>> \in Seq(Nat) /\ DOMAIN <<>> = {}
  BY <1>1
<1> QED BY <1>1, <1>2, HubAsks

LEMMA HubStarts == ASSUME HubCuts, Hub!Init PROVE HubInv
<1>1. /\ rows = Rows /\ choice = "mine" /\ stack = <<>> /\ seen = {} /\ still = TRUE /\ stirs = 0
      /\ fetches = <<SentFor(Asking(choice, stack))>>
      /\ page = [state |-> "loading", of |-> Asking(choice, stack), answer |-> Nothing]
      /\ canSeeAll = FALSE /\ told = [i \in 1 .. MaxAsked |-> [scope |-> "mine", all |-> FALSE]]
  BY HubLists DEF Hub!Init, Hub!List!InitPage, Asking, CursorOf, Rows
<1>2. choice \in Hub!Scopes
  BY <1>1 DEF Hub!Scopes
<1>3. Asking(choice, stack) \in [choice : Hub!Scopes, offset : Nat] /\ Nothing \in Pieces(Rows)
  BY <1>1, <1>2 DEF Asking, CursorOf, Nothing, Pieces
<1>4. SentFor(Asking(choice, stack)) \in Fetches(Rows, Hub!Scopes) /\ page \in Shows(Rows, Hub!Scopes)
  BY <1>1, <1>3 DEF SentFor, Fetches, Shows
<1>5. MaxAsked \in Nat \ {0} /\ MaxChanges \in Nat
  BY DEF HubCuts, Hub!List!PageAssumption
<1>6. ListTypes(Rows, Hub!Scopes)
  <2>1. fetches \in Seq(Fetches(Rows, Hub!Scopes)) /\ stack \in Seq(Nat)
    BY <1>1, <1>4
  <2> QED BY <1>1, <1>2, <1>4, <1>5, <2>1 DEF ListTypes
<1>7. OnlyLast
  BY <1>1, <1>5 DEF OnlyLast, SentFor
<1>8. ToldTypes /\ TeamWithoutRight /\ TabTold
  <2>1. \A i \in DOMAIN fetches : fetches[i].state = "sent"
    BY <1>1 DEF SentFor
  <2>2. TeamWithoutRight /\ TabTold
    BY <1>1, <2>1 DEF TeamWithoutRight, TabTold
  <2>3. ToldTypes
    BY <1>1 DEF ToldTypes, Hub!Scopes
  <2> QED BY <2>2, <2>3
<1>9. Covered(Hub!Maintained(rows, choice))
  BY <1>1 DEF Covered, SentFor
<1> QED BY <1>6, <1>7, <1>8, <1>9 DEF HubInv

LEMMA HubTells ==
  ASSUME HubCuts, HubInv
  PROVE  Hub!TypeOK /\ Hub!TabTellsTheScope /\ Hub!AllNeedsTheRight /\ Hub!PagesCoverTheList
<1>1. Hub!TypeOK
  BY HubLists DEF Hub!TypeOK, HubInv, ToldTypes
<1>2. Hub!TabTellsTheScope
  BY DEF Hub!TabTellsTheScope, HubInv, TabTold
<1>3. Hub!AllNeedsTheRight
  BY DEF Hub!AllNeedsTheRight, HubInv, TeamWithoutRight, Hub!ToSet
<1>4. Hub!PagesCoverTheList
  <2> DEFINE list == Hub!Maintained(rows, choice)
  <2> SUFFICES ASSUME still = TRUE, page.state = "success", page.answer.next = 0
               PROVE  Hub!List!ToSet(list) \subseteq seen
    BY HubHas DEF Hub!PagesCoverTheList, Hub!List!PagesCoverTheList, ListTypes
  <2>1. /\ ListLimits /\ ListTypes(Rows, Hub!Scopes) /\ OnlyLast /\ list \in Seq(Rows) /\ Covered(list)
    BY HubHas DEF HubInv
  <2> HIDE DEF list
  <2>2. \A j \in DOMAIN list : list[j] \in seen
    BY <2>1, SawTheList
  <2> QED BY <2>2 DEF Hub!List!ToSet
<1> QED BY <1>1, <1>2, <1>3, <1>4

\* The hub of the packages one maintains, whatever the packages and whoever is given or
\* loses the right to see all: the tab is that of the list below it, all packages are
\* only shown to those who had the right, and over rows nobody changes the pages leave
\* no package out (listMaintained, MaintainedHubPage).
THEOREM HubShowsWhatIsAsked ==
  ASSUME HubCuts
  PROVE  Hub!Spec => [](Hub!TypeOK /\ Hub!TabTellsTheScope /\ Hub!AllNeedsTheRight /\ Hub!PagesCoverTheList)
<1>1. Hub!Init => HubInv
  BY HubStarts
<1>2. HubInv /\ [Hub!Next]_(Hub!hubVars) => HubInv'
  <2> SUFFICES ASSUME HubInv, [Hub!Next]_(Hub!hubVars) PROVE HubInv'
    OBVIOUS
  <2>1. CASE Hub!Next
    <3>1. CASE Hub!Turn
      BY <3>1, HubTurns
    <3>2. CASE \E s \in Hub!Scopes : Hub!ChooseTab(s)
      <4>1. PICK s \in Hub!Scopes : Hub!ChooseTab(s)
        BY <3>2
      <4>2. Hub!List!Open(s) /\ canSeeAll' \in BOOLEAN /\ told' = told
        BY <4>1 DEF Hub!ChooseTab, Hub!hubOwn, HubInv, ToldTypes
      <4> QED BY <4>2, HubOpens
    <3>3. CASE \E i \in 1 .. MaxAsked : Hub!Comes(i)
      <4>1. PICK i \in 1 .. MaxAsked : Hub!Comes(i)
        BY <3>3
      <4>2. i \in DOMAIN fetches
        BY <4>1 DEF Hub!Comes
      <4>3. CASE Hub!Correct(i)
        <5>1. PICK c : c = told[i].scope
          OBVIOUS
        <5>2. c \in Hub!Scopes /\ Hub!List!Open(c) /\ canSeeAll' \in BOOLEAN /\ told' = told
          BY <4>1, <4>3, <5>1 DEF Hub!Correct, HubInv, ToldTypes
        <5> QED BY <5>2, HubOpens
      <4>4. CASE ~Hub!Correct(i)
        <5>1. \/ Hub!Serve(i) \/ Hub!Deliver(i)
              \/ (Hub!List!Lose(i) \/ Hub!List!DeliverError(i)) /\ UNCHANGED Hub!hubOwn
          BY <4>1, <4>4 DEF Hub!Comes
        <5> QED BY <4>2, <5>1, HubComes
      <4> QED BY <4>3, <4>4
    <3>4. CASE \E x \in Rows : Hub!List!Change(x) /\ UNCHANGED Hub!hubOwn
      BY <3>4, HubStirs
    <3> QED BY <2>1, <3>1, <3>2, <3>3, <3>4 DEF Hub!Next, Rows
  <2>2. CASE UNCHANGED Hub!hubVars
    BY <2>2 DEF Hub!hubVars, HubInv, ListTypes, OnlyLast, ToldTypes, TeamWithoutRight, TabTold, Covered, Saw
  <2> QED BY <2>1, <2>2
<1>3. HubInv => Hub!TypeOK /\ Hub!TabTellsTheScope /\ Hub!AllNeedsTheRight /\ Hub!PagesCoverTheList
  BY HubTells
<1> QED BY <1>1, <1>2, <1>3, PTL DEF Hub!Spec

-----------------------------------------------------------------------------
(* The queue of the reviews *)

CONSTANTS Systems, PageSize, MaxReviews
VARIABLES queue, role, url, draft, view, asked, trail, quiet, queueChanges, asks

Waiting == INSTANCE ReviewQueue WITH reviews <- queue, calm <- quiet, changes <- queueChanges

\* A list of numbers, each once, the lowest first.
Ascends(s) == \A i, j \in DOMAIN s : i < j => s[i] < s[j]
Enumerates(s, S) ==
  /\ s \in [1 .. Cardinality(S) -> S]
  /\ \A x \in S : \E i \in DOMAIN s : s[i] = x
  /\ Ascends(s)

LEMMA InOrderIs == ASSUME NEW n \in Nat, NEW S \in SUBSET (1 .. n) PROVE Enumerates(Waiting!InOrder(S), S)
<1> DEFINE R == {pair \in (1 .. n) \X (1 .. n) : pair[1] < pair[2]}
<1>1. Orders(R, 1 .. n)
  BY DEF Orders
<1>2. IsFiniteSet(1 .. n)
  BY FS_Interval
<1>3. PICK s : ListsBy(s, S, R)
  <2> HIDE DEF R
  <2> QED BY <1>1, <1>2, Sortable
<1>4. Enumerates(s, S)
  BY <1>3 DEF ListsBy, Enumerates, Ascends
<1>5. Waiting!InOrder(S) = CHOOSE k \in [1 .. Cardinality(S) -> S] :
                             /\ \A x \in S : \E i \in DOMAIN k : k[i] = x
                             /\ \A i, j \in DOMAIN k : i < j => k[i] < k[j]
  BY DEF Waiting!InOrder, Waiting!Cardinality, Cardinality
<1> QED BY <1>4, <1>5 DEF Enumerates, Ascends

\* There is one way to do that.
LEMMA OneOrder ==
  ASSUME NEW n \in Nat, NEW S \in SUBSET (1 .. n), NEW m \in Nat, NEW s \in [1 .. m -> S],
         \A x \in S : \E i \in 1 .. m : s[i] = x, Ascends(s)
  PROVE  s = Waiting!InOrder(S)
<1>0. \A x \in S : x \in Nat
  <2> SUFFICES ASSUME NEW x \in S PROVE x \in Nat
    OBVIOUS
  <2>1. x \in 1 .. n
    OBVIOUS
  <2> QED BY <2>1
<1>1. IsFiniteSet(S) /\ Cardinality(S) \in Nat
  <2>1. IsFiniteSet(1 .. n)
    BY FS_Interval
  <2> QED BY <2>1, FS_Subset, FS_CardinalityType
<1>2. Cardinality(S) = m
  <2>1. s \in Bijection(1 .. m, S)
    <3>1. \A i, j \in 1 .. m : s[i] = s[j] => i = j
      <4>1. \A i, j \in 1 .. m : i < j => s[i] < s[j]
        BY DEF Ascends
      <4>2. \A i \in 1 .. m : s[i] \in Nat
        BY <1>0
      <4> QED BY <4>1, <4>2
    <3>2. \A x \in S : \E i \in 1 .. m : s[i] = x
      OBVIOUS
    <3> QED BY <3>1, <3>2 DEF Bijection, Injection, Surjection, IsInjective
  <2>2. IsFiniteSet(1 .. m) /\ Cardinality(1 .. m) = m
    BY FS_Interval
  <2>3. ExistsBijection(1 .. m, S)
    BY <2>1 DEF ExistsBijection
  <2> QED BY <2>2, <2>3, FS_Bijection
<1> DEFINE t == Waiting!InOrder(S)
<1>3. t \in [1 .. m -> S] /\ Ascends(t) /\ \A x \in S : \E i \in 1 .. m : t[i] = x
  <2>1. Enumerates(t, S)
    BY InOrderIs
  <2> HIDE DEF t
  <2> QED BY <1>2, <2>1 DEF Enumerates
<1> HIDE DEF t
<1> DEFINE Off == {i \in 1 .. m : s[i] # t[i]}
<1>4. CASE Off = {}
  <2>1. \A i \in 1 .. m : s[i] = t[i]
    BY <1>4
  <2>2. s = t
    BY <1>3, <2>1
  <2> QED BY <2>2 DEF t
<1>5. CASE Off # {}
  <2>1. PICK k \in Off : \A i \in Off : k <= i
    <3>1. Off \in SUBSET Nat
      OBVIOUS
    <3> HIDE DEF Off
    <3> QED BY <1>5, <3>1, LeastOf
  <2>2. k \in 1 .. m /\ s[k] # t[k] /\ \A i \in 1 .. m : i < k => s[i] = t[i]
    BY <2>1
  <2>3. \A i \in 1 .. m : s[i] \in Nat /\ t[i] \in Nat
    <3>1. \A i \in 1 .. m : s[i] \in S /\ t[i] \in S
      BY <1>3
    <3> QED BY <1>0, <3>1
  <2>4. \A i, j \in 1 .. m : i < j => s[i] < s[j] /\ t[i] < t[j]
    BY <1>3 DEF Ascends
  <2> HIDE DEF Off
  <2>5. CASE s[k] < t[k]
    <3>1. PICK j \in 1 .. m : t[j] = s[k]
      BY <1>3, <2>2
    <3>2. ~(j < k)
      <4>1. j < k => s[j] = t[j] /\ s[j] < s[k]
        BY <2>2, <2>4
      <4> QED BY <2>2, <2>3, <3>1, <4>1
    <3>3. k < j => t[k] < t[j]
      BY <2>2, <2>4
    <3> QED BY <2>2, <2>3, <2>5, <3>1, <3>2, <3>3
  <2>6. CASE t[k] < s[k]
    <3>1. PICK j \in 1 .. m : s[j] = t[k]
      BY <1>3, <2>2
    <3>2. ~(j < k)
      <4>1. j < k => s[j] = t[j] /\ t[j] < t[k]
        BY <2>2, <2>4
      <4> QED BY <2>2, <2>3, <3>1, <4>1
    <3>3. k < j => s[k] < s[j]
      BY <2>2, <2>4
    <3> QED BY <2>2, <2>3, <2>6, <3>1, <3>2, <3>3
  <2> QED BY <2>2, <2>3, <2>5, <2>6
<1> QED BY <1>4, <1>5

\* What a filter leaves is of the list, and of an ascending list the same in order.
LEMMA KeptIs ==
  ASSUME NEW X \in SUBSET Nat, NEW s \in Seq(X), NEW S
  PROVE  /\ Waiting!Kept(s, S) \in Seq(X)
         /\ \A n \in Nat : Ascends(s) /\ X = 1 .. n => Waiting!Kept(s, S) = Waiting!InOrder({s[i] : i \in {j \in DOMAIN s : s[j] \in S}})
<1>1. PICK m \in Nat : Len(s) = m /\ DOMAIN s = 1 .. m
  BY LenProperties
<1> DEFINE P == {i \in DOMAIN s : s[i] \in S}
           at == Waiting!InOrder(P)
<1>2. P \in SUBSET (1 .. m)
  BY <1>1
<1>3. PICK w \in Nat : w = Cardinality(P)
  <2>1. IsFiniteSet(1 .. m)
    BY FS_Interval
  <2> HIDE DEF P
  <2> QED BY <1>2, <2>1, FS_Subset, FS_CardinalityType
<1>4. /\ at \in [1 .. w -> P] /\ \A x \in P : \E i \in 1 .. w : at[i] = x
      /\ \A i, j \in 1 .. w : i < j => at[i] < at[j]
  <2> HIDE DEF P
  <2>1. Enumerates(at, P)
    BY <1>2, InOrderIs
  <2> QED BY <1>3, <2>1 DEF Enumerates, Ascends
<1>5. Waiting!Kept(s, S) = [k \in DOMAIN at |-> s[at[k]]]
  BY DEF Waiting!Kept
<1> HIDE DEF at
<1>6. PICK kept : kept = Waiting!Kept(s, S) /\ kept = [k \in 1 .. w |-> s[at[k]]]
  BY <1>4, <1>5
<1>7. kept \in [1 .. w -> X]
  <2>1. \A k \in 1 .. w : at[k] \in P
    BY <1>4
  <2>2. \A i \in P : s[i] \in X
    BY <1>1, <1>2
  <2> QED BY <1>6, <2>1, <2>2
<1>8. kept \in Seq(X)
  BY <1>7
<1>9. ASSUME NEW n \in Nat, Ascends(s), X = 1 .. n
      PROVE  kept = Waiting!InOrder({s[i] : i \in P})
  <2> DEFINE T == {s[i] : i \in P}
  <2>1. T \in SUBSET (1 .. n)
    BY <1>1, <1>2, <1>9
  <2>2. kept \in [1 .. w -> T]
    BY <1>4, <1>6
  <2>3. \A x \in T : \E i \in 1 .. w : kept[i] = x
    BY <1>4, <1>6
  <2>4. Ascends(kept)
    <3> SUFFICES ASSUME NEW i \in 1 .. w, NEW j \in 1 .. w, i < j PROVE kept[i] < kept[j]
      BY <1>7 DEF Ascends
    <3>1. at[i] < at[j] /\ at[i] \in 1 .. m /\ at[j] \in 1 .. m
      BY <1>2, <1>4
    <3> QED BY <1>1, <1>6, <1>9, <3>1 DEF Ascends
  <2> HIDE DEF T
  <2>5. kept = Waiting!InOrder(T)
    BY <2>1, <2>2, <2>3, <2>4, OneOrder
  <2> QED BY <2>5 DEF T
<1> QED BY <1>6, <1>8, <1>9

\* The reviews of the queue, and those of them with the system asked for.
Reviewable == {id \in DOMAIN queue : role /\ ~queue[id].own /\ queue[id].status = url.filters.status}
Found == {id \in DOMAIN queue :
            /\ role /\ ~queue[id].own /\ queue[id].status = url.filters.status
            /\ url.filters.os = Waiting!AllSystems \/ (queue[id].legacy /\ url.filters.os \in queue[id].targets)}

\* The cursors of the pages turned lead from one to the next.
TrailFits ==
  /\ Len(trail) # 0 /\ trail[Len(trail)] = url.cursor
  /\ \A k \in DOMAIN trail : k + 1 \in DOMAIN trail => trail[k + 1] = trail[k] + PageSize
  /\ view.state = "success" /\ view.answer.next # 0 => view.answer.next = url.cursor + PageSize

\* While nothing changes what was checked is what may be reviewed, and the rest is still to check.
CheckedUpTo(v, l) ==
  /\ Ascends(l) /\ Ascends(v)
  /\ \A i \in DOMAIN v, j \in DOMAIN l : v[i] < l[j]
  /\ \A i \in DOMAIN v : v[i] \in Reviewable
  /\ \A j \in DOMAIN l : l[j] \in DOMAIN queue /\ queue[l[j]].status = url.filters.status
  /\ \A id \in Reviewable : (\E i \in DOMAIN v : v[i] = id) \/ (\E j \in DOMAIN l : l[j] = id)
RequestFitsQueue ==
  /\ asked.step = "sent" => asked.visible = <<>> /\ asked.left = <<>>
  /\ asked.step = "reading" => asked.left = <<>>
  /\ quiet => asked.step # "not_found" /\ (asked.step \in {"checking", "reading"} => CheckedUpTo(asked.visible, asked.left))

QueueInv ==
  /\ Waiting!TypeOK /\ Len(queue) <= MaxReviews
  /\ TrailFits /\ RequestFitsQueue /\ Waiting!CalmPageIsOfQueue

LEMMA QueueTypes ==
  ASSUME Waiting!QueueAssumption, QueueInv
  PROVE  /\ queue \in Seq(Waiting!Reviews) /\ Len(queue) \in Nat /\ DOMAIN queue = 1 .. Len(queue)
         /\ DOMAIN queue \subseteq Waiting!Ids /\ role \in BOOLEAN
         /\ url \in Waiting!Urls /\ url.cursor \in Nat /\ url.filters \in Waiting!Filters /\ draft \in Waiting!Filters
         /\ view \in Waiting!Views /\ asked \in Waiting!Requests
         /\ asked.left \in Seq(Waiting!Ids) /\ asked.visible \in Seq(Waiting!Ids) /\ asked.read \subseteq Waiting!Ids
         /\ trail \in Seq(Nat) /\ Len(trail) \in Nat /\ DOMAIN trail = 1 .. Len(trail)
         /\ quiet \in BOOLEAN /\ queueChanges \in 0 .. MaxChanges /\ asks \in 0 .. MaxAsked
         /\ PageSize \in Nat \ {0} /\ MaxReviews \in Nat \ {0} /\ MaxChanges \in Nat /\ MaxAsked \in Nat
         /\ Waiting!Ids = 1 .. MaxReviews
<1>1. /\ queue \in Seq(Waiting!Reviews) /\ role \in BOOLEAN /\ url \in Waiting!Urls /\ draft \in Waiting!Filters
      /\ view \in Waiting!Views /\ asked \in Waiting!Requests /\ trail \in Seq(Nat)
      /\ quiet \in BOOLEAN /\ queueChanges \in 0 .. MaxChanges /\ asks \in 0 .. MaxAsked
  BY DEF QueueInv, Waiting!TypeOK
<1>2. /\ PageSize \in Nat \ {0} /\ MaxReviews \in Nat \ {0} /\ MaxChanges \in Nat /\ MaxAsked \in Nat
      /\ Waiting!Ids = 1 .. MaxReviews
  BY DEF Waiting!QueueAssumption, Waiting!Ids
<1>3. Len(queue) \in Nat /\ DOMAIN queue = 1 .. Len(queue) /\ Len(trail) \in Nat /\ DOMAIN trail = 1 .. Len(trail)
  BY <1>1
<1>4. DOMAIN queue \subseteq Waiting!Ids
  BY <1>2, <1>3 DEF QueueInv
<1>5. url.cursor \in Nat /\ url.filters \in Waiting!Filters
  BY <1>1 DEF Waiting!Urls
<1>6. asked.left \in Seq(Waiting!Ids) /\ asked.visible \in Seq(Waiting!Ids) /\ asked.read \subseteq Waiting!Ids
  BY <1>1 DEF Waiting!Requests
<1> QED BY <1>1, <1>2, <1>3, <1>4, <1>5, <1>6

\* The page behind a cursor, cut as the server does and as the queue says.
CutItems(all, c) == SubSeq(all, c + 1, Waiting!Min({c + PageSize, Len(all)}))
CutNext(all, c) == IF c + Len(CutItems(all, c)) < Len(all) THEN c + Len(CutItems(all, c)) ELSE 0
CutRest(all, c) == SubSeq(all, c + 1, Len(all))

LEMMA CutIs ==
  ASSUME NEW X, NEW all \in Seq(X), NEW c \in Nat, PageSize \in Nat \ {0}
  PROVE  /\ CutItems(all, c) \in Seq(X)
         /\ CutNext(all, c) \in Nat
         /\ CutNext(all, c) # 0 => CutNext(all, c) = c + PageSize
         /\ CutItems(all, c) = SubSeq(CutRest(all, c), 1, Waiting!Min({PageSize, Len(CutRest(all, c))}))
         /\ CutNext(all, c) # 0 <=> Len(CutRest(all, c)) > PageSize
<1>0. PICK items, next, rest : items = CutItems(all, c) /\ next = CutNext(all, c) /\ rest = CutRest(all, c)
  OBVIOUS
<1>1. PICK m \in Nat : Len(all) = m /\ DOMAIN all = 1 .. m /\ \A i \in 1 .. m : all[i] \in X
  BY LenProperties
<1>2. \A a, b \in Nat : Waiting!Min({a, b}) = IF a <= b THEN a ELSE b
  BY DEF Waiting!Min
<1>3. PICK hi \in Nat : hi = IF c + PageSize <= m THEN c + PageSize ELSE m
  OBVIOUS
<1>4. items = SubSeq(all, c + 1, hi) /\ rest = SubSeq(all, c + 1, m)
  <2>1. Waiting!Min({c + PageSize, Len(all)}) = hi
    BY <1>1, <1>2, <1>3
  <2> QED BY <1>0, <1>1, <2>1 DEF CutItems, CutRest
<1>5. PICK n \in Nat : n = IF c + 1 <= hi THEN hi - c ELSE 0
  <2>1. (IF c + 1 <= hi THEN hi - c ELSE 0) \in Nat
    OBVIOUS
  <2> QED BY <2>1
<1>6. items \in Seq(X) /\ Len(items) = n /\ \A i \in 1 .. n : items[i] = all[c + i]
  <2>1. /\ SubSeq(all, c + 1, hi) \in Seq(X)
        /\ Len(SubSeq(all, c + 1, hi)) = IF c + 1 <= hi THEN hi - (c + 1) + 1 ELSE 0
        /\ \A i \in 1 .. hi - (c + 1) + 1 : SubSeq(all, c + 1, hi)[i] = all[(c + 1) + i - 1]
    <3>1. c + 1 \in Int /\ hi \in Int
      OBVIOUS
    <3>2. \A i \in c + 1 .. hi : all[i] \in X
      BY <1>1, <1>3
    <3> QED BY <3>1, <3>2, SubSeqProperties
  <2>2. \A i \in 1 .. n : i \in 1 .. hi - (c + 1) + 1 /\ (c + 1) + i - 1 = c + i
    BY <1>5
  <2>3. Len(items) = n
    BY <1>4, <1>5, <2>1
  <2> QED BY <1>4, <2>1, <2>2, <2>3
<1>7. PICK r \in Nat : r = IF c + 1 <= m THEN m - c ELSE 0
  <2>1. (IF c + 1 <= m THEN m - c ELSE 0) \in Nat
    OBVIOUS
  <2> QED BY <2>1
<1>8. rest \in Seq(X) /\ Len(rest) = r /\ \A i \in 1 .. r : rest[i] = all[c + i]
  <2>1. /\ SubSeq(all, c + 1, m) \in Seq(X)
        /\ Len(SubSeq(all, c + 1, m)) = IF c + 1 <= m THEN m - (c + 1) + 1 ELSE 0
        /\ \A i \in 1 .. m - (c + 1) + 1 : SubSeq(all, c + 1, m)[i] = all[(c + 1) + i - 1]
    <3>1. c + 1 \in Int /\ m \in Int
      OBVIOUS
    <3>2. \A i \in c + 1 .. m : all[i] \in X
      BY <1>1
    <3> QED BY <3>1, <3>2, SubSeqProperties
  <2>2. \A i \in 1 .. r : i \in 1 .. m - (c + 1) + 1 /\ (c + 1) + i - 1 = c + i
    BY <1>7
  <2>3. Len(rest) = r
    BY <1>4, <1>7, <2>1
  <2> QED BY <1>4, <2>1, <2>2, <2>3
<1>9. n = (IF PageSize <= r THEN PageSize ELSE r) /\ n <= r
  BY <1>1, <1>3, <1>5, <1>7
<1>10. items = SubSeq(rest, 1, Waiting!Min({PageSize, Len(rest)}))
  <2>1. PICK cut : cut = SubSeq(rest, 1, n)
    OBVIOUS
  <2>2. /\ cut \in Seq(X) /\ Len(cut) = (IF 1 <= n THEN n - 1 + 1 ELSE 0)
        /\ \A i \in 1 .. n - 1 + 1 : cut[i] = rest[1 + i - 1]
    <3>1. \A i \in 1 .. n : rest[i] \in X
      BY <1>8, <1>9
    <3>2. /\ SubSeq(rest, 1, n) \in Seq(X) /\ Len(SubSeq(rest, 1, n)) = (IF 1 <= n THEN n - 1 + 1 ELSE 0)
          /\ \A i \in 1 .. n - 1 + 1 : SubSeq(rest, 1, n)[i] = rest[1 + i - 1]
      <4>1. 1 \in Int /\ n \in Int
        OBVIOUS
      <4> QED BY <3>1, <4>1, SubSeqProperties
    <3> QED BY <2>1, <3>2
  <2>3. Len(cut) = n /\ \A i \in 1 .. n : cut[i] = rest[i]
    BY <2>2
  <2>4. \A i \in 1 .. n : cut[i] = items[i]
    BY <1>6, <1>8, <1>9, <2>3
  <2>5. cut \in [1 .. n -> X] /\ items \in [1 .. n -> X]
    BY <1>6, <2>2, <2>3
  <2>6. cut = items
    BY <2>4, <2>5
  <2>7. Waiting!Min({PageSize, Len(rest)}) = n
    BY <1>2, <1>8, <1>9
  <2> QED BY <2>1, <2>6, <2>7
<1>11. c + n < m <=> r > PageSize
  BY <1>1, <1>7, <1>9
<1>12. c + n < m => n = PageSize /\ n # 0
  BY <1>1, <1>7, <1>9
<1>13. next = IF c + n < m THEN c + n ELSE 0
  BY <1>0, <1>1, <1>6 DEF CutNext
<1>14. (next # 0) <=> (Len(rest) > PageSize)
  BY <1>8, <1>11, <1>12, <1>13
<1>15. next \in Nat /\ (next # 0 => next = c + PageSize)
  BY <1>12, <1>13
<1> QED BY <1>0, <1>6, <1>10, <1>14, <1>15

LEMMA OthersKeep ==
  ASSUME Waiting!QueueAssumption, QueueInv,
         \/ \E review \in Waiting!Reviews : Waiting!OpenReview(review)
         \/ \E id \in DOMAIN queue : Waiting!DecideReview(id)
         \/ Waiting!ChangeRole
  PROVE  QueueInv'
<1>1. quiet' = FALSE /\ queueChanges' \in 0 .. MaxChanges /\ UNCHANGED <<url, draft, view, asked, trail, asks>>
  BY QueueTypes DEF Waiting!OpenReview, Waiting!DecideReview, Waiting!ChangeRole, Waiting!Changed, Waiting!PageRests
<1>2. queue' \in Seq(Waiting!Reviews) /\ Len(queue') <= MaxReviews /\ role' \in BOOLEAN
  <2>1. CASE \E review \in Waiting!Reviews : Waiting!OpenReview(review)
    <3>1. PICK review \in Waiting!Reviews : Waiting!OpenReview(review)
      BY <2>1
    <3>2. PICK m \in Nat : m = Len(queue)
      BY QueueTypes
    <3>3. queue' = Append(queue, review) /\ m < MaxReviews /\ role' = role
      BY <3>1, <3>2 DEF Waiting!OpenReview
    <3>4. queue \in Seq(Waiting!Reviews) /\ role \in BOOLEAN /\ MaxReviews \in Nat
      BY QueueTypes
    <3>5. Append(queue, review) \in Seq(Waiting!Reviews) /\ Len(Append(queue, review)) = m + 1
      BY <3>2, <3>4, AppendProperties
    <3> QED BY <3>3, <3>4, <3>5
  <2>2. CASE \E id \in DOMAIN queue : Waiting!DecideReview(id)
    <3>1. PICK id \in DOMAIN queue : Waiting!DecideReview(id)
      BY <2>2
    <3>2. PICK status \in Waiting!Statuses : queue' = [queue EXCEPT ![id].status = status]
      BY <3>1 DEF Waiting!DecideReview
    <3>3. role' = role
      BY <3>1 DEF Waiting!DecideReview
    <3>4. queue[id] \in Waiting!Reviews
      BY QueueTypes
    <3>5. PICK r \in Waiting!Reviews : r = [queue[id] EXCEPT !.status = status]
      BY <3>4 DEF Waiting!Reviews
    <3>6. queue' = [queue EXCEPT ![id] = r]
      BY <3>2, <3>5
    <3>7. queue' \in Seq(Waiting!Reviews) /\ Len(queue') = Len(queue)
      BY <3>6, QueueTypes
    <3> QED BY <3>3, <3>7, QueueTypes DEF QueueInv
  <2>3. CASE Waiting!ChangeRole
    BY <2>3, QueueTypes DEF Waiting!ChangeRole, QueueInv
  <2> QED BY <2>1, <2>2, <2>3
<1>3. Waiting!TypeOK'
  BY <1>1, <1>2, QueueTypes DEF Waiting!TypeOK
<1>4. TrailFits'
  BY <1>1 DEF QueueInv, TrailFits
<1>5. RequestFitsQueue'
  BY <1>1 DEF QueueInv, RequestFitsQueue
<1>6. Waiting!CalmPageIsOfQueue'
  BY <1>1 DEF Waiting!CalmPageIsOfQueue
<1> QED BY <1>2, <1>3, <1>4, <1>5, <1>6 DEF QueueInv

\* The page asks, with the cursors that led to what it asks for.
LEMMA QueueAsks ==
  ASSUME Waiting!QueueAssumption, QueueInv, NEW u \in Waiting!Urls, Waiting!Ask(u), trail' \in Seq(Nat),
         Len(trail') # 0, trail'[Len(trail')] = u.cursor,
         \A k \in DOMAIN trail' : k + 1 \in DOMAIN trail' => trail'[k + 1] = trail'[k] + PageSize
  PROVE  QueueInv'
<1>1. /\ asks' \in 0 .. MaxAsked /\ url' = u /\ draft' \in Waiting!Filters
      /\ view' = [state |-> "loading", answer |-> Waiting!NoAnswer] /\ asked' = Waiting!SentRequest /\ quiet' = TRUE
      /\ UNCHANGED <<queue, role, queueChanges>>
  BY SMTT(30), QueueTypes DEF Waiting!Ask, Waiting!Urls
<1>2. view' \in Waiting!Views /\ asked' \in Waiting!Requests
  BY <1>1 DEF Waiting!Views, Waiting!Answers, Waiting!NoAnswer, Waiting!FirstPage, Waiting!SentRequest, Waiting!Requests
<1>3. Waiting!TypeOK'
  BY <1>1, <1>2, QueueTypes DEF Waiting!TypeOK
<1>4. TrailFits'
  BY <1>1 DEF TrailFits
<1>5. RequestFitsQueue'
  BY <1>1 DEF RequestFitsQueue, Waiting!SentRequest
<1>6. Waiting!CalmPageIsOfQueue'
  BY <1>1 DEF Waiting!CalmPageIsOfQueue
<1> QED BY <1>1, <1>3, <1>4, <1>5, <1>6 DEF QueueInv

LEMMA OtherCursor ==
  ASSUME NEW v \in Waiting!Urls, NEW c \in Nat
  PROVE  /\ [v EXCEPT !.cursor = c] \in Waiting!Urls /\ [v EXCEPT !.cursor = c].cursor = c
BY DEF Waiting!Urls

LEMMA PageMoves ==
  ASSUME Waiting!QueueAssumption, QueueInv,
         \/ \E filters \in Waiting!Filters : Waiting!TypeDraft(filters)
         \/ Waiting!ApplyFilters \/ Waiting!Clear \/ Waiting!NextPage \/ Waiting!PreviousPage \/ Waiting!Reload
         \/ \E cursor \in Waiting!Ids : Waiting!OpenUrl(cursor)
  PROVE  QueueInv'
<1>1. CASE \E filters \in Waiting!Filters : Waiting!TypeDraft(filters)
  <2>1. draft' \in Waiting!Filters /\ UNCHANGED <<queue, role, url, view, asked, trail, quiet, queueChanges, asks>>
    BY <1>1 DEF Waiting!TypeDraft
  <2>2. Waiting!TypeOK'
    BY <2>1, QueueTypes DEF Waiting!TypeOK
  <2>3. Waiting!CalmPageIsOfQueue'
    BY <2>1 DEF QueueInv, Waiting!CalmPageIsOfQueue
  <2> QED BY <2>1, <2>2, <2>3 DEF QueueInv, TrailFits, RequestFitsQueue, CheckedUpTo, Reviewable, Ascends
\* A list of one cursor.
<1>2. ASSUME NEW u \in Waiting!Urls, Waiting!Ask(u), NEW c \in Nat, trail' = <<c>>, u.cursor = c PROVE QueueInv'
  <2>1. /\ trail' \in Seq(Nat) /\ Len(trail') = 1 /\ DOMAIN trail' = {1} /\ trail'[1] = c
    BY <1>2
  <2> QED BY <1>2, <2>1, QueueAsks
<1>3. CASE Waiting!ApplyFilters \/ Waiting!Clear \/ \E cursor \in Waiting!Ids : Waiting!OpenUrl(cursor)
  <2>1. PICK u, c : /\ Waiting!Ask(u) /\ trail' = <<c>>
                    /\ \/ u = [filters |-> draft, cursor |-> Waiting!FirstPage] /\ c = Waiting!FirstPage
                       \/ u = [filters |-> Waiting!Cleared, cursor |-> Waiting!FirstPage] /\ c = Waiting!FirstPage
                       \/ u = [url EXCEPT !.cursor = c] /\ c \in Waiting!Ids
    BY <1>3 DEF Waiting!ApplyFilters, Waiting!Clear, Waiting!OpenUrl
  <2>2. u \in Waiting!Urls /\ c \in Nat /\ u.cursor = c
    <3>1. \A d \in Waiting!Filters :
            LET v == [filters |-> d, cursor |-> 0] IN v \in Waiting!Urls /\ v.cursor = 0
      BY DEF Waiting!Urls
    <3>2. draft \in Waiting!Filters /\ Waiting!Cleared \in Waiting!Filters
      BY QueueTypes DEF Waiting!Cleared, Waiting!Filters, Waiting!Statuses
    <3>3. CASE u = [filters |-> draft, cursor |-> Waiting!FirstPage] /\ c = Waiting!FirstPage
      BY <3>1, <3>2, <3>3 DEF Waiting!FirstPage
    <3>4. CASE u = [filters |-> Waiting!Cleared, cursor |-> Waiting!FirstPage] /\ c = Waiting!FirstPage
      BY <3>1, <3>2, <3>4 DEF Waiting!FirstPage
    <3>5. CASE u = [url EXCEPT !.cursor = c] /\ c \in Waiting!Ids
      <4>1. c \in Nat
        BY <3>5, QueueTypes
      <4>2. url \in Waiting!Urls
        BY QueueTypes
      <4> QED BY <3>5, <4>1, <4>2, OtherCursor
    <3> QED BY <2>1, <3>3, <3>4, <3>5
  <2> QED BY <1>2, <2>1, <2>2
<1>4. CASE Waiting!NextPage
  <2>1. PICK c : c = view.answer.next
    OBVIOUS
  <2>2. view.state = "success" /\ c # 0 /\ Waiting!Ask([url EXCEPT !.cursor = c]) /\ trail' = Append(trail, c)
    BY <1>4, <2>1 DEF Waiting!NextPage, Waiting!FirstPage
  <2>3. c \in Nat /\ c = url.cursor + PageSize
    BY SMTT(30), <2>1, <2>2, QueueTypes DEF QueueInv, TrailFits
  <2>4. PICK m \in Nat : m = Len(trail) /\ DOMAIN trail = 1 .. m /\ trail \in Seq(Nat)
    BY QueueTypes
  <2>5. /\ Append(trail, c) \in Seq(Nat) /\ Len(Append(trail, c)) = m + 1 /\ Append(trail, c)[m + 1] = c
        /\ \A k \in 1 .. m : Append(trail, c)[k] = trail[k]
    BY <2>3, <2>4, AppendProperties
  <2>6. DOMAIN Append(trail, c) = 1 .. m + 1
    BY <2>5, LenProperties
  <2>7. PICK u \in Waiting!Urls : Waiting!Ask(u) /\ u.cursor = c
    <3>1. url \in Waiting!Urls
      BY QueueTypes
    <3> QED BY <2>2, <2>3, <3>1, OtherCursor
  <2>8. ASSUME NEW k \in DOMAIN trail', k + 1 \in DOMAIN trail' PROVE trail'[k + 1] = trail'[k] + PageSize
    <3>1. k \in 1 .. m /\ (k = m \/ k + 1 \in 1 .. m)
      BY <2>2, <2>6, <2>8
    <3>2. m # 0 /\ trail[m] = url.cursor
      BY <2>4 DEF QueueInv, TrailFits
    <3>3. CASE k = m
      BY <2>2, <2>3, <2>5, <3>1, <3>2, <3>3
    <3>4. CASE k + 1 \in 1 .. m
      BY <2>2, <2>4, <2>5, <3>1, <3>4 DEF QueueInv, TrailFits
    <3> QED BY <3>1, <3>3, <3>4
  <2>9. trail' \in Seq(Nat) /\ Len(trail') = m + 1 /\ trail'[m + 1] = c
    BY <2>2, <2>5
  <2>10. Len(trail') # 0 /\ trail'[Len(trail')] = u.cursor
    BY <2>7, <2>9
  <2> QED BY <2>7, <2>8, <2>9, <2>10, QueueAsks
<1>5. CASE Waiting!PreviousPage
  <2>1. PICK c : c = Waiting!PreviousReviewCursor(url.cursor)
    OBVIOUS
  <2>2. /\ Waiting!Ask([url EXCEPT !.cursor = c])
        /\ trail' = IF Len(trail) > 1 THEN SubSeq(trail, 1, Len(trail) - 1) ELSE <<c>>
    BY <1>5, <2>1 DEF Waiting!PreviousPage, Waiting!Front
  <2>3. c \in Nat /\ c = IF url.cursor <= PageSize THEN 0 ELSE url.cursor - PageSize
    BY <2>1, QueueTypes DEF Waiting!PreviousReviewCursor, Waiting!FirstPage
  <2>4. PICK u \in Waiting!Urls : Waiting!Ask(u) /\ u.cursor = c
    <3>1. url \in Waiting!Urls
      BY QueueTypes
    <3> QED BY <2>2, <2>3, <3>1, OtherCursor
  <2>5. CASE ~(Len(trail) > 1)
    BY <1>2, <2>2, <2>3, <2>4, <2>5
  <2>6. CASE Len(trail) > 1
    <3>1. PICK m \in Nat : Len(trail) = m + 1 /\ m # 0 /\ DOMAIN trail = 1 .. m + 1 /\ trail \in Seq(Nat)
      <4>1. PICK n \in Nat : n = Len(trail) /\ DOMAIN trail = 1 .. n /\ trail \in Seq(Nat)
        BY QueueTypes
      <4>2. n - 1 \in Nat /\ n = (n - 1) + 1 /\ n - 1 # 0
        BY <2>6, <4>1
      <4> QED BY <4>1, <4>2
    <3>2. trail' = SubSeq(trail, 1, m)
      BY <2>2, <2>6, <3>1
    <3>3. /\ SubSeq(trail, 1, m) \in Seq(Nat) /\ Len(SubSeq(trail, 1, m)) = IF 1 <= m THEN m - 1 + 1 ELSE 0
          /\ \A k \in 1 .. m - 1 + 1 : SubSeq(trail, 1, m)[k] = trail[1 + k - 1]
      <4>1. 1 \in Int /\ m \in Int /\ \A k \in 1 .. m : trail[k] \in Nat
        BY <3>1
      <4> QED BY <4>1, SubSeqProperties
    <3>4. trail' \in Seq(Nat) /\ Len(trail') = m /\ \A k \in 1 .. m : trail'[k] = trail[k]
      BY <3>1, <3>2, <3>3
    <3>5. DOMAIN trail' = 1 .. m
      BY <3>4, LenProperties
    <3>6. ASSUME NEW k \in 1 .. m PROVE trail[k + 1] = trail[k] + PageSize
      <4>1. k \in DOMAIN trail /\ k + 1 \in DOMAIN trail
        BY <3>1
      <4> QED BY <4>1 DEF QueueInv, TrailFits
    <3>7. trail[m] = c
      <4>1. trail[m + 1] = url.cursor /\ trail[m + 1] = trail[m] + PageSize
        BY <3>1, <3>6 DEF QueueInv, TrailFits
      <4>2. trail[m] \in Nat /\ PageSize \in Nat
        BY SMTT(30), <3>1, QueueTypes
      <4> QED BY <2>3, <4>1, <4>2
    <3>8. \A k \in DOMAIN trail' : k + 1 \in DOMAIN trail' => trail'[k + 1] = trail'[k] + PageSize
      BY <3>4, <3>5, <3>6
    <3>9. Len(trail') # 0 /\ trail'[Len(trail')] = u.cursor
      BY <2>4, <3>1, <3>4, <3>7
    <3> QED BY <2>4, <3>4, <3>8, <3>9, QueueAsks
  <2> QED BY <2>5, <2>6
<1>6. CASE Waiting!Reload
  <2>1. Waiting!Ask(url) /\ trail' = trail
    BY <1>6 DEF Waiting!Reload
  <2>2. PICK u \in Waiting!Urls : u = url
    BY QueueTypes
  <2>3. Waiting!Ask(u) /\ u.cursor = trail[Len(trail)]
    BY <2>1, <2>2 DEF QueueInv, TrailFits
  <2> QED BY <2>1, <2>2, <2>3, QueueTypes, QueueAsks DEF QueueInv, TrailFits
<1> QED BY <1>1, <1>3, <1>4, <1>5, <1>6

-----------------------------------------------------------------------------
\* The server goes on with a request.
LEMMA QueueGoes ==
  ASSUME Waiting!QueueAssumption, QueueInv, NEW r \in Waiting!Requests, asked' = r, Waiting!ServerOnly,
         r.step = "sent" => r.visible = <<>> /\ r.left = <<>>,
         r.step = "reading" => r.left = <<>>,
         quiet => r.step # "not_found" /\ (r.step \in {"checking", "reading"} => CheckedUpTo(r.visible, r.left))
  PROVE  QueueInv'
<1>1. UNCHANGED <<queue, role, url, draft, view, trail, quiet, queueChanges, asks>>
  BY DEF Waiting!ServerOnly
<1>2. Waiting!TypeOK'
  BY <1>1, QueueTypes DEF Waiting!TypeOK
<1>3. TrailFits'
  BY <1>1 DEF QueueInv, TrailFits
<1>4. CheckedUpTo(r.visible, r.left) => CheckedUpTo(r.visible, r.left)'
  BY <1>1 DEF CheckedUpTo, Reviewable
<1>5. RequestFitsQueue'
  BY <1>1, <1>4 DEF RequestFitsQueue
<1>6. Waiting!CalmPageIsOfQueue'
  BY <1>1 DEF QueueInv, Waiting!CalmPageIsOfQueue
<1>7. Len(queue') <= MaxReviews
  BY <1>1 DEF QueueInv
<1> QED BY <1>2, <1>3, <1>5, <1>6, <1>7 DEF QueueInv

LEMMA ListsReviews ==
  ASSUME Waiting!QueueAssumption, QueueInv, Waiting!ListReviews
  PROVE  QueueInv'
<1> DEFINE S == {id \in DOMAIN queue : queue[id].status = url.filters.status}
<1>1. PICK n \in Nat : n = MaxReviews /\ Waiting!Ids = 1 .. n
  BY QueueTypes
<1>2. S \in SUBSET (1 .. n) /\ S \subseteq DOMAIN queue
  BY <1>1, QueueTypes
<1>3. PICK w \in Nat : w = Cardinality(S)
  <2>1. IsFiniteSet(1 .. n)
    BY FS_Interval
  <2> HIDE DEF S
  <2> QED BY <1>2, <2>1, FS_Subset, FS_CardinalityType
<1>4. PICK l : l = Waiting!WithStatus(url.filters.status)
  OBVIOUS
<1>5. l \in [1 .. w -> S] /\ (\A x \in S : \E i \in 1 .. w : l[i] = x) /\ Ascends(l)
  <2>1. l = Waiting!InOrder(S)
    BY <1>4 DEF Waiting!WithStatus
  <2> HIDE DEF S
  <2>2. Enumerates(l, S)
    BY <1>2, <2>1, InOrderIs
  <2> QED BY <1>3, <2>2 DEF Enumerates
<1>6. l \in Seq(Waiting!Ids) /\ DOMAIN l = 1 .. w
  <2>1. l \in [1 .. w -> Waiting!Ids]
    BY <1>1, <1>2, <1>5
  <2> QED BY <1>5, <2>1
<1>7. asked' = [asked EXCEPT !.step = "checking", !.left = l] /\ Waiting!ServerOnly /\ asked.step = "sent"
  BY <1>4 DEF Waiting!ListReviews, Waiting!Goes
<1>8. PICK r \in Waiting!Requests : r = [asked EXCEPT !.step = "checking", !.left = l]
  BY <1>6, QueueTypes DEF Waiting!Requests
<1>9. r.step = "checking" /\ r.left = l /\ r.visible = <<>>
  BY <1>7, <1>8, QueueTypes DEF Waiting!Requests, QueueInv, RequestFitsQueue
<1>10. CheckedUpTo(<<>>, l)
  <2>1. \A j \in 1 .. w : l[j] \in S
    BY <1>5
  <2>2. \A id \in Reviewable : id \in S
    BY DEF Reviewable
  <2>3. \A id \in Reviewable : \E j \in 1 .. w : l[j] = id
    BY <1>5, <2>2
  <2>4. DOMAIN <<>> = {}
    OBVIOUS
  <2> QED BY <1>5, <1>6, <2>1, <2>3, <2>4 DEF CheckedUpTo, Ascends
<1> QED BY <1>7, <1>8, <1>9, <1>10, QueueGoes

\* The first of the rest is checked.
LEMMA ChecksOne ==
  ASSUME NEW v \in Seq(Nat), NEW l \in Seq(Nat), l # <<>>, CheckedUpTo(v, l),
         NEW w, w = IF Waiting!CanReview(l[1]) THEN Append(v, l[1]) ELSE v
  PROVE  CheckedUpTo(w, Tail(l))
<1>1. PICK n \in Nat, t \in Seq(Nat) :
        /\ Len(l) = n + 1 /\ DOMAIN l = 1 .. n + 1 /\ t = Tail(l) /\ DOMAIN t = 1 .. n
        /\ \A j \in 1 .. n : t[j] = l[j + 1]
  <2>1. PICK k \in Nat : Len(l) = k /\ DOMAIN l = 1 .. k /\ k # 0
    BY LenProperties, EmptySeq
  <2>2. k - 1 \in Nat /\ k = (k - 1) + 1
    BY <2>1
  <2>3. Tail(l) \in Seq(Nat) /\ Len(Tail(l)) = Len(l) - 1 /\ \A j \in 1 .. Len(l) - 1 : Tail(l)[j] = l[j + 1]
    BY HeadTailProperties
  <2>4. DOMAIN Tail(l) = 1 .. k - 1
    BY <2>1, <2>3, LenProperties
  <2> QED BY <2>1, <2>2, <2>3, <2>4
<1>2. PICK m \in Nat : Len(v) = m /\ DOMAIN v = 1 .. m
  BY LenProperties
<1>3. PICK h \in Nat : h = l[1]
  <2>1. 1 \in DOMAIN l
    BY <1>1
  <2> QED BY <2>1
<1>4. /\ \A j \in 1 .. n : h < t[j] /\ \A i \in 1 .. m : v[i] < t[j]
      /\ \A i, j \in 1 .. n : i < j => t[i] < t[j]
      /\ \A i \in 1 .. m : v[i] < h
      /\ \A i, j \in 1 .. m : i < j => v[i] < v[j]
  <2>1. \A j \in 1 .. n : j + 1 \in DOMAIN l /\ 1 \in DOMAIN l /\ 1 < j + 1
    BY <1>1
  <2>2. \A i, j \in 1 .. n : i < j => i + 1 < j + 1
    OBVIOUS
  <2>3. /\ \A i, j \in DOMAIN l : i < j => l[i] < l[j]
        /\ \A i, j \in DOMAIN v : i < j => v[i] < v[j]
        /\ \A i \in DOMAIN v, j \in DOMAIN l : v[i] < l[j]
    BY DEF CheckedUpTo, Ascends
  <2>4. \A j \in 1 .. n : h < t[j]
    BY <1>1, <1>3, <2>1, <2>3
  <2>5. \A i \in 1 .. m, j \in 1 .. n : v[i] < t[j]
    BY <1>1, <1>2, <2>1, <2>3
  <2>6. \A i, j \in 1 .. n : i < j => t[i] < t[j]
    BY <1>1, <2>1, <2>2, <2>3
  <2>7. \A i \in 1 .. m : v[i] < h
    <3>1. 1 \in DOMAIN l
      BY <1>1
    <3> QED BY <1>2, <1>3, <2>3, <3>1
  <2>8. \A i, j \in 1 .. m : i < j => v[i] < v[j]
    BY <1>2, <2>3
  <2> QED BY <2>4, <2>5, <2>6, <2>7, <2>8
<1>5. /\ h \in DOMAIN queue /\ queue[h].status = url.filters.status
      /\ \A j \in 1 .. n : t[j] \in DOMAIN queue /\ queue[t[j]].status = url.filters.status
      /\ \A i \in 1 .. m : v[i] \in Reviewable
  <2>1. \A j \in 1 .. n : j + 1 \in DOMAIN l
    BY <1>1
  <2>2. 1 \in DOMAIN l
    BY <1>1
  <2>3. /\ \A i \in DOMAIN v : v[i] \in Reviewable
        /\ \A j \in DOMAIN l : l[j] \in DOMAIN queue /\ queue[l[j]].status = url.filters.status
    BY DEF CheckedUpTo
  <2>4. h \in DOMAIN queue /\ queue[h].status = url.filters.status
    BY <1>3, <2>2, <2>3
  <2>5. \A j \in 1 .. n : t[j] \in DOMAIN queue /\ queue[t[j]].status = url.filters.status
    BY <1>1, <2>1, <2>3
  <2>6. \A i \in 1 .. m : v[i] \in Reviewable
    BY <1>2, <2>3
  <2> QED BY <2>4, <2>5, <2>6
<1>6. \A id \in Reviewable : (\E i \in 1 .. m : v[i] = id) \/ h = id \/ (\E j \in 1 .. n : t[j] = id)
  <2>1. \A j \in 1 .. n + 1 : j # 1 => j - 1 \in 1 .. n /\ l[j] = t[j - 1]
    BY <1>1
  <2>2. SUFFICES ASSUME NEW id \in Reviewable, NEW j \in 1 .. n + 1, l[j] = id
                 PROVE  h = id \/ \E k \in 1 .. n : t[k] = id
    BY <1>1, <1>2 DEF CheckedUpTo
  <2> QED BY <1>3, <2>1, <2>2
<1>7. CASE Waiting!CanReview(h)
  <2>1. /\ w \in Seq(Nat) /\ Len(w) = m + 1 /\ w[m + 1] = h /\ \A i \in 1 .. m : w[i] = v[i]
    <3>1. /\ Append(v, h) \in Seq(Nat) /\ Len(Append(v, h)) = Len(v) + 1 /\ Append(v, h)[Len(v) + 1] = h
          /\ \A i \in 1 .. Len(v) : Append(v, h)[i] = v[i]
      BY AppendProperties
    <3> QED BY <1>2, <1>3, <1>7, <3>1
  <2>2. DOMAIN w = 1 .. m + 1
    BY <2>1, LenProperties
  <2>3. h \in Reviewable
    BY <1>5, <1>7 DEF Waiting!CanReview, Reviewable
  <2>4. \A i \in 1 .. m + 1 : (i \in 1 .. m /\ w[i] = v[i]) \/ (i = m + 1 /\ w[i] = h)
    BY <2>1
  <2>5. Ascends(t)
    BY <1>1, <1>4 DEF Ascends
  <2>6. Ascends(w)
    <3> SUFFICES ASSUME NEW i \in 1 .. m + 1, NEW j \in 1 .. m + 1, i < j PROVE w[i] < w[j]
      BY <2>2 DEF Ascends
    <3>1. i \in 1 .. m /\ w[i] = v[i]
      <4>1. i \in 1 .. m
        OBVIOUS
      <4> QED BY <2>1, <4>1
    <3> QED BY <1>4, <2>4, <3>1
  <2>7. \A i \in 1 .. m + 1, j \in 1 .. n : w[i] < t[j]
    BY <1>4, <2>4
  <2>8. \A i \in 1 .. m + 1 : w[i] \in Reviewable
    BY <1>5, <2>3, <2>4
  <2>9. \A id \in Reviewable : (\E i \in 1 .. m + 1 : w[i] = id) \/ (\E j \in 1 .. n : t[j] = id)
    <3>1. m + 1 \in 1 .. m + 1 /\ \A i \in 1 .. m : i \in 1 .. m + 1
      OBVIOUS
    <3> QED BY <1>6, <2>1, <3>1
  <2> QED BY <1>1, <1>5, <2>2, <2>5, <2>6, <2>7, <2>8, <2>9 DEF CheckedUpTo
<1>8. CASE ~Waiting!CanReview(h)
  <2>1. w = v
    BY <1>3, <1>8
  <2>2. h \notin Reviewable
    BY <1>8 DEF Waiting!CanReview, Reviewable
  <2>3. Ascends(t) /\ Ascends(v)
    BY <1>1, <1>2, <1>4 DEF Ascends
  <2> QED BY <1>1, <1>2, <1>4, <1>5, <1>6, <2>1, <2>2, <2>3 DEF CheckedUpTo
<1> QED BY <1>7, <1>8

LEMMA ServerReads ==
  ASSUME Waiting!QueueAssumption, QueueInv,
         Waiting!CheckListed \/ Waiting!Checked \/ \E id \in Waiting!Ids : Waiting!FindReviewWorkbench(id)
  PROVE  QueueInv'
<1>1. asked.left \in Seq(Waiting!Ids) /\ asked.visible \in Seq(Waiting!Ids) /\ asked \in Waiting!Requests /\ Waiting!ServerOnly
  BY QueueTypes DEF Waiting!CheckListed, Waiting!Checked, Waiting!FindReviewWorkbench
<1>2. CASE Waiting!CheckListed
  <2>1. PICK l \in Seq(Waiting!Ids), v \in Seq(Waiting!Ids) : l = asked.left /\ v = asked.visible
    BY <1>1
  <2>2. l # <<>> /\ asked.step = "checking"
    BY <1>2, <2>1 DEF Waiting!CheckListed
  <2>3. l[1] \in Waiting!Ids /\ Tail(l) \in Seq(Waiting!Ids) /\ Head(l) = l[1]
    <3>1. PICK k \in Nat : Len(l) = k /\ DOMAIN l = 1 .. k /\ k # 0
      BY <2>2, LenProperties, EmptySeq
    <3>2. 1 \in 1 .. k
      BY <3>1
    <3> QED BY <2>2, <3>1, <3>2, HeadTailProperties
  <2>4. PICK w \in Seq(Waiting!Ids) : w = IF Waiting!CanReview(l[1]) THEN Append(v, l[1]) ELSE v
    BY <2>3, AppendProperties
  <2>5. asked' = [asked EXCEPT !.left = Tail(l), !.visible = w]
    BY <1>2, <2>1, <2>3, <2>4 DEF Waiting!CheckListed, Waiting!Goes
  <2>6. PICK r \in Waiting!Requests : r = [asked EXCEPT !.left = Tail(l), !.visible = w]
    BY <1>1, <2>3 DEF Waiting!Requests
  <2>7. r.step = "checking" /\ r.left = Tail(l) /\ r.visible = w
    BY <1>1, <2>2, <2>6 DEF Waiting!Requests
  <2>8. quiet => CheckedUpTo(w, Tail(l))
    <3>1. quiet => CheckedUpTo(v, l)
      BY <2>1, <2>2 DEF QueueInv, RequestFitsQueue
    <3>2. v \in Seq(Nat) /\ l \in Seq(Nat)
      <4>1. Waiting!Ids \subseteq Nat
        BY QueueTypes
      <4>2. PICK k \in Nat, m \in Nat : l \in [1 .. k -> Waiting!Ids] /\ v \in [1 .. m -> Waiting!Ids]
        BY SeqDef
      <4>3. l \in [1 .. k -> Nat] /\ v \in [1 .. m -> Nat]
        BY <4>1, <4>2
      <4> QED BY <4>3
    <3> QED BY <2>2, <2>4, <3>1, <3>2, ChecksOne
  <2> QED BY <1>1, <2>5, <2>6, <2>7, <2>8, QueueGoes
<1>3. CASE Waiting!Checked
  <2>1. asked' = [asked EXCEPT !.step = "reading"] /\ asked.step = "checking" /\ asked.left = <<>>
    BY <1>3 DEF Waiting!Checked, Waiting!Goes
  <2>2. PICK r \in Waiting!Requests : r = [asked EXCEPT !.step = "reading"]
    BY <1>1 DEF Waiting!Requests
  <2>3. r.step = "reading" /\ r.left = asked.left /\ r.visible = asked.visible
    BY <1>1, <2>2 DEF Waiting!Requests
  <2>4. quiet => CheckedUpTo(r.visible, r.left)
    BY <2>1, <2>3 DEF QueueInv, RequestFitsQueue
  <2> QED BY <1>1, <2>1, <2>2, <2>3, <2>4, QueueGoes
<1>4. CASE \E id \in Waiting!Ids : Waiting!FindReviewWorkbench(id)
  <2>1. PICK id \in Waiting!Ids : Waiting!FindReviewWorkbench(id)
    BY <1>4
  <2>2. /\ asked.step = "reading" /\ \E i \in DOMAIN asked.visible : asked.visible[i] = id
        /\ asked' = IF ~queue[id].own /\ role THEN [asked EXCEPT !.read = @ \cup {id}] ELSE [asked EXCEPT !.step = "not_found"]
    BY <2>1 DEF Waiting!FindReviewWorkbench, Waiting!Goes, Waiting!ToSet
  <2>3. asked.left = <<>>
    BY <2>2 DEF QueueInv, RequestFitsQueue
  <2>4. CASE ~queue[id].own /\ role
    <3>1. asked' = [asked EXCEPT !.read = @ \cup {id}]
      BY <2>2, <2>4
    <3>2. PICK r \in Waiting!Requests : r = [asked EXCEPT !.read = @ \cup {id}]
      BY <1>1 DEF Waiting!Requests
    <3>3. r.step = "reading" /\ r.left = asked.left /\ r.visible = asked.visible
      BY <1>1, <2>2, <3>2 DEF Waiting!Requests
    <3>4. quiet => CheckedUpTo(r.visible, r.left)
      BY <2>2, <3>3 DEF QueueInv, RequestFitsQueue
    <3> QED BY <1>1, <2>3, <3>1, <3>2, <3>3, <3>4, QueueGoes
  <2>5. CASE ~(~queue[id].own /\ role)
    <3>1. asked' = [asked EXCEPT !.step = "not_found"]
      BY <2>2, <2>5
    <3>2. PICK r \in Waiting!Requests : r = [asked EXCEPT !.step = "not_found"]
      BY <1>1 DEF Waiting!Requests
    <3>3. r.step = "not_found"
      BY <1>1, <3>2 DEF Waiting!Requests
    <3>4. ~quiet
      <4>1. quiet => CheckedUpTo(asked.visible, asked.left)
        BY <2>2 DEF QueueInv, RequestFitsQueue
      <4>2. quiet => id \in Reviewable
        BY <2>2, <4>1 DEF CheckedUpTo
      <4> QED BY <2>5, <4>2 DEF Reviewable
    <3> QED BY <1>1, <3>1, <3>2, <3>3, <3>4, QueueGoes
  <2> QED BY <2>4, <2>5
<1> QED BY <1>2, <1>3, <1>4

\* The page that is answered is the page of the queue.
LEMMA ServerAnswers ==
  ASSUME Waiting!QueueAssumption, QueueInv, Waiting!Answered
  PROVE  QueueInv'
<1>1. PICK v \in Seq(Waiting!Ids) : v = asked.visible
  BY QueueTypes
<1> DEFINE S == {id \in Waiting!ToSet(v) : Waiting!Supports(id)}
<1>2. PICK all : all = Waiting!Kept(v, S)
  OBVIOUS
<1>3. PICK c \in Nat : c = url.cursor
  BY QueueTypes
<1>4. PICK n \in Nat : n = MaxReviews /\ Waiting!Ids = 1 .. n
  BY QueueTypes
<1>5. all \in Seq(Waiting!Ids)
  <2>1. Waiting!Ids \in SUBSET Nat
    BY <1>4
  <2> QED BY <1>2, <2>1, KeptIs
<1>6. quiet => all = Waiting!InOrder(Found)
  <2> SUFFICES ASSUME quiet PROVE all = Waiting!InOrder(Found)
    OBVIOUS
  <2>1. CheckedUpTo(v, asked.left) /\ asked.left = <<>>
    BY <1>1 DEF Waiting!Answered, QueueInv, RequestFitsQueue
  <2> DEFINE T == {v[i] : i \in {j \in DOMAIN v : v[j] \in S}}
  <2>2. all = Waiting!InOrder(T)
    <3>1. Ascends(v)
      BY <2>1 DEF CheckedUpTo
    <3>2. Waiting!Ids \in SUBSET Nat
      BY <1>4
    <3> HIDE DEF S
    <3> QED BY <1>2, <1>4, <3>1, <3>2, KeptIs
  <2>3. Reviewable = {v[i] : i \in DOMAIN v}
    <3>1. DOMAIN asked.left = {}
      BY <2>1
    <3>2. \A i \in DOMAIN v : v[i] \in Reviewable
      BY <2>1 DEF CheckedUpTo
    <3>3. \A id \in Reviewable : \E i \in DOMAIN v : v[i] = id
      BY <2>1, <3>1 DEF CheckedUpTo
    <3> QED BY <3>2, <3>3
  <2>4. Waiting!ToSet(v) = Reviewable
    BY <2>3 DEF Waiting!ToSet
  <2>5. T = {id \in Reviewable : Waiting!Supports(id)}
    <3>1. S = {id \in Reviewable : Waiting!Supports(id)}
      BY <2>4
    <3>2. T = {x \in Reviewable : x \in S}
      <4> HIDE DEF S
      <4> QED BY <2>3
    <3> QED BY <3>1, <3>2
  <2>6. \A id \in Reviewable :
          Waiting!Supports(id) <=> (url.filters.os = Waiting!AllSystems \/ (queue[id].legacy /\ url.filters.os \in queue[id].targets))
    BY DEF Waiting!Supports, Waiting!SupportedOs
  <2>7. {id \in Reviewable : Waiting!Supports(id)} = Found
    BY <2>6 DEF Reviewable, Found
  <2> QED BY <2>2, <2>5, <2>7
<1> HIDE DEF S
<1>7. PICK items, next, rest : items = CutItems(all, c) /\ next = CutNext(all, c) /\ rest = CutRest(all, c)
  OBVIOUS
<1>8. /\ items \in Seq(Waiting!Ids) /\ next \in Nat /\ (next # 0 => next = c + PageSize)
      /\ items = SubSeq(rest, 1, Waiting!Min({PageSize, Len(rest)}))
      /\ (next # 0 <=> Len(rest) > PageSize)
  <2>1. PageSize \in Nat \ {0}
    BY QueueTypes
  <2> QED BY <1>5, <1>7, <2>1, CutIs
<1>9. Waiting!Page(asked.visible) = [items |-> items, next |-> next]
  BY <1>1, <1>2, <1>3, <1>7 DEF S, Waiting!Page, CutItems, CutNext, Waiting!FirstPage
<1>10. PICK state \in {"empty", "success"} : view' = [state |-> state, answer |-> [items |-> items, next |-> next]]
  BY <1>9 DEF Waiting!Answered, Waiting!Shows
<1>11. asked' = [asked EXCEPT !.step = "over"] /\ UNCHANGED <<queue, role, url, draft, trail, quiet, queueChanges, asks>>
  BY DEF Waiting!Answered, Waiting!Shows, Waiting!Goes
<1>12. view' \in Waiting!Views
  BY <1>8, <1>10 DEF Waiting!Views, Waiting!Answers
<1>13. asked' \in Waiting!Requests /\ asked'.step = "over"
  BY <1>11, QueueTypes DEF Waiting!Requests
<1>14. Waiting!TypeOK'
  BY <1>11, <1>12, <1>13, QueueTypes DEF Waiting!TypeOK
<1>15. TrailFits'
  <2>1. view'.answer.next = next
    BY <1>10
  <2> QED BY <1>3, <1>8, <1>11, <2>1 DEF QueueInv, TrailFits
<1>16. RequestFitsQueue'
  BY <1>13 DEF RequestFitsQueue
<1>17. Waiting!CalmPageIsOfQueue'
  <2>1. view'.answer.items = items /\ view'.answer.next = next
    BY <1>10
  <2>2. Found' = Found
    BY <1>11 DEF Found
  <2>3. quiet' => rest = CutRest(Waiting!InOrder(Found'), url'.cursor)
    BY <1>3, <1>6, <1>7, <1>11, <2>2
  <2>4. quiet' =>
          /\ view'.answer.items = SubSeq(CutRest(Waiting!InOrder(Found'), url'.cursor), 1,
                                         Waiting!Min({PageSize, Len(CutRest(Waiting!InOrder(Found'), url'.cursor))}))
          /\ (view'.answer.next # 0) = (Len(CutRest(Waiting!InOrder(Found'), url'.cursor)) > PageSize)
    <3>1. (next # 0) = (Len(rest) > PageSize)
      BY <1>8
    <3> QED BY <1>8, <2>1, <2>3, <3>1
  <2> QED BY <2>4 DEF Waiting!CalmPageIsOfQueue, Found, CutRest, Waiting!FirstPage
<1>18. Len(queue') <= MaxReviews
  BY <1>11 DEF QueueInv
<1> QED BY <1>14, <1>15, <1>16, <1>17, <1>18 DEF QueueInv

LEMMA QueueFails ==
  ASSUME Waiting!QueueAssumption, QueueInv, Waiting!Fails
  PROVE  QueueInv'
<1>1. /\ view' = [state |-> "error", answer |-> Waiting!NoAnswer] /\ asked' = [asked EXCEPT !.step = "over"]
      /\ UNCHANGED <<queue, role, url, draft, trail, quiet, queueChanges, asks>>
  BY DEF Waiting!Fails, Waiting!Shows, Waiting!Goes
<1>2. view' \in Waiting!Views
  BY <1>1 DEF Waiting!Views, Waiting!Answers, Waiting!NoAnswer, Waiting!FirstPage
<1>3. asked' \in Waiting!Requests /\ asked'.step = "over"
  BY <1>1, QueueTypes DEF Waiting!Requests
<1>4. Waiting!TypeOK'
  BY <1>1, <1>2, <1>3, QueueTypes DEF Waiting!TypeOK
<1>5. TrailFits'
  BY <1>1 DEF QueueInv, TrailFits
<1>6. RequestFitsQueue'
  BY <1>3 DEF RequestFitsQueue
<1>7. Waiting!CalmPageIsOfQueue'
  BY <1>1 DEF Waiting!CalmPageIsOfQueue
<1>8. Len(queue') <= MaxReviews
  BY <1>1 DEF QueueInv
<1> QED BY <1>4, <1>5, <1>6, <1>7, <1>8 DEF QueueInv

LEMMA QueueBegins == ASSUME Waiting!QueueAssumption, Waiting!Init PROVE QueueInv
<1>1. PICK n \in Nat : n + 1 = MaxReviews /\ n = MaxReviews - 1
  BY DEF Waiting!QueueAssumption
<1>2. queue \in [1 .. n -> Waiting!Reviews]
  BY <1>1 DEF Waiting!Init
<1>3. queue \in Seq(Waiting!Reviews) /\ Len(queue) = n
  BY <1>2
<1>4. Len(queue) <= MaxReviews
  BY <1>1, <1>3
<1>5. /\ role \in BOOLEAN /\ url = [filters |-> Waiting!Cleared, cursor |-> 0] /\ draft = Waiting!Cleared /\ trail = <<0>>
      /\ view = [state |-> "loading", answer |-> Waiting!NoAnswer] /\ asked = Waiting!SentRequest
      /\ quiet = TRUE /\ queueChanges = 0 /\ asks = 0 /\ MaxChanges \in Nat /\ MaxAsked \in Nat
  BY DEF Waiting!Init, Waiting!FirstPage, Waiting!QueueAssumption
<1>6. Waiting!Cleared \in Waiting!Filters
  BY DEF Waiting!Cleared, Waiting!Filters, Waiting!Statuses
<1>7. url \in Waiting!Urls /\ view \in Waiting!Views /\ asked \in Waiting!Requests
  BY <1>5, <1>6 DEF Waiting!Urls, Waiting!Views, Waiting!Answers, Waiting!NoAnswer, Waiting!FirstPage, Waiting!SentRequest, Waiting!Requests
<1>8. trail \in Seq(Nat) /\ Len(trail) = 1 /\ DOMAIN trail = {1} /\ trail[1] = 0
  BY <1>5
<1>9. Waiting!TypeOK
  BY <1>3, <1>5, <1>6, <1>7, <1>8 DEF Waiting!TypeOK
<1>10. TrailFits
  BY <1>5, <1>8 DEF TrailFits
<1>11. RequestFitsQueue
  BY <1>5 DEF RequestFitsQueue, Waiting!SentRequest
<1>12. Waiting!CalmPageIsOfQueue
  BY <1>5 DEF Waiting!CalmPageIsOfQueue
<1> QED BY <1>4, <1>9, <1>10, <1>11, <1>12 DEF QueueInv

\* The queue of the reviews, for any reviews, systems and size of a page: as long as
\* nothing changes, what is read in many steps is the page of the queue and no review
\* the list let through is refused, and whatever changes, page before page leads back
\* the way the user came (listReviews, findReviewWorkbench, previousReviewCursor).
THEOREM QueueShowsWhatWaits ==
  ASSUME Waiting!QueueAssumption
  PROVE  Waiting!Spec => [](Waiting!TypeOK /\ Waiting!CalmQueueIsFound /\ Waiting!CalmPageIsOfQueue /\ Waiting!PreviousIsBack)
<1>1. Waiting!Init => QueueInv
  BY QueueBegins
<1>2. QueueInv /\ [Waiting!Next]_Waiting!queueVars => QueueInv'
  <2> SUFFICES ASSUME QueueInv, [Waiting!Next]_Waiting!queueVars PROVE QueueInv'
    OBVIOUS
  <2>1. CASE Waiting!Next
    <3>1. \/ \E review \in Waiting!Reviews : Waiting!OpenReview(review)
          \/ \E id \in DOMAIN queue : Waiting!DecideReview(id)
          \/ Waiting!ChangeRole
          \/ \E filters \in Waiting!Filters : Waiting!TypeDraft(filters)
          \/ Waiting!ApplyFilters \/ Waiting!Clear \/ Waiting!NextPage \/ Waiting!PreviousPage \/ Waiting!Reload
          \/ \E cursor \in Waiting!Ids : Waiting!OpenUrl(cursor)
          \/ Waiting!ListReviews
          \/ Waiting!CheckListed \/ Waiting!Checked \/ (\E id \in Waiting!Ids : Waiting!FindReviewWorkbench(id))
          \/ Waiting!Answered \/ Waiting!Fails
      BY <2>1 DEF Waiting!Next, Waiting!Serves
    <3> QED BY <3>1, OthersKeep, PageMoves, ListsReviews, ServerReads, ServerAnswers, QueueFails
  <2>2. CASE UNCHANGED Waiting!queueVars
    <3>1. UNCHANGED <<queue, role, url, draft, view, asked, trail, quiet, queueChanges, asks>>
      BY <2>2 DEF Waiting!queueVars
    <3>2. Waiting!TypeOK' /\ Waiting!CalmPageIsOfQueue'
      BY <3>1 DEF QueueInv, Waiting!TypeOK, Waiting!CalmPageIsOfQueue
    <3>3. TrailFits' /\ RequestFitsQueue' /\ Len(queue') <= MaxReviews
      BY <3>1 DEF QueueInv, TrailFits, RequestFitsQueue, CheckedUpTo, Reviewable
    <3> QED BY <3>2, <3>3 DEF QueueInv
  <2> QED BY <2>1, <2>2
<1>3. QueueInv => Waiting!TypeOK /\ Waiting!CalmQueueIsFound /\ Waiting!CalmPageIsOfQueue /\ Waiting!PreviousIsBack
  BY DEF QueueInv, RequestFitsQueue, TrailFits, Waiting!CalmQueueIsFound, Waiting!PreviousIsBack, Waiting!Last
<1> QED BY <1>1, <1>2, <1>3, PTL DEF Waiting!Spec

-----------------------------------------------------------------------------
(* The options of a script *)

CONSTANTS NameWords, OptionWords, MaxOptions, MaxEdits
VARIABLES written, typed, stored, verdict, edits

Writing == INSTANCE ScriptOptions WITH Words <- OptionWords, draft <- written

\* The options of a form: the default is of the type, and the choices are there for a select.
Switches == {Writing!Switch(TRUE), Writing!Switch(FALSE)}
Rowed == [name : Writing!Texts(NameWords), type : Writing!Types, description : Writing!Texts({"", "a"}),
          default : Writing!Texts(OptionWords) \cup Switches, choices : Seq(Writing!Texts(OptionWords))]
FormOptions == {o \in Rowed : /\ o.type = "boolean" => o.default \in Switches
                              /\ o.type # "boolean" => o.default \in Writing!Texts(OptionWords)
                              /\ o.type # "select" => o.choices = <<>>}

\* The options of a revision: checked, trimmed, and none is a switch.
Clean(t) == ~Writing!IsBlank(t) /\ ~t.padded
StoredOptions ==
  {o \in FormOptions :
     /\ o.type # "boolean" /\ o.name.word \in Writing!ValidNames
     /\ ~o.name.padded /\ Clean(o.description)
     /\ \A k \in DOMAIN o.choices : Clean(o.choices[k])
     /\ o.type = "select" =>
          /\ o.choices # <<>> /\ Writing!IsInjective(o.choices)
          /\ o.default \in Writing!ToSet(o.choices)}

Drafts(S) == [options : Seq(S), residual : BOOLEAN, cleanup : Writing!Texts({"", "a"})]
Sound(c) ==
  /\ c \in Drafts(StoredOptions) /\ Len(c.options) <= MaxOptions /\ Writing!NamesDiffer(c.options)
  /\ c.residual => ~Writing!IsBlank(c.cleanup)
  /\ ~c.residual => c.cleanup = Writing!NoWords

OptionsInv ==
  /\ written \in Drafts(FormOptions) /\ Sound(stored) /\ edits \in 0 .. MaxEdits
  /\ verdict \in {"none", "saved", "copied", "refused by the page", "refused by the server",
                  "refused to the caller"}

\* What trimming does to a text.
LEMMA TrimmedIs ==
  ASSUME NEW W, NEW t \in Writing!Texts(W)
  PROVE  /\ t.kind = "text" /\ t.word \in W /\ t.padded \in BOOLEAN
         /\ Writing!Trim(t) \in Writing!Texts(W) /\ Writing!Trim(t).word = t.word
         /\ ~Writing!Trim(t).padded /\ Writing!Trim(Writing!Trim(t)) = Writing!Trim(t)
         /\ ~t.padded => Writing!Trim(t) = t
<1>1. t = [kind |-> "text", word |-> t.word, padded |-> t.padded] /\ t.word \in W /\ t.padded \in BOOLEAN
  BY DEF Writing!Texts
<1>2. Writing!Trim(t) = [kind |-> "text", word |-> t.word, padded |-> FALSE]
  <2> DEFINE s == Writing!Trim(t)
  <2>1. s \in Writing!Texts(W) /\ s.kind = "text" /\ s.word = t.word /\ s.padded = FALSE
    BY DEF Writing!Trim, Writing!Texts
  <2> HIDE DEF s
  <2>2. s = [kind |-> s.kind, word |-> s.word, padded |-> s.padded]
    BY <2>1 DEF Writing!Texts
  <2>3. s = [kind |-> "text", word |-> t.word, padded |-> FALSE]
    BY <2>1, <2>2
  <2> QED BY <2>3 DEF s
<1>3. Writing!Trim(Writing!Trim(t)) = Writing!Trim(t)
  BY <1>2 DEF Writing!Trim
<1>4. Writing!Trim(t) \in Writing!Texts(W)
  BY <1>1, <1>2 DEF Writing!Texts
<1> QED BY <1>1, <1>2, <1>3, <1>4

\* The choices of a field, and a field that is written already as it is read.
LEMMA SplitIs ==
  ASSUME NEW W, NEW p \in Seq(Writing!Texts(W))
  PROVE  /\ Writing!Split(p) \in Seq(Writing!Texts(W))
         /\ p = <<>> => Writing!Split(p) = <<>>
         /\ (\A k \in DOMAIN p : Clean(p[k])) => Writing!Split(p) = p
<1>1. PICK m \in Nat : Len(p) = m /\ DOMAIN p = 1 .. m /\ p \in [1 .. m -> Writing!Texts(W)]
  BY LenProperties
<1> DEFINE kept == {k \in DOMAIN p : ~Writing!IsBlank(p[k])}
           at == Writing!InOrder(kept)
<1>2. kept \in SUBSET (1 .. m)
  BY <1>1
<1>3. PICK w \in Nat : w = Cardinality(kept)
  <2>1. IsFiniteSet(1 .. m)
    BY FS_Interval
  <2> HIDE DEF kept
  <2> QED BY <1>2, <2>1, FS_Subset, FS_CardinalityType
<1>4. at = Waiting!InOrder(kept)
  <2> HIDE DEF kept
  <2> QED BY DEF Waiting!InOrder, Writing!InOrder, Waiting!Cardinality, Writing!Cardinality, Cardinality
<1>5. at \in [1 .. w -> kept]
  <2> HIDE DEF kept, at
  <2>1. Enumerates(at, kept)
    BY <1>2, <1>4, InOrderIs
  <2> QED BY <1>3, <2>1 DEF Enumerates
<1>6. Writing!Split(p) = [n \in DOMAIN at |-> Writing!Trim(p[at[n]])]
  BY DEF Writing!Split
<1> HIDE DEF at
<1>7. PICK s : s = Writing!Split(p) /\ s = [n \in 1 .. w |-> Writing!Trim(p[at[n]])]
  BY <1>5, <1>6
<1>8. s \in [1 .. w -> Writing!Texts(W)]
  <2>1. \A n \in 1 .. w : at[n] \in 1 .. m
    BY <1>2, <1>5
  <2>2. \A n \in 1 .. w : p[at[n]] \in Writing!Texts(W)
    BY <1>1, <2>1
  <2>3. \A n \in 1 .. w : Writing!Trim(p[at[n]]) \in Writing!Texts(W)
    BY <2>2, TrimmedIs
  <2> QED BY <1>7, <2>3
<1>9. s \in Seq(Writing!Texts(W))
  BY <1>8
<1>10. ASSUME \A k \in DOMAIN p : Clean(p[k]) PROVE s = p
  <2>1. kept = 1 .. m
    BY <1>1, <1>10 DEF Clean
  <2>2. [i \in 1 .. m |-> i] = Waiting!InOrder(1 .. m)
    <3> DEFINE id == [i \in 1 .. m |-> i]
    <3>1. id \in [1 .. m -> 1 .. m] /\ \A x \in 1 .. m : \E i \in 1 .. m : id[i] = x
      OBVIOUS
    <3>2. Ascends(id)
      BY DEF Ascends
    <3> HIDE DEF id
    <3>3. id = Waiting!InOrder(1 .. m)
      BY <3>1, <3>2, OneOrder
    <3> QED BY <3>3 DEF id
  <2>3. at = [i \in 1 .. m |-> i]
    BY <1>4, <2>1, <2>2
  <2>4. w = m
    <3>1. Cardinality(1 .. m) = m
      <4>1. Cardinality(1 .. m) = IF 1 > m THEN 0 ELSE m - 1 + 1
        BY FS_Interval
      <4> QED BY <4>1
    <3> QED BY <1>3, <2>1, <3>1
  <2>5. \A n \in 1 .. m : Writing!Trim(p[n]) = p[n]
    <3> SUFFICES ASSUME NEW n \in 1 .. m PROVE Writing!Trim(p[n]) = p[n]
      OBVIOUS
    <3>1. p[n] \in Writing!Texts(W) /\ ~p[n].padded
      BY <1>1, <1>10 DEF Clean
    <3> QED BY <3>1, TrimmedIs
  <2>6. \A n \in 1 .. m : s[n] = p[n]
    BY <1>7, <2>3, <2>4, <2>5
  <2> QED BY <1>1, <1>8, <2>4, <2>6
<1>11. ASSUME p = <<>> PROVE s = <<>>
  <2>1. \A k \in DOMAIN p : Clean(p[k])
    BY <1>11
  <2> QED BY <1>10, <1>11, <2>1
<1> QED BY <1>7, <1>9, <1>10, <1>11

\* What one reads off the options.
LEMMA FormOptionIs ==
  ASSUME NEW o \in FormOptions
  PROVE  /\ o.name \in Writing!Texts(NameWords) /\ o.type \in Writing!Types
         /\ o.description \in Writing!Texts({"", "a"}) /\ o.choices \in Seq(Writing!Texts(OptionWords))
         /\ o.default \in Writing!Texts(OptionWords) \cup Switches
         /\ o = [name |-> o.name, type |-> o.type, description |-> o.description,
                 default |-> o.default, choices |-> o.choices]
         /\ (o.type = "boolean") <=> (o.default.kind = "boolean")
         /\ o.default.kind \in {"boolean", "text"}
<1>1. o \in Rowed
  BY DEF FormOptions
<1>2. \A d \in Writing!Texts(OptionWords) : d.kind = "text"
  BY TrimmedIs
<1>3. \A d \in Switches : d.kind = "boolean"
  BY DEF Switches, Writing!Switch
<1>4. /\ o.type = "boolean" => o.default \in Switches
      /\ o.type # "boolean" => o.default \in Writing!Texts(OptionWords)
  BY DEF FormOptions
<1>5. o = [name |-> o.name, type |-> o.type, description |-> o.description,
           default |-> o.default, choices |-> o.choices]
  BY <1>1 DEF Rowed
<1> QED BY <1>1, <1>2, <1>3, <1>4, <1>5 DEF Rowed

\* Options that agree in everything are one.
LEMMA SameRow ==
  ASSUME NEW p \in Rowed, NEW q \in Rowed, p.name = q.name, p.type = q.type,
         p.description = q.description, p.default = q.default, p.choices = q.choices
  PROVE  p = q
<1>1. p = [name |-> p.name, type |-> p.type, description |-> p.description,
           default |-> p.default, choices |-> p.choices]
  BY DEF Rowed
<1>2. q = [name |-> q.name, type |-> q.type, description |-> q.description,
           default |-> q.default, choices |-> q.choices]
  BY DEF Rowed
<1> QED BY <1>1, <1>2, Zenon

\* A stored option passes the model once more and comes out as it is.
LEMMA StoredOptionIs ==
  ASSUME NEW o \in StoredOptions
  PROVE  /\ o \in FormOptions /\ Writing!Trim(o.name) = o.name
         /\ Writing!ModelOption(o) = o
         /\ [o EXCEPT !.name = Writing!Trim(@), !.description = Writing!Trim(@), !.choices = Writing!Split(@)] = o
         /\ o.default.kind = "text"
<1>1. o \in FormOptions
  BY DEF StoredOptions
<1>2. Writing!Trim(o.name) = o.name /\ Writing!Trim(o.description) = o.description
  BY <1>1, FormOptionIs, TrimmedIs DEF StoredOptions, Clean
<1>3. PICK c \in Seq(Writing!Texts(OptionWords)) : c = o.choices
  BY <1>1, FormOptionIs
<1>4. \A k \in DOMAIN c : Clean(c[k])
  BY <1>3 DEF StoredOptions
<1>5. Writing!Split(c) = c
  BY <1>3, <1>4, SplitIs
<1>6. [k \in DOMAIN c |-> Writing!Trim(c[k])] = c
  <2>1. PICK m \in Nat : DOMAIN c = 1 .. m /\ c \in [1 .. m -> Writing!Texts(OptionWords)]
    BY <1>3, LenProperties
  <2>2. \A k \in 1 .. m : Writing!Trim(c[k]) = c[k]
    BY <1>4, <2>1, TrimmedIs DEF Clean
  <2> QED BY <2>1, <2>2
<1>7. o \in Rowed
  BY <1>1 DEF FormOptions
<1>8. Writing!ModelOption(o) = o
  <2> DEFINE m == Writing!ModelOption(o)
  <2>1. /\ m \in Rowed /\ m.name = o.name /\ m.type = o.type
        /\ m.description = o.description /\ m.default = o.default /\ m.choices = o.choices
    BY <1>2, <1>3, <1>6, <1>7 DEF Writing!ModelOption, Rowed
  <2> HIDE DEF m
  <2>2. m = o
    BY <1>7, <2>1, SameRow
  <2> QED BY <2>2 DEF m
<1>9. [o EXCEPT !.name = Writing!Trim(@), !.description = Writing!Trim(@), !.choices = Writing!Split(@)] = o
  <2>1. PICK m : m = [o EXCEPT !.name = Writing!Trim(@), !.description = Writing!Trim(@), !.choices = Writing!Split(@)]
    OBVIOUS
  <2>2. /\ m \in Rowed /\ m.name = o.name /\ m.type = o.type
        /\ m.description = o.description /\ m.default = o.default /\ m.choices = o.choices
    BY <1>2, <1>3, <1>5, <1>7, <2>1 DEF Rowed
  <2> QED BY <1>7, <2>1, <2>2, SameRow
<1>10. o.default.kind = "text"
  BY <1>1, FormOptionIs DEF StoredOptions
<1> QED BY <1>1, <1>2, <1>8, <1>9, <1>10

\* So are contents.
LEMMA SameDraft ==
  ASSUME NEW S, NEW p \in Drafts(S), NEW q \in Drafts(S), p.options = q.options,
         p.residual = q.residual, p.cleanup = q.cleanup
  PROVE  p = q
<1>1. p = [options |-> p.options, residual |-> p.residual, cleanup |-> p.cleanup]
  BY DEF Drafts
<1>2. q = [options |-> q.options, residual |-> q.residual, cleanup |-> q.cleanup]
  BY DEF Drafts
<1> QED BY <1>1, <1>2, Zenon

\* What was stored passes every check again, comes out as it is, and gives a script.
LEMMA SoundWorks ==
  ASSUME NEW c, Sound(c)
  PROVE  /\ Writing!FormAccepts(c) /\ Writing!SaveRevisionPayload(c).options = c.options
         /\ Writing!ValidContent(c) /\ Writing!StoredContent(c) = c
         /\ \A i \in DOMAIN c.options :
              /\ Writing!Admits(c.options[i], c.options[i].default)
              /\ \A k \in DOMAIN c.options[i].choices :
                   Writing!Admits(c.options[i], c.options[i].choices[k])
<1>1. PICK m, l : m \in Nat /\ l \in [1 .. m -> StoredOptions] /\ l = c.options /\ DOMAIN l = 1 .. m /\ m = Len(c.options)
  <2>1. PICK l \in Seq(StoredOptions) : l = c.options
    BY DEF Sound, Drafts
  <2>2. PICK m \in Nat : m = Len(l) /\ DOMAIN l = 1 .. m /\ l \in [1 .. m -> StoredOptions]
    BY LenProperties
  <2> QED BY <2>1, <2>2
<1>2. ASSUME NEW i \in 1 .. m
      PROVE  /\ l[i].name.word \in Writing!ValidNames /\ ~Writing!IsBlank(l[i].description)
             /\ l[i].default.kind = (IF l[i].type = "boolean" THEN "boolean" ELSE "text")
             /\ l[i].type # "select" => l[i].choices = <<>>
             /\ l[i].type = "select" =>
                  /\ l[i].choices # <<>> /\ Writing!IsInjective(l[i].choices)
                  /\ l[i].default \in Writing!ToSet(l[i].choices)
                  /\ \A k \in DOMAIN l[i].choices : ~Writing!IsBlank(l[i].choices[k])
  <2>1. PICK o \in StoredOptions : o = l[i]
    BY <1>1
  <2>2. o \in FormOptions /\ o.default.kind = "text"
    BY StoredOptionIs
  <2> QED BY <2>1, <2>2 DEF StoredOptions, FormOptions, Clean
<1>3. \A i \in 1 .. m : Writing!ModelOption(l[i]) = l[i]
  BY <1>1, StoredOptionIs
<1>4. Writing!FormAccepts(c)
  BY <1>1, <1>2 DEF Sound, Writing!FormAccepts
<1>5. Writing!ValidContent(c)
  BY <1>1, <1>2, <1>3 DEF Sound, Writing!ValidContent, Writing!ModelAccepts
<1>6. Writing!SaveRevisionPayload(c).options = c.options
  <2> DEFINE sent == [i \in 1 .. m |-> [l[i] EXCEPT !.name = Writing!Trim(@), !.description = Writing!Trim(@),
                                                    !.choices = Writing!Split(@)]]
  <2>1. Writing!SaveRevisionPayload(c).options = sent
    BY <1>1 DEF Writing!SaveRevisionPayload, Writing!Content
  <2>2. \A i \in 1 .. m : [l[i] EXCEPT !.name = Writing!Trim(@), !.description = Writing!Trim(@),
                                       !.choices = Writing!Split(@)] = l[i]
    BY <1>1, StoredOptionIs
  <2>3. sent = l
    BY <1>1, <2>2
  <2> QED BY <1>1, <2>1, <2>3
<1>7. Writing!StoredContent(c) = c
  <2>1. [i \in DOMAIN l |-> Writing!ModelOption(l[i])] = l
    BY <1>1, <1>3
  <2>2. c \in Drafts(StoredOptions)
    BY DEF Sound
  <2> DEFINE d == Writing!StoredContent(c)
  <2>3. /\ d \in Drafts(StoredOptions) /\ d.options = c.options /\ d.residual = c.residual
        /\ d.cleanup = c.cleanup
    BY <1>1, <2>1, <2>2 DEF Sound, Writing!StoredContent, Drafts
  <2> HIDE DEF d
  <2>4. d = c
    BY <2>2, <2>3, SameDraft
  <2> QED BY <2>4 DEF d
<1>8. ASSUME NEW i \in 1 .. m
      PROVE  /\ Writing!Admits(l[i], l[i].default)
             /\ \A k \in DOMAIN l[i].choices : Writing!Admits(l[i], l[i].choices[k])
  <2>1. PICK o \in StoredOptions : o = l[i]
    BY <1>1
  <2>2. o \in FormOptions /\ o.default.kind = "text" /\ o.type # "boolean"
    BY StoredOptionIs DEF StoredOptions
  <2>3. Writing!Admits(o, o.default)
    BY <2>2 DEF Writing!Admits, StoredOptions
  <2>4. ASSUME NEW k \in DOMAIN o.choices PROVE Writing!Admits(o, o.choices[k])
    <3>1. PICK s \in Seq(Writing!Texts(OptionWords)) : s = o.choices
      BY <2>2, FormOptionIs
    <3>2. s[k] \in Writing!Texts(OptionWords)
      BY <2>4, <3>1
    <3>3. s[k].kind = "text" /\ s[k] \in Writing!ToSet(o.choices)
      BY <2>4, <3>1, <3>2, TrimmedIs DEF Writing!ToSet
    <3> QED BY <2>2, <3>1, <3>3 DEF Writing!Admits
  <2> QED BY <2>1, <2>3, <2>4
<1> QED BY <1>1, <1>4, <1>5, <1>6, <1>7, <1>8

\* The validator makes words of switches, and leaves a text as it is.
LEMMA CoercedIs ==
  ASSUME NEW o \in FormOptions
  PROVE  /\ Writing!ModelOption([o EXCEPT !.default.kind = "text"]).type = o.type
         /\ Writing!ModelOption([o EXCEPT !.default.kind = "text"]).default.kind = "text"
         /\ o.type # "boolean" => [o EXCEPT !.default.kind = "text"] = o
<1> DEFINE x == [o EXCEPT !.default.kind = "text"]
<1>1. o \in Rowed
  BY DEF FormOptions
<1>2. /\ DOMAIN o = {"name", "type", "description", "default", "choices"} /\ DOMAIN o.default = {"kind", "word", "padded"}
  BY <1>1 DEF Rowed, Writing!Texts, Switches, Writing!Switch
<1>3. x = [o EXCEPT !.default = [o.default EXCEPT !.kind = "text"]]
  OBVIOUS
<1>4. /\ x.type = o.type /\ x.name = o.name /\ x.description = o.description /\ x.choices = o.choices
      /\ x.default = [o.default EXCEPT !.kind = "text"] /\ DOMAIN x = DOMAIN o
  BY <1>2, <1>3
<1>5. x.default.kind = "text"
  BY <1>2, <1>4
<1>6. ASSUME o.type # "boolean" PROVE x = o
  <2>1. PICK d \in Writing!Texts(OptionWords) : d = o.default
    BY <1>6 DEF FormOptions
  <2>2. [d EXCEPT !.kind = "text"] = d
    BY DEF Writing!Texts
  <2>3. x.default = o.default
    BY <1>4, <2>1, <2>2
  <2>4. x \in Rowed
    BY <1>1, <1>3, <2>1, <2>2 DEF Rowed
  <2> HIDE DEF x
  <2> QED BY <1>1, <1>4, <2>3, <2>4, SameRow
<1>7. Writing!ModelOption(x).type = x.type /\ Writing!ModelOption(x).default = x.default
  <2> HIDE DEF x
  <2> QED BY <1>2, <1>4 DEF Writing!ModelOption
<1> QED BY <1>4, <1>5, <1>6, <1>7

\* The model trims the name, the description and the choices.
LEMMA ModelledIs ==
  ASSUME NEW o \in FormOptions
  PROVE  /\ Writing!ModelOption(o) \in FormOptions
         /\ Writing!ModelOption(o).name = Writing!Trim(o.name) /\ ~Writing!ModelOption(o).name.padded
         /\ ~Writing!ModelOption(o).description.padded
         /\ \A k \in DOMAIN Writing!ModelOption(o).choices : ~Writing!ModelOption(o).choices[k].padded
<1> DEFINE y == Writing!ModelOption(o)
<1>1. o \in Rowed
  BY DEF FormOptions
<1>2. PICK m \in Nat : DOMAIN o.choices = 1 .. m /\ o.choices \in [1 .. m -> Writing!Texts(OptionWords)]
  <2>1. PICK c \in Seq(Writing!Texts(OptionWords)) : c = o.choices
    BY FormOptionIs
  <2> QED BY <2>1, LenProperties
<1> DEFINE c == [k \in 1 .. m |-> Writing!Trim(o.choices[k])]
<1>3. c \in [1 .. m -> Writing!Texts(OptionWords)] /\ \A k \in 1 .. m : ~c[k].padded
  BY <1>2, TrimmedIs
<1>4. c \in Seq(Writing!Texts(OptionWords))
  <2> HIDE DEF c
  <2> QED BY <1>3
<1>5. o.choices = <<>> => c = <<>>
  <2> SUFFICES ASSUME o.choices = <<>> PROVE c = <<>>
    OBVIOUS
  <2>1. m = 0
    BY <1>2
  <2> QED BY <2>1
<1>6. /\ Writing!Trim(o.name) \in Writing!Texts(NameWords) /\ ~Writing!Trim(o.name).padded
      /\ Writing!Trim(o.description) \in Writing!Texts({"", "a"}) /\ ~Writing!Trim(o.description).padded
  BY FormOptionIs, TrimmedIs
<1>7. /\ y \in Rowed /\ y.type = o.type /\ y.default = o.default /\ y.choices = c
      /\ y.name = Writing!Trim(o.name) /\ y.description = Writing!Trim(o.description)
  <2>1. [k \in DOMAIN o.choices |-> Writing!Trim(o.choices[k])] = c
    BY <1>2
  <2> HIDE DEF c
  <2> QED BY <1>1, <1>4, <1>6, <2>1 DEF Writing!ModelOption, Rowed
<1> HIDE DEF y
<1>8. y \in FormOptions
  <2> HIDE DEF c
  <2> QED BY <1>5, <1>7 DEF FormOptions
<1>9. \A k \in DOMAIN y.choices : ~y.choices[k].padded
  <2>1. y.choices = c /\ DOMAIN c = 1 .. m
    BY <1>7
  <2> HIDE DEF c
  <2> QED BY <1>3, <2>1
<1> QED BY <1>6, <1>7, <1>8, <1>9 DEF y

\* What the server takes is kept in the form in which it passes again.
LEMMA ReceivesSound ==
  ASSUME OptionsInv, NEW c \in Drafts(FormOptions), NEW given \in BOOLEAN, NEW refused,
         Writing!Receive(c, given, refused)
  PROVE  Sound(stored') /\ verdict' \in {"saved", refused}
<1> DEFINE n == Writing!NextContent(stored, Writing!Coerce(c), given)
           taken == Writing!SchemaAccepts(c) /\ Writing!ValidContent(n)
<1>1. /\ verdict' = IF taken THEN "saved" ELSE refused
      /\ stored' = IF taken THEN Writing!StoredContent(n) ELSE stored
  BY DEF Writing!Receive
<1>2. CASE ~taken
  BY <1>1, <1>2 DEF OptionsInv
<1>3. CASE taken
  <2>1. PICK m, l : m \in Nat /\ l \in [1 .. m -> FormOptions] /\ l = c.options /\ DOMAIN l = 1 .. m /\ m = Len(c.options)
    <3>1. PICK l \in Seq(FormOptions) : l = c.options
      BY DEF Drafts
    <3>2. PICK m \in Nat : m = Len(l) /\ DOMAIN l = 1 .. m /\ l \in [1 .. m -> FormOptions]
      BY LenProperties
    <3> QED BY <3>1, <3>2
  <2> DEFINE w == [i \in 1 .. m |-> [l[i] EXCEPT !.default.kind = "text"]]
  <2>2. n.options = w /\ n.residual = c.residual /\ n.residual \in BOOLEAN /\ n.cleanup \in Writing!Texts({"", "a"})
    BY <2>1 DEF Writing!NextContent, Writing!Coerce, Drafts, OptionsInv, Sound
  <2>3. Writing!ModelAccepts(w) /\ (n.residual => ~Writing!IsBlank(n.cleanup)) /\ m <= MaxOptions
    BY <1>3, <2>1, <2>2 DEF Writing!ValidContent, Writing!SchemaAccepts
  <2>4. ASSUME NEW i \in 1 .. m
        PROVE  /\ w[i] = l[i] /\ Writing!ModelOption(w[i]) \in StoredOptions
               /\ Writing!ModelOption(w[i]).name = Writing!Trim(w[i].name)
    <3>1. PICK o \in FormOptions : o = l[i]
      BY <2>1
    <3>2. w[i] = [o EXCEPT !.default.kind = "text"]
      BY <3>1
    <3>3. Writing!ModelOption(w[i]).type = o.type /\ Writing!ModelOption(w[i]).default.kind = "text"
      BY <3>2, CoercedIs
    <3>4. o.type # "boolean" /\ w[i] = o
      <4>1. Writing!ModelOption(w[i]).default.kind =
              (IF Writing!ModelOption(w[i]).type = "boolean" THEN "boolean" ELSE "text")
        BY <2>3 DEF Writing!ModelAccepts
      <4> QED BY <3>2, <3>3, <4>1, CoercedIs
    <3>5. PICK y \in FormOptions : y = Writing!ModelOption(o)
      BY ModelledIs
    <3>6. /\ y.type # "boolean" /\ y.name.word \in Writing!ValidNames /\ ~Writing!IsBlank(y.description)
          /\ y.type # "select" => y.choices = <<>>
          /\ y.type = "select" =>
               /\ y.choices # <<>> /\ Writing!IsInjective(y.choices) /\ y.default \in Writing!ToSet(y.choices)
               /\ \A k \in DOMAIN y.choices : ~Writing!IsBlank(y.choices[k])
      BY <2>3, <3>3, <3>4, <3>5 DEF Writing!ModelAccepts
    <3>7. \A k \in DOMAIN y.choices : Clean(y.choices[k])
      BY <3>5, <3>6, ModelledIs DEF Clean
    <3>8. y \in StoredOptions
      BY <3>5, <3>6, <3>7, ModelledIs DEF StoredOptions, Clean
    <3> QED BY <3>1, <3>4, <3>5, <3>8, ModelledIs
  <2> DEFINE kept == [i \in 1 .. m |-> Writing!ModelOption(w[i])]
             s == Writing!StoredContent(n)
  <2>5. kept \in [1 .. m -> StoredOptions] /\ \A i \in 1 .. m : kept[i].name = Writing!Trim(w[i].name)
    BY <2>4
  <2>6. kept \in Seq(StoredOptions) /\ Len(kept) = m
    <3>1. m \in Nat
      BY <2>1
    <3> HIDE DEF kept
    <3> QED BY <2>5, <3>1
  <2>7. Writing!NamesDiffer(kept)
    <3>1. \A i \in 1 .. m : Writing!Trim(kept[i].name) = kept[i].name
      <4> HIDE DEF kept
      <4> QED BY <2>5, StoredOptionIs
    <3>2. \A i, j \in 1 .. m : Writing!Trim(w[i].name) = Writing!Trim(w[j].name) => i = j
      BY <2>3 DEF Writing!ModelAccepts, Writing!NamesDiffer
    <3>3. DOMAIN kept = 1 .. m
      OBVIOUS
    <3> HIDE DEF kept, w
    <3> QED BY <2>5, <3>1, <3>2, <3>3 DEF Writing!NamesDiffer
  <2>8. /\ s.options = kept /\ s.residual = n.residual /\ s.cleanup = (IF n.residual THEN n.cleanup ELSE Writing!NoWords)
        /\ s \in [options : {kept}, residual : BOOLEAN, cleanup : Writing!Texts({"", "a"})]
    <3>1. DOMAIN n = {"options", "residual", "cleanup"}
      BY DEF Writing!NextContent, Writing!Coerce, Drafts
    <3>2. Writing!NoWords \in Writing!Texts({"", "a"})
      BY DEF Writing!NoWords, Writing!Text, Writing!Texts
    <3>3. [i \in DOMAIN n.options |-> Writing!ModelOption(n.options[i])] = kept
      BY <2>2
    <3> HIDE DEF n, kept
    <3> QED BY <2>2, <3>1, <3>2, <3>3 DEF Writing!StoredContent
  <2>9. s \in Drafts(StoredOptions)
    <3> HIDE DEF s, kept
    <3> QED BY <2>6, <2>8 DEF Drafts
  <2>10. Sound(s)
    <3> HIDE DEF s, kept, n
    <3> QED BY <2>3, <2>6, <2>7, <2>8, <2>9 DEF Sound
  <2> QED BY <1>1, <1>3, <2>10
<1> QED BY <1>2, <1>3

\* What the page sends is a form again.
LEMMA PayloadIs ==
  ASSUME NEW c \in Drafts(FormOptions)
  PROVE  Writing!SaveRevisionPayload(c) \in Drafts(FormOptions)
<1>1. PICK m, l : m \in Nat /\ l \in [1 .. m -> FormOptions] /\ l = c.options /\ DOMAIN l = 1 .. m
  <2>1. PICK l \in Seq(FormOptions) : l = c.options
    BY DEF Drafts
  <2> QED BY <2>1, LenProperties
<1> DEFINE sent == [i \in 1 .. m |-> [l[i] EXCEPT !.name = Writing!Trim(@), !.description = Writing!Trim(@),
                                                  !.choices = Writing!Split(@)]]
<1>2. ASSUME NEW i \in 1 .. m PROVE sent[i] \in FormOptions
  <2>1. PICK o \in FormOptions : o = l[i]
    BY <1>1
  <2>2. PICK p \in Seq(Writing!Texts(OptionWords)) : p = o.choices
    BY FormOptionIs
  <2>3. Writing!Split(o.choices) \in Seq(Writing!Texts(OptionWords)) /\ (o.choices = <<>> => Writing!Split(o.choices) = <<>>)
    BY <2>2, SplitIs
  <2>4. Writing!Trim(o.name) \in Writing!Texts(NameWords) /\ Writing!Trim(o.description) \in Writing!Texts({"", "a"})
    BY FormOptionIs, TrimmedIs
  <2>5. [o EXCEPT !.name = Writing!Trim(@), !.description = Writing!Trim(@), !.choices = Writing!Split(@)] \in FormOptions
    BY <2>3, <2>4 DEF FormOptions, Rowed
  <2> QED BY <2>1, <2>5
<1>3. sent \in Seq(FormOptions)
  <2>1. sent \in [1 .. m -> FormOptions] /\ m \in Nat
    BY <1>1, <1>2
  <2> HIDE DEF sent
  <2> QED BY <2>1
<1>4. (IF c.residual THEN Writing!Trim(c.cleanup) ELSE Writing!NoWords) \in Writing!Texts({"", "a"})
  <2>1. Writing!NoWords \in Writing!Texts({"", "a"})
    BY DEF Writing!NoWords, Writing!Text, Writing!Texts
  <2>2. c.cleanup \in Writing!Texts({"", "a"})
    BY DEF Drafts
  <2> QED BY <2>1, <2>2, TrimmedIs
<1>5. Writing!SaveRevisionPayload(c) = [options |-> sent, residual |-> c.residual,
                                        cleanup |-> IF c.residual THEN Writing!Trim(c.cleanup) ELSE Writing!NoWords]
  BY <1>1 DEF Writing!SaveRevisionPayload, Writing!Content
<1>6. c.residual \in BOOLEAN
  BY DEF Drafts
<1> DEFINE cleanup == IF c.residual THEN Writing!Trim(c.cleanup) ELSE Writing!NoWords
<1>7. [options |-> sent, residual |-> c.residual, cleanup |-> cleanup] \in Drafts(FormOptions)
  <2> HIDE DEF sent, cleanup
  <2> QED BY <1>3, <1>4, <1>6 DEF Drafts, cleanup
<1> QED BY <1>5, <1>7

\* An edit puts a form in place of the form.
LEMMA EditFits ==
  ASSUME Writing!OptionsAssumption, OptionsInv, NEW l \in Seq(FormOptions), Writing!Edit(l)
  PROVE  OptionsInv'
<1>1. /\ written' = [written EXCEPT !.options = l] /\ stored' = stored /\ verdict' = "none"
      /\ edits' = edits + 1 /\ edits < MaxEdits
  BY DEF Writing!Edit
<1>2. written' \in Drafts(FormOptions)
  BY <1>1 DEF OptionsInv, Drafts
<1>3. edits' \in 0 .. MaxEdits
  <2>1. edits \in 0 .. MaxEdits /\ MaxEdits \in Nat
    BY DEF OptionsInv, Writing!OptionsAssumption
  <2> QED BY <1>1, <2>1
<1> QED BY <1>1, <1>2, <1>3 DEF OptionsInv, Sound

LEMMA UpdateFits ==
  ASSUME Writing!OptionsAssumption, OptionsInv, NEW i \in DOMAIN written.options,
         NEW o \in FormOptions, Writing!Update(i, o)
  PROVE  OptionsInv'
<1>1. PICK l \in Seq(FormOptions) : l = written.options
  BY DEF OptionsInv, Drafts
<1>2. [l EXCEPT ![i] = o] \in Seq(FormOptions)
  BY <1>1
<1> QED BY <1>1, <1>2, EditFits DEF Writing!Update

\* Another type brings a default of that type.
LEMMA ChangeFits ==
  ASSUME Writing!OptionsAssumption, NEW o \in FormOptions, NEW type \in Writing!Types
  PROVE  Writing!ChangeType(o, type) \in FormOptions
<1> DEFINE default == CASE type = "boolean" /\ o.type # "boolean" -> Writing!Switch(FALSE)
                        [] type # "boolean" /\ o.type = "boolean" -> Writing!NoWords
                        [] OTHER -> o.default
           choices == CASE type # "select" -> <<>>
                        [] type = "select" /\ o.choices = <<>> /\ ~(default.word = "" /\ ~default.padded) -> <<default>>
                        [] OTHER -> o.choices
<1>1. Writing!NoWords \in Writing!Texts(OptionWords) /\ Writing!Switch(FALSE) \in Switches
  BY DEF Writing!NoWords, Writing!Text, Writing!Texts, Switches, Writing!OptionsAssumption
<1>2. (type = "boolean" => default \in Switches) /\ (type # "boolean" => default \in Writing!Texts(OptionWords))
  BY <1>1 DEF FormOptions
<1>3. choices \in Seq(Writing!Texts(OptionWords)) /\ (type # "select" => choices = <<>>)
  <2>1. o.choices \in Seq(Writing!Texts(OptionWords))
    BY FormOptionIs
  <2> HIDE DEF default
  <2>2. CASE type # "select"
    <3>1. choices = <<>>
      BY <2>2, Zenon
    <3>2. <<>> \in Seq(Writing!Texts(OptionWords))
      OBVIOUS
    <3> HIDE DEF choices
    <3> QED BY <3>1, <3>2
  <2>3. CASE type = "select"
    <3>1. PICK d \in Writing!Texts(OptionWords) : d = default
      BY <1>2, <2>3
    <3>2. <<d>> \in Seq(Writing!Texts(OptionWords))
      OBVIOUS
    <3>3. choices \in {<<default>>, o.choices}
      BY <2>3
    <3> HIDE DEF choices
    <3> QED BY <2>1, <2>3, <3>1, <3>2, <3>3
  <2> QED BY <2>2, <2>3
<1>4. Writing!ChangeType(o, type) = [o EXCEPT !.type = type, !.default = default, !.choices = choices]
  BY DEF Writing!ChangeType
<1> HIDE DEF default, choices
<1> QED BY <1>2, <1>3, <1>4 DEF FormOptions, Rowed

\* The invariant holds at first, a step keeps it, and it tells what is asked.
LEMMA OptionsStart == ASSUME Writing!OptionsAssumption, Writing!Init PROVE OptionsInv
<1>1. Writing!NoWords \in Writing!Texts({"", "a"})
  BY DEF Writing!NoWords, Writing!Text, Writing!Texts
<1> DEFINE none == Writing!NoRevision
<1>2. none.options = <<>> /\ none.residual = FALSE /\ none.cleanup = Writing!NoWords
  BY DEF Writing!NoRevision, Writing!Content
<1>3. \A S : none \in Drafts(S)
  <2> TAKE S
  <2>1. <<>> \in Seq(S)
    OBVIOUS
  <2> QED BY <1>1, <2>1 DEF Writing!NoRevision, Writing!Content, Drafts
<1> HIDE DEF none
<1>4. Sound(none)
  <2>0. MaxOptions \in Nat
    BY Zenon DEF Writing!OptionsAssumption
  <2>1. Len(none.options) = 0 /\ DOMAIN none.options = {} /\ 0 <= MaxOptions
    BY <1>2, <2>0
  <2> QED BY <1>2, <1>3, <2>1 DEF Sound, Writing!NamesDiffer
<1>5. 0 \in 0 .. MaxEdits
  <2>1. MaxEdits \in Nat
    BY Zenon DEF Writing!OptionsAssumption
  <2> QED BY <2>1
<1> QED BY <1>3, <1>4, <1>5 DEF Writing!Init, OptionsInv, none

LEMMA SoundIsForm == ASSUME NEW c, Sound(c) PROVE c \in Drafts(FormOptions)
<1>1. PICK l \in Seq(StoredOptions) : l = c.options
  BY DEF Sound, Drafts
<1>2. StoredOptions \subseteq FormOptions
  BY DEF StoredOptions
<1>3. l \in Seq(FormOptions)
  <2> HIDE DEF StoredOptions
  <2> QED BY <1>2
<1> QED BY <1>1, <1>3 DEF Sound, Drafts

LEMMA OptionsStep ==
  ASSUME Writing!OptionsAssumption, OptionsInv, [Writing!Next]_(Writing!vars)
  PROVE  OptionsInv'
<1>1. PICK l \in Seq(FormOptions) : l = written.options /\ DOMAIN l = 1 .. Len(l) /\ Len(l) \in Nat
  BY LenProperties DEF OptionsInv, Drafts
<1>2. CASE Writing!AddOption
  <2>1. Writing!NewOption \in FormOptions
    <3>1. /\ Writing!Text("--option", FALSE) \in Writing!Texts(NameWords)
          /\ Writing!Text("", FALSE) \in Writing!Texts({"", "a"})
          /\ Writing!Text("", FALSE) \in Writing!Texts(OptionWords)
      BY DEF Writing!OptionsAssumption, Writing!Text, Writing!Texts
    <3>2. <<>> \in Seq(Writing!Texts(OptionWords)) /\ "text" \in Writing!Types
      BY DEF Writing!Types
    <3> QED BY <3>1, <3>2 DEF Writing!NewOption, Writing!Option, FormOptions, Rowed
  <2>2. Append(l, Writing!NewOption) \in Seq(FormOptions)
    BY <2>1
  <2> QED BY <1>1, <1>2, <2>2, EditFits DEF Writing!AddOption
<1>3. CASE Writing!EditCleanup
  <2>1. written' \in Drafts(FormOptions)
    BY <1>3 DEF Writing!EditCleanup, OptionsInv, Drafts
  <2>2. edits' \in 0 .. MaxEdits
    <3>1. edits \in 0 .. MaxEdits /\ MaxEdits \in Nat
      BY DEF OptionsInv, Writing!OptionsAssumption
    <3>2. edits < MaxEdits /\ edits' = edits + 1
      BY <1>3 DEF Writing!EditCleanup
    <3> QED BY <3>1, <3>2
  <2> QED BY <1>3, <2>1, <2>2 DEF Writing!EditCleanup, OptionsInv, Sound
<1>4. CASE Writing!Save
  <2>1. CASE Writing!FormAccepts(written)
    <3>1. Sound(stored') /\ verdict' \in {"saved", "refused by the server"}
      <4>1. Writing!SaveRevisionPayload(written) \in Drafts(FormOptions) /\ written.residual \in BOOLEAN
        BY PayloadIs DEF OptionsInv, Drafts
      <4> QED BY <1>4, <2>1, <4>1, ReceivesSound DEF Writing!Save
    <3>2. written' = (IF verdict' = "saved" THEN stored' ELSE written) /\ edits' = edits
      BY <1>4, <2>1 DEF Writing!Save
    <3>3. stored' \in Drafts(FormOptions)
      BY <3>1, SoundIsForm
    <3> QED BY <3>1, <3>2, <3>3 DEF OptionsInv, Sound
  <2>2. CASE ~Writing!FormAccepts(written)
    BY <1>4, <2>2 DEF Writing!Save, OptionsInv, Sound
  <2> QED BY <2>1, <2>2
<1>5. CASE Writing!Reload
  <2>1. stored \in Drafts(FormOptions)
    BY SoundIsForm DEF OptionsInv
  <2> QED BY <1>5, <2>1 DEF Writing!Reload, OptionsInv, Sound
<1>6. CASE Writing!CopyRevision
  <2>1. Writing!ValidContent(stored)
    BY SoundWorks DEF OptionsInv
  <2> QED BY <1>6, <2>1 DEF Writing!CopyRevision, OptionsInv, Sound
<1>7. ASSUME NEW given \in BOOLEAN, Writing!SaveByCaller(given) PROVE OptionsInv'
  <2>1. Sound(stored') /\ verdict' \in {"saved", "refused to the caller"}
    BY <1>7, ReceivesSound DEF Writing!SaveByCaller, OptionsInv
  <2> QED BY <1>7, <2>1 DEF Writing!SaveByCaller, OptionsInv, Sound
<1>8. ASSUME NEW i \in DOMAIN written.options PROVE written.options[i] \in FormOptions
  BY <1>1, <1>8
<1>9. ASSUME NEW i \in DOMAIN written.options, Writing!UpdateName(i) PROVE OptionsInv'
  <2>1. PICK t \in Writing!Texts(NameWords) : Writing!Update(i, [written.options[i] EXCEPT !.name = t])
    BY <1>9 DEF Writing!UpdateName
  <2>2. [written.options[i] EXCEPT !.name = t] \in FormOptions
    BY <1>8 DEF FormOptions, Rowed
  <2> QED BY <2>1, <2>2, UpdateFits
<1>10. ASSUME NEW i \in DOMAIN written.options, Writing!UpdateDescription(i) PROVE OptionsInv'
  <2>1. PICK t \in Writing!Texts({"", "a"}) : Writing!Update(i, [written.options[i] EXCEPT !.description = t])
    BY <1>10 DEF Writing!UpdateDescription
  <2>2. [written.options[i] EXCEPT !.description = t] \in FormOptions
    BY <1>8 DEF FormOptions, Rowed
  <2> QED BY <2>1, <2>2, UpdateFits
<1>11. ASSUME NEW i \in DOMAIN written.options, Writing!UpdateDefault(i) PROVE OptionsInv'
  <2>1. PICK d \in IF written.options[i].type = "boolean" THEN Switches ELSE Writing!Texts(OptionWords) :
          Writing!Update(i, [written.options[i] EXCEPT !.default = d])
    BY <1>11 DEF Writing!UpdateDefault, Switches
  <2>2. [written.options[i] EXCEPT !.default = d] \in FormOptions
    BY <1>8 DEF FormOptions, Rowed
  <2> QED BY <2>1, <2>2, UpdateFits
<1>12. ASSUME NEW i \in DOMAIN written.options, Writing!UpdateType(i) PROVE OptionsInv'
  <2>1. PICK type \in Writing!Types : Writing!Update(i, Writing!ChangeType(written.options[i], type))
    BY <1>12 DEF Writing!UpdateType
  <2>2. Writing!ChangeType(written.options[i], type) \in FormOptions
    BY <1>8, ChangeFits
  <2> QED BY <2>1, <2>2, UpdateFits
<1>13. ASSUME NEW i \in DOMAIN written.options, Writing!RemoveOption(i) PROVE OptionsInv'
  <2>1. i \in 1 .. Len(l)
    BY <1>1
  <2>2. Writing!RemoveAt(l, i) \in Seq(FormOptions)
    <3>1. SubSeq(l, 1, i - 1) \in Seq(FormOptions) /\ SubSeq(l, i + 1, Len(l)) \in Seq(FormOptions)
      BY <1>1, <2>1, SubSeqProperties
    <3> QED BY <3>1, ConcatProperties DEF Writing!RemoveAt
  <2> QED BY <1>1, <1>13, <2>2, EditFits DEF Writing!RemoveOption
<1>14. ASSUME NEW i \in DOMAIN written.options, NEW p \in Writing!Pieces, Writing!UpdateChoices(i, p) PROVE OptionsInv'
  <2>1. p \in Seq(Writing!Texts(OptionWords))
    <3> DEFINE T == Writing!Texts(OptionWords)
    <3>1. PICK a \in T, b \in T, c \in T, d \in T :
            /\ a = Writing!Text("a", FALSE) /\ b = Writing!Text("b", TRUE)
            /\ c = Writing!Text("b", FALSE) /\ d = Writing!NoWords
      BY DEF Writing!Text, Writing!Texts, Writing!NoWords, Writing!OptionsAssumption
    <3>2. p \in {<<a>>, <<a, d>>, <<a, b>>, <<c, c>>, <<d>>}
      BY <3>1 DEF Writing!Pieces
    <3> HIDE DEF T
    <3>3. \A x, y \in T : <<x>> \in Seq(T) /\ <<x, y>> \in Seq(T)
      OBVIOUS
    <3>4. p \in Seq(T)
      BY <3>2, <3>3
    <3> QED BY <3>4 DEF T
  <2>2. Writing!Split(p) \in Seq(Writing!Texts(OptionWords))
    BY <2>1, SplitIs
  <2>3. written.options[i].type = "select"
    BY <1>14 DEF Writing!UpdateChoices
  <2>4. [written.options[i] EXCEPT !.choices = Writing!Split(p)] \in FormOptions
    BY <1>8, <2>2, <2>3 DEF FormOptions, Rowed
  <2>5. [l EXCEPT ![i] = [l[i] EXCEPT !.choices = Writing!Split(p)]] \in Seq(FormOptions)
    BY <1>1, <2>4
  <2>6. [written.options EXCEPT ![i].choices = Writing!Split(p)] \in Seq(FormOptions)
    BY <1>1, <2>5
  <2> QED BY <1>14, <2>6, EditFits DEF Writing!UpdateChoices
<1>15. CASE UNCHANGED Writing!vars
  BY <1>15 DEF Writing!vars, OptionsInv, Sound
<1> QED BY <1>2, <1>3, <1>4, <1>5, <1>6, <1>7, <1>9, <1>10, <1>11, <1>12, <1>13, <1>14, <1>15 DEF Writing!Next

LEMMA OptionsTell ==
  ASSUME OptionsInv
  PROVE  Writing!OptionsTypeOK /\ Writing!StoredOptionsWork
<1>1. Sound(stored) /\ stored \in Drafts(FormOptions)
  BY SoundIsForm DEF OptionsInv
<1>2. \A c \in Drafts(FormOptions) : c.options \in Writing!OptionLists
  <2> SUFFICES ASSUME NEW c \in Drafts(FormOptions) PROVE c.options \in Writing!OptionLists
    OBVIOUS
  <2>1. PICK l \in Seq(FormOptions) : l = c.options
    BY DEF Drafts
  <2> DEFINE R == [name : Writing!Texts(NameWords), type : Writing!Types, description : Writing!Texts({"", "a"}),
                   default : Writing!Texts(OptionWords) \union {Writing!Switch(TRUE), Writing!Switch(FALSE),
                                Writing!Text("true", FALSE), Writing!Text("false", FALSE)},
                   choices : Seq(Writing!Texts(OptionWords))]
  <2>2. FormOptions \subseteq R
    BY DEF FormOptions, Rowed, Switches
  <2>3. l \in Seq(R)
    <3> HIDE DEF R
    <3> QED BY <2>2
  <2> QED BY <2>1, <2>3 DEF Writing!OptionLists
<1>3. ASSUME NEW i \in DOMAIN written.options
      PROVE  /\ (written.options[i].type = "boolean") = (written.options[i].default.kind = "boolean")
             /\ written.options[i].type # "select" => written.options[i].choices = <<>>
  <2>1. PICK l \in Seq(FormOptions) : l = written.options
    BY DEF OptionsInv, Drafts
  <2>2. PICK o \in FormOptions : o = written.options[i]
    BY <1>3, <2>1
  <2>3. (o.type = "boolean") <=> (o.default.kind = "boolean")
    BY FormOptionIs
  <2>4. o.type # "select" => o.choices = <<>>
    BY DEF FormOptions
  <2> QED BY <2>2, <2>3, <2>4
<1>4. Writing!OptionsTypeOK
  BY <1>1, <1>2, <1>3 DEF OptionsInv, Writing!OptionsTypeOK
<1>5. Writing!StoredResolves /\ Writing!StoredSavesAgain
  BY <1>1, SoundWorks DEF OptionsInv, Writing!StoredResolves, Writing!StoredSavesAgain
<1> QED BY <1>4, <1>5 DEF Writing!StoredOptionsWork

\* Whatever is typed into the editor and whatever another caller sends, a
\* revision that was stored gives a script, with every choice it offers, and can
\* be stored and copied again as it is (script-target-model.ts, buildRevision).
THEOREM StoredOptionsWorkHolds ==
  ASSUME Writing!OptionsAssumption
  PROVE  Writing!Spec => [](Writing!OptionsTypeOK /\ Writing!StoredOptionsWork)
<1>1. Writing!Init => OptionsInv
  BY OptionsStart
<1>2. OptionsInv /\ [Writing!Next]_(Writing!vars) => OptionsInv'
  BY OptionsStep
<1>3. OptionsInv => Writing!OptionsTypeOK /\ Writing!StoredOptionsWork
  BY OptionsTell
<1> QED BY <1>1, <1>2, <1>3, PTL DEF Writing!Spec
=============================================================================
