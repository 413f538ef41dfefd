----------------------------- MODULE PagingProofs -----------------------------
(* What a client misses or gets twice, for any table, page size and clock.   *)
EXTENDS Paging, FiniteSetTheorems, TLAPS

----------------------------------------------------------------------------
(* Types                                                                   *)

\* Every variable of the table and of its reader has its type.
THEOREM TypeCorrect == Spec => []TypeOK
<1> USE PagingAssumption DEF TypeOK, rowVars, readerVars
<1>1. Init => TypeOK
  <2> SUFFICES ASSUME Init PROVE TypeOK
    OBVIOUS
  <2>1. created = [k \in Keys |-> 0] /\ updated = [k \in Keys |-> 0] /\ now = 0
    BY DEF Init
  <2>2. \A k \in Keys : created[k] <= updated[k]
    BY <2>1
  <2>3. created \in [Keys -> 0..now] /\ updated \in [Keys -> 0..now]
    BY <2>1
  <2>4. row \in [Keys -> {"unused", "written", "present", "gone"}]
    BY DEF Init
  <2>5. shown \in [Keys -> Nat] /\ lasting \subseteq {k \in Keys : row[k] = "present"}
    BY DEF Init
  <2>6. now \in 0..MaxClock /\ readAt \in 0..now
    BY DEF Init
  <2>7. /\ query \in Queries /\ offset \in Nat /\ done \in BOOLEAN
        /\ deletions \in Nat /\ insertions \in Nat
    BY DEF Init
  <2> QED
    BY <2>2, <2>3, <2>4, <2>5, <2>6, <2>7
<1>2. TypeOK /\ [Next]_vars => TypeOK'
  <2> SUFFICES ASSUME TypeOK, [Next]_vars PROVE TypeOK'
    OBVIOUS
  <2>1. CASE Tick
    BY <2>1 DEF Tick
  <2>2. CASE ReadPage
    <3>1. Limit \in Nat
      BY DEF MAX_PAGE_SIZE
    <3>2. shown' \in [Keys -> Nat]
      BY <2>2 DEF ReadPage
    <3>3. lasting' \subseteq {k \in Keys : row[k] = "present"}
      BY <2>2 DEF ReadPage, Found
    <3> QED
      BY <2>2, <3>1, <3>2, <3>3 DEF ReadPage
  <2>3. ASSUME NEW k \in Keys, Create(k) PROVE TypeOK'
    BY <2>3 DEF Create
  <2>4. ASSUME NEW k \in Keys, Commit(k) PROVE TypeOK'
    BY <2>4 DEF Commit
  <2>5. ASSUME NEW k \in Keys, Rollback(k) PROVE TypeOK'
    BY <2>5 DEF Rollback
  <2>6. ASSUME NEW k \in Keys, Edit(k) PROVE TypeOK'
    BY <2>6 DEF Edit
  <2>7. ASSUME NEW k \in Keys, Delete(k) PROVE TypeOK'
    BY <2>7 DEF Delete
  <2>8. CASE UNCHANGED vars
    BY <2>8 DEF vars
  <2> QED
    BY <2>1, <2>2, <2>3, <2>4, <2>5, <2>6, <2>7, <2>8 DEF Next
<1> QED
  BY <1>1, <1>2, PTL DEF Spec

----------------------------------------------------------------------------
(* The order of the rows, and the place a row has in it.                    *)

\* Both queries sort by a strict total order.
LEMMA StrictOrder ==
  ASSUME TypeOK, NEW a \in Keys, NEW b \in Keys, NEW c \in Keys
  PROVE  /\ ~OrderBy(a, a)
         /\ a # b => OrderBy(a, b) \/ OrderBy(b, a)
         /\ OrderBy(a, b) /\ OrderBy(b, c) => OrderBy(a, c)
BY PagingAssumption DEF TypeOK, OrderBy

\* Only finitely many rows come before a row, or are found at all.
LEMMA Finite ==
  ASSUME NEW k
  PROVE  /\ IsFiniteSet(Found) /\ IsFiniteSet(Before(k))
         /\ Rank(k) \in Nat
<1>1. Found \in SUBSET Keys /\ Before(k) \in SUBSET Keys
  BY DEF Found, Before
<1>2. IsFiniteSet(Found) /\ IsFiniteSet(Before(k))
  BY <1>1, FS_Subset, PagingAssumption
<1> QED
  BY <1>2, FS_CardinalityType DEF Rank

\* A row that sorts earlier has fewer rows before it.
LEMMA RankIncreases ==
  ASSUME TypeOK, NEW a \in Found, NEW b \in Keys, OrderBy(a, b)
  PROVE  Rank(a) < Rank(b)
<1>1. a \in Keys
  BY DEF Found
<1>2. Before(a) \in SUBSET Before(b)
  BY <1>1, StrictOrder DEF Before, Found
<1>3. a \in Before(b) /\ a \notin Before(a)
  BY <1>1, StrictOrder DEF Before
<1>4. /\ Cardinality(Before(a)) <= Cardinality(Before(b))
      /\ Cardinality(Before(b)) = Cardinality(Before(a)) => Before(b) = Before(a)
  BY <1>2, Finite, FS_Subset
<1> QED
  BY <1>3, <1>4, Finite DEF Rank

\* A row that sorts earlier, found or not, has no more rows before it.
LEMMA RankDoesNotDecrease ==
  ASSUME TypeOK, NEW a \in Keys, NEW b \in Keys, OrderBy(a, b)
  PROVE  Rank(a) <= Rank(b)
<1>1. Before(a) \in SUBSET Before(b)
  BY StrictOrder DEF Before, Found
<1> QED
  BY <1>1, Finite, FS_Subset DEF Rank

\* No two rows have the same place.
LEMMA RanksDiffer ==
  ASSUME TypeOK, NEW a \in Found, NEW b \in Found, Rank(a) = Rank(b)
  PROVE  a = b
<1>1. a \in Keys /\ b \in Keys
  BY DEF Found
<1>2. ~OrderBy(a, b) /\ ~OrderBy(b, a)
  BY <1>1, RankIncreases, Finite
<1> QED
  BY <1>1, <1>2, StrictOrder

\* The rows before a row have the places before its place, all of them.
LEMMA RanksAreDense ==
  ASSUME TypeOK, NEW k \in Found, NEW r \in 0..(Rank(k) - 1)
  PROVE  \E a \in Found : Rank(a) = r
<1> DEFINE B == Before(k)
           P == 0..(Rank(k) - 1)
           f == [a \in B |-> Rank(a)]
<1>1. Rank(k) \in Nat /\ IsFiniteSet(B) /\ k \in Keys /\ B \subseteq Found
  BY Finite DEF Before, Found
<1>2. IsFiniteSet(P) /\ Cardinality(P) = Rank(k)
  BY <1>1, FS_Interval
<1>3. ASSUME NEW a \in B PROVE f[a] \in P
  <2>1. Rank(a) < Rank(k)
    BY <1>1, RankIncreases DEF Before
  <2> QED
    BY <1>1, <2>1, Finite
<1>4. ASSUME NEW a \in B, NEW b \in B, f[a] = f[b] PROVE a = b
  BY <1>1, <1>4, RanksDiffer
<1>5. f \in Injection(B, P)
  BY <1>3, <1>4 DEF Injection, IsInjective
<1>6. f \in Surjection(B, P)
  BY <1>2, <1>5, FS_Injection DEF Rank
<1>7. PICK a \in B : f[a] = r
  BY <1>6 DEF Surjection
<1> QED
  BY <1>1, <1>7

\* A page that is not full is the last one: no row comes after it.
LEMMA ShortPageIsLast ==
  ASSUME TypeOK, Cardinality(Page) < Limit, NEW k \in Found
  PROVE  Rank(k) < offset + Limit
<1> SUFFICES ASSUME Rank(k) >= offset + Limit PROVE FALSE
  BY Finite, PagingAssumption DEF TypeOK, MAX_PAGE_SIZE
<1> DEFINE Places == offset..(offset + Limit - 1)
           f == [a \in Page |-> Rank(a)]
<1>1. offset \in Nat /\ Limit \in Nat /\ Rank(k) \in Nat
  BY Finite, PagingAssumption DEF TypeOK, MAX_PAGE_SIZE
<1>2. Page \in SUBSET Found /\ IsFiniteSet(Page)
  BY Finite, FS_Subset DEF Page
<1>3. ASSUME NEW a \in Page PROVE f[a] \in Places
  BY <1>1, Finite DEF Page
<1>4. ASSUME NEW r \in Places PROVE \E a \in Page : f[a] = r
  <2>1. PICK a \in Found : Rank(a) = r
    BY <1>1, RanksAreDense
  <2>2. a \in Page
    BY <1>1, <2>1 DEF Page
  <2> QED
    BY <2>1, <2>2
<1>5. f \in Surjection(Page, Places)
  BY <1>3, <1>4 DEF Surjection
<1>6. Cardinality(Places) <= Cardinality(Page)
  BY <1>2, <1>5, FS_Surjection
<1>7. Cardinality(Places) = Limit
  BY <1>1, FS_Interval, PagingAssumption DEF MAX_PAGE_SIZE
<1> QED
  BY <1>1, <1>2, <1>6, <1>7, FS_CardinalityType

----------------------------------------------------------------------------
(* What a step does to the places.                                          *)

\* No place moves while no row that a query finds comes, goes or changes its time.
LEMMA RanksStay ==
  ASSUME Found' = Found, query' = query,
         \A k \in Found : created'[k] = created[k], NEW k \in Found
  PROVE  Rank(k)' = Rank(k)
<1>1. Before(k)' = Before(k)
  BY DEF Before, OrderBy
<1> QED
  BY <1>1 DEF Rank

\* The steps of the writers that no query sees.
LEMMA UnseenSteps ==
  ASSUME TypeOK, NEW c \in Keys, Create(c) \/ Rollback(c) \/ Edit(c)
  PROVE  /\ Found' = Found /\ query' = query
         /\ \A k \in Found : created'[k] = created[k]
<1>1. query' = query
  BY DEF Create, Rollback, Edit, readerVars
<1>2. ASSUME NEW k \in Keys PROVE (row'[k] = "present") <=> (row[k] = "present")
  BY DEF Create, Rollback, Edit, TypeOK
<1>3. Found' = Found
  BY <1>1, <1>2 DEF Found, Selected
<1>4. \A k \in Found : created'[k] = created[k]
  BY DEF Create, Rollback, Edit, TypeOK, Found
<1> QED
  BY <1>1, <1>3, <1>4

\* A row that is committed moves those after it one place back.
LEMMA CommitRanks ==
  ASSUME TypeOK, NEW c \in Keys, Commit(c)
  PROVE  /\ Found' = IF Selected(c) THEN Found \cup {c} ELSE Found
         /\ c \notin Found
         /\ \A k \in Keys :
               Rank(k)' = IF Selected(c) /\ OrderBy(c, k) THEN Rank(k) + 1 ELSE Rank(k)
<1>1. /\ c \notin Found /\ row' = [row EXCEPT ![c] = "present"]
      /\ query' = query /\ created' = created
  BY DEF Commit, Found, readerVars
<1>2. Found' = IF Selected(c) THEN Found \cup {c} ELSE Found
  BY <1>1 DEF Found, Selected, TypeOK
<1>3. ASSUME NEW k \in Keys
      PROVE  Rank(k)' = IF Selected(c) /\ OrderBy(c, k) THEN Rank(k) + 1 ELSE Rank(k)
  <2>1. Before(k)' = IF Selected(c) /\ OrderBy(c, k) THEN Before(k) \cup {c}
                                                     ELSE Before(k)
    BY <1>1, <1>2 DEF Before, OrderBy
  <2>2. c \notin Before(k) /\ IsFiniteSet(Before(k))
    BY <1>1, Finite DEF Before
  <2>3. Cardinality(Before(k) \cup {c}) = Cardinality(Before(k)) + 1
    BY <2>2, FS_AddElement
  <2> QED
    BY <2>1, <2>3 DEF Rank
<1> QED
  BY <1>1, <1>2, <1>3

\* A row that is deleted moves those after it one place to the front.
LEMMA DeleteRanks ==
  ASSUME TypeOK, NEW d \in Keys, Delete(d)
  PROVE  /\ Found' = Found \ {d}
         /\ d \in Found <=> Selected(d)
         /\ \A k \in Keys :
               Rank(k)' = IF Selected(d) /\ OrderBy(d, k) THEN Rank(k) - 1 ELSE Rank(k)
<1>1. /\ row[d] = "present" /\ row' = [row EXCEPT ![d] = "gone"]
      /\ query' = query /\ created' = created
  BY DEF Delete, readerVars
<1>2. Found' = Found \ {d}
  BY <1>1 DEF Found, Selected, TypeOK
<1>3. d \in Found <=> Selected(d)
  BY <1>1 DEF Found
<1>4. ASSUME NEW k \in Keys
      PROVE  Rank(k)' = IF Selected(d) /\ OrderBy(d, k) THEN Rank(k) - 1 ELSE Rank(k)
  <2>1. Before(k)' = Before(k) \ {d}
    BY <1>1, <1>2 DEF Before, OrderBy
  <2>2. d \in Before(k) <=> Selected(d) /\ OrderBy(d, k)
    BY <1>3 DEF Before
  <2> QED
    BY <2>1, <2>2, Finite, FS_RemoveElement DEF Rank
<1> QED
  BY <1>2, <1>3, <1>4

----------------------------------------------------------------------------
(* What a client misses.                                                    *)

\* The rows that the client could always have got, that are on pages it has read,
\* and that it has not got.
Missed == {k \in lasting : shown[k] = 0 /\ Rank(k) < offset}

SkipInv ==
    /\ lasting \subseteq Found
    /\ Cardinality(Missed) <= deletions
    /\ done => \A k \in Found : Rank(k) < offset

\* A smaller set of rows is no more.
LEMMA NoMore ==
  ASSUME NEW S \in SUBSET Keys, NEW T \in SUBSET S
  PROVE  /\ IsFiniteSet(S) /\ IsFiniteSet(T)
         /\ Cardinality(S) \in Nat /\ Cardinality(T) \in Nat
         /\ Cardinality(T) <= Cardinality(S)
BY FS_Subset, FS_CardinalityType, PagingAssumption

\* No step of the client or of a request breaks the count of missed rows.
LEMMA SkipInvStep == TypeOK /\ SkipInv /\ [Next]_vars => SkipInv'
<1> SUFFICES ASSUME TypeOK, SkipInv, [Next]_vars PROVE SkipInv'
  OBVIOUS
<1>1. Missed \in SUBSET Keys /\ lasting \in SUBSET Keys /\ Cardinality(Missed) \in Nat
  BY NoMore DEF Missed, TypeOK
<1>2. Limit \in Nat /\ offset \in Nat /\ deletions \in Nat
  BY PagingAssumption DEF TypeOK, MAX_PAGE_SIZE
\* Where the client stands still and is not done, it is enough to bound Missed.
<1>3. ASSUME ~done, done' = done, lasting' \subseteq Found',
             Missed' \subseteq Missed, deletions' >= deletions, deletions' \in Nat
      PROVE  SkipInv'
  <2>1. Cardinality(Missed') <= Cardinality(Missed) /\ Cardinality(Missed') \in Nat
    BY <1>1, <1>3, NoMore
  <2> QED
    BY <1>1, <1>2, <1>3, <2>1 DEF SkipInv
<1>4. CASE UNCHANGED vars
  BY <1>4 DEF vars, rowVars, readerVars, SkipInv, Missed, Found, Selected, Rank,
              Before, OrderBy
<1> SUFFICES ASSUME Next PROVE SkipInv'
  BY <1>4
<1>5. ~done
  BY DEF Next
<1>6. CASE Tick
  <2>1. /\ Found' = Found /\ query' = query /\ created' = created
        /\ lasting' = lasting /\ shown' = shown /\ offset' = offset
        /\ done' = done /\ deletions' = deletions
    BY <1>6 DEF Tick, rowVars, readerVars, Found, Selected
  <2>2. \A k \in Found : Rank(k)' = Rank(k)
    BY <2>1, RanksStay
  <2>3. Missed' \subseteq Missed
    BY <2>1, <2>2 DEF Missed, SkipInv
  <2> QED
    BY <1>2, <1>3, <1>5, <2>1, <2>3 DEF SkipInv
<1>7. CASE ReadPage
  <2>1. /\ Found' = Found /\ query' = query /\ created' = created
        /\ offset' = offset + Limit /\ deletions' = deletions
        /\ lasting' = IF offset = 0 THEN Found ELSE lasting
        /\ shown' = [k \in Keys |-> IF k \in Page THEN shown[k] + 1 ELSE shown[k]]
        /\ done' = (Cardinality(Page) < Limit)
    BY <1>7 DEF ReadPage, rowVars, Found, Selected
  <2>2. \A k \in Found : Rank(k)' = Rank(k)
    BY <2>1, RanksStay
  <2>3. lasting' \subseteq Found'
    BY <2>1 DEF SkipInv
  <2>4. done' => \A k \in Found' : Rank(k)' < offset'
    BY <2>1, <2>2, ShortPageIsLast
  <2>5. ASSUME NEW k \in Missed' PROVE k \in Missed
    <3>1. k \in Found /\ k \in Keys /\ k \in lasting' /\ shown'[k] = 0
      BY <2>1, <2>3, <2>5 DEF Missed, Found
    <3>2. k \notin Page /\ shown[k] = 0
      BY <2>1, <3>1 DEF TypeOK
    <3>3. Rank(k) < offset + Limit /\ Rank(k) \in Nat
      BY <2>1, <2>2, <2>5, <3>1, Finite DEF Missed
    <3>4. Rank(k) < offset
      BY <1>2, <3>1, <3>2, <3>3 DEF Page
    <3>5. k \in lasting
      BY <1>2, <2>1, <3>1, <3>3, <3>4
    <3> QED
      BY <3>2, <3>4, <3>5 DEF Missed
  <2>6. Cardinality(Missed') <= Cardinality(Missed) /\ Cardinality(Missed') \in Nat
    BY <1>1, <2>5, NoMore
  <2> QED
    BY <1>1, <1>2, <2>1, <2>3, <2>4, <2>6 DEF SkipInv
<1>8. ASSUME NEW c \in Keys, Create(c) \/ Rollback(c) \/ Edit(c) PROVE SkipInv'
  <2>1. /\ lasting' = lasting /\ shown' = shown /\ offset' = offset
        /\ done' = done /\ deletions' = deletions
    BY <1>8 DEF Create, Rollback, Edit, readerVars
  <2>2. Found' = Found /\ \A k \in Found : Rank(k)' = Rank(k)
    BY <1>8, UnseenSteps, RanksStay
  <2>3. Missed' \subseteq Missed
    BY <2>1, <2>2 DEF Missed, SkipInv
  <2> QED
    BY <1>2, <1>3, <1>5, <2>1, <2>2, <2>3 DEF SkipInv
<1>9. ASSUME NEW c \in Keys, Commit(c) PROVE SkipInv'
  <2>1. /\ lasting' = lasting /\ shown' = shown /\ offset' = offset
        /\ done' = done /\ deletions' = deletions
    BY <1>9 DEF Commit, readerVars
  <2>2. Found \subseteq Found'
    BY <1>9, CommitRanks
  <2>3. \A k \in Keys : Rank(k) <= Rank(k)' /\ Rank(k)' \in Nat /\ Rank(k) \in Nat
    BY <1>9, CommitRanks, Finite
  <2>4. Missed' \subseteq Missed
    BY <1>1, <1>2, <2>1, <2>3 DEF Missed
  <2> QED
    BY <1>2, <1>3, <1>5, <2>1, <2>2, <2>4 DEF SkipInv
<1>10. ASSUME NEW d \in Keys, Delete(d) PROVE SkipInv'
  <2>1. /\ lasting' = lasting \ {d} /\ shown' = shown /\ offset' = offset
        /\ done' = done
        /\ deletions' = IF Earlier(d) THEN deletions + 1 ELSE deletions
    BY <1>10 DEF Delete, readerVars
  <2>2. Found' = Found \ {d} /\ lasting' \subseteq Found'
    BY <1>10, <2>1, DeleteRanks DEF SkipInv
  \* A row the deletion hides: it was the first of the next page.
  <2>3. ASSUME NEW k \in Missed', k \notin Missed
        PROVE  Earlier(d) /\ k \in Found /\ Rank(k) = offset
    <3>1. k \in lasting /\ k \in Keys /\ k \in Found /\ shown[k] = 0 /\ Rank(k)' < offset
      BY <1>1, <2>1, <2>3 DEF Missed, SkipInv
    <3>2. Rank(k) \in Nat /\ Rank(d) \in Nat /\ Rank(k) >= offset
      BY <1>2, <2>3, <3>1, Finite DEF Missed
    <3>3. Selected(d) /\ OrderBy(d, k) /\ Rank(k) - 1 < offset
      BY <1>2, <1>10, <3>1, <3>2, DeleteRanks
    <3>4. Rank(d) < Rank(k)
      BY <1>10, <3>1, <3>3, DeleteRanks, RankIncreases
    <3> QED
      BY <1>2, <3>1, <3>2, <3>3, <3>4 DEF Earlier
  <2>4. CASE Missed' \subseteq Missed
    BY <1>2, <1>3, <1>5, <2>1, <2>2, <2>4
  <2>5. ASSUME NEW k \in Missed', k \notin Missed PROVE SkipInv'
    <3>1. Earlier(d) /\ deletions' = deletions + 1
      BY <2>1, <2>3, <2>5
    <3>2. Missed' \subseteq Missed \cup {k}
      BY <2>3, <2>5, RanksDiffer
    <3>3. k \in Keys /\ IsFiniteSet(Missed)
      BY <1>1, <2>3, <2>5, NoMore DEF Found
    <3>4. Cardinality(Missed \cup {k}) = Cardinality(Missed) + 1
      BY <2>5, <3>3, FS_AddElement
    <3>5. /\ Cardinality(Missed') <= Cardinality(Missed \cup {k})
          /\ Cardinality(Missed') \in Nat
      BY <1>1, <3>2, <3>3, NoMore
    <3> QED
      BY <1>1, <1>2, <1>5, <2>1, <2>2, <3>1, <3>4, <3>5 DEF SkipInv
  <2> QED
    BY <2>4, <2>5
<1> QED
  BY <1>6, <1>7, <1>8, <1>9, <1>10 DEF Next

\* In every state, the rows missed so far are paid for by deletions.
LEMMA SkipInductive == Spec => [](TypeOK /\ SkipInv)
<1>1. Init => SkipInv
  <2> SUFFICES ASSUME Init PROVE SkipInv
    OBVIOUS
  <2>1. Missed = {} /\ lasting = {} /\ ~done /\ deletions = 0
    BY DEF Init, Missed
  <2> QED
    BY <2>1, FS_EmptySet DEF SkipInv
<1>2. TypeOK /\ SkipInv /\ [Next]_vars => SkipInv'
  BY SkipInvStep
<1> QED
  BY <1>1, <1>2, TypeCorrect, PTL DEF Spec

\* A client that reads a list to its end misses at most one row for each row that
\* was deleted from a page it had read, in a table of any size, with pages of any
\* size.
THEOREM NothingElseIsSkipped == Spec => []SkipsAreDeletions
<1>1. TypeOK /\ SkipInv => SkipsAreDeletions
  <2> SUFFICES ASSUME TypeOK, SkipInv, done
               PROVE  Cardinality({k \in lasting : shown[k] = 0}) <= deletions
    BY DEF SkipsAreDeletions
  <2>1. {k \in lasting : shown[k] = 0} = Missed
    BY DEF SkipInv, Missed
  <2> QED
    BY <2>1 DEF SkipInv
<1> QED
  BY <1>1, SkipInductive, PTL

----------------------------------------------------------------------------
(* What a client gets twice.                                                *)

\* The rows that the client has got and that are still to come.
Again == {k \in Found : Rank(k) >= offset /\ shown[k] >= 1}

RepeatInv ==
    /\ \A k \in Keys : shown[k] >= 1 => row[k] \in {"present", "gone"}
                                       /\ created[k] <= readAt
    /\ \A k \in Keys : shown[k] <= offset
    /\ Cardinality(Repeats) + Cardinality(Again) <= insertions

\* The repeats can be counted: rows are finitely many, and so are the pages read.
LEMMA RepeatsFinite ==
  ASSUME TypeOK, \A k \in Keys : shown[k] <= offset
  PROVE  /\ IsFiniteSet(Repeats) /\ Cardinality(Repeats) \in Nat
         /\ IsFiniteSet(Again) /\ Cardinality(Again) \in Nat /\ Again \in SUBSET Keys
<1>1. IsFiniteSet(Keys \X (2..offset))
  <2>1. offset \in Int
    BY DEF TypeOK
  <2>2. IsFiniteSet(2..offset)
    BY <2>1, FS_Interval
  <2> QED
    BY <2>2, FS_Product, PagingAssumption
<1>2. Repeats \in SUBSET (Keys \X (2..offset))
  <2> SUFFICES ASSUME NEW k \in Keys, NEW i \in 2..shown[k]
               PROVE  <<k, i>> \in Keys \X (2..offset)
    BY DEF Repeats
  <2>1. shown[k] \in Nat /\ offset \in Nat /\ shown[k] <= offset
    BY DEF TypeOK
  <2> QED
    BY <2>1
<1>3. Again \in SUBSET Keys
  BY DEF Again, Found
<1> QED
  BY <1>1, <1>2, <1>3, FS_Subset, FS_CardinalityType, NoMore

\* A page repeats only rows that were still to come, and they are not any more.
LEMMA PageRepeats ==
  ASSUME TypeOK, TypeOK', RepeatInv, ReadPage
  PROVE  RepeatInv'
<1> DEFINE P == Again \cap Page
           Q == Again \ Page
           N == {<<k, shown[k] + 1>> : k \in P}
           f == [k \in P |-> <<k, shown[k] + 1>>]
<1>1. /\ Found' = Found /\ query' = query /\ created' = created /\ row' = row
      /\ offset' = offset + Limit /\ insertions' = insertions
      /\ shown' = [k \in Keys |-> IF k \in Page THEN shown[k] + 1 ELSE shown[k]]
      /\ readAt' = now
  BY DEF ReadPage, rowVars, Found, Selected
<1>2. Limit \in Nat \ {0} /\ offset \in Nat /\ insertions \in Nat
  BY PagingAssumption DEF TypeOK, MAX_PAGE_SIZE
<1>3. \A k \in Found : Rank(k)' = Rank(k) /\ Rank(k) \in Nat
  BY <1>1, RanksStay, Finite
<1>4. ASSUME NEW k \in Keys, shown'[k] >= 1
      PROVE  row'[k] \in {"present", "gone"} /\ created'[k] <= readAt'
  <2>1. created[k] <= readAt'
    BY <1>1 DEF TypeOK
  <2>2. CASE k \in Page
    BY <1>1, <2>1, <2>2 DEF Page, Found
  <2>3. CASE k \notin Page
    BY <1>1, <1>4, <2>1, <2>3 DEF RepeatInv
  <2> QED
    BY <2>2, <2>3
<1>5. \A k \in Keys : shown'[k] <= offset'
  BY <1>1, <1>2 DEF RepeatInv, TypeOK
<1>6. /\ IsFiniteSet(Repeats) /\ Cardinality(Repeats) \in Nat
      /\ IsFiniteSet(Again) /\ Again \in SUBSET Keys
  BY RepeatsFinite DEF RepeatInv
<1>7. IsFiniteSet(P) /\ Cardinality(P) \in Nat
  BY <1>6, NoMore
<1>8. IsFiniteSet(N) /\ Cardinality(N) <= Cardinality(P) /\ Cardinality(N) \in Nat
  <2>1. f \in Surjection(P, N)
    BY DEF Surjection
  <2> QED
    BY <1>7, <2>1, FS_Surjection, FS_CardinalityType
<1>9. ASSUME NEW k \in Keys, NEW i \in 2..shown'[k] PROVE <<k, i>> \in Repeats \cup N
  <2>1. CASE i <= shown[k]
    BY <1>9, <2>1 DEF Repeats, TypeOK
  <2>2. CASE ~(i <= shown[k])
    <3>1. k \in Page /\ i = shown[k] + 1 /\ shown[k] >= 1
      BY <1>1, <1>9, <2>2 DEF TypeOK
    <3>2. k \in P
      BY <1>2, <1>3, <3>1 DEF Page, Again
    <3> QED
      BY <3>1, <3>2
  <2> QED
    BY <2>1, <2>2
<1>10. /\ Cardinality(Repeats') <= Cardinality(Repeats) + Cardinality(P)
       /\ Cardinality(Repeats') \in Nat
  <2>1. Repeats' \in SUBSET (Repeats \cup N)
    BY <1>9 DEF Repeats
  <2>2. /\ IsFiniteSet(Repeats \cup N)
        /\ Cardinality(Repeats \cup N)
             = Cardinality(Repeats) + Cardinality(N) - Cardinality(Repeats \cap N)
    BY <1>6, <1>8, FS_Union
  <2>3. Cardinality(Repeats \cap N) \in Nat
    BY <1>6, FS_Subset, FS_CardinalityType
  <2>4. /\ Cardinality(Repeats') <= Cardinality(Repeats \cup N)
        /\ Cardinality(Repeats') \in Nat
    BY <2>1, <2>2, FS_Subset, FS_CardinalityType
  <2> QED
    BY <1>6, <1>7, <1>8, <2>2, <2>3, <2>4
<1>11. /\ Cardinality(Again') <= Cardinality(Again) - Cardinality(P)
       /\ Cardinality(Again') \in Nat /\ Cardinality(Again) \in Nat
  <2>1. ASSUME NEW k \in Again' PROVE k \in Again /\ k \notin Page
    <3>1. k \in Found /\ Rank(k) >= offset + Limit /\ shown'[k] >= 1 /\ k \in Keys
      BY <1>1, <1>3, <2>1 DEF Again, Found
    <3>2. k \notin Page /\ Rank(k) >= offset
      BY <1>2, <1>3, <3>1 DEF Page
    <3> QED
      BY <1>1, <3>1, <3>2 DEF Again
  <2>2. /\ IsFiniteSet(Q) /\ Cardinality(Q) \in Nat
        /\ Cardinality(Again') <= Cardinality(Q) /\ Cardinality(Again') \in Nat
    <3>1. Again' \in SUBSET Q /\ Q \in SUBSET Keys
      BY <1>6, <2>1
    <3> QED
      BY <3>1, NoMore
  <2>3. Q \cup P = Again /\ Q \cap P = {}
    OBVIOUS
  <2> HIDE DEF P, Q
  <2>4. Cardinality(Q \cup P) = Cardinality(Q) + Cardinality(P) - Cardinality(Q \cap P)
    BY <1>7, <2>2, FS_Union
  <2>5. Cardinality(Again) = Cardinality(Q) + Cardinality(P)
    <3>1. Cardinality(Q \cup P) = Cardinality(Again) /\ Cardinality(Q \cap P) = 0
      BY <2>3, FS_EmptySet, Zenon
    <3> QED
      BY <1>7, <2>2, <2>4, <3>1
  <2> QED
    BY <1>7, <2>2, <2>5
<1>12. Cardinality(Repeats') + Cardinality(Again') <= insertions'
  BY <1>1, <1>2, <1>6, <1>7, <1>10, <1>11 DEF RepeatInv
<1> QED
  BY <1>4, <1>5, <1>12 DEF RepeatInv

\* A row that is committed among those the client has read moves one of them, at
\* most, to its next page.
LEMMA CommitRepeats ==
  ASSUME TypeOK, RepeatInv, NEW c \in Keys, Commit(c)
  PROVE  RepeatInv'
<1>1. /\ shown' = shown /\ offset' = offset /\ readAt' = readAt
      /\ created' = created /\ query' = query
      /\ row[c] = "written" /\ row' = [row EXCEPT ![c] = "present"]
      /\ insertions' = IF Earlier(c) /\ (query = "page" => created[c] <= readAt)
                       THEN insertions + 1 ELSE insertions
  BY DEF Commit, readerVars
<1>2. offset \in Nat /\ insertions \in Nat
  BY DEF TypeOK
<1>3. Repeats' = Repeats
  BY <1>1 DEF Repeats
<1>4. /\ Cardinality(Repeats) \in Nat
      /\ IsFiniteSet(Again) /\ Again \in SUBSET Keys /\ Cardinality(Again) \in Nat
  BY RepeatsFinite DEF RepeatInv
<1>5. shown[c] = 0
  BY <1>1 DEF RepeatInv, TypeOK
<1>6. /\ \A k \in Keys : shown'[k] >= 1 => row'[k] \in {"present", "gone"}
                                         /\ created'[k] <= readAt'
      /\ \A k \in Keys : shown'[k] <= offset'
  BY <1>1 DEF RepeatInv, TypeOK
\* The row that moves was the last one of the last page.
<1>7. ASSUME NEW k \in Again', k \notin Again
      PROVE  /\ k \in Found /\ Rank(k) + 1 = offset
             /\ insertions' = insertions + 1
  <2>1. k \in Found' /\ Rank(k)' >= offset /\ shown[k] >= 1
    BY <1>1, <1>7 DEF Again
  <2>2. k \in Found /\ k \in Keys
    BY <1>5, <2>1, CommitRanks DEF Found
  <2>3. Rank(k) \in Nat /\ Rank(c) \in Nat /\ Rank(k) < offset
    BY <1>2, <1>7, <2>1, <2>2, Finite DEF Again
  <2>4. Selected(c) /\ OrderBy(c, k) /\ Rank(k) + 1 >= offset
    BY <1>2, <2>1, <2>2, <2>3, CommitRanks
  <2>5. Rank(c) <= Rank(k)
    BY <2>2, <2>4, RankDoesNotDecrease
  <2>6. Earlier(c)
    BY <1>2, <2>3, <2>4, <2>5 DEF Earlier
  <2>7. query = "page" => created[c] <= readAt
    <3>1. created[k] <= readAt
      BY <2>1, <2>2 DEF RepeatInv
    <3>2. query = "page" => created[c] <= created[k]
      BY <2>2, <2>4 DEF OrderBy, TypeOK
    <3>3. created[c] \in Nat /\ created[k] \in Nat /\ readAt \in Nat
      BY <2>2 DEF TypeOK
    <3> QED
      BY <3>1, <3>2, <3>3
  <2> QED
    BY <1>1, <1>2, <2>2, <2>3, <2>4, <2>6, <2>7
<1>8. CASE Again' \subseteq Again
  <2>1. Cardinality(Again') <= Cardinality(Again) /\ Cardinality(Again') \in Nat
    BY <1>4, <1>8, NoMore
  <2>2. insertions' >= insertions
    BY <1>1, <1>2
  <2>3. insertions' \in Nat
    BY <1>1, <1>2
  <2>4. Cardinality(Repeats') + Cardinality(Again') <= insertions'
    BY <1>2, <1>3, <1>4, <2>1, <2>2, <2>3 DEF RepeatInv
  <2> QED
    BY <1>6, <2>4 DEF RepeatInv
<1>9. ASSUME NEW k \in Again', k \notin Again PROVE RepeatInv'
  <2>1. Again' \subseteq Again \cup {k} /\ k \in Keys
    <3>1. ASSUME NEW j \in Again', j \notin Again PROVE j = k
      <4>1. /\ j \in Found /\ k \in Found /\ Rank(j) \in Nat /\ Rank(k) \in Nat
            /\ Rank(j) + 1 = offset /\ Rank(k) + 1 = offset
        BY <1>7, <1>9, <3>1, Finite
      <4> QED
        BY <1>2, <4>1, RanksDiffer
    <3>2. k \in Keys
      BY <1>7, <1>9 DEF Found
    <3> QED
      BY <3>1, <3>2
  <2>2. Cardinality(Again \cup {k}) = Cardinality(Again) + 1
    BY <1>4, <1>9, FS_AddElement
  <2>3. /\ Cardinality(Again') <= Cardinality(Again \cup {k})
        /\ Cardinality(Again') \in Nat
    <3>1. Again \cup {k} \in SUBSET Keys /\ Again' \in SUBSET (Again \cup {k})
      BY <1>4, <2>1
    <3> QED
      BY <3>1, NoMore
  <2>4. insertions' = insertions + 1
    BY <1>7, <1>9
  <2>5. Cardinality(Repeats') + Cardinality(Again') <= insertions'
    BY <1>2, <1>3, <1>4, <2>2, <2>3, <2>4 DEF RepeatInv
  <2> QED
    BY <1>6, <2>5 DEF RepeatInv
<1> QED
  BY <1>8, <1>9

\* No step of the client or of a request breaks the count of repeats.
LEMMA RepeatInvStep == TypeOK /\ TypeOK' /\ RepeatInv /\ [Next]_vars => RepeatInv'
<1> SUFFICES ASSUME TypeOK, TypeOK', RepeatInv, [Next]_vars PROVE RepeatInv'
  OBVIOUS
<1>1. /\ Cardinality(Repeats) \in Nat /\ insertions \in Nat /\ offset \in Nat
      /\ Again \in SUBSET Keys /\ Cardinality(Again) \in Nat
  BY RepeatsFinite DEF RepeatInv, TypeOK
\* Where the client stands still, it is enough that no row moves behind it.
<1>2. ASSUME shown' = shown, offset' = offset, readAt' = readAt,
             insertions' = insertions, Again' \subseteq Again,
             \A k \in Keys : shown[k] >= 1 /\ row[k] \in {"present", "gone"} =>
                /\ row'[k] \in {"present", "gone"} /\ created'[k] = created[k]
      PROVE  RepeatInv'
  <2>1. Cardinality(Again') <= Cardinality(Again) /\ Cardinality(Again') \in Nat
    BY <1>1, <1>2, NoMore
  <2>2. Repeats' = Repeats
    BY <1>2 DEF Repeats
  <2>3. Cardinality(Repeats') + Cardinality(Again') <= insertions'
    BY <1>1, <1>2, <2>1, <2>2 DEF RepeatInv
  <2>4. \A k \in Keys : shown'[k] >= 1 => row'[k] \in {"present", "gone"}
                                        /\ created'[k] <= readAt'
    BY <1>2 DEF RepeatInv
  <2>5. \A k \in Keys : shown'[k] <= offset'
    BY <1>2 DEF RepeatInv
  <2> QED
    BY <2>3, <2>4, <2>5 DEF RepeatInv
<1>3. CASE ReadPage
  BY <1>3, PageRepeats
<1>4. ASSUME NEW c \in Keys, Commit(c) PROVE RepeatInv'
  BY <1>4, CommitRepeats
<1>5. CASE Tick
  <2>1. /\ Found' = Found /\ query' = query /\ created' = created /\ row' = row
        /\ shown' = shown /\ offset' = offset /\ readAt' = readAt
        /\ insertions' = insertions
    BY <1>5 DEF Tick, rowVars, readerVars, Found, Selected
  <2>2. \A k \in Found : Rank(k)' = Rank(k)
    BY <2>1, RanksStay
  <2>3. Again' \subseteq Again
    BY <2>1, <2>2 DEF Again
  <2> QED
    BY <1>2, <2>1, <2>3
<1>6. ASSUME NEW c \in Keys, Create(c) \/ Rollback(c) \/ Edit(c) PROVE RepeatInv'
  <2>1. /\ shown' = shown /\ offset' = offset /\ readAt' = readAt
        /\ insertions' = insertions
    BY <1>6 DEF Create, Rollback, Edit, readerVars
  <2>2. Found' = Found /\ \A k \in Found : Rank(k)' = Rank(k)
    BY <1>6, UnseenSteps, RanksStay
  <2>3. Again' \subseteq Again
    BY <2>1, <2>2 DEF Again
  <2>4. ASSUME NEW k \in Keys, row[k] \in {"present", "gone"}
        PROVE  row'[k] \in {"present", "gone"} /\ created'[k] = created[k]
    BY <1>6, <2>4 DEF Create, Rollback, Edit, TypeOK
  <2> QED
    BY <1>2, <2>1, <2>3, <2>4
<1>7. ASSUME NEW d \in Keys, Delete(d) PROVE RepeatInv'
  <2>1. /\ shown' = shown /\ offset' = offset /\ readAt' = readAt
        /\ insertions' = insertions /\ created' = created
        /\ row' = [row EXCEPT ![d] = "gone"]
    BY <1>7 DEF Delete, readerVars
  <2>2. \A k \in Keys : Rank(k)' <= Rank(k) /\ Rank(k) \in Nat /\ Rank(k)' \in Int
    BY <1>7, DeleteRanks, Finite
  <2>3. Found' \subseteq Found /\ Found \subseteq Keys
    BY <1>7, DeleteRanks DEF Found
  <2>4. Again' \subseteq Again
    BY <1>1, <2>1, <2>2, <2>3 DEF Again
  <2>5. ASSUME NEW k \in Keys, row[k] \in {"present", "gone"}
        PROVE  row'[k] \in {"present", "gone"} /\ created'[k] = created[k]
    BY <2>1, <2>5 DEF TypeOK
  <2> QED
    BY <1>2, <2>1, <2>4, <2>5
<1>8. CASE UNCHANGED vars
  BY <1>8 DEF vars, rowVars, readerVars, RepeatInv, Repeats, Again, Found, Selected,
              Rank, Before, OrderBy
<1> QED
  BY <1>3, <1>4, <1>5, <1>6, <1>7, <1>8 DEF Next

\* In every state, the repeats so far and those to come are paid for by insertions.
LEMMA RepeatInductive == Spec => [](TypeOK /\ RepeatInv)
<1>1. Init => RepeatInv
  <2> SUFFICES ASSUME Init PROVE RepeatInv
    OBVIOUS
  <2>1. shown = [k \in Keys |-> 0] /\ offset = 0 /\ insertions = 0
    BY DEF Init
  <2>2. Again = {}
    BY <2>1 DEF Again, Found
  <2>3. Repeats = {}
    <3>1. \A k \in Keys : {k} \X (2..shown[k]) = {}
      BY <2>1
    <3> QED
      BY <3>1 DEF Repeats
  <2>4. Cardinality(Repeats) = 0 /\ Cardinality(Again) = 0
    BY <2>2, <2>3, FS_EmptySet, Zenon
  <2> QED
    BY <2>1, <2>4 DEF RepeatInv
<1>2. TypeOK /\ TypeOK' /\ RepeatInv /\ [Next]_vars => RepeatInv'
  BY RepeatInvStep
<1> QED
  BY <1>1, <1>2, TypeCorrect, PTL DEF Spec

\* A client gets a row again at most once for each row that was committed into a
\* page it had read; for the notes of an owner, only one that had been created by
\* the time of its last page.
THEOREM NothingElseIsRepeated == Spec => []RepeatsAreInsertions
<1>1. TypeOK /\ RepeatInv => RepeatsAreInsertions
  <2> SUFFICES ASSUME TypeOK, RepeatInv PROVE Cardinality(Repeats) <= insertions
    BY DEF RepeatsAreInsertions
  <2>1. Cardinality(Repeats) \in Nat /\ Cardinality(Again) \in Nat
    BY RepeatsFinite DEF RepeatInv
  <2> QED
    BY <2>1 DEF RepeatInv, TypeOK
<1> QED
  BY <1>1, RepeatInductive, PTL
=============================================================================
