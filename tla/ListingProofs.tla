----------------------------- MODULE ListingProofs -----------------------------
(***************************************************************************)
(* Theorems about the walk through the pages, for any number of rows, any  *)
(* limits and any changes of the table between the pages.                  *)
(***************************************************************************)
EXTENDS Listing, FiniteSetTheorems, SequenceTheorems, WellFoundedInduction,
        TLAPS

--------------------------------------------------------------------------------
(* The inductive invariant.                                                *)

\* The cursor is the last row that was listed, and the walk goes on exactly
\* while it has a cursor, after its first page.
CursorInv ==
    /\ wpc = "start" => listed = <<>> /\ cursor = 0
    /\ wpc = "page" <=> cursor # 0
    /\ cursor # 0 => listed # <<>> /\ cursor = listed[Len(listed)]

\* A row that matched since the walk began is listed, or still to come.
NothingSkipped ==
    /\ wpc = "start" => settled = {}
    /\ wpc # "start" =>
          \A i \in settled : i \in RowsOf(listed)
                               \/ (cursor # 0 /\ Below(i, cursor))

ListingInv ==
    /\ ListingTypeOK
    /\ Descending(listed)
    /\ CursorInv
    /\ NothingSkipped

--------------------------------------------------------------------------------
(* The operators of the query.                                             *)

\* The store does not change the limit the handler hands it, and a page has
\* room for a row.
LEMMA Limits ==
    ASSUME NEW requested \in Nat
    PROVE  /\ parseLimit(requested) \in Nat /\ parseLimit(requested) >= 1
           /\ storeLimit(parseLimit(requested)) = parseLimit(requested)
    BY ListingAssumption DEF parseLimit, storeLimit, Capped

\* The order of the rows is transitive.
LEMMA BelowTransitive ==
    ASSUME ListingTypeOK, NEW i \in Ids, NEW j \in Ids, NEW k \in Ids,
           Below(i, j), Below(j, k)
    PROVE  Below(i, k)
<1>1. /\ createdAt[i] \in Int /\ createdAt[j] \in Int /\ createdAt[k] \in Int
      /\ i \in Int /\ j \in Int /\ k \in Int
    BY ListingAssumption DEF ListingTypeOK
<1> QED BY <1>1 DEF Below

\* The rows of the table have ids, and none is 0.
LEMMA VisibleIds ==
    ASSUME ListingTypeOK
    PROVE  /\ visible \subseteq Ids /\ 0 \notin visible
           /\ \A i \in visible : createdAt[i] # 0
    BY ListingAssumption DEF ListingTypeOK

\* What the answer to a query is: rows the WHERE clause selects, in descending
\* order, cut off at the limit.
LEMMA Pages ==
    ASSUME NEW c, NEW limit \in Nat, NEW page \in listPage(c, limit)
    PROVE  /\ page \in Seq(buildListWhere(c)) /\ Len(page) \in Nat
           /\ DOMAIN page = 1..Len(page)
           /\ Descending(page)
           /\ Cut(page, buildListWhere(c), limit)
<1> DEFINE S == buildListWhere(c)
<1>1. PICK n \in 0..limit : page \in [1..n -> S]
    BY DEF listPage
<1>2. page \in Seq(S)
    BY <1>1
<1> QED BY <1>2 DEF listPage

--------------------------------------------------------------------------------
(* The steps.                                                              *)

\* A step of the table keeps the invariant: rows that are visible keep their
\* place, whether they match or not.
LEMMA TableStep ==
    ASSUME ListingInv, ListingTypeOK', UNCHANGED <<wpc, cursor, listed>>,
           settled' \subseteq settled,
           \A i \in visible : createdAt'[i] = createdAt[i]
    PROVE  ListingInv'
<1> USE DEF ListingInv
<1>0. /\ visible \subseteq Ids /\ settled \subseteq visible
      /\ cursor # 0 => cursor \in visible
      /\ DOMAIN listed = 1..Len(listed)
      /\ \A m \in DOMAIN listed : listed[m] \in visible
    BY VisibleIds DEF ListingTypeOK
<1>1. \A i, j \in visible : Below(i, j) => Below(i, j)'
    BY DEF Below
<1>2. Descending(listed)'
    BY <1>0, <1>1 DEF Descending
<1>3. CursorInv'
    BY DEF CursorInv
<1>4. NothingSkipped'
  <2>1. RowsOf(listed)' = RowsOf(listed)
    BY DEF RowsOf
  <2>2. \A i \in settled : cursor # 0 /\ Below(i, cursor) => Below(i, cursor)'
    BY <1>0 DEF Below
  <2> QED BY <2>1, <2>2 DEF NothingSkipped
<1> QED BY <1>2, <1>3, <1>4

\* A page keeps the invariant: its rows are below the cursor, hence below all
\* that is listed, and nothing that is left out of it is passed over.
LEMMA ListStep == ASSUME ListingInv, List PROVE ListingInv'
<1> USE DEF ListingInv
<1> DEFINE limit == parseLimit(asked)
           S == buildListWhere(cursor)
           base == Len(listed)
<1>1. limit \in Nat /\ limit >= 1 /\ storeLimit(limit) = limit
    BY Limits, ListingAssumption DEF ListingTypeOK
<1>2. PICK page \in listPage(cursor, limit) :
         listed' = listed \o page /\ cursor' = NextCursor(page, limit)
    BY <1>1 DEF List
<1>3. /\ UNCHANGED <<now, createdAt, visible, matching, asked>>
      /\ wpc \in {"start", "page"}
      /\ wpc' = IF cursor' = 0 THEN "done" ELSE "page"
      /\ settled' = IF wpc = "start" THEN matching ELSE settled
    BY DEF List, tableVars
<1> HIDE DEF limit
<1>4. /\ page \in Seq(S) /\ Len(page) \in Nat /\ DOMAIN page = 1..Len(page)
      /\ Descending(page) /\ Cut(page, S, limit)
    BY <1>1, <1>2, Pages
<1>5. /\ S \subseteq matching /\ S \subseteq visible /\ visible \subseteq Ids
      /\ 0 \notin visible
      /\ \A i \in S : cursor # 0 => Below(i, cursor)
    BY VisibleIds DEF buildListWhere, AfterCursor, ListingTypeOK
<1> HIDE DEF S
<1>6. page \in Seq(visible) /\ \A m \in 1..Len(page) : page[m] \in S
    BY <1>4, <1>5
<1>7. /\ listed \in Seq(visible) /\ base \in Nat /\ DOMAIN listed = 1..base
      /\ \A m \in 1..base : listed[m] \in visible
    BY DEF ListingTypeOK
<1>8. /\ listed' \in Seq(visible) /\ Len(listed') = base + Len(page)
      /\ \A m \in 1..(base + Len(page)) :
            listed'[m] = IF m <= base THEN listed[m] ELSE page[m - base]
    BY <1>2, <1>6, <1>7, ConcatProperties
<1> HIDE DEF base
<1>9. /\ DOMAIN listed' = 1..(base + Len(page))
      /\ \A m \in 1..base : listed'[m] = listed[m]
      /\ \A m \in 1..Len(page) : listed'[base + m] = page[m]
  <2>1. DOMAIN listed' = 1..(base + Len(page))
    BY <1>8
  <2>2. \A m \in 1..base : m \in 1..(base + Len(page)) /\ m <= base
    BY <1>4, <1>7
  <2>3. \A m \in 1..Len(page) : /\ base + m \in 1..(base + Len(page))
                                /\ ~(base + m <= base)
                                /\ (base + m) - base = m
    BY <1>4, <1>7
  <2> QED BY <1>8, <2>1, <2>2, <2>3
<1>10. \A n \in DOMAIN listed' : n \in 1..base
                                   \/ \E m \in 1..Len(page) : n = base + m
  <2>1. ASSUME NEW n \in 1..(base + Len(page)), n \notin 1..base
        PROVE  n - base \in 1..Len(page) /\ n = base + (n - base)
    BY <1>4, <1>7, <2>1
  <2> QED BY <1>9, <2>1
\* The cursor.
<1>11. /\ cursor' # 0 =>
             /\ Len(page) = limit /\ Len(page) >= 1
             /\ cursor' = page[Len(page)]
       /\ cursor' = 0 => Len(page) # limit
  <2>1. page # <<>> <=> Len(page) # 0
    BY <1>4
  <2>2. Len(page) # 0 => page[Len(page)] # 0
    BY <1>4, <1>5, <1>6
  <2>3. CASE Len(page) = limit
    <3>1. Len(page) # 0 /\ Len(page) >= 1
      BY <1>1, <2>3
    <3>2. cursor' = page[Len(page)]
      BY <1>2, <2>1, <2>3, <3>1 DEF NextCursor
    <3> QED BY <2>2, <2>3, <3>1, <3>2
  <2>4. CASE Len(page) # limit
    BY <1>2, <2>4 DEF NextCursor
  <2> QED BY <2>3, <2>4
<1>12. cursor' # 0 => cursor' \in visible
    BY <1>4, <1>5, <1>6, <1>11
<1>13. CursorInv'
  <2>1. ASSUME cursor' # 0
        PROVE  listed' # <<>> /\ cursor' = listed'[Len(listed')]
    <3>1. Len(page) \in 1..Len(page) /\ base + Len(page) # 0
      BY <1>4, <1>7, <1>11, <2>1
    <3>2. listed'[base + Len(page)] = page[Len(page)]
      BY <1>9, <3>1
    <3> QED BY <1>8, <1>11, <2>1, <3>1, <3>2
  <2> QED BY <1>3, <2>1 DEF CursorInv
<1>14. ListingTypeOK'
  <2>1. settled' \subseteq matching
    BY <1>3 DEF ListingTypeOK
  <2>2. wpc' \in {"start", "page", "done"}
    BY <1>3
  <2> QED BY <1>3, <1>8, <1>12, <2>1, <2>2 DEF ListingTypeOK
\* What is listed before is above the page.
<1>15. ASSUME NEW m \in 1..base, NEW i \in S PROVE Below(i, listed[m])
  <2>1. /\ cursor # 0 /\ cursor = listed[base] /\ base \in 1..base
        /\ Below(i, cursor)
    <3>1. listed # <<>> /\ base \in 1..base
      BY <1>7 DEF base
    <3>2. wpc # "start"
      BY <3>1 DEF CursorInv
    <3>3. cursor # 0
      BY <1>3, <3>2 DEF CursorInv
    <3> QED BY <1>5, <3>1, <3>3 DEF CursorInv, base
  <2>2. CASE m = base
    BY <2>1, <2>2
  <2>3. CASE m # base
    <3>1. m < base
      BY <1>7, <2>3
    <3>2. Below(listed[base], listed[m])
      BY <1>7, <2>1, <3>1 DEF Descending
    <3>3. i \in Ids /\ listed[base] \in Ids /\ listed[m] \in Ids
      BY <1>5, <1>7, <2>1
    <3> QED BY <2>1, <3>2, <3>3, BelowTransitive
  <2> QED BY <2>2, <2>3
<1>16. Descending(listed)'
  <2>0. SUFFICES ASSUME NEW m \in DOMAIN listed', NEW n \in DOMAIN listed', m < n
                 PROVE  Below(listed'[n], listed'[m])
    <3>1. \A i, j : Below(i, j) => Below(i, j)'
      BY <1>3 DEF Below
    <3> QED BY <3>1 DEF Descending
  <2>1. CASE m \in 1..base /\ n \in 1..base
    BY <1>7, <1>9, <2>0, <2>1 DEF Descending
  <2>2. CASE m \in 1..base /\ n \notin 1..base
    BY <1>6, <1>9, <1>10, <1>15, <2>2
  <2>3. CASE m \notin 1..base
    <3>1. n \notin 1..base
      BY <1>7, <1>9, <1>4, <2>0, <2>3
    <3>2. PICK x \in 1..Len(page) : m = base + x
      BY <1>10, <2>3
    <3>3. PICK y \in 1..Len(page) : n = base + y
      BY <1>10, <3>1
    <3>4. x < y
      BY <1>4, <1>7, <2>0, <3>2, <3>3
    <3> QED BY <1>4, <1>9, <3>2, <3>3, <3>4 DEF Descending
  <2> QED BY <2>1, <2>2, <2>3
\* What is not on the page is below it, or there was no more.
<1>17. NothingSkipped'
  <2>1. wpc' # "start"
    BY <1>3
  <2>2. ASSUME NEW i \in settled', i \notin RowsOf(listed')
        PROVE  cursor' # 0 /\ Below(i, cursor)'
    <3>1. /\ i \notin RowsOf(listed) /\ i \notin RowsOf(page)
      <4>1. /\ \A m \in 1..base : m \in DOMAIN listed'
            /\ \A m \in 1..Len(page) : base + m \in DOMAIN listed'
        BY <1>4, <1>7, <1>9
      <4>2. \A m \in 1..base : listed[m] \in RowsOf(listed')
        BY <1>9, <4>1 DEF RowsOf
      <4>3. \A m \in 1..Len(page) : page[m] \in RowsOf(listed')
        BY <1>9, <4>1 DEF RowsOf
      <4> QED BY <1>4, <1>7, <2>2, <4>2, <4>3 DEF RowsOf
    <3>2. i \in S
      <4>1. i \in matching /\ (cursor # 0 => cursor \in visible)
        BY <1>3 DEF ListingTypeOK
      <4>2. cursor # 0 => Below(i, cursor)
        BY <1>3, <2>2, <3>1 DEF NothingSkipped, CursorInv
      <4> QED BY <4>1, <4>2 DEF S, buildListWhere, AfterCursor
    <3>3. Len(page) = limit /\ \A m \in DOMAIN page : Below(i, page[m])
      BY <1>4, <3>1, <3>2 DEF Cut
    <3>4. cursor' # 0 /\ cursor' = page[Len(page)] /\ Len(page) \in DOMAIN page
      BY <1>1, <1>4, <1>11, <3>3
    <3>5. Below(i, page[Len(page)])
      BY <3>3, <3>4
    <3> QED BY <1>3, <3>4, <3>5 DEF Below
  <2> QED BY <2>1, <2>2 DEF NothingSkipped, RowsOf
<1> QED BY <1>13, <1>14, <1>16, <1>17

\* Every step preserves the invariant.
LEMMA ListingStep == ListingInv /\ [ListingNext]_listingVars => ListingInv'
<1> SUFFICES ASSUME ListingInv, [ListingNext]_listingVars PROVE ListingInv'
    OBVIOUS
<1>0. /\ ListingTypeOK /\ now \in Nat /\ visible \subseteq Ids
      /\ \A i \in visible : createdAt[i] # 0
    BY VisibleIds, ListingAssumption DEF ListingInv, ListingTypeOK
<1>1. ASSUME NEW i \in Ids, BeginInsert(i) PROVE ListingInv'
  <2>1. /\ createdAt[i] = 0 /\ createdAt' = [createdAt EXCEPT ![i] = now]
        /\ UNCHANGED <<now, visible, matching, wpc, asked, cursor, listed, settled>>
    BY <1>1 DEF BeginInsert
  <2>2. /\ createdAt' \in [Ids -> 0..now]
        /\ \A j \in visible : createdAt'[j] = createdAt[j]
    BY <1>0, <2>1 DEF ListingTypeOK
  <2>3. ListingTypeOK'
    BY <1>0, <2>1, <2>2 DEF ListingTypeOK
  <2> QED BY <2>1, <2>2, <2>3, TableStep
<1>2. ASSUME NEW i \in Ids, CommitInsert(i) PROVE ListingInv'
  <2>1. /\ createdAt[i] # 0 /\ visible' = visible \cup {i}
        /\ matching' \in {matching, matching \cup {i}}
        /\ UNCHANGED <<now, createdAt, wpc, asked, cursor, listed, settled>>
    BY <1>2 DEF CommitInsert
  <2>2. listed \in Seq(visible')
    BY <1>0, <2>1 DEF ListingTypeOK
  <2>3. ListingTypeOK'
    BY <1>0, <2>1, <2>2 DEF ListingTypeOK
  <2> QED BY <2>1, <2>3, TableStep
<1>3. ASSUME NEW i \in Ids, ChangeRow(i) PROVE ListingInv'
  <2>1. /\ i \in visible /\ settled' = settled \ {i}
        /\ matching' = IF i \in matching THEN matching \ {i}
                       ELSE matching \cup {i}
        /\ UNCHANGED <<now, createdAt, visible, wpc, asked, cursor, listed>>
    BY <1>3 DEF ChangeRow
  <2>2. ListingTypeOK'
    BY <1>0, <2>1 DEF ListingTypeOK
  <2> QED BY <2>1, <2>2, TableStep
<1>4. CASE Tick
  <2>1. /\ now' \in 1..MaxTime /\ now' = now + 1
        /\ UNCHANGED <<createdAt, visible, matching, wpc, asked, cursor, listed,
                       settled>>
    BY <1>0, <1>4, ListingAssumption DEF Tick, ListingTypeOK
  <2>2. createdAt \in [Ids -> 0..now']
    BY <1>0, <2>1 DEF ListingTypeOK
  <2>3. ListingTypeOK'
    BY <1>0, <2>1, <2>2 DEF ListingTypeOK
  <2> QED BY <2>1, <2>3, TableStep
<1>5. CASE List
    BY <1>5, ListStep
<1>6. CASE UNCHANGED listingVars
  <2>1. ListingTypeOK'
    BY <1>0, <1>6 DEF listingVars, tableVars, ListingTypeOK
  <2> QED BY <1>6, <2>1, TableStep DEF listingVars, tableVars
<1> QED BY <1>1, <1>2, <1>3, <1>4, <1>5, <1>6 DEF ListingNext

\* The inductive invariant holds in every reachable state.
LEMMA ListingInvHolds == ListingSpec => []ListingInv
<1>1. ListingInit => ListingInv
    BY ListingAssumption
       DEF ListingInit, ListingInv, ListingTypeOK, Descending, CursorInv,
           NothingSkipped
<1> QED BY <1>1, ListingStep, PTL DEF ListingSpec

--------------------------------------------------------------------------------
(* What the walk guarantees.                                               *)

\* Every variable keeps its type; in particular a cursor is the id of a row.
THEOREM ListingTypeCorrect == ListingSpec => []ListingTypeOK
<1>1. ListingInv => ListingTypeOK
    BY DEF ListingInv
<1> QED BY <1>1, ListingInvHolds, PTL

\* The walk lists no row twice and skips none that matched all along, for any
\* number of rows and whatever is inserted or changed between its pages.
THEOREM WalkIsCompleteHolds == ListingSpec => []WalkIsComplete
<1>1. ListingInv => WalkIsComplete
    BY DEF ListingInv, WalkIsComplete, NothingSkipped, CursorInv
<1> QED BY <1>1, ListingInvHolds, PTL

--------------------------------------------------------------------------------
(* A query has one answer: the walk of the model is that of the program.   *)

\* Every nonempty set of naturals has a least element.
LEMMA LeastNatural ==
    ASSUME NEW T \in SUBSET Nat, T # {}
    PROVE  \E x \in T : \A y \in T : x <= y
<1>1. PICK x \in T : \A y \in T : ~ (<<y, x>> \in OpToRel(<, Nat))
    BY NatLessThanWellFounded, WFMin
<1>2. ASSUME NEW y \in T PROVE x <= y
  <2>1. ~ (y < x)
    BY <1>1 DEF OpToRel
  <2> QED BY <2>1
<1> QED BY <1>2

\* The order of the rows is total and strict.
LEMMA BelowTotal ==
    ASSUME ListingTypeOK, NEW i \in Ids, NEW j \in Ids
    PROVE  /\ i # j => Below(i, j) \/ Below(j, i)
           /\ ~(Below(i, j) /\ Below(j, i))
<1>1. createdAt[i] \in Int /\ createdAt[j] \in Int /\ i \in Int /\ j \in Int
    BY ListingAssumption DEF ListingTypeOK
<1> QED BY <1>1 DEF Below

\* Of any rows there is a newest one.
LEMMA Newest ==
    ASSUME ListingTypeOK, NEW T \in SUBSET Ids, T # {}
    PROVE  \E x \in T : \A y \in T \ {x} : Below(y, x)
<1> DEFINE HasNewest(U) == \E x \in U : \A y \in U \ {x} : Below(y, x)
           Sizes == {n \in Nat : \E U \in SUBSET Ids : /\ U # {} /\ ~HasNewest(U)
                                                       /\ Cardinality(U) = n}
<1>1. \A U \in SUBSET Ids : IsFiniteSet(U) /\ Cardinality(U) \in Nat
    BY ListingAssumption, FS_Subset, FS_CardinalityType
<1>2. SUFFICES Sizes = {}
    BY <1>1, <1>2
<1>3. SUFFICES ASSUME Sizes # {} PROVE FALSE
    OBVIOUS
<1>4. PICK n \in Sizes : \A k \in Sizes : n <= k
    BY <1>3, LeastNatural
<1>5. PICK U \in SUBSET Ids : U # {} /\ ~HasNewest(U) /\ Cardinality(U) = n
    BY <1>4
<1>6. PICK x \in U : TRUE
    BY <1>5
<1>7. U \ {x} # {}
    BY <1>5, <1>6
<1>8. Cardinality(U \ {x}) = n - 1 /\ n - 1 \in Nat /\ n - 1 < n
    BY <1>1, <1>5, <1>6, FS_RemoveElement
<1>9. HasNewest(U \ {x})
    BY <1>4, <1>7, <1>8
<1>10. PICK y \in U \ {x} : \A z \in (U \ {x}) \ {y} : Below(z, y)
    BY <1>9
<1>11. CASE Below(x, y)
    BY <1>5, <1>10, <1>11
<1>12. CASE Below(y, x)
  <2>1. \A z \in U \ {x} : Below(z, x)
    BY <1>10, <1>12, BelowTransitive
  <2> QED BY <1>5, <1>6, <2>1
<1> QED BY <1>6, <1>10, <1>11, <1>12, BelowTotal

\* Two answers to the same query agree as far as the first goes.
LEMMA SamePrefix ==
    ASSUME ListingTypeOK, NEW c, NEW limit \in Nat,
           NEW p \in listPage(c, limit), NEW q \in listPage(c, limit)
    PROVE  \A k \in 1..Len(p) : k \in 1..Len(q) /\ p[k] = q[k]
<1> DEFINE S == buildListWhere(c)
           Wrong == {k \in 1..Len(p) : ~(k \in 1..Len(q) /\ p[k] = q[k])}
<1>1. /\ S \subseteq Ids
      /\ p \in Seq(S) /\ Len(p) \in Nat /\ DOMAIN p = 1..Len(p)
      /\ q \in Seq(S) /\ Len(q) \in Nat /\ DOMAIN q = 1..Len(q)
      /\ Descending(p) /\ Cut(p, S, limit) /\ Descending(q) /\ Cut(q, S, limit)
    BY Pages DEF buildListWhere, ListingTypeOK
<1>2. Len(p) <= limit
  <2>1. PICK n \in 0..limit : p \in [1..n -> S]
    BY DEF listPage
  <2> QED BY <1>1, <2>1
<1> HIDE DEF S
<1>3. /\ \A k \in 1..Len(p) : p[k] \in S /\ p[k] \in Ids
      /\ \A k \in 1..Len(q) : q[k] \in S /\ q[k] \in Ids
    BY <1>1
<1>4. SUFFICES ASSUME Wrong # {} PROVE FALSE
    OBVIOUS
<1>w. Wrong \in SUBSET Nat
    BY <1>1
<1>l. PICK k \in Wrong : \A j \in Wrong : k <= j
    BY <1>w, <1>4, LeastNatural
<1>5. /\ k \in 1..Len(p) /\ k \in Nat /\ 1 <= k /\ k <= Len(p)
      /\ ~(k \in 1..Len(q) /\ p[k] = q[k])
      /\ \A j \in 1..Len(p) : ~(j \in 1..Len(q) /\ p[j] = q[j]) => k <= j
    BY <1>1, <1>w, <1>l
<1> HIDE DEF Wrong
<1>6. \A j \in 1..(k - 1) : j \in 1..Len(q) /\ j \in 1..Len(p) /\ p[j] = q[j]
  <2> SUFFICES ASSUME NEW j \in 1..(k - 1)
               PROVE  j \in 1..Len(q) /\ j \in 1..Len(p) /\ p[j] = q[j]
    OBVIOUS
  <2>1. j \in 1..Len(p) /\ ~(k <= j)
    BY <1>1, <1>5
  <2> QED BY <1>5, <2>1
<1>7. \A j \in 1..(k - 1) : p[j] # p[k] /\ Below(p[k], p[j])
    BY <1>1, <1>3, <1>5, <1>6, BelowTotal DEF Descending
<1>8. CASE k \notin 1..Len(q)
  <2>0. ASSUME NEW a \in Nat, NEW b \in Nat, NEW h \in Nat, NEW l \in Nat,
               1 <= h, h <= a, a <= l, h \notin 1..b
        PROVE  b < h /\ b # l /\ 1..b \subseteq 1..(h - 1)
    BY <2>0
  <2>1. Len(q) < k /\ Len(q) # limit /\ 1..Len(q) \subseteq 1..(k - 1)
    <3>1. Len(p) \in Nat /\ Len(q) \in Nat
      BY <1>1
    <3>2. k \in Nat /\ 1 <= k /\ k <= Len(p)
      BY <1>5
    <3> QED BY <1>2, <1>8, <2>0, <3>1, <3>2
  <2>2. p[k] \in RowsOf(q)
    BY <1>1, <1>3, <1>5, <2>1 DEF Cut
  <2>3. PICK j \in 1..Len(q) : p[k] = q[j]
    BY <1>1, <2>2 DEF RowsOf
  <2>4. j \in 1..(k - 1)
    BY <2>1, <2>3
  <2> QED BY <1>6, <1>7, <2>3, <2>4
<1>9. CASE k \in 1..Len(q)
  <2>1. p[k] # q[k]
    BY <1>5, <1>9
  <2>2. \A j \in 1..(k - 1) : q[j] # q[k]
    BY <1>1, <1>3, <1>6, <1>9, BelowTotal DEF Descending
  <2>3. Below(p[k], q[k])
    <3>1. CASE p[k] \notin RowsOf(q)
      BY <1>1, <1>3, <1>5, <1>9, <3>1 DEF Cut
    <3>2. CASE p[k] \in RowsOf(q)
      <4>1. PICK j \in 1..Len(q) : p[k] = q[j]
        BY <1>1, <3>2 DEF RowsOf
      <4>2. j \notin 1..(k - 1) /\ j # k
        BY <1>6, <1>7, <2>1, <4>1
      <4>3. k < j
        BY <1>5, <4>2
      <4> QED BY <1>1, <1>9, <4>1, <4>3 DEF Descending
    <3> QED BY <3>1, <3>2
  <2>4. Below(q[k], p[k])
    <3>1. CASE q[k] \notin RowsOf(p)
      BY <1>1, <1>3, <1>5, <1>9, <3>1 DEF Cut
    <3>2. CASE q[k] \in RowsOf(p)
      <4>1. PICK j \in 1..Len(p) : q[k] = p[j]
        BY <1>1, <3>2 DEF RowsOf
      <4>2. j \notin 1..(k - 1) /\ j # k
        BY <1>6, <2>1, <2>2, <4>1
      <4>3. k < j
        BY <1>5, <4>2
      <4> QED BY <1>1, <1>5, <4>1, <4>3 DEF Descending
    <3> QED BY <3>1, <3>2
  <2> QED BY <1>3, <1>5, <1>9, <2>3, <2>4, BelowTotal
<1> QED BY <1>8, <1>9

\* There is an answer for every limit: the newest row that is left out, if any,
\* is the next one.
LEMMA AnswerExists ==
    ASSUME ListingTypeOK, NEW c, NEW limit \in Nat
    PROVE  listPage(c, limit) # {}
<1> DEFINE S == buildListWhere(c)
           Without == {n \in Nat : listPage(c, n) = {}}
<1>0. S \subseteq Ids
    BY DEF buildListWhere, ListingTypeOK
<1> HIDE DEF S
<1>a. ASSUME NEW n \in Nat, NEW m \in 0..n, NEW page \in [1..m -> S],
             Descending(page), Cut(page, S, n)
      PROVE  page \in listPage(c, n)
    BY <1>a DEF listPage, S
<1>1. SUFFICES ASSUME Without # {} PROVE FALSE
    OBVIOUS
<1>2. PICK n \in Without : \A k \in Without : n <= k
    BY <1>1, LeastNatural
<1>3. n # 0
  <2>1. ASSUME n = 0 PROVE FALSE
    <3>1. <<>> \in [1..0 -> S] /\ DOMAIN <<>> = {} /\ Len(<<>>) = 0
      OBVIOUS
    <3>2. Descending(<<>>) /\ Cut(<<>>, S, 0)
      BY <3>1 DEF Descending, Cut
    <3>3. <<>> \in listPage(c, 0)
      <4>1. 0 \in 0..0 /\ 0 \in Nat
        OBVIOUS
      <4> QED BY <3>1, <3>2, <4>1 DEF listPage, S
    <3> QED BY <1>2, <2>1, <3>3
  <2> QED BY <2>1
<1>4. n - 1 \in Nat /\ n - 1 \notin Without
    BY <1>2, <1>3
<1>5. PICK p \in listPage(c, n - 1) : TRUE
    BY <1>4
<1>6. /\ p \in Seq(S) /\ Len(p) \in Nat /\ DOMAIN p = 1..Len(p)
      /\ Descending(p) /\ Cut(p, S, n - 1)
    BY <1>4, <1>5, Pages DEF S
<1>7. Len(p) \in 0..(n - 1)
  <2>1. PICK m \in 0..(n - 1) : p \in [1..m -> S]
    BY <1>5 DEF listPage, S
  <2> QED BY <1>6, <2>1
<1>8. CASE S \subseteq RowsOf(p)
  <2>1. p \in [1..Len(p) -> S] /\ Len(p) \in 0..n
    BY <1>2, <1>6, <1>7
  <2>2. Cut(p, S, n)
    BY <1>8 DEF Cut
  <2> QED BY <1>2, <1>6, <1>a, <2>1, <2>2
<1>9. CASE ~(S \subseteq RowsOf(p))
  <2>1. Len(p) = n - 1
    BY <1>6, <1>9 DEF Cut
  <2>2. PICK x \in S \ RowsOf(p) : \A y \in (S \ RowsOf(p)) \ {x} : Below(y, x)
    BY <1>0, <1>9, Newest
  <2> DEFINE q == Append(p, x)
  <2>3. /\ q \in Seq(S) /\ Len(q) = n /\ q[n] = x
        /\ \A m \in 1..(n - 1) : q[m] = p[m]
    <3>1. /\ q \in Seq(S) /\ Len(q) = Len(p) + 1 /\ q[Len(p) + 1] = x
          /\ \A m \in 1..Len(p) : q[m] = p[m]
      BY <1>6, <2>2, AppendProperties
    <3>2. Len(p) + 1 = n
      BY <1>2, <2>1
    <3> QED BY <2>1, <3>1, <3>2
  <2> HIDE DEF q
  <2>4. \A m \in 1..(n - 1) : Below(x, p[m])
    BY <1>6, <2>1, <2>2 DEF Cut
  <2>5. DOMAIN q = 1..n /\ q \in [1..n -> S]
    BY <2>3
  <2>6. Descending(q)
    <3> SUFFICES ASSUME NEW j \in 1..n, NEW k \in 1..n, j < k
                 PROVE  Below(q[k], q[j])
      BY <2>5 DEF Descending
    <3>1. j \in 1..(n - 1) /\ (k = n \/ k \in 1..(n - 1))
      BY <1>2
    <3>2. CASE k = n
      BY <2>3, <2>4, <3>1, <3>2
    <3>3. CASE k \in 1..(n - 1)
      BY <1>6, <2>1, <2>3, <3>1, <3>3 DEF Descending
    <3> QED BY <3>1, <3>2, <3>3
  <2>7. Cut(q, S, n)
    <3> SUFFICES ASSUME NEW i \in S, i \notin RowsOf(q)
                 PROVE  \A m \in 1..n : Below(i, q[m])
      BY <2>3, <2>5 DEF Cut
    <3>1. /\ n \in 1..n /\ \A m \in 1..(n - 1) : m \in 1..n
          /\ \A m \in 1..n : m = n \/ m \in 1..(n - 1)
      BY <1>2, <1>3
    <3>2. i # x /\ i \notin RowsOf(p)
      BY <1>6, <2>1, <2>3, <2>5, <3>1 DEF RowsOf
    <3>3. Below(i, x) /\ \A m \in 1..(n - 1) : Below(i, p[m])
      BY <1>6, <2>1, <2>2, <3>2 DEF Cut
    <3> QED BY <2>3, <3>1, <3>3
  <2>8. n \in 0..n
    BY <1>2
  <2> QED BY <1>2, <1>a, <2>5, <2>6, <2>7, <2>8
<1> QED BY <1>8, <1>9

\* Every query has an answer, and just one, for any finite table, cursor and
\* limit: what ORDER BY and LIMIT promise determines the page.
THEOREM QueryHasOneAnswer ==
    ASSUME ListingTypeOK, NEW c, NEW limit \in Nat
    PROVE  \E page : listPage(c, limit) = {page}
<1>1. PICK p \in listPage(c, limit) : TRUE
    BY AnswerExists
<1>2. ASSUME NEW q \in listPage(c, limit) PROVE q = p
  <2>1. /\ \A k \in 1..Len(p) : k \in 1..Len(q) /\ p[k] = q[k]
        /\ \A k \in 1..Len(q) : k \in 1..Len(p) /\ q[k] = p[k]
    BY SamePrefix
  <2>2. /\ p \in Seq(buildListWhere(c)) /\ q \in Seq(buildListWhere(c))
        /\ Len(p) \in Nat /\ Len(q) \in Nat
    BY Pages
  <2>3. Len(p) = Len(q)
    <3>1. ASSUME NEW a \in Nat, NEW b \in Nat, \A k \in 1..a : k \in 1..b
          PROVE  a <= b
      <4>1. CASE a = 0
        BY <4>1
      <4>2. CASE a \in 1..a
        BY <3>1, <4>2
      <4> QED BY <4>1, <4>2
    <3>2. Len(p) <= Len(q) /\ Len(q) <= Len(p)
      BY <2>1, <2>2, <3>1
    <3> QED BY <2>2, <3>2
  <2> QED BY <2>1, <2>2, <2>3, SeqEqual
<1> QED BY <1>1, <1>2
================================================================================
