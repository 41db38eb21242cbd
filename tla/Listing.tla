-------------------------------- MODULE Listing --------------------------------
(***************************************************************************)
(* A client that walks through the discrepancies of its tenant page by     *)
(* page, while rows are inserted and change their status.                  *)
(*                                                                         *)
(* A page holds the rows below the cursor in the order of created_at and   *)
(* id, newest first; the cursor of the next page is the id of the last     *)
(* row, and is given only with a full page.  The position of a cursor is   *)
(* looked up in the table again for every page, and the filter sees the    *)
(* rows as they are by then.                                               *)
(*                                                                         *)
(* A row is stamped when its INSERT begins and is visible when it commits: *)
(* rows may appear below, as well as above, where the walk has got to.     *)
(***************************************************************************)
EXTENDS Integers, Sequences, FiniteSets

CONSTANTS
    Ids,            \* the rows' ids: UUIDs, ordered, in no order of creation
    MaxTime,        \* bound: the clock stops there
    MaxListed,      \* bound: a walk gives up once it has got more rows than this
    RequestedLimits,\* the limit parameters clients send; 0 for none or nonsense
    defaultLimit,   \* 25
    maxLimit        \* 100

ASSUME ListingAssumption ==
    /\ Ids \subseteq Nat \ {0} /\ IsFiniteSet(Ids)
    /\ MaxTime \in Nat \ {0} /\ MaxListed \in Nat /\ RequestedLimits \subseteq Nat
    /\ defaultLimit \in 1..maxLimit /\ maxLimit \in Nat

VARIABLES
    now,        \* the clock
    createdAt,  \* per id: created_at, 0 before its INSERT begins
    visible,    \* the committed rows
    matching,   \* those of the committed rows that the client's filter selects
    wpc,        \* where the walk is
    asked,      \* the limit parameter of the walk
    cursor,     \* the cursor of the next page, 0 for none
    listed,     \* the rows it has got, in order
    settled     \* rows that matched when the walk began, and ever since

tableVars == <<now, createdAt, visible, matching>>
listingVars == <<tableVars, wpc, asked, cursor, listed, settled>>

\* Every variable has its type.
ListingTypeOK ==
    /\ now \in 1..MaxTime
    /\ createdAt \in [Ids -> 0..now]
    /\ visible \subseteq {i \in Ids : createdAt[i] # 0}
    /\ matching \subseteq visible
    /\ wpc \in {"start", "page", "done"}
    /\ asked \in RequestedLimits
    /\ cursor \in visible \cup {0}
    /\ listed \in Seq(visible)
    /\ settled \subseteq matching

ListingInit ==
    /\ now = 1
    /\ createdAt = [i \in Ids |-> 0]
    /\ visible = {}
    /\ matching = {}
    /\ wpc = "start"
    /\ asked \in RequestedLimits
    /\ cursor = 0
    /\ listed = <<>>
    /\ settled = {}

--------------------------------------------------------------------------------
(* The table.                                                              *)

BeginInsert(i) ==
    /\ createdAt[i] = 0
    /\ createdAt' = [createdAt EXCEPT ![i] = now]
    /\ UNCHANGED <<now, visible, matching, wpc, asked, cursor, listed, settled>>

\* The row is committed, and the filter may select it or not.
CommitInsert(i) ==
    /\ createdAt[i] # 0
    /\ i \notin visible
    /\ visible' = visible \cup {i}
    /\ matching' \in {matching, matching \cup {i}}
    /\ UNCHANGED <<now, createdAt, wpc, asked, cursor, listed, settled>>

\* A status or a severity changes, and the filter selects the row or no longer.
ChangeRow(i) ==
    /\ i \in visible
    /\ matching' = IF i \in matching THEN matching \ {i} ELSE matching \cup {i}
    /\ settled' = settled \ {i}
    /\ UNCHANGED <<now, createdAt, visible, wpc, asked, cursor, listed>>

Tick ==
    /\ now < MaxTime
    /\ now' = now + 1
    /\ UNCHANGED <<createdAt, visible, matching, wpc, asked, cursor, listed,
                   settled>>

--------------------------------------------------------------------------------
(* The query.                                                              *)

\* The rows of a page, or of several.
RowsOf(page) == {page[m] : m \in DOMAIN page}

\* (created_at, id) of i is below that of j.
Below(i, j) == \/ createdAt[i] < createdAt[j]
               \/ createdAt[i] = createdAt[j] /\ i < j

\* A limit is cut to the cap.
Capped(limit) == IF limit > maxLimit THEN maxLimit ELSE limit

\* The handler's limit: the default without a valid parameter, at most the cap.
parseLimit(requested) ==
    Capped(IF requested > 0 THEN requested ELSE defaultLimit)

\* The store's, applied to it once more.
storeLimit(limit) == Capped(IF limit <= 0 THEN defaultLimit ELSE limit)

\* Mutants: the cursor's row is listed again; the row of the cursor is looked up
\* with the filter.
AfterCursorInclusive(i, c) == c # 0 => i = c \/ Below(i, c)
AfterCursorFiltered(i, c) == c # 0 => c \in matching /\ Below(i, c)

\* The cursor condition.  Its subquery has no filter of its own, so that a row
\* which no longer matches still marks its place.
AfterCursor(i, c) == c # 0 => c \in visible /\ Below(i, c)

\* The WHERE clause: the filters, as the rows are now, and the cursor.
buildListWhere(c) == {i \in matching : AfterCursor(i, c)}

\* ORDER BY created_at DESC, id DESC: the rows of a page, newest first.
Descending(page) ==
    \A m, n \in DOMAIN page : m < n => Below(page[n], page[m])

\* LIMIT: no row that is left out comes before one of the page, and rows are
\* left out only of a full page.
Cut(page, selected, limit) ==
    \A i \in selected \ RowsOf(page) :
        /\ Len(page) = limit
        /\ \A m \in DOMAIN page : Below(i, page[m])

\* The answer to the query.  The order is total, so that there is just one.
listPage(c, limit) ==
    LET selected == buildListWhere(c)
    IN  {page \in UNION {[1..n -> selected] : n \in 0..limit} :
            Descending(page) /\ Cut(page, selected, limit)}

\* Mutant: an offset for a cursor.
NextCursorOffset(page, limit) ==
    IF page # <<>> /\ Len(page) = limit THEN Len(page) ELSE 0

\* The cursor the handler answers with: only after a full page.
NextCursor(page, limit) ==
    IF page # <<>> /\ Len(page) = limit THEN page[Len(page)] ELSE 0

--------------------------------------------------------------------------------
(* The walk.                                                               *)

\* List, for the first page and for each next one.  (The total is counted in a
\* statement of its own before; nothing depends on it.  A request that fails
\* changes nothing, and the client repeats it.)
List ==
    LET limit == parseLimit(asked)
    IN  /\ wpc \in {"start", "page"}
        /\ Len(listed) <= MaxListed
        /\ \E page \in listPage(cursor, storeLimit(limit)) :
              /\ listed' = listed \o page
              /\ cursor' = NextCursor(page, limit)
        /\ wpc' = IF cursor' = 0 THEN "done" ELSE "page"
        /\ settled' = IF wpc = "start" THEN matching ELSE settled
        /\ UNCHANGED <<tableVars, asked>>

ListingNext ==
    \/ \E i \in Ids : BeginInsert(i) \/ CommitInsert(i) \/ ChangeRow(i)
    \/ Tick
    \/ List

\* A client that goes on, and a service that answers.
ListingFairness == WF_listingVars(List)

ListingSpec == ListingInit /\ [][ListingNext]_listingVars
ListingFairSpec == ListingSpec /\ ListingFairness

--------------------------------------------------------------------------------
\* The walk lists no row twice and keeps the order, although rows are inserted
\* and leave or join the filter between its pages; and once it is done, it has
\* listed every row that the filter selected from its first page on.
WalkIsComplete ==
    /\ Descending(listed)
    /\ wpc = "done" => settled \subseteq RowsOf(listed)

\* The walk comes to an end.
WalkEnds == <>(wpc = "done")
================================================================================
