------------------------------- MODULE Paging -------------------------------
(***************************************************************************)
(* Lists that are read a page at a time while they change: the ledger of a *)
(* wallet, the auctions, the products.  The server resumes after a cursor, *)
(* the place of the last row that it sent (auctionRepository.list,         *)
(* listProducts, listEntries); the website appends what it gets            *)
(* (AuctionList.tsx, Wallet.tsx).                                          *)
(*                                                                         *)
(* A row has a place in the order of the list: the value that is sorted    *)
(* by, which rows may share, and then its identity.                        *)
(***************************************************************************)
EXTENDS Naturals, Sequences, FiniteSets, SequencesExt

CONSTANTS
  Rows,         \* identities, which are ordered
  Values,       \* what the list is sorted by
  Filters,      \* what the visitor may choose
  Under,        \* the rows that pass each filter
  PageSize,     \* LIMIT
  MaxWalks,     \* bound: lists that are begun
  MaxChanges    \* bound: changes of rows

ASSUME PagingAssumption ==
  /\ Rows \subseteq Nat /\ IsFiniteSet(Rows)
  /\ Values \subseteq Nat \ {0}
  /\ Under \in [Filters -> SUBSET Rows]
  /\ PageSize \in Nat \ {0} /\ MaxWalks \in Nat /\ MaxChanges \in Nat

VARIABLES
  value,       \* the value of each row, or Gone if no list has it
  list,        \* the component: what it shows and where it would go on
  asked,       \* fetches on their way
  steady,      \* the rows that have kept their place since the list was begun
  disturbed,   \* an answer to an older list has come in since then
  changes

pagingVars == <<value, list, asked, steady, disturbed, changes>>

Gone == 0
AtStart == [at |-> "start", value |-> 0, row |-> 0]
AtEnd   == [at |-> "end", value |-> 0, row |-> 0]
Cursor  == [at : {"start", "row", "end"}, value : Nat, row : Nat]
Blank(f, n) == [kind |-> "loading", filter |-> f, walk |-> n, shown |-> <<>>, next |-> AtEnd, loadingMore |-> FALSE]

PagingTypeOK ==
  /\ value \in [Rows -> Values \cup {Gone}]
  /\ list \in [kind : {"loading", "error", "ready"}, filter : Filters, walk : Nat, shown : Seq(Rows),
               next : Cursor, loadingMore : BOOLEAN]
  /\ asked \subseteq [walk : Nat, filter : Filters, after : Cursor, answered : BOOLEAN, rows : Seq(Rows), next : Cursor]
  /\ steady \subseteq Rows /\ disturbed \in BOOLEAN /\ changes \in Nat

Fetch(f, n, after) ==
  [walk |-> n, filter |-> f, after |-> after, answered |-> FALSE, rows |-> <<>>, next |-> AtEnd]

\* The page is opened, with any rows, under any filter.
PagingInit ==
  /\ value \in [Rows -> Values \cup {Gone}]
  /\ \E f \in Filters : list = Blank(f, 1) /\ asked = {Fetch(f, 1, AtStart)}
  /\ steady = {} /\ disturbed = FALSE /\ changes = 0

-----------------------------------------------------------------------------
Before(v, r, w, s) == v < w \/ (v = w /\ r < s)
Place(r)           == [at |-> "row", value |-> value[r], row |-> r]
Listed(f)          == {r \in Under[f] : value[r] # Gone}

\* Mutant of Resumes: the cursor is the value alone.
BugResumes(f, after) == {r \in Listed(f) : after.at = "start" \/ after.value < value[r]}

\* WHERE (value, id) > (cursor's value, cursor's id), the value at full precision.
Resumes(f, after) ==
  {r \in Listed(f) : after.at = "start" \/ Before(after.value, after.row, value[r], r)}

\* ORDER BY value, id.
InPlace(rows) ==
  \A i, j \in DOMAIN rows : i < j => Before(value[rows[i]], rows[i], value[rows[j]], rows[j])

Ordered(S) == CHOOSE rows \in SetToSeqs(S) : InPlace(rows)

\* LIMIT PageSize + 1: the extra row tells that there is another page.
PageOf(S) ==
  LET rows == SubSeq(Ordered(S), 1, IF Cardinality(S) < PageSize THEN Cardinality(S) ELSE PageSize)
  IN  [rows |-> rows, next |-> IF Cardinality(S) > PageSize THEN Place(Last(rows)) ELSE AtEnd]

\* The server reads a page, in one statement.
ServePage(q) ==
  LET page == PageOf(Resumes(q.filter, q.after)) IN
  /\ q \in asked /\ ~q.answered
  /\ asked' = (asked \ {q}) \cup {[q EXCEPT !.answered = TRUE, !.rows = page.rows, !.next = page.next]}
  /\ steady' = IF q.walk = list.walk /\ q.after = AtStart THEN Rows ELSE steady
  /\ UNCHANGED <<value, list, disturbed, changes>>

\* A row is inserted, leaves the list, or has its value edited.
ChangeRow(r, v) ==
  /\ changes < MaxChanges /\ v # value[r]
  /\ changes' = changes + 1
  /\ value' = [value EXCEPT ![r] = v]
  /\ steady' = steady \ {r}
  /\ UNCHANGED <<list, asked, disturbed>>

-----------------------------------------------------------------------------
\* load: on opening, when the sort or the category changes, and on Try again.
Load(f) ==
  /\ list.walk < MaxWalks
  /\ f # list.filter \/ list.kind = "error"
  /\ list' = [Blank(f, list.walk + 1) EXCEPT !.loadingMore = list.loadingMore]
  /\ asked' = asked \cup {Fetch(f, list.walk + 1, AtStart)}
  /\ steady' = {} /\ disturbed' = FALSE
  /\ UNCHANGED <<value, changes>>

\* loadMore: the button is there while there is a cursor, and disabled meanwhile.
LoadMore ==
  /\ list.kind = "ready" /\ list.next # AtEnd /\ ~list.loadingMore
  /\ list' = [list EXCEPT !.loadingMore = TRUE]
  /\ asked' = asked \cup {Fetch(list.filter, list.walk, list.next)}
  /\ UNCHANGED <<value, steady, disturbed, changes>>

\* Nothing tells the answer to an older fetch from the one that is waited for.
Heard(q) == asked' = asked \ {q} /\ disturbed' = (disturbed \/ q.walk # list.walk)

ShowFirst(q) ==
  /\ q.after = AtStart
  /\ list' = [list EXCEPT !.kind = "ready", !.shown = q.rows, !.next = q.next]

\* A page that comes when the list is not ready is dropped.
ShowMore(q) ==
  /\ q.after # AtStart
  /\ list' = IF list.kind = "ready"
             THEN [list EXCEPT !.shown = @ \o q.rows, !.next = q.next, !.loadingMore = FALSE]
             ELSE [list EXCEPT !.loadingMore = FALSE]

HearPage(q) ==
  /\ q \in asked /\ q.answered
  /\ Heard(q)
  /\ ShowFirst(q) \/ ShowMore(q)
  /\ UNCHANGED <<value, steady, changes>>

\* A fetch fails.  What is shown stays, unless it was the first page.
FetchPageFails(q) ==
  /\ q \in asked
  /\ Heard(q)
  /\ list' = IF q.after = AtStart THEN [list EXCEPT !.kind = "error"] ELSE [list EXCEPT !.loadingMore = FALSE]
  /\ UNCHANGED <<value, steady, changes>>

PagingNext ==
  \/ \E f \in Filters : Load(f)
  \/ LoadMore
  \/ \E q \in asked : ServePage(q) \/ HearPage(q) \/ FetchPageFails(q)
  \/ \E r \in Rows, v \in Values \cup {Gone} : ChangeRow(r, v)

PagingSpec == PagingInit /\ [][PagingNext]_pagingVars

-----------------------------------------------------------------------------
Shown(r)  == {i \in 1..Len(list.shown) : list.shown[i] = r}
Passed(r) == list.next.at = "end" \/ ~Before(list.next.value, list.next.row, value[r], r)

\* auctionRepository.list: the list changes under its reader, and yet no auction,
\* product or entry that keeps its place is shown twice or skipped, or out of
\* order; also when rows share the value that is sorted by.
StandingRowsShownOnce ==
  list.kind = "ready" /\ ~disturbed =>
    /\ \A r \in steady \cap Listed(list.filter) : Cardinality(Shown(r)) = IF Passed(r) THEN 1 ELSE 0
    /\ \A i, j \in 1..Len(list.shown) :
         LET r == list.shown[i]
             s == list.shown[j]
         IN  i < j /\ {r, s} \subseteq steady => Before(value[r], r, value[s], s)

\* Not true: an answer to the filter that was chosen before is shown under the one
\* that is chosen now, and a page of the old list is appended to the new one.
\* TLC refutes it.
ShowsWhatIsChosen ==
  list.kind = "ready" => \A i \in 1..Len(list.shown) : list.shown[i] \in Under[list.filter]
=============================================================================
