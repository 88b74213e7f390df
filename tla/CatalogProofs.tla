--------------------------- MODULE CatalogProofs ---------------------------
(***************************************************************************)
(* Sellers' sessions only ever do to auctions and stock what the module    *)
(* AuctionLifecycle allows, so its theorems hold beside them.  What it     *)
(* takes is that a product that is not there yet has no auction, and so    *)
(* nothing is reserved when its row is inserted.                           *)
(*                                                                         *)
(* The images of a product (module Gallery): the unique index keeps the    *)
(* positions apart, so the list that a removal makes has every image once, *)
(* and writing by such a list leaves no gap.                               *)
(*                                                                         *)
(* The categories (module Categories): what is above a category is the     *)
(* least closed set over it, and no category is above itself exactly when  *)
(* every set of categories has one whose parent is outside.  A move under  *)
(* a closed set that does not hold the category moved keeps it so.         *)
(***************************************************************************)
EXTENDS Catalog, Listing, AuctionLifecycleProofs, WellFoundedInduction

SessionsOK ==
  /\ listed  \in [Products -> {None, "draft", "active", "archived"}]
  /\ at      \in [Sessions -> {"idle", "check", "write", "refused"}]
  /\ request \in [Sessions -> Requests \cup {Idle}]

\* A session that has read a product, and an auction, are of a product that is there.
ProductsThere ==
  /\ \A s \in Sessions : at[s] # "idle" =>
       request[s] \in Requests /\ listed[request[s].product] # None
  /\ \A a \in Auctions : status[a] # None => listed[ProductOf[a]] # None

CInv == IInv /\ SessionsOK /\ ProductsThere

-----------------------------------------------------------------------------
(* Every step is a step of the lifecycle. *)

LEMMA CreateIsWrite ==
  ASSUME CInv, NEW p \in Products, NEW n \in 0..MaxStock, CreateProduct(p, n)
  PROVE  WriteStock(p, n)
<1>1. HeldFor(p) = {}
  <2> SUFFICES ASSUME NEW a \in Auctions, ProductOf[a] = p, hold[a] = "held"
               PROVE  FALSE
    BY DEF HeldFor
  <2>1. status[a] = None
    BY DEF CInv, ProductsThere, CreateProduct, NewProduct
  <2> QED  BY <2>1 DEF CInv, IInv, AuctionInv, PreOpen
<1>2. reserved[p] = 0
  BY <1>1, FS_EmptySet DEF CInv, IInv, NothingOversold
<1>3. reserved[p] <= n
  BY <1>2
<1> QED  BY <1>3 DEF CreateProduct, NewProduct, WriteStock

LEMMA WriteProductIsWrite ==
  ASSUME CInv, NEW s \in Sessions, WriteProduct(s)
  PROVE  [Next]_vars
<1> DEFINE r == request[s]
<1>1. r \in Requests /\ r.op # "create"
  BY DEF CInv, ProductsThere, WriteProduct
<1>2. r.product \in Products /\ (r.stock # Keep => r.stock \in 0..MaxStock)
  BY <1>1 DEF Requests, Request
<1>3. CASE r.stock = Keep
  <2>1. UNCHANGED vars
    BY <1>3 DEF WriteProduct, WriteRow, vars, stockVars
  <2> QED  BY <2>1
<1>4. CASE r.stock # Keep
  <2>1. WriteStock(r.product, r.stock)
    BY <1>4 DEF WriteProduct, WriteRow, WriteStock
  <2> QED  BY <1>2, <1>4, <2>1 DEF Next
<1> QED  BY <1>3, <1>4

LEMMA StepsAreLifecycle == CInv /\ [CNext]_cvars => [Next]_vars
<1> SUFFICES ASSUME CInv, [CNext]_cvars
             PROVE  [Next]_vars
  OBVIOUS
<1>1. ASSUME NEW s \in Sessions, SessionStep(s)
      PROVE  [Next]_vars
  <2>1. CASE \E r \in Requests : Read(s, r)
    BY <2>1 DEF Read
  <2>2. CASE Check(s)
    BY <2>2 DEF Check
  <2>3. CASE WriteProduct(s)
    BY <2>3, WriteProductIsWrite
  <2>4. CASE Abandon(s)
    BY <2>4 DEF Abandon
  <2>5. CASE \E a \in Auctions, t \in Terms : InsertAuction(s, a, t)
    BY <2>5 DEF InsertAuction, Next
  <2> QED  BY <1>1, <2>1, <2>2, <2>3, <2>4, <2>5 DEF SessionStep
<1>2. ASSUME NEW p \in Products, NEW n \in 0..MaxStock, CreateProduct(p, n)
      PROVE  [Next]_vars
  BY <1>2, CreateIsWrite DEF Next
<1>3. CASE (Tick \/ \E a \in Auctions : AuctionStep(a)) /\ UNCHANGED catalogVars
  BY <1>3 DEF Next
<1>4. CASE UNCHANGED cvars
  BY <1>4 DEF cvars
<1> QED  BY <1>1, <1>2, <1>3, <1>4 DEF CNext

-----------------------------------------------------------------------------
(* The sessions' part of the invariant. *)

\* Only an INSERT makes an auction of nothing.
LEMMA NoAuctionAppears ==
  ASSUME IInv, Tick \/ \E a \in Auctions : AuctionStep(a), NEW b \in Auctions, status[b] = None
  PROVE  status'[b] = None
<1>1. CASE Tick
  BY <1>1 DEF Tick, auctionVars
<1>2. ASSUME NEW a \in Auctions, AuctionStep(a)
      PROVE  status'[b] = None
  <2>1. \/ status' = status
        \/ status[a] # None /\ \E next : status' = [status EXCEPT ![a] = next]
    BY <1>2 DEF AuctionStep, UndecidedStep, UpdateTerms, NewTerms, Submit, Approve, Reject, Open, Close, BeginCalculating,
                Complete, Suspend, Resume, Cancel, Moves, Becomes, Sources, None
  <2> QED  BY <2>1 DEF IInv, TypeOK
<1> QED  BY <1>1, <1>2

\* The end of a session's transaction.
LEMMA EndKeeps ==
  ASSUME SessionsOK, ProductsThere, NEW s \in Sessions, Ends(s),
         listed' \in [Products -> {None, "draft", "active", "archived"}],
         \A p \in Products : listed[p] # None => listed'[p] # None,
         \A a \in Auctions : status'[a] # None => listed'[ProductOf[a]] # None
  PROVE  SessionsOK' /\ ProductsThere'
<1>1. SessionsOK'
  BY DEF SessionsOK, Ends, Goes
<1>2. \A t \in Sessions : at'[t] # "idle" => t # s /\ at[t] # "idle" /\ request'[t] = request[t]
  BY DEF SessionsOK, Ends, Goes
<1>3. \A t \in Sessions : request[t] \in Requests => request[t].product \in Products
  BY DEF Requests, Request
<1> QED  BY <1>1, <1>2, <1>3 DEF ProductsThere

LEMMA SessionsKept ==
  ASSUME CInv, [CNext]_cvars
  PROVE  SessionsOK' /\ ProductsThere'
<1>0. SessionsOK /\ ProductsThere /\ \A a \in Auctions : ProductOf[a] \in Products
  BY ProductOfAssumption DEF CInv
<1>1. ASSUME NEW s \in Sessions, NEW r \in Requests, Read(s, r)
      PROVE  SessionsOK' /\ ProductsThere'
  <2>1. SessionsOK'
    BY <1>0, <1>1 DEF SessionsOK, Read, Goes
  <2>2. request'[s] = r /\ listed[r.product] # None
    BY <1>0, <1>1 DEF SessionsOK, Read, Eligible
  <2>3. \A t \in Sessions : t # s => at'[t] = at[t] /\ request'[t] = request[t]
    BY <1>0, <1>1 DEF SessionsOK, Read, Goes
  <2>4. listed' = listed /\ status' = status
    BY <1>1 DEF Read, vars, auctionVars
  <2> QED  BY <1>0, <2>1, <2>2, <2>3, <2>4 DEF ProductsThere
<1>2. ASSUME NEW s \in Sessions, Check(s)
      PROVE  SessionsOK' /\ ProductsThere'
  <2>1. SessionsOK'
    BY <1>0, <1>2 DEF SessionsOK, Check, Goes
  <2>2. \A t \in Sessions : at'[t] # "idle" => at[t] # "idle"
    BY <1>0, <1>2 DEF SessionsOK, Check, Goes
  <2>3. listed' = listed /\ status' = status /\ request' = request
    BY <1>2 DEF Check, vars, auctionVars
  <2> QED  BY <1>0, <2>1, <2>2, <2>3 DEF ProductsThere
<1>3. ASSUME NEW s \in Sessions, WriteProduct(s)
      PROVE  SessionsOK' /\ ProductsThere'
  <2>1. request[s] \in Requests
    BY <1>0, <1>3 DEF WriteProduct, ProductsThere
  <2>2. request[s].status \in {None, "draft", "active", "archived"} /\ request[s].product \in Products
    BY <2>1 DEF Requests, Request
  <2>3. /\ listed' \in [Products -> {None, "draft", "active", "archived"}]
        /\ \A p \in Products : listed[p] # None => listed'[p] # None
    BY <1>0, <1>3, <2>2 DEF SessionsOK, WriteProduct
  <2>4. status' = status /\ Ends(s)
    BY <1>3 DEF WriteProduct, auctionVars
  <2>5. \A a \in Auctions : status'[a] # None => listed'[ProductOf[a]] # None
    BY <1>0, <2>3, <2>4 DEF ProductsThere
  <2> QED  BY <1>0, <2>3, <2>4, <2>5, EndKeeps
<1>4. ASSUME NEW s \in Sessions, Abandon(s)
      PROVE  SessionsOK' /\ ProductsThere'
  <2>1. listed' = listed /\ status' = status /\ Ends(s)
    BY <1>4 DEF Abandon, vars, auctionVars
  <2>2. \A a \in Auctions : status'[a] # None => listed'[ProductOf[a]] # None
    BY <1>0, <2>1 DEF ProductsThere
  <2> QED  BY <1>0, <2>1, <2>2, EndKeeps DEF SessionsOK
<1>5. ASSUME NEW s \in Sessions, NEW a \in Auctions, NEW t \in Terms, InsertAuction(s, a, t)
      PROVE  SessionsOK' /\ ProductsThere'
  <2>1. listed' = listed /\ Ends(s) /\ status' = [status EXCEPT ![a] = "draft"]
    BY <1>5 DEF InsertAuction, Insert, Becomes
  <2>2. listed[ProductOf[a]] # None
    BY <1>0, <1>5 DEF InsertAuction, ProductsThere
  <2>3. \A b \in Auctions : status'[b] # None => listed'[ProductOf[b]] # None
    BY <1>0, <2>1, <2>2 DEF ProductsThere, CInv, IInv, TypeOK
  <2> QED  BY <1>0, <2>1, <2>3, EndKeeps DEF SessionsOK
<1>6. ASSUME NEW p \in Products, NEW n \in 0..MaxStock, CreateProduct(p, n)
      PROVE  SessionsOK' /\ ProductsThere'
  <2>1. /\ listed' = [listed EXCEPT ![p] = "draft"]
        /\ status' = status /\ at' = at /\ request' = request
    BY <1>6 DEF CreateProduct, NewProduct, auctionVars
  <2>2. \A q \in Products : listed[q] # None => listed'[q] # None
    BY <1>0, <2>1 DEF SessionsOK, None
  <2>3. \A s \in Sessions : request[s] \in Requests => request[s].product \in Products
    BY DEF Requests, Request
  <2> QED  BY <1>0, <2>1, <2>2, <2>3 DEF SessionsOK, ProductsThere
<1>7. CASE (Tick \/ \E a \in Auctions : AuctionStep(a)) /\ UNCHANGED catalogVars
  <2>1. \A b \in Auctions : status[b] = None => status'[b] = None
    BY <1>7, NoAuctionAppears DEF CInv
  <2> QED  BY <1>0, <1>7, <2>1 DEF SessionsOK, ProductsThere, catalogVars
<1>8. CASE UNCHANGED cvars
  BY <1>0, <1>8 DEF SessionsOK, ProductsThere, cvars, catalogVars, vars, auctionVars
<1> QED  BY <1>1, <1>2, <1>3, <1>4, <1>5, <1>6, <1>7, <1>8 DEF CNext, SessionStep

LEMMA CInitInv == CInit => CInv
<1> SUFFICES ASSUME CInit
             PROVE  CInv
  OBVIOUS
<1>1. IInv
  BY InitInv DEF CInit
<1>2. SessionsOK /\ ProductsThere
  BY DEF CInit, Init, SessionsOK, ProductsThere, None
<1> QED  BY <1>1, <1>2 DEF CInv

-----------------------------------------------------------------------------
\* Beside any number of sellers' sessions, each reading and writing with no lock,
\* auctions and stock behave as AuctionLifecycle says: a refinement, by which every
\* theorem of AuctionLifecycleProofs holds of the catalog too.
THEOREM CatalogStaysInLifecycle == CSpec => StaysInLifecycle
<1>1. CInit => CInv
  BY CInitInv
<1>2. CInv /\ [CNext]_cvars => CInv'
  BY StepsAreLifecycle, NextInv, SessionsKept DEF CInv
<1>3. CInv /\ [CNext]_cvars => [Next]_vars
  BY StepsAreLifecycle
<1>4. CInit => Init
  BY DEF CInit
<1> QED  BY <1>1, <1>2, <1>3, <1>4, PTL DEF CSpec, StaysInLifecycle, Spec

\* Stock is never oversold, although its CHECK is all that stands between a
\* seller's late write and the auctions that opened meanwhile.
THEOREM CatalogNeverOversells == CSpec => []NothingOversold
BY CatalogStaysInLifecycle, StockIsNeverOversold, PTL DEF StaysInLifecycle

-----------------------------------------------------------------------------
(* The images of a product: sequences and positions.                       *)

Distinct(list) == \A n, m \in DOMAIN list : list[n] = list[m] => n = m

LEMMA PositionOf ==
  ASSUME NEW list \in Seq(Images), Distinct(list), NEW n \in DOMAIN list
  PROVE  Position(list, list[n]) = n - 1
<1> DEFINE m == CHOOSE k \in DOMAIN list : list[k] = list[n]
<1>1. m \in DOMAIN list /\ list[m] = list[n]
  OBVIOUS
<1>2. m = n
  BY <1>1 DEF Distinct
<1> QED  BY <1>2 DEF Position

LEMMA PositionIn ==
  ASSUME NEW list \in Seq(Images), NEW i \in ToSet(list)
  PROVE  \E n \in 1..Len(list) : list[n] = i /\ Position(list, i) = n - 1
<1>1. PICK k \in DOMAIN list : list[k] = i
  BY DEF ToSet
<1> DEFINE m == CHOOSE n \in DOMAIN list : list[n] = i
<1>2. m \in DOMAIN list /\ list[m] = i
  BY <1>1
<1>3. DOMAIN list = 1..Len(list)
  OBVIOUS
<1> QED  BY <1>2, <1>3 DEF Position

\* A list without repetitions is as long as the set of its members.
LEMMA LengthIsNumber ==
  ASSUME NEW list \in Seq(Images), Distinct(list)
  PROVE  IsFiniteSet(ToSet(list)) /\ Cardinality(ToSet(list)) = Len(list)
<1>1. Len(list) \in Nat /\ DOMAIN list = 1..Len(list)
  OBVIOUS
<1>2. list \in [1..Len(list) -> ToSet(list)]
  BY <1>1 DEF ToSet
<1>3. list \in Injection(1..Len(list), ToSet(list))
  BY <1>1, <1>2 DEF Distinct, Injection, IsInjective
<1>4. list \in Surjection(1..Len(list), ToSet(list))
  BY <1>1, <1>2 DEF ToSet, Surjection
<1>5. list \in Bijection(1..Len(list), ToSet(list))
  BY <1>3, <1>4 DEF Bijection
<1>6. ExistsBijection(1..Len(list), ToSet(list))
  BY <1>5 DEF ExistsBijection
<1>7. Cardinality(ToSet(list)) = Len(list)
  BY <1>1, <1>6, FS_CountingElements
<1>8. IsFiniteSet(ToSet(list))
  BY <1>1, <1>6, FS_NatBijection
<1> QED  BY <1>7, <1>8

\* A function from 1..n to a set is a sequence over it.
LEMMA FunctionIsList ==
  ASSUME NEW S \in SUBSET Images, NEW n \in Nat, NEW f \in [1..n -> S]
  PROVE  f \in Seq(Images)
OBVIOUS

-----------------------------------------------------------------------------
(* Of a finite set whose images stand apart, ListImages makes a list without *)
(* repetitions: each has a rank, no two have the same, and so every rank     *)
(* below the number of images is taken.                                      *)

Below(S, i) == {j \in S : row[j].position < row[i].position}

LEMMA RanksDiffer ==
  ASSUME NEW S, IsFiniteSet(S), \A i \in S : row[i].position \in Int,
         \A i, j \in S : i # j => row[i].position # row[j].position,
         NEW i \in S, NEW j \in S, i # j
  PROVE  Cardinality(Below(S, i)) # Cardinality(Below(S, j))
<1>1. ASSUME NEW a \in S, NEW b \in S, row[a].position < row[b].position
      PROVE  Cardinality(Below(S, a)) # Cardinality(Below(S, b))
  <2>1. Below(S, a) \in SUBSET Below(S, b)
    BY <1>1 DEF Below
  <2>2. a \in Below(S, b) /\ a \notin Below(S, a)
    BY <1>1 DEF Below
  <2>3. Below(S, b) \in SUBSET S
    BY DEF Below
  <2>4. IsFiniteSet(Below(S, b))
    BY <2>3, FS_Subset
  <2> QED  BY <2>1, <2>2, <2>4, FS_Subset
<1>2. row[i].position < row[j].position \/ row[j].position < row[i].position
  OBVIOUS
<1> QED  BY <1>1, <1>2

LEMMA RankIsSmall ==
  ASSUME NEW S, IsFiniteSet(S), \A i \in S : row[i].position \in Int, NEW i \in S
  PROVE  Cardinality(Below(S, i)) \in 0..(Cardinality(S) - 1)
<1>1. Below(S, i) \in SUBSET S /\ i \notin Below(S, i)
  BY DEF Below
<1>2. IsFiniteSet(Below(S, i))
  BY <1>1, FS_Subset
<1>3. Cardinality(Below(S, i)) <= Cardinality(S) /\ Cardinality(Below(S, i)) # Cardinality(S)
  BY <1>1, FS_Subset
<1>4. Cardinality(Below(S, i)) \in Nat /\ Cardinality(S) \in Nat
  BY <1>2, FS_CardinalityType
<1> QED  BY <1>3, <1>4

LEMMA EveryRankIsTaken ==
  ASSUME NEW S, IsFiniteSet(S), \A i \in S : row[i].position \in Int,
         \A i, j \in S : i # j => row[i].position # row[j].position,
         NEW n \in 1..Cardinality(S)
  PROVE  \E i \in S : Cardinality(Below(S, i)) = n - 1
<1> DEFINE T == 0..(Cardinality(S) - 1)
           f == [i \in S |-> Cardinality(Below(S, i))]
<1>1. Cardinality(S) \in Nat
  BY FS_CardinalityType
<1>2. f \in [S -> T]
  BY RankIsSmall
<1>3. \A i, j \in S : f[i] = f[j] => i = j
  BY RanksDiffer
<1>4. f \in Injection(S, T)
  BY <1>2, <1>3 DEF Injection, IsInjective
<1>5. IsFiniteSet(T) /\ Cardinality(T) = Cardinality(S)
  <2>1. 0 \in Int /\ Cardinality(S) - 1 \in Int
    BY <1>1
  <2>2. /\ IsFiniteSet(T)
        /\ Cardinality(T) = IF 0 > Cardinality(S) - 1 THEN 0 ELSE (Cardinality(S) - 1) - 0 + 1
    BY <2>1, FS_Interval
  <2> HIDE DEF T
  <2> QED  BY <1>1, <2>2
<1>6. f \in Surjection(S, T)
  BY <1>4, <1>5, FS_Injection
<1>7. n - 1 \in T
  BY <1>1
<1>8. \A t \in T : \E i \in S : f[i] = t
  BY <1>6 DEF Surjection
<1>9. PICK i \in S : f[i] = n - 1
  BY <1>7, <1>8
<1> QED  BY <1>9

LEMMA InOrderIsDistinct ==
  ASSUME NEW S \in SUBSET Images, IsFiniteSet(S), \A i \in S : row[i].position \in Int,
         \A i, j \in S : i # j => row[i].position # row[j].position
  PROVE  InOrder(S) \in Seq(Images) /\ Distinct(InOrder(S))
<1> DEFINE N == Cardinality(S)
           ranked(n) == CHOOSE i \in S : Cardinality(Below(S, i)) = n - 1
<1>1. N \in Nat
  BY FS_CardinalityType
<1>2. InOrder(S) = [n \in 1..N |-> ranked(n)]
  BY DEF InOrder, Below
<1>3. \A n \in 1..N : ranked(n) \in S /\ Cardinality(Below(S, ranked(n))) = n - 1
  BY EveryRankIsTaken
<1> HIDE DEF N, ranked
<1>4. InOrder(S) \in [1..N -> S]
  BY <1>2, <1>3
<1>5. InOrder(S) \in Seq(Images)
  BY <1>1, <1>4, FunctionIsList
<1>6. ASSUME NEW n \in 1..N, NEW m \in 1..N, InOrder(S)[n] = InOrder(S)[m]
      PROVE  n = m
  <2>1. ranked(n) = ranked(m)
    BY <1>2, <1>6
  <2>2. n - 1 = m - 1
    BY <1>3, <2>1
  <2> QED  BY <1>1, <2>2
<1>7. DOMAIN InOrder(S) = 1..N
  BY <1>4
<1>8. Distinct(InOrder(S))
  BY <1>6, <1>7 DEF Distinct
<1> QED  BY <1>5, <1>8

-----------------------------------------------------------------------------
(* The invariant.                                                          *)

EditorState ==
  [at    : {"idle", "insert", "delete", "list", "order", "object"},
   image : SUBSET Images,
   count : Nat,
   list  : Seq(Images)]

GalleryTyped ==
  /\ row \in [Images -> [position : Int, primary : BOOLEAN]]
  /\ issued \subseteq Images /\ slot \subseteq issued /\ bucket \subseteq issued
  /\ archived \in BOOLEAN
  /\ editor \in [Editors -> EditorState]

\* Ids are given out one at a time.
FinitelyIssued == IsFiniteSet(issued)

\* What is shown was given out, and so was what a request removes.
ShownWereIssued == Shown \subseteq issued
HeldWereIssued  == \A s \in Editors : editor[s].image \subseteq issued

\* The unique indexes, and where the primary image may be.
RowsPlaced ==
  \A i \in Shown : row[i].position \in Nat /\ (row[i].primary => row[i].position = 0)

\* What a request writes by has no image twice.
ListsDistinct == \A s \in Editors : Distinct(editor[s].list)

\* After its commit a removal is of images that are gone.
ObjectsLast ==
  \A s \in Editors : editor[s].at = "object" => editor[s].image \cap Shown = {}

GalleryInv ==
  /\ GalleryTyped /\ FinitelyIssued /\ ShownWereIssued /\ HeldWereIssued
  /\ RowsPlaced /\ Apart(row) /\ ListsDistinct /\ ObjectsLast

LEMMA RestingIsTyped ==
  /\ Resting \in EditorState /\ Distinct(Resting.list)
  /\ Resting.image = {} /\ Resting.at = "idle"
<1>1. <<>> \in Seq(Images) /\ {} \in SUBSET Images /\ 0 \in Nat
  OBVIOUS
<1>2. Resting \in EditorState
  BY <1>1 DEF Resting, EditorState
<1>3. Resting.list = <<>> /\ Resting.image = {} /\ Resting.at = "idle"
  BY DEF Resting
<1>4. Distinct(<<>>)
  BY DEF Distinct
<1> QED  BY <1>2, <1>3, <1>4

LEMMA GalleryStarts == GalleryInit => GalleryInv
<1> SUFFICES ASSUME GalleryInit PROVE GalleryInv
  OBVIOUS
<1> USE DEF GalleryInit
<1>1. NoRow \in [position : Int, primary : BOOLEAN]
  BY DEF NoRow
<1>2. Shown = {}
  BY DEF Shown
<1>3. editor \in [Editors -> EditorState]
  BY RestingIsTyped
<1>4. GalleryTyped
  BY <1>1, <1>3 DEF GalleryTyped
<1>5. FinitelyIssued
  BY FS_EmptySet DEF FinitelyIssued
<1>6. \A s \in Editors : editor[s] = Resting
  OBVIOUS
<1>7. ShownWereIssued /\ RowsPlaced
  BY <1>2 DEF ShownWereIssued, RowsPlaced
<1>8. Apart(row)
  BY DEF Apart
<1>9. HeldWereIssued /\ ListsDistinct /\ ObjectsLast
  BY <1>6, RestingIsTyped DEF HeldWereIssued, ListsDistinct, ObjectsLast
<1> QED  BY <1>4, <1>5, <1>7, <1>8, <1>9 DEF GalleryInv

LEMMA ShownIsFinite ==
  ASSUME GalleryInv
  PROVE  IsFiniteSet(Shown) /\ Cardinality(Shown) \in Nat
<1>1. Shown \in SUBSET issued /\ IsFiniteSet(issued)
  BY DEF GalleryInv, ShownWereIssued, FinitelyIssued
<1>2. IsFiniteSet(Shown)
  BY <1>1, FS_Subset
<1> QED  BY <1>2, FS_CardinalityType

\* A turn of one request, when the rows and the ids stay: what must be known of
\* what it remembers then.
LEMMA TurnKeeps ==
  ASSUME GalleryInv, NEW s \in Editors, NEW e \in EditorState, Turn(s, e),
         UNCHANGED <<row, issued>>, slot' \subseteq issued, bucket' \subseteq issued,
         archived' \in BOOLEAN,
         e.image \subseteq issued, Distinct(e.list), e.at = "object" => e.image \cap Shown = {}
  PROVE  GalleryInv'
<1>1. editor' \in [Editors -> EditorState]
  BY DEF GalleryInv, GalleryTyped, Turn
<1>2. \A t \in Editors : editor'[t] = IF t = s THEN e ELSE editor[t]
  BY DEF GalleryInv, GalleryTyped, Turn
<1>3. Shown' = Shown
  BY DEF Shown
<1>4. GalleryTyped'
  BY <1>1 DEF GalleryInv, GalleryTyped
<1>5. FinitelyIssued' /\ ShownWereIssued' /\ RowsPlaced' /\ Apart(row)'
  BY <1>3 DEF GalleryInv, FinitelyIssued, ShownWereIssued, RowsPlaced, Apart
<1>6. HeldWereIssued'
  BY <1>2 DEF GalleryInv, HeldWereIssued
<1>7. ListsDistinct'
  BY <1>2 DEF GalleryInv, ListsDistinct
<1>8. ObjectsLast'
  BY <1>2, <1>3 DEF GalleryInv, ObjectsLast
<1> QED  BY <1>4, <1>5, <1>6, <1>7, <1>8 DEF GalleryInv

\* What a request remembers when nothing happened to it yet.
LEMMA EditorFacts ==
  ASSUME GalleryInv, NEW s \in Editors
  PROVE  /\ editor[s] \in EditorState
         /\ editor[s].image \subseteq issued /\ editor[s].image \subseteq Images
         /\ editor[s].list \in Seq(Images) /\ Distinct(editor[s].list)
         /\ editor[s].count \in Nat
         /\ editor[s].at = "object" => editor[s].image \cap Shown = {}
<1>1. editor[s] \in EditorState
  BY DEF GalleryInv, GalleryTyped
<1>2. editor[s].image \subseteq Images /\ editor[s].list \in Seq(Images) /\ editor[s].count \in Nat
  BY <1>1 DEF EditorState
<1> QED  BY <1>1, <1>2 DEF GalleryInv, HeldWereIssued, ListsDistinct, ObjectsLast

-----------------------------------------------------------------------------
(* The steps that leave the rows alone.                                    *)

LEMMA StoreIsTyped ==
  ASSUME GalleryInv, StoreStays
  PROVE  UNCHANGED issued /\ slot' \subseteq issued /\ bucket' \subseteq issued /\ archived' \in BOOLEAN
BY DEF GalleryInv, GalleryTyped, StoreStays

LEMMA CountImagesKeeps ==
  ASSUME GalleryInv, NEW s \in Editors, CountImages(s)
  PROVE  GalleryInv'
<1> DEFINE e == [Resting EXCEPT !.at = "insert", !.count = Cardinality(Shown)]
<1>1. Cardinality(Shown) \in Nat
  BY ShownIsFinite
<1>2. e \in EditorState
  BY <1>1, RestingIsTyped DEF EditorState
<1>3. e.image = {} /\ e.list = Resting.list /\ e.at # "object"
  BY RestingIsTyped DEF EditorState
<1>4. Turn(s, e)
  BY DEF CountImages
<1>5. UNCHANGED row /\ StoreStays
  BY DEF CountImages
<1>6. e.image \subseteq issued /\ Distinct(e.list)
  BY <1>3, RestingIsTyped
<1> HIDE DEF e
<1> QED  BY <1>2, <1>3, <1>4, <1>5, <1>6, StoreIsTyped, TurnKeeps

LEMMA FindImageKeeps ==
  ASSUME GalleryInv, NEW s \in Editors, NEW i \in Images, FindImage(s, i)
  PROVE  GalleryInv'
<1> DEFINE e == [Resting EXCEPT !.at = "delete", !.image = {i}]
<1>2. e \in EditorState
  BY RestingIsTyped DEF EditorState
<1>3. e.image = {i} /\ e.list = Resting.list /\ e.at # "object"
  BY RestingIsTyped DEF EditorState
<1>4. Turn(s, e) /\ i \in Shown
  BY DEF FindImage
<1>5. UNCHANGED row /\ StoreStays
  BY DEF FindImage
<1>6. e.image \subseteq issued /\ Distinct(e.list)
  BY <1>3, <1>4, RestingIsTyped DEF GalleryInv, ShownWereIssued
<1> HIDE DEF e
<1> QED  BY <1>2, <1>3, <1>4, <1>5, <1>6, StoreIsTyped, TurnKeeps

LEMMA DeleteImageKeeps ==
  ASSUME GalleryInv, NEW s \in Editors, DeleteImage(s)
  PROVE  GalleryInv'
<1> DEFINE e == [editor[s] EXCEPT !.at = "list"]
<1>1. e \in EditorState /\ e.image = editor[s].image /\ e.list = editor[s].list /\ e.at = "list"
  BY EditorFacts DEF EditorState
<1>2. Turn(s, e) /\ UNCHANGED row /\ StoreStays
  BY DEF DeleteImage
<1>3. e.image \subseteq issued /\ Distinct(e.list)
  BY <1>1, EditorFacts
<1> HIDE DEF e
<1> QED  BY <1>1, <1>2, <1>3, StoreIsTyped, TurnKeeps

LEMMA ShownStandApart ==
  ASSUME GalleryInv, NEW S \in SUBSET Shown
  PROVE  /\ S \in SUBSET Images /\ IsFiniteSet(S)
         /\ \A i \in S : row[i].position \in Int
         /\ \A i, j \in S : i # j => row[i].position # row[j].position
<1>1. S \in SUBSET Images /\ \A i \in S : row[i] # NoRow
  BY DEF Shown
<1>2. IsFiniteSet(S)
  BY ShownIsFinite, FS_Subset
<1>3. \A i \in S : row[i].position \in Int
  BY <1>1 DEF GalleryInv, GalleryTyped
<1>4. \A i, j \in S : i # j => row[i].position # row[j].position
  BY <1>1 DEF GalleryInv, Apart
<1> QED  BY <1>1, <1>2, <1>3, <1>4

LEMMA ListImagesKeeps ==
  ASSUME GalleryInv, NEW s \in Editors, ListImages(s)
  PROVE  GalleryInv'
<1> DEFINE S == Shown \ editor[s].image
           list == InOrder(S)
           e == [editor[s] EXCEPT !.at = "order", !.list = list]
<1>1. S \in SUBSET Shown
  OBVIOUS
<1>2. /\ S \in SUBSET Images /\ IsFiniteSet(S)
      /\ \A i \in S : row[i].position \in Int
      /\ \A i, j \in S : i # j => row[i].position # row[j].position
  BY <1>1, ShownStandApart
<1> HIDE DEF S
<1>3. list \in Seq(Images) /\ Distinct(list)
  BY <1>2, InOrderIsDistinct
<1>4. Turn(s, e) /\ UNCHANGED row /\ StoreStays
  BY DEF ListImages, S
<1> HIDE DEF list
<1>5. e \in EditorState /\ e.image = editor[s].image /\ e.list = list /\ e.at = "order"
  BY <1>3, EditorFacts DEF EditorState
<1>6. e.image \subseteq issued /\ Distinct(e.list)
  BY <1>3, <1>5, EditorFacts
<1> HIDE DEF e
<1> QED  BY <1>4, <1>5, <1>6, StoreIsTyped, TurnKeeps

LEMMA RequestOrderKeeps ==
  ASSUME GalleryInv, NEW s \in Editors, RequestOrder(s)
  PROVE  GalleryInv'
<1>1. PICK list \in SetToSeqs(Shown) : Turn(s, [Resting EXCEPT !.at = "order", !.list = list])
  BY DEF RequestOrder
<1> DEFINE e == [Resting EXCEPT !.at = "order", !.list = list]
<1>2. Cardinality(Shown) \in Nat /\ Shown \in SUBSET Images
  BY ShownIsFinite DEF Shown
<1>3. /\ list \in [1..Cardinality(Shown) -> Shown]
      /\ \A i, j \in 1..Cardinality(Shown) : i # j => list[i] # list[j]
  BY DEF SetToSeqs
<1>4. list \in Seq(Images)
  BY <1>2, <1>3, FunctionIsList
<1>5. Distinct(list)
  BY <1>3 DEF Distinct
<1>6. e \in EditorState /\ e.image = {} /\ e.list = list /\ e.at = "order"
  BY <1>4, RestingIsTyped DEF EditorState
<1>7. e.image \subseteq issued /\ Distinct(e.list) /\ e.at # "object"
  BY <1>5, <1>6
<1>8. Turn(s, e) /\ UNCHANGED row /\ StoreStays
  BY <1>1 DEF RequestOrder
<1> HIDE DEF e
<1> QED  BY <1>6, <1>7, <1>8, StoreIsTyped, TurnKeeps

LEMMA DeleteObjectKeeps ==
  ASSUME GalleryInv, NEW s \in Editors, DeleteObject(s)
  PROVE  GalleryInv'
<1>1. bucket' \subseteq bucket
  BY DEF DeleteObject, Removed
<1>2. /\ Turn(s, Resting) /\ UNCHANGED <<row, issued>>
      /\ slot' \subseteq issued /\ bucket' \subseteq issued /\ archived' \in BOOLEAN
  BY <1>1 DEF DeleteObject, GalleryInv, GalleryTyped
<1>3. /\ Resting \in EditorState /\ Resting.image \subseteq issued
      /\ Distinct(Resting.list) /\ Resting.at # "object"
  BY RestingIsTyped
<1> QED  BY <1>2, <1>3, TurnKeeps

LEMMA GiveUpKeeps ==
  ASSUME GalleryInv, NEW s \in Editors, GiveUp(s)
  PROVE  GalleryInv'
<1>1. Turn(s, Resting) /\ UNCHANGED row /\ StoreStays
  BY DEF GiveUp
<1>2. /\ Resting \in EditorState /\ Resting.image \subseteq issued
      /\ Distinct(Resting.list) /\ Resting.at # "object"
  BY RestingIsTyped
<1> QED  BY <1>1, <1>2, StoreIsTyped, TurnKeeps

\* The browser, the clock and the archive.
LEMMA StoreKeeps ==
  ASSUME GalleryInv, UNCHANGED <<row, issued, editor>>,
         slot' \subseteq issued, bucket' \subseteq issued, archived' \in BOOLEAN
  PROVE  GalleryInv'
<1>1. Shown' = Shown
  BY DEF Shown
<1> QED
  BY <1>1 DEF GalleryInv, GalleryTyped, FinitelyIssued, ShownWereIssued, HeldWereIssued,
              RowsPlaced, Apart, ListsDistinct, ObjectsLast

-----------------------------------------------------------------------------
(* The steps that change the rows.                                         *)

LEMMA InsertedRows ==
  ASSUME GalleryInv, NEW s \in Editors, NEW i \in Images, InsertImage(s, i)
  PROVE  /\ i \notin Shown /\ Shown' = Shown \cup {i}
         /\ row'[i] = NewRow(editor[s].count)
         /\ \A j \in Images \ {i} : row'[j] = row[j]
         /\ row' \in [Images -> [position : Int, primary : BOOLEAN]]
<1> DEFINE n == editor[s].count
<1>1. n \in Nat
  BY EditorFacts
<1>2. NewRow(n) \in [position : Int, primary : BOOLEAN]
  BY <1>1 DEF NewRow
<1>3. NewRow(n).position # NoRow.position
  BY <1>1 DEF NewRow, NoRow
<1>4. row' = [row EXCEPT ![i] = NewRow(n)] /\ row \in [Images -> [position : Int, primary : BOOLEAN]]
  BY DEF InsertImage, GalleryInv, GalleryTyped
<1>5. i \notin Shown
  BY DEF InsertImage, GalleryInv, ShownWereIssued
<1> HIDE DEF n
<1>6. row'[i] = NewRow(n) /\ \A j \in Images \ {i} : row'[j] = row[j]
  BY <1>4
<1>7. row' \in [Images -> [position : Int, primary : BOOLEAN]]
  BY <1>2, <1>4
<1>8. Shown' = Shown \cup {i}
  BY <1>3, <1>6 DEF Shown
<1> QED  BY <1>5, <1>6, <1>7, <1>8 DEF n

LEMMA InsertImageKeeps ==
  ASSUME GalleryInv, NEW s \in Editors, NEW i \in Images, InsertImage(s, i)
  PROVE  GalleryInv'
<1> DEFINE n == editor[s].count
<1>1. /\ i \notin Shown /\ Shown' = Shown \cup {i}
      /\ row'[i] = NewRow(n)
      /\ \A j \in Images \ {i} : row'[j] = row[j]
      /\ row' \in [Images -> [position : Int, primary : BOOLEAN]]
  BY InsertedRows
<1>2. n \in Nat
  BY EditorFacts
<1>3. /\ issued' = issued \cup {i} /\ slot' = slot \cup {i} /\ bucket' = bucket
      /\ archived' = archived /\ Turn(s, Resting) /\ i \notin issued
      /\ \A j \in Shown : row[j].position # n
  BY DEF InsertImage
<1>4. NewRow(n).position = n /\ (NewRow(n).primary <=> n = 0)
  BY DEF NewRow
<1> HIDE DEF n
<1>5. /\ editor' \in [Editors -> EditorState]
      /\ \A t \in Editors : editor'[t] = IF t = s THEN Resting ELSE editor[t]
  BY <1>3, RestingIsTyped DEF Turn, GalleryInv, GalleryTyped
<1>6. GalleryTyped'
  BY <1>1, <1>3, <1>5 DEF GalleryInv, GalleryTyped
<1>7. FinitelyIssued'
  BY <1>3, FS_AddElement DEF GalleryInv, FinitelyIssued
<1>8. ShownWereIssued' /\ HeldWereIssued'
  BY <1>1, <1>3, <1>5, RestingIsTyped DEF GalleryInv, ShownWereIssued, HeldWereIssued
<1>9. Shown \subseteq Images
  BY DEF Shown
<1>10. \A j \in Shown : row'[j] = row[j]
  BY <1>1, <1>9
<1>11. RowsPlaced'
  <2> SUFFICES ASSUME NEW j \in Shown'
               PROVE  row'[j].position \in Nat /\ (row'[j].primary => row'[j].position = 0)
    BY DEF RowsPlaced
  <2>1. CASE j = i
    BY <2>1, <1>1, <1>2, <1>4
  <2>2. CASE j # i
    BY <2>2, <1>1, <1>10 DEF GalleryInv, RowsPlaced
  <2> QED  BY <2>1, <2>2
<1>12. Apart(row)'
  <2> SUFFICES ASSUME NEW j \in Images, NEW k \in Images,
                      j # k, row'[j] # NoRow, row'[k] # NoRow
               PROVE  row'[j].position # row'[k].position
    BY DEF Apart
  <2>1. CASE j # i /\ k # i
    BY <2>1, <1>1 DEF GalleryInv, Apart
  <2>2. CASE j = i
    <3>1. k \in Shown /\ row'[k] = row[k]
      BY <2>2, <1>1 DEF Shown
    <3> QED  BY <2>2, <3>1, <1>1, <1>3, <1>4
  <2>3. CASE k = i
    <3>1. j \in Shown /\ row'[j] = row[j]
      BY <2>3, <1>1 DEF Shown
    <3> QED  BY <2>3, <3>1, <1>1, <1>3, <1>4
  <2> QED  BY <2>1, <2>2, <2>3
<1>13. ListsDistinct'
  BY <1>5, RestingIsTyped DEF GalleryInv, ListsDistinct
<1>14. ObjectsLast'
  <2> SUFFICES ASSUME NEW t \in Editors, editor'[t].at = "object"
               PROVE  editor'[t].image \cap Shown' = {}
    BY DEF ObjectsLast
  <2>1. t # s
    BY <1>5, RestingIsTyped
  <2>2. editor'[t] = editor[t]
    BY <2>1, <1>5
  <2>3. editor[t].image \cap Shown = {} /\ editor[t].image \subseteq issued
    BY <2>2, EditorFacts
  <2> QED  BY <2>2, <2>3, <1>1, <1>3
<1> QED
  BY <1>6, <1>7, <1>8, <1>11, <1>12, <1>13, <1>14 DEF GalleryInv

LEMMA OrderedRows ==
  ASSUME GalleryInv, MaxImages \in Nat, Offset \in Nat, NEW s \in Editors, OrderImages(s)
  PROVE  /\ row' \in [Images -> [position : Int, primary : BOOLEAN]]
         /\ \A i \in Images : row'[i] = After(i, s)
         /\ Shown' = Shown \ editor[s].image
         /\ Apart(row)'
         /\ RowsPlaced'
<1> DEFINE list == editor[s].list
           image == editor[s].image
           Rows == [position : Int, primary : BOOLEAN]
<1>1. /\ row' = [i \in Images |-> After(i, s)] /\ Apart(row)'
  BY DEF OrderImages, Apart
<1>2. \A i \in Images : row'[i] = After(i, s)
  BY <1>1
<1>3. list \in Seq(Images) /\ Distinct(list)
  BY EditorFacts
<1>4. \A i \in ToSet(list) : Position(list, i) \in Nat
  BY <1>3, PositionIn
<1>5. \A i \in Shown : row[i].position \in Nat /\ row[i] \in Rows /\ i \in Images /\ row[i] # NoRow
                       /\ (row[i].primary => row[i].position = 0)
  BY DEF GalleryInv, GalleryTyped, RowsPlaced, Shown
<1> HIDE DEF list, image
<1>6. ASSUME NEW i \in Shown
      PROVE  /\ Reordered(i, list) \in Rows
             /\ Reordered(i, list).position \in Nat
             /\ Reordered(i, list).primary => Reordered(i, list).position = 0
  <2>1. CASE i \in ToSet(list)
    <3>1. Reordered(i, list) = [position |-> Position(list, i), primary |-> Position(list, i) = 0]
      BY <2>1 DEF Reordered
    <3>2. Position(list, i) \in Nat
      BY <2>1, <1>4
    <3> DEFINE p == Position(list, i)
               b == p = 0
    <3>3. Reordered(i, list) = [position |-> p, primary |-> b]
      BY <3>1
    <3>4. p \in Nat /\ b \in BOOLEAN /\ (b => p = 0)
      BY <3>2
    <3> HIDE DEF p, b
    <3> QED  BY <3>3, <3>4
  <2>2. CASE i \notin ToSet(list)
    <3>1. Reordered(i, list) = [position |-> row[i].position + Offset, primary |-> FALSE]
      BY <2>2 DEF Reordered
    <3>2. row[i].position + Offset \in Nat
      BY <1>5
    <3> QED  BY <3>1, <3>2
  <2> QED  BY <2>1, <2>2
<1>7. ASSUME NEW i \in Images
      PROVE  /\ i \notin Shown \ image => After(i, s) = NoRow
             /\ i \in Shown \ image =>
                  /\ After(i, s) \in Rows
                  /\ After(i, s).position \in Nat
                  /\ After(i, s).primary => After(i, s).position = 0
  <2>1. CASE i \notin Shown \ image
    BY <2>1 DEF After, image
  <2>2. CASE i \in Shown \ image
    <3>1. After(i, s) = IF list = <<>> THEN row[i] ELSE Reordered(i, list)
      BY <2>2 DEF After, image, list
    <3> QED  BY <2>2, <3>1, <1>5, <1>6
  <2> QED  BY <2>1, <2>2
<1>8. NoRow \in Rows /\ NoRow.position = -1
  BY DEF NoRow
<1>9. \A i \in Images : After(i, s) \in Rows
  BY <1>7, <1>8
<1>10. \A i \in Images : i \in Shown \ image <=> row'[i] # NoRow
  BY <1>2, <1>7, <1>8
<1>11. Shown' = Shown \ image
  BY <1>5, <1>10 DEF Shown
<1>12. row' \in [Images -> Rows]
  BY <1>1, <1>9
<1>13. RowsPlaced'
  BY <1>2, <1>5, <1>7, <1>11 DEF RowsPlaced
<1> QED  BY <1>1, <1>2, <1>11, <1>12, <1>13 DEF image

LEMMA OrderImagesKeeps ==
  ASSUME GalleryInv, MaxImages \in Nat, Offset \in Nat, NEW s \in Editors, OrderImages(s)
  PROVE  GalleryInv'
<1> DEFINE image == editor[s].image
           e == IF image = {} THEN Resting ELSE [Resting EXCEPT !.at = "object", !.image = image]
<1>1. /\ row' \in [Images -> [position : Int, primary : BOOLEAN]]
      /\ Shown' = Shown \ image /\ Apart(row)' /\ RowsPlaced'
  BY OrderedRows
<1>2. Turn(s, e) /\ StoreStays
  BY DEF OrderImages
<1>3. image \subseteq issued /\ image \subseteq Images
  BY EditorFacts
<1> HIDE DEF image
<1>4. /\ e \in EditorState /\ e.list = Resting.list
      /\ e.image = image
  <2>1. CASE image = {}
    BY <2>1, RestingIsTyped
  <2>2. CASE image # {}
    BY <2>2, <1>3, RestingIsTyped DEF EditorState
  <2> QED  BY <2>1, <2>2
<1> HIDE DEF e
<1>5. /\ editor' \in [Editors -> EditorState]
      /\ \A t \in Editors : editor'[t] = IF t = s THEN e ELSE editor[t]
  BY <1>2, <1>4 DEF Turn, GalleryInv, GalleryTyped
<1>6. UNCHANGED <<issued, slot, bucket, archived>>
  BY <1>2 DEF StoreStays
<1>7. GalleryTyped'
  BY <1>1, <1>5, <1>6 DEF GalleryInv, GalleryTyped
<1>8. FinitelyIssued' /\ ShownWereIssued'
  BY <1>1, <1>6 DEF GalleryInv, FinitelyIssued, ShownWereIssued
<1>9. HeldWereIssued'
  BY <1>3, <1>4, <1>5, <1>6 DEF GalleryInv, HeldWereIssued
<1>10. ListsDistinct'
  BY <1>4, <1>5, RestingIsTyped DEF GalleryInv, ListsDistinct
<1>11. ObjectsLast'
  <2> SUFFICES ASSUME NEW t \in Editors, editor'[t].at = "object"
               PROVE  editor'[t].image \cap Shown' = {}
    BY DEF ObjectsLast
  <2>1. CASE t = s
    BY <2>1, <1>1, <1>4, <1>5
  <2>2. CASE t # s
    <3>1. editor'[t] = editor[t]
      BY <2>2, <1>5
    <3>2. editor[t].image \cap Shown = {}
      BY <3>1, EditorFacts
    <3> QED  BY <3>1, <3>2, <1>1
  <2> QED  BY <2>1, <2>2
<1> QED
  BY <1>1, <1>7, <1>8, <1>9, <1>10, <1>11 DEF GalleryInv

LEMMA GallerySteps == GalleryInv /\ [GalleryNext]_galleryVars => GalleryInv'
<1> SUFFICES ASSUME GalleryInv, [GalleryNext]_galleryVars
             PROVE  GalleryInv'
  OBVIOUS
<1> USE GalleryAssumption
<1>1. ASSUME NEW s \in Editors, CountImages(s)
      PROVE  GalleryInv'
  BY <1>1, CountImagesKeeps
<1>2. ASSUME NEW s \in Editors, DeleteImage(s)
      PROVE  GalleryInv'
  BY <1>2, DeleteImageKeeps
<1>3. ASSUME NEW s \in Editors, ListImages(s)
      PROVE  GalleryInv'
  BY <1>3, ListImagesKeeps
<1>4. ASSUME NEW s \in Editors, OrderImages(s)
      PROVE  GalleryInv'
  BY <1>4, OrderImagesKeeps
<1>5. ASSUME NEW s \in Editors, DeleteObject(s)
      PROVE  GalleryInv'
  BY <1>5, DeleteObjectKeeps
<1>6. ASSUME NEW s \in Editors, GiveUp(s)
      PROVE  GalleryInv'
  BY <1>6, GiveUpKeeps
<1>7. ASSUME NEW s \in Editors, RequestOrder(s)
      PROVE  GalleryInv'
  BY <1>7, RequestOrderKeeps
<1>8. ASSUME NEW s \in Editors, NEW i \in Images, InsertImage(s, i)
      PROVE  GalleryInv'
  BY <1>8, InsertImageKeeps
<1>9. ASSUME NEW s \in Editors, NEW i \in Images, FindImage(s, i)
      PROVE  GalleryInv'
  BY <1>9, FindImageKeeps
<1>10. ASSUME NEW i \in Images, Upload(i)
       PROVE  GalleryInv'
  BY <1>10, StoreKeeps DEF Upload, GalleryInv, GalleryTyped
<1>11. ASSUME NEW i \in Images, Expire(i)
       PROVE  GalleryInv'
  BY <1>11, StoreKeeps DEF Expire, GalleryInv, GalleryTyped
<1>12. CASE ArchiveProduct
  BY <1>12, StoreKeeps DEF ArchiveProduct, GalleryInv, GalleryTyped
<1>13. CASE UNCHANGED galleryVars
  BY <1>13, StoreKeeps DEF galleryVars, GalleryInv, GalleryTyped
<1> QED
  BY <1>1, <1>2, <1>3, <1>4, <1>5, <1>6, <1>7, <1>8, <1>9, <1>10, <1>11, <1>12, <1>13
     DEF GalleryNext

\* The images are typed, the shown ones stand apart and were given out, the primary
\* one is at position 0, and what a request deletes the object of is gone.
THEOREM GalleryInvariant == GallerySpec => []GalleryInv
BY GalleryStarts, GallerySteps, PTL DEF GallerySpec

\* The state of a gallery is always of its type.
THEOREM GalleryTypeCorrect == GallerySpec => []GalleryTypeOK
<1>1. GalleryInv => GalleryTypeOK
  <2> SUFFICES ASSUME GalleryInv PROVE GalleryTypeOK
    OBVIOUS
  <2>1. ASSUME NEW s \in Editors
        PROVE  /\ editor[s].at \in {"idle", "insert", "delete", "list", "order", "object"}
               /\ editor[s].image \subseteq Images
               /\ editor[s].count \in Nat
               /\ ToSet(editor[s].list) \subseteq Images
    BY EditorFacts DEF EditorState, ToSet
  <2> QED  BY <2>1 DEF GalleryTypeOK, GalleryInv, GalleryTyped
<1> QED  BY <1>1, GalleryInvariant, PTL

\* applyImageOrder: whatever overlaps, the primary image is the first one and the
\* only one.
THEOREM PrimaryIsAlwaysFirst == GallerySpec => []PrimaryIsFirst
<1>1. GalleryInv => PrimaryIsFirst
  <2> SUFFICES ASSUME GalleryInv, NEW i \in Shown, row[i].primary, NEW j \in Shown \ {i}
               PROVE  row[i].position < row[j].position /\ ~row[j].primary
    BY DEF PrimaryIsFirst
  <2>1. row[i].position = 0 /\ row[j].position \in Nat /\ (row[j].primary => row[j].position = 0)
    BY DEF GalleryInv, RowsPlaced
  <2>2. row[i].position # row[j].position
    BY DEF GalleryInv, Apart, Shown
  <2> QED  BY <2>1, <2>2
<1> QED  BY <1>1, GalleryInvariant, PTL

\* deleteProductImage: no object of an image that is shown is deleted.
THEOREM ShownAlwaysKeepTheirObjects == GallerySpec => ShownKeepTheirObjects
<1>1. GalleryInv /\ [GalleryNext]_galleryVars => [bucket \ bucket' \subseteq Images \ Shown]_galleryVars
  <2> SUFFICES ASSUME GalleryInv, GalleryNext
               PROVE  bucket \ bucket' \subseteq Images \ Shown
    OBVIOUS
  <2>1. ASSUME NEW s \in Editors, DeleteObject(s)
        PROVE  bucket \ bucket' \subseteq Images \ Shown
    <3>1. bucket \ bucket' \subseteq editor[s].image /\ editor[s].at = "object"
      BY <2>1 DEF DeleteObject, Removed
    <3> QED  BY <3>1, EditorFacts
  <2>2. ASSUME ~ \E s \in Editors : DeleteObject(s)
        PROVE  bucket \subseteq bucket'
    BY <2>2 DEF GalleryNext, CountImages, DeleteImage, ListImages, OrderImages, GiveUp, RequestOrder,
                InsertImage, FindImage, Upload, Expire, ArchiveProduct, StoreStays
  <2> QED  BY <2>1, <2>2
<1> QED  BY <1>1, GalleryInvariant, PTL DEF GallerySpec, ShownKeepTheirObjects

-----------------------------------------------------------------------------
(* A gallery stays whole.                                                  *)

LEMMA InsertStaysWhole ==
  ASSUME GalleryInv, Whole, NEW s \in Editors, NEW i \in Images, InsertImage(s, i),
         editor[s].count = Cardinality(Shown)
  PROVE  Whole'
<1> DEFINE n == Cardinality(Shown)
<1>1. /\ i \notin Shown /\ Shown' = Shown \cup {i}
      /\ row'[i] = NewRow(n)
      /\ \A j \in Images \ {i} : row'[j] = row[j]
  BY InsertedRows
<1>2. n \in Nat /\ IsFiniteSet(Shown)
  BY ShownIsFinite
<1>3. Cardinality(Shown') = n + 1
  BY <1>1, <1>2, FS_AddElement
<1>4. NewRow(n).position = n /\ (NewRow(n).primary <=> n = 0)
  BY DEF NewRow
<1>5. /\ {row[j].position : j \in Shown} = 0..(n - 1)
      /\ \A j \in Shown : row[j].position = 0 => row[j].primary
  BY DEF Whole
<1> HIDE DEF n
<1>6. \A j \in Shown : row'[j] = row[j]
  BY <1>1 DEF Shown
<1>7. {row'[j].position : j \in Shown'} = 0..n
  <2>1. ASSUME NEW j \in Shown'
        PROVE  row'[j].position \in 0..n
    <3>1. CASE j = i
      BY <3>1, <1>1, <1>2, <1>4
    <3>2. CASE j # i
      <4>1. row'[j] = row[j] /\ row[j].position \in 0..(n - 1)
        BY <3>2, <1>1, <1>5, <1>6
      <4> QED  BY <4>1, <1>2
    <3> QED  BY <3>1, <3>2
  <2>2. ASSUME NEW k \in 0..n
        PROVE  \E j \in Shown' : row'[j].position = k
    <3>1. CASE k = n
      BY <3>1, <1>1, <1>4
    <3>2. CASE k # n
      <4>1. k \in 0..(n - 1)
        BY <3>2, <1>2
      <4>2. PICK j \in Shown : row[j].position = k
        BY <4>1, <1>5
      <4> QED  BY <4>2, <1>1, <1>6
    <3> QED  BY <3>1, <3>2
  <2> QED  BY <2>1, <2>2
<1>8. \A j \in Shown' : row'[j].position = 0 => row'[j].primary
  <2> SUFFICES ASSUME NEW j \in Shown', row'[j].position = 0
               PROVE  row'[j].primary
    OBVIOUS
  <2>1. CASE j = i
    BY <2>1, <1>1, <1>4
  <2>2. CASE j # i
    BY <2>2, <1>1, <1>5, <1>6
  <2> QED  BY <2>1, <2>2
<1>9. (n + 1) - 1 = n
  BY <1>2
<1> QED  BY <1>3, <1>7, <1>8, <1>9 DEF Whole

LEMMA OrderStaysWhole ==
  ASSUME GalleryInv, MaxImages \in Nat, Offset \in Nat, NEW s \in Editors, OrderImages(s),
         ToSet(editor[s].list) = Shown \ editor[s].image
  PROVE  Whole'
<1> DEFINE list == editor[s].list
           n == Len(list)
<1>1. list \in Seq(Images) /\ Distinct(list)
  BY EditorFacts
<1>2. Shown' = ToSet(list) /\ \A i \in Images : row'[i] = After(i, s)
  BY OrderedRows
<1>3. n \in Nat /\ Cardinality(Shown') = n /\ ToSet(list) \subseteq Images
  <2>1. n \in Nat
    BY <1>1
  <2>2. Cardinality(ToSet(list)) = n
    BY <1>1, LengthIsNumber
  <2>3. ToSet(list) \subseteq Images
    BY <1>1 DEF ToSet
  <2> QED  BY <2>1, <2>2, <2>3, <1>2
<1>4. ASSUME NEW i \in Shown'
      PROVE  row'[i].position = Position(list, i) /\ (row'[i].primary <=> Position(list, i) = 0)
  <2>1. i \in ToSet(list) /\ i \in Shown /\ i \notin editor[s].image /\ i \in Images
    BY <1>2, <1>3
  <2>2. list # <<>>
    BY <2>1 DEF ToSet
  <2>3. row'[i] = Reordered(i, list)
    BY <2>1, <2>2, <1>2 DEF After
  <2>4. Reordered(i, list) = [position |-> Position(list, i), primary |-> Position(list, i) = 0]
    BY <2>1 DEF Reordered
  <2> DEFINE p == Position(list, i)
             b == p = 0
  <2>5. row'[i] = [position |-> p, primary |-> b]
    BY <2>3, <2>4
  <2>6. row'[i].position = p /\ row'[i].primary = b
    <3> HIDE DEF p, b
    <3> QED  BY <2>5
  <2> QED  BY <2>6
<1> HIDE DEF list, n
<1>5. {row'[i].position : i \in Shown'} = 0..(n - 1)
  <2>1. ASSUME NEW i \in Shown'
        PROVE  row'[i].position \in 0..(n - 1)
    <3>1. PICK k \in 1..Len(list) : Position(list, i) = k - 1
      BY <1>1, <1>2, PositionIn
    <3> QED  BY <3>1, <1>3, <1>4 DEF n
  <2>2. ASSUME NEW k \in 0..(n - 1)
        PROVE  \E i \in Shown' : row'[i].position = k
    <3>1. k + 1 \in DOMAIN list
      BY <1>1, <1>3 DEF n
    <3>2. list[k + 1] \in ToSet(list)
      BY <3>1 DEF ToSet
    <3>3. Position(list, list[k + 1]) = (k + 1) - 1
      BY <3>1, <1>1, PositionOf
    <3>4. (k + 1) - 1 = k
      BY <1>3
    <3> QED  BY <3>2, <3>3, <3>4, <1>2, <1>4
  <2> QED  BY <2>1, <2>2
<1>6. \A i \in Shown' : row'[i].position = 0 => row'[i].primary
  BY <1>4
<1> QED  BY <1>3, <1>5, <1>6 DEF Whole

\* createImageUploadSlot, deleteProductImage, reorderProductImages: a request that
\* nobody interfered with leaves no gap, and a primary image in front.
THEOREM AlwaysStaysWhole == GallerySpec => StaysWhole
<1> DEFINE Step == (/\ Whole
                    /\ \A s \in Editors : editor'[s] # editor[s] => UpToDate(s))
                   => Whole'
<1>1. GalleryInv /\ [GalleryNext]_galleryVars => [Step]_galleryVars
  <2> SUFFICES ASSUME GalleryInv, GalleryNext, Whole,
                      \A s \in Editors : editor'[s] # editor[s] => UpToDate(s)
               PROVE  Whole'
    OBVIOUS
  <2> USE GalleryAssumption
  <2>1. ASSUME NEW s \in Editors, NEW e, Turn(s, e), e.at # editor[s].at
        PROVE  UpToDate(s)
    <3>1. editor'[s] = e
      BY <2>1 DEF Turn, GalleryInv, GalleryTyped
    <3> QED  BY <2>1, <3>1
  <2>2. ASSUME NEW s \in Editors, NEW i \in Images, InsertImage(s, i)
        PROVE  Whole'
    <3>1. Turn(s, Resting) /\ editor[s].at = "insert" /\ Resting.at = "idle"
      BY <2>2, RestingIsTyped DEF InsertImage
    <3>2. UpToDate(s)
      BY <2>1, <3>1
    <3>3. editor[s].count = Cardinality(Shown)
      BY <3>1, <3>2 DEF UpToDate
    <3> QED  BY <2>2, <3>3, InsertStaysWhole
  <2>3. ASSUME NEW s \in Editors, OrderImages(s)
        PROVE  Whole'
    <3> DEFINE e == IF editor[s].image = {} THEN Resting
                    ELSE [Resting EXCEPT !.at = "object", !.image = editor[s].image]
    <3>1. Turn(s, e) /\ editor[s].at = "order"
      BY <2>3 DEF OrderImages
    <3>2. e.at # "order"
      BY RestingIsTyped DEF EditorState
    <3> HIDE DEF e
    <3>3. UpToDate(s)
      BY <2>1, <3>1, <3>2
    <3>4. ToSet(editor[s].list) = Shown \ editor[s].image
      BY <3>1, <3>3 DEF UpToDate
    <3> QED  BY <2>3, <3>4, OrderStaysWhole
  <2>4. CASE UNCHANGED row
    <3>1. Shown' = Shown
      BY <2>4 DEF Shown
    <3> QED  BY <2>4, <3>1 DEF Whole
  <2> QED
    BY <2>2, <2>3, <2>4
       DEF GalleryNext, CountImages, DeleteImage, ListImages, DeleteObject, GiveUp, RequestOrder,
           FindImage, Upload, Expire, ArchiveProduct
<1> QED  BY <1>1, GalleryInvariant, PTL DEF GallerySpec, StaysWhole
-----------------------------------------------------------------------------
(* Categories.  Least numbers first: what the recursion of a climb gives is  *)
(* shown of the least step at which it would fail.                           *)

LEMMA LeastNatural ==
  ASSUME NEW n \in Nat, NEW S \in SUBSET (0..n), S # {}
  PROVE  \E m \in S : \A k \in S : m <= k
<1> DEFINE UpTo(k) == {j \in S : j <= k}
           UpTos   == {UpTo(k) : k \in S}
<1>1. IsFiniteSet(S)
  <2>1. 0 \in Int /\ n \in Int
    OBVIOUS
  <2>2. IsFiniteSet(0..n)
    BY <2>1, FS_Interval
  <2> QED  BY <2>2, FS_Subset
<1>2. IsWellFoundedOn(StrictSubsetOrdering(S), FiniteSubsetsOf(S))
  BY FS_StrictSubsetOrderingWellFounded
<1>3. UpTos \subseteq FiniteSubsetsOf(S)
  <2>1. \A k \in S : UpTo(k) \in SUBSET S
    OBVIOUS
  <2>2. \A k \in S : IsFiniteSet(UpTo(k))
    BY <1>1, <2>1, FS_Subset
  <2> QED  BY <2>1, <2>2 DEF FiniteSubsetsOf
<1>4. UpTos # {}
  OBVIOUS
<1>5. PICK T \in UpTos : \A U \in UpTos : ~(<<U, T>> \in StrictSubsetOrdering(S))
  <2> HIDE DEF UpTos
  <2> QED  BY <1>2, <1>3, <1>4, WFMin
<1>6. PICK m \in S : T = UpTo(m)
  BY <1>5
<1>7. ASSUME NEW k \in S, k < m
      PROVE  FALSE
  <2>1. m \in Int /\ k \in Int /\ \A j \in S : j \in Int
    OBVIOUS
  <2>2. /\ \A j \in S : j <= k => j <= m
        /\ ~(m <= k) /\ m <= m
    BY <1>7, <2>1
  <2>3. UpTo(k) \subseteq UpTo(m) /\ m \notin UpTo(k) /\ m \in UpTo(m)
    BY <2>2
  <2>4. <<UpTo(k), UpTo(m)>> \in StrictSubsetOrdering(S)
    BY <2>3 DEF StrictSubsetOrdering
  <2> QED  BY <1>5, <1>6, <2>4
<1>8. \A k \in S : ~(k < m) /\ k \in Int /\ m \in Int
  BY <1>7
<1> QED  BY <1>8

-----------------------------------------------------------------------------
(* Climbing.  A set of categories that is made larger again and again stays  *)
(* the same at the latest when there has been a step for each category.      *)

Grows(grow) ==
  /\ grow \in [SUBSET Categories -> SUBSET Categories]
  /\ \A S \in SUBSET Categories : S \subseteq grow[S]

Climbs(f, start, grow, n) ==
  f = [d \in 0..n |-> IF d = 0 THEN start ELSE grow[f[d-1]]]

Inside(T, grow) == \A S \in SUBSET T : grow[S] \subseteq T

LEMMA ClimbExists ==
  ASSUME NEW start, NEW grow, NEW n \in Nat
  PROVE  \E f : Climbs(f, start, grow, n)
<1> DEFINE Bad == {k \in 0..n : ~\E f : Climbs(f, start, grow, k)}
<1> SUFFICES ASSUME Bad # {} PROVE FALSE
  OBVIOUS
<1>1. Bad \in SUBSET (0..n)
  OBVIOUS
<1>2. PICK m \in Bad : \A k \in Bad : m <= k
  <2> HIDE DEF Bad
  <2> QED  BY <1>1, LeastNatural
<1>3. m \in 0..n /\ ~\E f : Climbs(f, start, grow, m)
  OBVIOUS
<1>4. CASE m = 0
  <2> DEFINE f == [d \in 0..0 |-> start]
  <2>1. f = [d \in 0..0 |-> IF d = 0 THEN start ELSE grow[f[d-1]]]
    OBVIOUS
  <2> HIDE DEF f
  <2>2. Climbs(f, start, grow, 0)
    BY <2>1 DEF Climbs
  <2> QED  BY <2>2, <1>3, <1>4
<1>5. CASE m # 0
  <2>1. m - 1 \in 0..n /\ ~(m <= m - 1)
    BY <1>3, <1>5
  <2>2. m - 1 \notin Bad
    BY <2>1, <1>2
  <2>3. PICK f : Climbs(f, start, grow, m - 1)
    BY <2>1, <2>2
  <2> DEFINE g == [d \in 0..m |-> IF d = m THEN grow[f[m-1]] ELSE f[d]]
  <2>4. \A d \in 0..(m-1) : f[d] = IF d = 0 THEN start ELSE grow[f[d-1]]
    BY <2>3 DEF Climbs
  <2>5. ASSUME NEW d \in 0..m
        PROVE  g[d] = IF d = 0 THEN start ELSE grow[g[d-1]]
    <3>1. CASE d = m
      <4>1. d - 1 \in 0..m /\ d - 1 # m /\ d # 0
        BY <3>1, <1>3, <1>5
      <4>2. g[d-1] = f[m-1] /\ g[d] = grow[f[m-1]]
        BY <3>1, <4>1
      <4> HIDE DEF g
      <4> QED  BY <4>1, <4>2
    <3>2. CASE d # m /\ d # 0
      <4>1. d \in 0..(m-1) /\ d - 1 \in 0..m /\ d - 1 # m
        BY <3>2, <1>3
      <4>2. g[d] = f[d] /\ g[d-1] = f[d-1]
        BY <3>2, <4>1
      <4> HIDE DEF g
      <4> QED  BY <3>2, <4>1, <4>2, <2>4
    <3>3. CASE d = 0
      <4>1. d \in 0..(m-1) /\ d # m
        BY <3>3, <1>3, <1>5
      <4>2. g[d] = f[d]
        BY <4>1
      <4> HIDE DEF g
      <4> QED  BY <3>3, <4>1, <4>2, <2>4
    <3> QED  BY <3>1, <3>2, <3>3
  <2>6. g = [d \in 0..m |-> g[d]]
    OBVIOUS
  <2> HIDE DEF g
  <2>7. Climbs(g, start, grow, m)
    BY <2>5, <2>6 DEF Climbs
  <2> QED  BY <2>7, <1>3
<1> QED  BY <1>4, <1>5

\* Each step adds to what there is; what is closed holds it all.
LEMMA ClimbStays ==
  ASSUME NEW start \in SUBSET Categories, NEW grow, Grows(grow), NEW n \in Nat,
         NEW f, Climbs(f, start, grow, n), NEW T \in SUBSET Categories, start \subseteq T,
         Inside(T, grow)
  PROVE  \A d \in 0..n : f[d] \in SUBSET T /\ start \subseteq f[d]
<1> DEFINE Bad == {d \in 0..n : ~(f[d] \in SUBSET T /\ start \subseteq f[d])}
<1> SUFFICES ASSUME Bad # {} PROVE FALSE
  OBVIOUS
<1>1. Bad \in SUBSET (0..n)
  OBVIOUS
<1>2. PICK m \in Bad : \A k \in Bad : m <= k
  <2> HIDE DEF Bad
  <2> QED  BY <1>1, LeastNatural
<1>3. m \in 0..n /\ ~(f[m] \in SUBSET T /\ start \subseteq f[m])
  OBVIOUS
<1>4. f[m] = IF m = 0 THEN start ELSE grow[f[m-1]]
  BY <1>3 DEF Climbs
<1>5. CASE m = 0
  BY <1>3, <1>4, <1>5
<1>6. CASE m # 0
  <2>1. m - 1 \in 0..n /\ ~(m <= m - 1)
    BY <1>3, <1>6
  <2>2. f[m-1] \in SUBSET T /\ start \subseteq f[m-1]
    BY <2>1, <1>2
  <2>3. f[m-1] \in SUBSET Categories
    BY <2>2
  <2>4. f[m-1] \subseteq grow[f[m-1]] /\ grow[f[m-1]] \subseteq T
    BY <2>2, <2>3 DEF Grows, Inside
  <2> QED  BY <2>2, <2>4, <1>3, <1>4, <1>6
<1> QED  BY <1>5, <1>6

LEMMA ClimbStops ==
  ASSUME NEW start \in SUBSET Categories, NEW grow, Grows(grow), NEW n \in Nat,
         NEW f, Climbs(f, start, grow, n), NEW d \in 0..n
  PROVE  grow[f[d]] = f[d] \/ Cardinality(f[d]) >= Cardinality(start) + d
<1> DEFINE Stops(k) == grow[f[k]] = f[k] \/ Cardinality(f[k]) >= Cardinality(start) + k
           Bad == {k \in 0..n : ~Stops(k)}
<1> SUFFICES ASSUME Bad # {} PROVE FALSE
  OBVIOUS
<1>1. Bad \in SUBSET (0..n)
  OBVIOUS
<1>2. PICK m \in Bad : \A k \in Bad : m <= k
  <2> HIDE DEF Bad
  <2> QED  BY <1>1, LeastNatural
<1>3. m \in 0..n /\ ~Stops(m)
  OBVIOUS
<1>4. f[m] = IF m = 0 THEN start ELSE grow[f[m-1]]
  BY <1>3 DEF Climbs
<1>5. \A k \in 0..n : f[k] \in SUBSET Categories
  <2>1. Inside(Categories, grow)
    BY DEF Grows, Inside
  <2>2. Categories \in SUBSET Categories /\ start \subseteq Categories
    OBVIOUS
  <2>3. \A k \in 0..n : f[k] \in SUBSET Categories /\ start \subseteq f[k]
    BY <2>1, <2>2, ClimbStays
  <2> QED  BY <2>3
<1>6. \A S \in SUBSET Categories : IsFiniteSet(S) /\ Cardinality(S) \in Nat
  BY CategoriesAssumption, FS_Subset, FS_CardinalityType
<1>7. CASE m = 0
  BY <1>3, <1>4, <1>6, <1>7
<1>8. CASE m # 0
  <2>1. m - 1 \in 0..n /\ ~(m <= m - 1)
    BY <1>3, <1>8
  <2>2. Stops(m - 1)
    BY <2>1, <1>2
  <2>3. f[m] = grow[f[m-1]] /\ f[m-1] \in SUBSET Categories /\ f[m] \in SUBSET Categories
    BY <2>1, <1>3, <1>4, <1>5, <1>8
  <2>4. CASE grow[f[m-1]] = f[m-1]
    BY <2>3, <2>4, <1>3
  <2>5. CASE grow[f[m-1]] # f[m-1]
    <3>1. Cardinality(f[m-1]) >= Cardinality(start) + (m - 1)
      BY <2>2, <2>5
    <3>2. f[m-1] \in SUBSET f[m] /\ f[m-1] # f[m]
      BY <2>3, <2>5 DEF Grows
    <3>3. Cardinality(f[m-1]) <= Cardinality(f[m]) /\ Cardinality(f[m-1]) # Cardinality(f[m])
      BY <3>2, <2>3, <1>6, FS_Subset
    <3>4. Cardinality(f[m]) \in Nat /\ Cardinality(f[m-1]) \in Nat /\ Cardinality(start) \in Nat
      BY <2>3, <1>6
    <3>5. ASSUME NEW a \in Nat, NEW b \in Nat, NEW s \in Nat, b >= s + (m - 1), b <= a, b # a
          PROVE  a >= s + m
      BY <3>5, <1>3
    <3>6. Cardinality(f[m]) >= Cardinality(start) + m
      BY <3>1, <3>3, <3>4, <3>5
    <3> QED  BY <3>6, <1>3
  <2> QED  BY <2>4, <2>5
<1> QED  BY <1>7, <1>8

\* A climb described one step at a time, as far as its sets are known to be of categories.
LEMMA StepsClimb ==
  ASSUME NEW start \in SUBSET Categories, NEW grow, Grows(grow), NEW n \in Nat,
         NEW f, f = [d \in 0..n |-> f[d]], f[0] = start,
         \A d \in 1..n : f[d-1] \in SUBSET Categories => f[d] = grow[f[d-1]]
  PROVE  Climbs(f, start, grow, n)
<1> DEFINE Bad == {d \in 0..n : f[d] \notin SUBSET Categories}
<1>1. Bad = {}
  <2> SUFFICES ASSUME Bad # {} PROVE FALSE
    OBVIOUS
  <2>1. Bad \in SUBSET (0..n)
    OBVIOUS
  <2>2. PICK m \in Bad : \A k \in Bad : m <= k
    <3> HIDE DEF Bad
    <3> QED  BY <2>1, LeastNatural
  <2>3. m \in 0..n /\ m # 0 /\ f[m] \notin SUBSET Categories
    OBVIOUS
  <2>4. m \in 1..n /\ m - 1 \in 0..n /\ ~(m <= m - 1)
    BY <2>3
  <2>5. f[m-1] \in SUBSET Categories
    BY <2>2, <2>4
  <2>6. f[m] = grow[f[m-1]]
    BY <2>4, <2>5
  <2> QED  BY <2>3, <2>5, <2>6 DEF Grows
<1>2. ASSUME NEW d \in 0..n
      PROVE  f[d] = IF d = 0 THEN start ELSE grow[f[d-1]]
  <2>1. CASE d = 0
    BY <2>1
  <2>2. CASE d # 0
    <3>1. d \in 1..n /\ d - 1 \in 0..n
      BY <2>2
    <3>2. f[d-1] \in SUBSET Categories
      BY <3>1, <1>1
    <3> QED  BY <2>2, <3>1, <3>2
  <2> QED  BY <2>1, <2>2
<1> QED  BY <1>2 DEF Climbs

-----------------------------------------------------------------------------
(* What is above a category, as a function of the table of parents.          *)

ParentsIn(par, S) == {par[x] : x \in S} \cap Categories

AboveIn(par, c) ==
  LET up[d \in 0..Cardinality(Categories)] ==
        IF d = 0 THEN {} ELSE up[d - 1] \cup ParentsIn(par, {c} \cup up[d - 1])
  IN  up[Cardinality(Categories)]

\* What is above a category is closed, and is the least such set.
LEMMA AboveFacts ==
  ASSUME NEW par, NEW c
  PROVE  /\ AboveIn(par, c) \in SUBSET Categories
         /\ ParentsIn(par, {c} \cup AboveIn(par, c)) \subseteq AboveIn(par, c)
         /\ \A T \in SUBSET Categories :
              ParentsIn(par, {c} \cup T) \subseteq T => AboveIn(par, c) \subseteq T
<1> DEFINE n == Cardinality(Categories)
           grow == [S \in SUBSET Categories |-> S \cup ParentsIn(par, {c} \cup S)]
           F(g) == [d \in 0..n |->
                      IF d = 0 THEN {} ELSE g[d-1] \cup ParentsIn(par, {c} \cup g[d-1])]
           f == CHOOSE g : g = F(g)
<1>1. AboveIn(par, c) = f[n]
  BY DEF AboveIn
<1>2. n \in Nat
  BY CategoriesAssumption, FS_CardinalityType
<1>3. Grows(grow)
  BY DEF Grows, ParentsIn
<1>4. PICK k : Climbs(k, {}, grow, n)
  BY <1>2, ClimbExists
<1>5. \A d \in 0..n : k[d] \in SUBSET Categories
  <2>1. Inside(Categories, grow)
    BY DEF Inside, ParentsIn
  <2>2. {} \in SUBSET Categories /\ {} \subseteq Categories /\ Categories \in SUBSET Categories
    OBVIOUS
  <2>3. \A d \in 0..n : k[d] \in SUBSET Categories /\ {} \subseteq k[d]
    <3> HIDE DEF n, grow
    <3> QED  BY <1>2, <1>3, <1>4, <2>1, <2>2, ClimbStays
  <2> QED  BY <2>3
<1>6. k = F(k)
  <2>1. k = [d \in 0..n |-> IF d = 0 THEN {} ELSE grow[k[d-1]]]
    BY <1>4 DEF Climbs
  <2>2. ASSUME NEW d \in 0..n, d # 0
        PROVE  grow[k[d-1]] = k[d-1] \cup ParentsIn(par, {c} \cup k[d-1])
    <3>1. d - 1 \in 0..n
      BY <1>2, <2>2
    <3> QED  BY <3>1, <1>5
  <2> HIDE DEF n, grow
  <2> QED  BY <2>1, <2>2
<1>7. f = F(f)
  <2> HIDE DEF F
  <2> QED  BY <1>6
<1>8. Climbs(f, {}, grow, n)
  <2> HIDE DEF f
  <2>1. f = [d \in 0..n |-> f[d]]
    BY <1>7
  <2>2. f[0] = {}
    BY <1>2, <1>7
  <2>3. ASSUME NEW d \in 1..n, f[d-1] \in SUBSET Categories
        PROVE  f[d] = grow[f[d-1]]
    <3>1. d \in 0..n /\ d # 0
      BY <1>2
    <3>2. f[d] = f[d-1] \cup ParentsIn(par, {c} \cup f[d-1])
      BY <3>1, <1>7
    <3> QED  BY <3>2, <2>3
  <2>4. {} \in SUBSET Categories
    OBVIOUS
  <2> HIDE DEF n, grow
  <2> QED  BY <1>2, <1>3, <2>1, <2>2, <2>3, <2>4, StepsClimb
<1> HIDE DEF f, F
<1>9. \A T \in SUBSET Categories : ParentsIn(par, {c} \cup T) \subseteq T => f[n] \subseteq T
  <2> SUFFICES ASSUME NEW T \in SUBSET Categories, ParentsIn(par, {c} \cup T) \subseteq T
               PROVE  f[n] \subseteq T
    OBVIOUS
  <2>1. Inside(T, grow)
    BY DEF Inside, ParentsIn
  <2>2. {} \in SUBSET Categories /\ {} \subseteq T /\ n \in 0..n
    BY <1>2
  <2>3. \A d \in 0..n : f[d] \in SUBSET T /\ {} \subseteq f[d]
    <3> HIDE DEF n, grow
    <3> QED  BY <1>2, <1>3, <1>8, <2>1, <2>2, ClimbStays
  <2> QED  BY <2>2, <2>3
<1>10. f[n] \in SUBSET Categories
  <2>1. ParentsIn(par, {c} \cup Categories) \subseteq Categories
    BY DEF ParentsIn
  <2> QED  BY <1>9, <2>1
<1>11. grow[f[n]] = f[n]
  <2>1. grow[f[n]] = f[n] \/ Cardinality(f[n]) >= Cardinality({}) + n
    <3>1. {} \in SUBSET Categories /\ n \in 0..n
      BY <1>2
    <3> HIDE DEF n, grow
    <3> QED  BY <1>2, <1>3, <1>8, <3>1, ClimbStops
  <2>2. CASE Cardinality(f[n]) >= Cardinality({}) + n
    <3>1. f[n] = Categories
      BY <2>2, <1>10, CategoriesAssumption, FS_Subset, FS_EmptySet, FS_CardinalityType
    <3>2. ParentsIn(par, {c} \cup Categories) \subseteq Categories
      BY DEF ParentsIn
    <3> QED  BY <3>1, <3>2
  <2> QED  BY <2>1, <2>2
<1>12. ParentsIn(par, {c} \cup f[n]) \subseteq f[n]
  BY <1>10, <1>11
<1> QED  BY <1>1, <1>9, <1>10, <1>12

\* In every part of a tree there is a category whose parent is outside it.
Treelike(par) == \A S \in SUBSET Categories : S # {} => \E x \in S : par[x] \notin S

NoLoop(par) == \A c \in Categories : c \notin AboveIn(par, c)

\* What is above a category is its parent and what is above that.
LEMMA AboveIsParentAndMore ==
  ASSUME NEW par, NEW c \in Categories
  PROVE  /\ par[c] \notin Categories => AboveIn(par, c) = {}
         /\ par[c] \in Categories =>
              /\ par[c] \in AboveIn(par, c)
              /\ AboveIn(par, c) \subseteq {par[c]} \cup AboveIn(par, par[c])
              /\ AboveIn(par, par[c]) \subseteq AboveIn(par, c)
<1>1. /\ AboveIn(par, c) \in SUBSET Categories
      /\ ParentsIn(par, {c} \cup AboveIn(par, c)) \subseteq AboveIn(par, c)
      /\ \A T \in SUBSET Categories :
           ParentsIn(par, {c} \cup T) \subseteq T => AboveIn(par, c) \subseteq T
  BY AboveFacts
<1>2. CASE par[c] \notin Categories
  <2>1. ParentsIn(par, {c} \cup {}) \subseteq {}
    BY <1>2 DEF ParentsIn
  <2> QED  BY <1>1, <1>2, <2>1
<1>3. CASE par[c] \in Categories
  <2> DEFINE p == par[c]
  <2>1. /\ AboveIn(par, p) \in SUBSET Categories
        /\ ParentsIn(par, {p} \cup AboveIn(par, p)) \subseteq AboveIn(par, p)
        /\ \A T \in SUBSET Categories :
             ParentsIn(par, {p} \cup T) \subseteq T => AboveIn(par, p) \subseteq T
    BY AboveFacts
  <2>2. p \in AboveIn(par, c)
    BY <1>1, <1>3 DEF ParentsIn
  <2>3. ParentsIn(par, {p} \cup AboveIn(par, c)) \subseteq AboveIn(par, c)
    BY <1>1, <2>2 DEF ParentsIn
  <2>4. AboveIn(par, p) \subseteq AboveIn(par, c)
    BY <1>1, <2>1, <2>3
  <2> DEFINE T == {p} \cup AboveIn(par, p)
  <2>5. T \in SUBSET Categories
    BY <1>3, <2>1
  <2>6. ParentsIn(par, {c} \cup T) \subseteq T
    BY <2>1 DEF ParentsIn
  <2>7. AboveIn(par, c) \subseteq T
    <3> HIDE DEF T
    <3> QED  BY <1>1, <2>5, <2>6
  <2> QED  BY <1>3, <2>2, <2>4, <2>7
<1> QED  BY <1>2, <1>3

\* Of the categories of a part without top, take one with least above it: its parent has less.
LEMMA NoLoopIsTree ==
  ASSUME NEW par, NoLoop(par)
  PROVE  Treelike(par)
<1> SUFFICES ASSUME NEW S \in SUBSET Categories, S # {}, \A x \in S : par[x] \in S
             PROVE  FALSE
  BY DEF Treelike
<1> DEFINE Aboves == {AboveIn(par, x) : x \in S}
<1>1. \A x \in S : AboveIn(par, x) \in SUBSET Categories
  BY AboveFacts
<1>2. IsWellFoundedOn(StrictSubsetOrdering(Categories), FiniteSubsetsOf(Categories))
  BY FS_StrictSubsetOrderingWellFounded
<1>3. Aboves \subseteq FiniteSubsetsOf(Categories)
  <2>1. \A x \in S : IsFiniteSet(AboveIn(par, x))
    BY <1>1, CategoriesAssumption, FS_Subset
  <2> QED  BY <1>1, <2>1 DEF FiniteSubsetsOf
<1>4. PICK A \in Aboves : \A B \in Aboves : ~(<<B, A>> \in StrictSubsetOrdering(Categories))
  <2>1. Aboves # {}
    OBVIOUS
  <2> HIDE DEF Aboves
  <2> QED  BY <1>2, <1>3, <2>1, WFMin
<1>5. PICK x \in S : A = AboveIn(par, x)
  BY <1>4
<1>6. par[x] \in S /\ par[x] \in Categories /\ x \in Categories
  OBVIOUS
<1>7. par[x] \in AboveIn(par, x) /\ AboveIn(par, par[x]) \subseteq AboveIn(par, x)
  BY <1>6, AboveIsParentAndMore
<1>8. par[x] \notin AboveIn(par, par[x])
  BY <1>6 DEF NoLoop
<1>9. <<AboveIn(par, par[x]), AboveIn(par, x)>> \in StrictSubsetOrdering(Categories)
  BY <1>1, <1>6, <1>7, <1>8 DEF StrictSubsetOrdering
<1> QED  BY <1>4, <1>5, <1>6, <1>9

\* A loop is a part without top.
LEMMA TreeHasNoLoop ==
  ASSUME NEW par, Treelike(par)
  PROVE  NoLoop(par)
<1> SUFFICES ASSUME NEW c \in Categories, c \in AboveIn(par, c) PROVE FALSE
  BY DEF NoLoop
<1> DEFINE S == {x \in AboveIn(par, c) : c \in AboveIn(par, x)}
<1>1. AboveIn(par, c) \in SUBSET Categories
  BY AboveFacts
<1>2. ParentsIn(par, {c} \cup AboveIn(par, c)) \subseteq AboveIn(par, c)
  BY AboveFacts
<1>3. S \in SUBSET Categories /\ S # {}
  BY <1>1
<1>4. PICK x \in S : par[x] \notin S
  <2> HIDE DEF S
  <2> QED  BY <1>3 DEF Treelike
<1>5. x \in Categories /\ x \in AboveIn(par, c) /\ c \in AboveIn(par, x)
  BY <1>1
<1>6. /\ par[x] \in Categories
      /\ AboveIn(par, x) \subseteq {par[x]} \cup AboveIn(par, par[x])
  BY <1>5, AboveIsParentAndMore
<1>7. par[x] \in AboveIn(par, c)
  BY <1>2, <1>5, <1>6 DEF ParentsIn
<1>8. CASE c = par[x]
  BY <1>4, <1>7, <1>8
<1>9. CASE c \in AboveIn(par, par[x])
  BY <1>4, <1>7, <1>9
<1> QED  BY <1>5, <1>6, <1>8, <1>9

-----------------------------------------------------------------------------
(* What the check climbs through.                                            *)

AncestorsIn(par, c) ==
  LET climbed[d \in 1..MaxDepth] ==
        IF d = 1 THEN {c} ELSE climbed[d - 1] \cup ParentsIn(par, climbed[d - 1])
  IN  climbed[MaxDepth] \ {c}

Climbed(par, c) == {c} \cup AncestorsIn(par, c)

\* The climb gets to the top when there is no more on its way than it has rows for.
LEMMA ClimbedFacts ==
  ASSUME NEW par, NEW c \in Categories
  PROVE  /\ Climbed(par, c) \in SUBSET Categories
         /\ \A A \in SUBSET Categories :
              c \in A /\ ParentsIn(par, A) \subseteq A /\ Cardinality(A) <= MaxDepth
                => ParentsIn(par, Climbed(par, c)) \subseteq Climbed(par, c)
<1> DEFINE n == MaxDepth - 1
           grow == [S \in SUBSET Categories |-> S \cup ParentsIn(par, S)]
           F(g) == [d \in 1..MaxDepth |->
                      IF d = 1 THEN {c} ELSE g[d-1] \cup ParentsIn(par, g[d-1])]
           up == CHOOSE g : g = F(g)
<1>1. AncestorsIn(par, c) = up[MaxDepth] \ {c}
  BY DEF AncestorsIn
<1>2. n \in Nat /\ MaxDepth \in Nat /\ MaxDepth = n + 1
  BY CategoriesAssumption
<1>3. Grows(grow)
  BY DEF Grows, ParentsIn
<1>4. PICK k : Climbs(k, {c}, grow, n)
  BY <1>2, ClimbExists
<1>5. Inside(Categories, grow) /\ {c} \in SUBSET Categories /\ Categories \in SUBSET Categories
  BY DEF Inside, ParentsIn
<1>6. \A d \in 0..n : k[d] \in SUBSET Categories
  <2>1. \A d \in 0..n : k[d] \in SUBSET Categories /\ {c} \subseteq k[d]
    <3> HIDE DEF n, grow
    <3> QED  BY <1>2, <1>3, <1>4, <1>5, ClimbStays
  <2> QED  BY <2>1
<1> DEFINE h == [d \in 1..MaxDepth |-> k[d-1]]
<1>7. h = F(h)
  <2>1. \A d \in 0..n : k[d] = IF d = 0 THEN {c} ELSE grow[k[d-1]]
    BY <1>4 DEF Climbs
  <2>2. ASSUME NEW d \in 1..MaxDepth
        PROVE  h[d] = IF d = 1 THEN {c} ELSE h[d-1] \cup ParentsIn(par, h[d-1])
    <3>1. d - 1 \in 0..n
      BY <1>2
    <3>2. CASE d = 1
      <4>1. h[d] = k[d-1] /\ d - 1 = 0
        BY <3>2
      <4> HIDE DEF h, grow
      <4> QED  BY <2>1, <3>1, <3>2, <4>1
    <3>3. CASE d # 1
      <4>1. d - 1 \in 1..MaxDepth /\ d - 1 # 0 /\ (d - 1) - 1 \in 0..n
        BY <1>2, <3>3
      <4>2. h[d] = grow[k[(d-1)-1]] /\ h[d-1] = k[(d-1)-1]
        BY <2>1, <3>1, <4>1
      <4>3. grow[k[(d-1)-1]] = k[(d-1)-1] \cup ParentsIn(par, k[(d-1)-1])
        BY <4>1, <1>6
      <4> HIDE DEF h, grow
      <4> QED  BY <4>2, <4>3, <3>3
    <3> QED  BY <3>2, <3>3
  <2>3. h = [d \in 1..MaxDepth |-> h[d]]
    OBVIOUS
  <2> HIDE DEF h
  <2> QED  BY <2>2, <2>3
<1>8. up = F(up)
  <2> HIDE DEF F, h
  <2> QED  BY <1>7
<1> HIDE DEF up
<1> DEFINE f == [d \in 0..n |-> up[d+1]]
<1>9. f[0] = {c}
  <2>1. 0 \in 0..n /\ 1 \in 1..MaxDepth /\ 0 + 1 = 1
    BY <1>2
  <2>2. up[1] = {c}
    BY <1>8, <2>1
  <2>3. f[0] = up[0 + 1]
    BY <2>1
  <2> HIDE DEF f
  <2> QED  BY <2>1, <2>2, <2>3
<1>10. ASSUME NEW d \in 1..n, f[d-1] \in SUBSET Categories
       PROVE  f[d] = grow[f[d-1]]
  <2>1. d \in 0..n /\ d - 1 \in 0..n /\ (d - 1) + 1 = d
    BY <1>2
  <2>2. f[d] = up[d+1] /\ f[d-1] = up[d]
    BY <2>1
  <2>3. d + 1 \in 1..MaxDepth /\ d + 1 # 1 /\ (d + 1) - 1 = d
    BY <1>2
  <2>4. up[d+1] = up[d] \cup ParentsIn(par, up[d])
    BY <1>8, <2>3
  <2>5. grow[f[d-1]] = f[d-1] \cup ParentsIn(par, f[d-1])
    BY <1>10
  <2> HIDE DEF f, grow
  <2> QED  BY <2>2, <2>4, <2>5
<1>11. f = [d \in 0..n |-> f[d]]
  OBVIOUS
<1>12. f[n] = up[MaxDepth]
  BY <1>2
<1> HIDE DEF f
<1>13. Climbs(f, {c}, grow, n)
  <2> HIDE DEF n, grow
  <2> QED  BY <1>2, <1>3, <1>5, <1>9, <1>10, <1>11, StepsClimb
<1>14. f[n] \in SUBSET Categories /\ {c} \subseteq f[n]
  <2>1. \A d \in 0..n : f[d] \in SUBSET Categories /\ {c} \subseteq f[d]
    <3> HIDE DEF n, grow
    <3> QED  BY <1>2, <1>3, <1>13, <1>5, ClimbStays
  <2> QED  BY <2>1, <1>2
<1>15. Climbed(par, c) = f[n]
  BY <1>1, <1>12, <1>14 DEF Climbed
<1>16. ASSUME NEW A \in SUBSET Categories, c \in A, ParentsIn(par, A) \subseteq A,
              Cardinality(A) <= MaxDepth
       PROVE  ParentsIn(par, f[n]) \subseteq f[n]
  <2>1. grow[f[n]] = f[n] \/ Cardinality(f[n]) >= Cardinality({c}) + n
    <3>1. n \in 0..n
      BY <1>2
    <3> HIDE DEF n, grow
    <3> QED  BY <1>2, <1>3, <1>5, <1>13, <3>1, ClimbStops
  <2>2. f[n] \in SUBSET A
    <3>1. Inside(A, grow)
      BY <1>16 DEF Inside, ParentsIn
    <3>2. {c} \subseteq A
      BY <1>16
    <3>3. \A d \in 0..n : f[d] \in SUBSET A /\ {c} \subseteq f[d]
      <4> HIDE DEF n, grow
      <4> QED  BY <1>2, <1>3, <1>5, <1>13, <3>1, <3>2, ClimbStays
    <3> QED  BY <3>3, <1>2
  <2>3. CASE grow[f[n]] = f[n]
    BY <1>14, <2>3
  <2>4. CASE Cardinality(f[n]) >= Cardinality({c}) + n
    <3>1. Cardinality({c}) = 1
      BY FS_Singleton
    <3>2. IsFiniteSet(A)
      BY CategoriesAssumption, FS_Subset
    <3>3. f[n] = A
      BY <1>2, <1>16, <2>2, <2>4, <3>1, <3>2, FS_Subset, FS_CardinalityType
    <3> QED  BY <3>3, <1>16
  <2> QED  BY <2>1, <2>3, <2>4
<1> QED  BY <1>14, <1>15, <1>16

-----------------------------------------------------------------------------
(* Moves.  What a request carries was read of categories that exist, and is  *)
(* a move its check let through.                                             *)

\* The kinds of values, what exists, and what a pending move has been checked for.
TreeInvariant ==
  /\ TreeTypeOK
  /\ \A c \in Categories : parent[c] \in Categories => Exists(parent[c])
  /\ \A s \in Staff : mover[s] # NoMove =>
       /\ Exists(mover[s].to)
       /\ mover[s].category # mover[s].to
       /\ mover[s].category \notin mover[s].above

\* The parents after a move, a creation or a promotion.
Moved(par, c, p) == [par EXCEPT ![c] = p]

\* A category that is nobody's parent, and is not its own new parent, is no part of a loop.
LEMMA NewLeaf ==
  ASSUME NEW par \in [Categories -> Categories \cup {Top, Absent}], Treelike(par),
         NEW c \in Categories, NEW p, p # c, \A x \in Categories : par[x] # c
  PROVE  Treelike(Moved(par, c, p))
<1> SUFFICES ASSUME NEW S \in SUBSET Categories, S # {}
             PROVE  \E x \in S : Moved(par, c, p)[x] \notin S
  BY DEF Treelike
<1>1. CASE S = {c}
  BY <1>1 DEF Moved
<1>2. CASE S # {c}
  <2>1. S \ {c} \in SUBSET Categories /\ S \ {c} # {}
    BY <1>2
  <2>2. PICK x \in S \ {c} : par[x] \notin S \ {c}
    BY <2>1 DEF Treelike
  <2>3. x \in S /\ Moved(par, c, p)[x] = par[x] /\ par[x] # c
    BY <2>1, <2>2 DEF Moved
  <2> QED  BY <2>2, <2>3
<1> QED  BY <1>1, <1>2

\* A move under a closed set of categories that does not hold the one moved makes no loop.
LEMMA MoveKeepsTree ==
  ASSUME NEW par \in [Categories -> Categories \cup {Top, Absent}], Treelike(par),
         NEW c \in Categories, NEW A \in SUBSET Categories, ParentsIn(par, A) \subseteq A,
         c \notin A, NEW p, p \in A \/ p \notin Categories
  PROVE  Treelike(Moved(par, c, p))
<1> SUFFICES ASSUME NEW S \in SUBSET Categories, S # {}
             PROVE  \E x \in S : Moved(par, c, p)[x] \notin S
  BY DEF Treelike
<1>1. CASE S \cap A # {}
  <2>1. PICK x \in S \cap A : par[x] \notin S \cap A
    BY <1>1 DEF Treelike
  <2>2. par[x] \in Categories => par[x] \in A
    BY DEF ParentsIn
  <2>3. Moved(par, c, p)[x] = par[x]
    BY DEF Moved
  <2> QED  BY <2>1, <2>2, <2>3
<1>2. CASE S \cap A = {} /\ c \in S
  BY <1>2 DEF Moved
<1>3. CASE c \notin S
  <2>1. PICK x \in S : par[x] \notin S
    BY DEF Treelike
  <2> QED  BY <1>3, <2>1 DEF Moved
<1> QED  BY <1>1, <1>2, <1>3

LEMMA AncestorsAre ==
  ASSUME NEW c
  PROVE  Ancestors(c) = AncestorsIn(parent, c)
BY DEF Ancestors, AncestorsIn, Parents, ParentsIn

LEMMA AcyclicIsTree == Acyclic <=> Treelike(parent)
<1>1. \A c \in Categories : Above(c) = AboveIn(parent, c)
  BY DEF Above, AboveIn, Parents, ParentsIn
<1>2. Acyclic <=> NoLoop(parent)
  BY <1>1 DEF Acyclic, NoLoop
<1> QED  BY <1>2, NoLoopIsTree, TreeHasNoLoop

LEMMA AcyclicIsTreeNext == Acyclic' <=> Treelike(parent')
<1>1. \A c \in Categories : Above(c)' = AboveIn(parent', c)
  BY DEF Above, AboveIn, Parents, ParentsIn
<1>2. Acyclic' <=> NoLoop(parent')
  BY <1>1 DEF Acyclic, NoLoop
<1> QED  BY <1>2, NoLoopIsTree, TreeHasNoLoop

LEMMA ReadMoves ==
  ASSUME TreeTypeOK, NEW s \in Staff, mover[s] # NoMove
  PROVE  mover[s] \in Move /\ mover[s].category \in Categories /\ mover[s].to \in Categories
         /\ mover[s].above \in SUBSET Categories
BY DEF TreeTypeOK, Move

LEMMA TreeInvariantStarts == TreeInit => TreeInvariant
BY CategoriesAssumption DEF TreeInit, EmptyTree, TreeInvariant, TreeTypeOK, NoMove

LEMMA TreeInvariantKept ==
  ASSUME TreeInvariant, [TreeNext]_treeVars
  PROVE  TreeInvariant'
<1> USE DEF TreeInvariant
<1>1. TreeTypeOK
  OBVIOUS
<1>2. ASSUME NEW c \in Categories, NEW p \in Categories \cup {Top}, CreateCategory(c, p)
      PROVE  TreeInvariant'
  <2>1. TreeTypeOK'
    BY <1>2 DEF TreeTypeOK, CreateCategory
  <2>2. ASSUME NEW x \in Categories, parent'[x] \in Categories
        PROVE  parent'[parent'[x]] # Absent
    BY <1>2, <2>2, CategoriesAssumption DEF TreeTypeOK, CreateCategory, Exists
  <2>3. ASSUME NEW s \in Staff, mover'[s] # NoMove
        PROVE  parent'[mover'[s].to] # Absent
    BY <1>2, <2>3, CategoriesAssumption, ReadMoves DEF TreeTypeOK, CreateCategory, Exists
  <2> QED  BY <1>2, <2>1, <2>2, <2>3 DEF CreateCategory, Exists
<1>3. ASSUME NEW c \in Categories, MoveToTop(c)
      PROVE  TreeInvariant'
  <2>1. TreeTypeOK'
    BY <1>3 DEF TreeTypeOK, MoveToTop
  <2>2. ASSUME NEW x \in Categories, parent'[x] \in Categories
        PROVE  parent'[parent'[x]] # Absent
    BY <1>3, <2>2, CategoriesAssumption DEF TreeTypeOK, MoveToTop, Exists
  <2>3. ASSUME NEW s \in Staff, mover'[s] # NoMove
        PROVE  parent'[mover'[s].to] # Absent
    BY <1>3, <2>3, CategoriesAssumption, ReadMoves DEF TreeTypeOK, MoveToTop, Exists
  <2> QED  BY <1>3, <2>1, <2>2, <2>3 DEF MoveToTop, Exists
<1>4. ASSUME NEW c \in Categories, NEW on \in BOOLEAN, SetActive(c, on)
      PROVE  TreeInvariant'
  BY <1>4 DEF TreeTypeOK, SetActive, Exists
<1>5. ASSUME NEW s \in Staff, NEW c \in Categories, NEW p \in Categories, CheckMove(s, c, p)
      PROVE  TreeInvariant'
  <2> DEFINE m == [category |-> c, to |-> p, above |-> Ancestors(p)]
  <2>1. p # c /\ c \notin Ancestors(p) /\ Exists(p)
    BY <1>5 DEF CheckMove, MayMove
  <2>2. Ancestors(p) \in SUBSET Categories
    BY AncestorsAre, ClimbedFacts DEF Climbed
  <2>3. m \in Move /\ m.category = c /\ m.to = p /\ m.above = Ancestors(p)
    BY <2>2 DEF Move
  <2>4. mover' = [mover EXCEPT ![s] = m] /\ parent' = parent /\ active' = active
    BY <1>5 DEF CheckMove
  <2> HIDE DEF m
  <2>5. TreeTypeOK'
    BY <2>3, <2>4 DEF TreeTypeOK
  <2>6. ASSUME NEW r \in Staff, mover'[r] # NoMove
        PROVE  /\ parent'[mover'[r].to] # Absent
               /\ mover'[r].category # mover'[r].to
               /\ mover'[r].category \notin mover'[r].above
    <3>1. CASE r = s
      <4>1. mover'[r] = m
        BY <2>4, <3>1 DEF TreeTypeOK
      <4> QED  BY <2>1, <2>3, <2>4, <4>1 DEF Exists
    <3>2. CASE r # s
      <4>1. mover'[r] = mover[r]
        BY <2>4, <3>2 DEF TreeTypeOK
      <4> QED  BY <2>4, <2>6, <4>1 DEF Exists
    <3> QED  BY <3>1, <3>2
  <2> QED  BY <2>4, <2>5, <2>6 DEF Exists
<1>6. ASSUME NEW s \in Staff, WriteMove(s)
      PROVE  TreeInvariant'
  <2>1. mover[s] # NoMove /\ mover[s].category \in Categories /\ mover[s].to \in Categories
    BY <1>6, ReadMoves DEF WriteMove
  <2>2. Exists(mover[s].to)
    BY <2>1
  <2>3. TreeTypeOK'
    BY <1>6, <2>1 DEF TreeTypeOK, WriteMove
  <2>4. \A x \in Categories : Exists(x) => parent'[x] # Absent
    BY <1>6, <2>1, CategoriesAssumption DEF TreeTypeOK, WriteMove, Exists
  <2>5. ASSUME NEW x \in Categories, parent'[x] \in Categories
        PROVE  parent'[parent'[x]] # Absent
    <3>1. parent'[x] = mover[s].to \/ parent'[x] = parent[x]
      BY <1>6, <2>1 DEF TreeTypeOK, WriteMove
    <3>2. Exists(parent'[x])
      BY <3>1, <2>2, <2>5
    <3> QED  BY <3>2, <2>4, <2>5 DEF Exists
  <2>6. ASSUME NEW r \in Staff, mover'[r] # NoMove
        PROVE  /\ parent'[mover'[r].to] # Absent
               /\ mover'[r].category # mover'[r].to
               /\ mover'[r].category \notin mover'[r].above
    <3>1. mover'[r] = mover[r]
      BY <1>6, <2>6 DEF TreeTypeOK, WriteMove
    <3>2. mover[r].to \in Categories
      BY <2>6, <3>1, ReadMoves
    <3> QED  BY <2>4, <2>6, <3>1, <3>2 DEF Exists
  <2> QED  BY <2>3, <2>5, <2>6 DEF Exists
<1>7. ASSUME NEW s \in Staff, DropMove(s)
      PROVE  TreeInvariant'
  <2>1. TreeTypeOK'
    BY <1>7 DEF TreeTypeOK, DropMove
  <2>2. ASSUME NEW r \in Staff, mover'[r] # NoMove
        PROVE  mover'[r] = mover[r]
    BY <1>7, <2>2 DEF TreeTypeOK, DropMove
  <2> QED  BY <1>7, <2>1, <2>2 DEF DropMove, Exists
<1>8. CASE UNCHANGED treeVars
  BY <1>8 DEF treeVars, TreeTypeOK, Exists
<1> QED  BY <1>2, <1>3, <1>4, <1>5, <1>6, <1>7, <1>8 DEF TreeNext

\* Who writes or gives up its move in this step read what still holds, and climbed to the top.
CheckedMoves ==
  \A s \in Staff : mover[s] # NoMove /\ mover'[s] # mover[s] => ReadStillHolds(s) /\ InReach(s)

\* In a tree, what is read from a parent in reach of the climb is all there is above it.
LEMMA ReachesTheTop ==
  ASSUME Acyclic, NEW p \in Categories, Cardinality(Above(p)) < MaxDepth
  PROVE  ParentsIn(parent, {p} \cup Ancestors(p)) \subseteq {p} \cup Ancestors(p)
<1> DEFINE A == {p} \cup Above(p)
<1>1. Above(p) = AboveIn(parent, p)
  BY DEF Above, AboveIn, Parents, ParentsIn
<1>2. Above(p) \in SUBSET Categories /\ p \notin Above(p)
  BY <1>1, AboveFacts DEF Acyclic
<1>3. ParentsIn(parent, A) \subseteq A
  BY <1>1, AboveFacts
<1>4. Cardinality(A) <= MaxDepth
  <2>1. IsFiniteSet(Above(p))
    BY <1>2, CategoriesAssumption, FS_Subset
  <2>2. Cardinality(A) = Cardinality(Above(p)) + 1 /\ Cardinality(Above(p)) \in Nat
    BY <1>2, <2>1, FS_AddElement, FS_CardinalityType
  <2> QED  BY <2>2, CategoriesAssumption
<1>5. A \in SUBSET Categories /\ p \in A
  BY <1>2
<1>6. Climbed(parent, p) = {p} \cup Ancestors(p)
  BY AncestorsAre DEF Climbed
<1> HIDE DEF A
<1> QED  BY <1>3, <1>4, <1>5, <1>6, ClimbedFacts

\* A step leaves a tree a tree if the move it writes was checked to the top, whatever the
\* other requests have read.
LEMMA StepKeepsTree ==
  ASSUME TreeInvariant, [TreeNext]_treeVars, CheckedMoves, Acyclic
  PROVE  Acyclic'
<1>1. Treelike(parent) /\ parent \in [Categories -> Categories \cup {Top, Absent}]
  BY AcyclicIsTree DEF TreeInvariant, TreeTypeOK
<1>2. SUFFICES Treelike(parent')
  BY AcyclicIsTreeNext
<1>3. ASSUME NEW c \in Categories, NEW p \in Categories \cup {Top}, CreateCategory(c, p)
      PROVE  Treelike(parent')
  <2>1. parent' = Moved(parent, c, p)
    BY <1>3 DEF CreateCategory, Moved
  <2>2. p # c
    BY <1>3, CategoriesAssumption DEF CreateCategory
  <2>3. \A x \in Categories : parent[x] # c
    BY <1>3 DEF CreateCategory, TreeInvariant
  <2> QED  BY <1>1, <2>1, <2>2, <2>3, NewLeaf
<1>4. ASSUME NEW c \in Categories, MoveToTop(c)
      PROVE  Treelike(parent')
  <2>1. parent' = Moved(parent, c, Top)
    BY <1>4 DEF MoveToTop, Moved
  <2>2. {} \in SUBSET Categories /\ ParentsIn(parent, {}) \subseteq {} /\ c \notin {}
    BY DEF ParentsIn
  <2>3. Top \in {} \/ Top \notin Categories
    BY CategoriesAssumption
  <2> QED  BY <1>1, <2>1, <2>2, <2>3, MoveKeepsTree
<1>5. ASSUME NEW s \in Staff, WriteMove(s)
      PROVE  Treelike(parent')
  <2> DEFINE c == mover[s].category
             p == mover[s].to
             A == {p} \cup Ancestors(p)
  <2>1. mover[s] # NoMove /\ c \in Categories /\ p \in Categories
    BY <1>5, ReadMoves DEF WriteMove, TreeInvariant
  <2>2. parent' = Moved(parent, c, p)
    BY <1>5 DEF WriteMove, Moved
  <2>3. mover'[s] # mover[s]
    BY <1>5, <2>1 DEF WriteMove, TreeInvariant, TreeTypeOK
  <2>4. mover[s].above = Ancestors(p) /\ Cardinality(Above(p)) < MaxDepth
    BY <2>1, <2>3 DEF CheckedMoves, ReadStillHolds, InReach
  <2>5. c # p /\ c \notin Ancestors(p)
    BY <2>1, <2>4 DEF TreeInvariant
  <2>6. A \in SUBSET Categories
    BY <2>1, AncestorsAre, ClimbedFacts DEF Climbed
  <2>7. ParentsIn(parent, A) \subseteq A
    BY <2>1, <2>4, ReachesTheTop
  <2>8. p \in A /\ c \notin A
    BY <2>5
  <2> HIDE DEF A, c, p
  <2> QED  BY <1>1, <2>1, <2>2, <2>6, <2>7, <2>8, MoveKeepsTree
<1>6. CASE UNCHANGED parent
  BY <1>1, <1>6
<1> QED  BY <1>3, <1>4, <1>5, <1>6
         DEF TreeNext, treeVars, SetActive, CheckMove, DropMove

\* What a pending move was checked for stays true of it: it is not of a category to be put
\* under itself, nor under one of those read above the new parent, and its parent exists.
THEOREM CategoriesInvariant == TreeSpec => []TreeInvariant
<1> QED  BY TreeInvariantStarts, TreeInvariantKept, PTL DEF TreeSpec

\* A move of which the readings still hold when it is written, and whose new parent is in reach
\* of the climb, never puts a category above itself: for any number of categories and any depth
\* of the climb, and whatever the other requests have read.
THEOREM MovesAreAlwaysChecked == TreeSpec => MovesAreChecked
<1>1. TreeInvariant /\ [TreeNext]_treeVars
        => [Acyclic /\ CheckedMoves => Acyclic']_treeVars
  BY StepKeepsTree
<1>2. TreeInvariant /\ [TreeNext]_treeVars
        => [(/\ Acyclic
             /\ \A s \in Staff : mover[s] # NoMove /\ mover'[s] # mover[s]
                                  => ReadStillHolds(s) /\ InReach(s))
            => Acyclic']_treeVars
  BY <1>1 DEF CheckedMoves
<1> QED  BY <1>2, CategoriesInvariant, PTL DEF TreeSpec, MovesAreChecked
-----------------------------------------------------------------------------
\* The categories and the images are looked after as if each were alone.
THEOREM ListingIsBoth == LSpec => TreeSpec /\ GallerySpec
<1>1. LInit => TreeInit /\ GalleryInit
  BY DEF LInit
<1>2. [LNext]_<<treeVars, galleryVars>> => [TreeNext]_treeVars /\ [GalleryNext]_galleryVars
  BY DEF LNext
<1> QED  BY <1>1, <1>2, PTL DEF LSpec, TreeSpec, GallerySpec
=============================================================================
