--------------------------- MODULE ClosingProofs ---------------------------
(***************************************************************************)
(* The decision of an auction is safe for any number of closers, auctions, *)
(* users and bids.  The argument: what a decision is made of (the bids,    *)
(* the status, what was paid, the unit) no longer moves once an auction is *)
(* being decided or is over, so every attempt would decide the same, and a *)
(* stored result can be computed again for ever.                           *)
(***************************************************************************)
EXTENDS Jobs, AuctionLifecycleProofs, SequenceTheorems, WellFoundedInduction

-----------------------------------------------------------------------------
(* The rule LUB_V1, for every finite set of bids.  The query groups, filters and sorts;  *)
(* this finds the lowest unique amount.                                                  *)

Bids(B) == IsFiniteSet(B) /\ \A b \in B : b.amount \in Int

\* A finite set of integers has a least element: among its initial segments,
\* ordered by strict inclusion, there is a minimal one.
LEMMA LeastExists ==
  ASSUME NEW S, S \subseteq Int, IsFiniteSet(S), S # {}
  PROVE  \E m \in S : \A n \in S : m <= n
<1> DEFINE Below(k) == {n \in S : n <= k}
<1> DEFINE Belows   == {Below(k) : k \in S}
<1>1. IsWellFoundedOn(StrictSubsetOrdering(S), FiniteSubsetsOf(S))
  BY FS_StrictSubsetOrderingWellFounded
<1>2. Belows \subseteq FiniteSubsetsOf(S)
  <2>1. \A k \in S : Below(k) \in SUBSET S
    OBVIOUS
  <2>2. \A k \in S : IsFiniteSet(Below(k))
    BY <2>1, FS_Subset
  <2> QED  BY <2>1, <2>2 DEF FiniteSubsetsOf
<1>3. Belows # {}
  OBVIOUS
<1>4. PICK T \in Belows : \A U \in Belows : ~(<<U, T>> \in StrictSubsetOrdering(S))
  <2> HIDE DEF Belows
  <2> QED  BY <1>1, <1>2, <1>3, WFMin
<1>5. PICK m \in S : T = Below(m)
  BY <1>4
<1>6. ASSUME NEW n \in S, n < m
      PROVE  FALSE
  <2>1. m \in Int /\ n \in Int /\ \A k \in S : k \in Int
    OBVIOUS
  <2>2. /\ \A k \in S : k <= n => k <= m
        /\ ~(m <= n) /\ m <= m
    BY <1>6, <2>1
  <2>3. Below(n) \subseteq Below(m) /\ m \notin Below(n) /\ m \in Below(m)
    BY <2>2
  <2>4. <<Below(n), Below(m)>> \in StrictSubsetOrdering(S)
    BY <2>3 DEF StrictSubsetOrdering
  <2> QED  BY <1>4, <1>5, <1>6, <2>4
<1>7. m \in Int /\ \A n \in S : n \in Int
  OBVIOUS
<1> QED  BY <1>6, <1>7

\* An amount is unique when one bid, and no other, was placed at it.
LEMMA UniqueIsAlone ==
  ASSUME NEW B, Bids(B), NEW b \in B
  PROVE  b.amount \in UniqueAmounts(B) <=> \A d \in B : d.amount = b.amount => d = b
<1> DEFINE m == b.amount
<1>1. b \in At(B, m) /\ At(B, m) \in SUBSET B
  BY DEF At
<1>2. IsFiniteSet(At(B, m))
  BY <1>1, FS_Subset DEF Bids
<1>3. Cardinality(At(B, m)) = 1 <=> \E x : At(B, m) = {x}
  BY <1>2, FS_Singleton
<1>4. (\E x : At(B, m) = {x}) <=> \A d \in At(B, m) : d = b
  BY <1>1
<1>5. m \in Amounts(B)
  BY DEF Amounts
<1> QED  BY <1>3, <1>4, <1>5 DEF UniqueAmounts, At

\* The amounts of a finite set of bids are finitely many.
LEMMA AmountsAreFinite ==
  ASSUME NEW B, Bids(B)
  PROVE  /\ IsFiniteSet(Amounts(B)) /\ Amounts(B) \subseteq Int
         /\ IsFiniteSet(UniqueAmounts(B)) /\ UniqueAmounts(B) \subseteq Int
<1> DEFINE f == [b \in B |-> b.amount]
<1>1. f \in Surjection(B, Amounts(B))
  BY DEF Surjection, Amounts
<1>2. IsFiniteSet(Amounts(B))
  BY <1>1, FS_Surjection DEF Bids
<1>3. Amounts(B) \subseteq Int
  BY DEF Amounts, Bids
<1>4. UniqueAmounts(B) \in SUBSET Amounts(B)
  BY DEF UniqueAmounts
<1> QED  BY <1>2, <1>3, <1>4, FS_Subset

\* LUB_V1 does what docs/results.md tells bidders: it finds at most one bid, that
\* one is alone at its amount and no lower amount has a lone bid, and it finds none
\* only if nobody is alone.
THEOREM DecidesByTheRule ==
  ASSUME NEW B, Bids(B)
  PROVE  /\ \A v, w \in Winner(B) : v = w
         /\ \A w \in Winner(B) : \A d \in B : d.amount = w.amount => d = w
         /\ \A w \in Winner(B) : \A b \in B :
              b.amount < w.amount => \E d \in B : d # b /\ d.amount = b.amount
         /\ Winner(B) = {} => \A b \in B : \E d \in B : d # b /\ d.amount = b.amount
<1>1. ASSUME NEW w \in Winner(B)
      PROVE  /\ w \in B /\ w.amount \in UniqueAmounts(B)
             /\ \A n \in UniqueAmounts(B) : w.amount <= n
  BY <1>1 DEF Winner, LowestUnique
<1>2. ASSUME NEW v \in Winner(B), NEW w \in Winner(B)
      PROVE  v = w
  <2>1. v.amount \in Int /\ w.amount \in Int
    BY <1>1 DEF Bids
  <2>2. v.amount <= w.amount /\ w.amount <= v.amount
    BY <1>1
  <2>3. v.amount = w.amount
    BY <2>1, <2>2
  <2> QED  BY <1>1, <2>3, UniqueIsAlone
<1>3. ASSUME NEW w \in Winner(B), NEW d \in B, d.amount = w.amount
      PROVE  d = w
  BY <1>1, <1>3, UniqueIsAlone
<1>4. ASSUME NEW w \in Winner(B), NEW b \in B, b.amount < w.amount
      PROVE  \E d \in B : d # b /\ d.amount = b.amount
  <2>1. w.amount \in Int /\ b.amount \in Int
    BY <1>1 DEF Bids
  <2>2. b.amount \notin UniqueAmounts(B)
    BY <1>1, <1>4, <2>1
  <2> QED  BY <2>2, UniqueIsAlone
<1>5. ASSUME Winner(B) = {}, NEW b \in B
      PROVE  \E d \in B : d # b /\ d.amount = b.amount
  <2>1. UniqueAmounts(B) = {}
    <3> SUFFICES ASSUME UniqueAmounts(B) # {}
                 PROVE  FALSE
      OBVIOUS
    <3>1. PICK m \in UniqueAmounts(B) : \A n \in UniqueAmounts(B) : m <= n
      BY AmountsAreFinite, LeastExists
    <3>2. PICK w \in B : w.amount = m
      BY <3>1 DEF UniqueAmounts, Amounts
    <3>3. w \in Winner(B)
      BY <3>1, <3>2 DEF Winner, LowestUnique
    <3> QED  BY <1>5, <3>3
  <2> QED  BY <2>1, UniqueIsAlone
<1> QED  BY <1>2, <1>3, <1>4, <1>5

\* The counts that are published with a result are natural numbers.
LEMMA StatisticsAreCounts ==
  ASSUME NEW B, Bids(B)
  PROVE  Statistics(B) \in [bids : Nat, participants : Nat, unique : Nat]
<1>1. Cardinality(B) \in Nat /\ Cardinality(UniqueAmounts(B)) \in Nat
  BY AmountsAreFinite, FS_CardinalityType DEF Bids
<1>2. [b \in B |-> b.user] \in Surjection(B, Bidders(B))
  BY DEF Surjection, Bidders
<1>3. Cardinality(Bidders(B)) \in Nat
  BY <1>2, FS_Surjection, FS_CardinalityType DEF Bids
<1> QED  BY <1>1, <1>3 DEF Statistics

-----------------------------------------------------------------------------
(* The invariant. *)

\* An auction that nobody can bid on any more, nor cancel.
Past == {"calculating", "completed", "cancelled"}

Owed(a, r) == {[auction |-> a, user |-> w.user, amount |-> w.amount] : w \in r.winner}

BookInv == IInv /\ BookTypeOK /\ IsFiniteSet(bids)

\* A result is what would be decided now; the order and the unit go with it.
OutcomeInv ==
  /\ results \subseteq Result /\ orders \subseteq Order
  /\ \A r \in results : r = Decision(r.auction) /\ status[r.auction] \in Terminal
  /\ \A a \in Auctions :
       /\ status[a] = "completed" => ResultOf(a) # {}
       /\ ResultOf(a) = {} => OrderOf(a) = {}
       /\ \A r \in ResultOf(a) : OrderOf(a) = Owed(a, r) /\ (r.outcome = "winner" <=> hold[a] = "held")

\* What a closer has read and relies on.
Relies(k) ==
  /\ k.at # "idle" => k.auction \in Auctions /\ status[k.auction] \in Past
  /\ k.at \in {"list", "refund"} => \E r \in ResultOf(k.auction) : Owes(r)
  /\ k.at = "refund" => k.todo # {} /\ k.todo \subseteq Payers(k.auction)

\* Nobody decides an auction that is not past, or returns fees that are not owed.
CloserInv ==
  /\ closer \in [Closers -> Closer]
  /\ \A c \in Closers : Relies(closer[c])

FeeInv == refunds \in [Auctions -> [Users -> Seq(Entry)]] /\ FeesAreReturnedOnce

KInv == BookInv /\ OutcomeInv /\ CloserInv /\ FeeInv

-----------------------------------------------------------------------------
(* Decisions. *)

LEMMA BidsAreBids ==
  ASSUME BookInv, NEW a \in Auctions
  PROVE  BidsIn(a) \subseteq Bid /\ Bids(BidsIn(a))
<1>1. BidsIn(a) \in SUBSET bids
  BY DEF BidsIn
<1>2. IsFiniteSet(BidsIn(a))
  BY <1>1, FS_Subset DEF BookInv
<1>3. \A b \in Bid : b.amount \in Int
  <2>1. \A b \in Bid : b.amount \in Ladder
    BY DEF Bid
  <2>2. \A m \in Ladder : m \in Int
    BY BookAssumption
  <2> QED  BY <2>1, <2>2
<1>4. BidsIn(a) \subseteq Bid
  BY <1>1 DEF BookInv, BookTypeOK
<1> QED  BY <1>2, <1>3, <1>4 DEF Bids

\* Everything that can be said of a decision without looking at the rule.
LEMMA DecisionFacts ==
  ASSUME BookInv, NEW a \in Auctions
  PROVE  /\ Decision(a) \in Result
         /\ Decision(a).auction = a /\ Decision(a).frozen = BidsIn(a)
         /\ Decision(a).counts = Statistics(BidsIn(a))
         /\ Decision(a).outcome = "cancelled" <=> status[a] = "cancelled"
         /\ Decision(a).outcome = "winner" <=> Decision(a).winner # {}
         /\ Decision(a).winner = IF status[a] = "cancelled" THEN {} ELSE Winner(BidsIn(a))
<1> DEFINE w == IF status[a] = "cancelled" THEN {} ELSE Winner(BidsIn(a))
<1>1. Decision(a) = Computed(a, w, Outcome(a, w))
  BY DEF Decision
<1>2. /\ Outcome(a, w) \in {"winner", "no_unique_bid", "no_bids", "cancelled"}
      /\ Outcome(a, w) = "cancelled" <=> status[a] = "cancelled"
      /\ Outcome(a, w) = "winner" <=> w # {}
  BY DEF Outcome
<1>3. w \in SUBSET Bid /\ BidsIn(a) \in SUBSET Bid
  BY BidsAreBids DEF Winner
<1>4. Statistics(BidsIn(a)) \in Counts
  BY BidsAreBids, StatisticsAreCounts DEF Counts
<1> HIDE DEF w
<1>5. Computed(a, w, Outcome(a, w)) \in Result
  BY <1>2, <1>3, <1>4 DEF Computed, FrozenBids, Result
<1> QED  BY <1>1, <1>2, <1>5 DEF Computed, FrozenBids, w

\* A decision depends on the bids, and on whether the auction was cancelled.
LEMMA SameDecision ==
  ASSUME NEW a \in Auctions, BidsIn(a)' = BidsIn(a), status'[a] = "cancelled" <=> status[a] = "cancelled"
  PROVE  Decision(a)' = Decision(a)
BY DEF Decision, Computed, FrozenBids, Outcome

\* There is at most one result of an auction.
LEMMA OneResult ==
  ASSUME OutcomeInv, NEW a \in Auctions, NEW r \in ResultOf(a)
  PROVE  ResultOf(a) = {r} /\ r = Decision(a) /\ status[a] \in Terminal
BY DEF OutcomeInv, ResultOf

-----------------------------------------------------------------------------
(* What is over does not move. *)

Settles ==
  /\ \A a \in Auctions : status[a] \in Past =>
       /\ status'[a] = status[a] /\ hold'[a] = hold[a] /\ BidsIn(a)' = BidsIn(a)
       /\ \A u \in Users : paid'[a][u] = paid[a][u]
  /\ \A a \in Auctions : status'[a] = "completed" => status[a] = "completed"

LEMMA OutcomeKept ==
  ASSUME BookInv, OutcomeInv, Settles, UNCHANGED outcome
  PROVE  OutcomeInv'
<1>1. ASSUME NEW r \in results
      PROVE  /\ r.auction \in Auctions
             /\ r = Decision(r.auction)' /\ status'[r.auction] \in Terminal
  <2>1. r.auction \in Auctions /\ r = Decision(r.auction) /\ status[r.auction] \in Terminal
    BY DEF OutcomeInv, Result
  <2>2. BidsIn(r.auction)' = BidsIn(r.auction) /\ status'[r.auction] = status[r.auction]
    BY <2>1 DEF Settles, Past, Terminal
  <2> QED  BY <2>1, <2>2, SameDecision
<1>2. \A a \in Auctions : ResultOf(a)' = ResultOf(a) /\ OrderOf(a)' = OrderOf(a)
  BY DEF outcome, ResultOf, OrderOf
<1>3. ASSUME NEW a \in Auctions, NEW r \in ResultOf(a)
      PROVE  hold'[a] = hold[a]
  BY <1>3, OneResult DEF Settles, Past, Terminal
<1>4. results' = results /\ orders' = orders
  BY DEF outcome
<1>5. (\A r \in results : r = Decision(r.auction) /\ status[r.auction] \in Terminal)'
  BY <1>1, <1>4
<1>6. ASSUME NEW a \in Auctions
      PROVE  (/\ status[a] = "completed" => ResultOf(a) # {}
              /\ ResultOf(a) = {} => OrderOf(a) = {}
              /\ \A r \in ResultOf(a) :
                   OrderOf(a) = Owed(a, r) /\ (r.outcome = "winner" <=> hold[a] = "held"))'
  <2>1. status'[a] = "completed" => ResultOf(a)' # {}
    BY <1>2 DEF OutcomeInv, Settles
  <2> QED  BY <1>2, <1>3, <2>1 DEF OutcomeInv, Owed
<1> QED  BY <1>4, <1>5, <1>6 DEF OutcomeInv

\* The weaker fact that the decision itself leaves true.
Advances ==
  \A a \in Auctions : status[a] \in Past =>
    status'[a] \in Past /\ \A u \in Users : paid'[a][u] = paid[a][u]

LEMMA SettledAdvances == Settles => Advances
BY DEF Settles, Advances

LEMMA FeesKept ==
  ASSUME BookInv, OutcomeInv, FeeInv, Advances, UNCHANGED refunds, results \subseteq results'
  PROVE  FeeInv'
<1>1. ASSUME NEW a \in Auctions, NEW u \in Users, refunds[a][u] # <<>>
      PROVE  /\ Len(refunds[a][u]) = 1
             /\ refunds[a][u][1].amount = paid'[a][u] /\ paid'[a][u] > 0
             /\ \E r \in ResultOf(a)' : r.outcome \in {"no_unique_bid", "cancelled"}
  <2>1. PICK r \in ResultOf(a) : r.outcome \in {"no_unique_bid", "cancelled"}
    BY <1>1 DEF FeeInv, FeesAreReturnedOnce
  <2>2. status[a] \in Past
    BY <2>1, OneResult DEF Past, Terminal
  <2>3. paid'[a][u] = paid[a][u]
    BY <2>2 DEF Advances
  <2>4. r \in ResultOf(a)'
    BY <2>1 DEF ResultOf
  <2> QED  BY <1>1, <2>1, <2>3, <2>4 DEF FeeInv, FeesAreReturnedOnce
<1> QED  BY <1>1 DEF FeeInv, FeesAreReturnedOnce

\* It stays so, whatever the others do.
LEMMA StaysReliable ==
  ASSUME Advances, results \subseteq results', NEW k, Relies(k)
  PROVE  Relies(k)'
<1>1. k.at # "idle" => /\ status'[k.auction] \in Past
                       /\ \A u \in Users : paid'[k.auction][u] = paid[k.auction][u]
  BY DEF Relies, Advances
<1>2. \A r \in ResultOf(k.auction) : r \in ResultOf(k.auction)'
  BY DEF ResultOf
<1>3. k.at # "idle" => Payers(k.auction)' = Payers(k.auction)
  BY <1>1 DEF Payers
<1> QED  BY <1>1, <1>2, <1>3 DEF Relies

\* So a step only has to answer for the closer it moves.
LEMMA CloserMoves ==
  ASSUME CloserInv, Advances, results \subseteq results', NEW c \in Closers, NEW k \in Closer,
         closer' = [closer EXCEPT ![c] = k], Relies(k)'
  PROVE  CloserInv'
<1>1. closer' \in [Closers -> Closer]
  BY DEF CloserInv
<1>2. ASSUME NEW d \in Closers
      PROVE  Relies(closer[d])'
  <2>1. CASE d = c
    <3>1. closer'[d] = k
      BY <2>1 DEF CloserInv
    <3> QED  BY <3>1 DEF Relies, ResultOf, Payers
  <2>2. CASE d # c
    <3>1. PICK j : j = closer[d]
      OBVIOUS
    <3>2. closer'[d] = j
      BY <2>2, <3>1 DEF CloserInv
    <3>3. Relies(j)'
      BY <3>1, StaysReliable DEF CloserInv
    <3> QED  BY <3>2, <3>3 DEF Relies, ResultOf, Payers
  <2> QED  BY <2>1, <2>2
<1> QED  BY <1>1, <1>2 DEF CloserInv

LEMMA ClosersStay ==
  ASSUME CloserInv, Advances, results \subseteq results', UNCHANGED closer
  PROVE  CloserInv'
<1>1. ASSUME NEW d \in Closers
      PROVE  Relies(closer[d])'
  <2>1. PICK j : j = closer[d]
    OBVIOUS
  <2>2. Relies(j)'
    BY <2>1, StaysReliable DEF CloserInv
  <2> QED  BY <2>1, <2>2 DEF Relies, ResultOf, Payers
<1> QED  BY <1>1 DEF CloserInv

LEMMA RestingIsSafe == Resting \in Closer /\ Relies(Resting)'
BY DEF Resting, Closer, Relies, None

-----------------------------------------------------------------------------
(* The book of bids. *)

LEMMA PlaceBidsStep ==
  ASSUME BookInv, NEW a \in Auctions, NEW u \in Users, NEW amounts \in SUBSET Ladder,
         PlaceBids(a, u, amounts)
  PROVE  BookInv'
<1> DEFINE batch == {[auction |-> a, user |-> u, amount |-> m] : m \in amounts}
<1>1. IsFiniteSet(amounts) /\ Cardinality(amounts) \in Nat
  BY BookAssumption, FS_Subset, FS_CardinalityType
<1>2. IsFiniteSet(batch)
  <2>1. [m \in amounts |-> [auction |-> a, user |-> u, amount |-> m]] \in Surjection(amounts, batch)
    BY DEF Surjection
  <2> QED  BY <1>1, <2>1, FS_Surjection
<1>3. batch \subseteq Bid
  BY DEF Bid
<1> HIDE DEF batch
<1>4. bids' = bids \cup batch
  BY DEF PlaceBids, batch
<1>5. IsFiniteSet(bids)' /\ bids' \subseteq Bid
  BY <1>2, <1>3, <1>4, FS_Union DEF BookInv, BookTypeOK
<1>6. paid' \in [Auctions -> [Users -> Nat]]
  <2>1. Fee * Cardinality(amounts) \in Nat
    BY <1>1, BookAssumption
  <2>2. PICK charge \in Nat : charge = Fee * Cardinality(amounts)
    BY <2>1
  <2>3. paid' = [paid EXCEPT ![a][u] = @ + charge] /\ paid \in [Auctions -> [Users -> Nat]]
    BY <2>2 DEF PlaceBids, BookInv, BookTypeOK
  <2> QED  BY <2>2, <2>3
<1>7. IInv'
  <2>1. UNCHANGED vars
    BY DEF PlaceBids
  <2> QED  BY <2>1, NextInv DEF BookInv
<1> QED  BY <1>5, <1>6, <1>7 DEF BookInv, BookTypeOK, IInv

LEMMA BookStep == BookInv /\ [BookNext]_bookVars => BookInv'
<1> SUFFICES ASSUME BookInv, [BookNext]_bookVars
             PROVE  BookInv'
  OBVIOUS
<1>1. CASE \E a \in Auctions, u \in Users, amounts \in SUBSET Ladder : PlaceBids(a, u, amounts)
  BY <1>1, PlaceBidsStep
<1>2. CASE [Next]_vars /\ UNCHANGED book
  <2>1. IInv'
    BY <1>2, NextInv DEF BookInv
  <2> QED  BY <1>2, <2>1 DEF BookInv, BookTypeOK, IInv, book
<1>3. CASE UNCHANGED bookVars
  BY <1>2, <1>3 DEF bookVars
<1> QED  BY <1>1, <1>2, <1>3 DEF BookNext

-----------------------------------------------------------------------------
(* What happens without a closer. *)

LEMMA UndecidedSettles ==
  ASSUME BookInv, NEW a \in Auctions, UndecidedStep(a), UNCHANGED book
  PROVE  Settles
<1>1. status[a] \in Past => status'[a] = status[a] /\ hold' = hold
  BY DEF UndecidedStep, UpdateTerms, NewTerms, Submit, Approve, Reject, Open, Close, Suspend, Resume, Cancel,
         Moves, Sources, Past, stockVars
<1>2. \A b \in Auctions : b # a => status'[b] = status[b] /\ hold'[b] = hold[b]
  BY DEF UndecidedStep, UpdateTerms, NewTerms, Submit, Approve, Reject, Open, Close, Suspend, Resume, Cancel,
         Moves, Becomes, ReserveUnit, InsertReservation, FindHeldReservation, AdjustReservedQuantity, ReleaseUnit, MarkReservationReleased,
         stockVars, BookInv, IInv, TypeOK
<1>3. status'[a] = "completed" => status[a] = "completed"
  <2>1. status[a] = "suspended" => suspendedFrom[a] # "completed"
    BY DEF BookInv, IInv, AuctionInv, Sources
  <2> QED  BY <2>1
      DEF UndecidedStep, UpdateTerms, NewTerms, Submit, Approve, Reject, Open, Close, Suspend, Resume, Cancel,
          Moves, Becomes, Sources, BookInv, IInv, TypeOK
<1>4. \A b \in Auctions : BidsIn(b)' = BidsIn(b) /\ paid' = paid
  BY DEF book, BidsIn
<1> QED  BY <1>1, <1>2, <1>3, <1>4 DEF Settles

LEMMA PlaceBidsSettles ==
  ASSUME BookInv, NEW a \in Auctions, NEW u \in Users, NEW amounts \in SUBSET Ladder,
         PlaceBids(a, u, amounts)
  PROVE  Settles
<1>1. status[a] = "live" /\ UNCHANGED <<status, hold>>
  BY DEF PlaceBids, Accepting, vars, auctionVars, stockVars
<1>2. ASSUME NEW b \in Auctions, status[b] \in Past
      PROVE  BidsIn(b)' = BidsIn(b) /\ \A v \in Users : paid'[b][v] = paid[b][v]
  <2>1. b # a
    BY <1>1, <1>2 DEF Past
  <2>2. PICK charge : charge = Fee * Cardinality(amounts)
    OBVIOUS
  <2>3. paid' = [paid EXCEPT ![a][u] = @ + charge] /\ paid \in [Auctions -> [Users -> Nat]]
    BY <2>2 DEF PlaceBids, BookInv, BookTypeOK
  <2> QED  BY <2>1, <2>3 DEF PlaceBids, BidsIn
<1> QED  BY <1>1, <1>2 DEF Settles

LEMMA ElsewhereSettles ==
  ASSUME BookInv, Elsewhere
  PROVE  Settles /\ BookNext /\ UNCHANGED <<outcome, refunds, closer>>
<1>1. CASE \E a \in Auctions, u \in Users, amounts \in SUBSET Ladder : PlaceBids(a, u, amounts)
  BY <1>1, PlaceBidsSettles DEF Elsewhere, BookNext
<1>2. CASE UNCHANGED book /\ \E a \in Auctions : UndecidedStep(a)
  BY <1>2, UndecidedSettles DEF Elsewhere, BookNext, Next, AuctionStep
<1>3. ASSUME UNCHANGED book, NEW a \in Auctions, NEW t \in Terms, Insert(a, t)
      PROVE  Settles
  <2>1. \A b \in Auctions : BidsIn(b)' = BidsIn(b) /\ paid' = paid
    BY <1>3 DEF book, BidsIn
  <2>2. status[a] = None /\ status' = [status EXCEPT ![a] = "draft"] /\ hold' = hold
    BY <1>3 DEF Insert, Becomes, stockVars
  <2> QED  BY <2>1, <2>2 DEF Settles, Past, None, BookInv, IInv, TypeOK
<1>4. ASSUME UNCHANGED <<book, status, hold>>
      PROVE  Settles
  BY <1>4 DEF Settles, book, BidsIn
<1>5. CASE UNCHANGED book /\ \E p \in Products, n \in 0..MaxStock : WriteStock(p, n)
  <2>1. UNCHANGED <<book, status, hold>>
    BY <1>5 DEF WriteStock, auctionVars
  <2> QED  BY <1>4, <1>5, <2>1 DEF Elsewhere, BookNext, Next
<1>6. CASE UNCHANGED book /\ Tick
  <2>1. UNCHANGED <<book, status, hold>>
    BY <1>6 DEF Tick, auctionVars, stockVars
  <2> QED  BY <1>4, <1>6, <2>1 DEF Elsewhere, BookNext, Next
<1>7. CASE UNCHANGED book /\ \E a \in Auctions : \E t \in Terms : Insert(a, t)
  BY <1>3, <1>7 DEF Elsewhere, BookNext, Next
<1> QED  BY <1>1, <1>2, <1>5, <1>6, <1>7 DEF Elsewhere

LEMMA BookStays ==
  ASSUME UNCHANGED bookVars
  PROVE  Settles
BY DEF Settles, bookVars, book, vars, auctionVars, stockVars, BidsIn

-----------------------------------------------------------------------------
(* The decision. *)

\* Storing a first decision, and carrying it out, makes it the one true result.
LEMMA DecisionStored ==
  ASSUME BookInv, OutcomeInv, UNCHANGED book,
         NEW a \in Auctions, ResultOf(a) = {}, NEW r, r = Decision(a),
         results' = results \cup {r}, orders' = orders \cup Owed(a, r),
         \A b \in Auctions : b # a => status'[b] = status[b] /\ hold'[b] = hold[b],
         status'[a] \in Terminal, status'[a] = "cancelled" <=> status[a] = "cancelled",
         hold'[a] = "held" <=> r.outcome = "winner"
  PROVE  OutcomeInv'
<1>1. r \in Result /\ r.auction = a /\ r.winner \subseteq Bid
  BY DecisionFacts DEF Result
<1>2. Owed(a, r) \subseteq Order /\ \A o \in Owed(a, r) : o.auction = a
  BY <1>1 DEF Owed, Order, Bid
<1>3. \A b \in Auctions : BidsIn(b)' = BidsIn(b)
  BY DEF book, BidsIn
<1>4. \A b \in Auctions : Decision(b)' = Decision(b)
  BY <1>3, SameDecision
<1>5. ASSUME NEW x \in results
      PROVE  x.auction \in Auctions /\ x.auction # a
  BY DEF OutcomeInv, Result, ResultOf
<1>6. \A x \in results' : x = Decision(x.auction)' /\ status'[x.auction] \in Terminal
  BY <1>1, <1>4, <1>5 DEF OutcomeInv
<1>7. ResultOf(a)' = {r} /\ OrderOf(a)' = Owed(a, r)
  <2>1. OrderOf(a) = {}
    BY DEF OutcomeInv
  <2> QED  BY <1>1, <1>2, <1>5, <2>1 DEF ResultOf, OrderOf
<1>8. \A b \in Auctions : b # a => ResultOf(b)' = ResultOf(b) /\ OrderOf(b)' = OrderOf(b)
  BY <1>1, <1>2 DEF ResultOf, OrderOf
<1>9. ASSUME NEW b \in Auctions
      PROVE  (/\ status[b] = "completed" => ResultOf(b) # {}
              /\ ResultOf(b) = {} => OrderOf(b) = {}
              /\ \A x \in ResultOf(b) :
                   OrderOf(b) = Owed(b, x) /\ (x.outcome = "winner" <=> hold[b] = "held"))'
  <2>1. CASE b = a
    BY <1>7, <2>1 DEF Owed
  <2>2. CASE b # a
    BY <1>8, <2>2 DEF OutcomeInv, Owed
  <2> QED  BY <2>1, <2>2
<1>10. results' \subseteq Result /\ orders' \subseteq Order
  BY <1>1, <1>2 DEF OutcomeInv
<1> QED  BY <1>6, <1>9, <1>10 DEF OutcomeInv

\* Whoever decides first, the status and the unit follow; whoever comes later
\* finds everything done.
LEMMA DecideStep ==
  ASSUME BookInv, OutcomeInv, CloserInv, NEW c \in Closers, NEW a, a = closer[c].auction, Decide(c)
  PROVE  /\ a \in Auctions /\ OutcomeInv' /\ Advances /\ results \subseteq results'
         /\ [BookNext]_bookVars
         /\ status'[a] \in Past
         /\ \E r \in ResultOf(a)' : IF Owes(r) THEN Turns(c, "list", a, {}) ELSE Rests(c)
<1>1. a \in Auctions /\ status[a] \in Past
  BY DEF Decide, CloserInv, Relies
<1>2. PICK r \in Stored(a) :
        /\ results' = results \cup {r}
        /\ orders' = orders \cup Ordered(a, r)
        /\ CarryOut(a, r.outcome = "winner")
        /\ IF Owes(r) THEN Turns(c, "list", a, {}) ELSE Rests(c)
  BY DEF Decide
<1>3. UNCHANGED book
  BY DEF Decide
<1>4. r.auction = a
  BY <1>1, <1>2, DecisionFacts DEF Stored, ResultOf
<1>5. r \in ResultOf(a)'
  BY <1>2, <1>4 DEF ResultOf
<1>6. CASE UNCHANGED <<vars, outcome>>
  <2>1. Settles /\ UNCHANGED bookVars
    BY <1>3, <1>6, BookStays DEF bookVars
  <2>2. OutcomeInv' /\ Advances
    BY <1>6, <2>1, OutcomeKept, SettledAdvances
  <2>3. status'[a] = status[a]
    BY <1>6 DEF vars, auctionVars
  <2> QED  BY <1>1, <1>2, <1>5, <2>1, <2>2, <2>3
<1>7. CASE ResultOf(a) # {}
  <2>1. r \in ResultOf(a) /\ status[a] \in Terminal
    BY <1>1, <1>2, <1>7, OneResult DEF Stored
  <2>2. r.outcome = "winner" <=> hold[a] = "held"
    BY <1>1, <2>1 DEF OutcomeInv
  <2>3. ~Complete(a, r.outcome = "winner")
    BY <2>1 DEF Complete, Moves, Sources, Terminal
  <2>4. UNCHANGED vars
    BY <1>2, <2>2, <2>3 DEF CarryOut, ReleaseUnit, MarkReservationReleased, FindHeldReservation, AdjustReservedQuantity, vars, stockVars
  <2>5. orders' = orders
    <3>1. OrderOf(a) = Owed(a, r)
      BY <1>1, <2>1 DEF OutcomeInv
    <3> QED  BY <1>2, <3>1 DEF Ordered, WinnerOrder, Owed
  <2>6. results' = results
    BY <1>2, <2>1 DEF ResultOf
  <2> QED  BY <1>6, <2>4, <2>5, <2>6 DEF outcome
<1>8. CASE ResultOf(a) = {}
  <2>1. r = Decision(a) /\ orders' = orders \cup Owed(a, r) /\ status[a] # "completed"
    <3>1. OrderOf(a) = {}
      BY <1>1, <1>8 DEF OutcomeInv
    <3> QED  BY <1>1, <1>2, <1>8, <3>1 DEF Stored, Ordered, WinnerOrder, Owed, OutcomeInv
  <2>2. CASE status[a] = "calculating"
    <3>1. Complete(a, r.outcome = "winner")
      BY <1>2, <2>2 DEF CarryOut, Terminal
    <3>2. status'[a] = "completed" /\ \A b \in Auctions : b # a => status'[b] = status[b]
      BY <1>1, <3>1 DEF Complete, Moves, Becomes, BookInv, IInv, TypeOK
    <3>3. /\ hold'[a] = "held" <=> r.outcome = "winner"
          /\ \A b \in Auctions : b # a => hold'[b] = hold[b]
      <4>1. hold[a] = "held" /\ hold \in [Auctions -> {None, "held", "released"}]
        BY <1>1, <2>2 DEF BookInv, IInv, AuctionInv, TypeOK
      <4> QED  BY <1>1, <3>1, <4>1 DEF Complete, ReleaseUnit, MarkReservationReleased, FindHeldReservation, AdjustReservedQuantity
    <3>4. OutcomeInv'
      BY <1>1, <1>2, <1>3, <1>8, <2>1, <2>2, <3>2, <3>3, DecisionStored DEF Terminal
    <3>5. Advances
      BY <1>3, <3>2 DEF Advances, Past, book
    <3>6. BookNext
      BY <1>1, <1>3, <3>1 DEF BookNext, Next, AuctionStep
    <3> QED  BY <1>1, <1>2, <1>5, <3>2, <3>4, <3>5, <3>6 DEF Past
  <2>3. CASE status[a] = "cancelled"
    <3>1. hold[a] # "held" /\ r.outcome # "winner"
      BY <1>1, <2>1, <2>3, DecisionFacts DEF BookInv, IInv, AuctionInv
    <3>2. UNCHANGED vars
      BY <1>2, <2>3, <3>1 DEF CarryOut, Complete, Moves, Sources, ReleaseUnit, MarkReservationReleased, FindHeldReservation, AdjustReservedQuantity, vars, stockVars
    <3>3. UNCHANGED <<status, hold>> /\ UNCHANGED bookVars
      BY <1>3, <3>2 DEF vars, auctionVars, stockVars, bookVars
    <3>4. OutcomeInv'
      BY <1>1, <1>2, <1>3, <1>8, <2>1, <2>3, <3>1, <3>3, DecisionStored DEF Terminal
    <3>5. Advances
      BY <3>3, BookStays, SettledAdvances
    <3> QED  BY <1>1, <1>2, <1>5, <3>3, <3>4, <3>5
  <2> QED  BY <1>1, <2>1, <2>2, <2>3 DEF Past
<1> QED  BY <1>7, <1>8

-----------------------------------------------------------------------------
(* The refunds. *)

\* The next payer of a list is one of it.
LEMMA NextPayer ==
  ASSUME NEW todo, todo # {}, \A x \in todo : x.user \in Users
  PROVE  (CHOOSE x \in todo : \A y \in todo : x.user <= y.user) \in todo
<1> DEFINE names == {x.user : x \in todo}
<1>1. names # {} /\ names \in SUBSET Users
  OBVIOUS
<1>2. names \subseteq Int /\ IsFiniteSet(names)
  <2> HIDE DEF names
  <2>1. IsFiniteSet(names)
    BY <1>1, BookAssumption, FS_Subset
  <2> QED  BY <1>1, <2>1, UserOrderAssumption
<1>3. PICK m \in names : \A n \in names : m <= n
  <2> HIDE DEF names
  <2> QED  BY <1>1, <1>2, LeastExists
<1>4. \E x \in todo : \A y \in todo : x.user <= y.user
  BY <1>3
<1> QED  BY <1>4

\* An entry booked where there was none.
LEMMA FirstEntry ==
  ASSUME NEW e \in Entry
  PROVE  /\ Append(<<>>, e) \in Seq(Entry) /\ Append(<<>>, e) # <<>>
         /\ Len(Append(<<>>, e)) = 1 /\ Append(<<>>, e)[1] = e
<1>1. <<>> \in Seq(Entry) /\ Len(<<>>) = 0
  OBVIOUS
<1> QED  BY <1>1, AppendProperties

LEMMA RefundStep ==
  ASSUME BookInv, OutcomeInv, CloserInv, FeeInv, NEW c \in Closers, Refund(c)
  PROVE  CloserInv' /\ FeeInv'
<1>1. PICK a \in Auctions : a = closer[c].auction
  BY DEF Refund, CloserInv, Relies
<1>2. PICK todo : todo = closer[c].todo
  OBVIOUS
<1>3. /\ todo # {} /\ todo \subseteq Payers(a) /\ todo \in SUBSET Payer
      /\ \E r \in ResultOf(a) : Owes(r)
      /\ status[a] \in Past
  BY <1>1, <1>2 DEF Refund, CloserInv, Relies, Closer
<1>4. PICK p : p = CHOOSE x \in todo : \A y \in todo : x.user <= y.user
  OBVIOUS
<1>5. p \in todo /\ p.user \in Users /\ p.fees \in Nat /\ p.fees = paid[a][p.user] /\ p.fees > 0
  <2>1. \A x \in todo : x.user \in Users
    BY <1>3 DEF Payers
  <2>2. p \in todo
    BY <1>3, <1>4, <2>1, NextPayer
  <2> QED  BY <1>1, <1>3, <2>2 DEF Payers, BookInv, BookTypeOK
<1>6. PICK u \in Users : u = p.user
  BY <1>5
<1> DEFINE e == [amount |-> p.fees, currency |-> DefaultCurrency]
<1>7. /\ UNCHANGED <<bookVars, outcome>>
      /\ IF Returned(a, u) THEN UNCHANGED refunds
         ELSE refunds' = [refunds EXCEPT ![a][u] = Append(@, e)]
      /\ Rests(c) \/ (todo \ {p} # {} /\ Turns(c, "refund", a, todo \ {p}))
  BY <1>1, <1>2, <1>4, <1>6 DEF Refund
<1>8. Settles /\ Advances /\ results \subseteq results'
  BY <1>7, BookStays, SettledAdvances DEF outcome
<1>9. CloserInv'
  <2>1. CASE Rests(c)
    BY <1>8, <2>1, CloserMoves, RestingIsSafe DEF Rests
  <2>2. CASE todo \ {p} # {} /\ Turns(c, "refund", a, todo \ {p})
    <3>1. PICK rest : rest = todo \ {p}
      OBVIOUS
    <3>2. PICK k : k = [at |-> "refund", auction |-> a, todo |-> rest]
      OBVIOUS
    <3>3. k \in Closer /\ Relies(k)
      BY <1>3, <2>2, <3>1, <3>2 DEF Closer, Relies
    <3>4. closer' = [closer EXCEPT ![c] = k]
      BY <2>2, <3>1, <3>2 DEF Turns
    <3> QED  BY <1>8, <3>3, <3>4, StaysReliable, CloserMoves
  <2> QED  BY <1>7, <2>1, <2>2
<1>10. FeeInv'
  <2>1. CASE Returned(a, u)
    BY <1>7, <1>8, <2>1, FeesKept
  <2>2. CASE ~Returned(a, u)
    <3>1. refunds' = [refunds EXCEPT ![a][u] = Append(<<>>, e)] /\ refunds \in [Auctions -> [Users -> Seq(Entry)]]
      BY <1>7, <2>2 DEF Returned, FeeInv
    <3>2. e \in Entry
      BY <1>5, CurrencyAssumption DEF Entry
    <3>3. PICK s : s = Append(<<>>, e)
      OBVIOUS
    <3>4. s \in Seq(Entry) /\ s # <<>> /\ Len(s) = 1 /\ s[1] = e
      BY <3>2, <3>3, FirstEntry
    <3>5. refunds' = [refunds EXCEPT ![a][u] = s]
      BY <3>1, <3>3
    <3>6. refunds' \in [Auctions -> [Users -> Seq(Entry)]]
      BY <3>1, <3>4, <3>5
    <3>7. paid' = paid /\ \A b \in Auctions : ResultOf(b)' = ResultOf(b)
      BY <1>7 DEF bookVars, book, outcome, ResultOf
    <3>8. ASSUME NEW b \in Auctions, NEW v \in Users, refunds'[b][v] # <<>>
          PROVE  /\ Len(refunds'[b][v]) = 1
                 /\ refunds'[b][v][1].amount = paid[b][v] /\ paid[b][v] > 0
                 /\ \E r \in ResultOf(b) : r.outcome \in {"no_unique_bid", "cancelled"}
      <4>1. CASE b = a /\ v = u
        <5>1. refunds'[b][v] = s
          BY <3>1, <3>5, <4>1
        <5> QED  BY <1>3, <1>5, <1>6, <3>4, <4>1, <5>1 DEF Owes
      <4>2. CASE ~(b = a /\ v = u)
        <5>1. refunds'[b][v] = refunds[b][v]
          BY <3>1, <3>5, <4>2
        <5> QED  BY <3>8, <5>1 DEF FeeInv, FeesAreReturnedOnce
      <4> QED  BY <4>1, <4>2
    <3> QED  BY <3>6, <3>7, <3>8 DEF FeeInv, FeesAreReturnedOnce
  <2> QED  BY <2>1, <2>2
<1> QED  BY <1>9, <1>10

-----------------------------------------------------------------------------
(* Every step. *)

LEMMA BeginStep ==
  ASSUME BookInv, OutcomeInv, CloserInv, NEW c \in Closers, NEW a \in Auctions,
         BeginClosing(c, a) \/ ResumeClosing(c, a)
  PROVE  Settles /\ [BookNext]_bookVars /\ CloserInv' /\ UNCHANGED <<outcome, refunds>>
<1> DEFINE Goal == Settles /\ [BookNext]_bookVars /\ UNCHANGED <<outcome, refunds>> /\ status'[a] \in Past
<1>1. ASSUME BeginClosing(c, a)
      PROVE  Goal
  <2>1. /\ status[a] = "closing" /\ status' = [status EXCEPT ![a] = "calculating"]
        /\ UNCHANGED <<hold, book, outcome, refunds>>
    BY <1>1 DEF BeginClosing, BeginCalculating, Moves, Becomes, Sources, stockVars
  <2>2. Settles /\ status'[a] = "calculating"
    BY <2>1 DEF Settles, Past, book, BidsIn, BookInv, IInv, TypeOK
  <2>3. BookNext
    BY <1>1, <2>1 DEF BeginClosing, BookNext, Next, AuctionStep
  <2> QED  BY <2>1, <2>2, <2>3 DEF Past
<1>2. ASSUME ResumeClosing(c, a)
      PROVE  Goal
  <2>1. status'[a] \in Past
    BY <1>2 DEF ResumeClosing, Past, bookVars, vars, auctionVars
  <2> QED  BY <1>2, <2>1, BookStays DEF ResumeClosing
<1>3. PICK k : k = [at |-> "decide", auction |-> a, todo |-> {}]
  OBVIOUS
<1>4. k \in Closer /\ closer' = [closer EXCEPT ![c] = k]
  BY <1>3 DEF BeginClosing, ResumeClosing, Turns, Closer
<1>5. Settles /\ [BookNext]_bookVars /\ UNCHANGED <<outcome, refunds>> /\ status'[a] \in Past
  BY <1>1, <1>2
<1>6. Relies(k)'
  BY <1>3, <1>5 DEF Relies
<1>7. CloserInv'
  BY <1>4, <1>5, <1>6, SettledAdvances, CloserMoves DEF outcome
<1> QED  BY <1>5, <1>7

\* A pass over the payers begins, and reads whom to pay.
LEMMA PassStep ==
  ASSUME BookInv, OutcomeInv, CloserInv, NEW c \in Closers,
         (\E a \in Auctions : StartRefunds(c, a)) \/ ListPayers(c)
  PROVE  UNCHANGED <<bookVars, outcome, refunds>> /\ CloserInv'
<1>1. UNCHANGED <<bookVars, outcome, refunds>>
  BY DEF StartRefunds, ListPayers
<1>2. Advances /\ results \subseteq results'
  BY <1>1, BookStays, SettledAdvances DEF outcome
<1>3. ASSUME Rests(c)
      PROVE  CloserInv'
  BY <1>2, <1>3, CloserMoves, RestingIsSafe DEF Rests
<1>4. ASSUME NEW a \in Auctions, StartRefunds(c, a)
      PROVE  CloserInv'
  <2>1. PICK k : k = [at |-> "list", auction |-> a, todo |-> {}]
    OBVIOUS
  <2>2. k \in Closer /\ closer' = [closer EXCEPT ![c] = k]
    BY <1>4, <2>1 DEF StartRefunds, Turns, Closer
  <2>3. PICK r \in ResultOf(a) : Owes(r)
    BY <1>4 DEF StartRefunds
  <2>4. Relies(k)
    BY <2>1, <2>3, OneResult DEF Relies, Past, Terminal
  <2> QED  BY <1>2, <2>2, <2>4, StaysReliable, CloserMoves
<1>5. ASSUME ListPayers(c)
      PROVE  CloserInv'
  <2>1. PICK a \in Auctions : a = closer[c].auction
    BY <1>5 DEF ListPayers, CloserInv, Relies
  <2>2. PICK todo : todo = Payers(a)
    OBVIOUS
  <2>3. CASE todo = {}
    BY <1>3, <1>5, <2>1, <2>2, <2>3 DEF ListPayers
  <2>4. CASE todo # {}
    <3>1. PICK k : k = [at |-> "refund", auction |-> a, todo |-> todo]
      OBVIOUS
    <3>2. todo \subseteq Payer
      BY <2>1, <2>2 DEF Payers, Payer, BookInv, BookTypeOK
    <3>3. k \in Closer /\ closer' = [closer EXCEPT ![c] = k]
      BY <1>5, <2>1, <2>2, <2>4, <3>1, <3>2 DEF ListPayers, Turns, Closer
    <3>4. Relies(k)
      BY <1>5, <2>1, <2>2, <2>4, <3>1 DEF ListPayers, CloserInv, Relies
    <3> QED  BY <1>2, <3>3, <3>4, StaysReliable, CloserMoves
  <2> QED  BY <2>3, <2>4
<1> QED  BY <1>1, <1>4, <1>5

\* Closers that die rely on nothing, and the others on what they did before.
LEMMA InterruptStep ==
  ASSUME BookInv, OutcomeInv, CloserInv, NEW dead, Interrupt(dead)
  PROVE  UNCHANGED <<bookVars, outcome, refunds>> /\ CloserInv'
<1>1. UNCHANGED <<bookVars, outcome, refunds>>
  BY DEF Interrupt
<1>2. Advances /\ results \subseteq results'
  BY <1>1, BookStays, SettledAdvances DEF outcome
<1>3. closer' = [c \in Closers |-> IF c \in dead THEN Resting ELSE closer[c]]
  BY DEF Interrupt, Without
<1>4. ASSUME NEW d \in Closers
      PROVE  closer'[d] \in Closer /\ Relies(closer[d])'
  <2>1. CASE d \in dead
    <3>1. closer'[d] = Resting
      BY <1>3, <2>1
    <3> QED  BY <3>1, RestingIsSafe DEF Relies, ResultOf, Payers
  <2>2. CASE d \notin dead
    <3>1. PICK j : j = closer[d]
      OBVIOUS
    <3>2. j \in Closer /\ Relies(j)
      BY <3>1 DEF CloserInv
    <3>3. closer'[d] = j
      BY <1>3, <2>2, <3>1
    <3>4. Relies(j)'
      BY <1>2, <3>2, StaysReliable
    <3> QED  BY <3>2, <3>3, <3>4 DEF Relies, ResultOf, Payers
  <2> QED  BY <2>1, <2>2
<1>5. closer' \in [Closers -> Closer]
  BY <1>3, <1>4
<1> QED  BY <1>1, <1>4, <1>5 DEF CloserInv

LEMMA DecideKeeps ==
  ASSUME BookInv, OutcomeInv, CloserInv, FeeInv, NEW c \in Closers, Decide(c)
  PROVE  [BookNext]_bookVars /\ OutcomeInv' /\ CloserInv' /\ FeeInv'
<1>1. PICK a : a = closer[c].auction
  OBVIOUS
<1>2. /\ a \in Auctions /\ OutcomeInv' /\ Advances /\ results \subseteq results'
      /\ [BookNext]_bookVars
      /\ status'[a] \in Past
      /\ \E r \in ResultOf(a)' : IF Owes(r) THEN Turns(c, "list", a, {}) ELSE Rests(c)
  BY <1>1, DecideStep
<1>3. FeeInv'
  BY <1>2, FeesKept DEF Decide
<1>4. PICK r \in ResultOf(a)' : IF Owes(r) THEN Turns(c, "list", a, {}) ELSE Rests(c)
  BY <1>2
<1>5. CASE ~Owes(r)
  BY <1>2, <1>3, <1>4, <1>5, CloserMoves, RestingIsSafe DEF Rests
<1>6. CASE Owes(r)
  <2>1. PICK k : k = [at |-> "list", auction |-> a, todo |-> {}]
    OBVIOUS
  <2>2. k \in Closer /\ closer' = [closer EXCEPT ![c] = k]
    BY <1>2, <1>4, <1>6, <2>1 DEF Turns, Closer
  <2>3. Relies(k)'
    BY <1>2, <1>4, <1>6, <2>1 DEF Relies, ResultOf
  <2> QED  BY <1>2, <1>3, <2>2, <2>3, CloserMoves
<1> QED  BY <1>5, <1>6

LEMMA ClosingInit == KInit => KInv
<1> SUFFICES ASSUME KInit
             PROVE  KInv
  OBVIOUS
<1>1. BookInv
  <2>1. IInv
    BY InitInv DEF KInit, BookInit
  <2> QED  BY <2>1, FS_EmptySet DEF BookInv, IInv, BookTypeOK, KInit, BookInit, EmptyBook
<1>2. OutcomeInv
  BY DEF OutcomeInv, KInit, BookInit, Init, NothingClosed, ResultOf, OrderOf, None
<1>3. CloserInv
  BY DEF CloserInv, KInit, NothingClosed, Resting, Closer, Relies
<1>4. FeeInv
  <2>1. refunds = [a \in Auctions |-> [u \in Users |-> <<>>]]
    BY DEF KInit, NothingClosed
  <2>2. <<>> \in Seq(Entry)
    OBVIOUS
  <2> QED  BY <2>1, <2>2 DEF FeeInv, FeesAreReturnedOnce
<1> QED  BY <1>1, <1>2, <1>3, <1>4 DEF KInv

LEMMA ClosingStep == KInv /\ [KNext]_kvars => KInv' /\ [BookNext]_bookVars
<1> SUFFICES ASSUME KInv, [KNext]_kvars
             PROVE  KInv' /\ [BookNext]_bookVars
  OBVIOUS
<1>0. BookInv /\ OutcomeInv /\ CloserInv /\ FeeInv
  BY DEF KInv
<1> DEFINE Kept == [BookNext]_bookVars /\ OutcomeInv' /\ CloserInv' /\ FeeInv'
<1>1. ASSUME Settles, [BookNext]_bookVars, UNCHANGED <<outcome, refunds>>, CloserInv'
      PROVE  Kept
  <2>1. OutcomeInv' /\ FeeInv'
    BY <1>0, <1>1, OutcomeKept, FeesKept, SettledAdvances DEF outcome
  <2> QED  BY <1>1, <2>1
<1>2. ASSUME Settles, [BookNext]_bookVars, UNCHANGED <<outcome, refunds, closer>>
      PROVE  Kept
  <2>1. CloserInv'
    BY <1>0, <1>2, ClosersStay, SettledAdvances DEF outcome
  <2> QED  BY <1>1, <1>2, <2>1
<1>3. ASSUME Elsewhere
      PROVE  Kept
  BY <1>0, <1>2, <1>3, ElsewhereSettles
<1>4. ASSUME UNCHANGED kvars
      PROVE  Kept
  BY <1>2, <1>4, BookStays DEF kvars
<1>5. ASSUME NEW c \in Closers, CloserStep(c)
      PROVE  Kept
  <2>1. CASE \E a \in Auctions : BeginClosing(c, a) \/ ResumeClosing(c, a)
    BY <1>0, <1>1, <2>1, BeginStep
  <2>2. CASE (\E a \in Auctions : StartRefunds(c, a)) \/ ListPayers(c)
    BY <1>0, <1>1, <2>2, PassStep, BookStays
  <2>3. CASE Decide(c)
    BY <1>0, <2>3, DecideKeeps
  <2>4. CASE Refund(c)
    <3>1. UNCHANGED <<bookVars, outcome>>
      BY <2>4 DEF Refund
    <3>2. OutcomeInv'
      BY <1>0, <3>1, BookStays, OutcomeKept
    <3> QED  BY <1>0, <2>4, <3>1, <3>2, RefundStep
  <2> QED  BY <1>5, <2>1, <2>2, <2>3, <2>4 DEF CloserStep
<1>6. ASSUME NEW dead \in SUBSET Closers, Interrupt(dead)
      PROVE  Kept
  BY <1>0, <1>1, <1>6, InterruptStep, BookStays
<1>7. Kept
  BY <1>3, <1>4, <1>5, <1>6 DEF KNext
<1>8. BookInv'
  BY <1>0, <1>7, BookStep
<1> QED  BY <1>7, <1>8 DEF KInv

-----------------------------------------------------------------------------
(* What holds of every behaviour. *)

\* The inductive invariant: a stored result is what would be decided now.
THEOREM ClosingInvariant == KSpec => []KInv
<1>1. KInit => KInv
  BY ClosingInit
<1>2. KInv /\ [KNext]_kvars => KInv'
  BY ClosingStep
<1> QED  BY <1>1, <1>2, PTL DEF KSpec

\* Every column, and what every closer remembers, keeps its type.
THEOREM ClosingTypeCorrect == KSpec => []KTypeOK
<1>1. KInv => KTypeOK
  BY DEF KInv, BookInv, OutcomeInv, CloserInv, FeeInv, KTypeOK
<1> QED  BY <1>1, ClosingInvariant, PTL

\* verifyResult never finds a discrepancy: one result per auction, for ever equal
\* to what the bids say.
THEOREM ResultsAlwaysVerify == KSpec => []ResultsVerify
<1>1. KInv => ResultsVerify
  <2> SUFFICES ASSUME KInv, NEW r \in results
               PROVE  LET now == BidsIn(r.auction) IN
                      /\ ResultOf(r.auction) = {r}
                      /\ r.frozen = now
                      /\ r.counts = Statistics(now)
                      /\ r.winner = IF r.outcome = "cancelled" THEN {} ELSE Winner(now)
    BY DEF ResultsVerify, Verifies, FrozenBids
  <2>1. r.auction \in Auctions /\ r \in ResultOf(r.auction)
    BY DEF KInv, OutcomeInv, Result, ResultOf
  <2>2. ResultOf(r.auction) = {r} /\ r = Decision(r.auction)
    BY <2>1, OneResult DEF KInv
  <2> QED  BY <2>1, <2>2, DecisionFacts DEF KInv
<1> QED  BY <1>1, ClosingInvariant, PTL

\* The winner is alone at an amount below which nobody is, and an auction without
\* a winner has no lone bidder.
THEOREM WinnersStandAlone == KSpec => []WinnerStandsAlone
<1>1. KInv => WinnerStandsAlone
  <2> SUFFICES ASSUME KInv, NEW r \in results
               PROVE  LET B == BidsIn(r.auction)
                          Alone(b) == \A d \in B : d.amount = b.amount => d.user = b.user
                      IN
                      /\ r.outcome = "winner" =>
                           \E w \in B : r.winner = {w} /\ Alone(w) /\ \A b \in B : b.amount < w.amount => ~Alone(b)
                      /\ r.outcome \in {"no_unique_bid", "no_bids"} => \A b \in B : ~Alone(b)
    BY DEF WinnerStandsAlone
  <2>1. r.auction \in Auctions /\ r = Decision(r.auction)
    BY DEF KInv, OutcomeInv, Result
  <2>2. PICK B : B = BidsIn(r.auction)
    OBVIOUS
  <2>3. B \subseteq Bid /\ Bids(B) /\ \A b \in B : b.auction = r.auction
    BY <2>1, <2>2, BidsAreBids DEF KInv, BidsIn
  <2>4. \A b, d \in B : d.user = b.user /\ d.amount = b.amount => d = b
    BY <2>3 DEF Bid
  <2>5. /\ r.outcome = "winner" <=> r.winner # {}
        /\ r.outcome # "cancelled" => r.winner = Winner(B)
    BY <2>1, <2>2, DecisionFacts DEF KInv
  <2>6. /\ \A v, w \in Winner(B) : v = w
        /\ \A w \in Winner(B) : \A d \in B : d.amount = w.amount => d = w
        /\ \A w \in Winner(B) : \A b \in B :
             b.amount < w.amount => \E d \in B : d # b /\ d.amount = b.amount
        /\ Winner(B) = {} => \A b \in B : \E d \in B : d # b /\ d.amount = b.amount
    BY <2>3, DecidesByTheRule
  <2>7. Winner(B) \subseteq B
    BY DEF Winner
  <2>8. r.outcome = "winner" =>
          \E w \in B : /\ r.winner = {w}
                       /\ \A d \in B : d.amount = w.amount => d.user = w.user
                       /\ \A b \in B : b.amount < w.amount => ~(\A d \in B : d.amount = b.amount => d.user = b.user)
    <3> SUFFICES ASSUME r.outcome = "winner"
                 PROVE  \E w \in B : /\ r.winner = {w}
                                     /\ \A d \in B : d.amount = w.amount => d.user = w.user
                                     /\ \A b \in B : b.amount < w.amount =>
                                          ~(\A d \in B : d.amount = b.amount => d.user = b.user)
      OBVIOUS
    <3>1. PICK w \in Winner(B) : r.winner = {w}
      BY <2>5, <2>6
    <3> QED  BY <2>4, <2>6, <2>7, <3>1
  <2>9. r.outcome \in {"no_unique_bid", "no_bids"} =>
          \A b \in B : ~(\A d \in B : d.amount = b.amount => d.user = b.user)
    BY <2>4, <2>5, <2>6
  <2> QED  BY <2>2, <2>8, <2>9
<1> QED  BY <1>1, ClosingInvariant, PTL

\* Result, status, unit and order are one fact.
THEOREM DecisionsAreCarriedOut == KSpec => []DecisionIsCarriedOut
<1>1. KInv => DecisionIsCarriedOut
  <2> SUFFICES ASSUME KInv, NEW a \in Auctions, NEW r \in ResultOf(a)
               PROVE  /\ status[a] = IF r.outcome = "cancelled" THEN "cancelled" ELSE "completed"
                      /\ OrderOf(a) = {[auction |-> a, user |-> w.user, amount |-> w.amount] : w \in r.winner}
                      /\ r.outcome = "winner" <=> r.winner # {}
                      /\ r.outcome = "winner" <=> hold[a] = "held"
    BY DEF DecisionIsCarriedOut, KInv, OutcomeInv
  <2>1. r = Decision(a) /\ status[a] \in Terminal
    BY OneResult DEF KInv
  <2> QED  BY <2>1, DecisionFacts DEF KInv, OutcomeInv, Owed, Terminal
<1> QED  BY <1>1, ClosingInvariant, PTL

\* No fee is returned twice, in part, or after an outcome that keeps it.
THEOREM FeesComeBackOnce == KSpec => []FeesAreReturnedOnce
<1>1. KInv => FeesAreReturnedOnce
  BY DEF KInv, FeeInv
<1> QED  BY <1>1, ClosingInvariant, PTL

\* Closers do to auctions and units only what the lifecycle allows.
THEOREM ClosingImplementsBook == KSpec => ImplementsBook
<1>1. KInv /\ [KNext]_kvars => [BookNext]_bookVars
  BY ClosingStep
<1> QED  BY <1>1, ClosingInvariant, PTL DEF KSpec, ImplementsBook

-----------------------------------------------------------------------------
(* The sweeper and the queue. *)

\* A sweep compares with the clock itself, which has begun.
SInv == KInv /\ clock >= 1

LEMMA ClockRuns == [BookNext]_bookVars => clock' \in {clock, clock + 1}
<1> SUFFICES ASSUME [BookNext]_bookVars
             PROVE  clock' \in {clock, clock + 1}
  OBVIOUS
<1>1. CASE Tick
  BY <1>1 DEF Tick
<1>2. ASSUME NEW a \in Auctions, AuctionStep(a)
      PROVE  clock' = clock
  BY <1>2 DEF AuctionStep, UndecidedStep, UpdateTerms, Submit, Approve, Reject, Open, Close,
              BeginCalculating, Complete, Suspend, Resume, Cancel
<1>3. CASE (\E a \in Auctions, t \in Terms : Insert(a, t)) \/ \E p \in Products, n \in 0..MaxStock : WriteStock(p, n)
  BY <1>3 DEF Insert, WriteStock
<1>4. CASE (\E a \in Auctions, u \in Users, amounts \in SUBSET Ladder : PlaceBids(a, u, amounts)) \/ UNCHANGED bookVars
  BY <1>4 DEF PlaceBids, bookVars, vars
<1> QED  BY <1>1, <1>2, <1>3, <1>4 DEF BookNext, Next

\* Nothing the sweeper does, and no way in which it fails, is more than a closer's.
LEMMA SweeperSteps == SInv /\ [SNext]_svars => [KNext]_kvars
<1> SUFFICES ASSUME SInv, [SNext]_svars
             PROVE  [KNext]_kvars
  OBVIOUS
<1>1. TheSweeper \in Closers
  BY SweeperAssumption
<1>2. ASSUME NEW c \in Closers, NEW a \in Auctions, RunDecide(c, a)
      PROVE  [KNext]_kvars
  BY <1>2 DEF RunDecide, KNext, CloserStep
<1>3. ASSUME NEW a \in Auctions, RunOpen(a, clock) \/ RunClose(a, clock) \/ UNCHANGED vars,
             UNCHANGED <<book, outcome, refunds, closer>>
      PROVE  [KNext]_kvars
  <2>1. clock \in 1..clock
    BY DEF SInv, KInv, BookInv, IInv, TypeOK
  <2>2. CASE Open(a, clock) \/ Close(a, clock)
    BY <1>3, <2>1, <2>2 DEF KNext, Elsewhere, UndecidedStep
  <2>3. CASE UNCHANGED vars
    BY <1>3, <2>3 DEF kvars, bookVars
  <2> QED  BY <1>3, <2>2, <2>3 DEF RunOpen, RunClose
<1>4. ASSUME NEW dead \in SUBSET Closers, closer' = Without(dead), UNCHANGED <<bookVars, outcome, refunds>>
      PROVE  [KNext]_kvars
  <2>1. CASE \E c \in dead : closer[c] # Resting
    BY <1>4, <2>1 DEF Interrupt, KNext
  <2>2. CASE \A c \in dead : closer[c] = Resting
    <3>1. closer \in [Closers -> Closer]
      BY DEF SInv, KInv, CloserInv
    <3>2. closer' = closer
      BY <1>4, <2>2, <3>1 DEF Without
    <3> QED  BY <1>4, <3>2 DEF kvars
  <2> QED  BY <2>1, <2>2
<1>5. CASE Fails
  BY <1>1, <1>4, <1>5 DEF Fails
<1>6. CASE SweeperStep
  <2>1. ASSUME NEW a \in Auctions, OpenNext(a) \/ CloseNext(a)
        PROVE  [KNext]_kvars
    BY <1>3, <2>1 DEF OpenNext, CloseNext
  <2>2. ASSUME NEW a \in Auctions, DecideNext(a)
        PROVE  [KNext]_kvars
    BY <1>1, <1>2, <2>2 DEF DecideNext
  <2>3. ASSUME NEW a \in Auctions, RefundNext(a)
        PROVE  [KNext]_kvars
    BY <1>1, <2>3 DEF RefundNext, KNext, CloserStep
  <2>4. CASE GoesOn
    BY <1>1, <2>4 DEF GoesOn, KNext, CloserStep
  <2>5. ASSUME NEW from, NEW to, NEW list, NEW S, Reads(from, to, list, S)
        PROVE  UNCHANGED kvars
    BY <2>5 DEF Reads
  <2> QED  BY <1>6, <2>1, <2>2, <2>3, <2>4, <2>5 DEF SweeperStep
<1>7. CASE (OtherClosers \/ Elsewhere) /\ UNCHANGED sweep
  BY <1>7 DEF OtherClosers, KNext
<1>8. CASE UNCHANGED svars
  BY <1>8 DEF svars
<1> QED  BY <1>5, <1>6, <1>7, <1>8 DEF SNext

\* A job does to an auction and to its closer what one of the closers may do, and all else
\* concerns the queue alone.
LEMMA JobSteps == SInv /\ [JNext]_jvars => [SNext]_svars
<1> SUFFICES ASSUME SInv, [JNext]_jvars
             PROVE  [SNext]_svars
  OBVIOUS
<1>1. TheWorker \in Closers \ {TheSweeper}
  BY JobsAssumption
<1>2. clock \in 1..clock
  BY DEF SInv, KInv, BookInv, IInv, TypeOK
<1>3. ASSUME NEW a \in Auctions, UndecidedStep(a) \/ UNCHANGED vars,
             UNCHANGED <<book, outcome, refunds, closer, sweep>>
      PROVE  [SNext]_svars
  BY <1>3 DEF SNext, Elsewhere, svars, kvars, bookVars
<1>4. ASSUME CloserStep(TheWorker) \/ UNCHANGED kvars, UNCHANGED sweep
      PROVE  [SNext]_svars
  BY <1>1, <1>4 DEF SNext, OtherClosers, svars
<1>5. ASSUME NEW a \in Auctions, JobOpens(a) \/ JobCloses(a)
      PROVE  [SNext]_svars
  <2>1. Open(a, clock) \/ Close(a, clock) \/ UNCHANGED vars
    BY <1>5 DEF JobOpens, JobCloses, RunOpen, RunClose, DatabaseNow
  <2>2. UndecidedStep(a) \/ UNCHANGED vars
    BY <1>2, <2>1 DEF UndecidedStep
  <2> QED  BY <1>3, <1>5, <2>2 DEF JobOpens, JobCloses
<1>6. ASSUME NEW a \in Auctions, JobDecides(a)
      PROVE  [SNext]_svars
  BY <1>4, <1>6 DEF JobDecides, RunDecide, CloserStep
<1>7. CASE JobGoesOn
  BY <1>4, <1>7 DEF JobGoesOn, CloserStep
<1>8. ASSUME NEW id \in Ids, JobFails(id)
      PROVE  [SNext]_svars
  <2>1. CASE closer' = closer
    BY <1>8, <2>1 DEF JobFails, svars, kvars
  <2>2. CASE closer' = Without({TheWorker})
    <3>1. CASE closer[TheWorker] # Resting
      BY <1>1, <1>8, <2>2, <3>1 DEF JobFails, SNext, OtherClosers, Interrupt
    <3>2. CASE closer[TheWorker] = Resting
      <4>1. closer \in [Closers -> Closer]
        BY DEF SInv, KInv, CloserInv
      <4>2. closer' = closer
        BY <2>2, <3>2, <4>1 DEF Without
      <4> QED  BY <2>1, <4>2
    <3> QED  BY <3>1, <3>2
  <2> QED  BY <1>8, <2>1, <2>2 DEF JobFails
<1>9. CASE Kill
  <2>1. {TheWorker} \in SUBSET Closers /\ {TheWorker, TheSweeper} = {TheWorker} \cup {TheSweeper}
    BY <1>1
  <2>2. closer' = Without({TheWorker} \cup {TheSweeper})
    BY <1>9, <2>1 DEF Kill
  <2> QED  BY <1>9, <2>1, <2>2 DEF Kill, SNext, Fails
<1>10. ASSUME NEW a \in Auctions, ApproveAuction(a) \/ StaffStep(a)
       PROVE  [SNext]_svars
  BY <1>3, <1>10 DEF ApproveAuction, StaffStep, UndecidedStep
<1>11. CASE Sweeps
  BY <1>11 DEF Sweeps, SNext
<1>12. CASE Tick /\ UNCHANGED <<book, outcome, refunds, closer, sweep, jobVars>>
  BY <1>12 DEF SNext, Elsewhere
<1>13. ASSUME UNCHANGED svars
       PROVE  [SNext]_svars
  BY <1>13
<1>14. ASSUME NEW a \in Auctions, Hear(a) \/ LoseEvent(a) \/ JobIsEarly(a) \/ JobEnds(a)
       PROVE  [SNext]_svars
  BY <1>13, <1>14 DEF Hear, LoseEvent, JobIsEarly, JobEnds
<1>15. ASSUME NEW p \in plans, AddJob(p) \/ Forget(p)
       PROVE  [SNext]_svars
  BY <1>13, <1>15 DEF AddJob, Forget
<1>16. CASE Boot \/ Subscribe \/ Flush \/ \E id \in Ids : Trim(id)
  BY <1>13, <1>16 DEF Boot, Subscribe, Flush, Trim
<1>17. CASE JobStep
  BY <1>5, <1>6, <1>7, <1>8, <1>14, <1>15, <1>16, <1>17 DEF JobStep
<1>18. CASE UNCHANGED jvars
  BY <1>13, <1>18 DEF jvars
<1> QED  BY <1>9, <1>10, <1>11, <1>12, <1>16, <1>17, <1>18 DEF JNext

LEMMA SweeperInit == SInit => SInv
BY ClosingInit DEF SInit, SInv, KInit, BookInit, Init

LEMMA SweeperStays == SInv /\ [SNext]_svars => SInv'
<1> SUFFICES ASSUME SInv, [SNext]_svars
             PROVE  SInv'
  OBVIOUS
<1>1. KInv' /\ [BookNext]_bookVars
  BY SweeperSteps, ClosingStep DEF SInv
<1>2. clock' \in {clock, clock + 1} /\ clock \in Nat
  BY <1>1, ClockRuns DEF SInv, KInv, BookInv, IInv, TypeOK
<1> QED  BY <1>1, <1>2 DEF SInv

\* The invariant of the closers holds with the sweeper among them, however it fails.
THEOREM SweeperInvariant == SSpec => []SInv
<1>1. SInit => SInv
  BY SweeperInit
<1>2. SInv /\ [SNext]_svars => SInv'
  BY SweeperStays
<1> QED  BY <1>1, <1>2, PTL DEF SSpec

\* The sweeper is a closer: Sweeper implements Closing.
THEOREM SweeperIsACloser == SSpec => KSpec
<1>1. SInit => KInit
  BY DEF SInit
<1>2. SInv /\ [SNext]_svars => [KNext]_kvars
  BY SweeperSteps
<1> QED  BY <1>1, <1>2, SweeperInvariant, PTL DEF SSpec, KSpec

\* The same invariant with the queue beside the sweeper, whatever Redis loses.
THEOREM JobsInvariant == JSpec => []SInv
<1>1. SInit => SInv
  BY SweeperInit
<1>2. SInv /\ [JNext]_jvars => SInv'
  BY JobSteps, SweeperStays
<1> QED  BY <1>1, <1>2, PTL DEF JSpec

\* Jobs do to auctions, results and fees no more than the sweeper leaves to others.
THEOREM JobsAreJustClosers == JSpec => JobsAreClosers
<1>1. SInv /\ [JNext]_jvars => [SNext]_svars
  BY JobSteps
<1> QED  BY <1>1, JobsInvariant, PTL DEF JSpec, JobsAreClosers

\* With the queue and the sweeper at work on one auction, results still verify, the decision
\* is carried out whole, and fees come back once.
THEOREM JobsKeepThePromises ==
  JSpec => [](ResultsVerify /\ WinnerStandsAlone /\ DecisionIsCarriedOut /\ FeesAreReturnedOnce)
<1>1. SInit => KInit
  BY DEF SInit
<1>2. SInv /\ [JNext]_jvars => [KNext]_kvars
  BY JobSteps, SweeperSteps
<1>3. JSpec => KSpec
  BY <1>1, <1>2, JobsInvariant, PTL DEF JSpec, KSpec
<1> QED  BY <1>3, ResultsAlwaysVerify, WinnersStandAlone, DecisionsAreCarriedOut, FeesComeBackOnce, PTL
=============================================================================
