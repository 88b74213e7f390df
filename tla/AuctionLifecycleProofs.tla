----------------------- MODULE AuctionLifecycleProofs -----------------------
(***************************************************************************)
(* The auction lifecycle's safety, for any number of auctions and products *)
(* and any terms.  What makes it inductive is how the timestamps tie an    *)
(* auction's past to its status: `opened_at` is set exactly on the far     *)
(* side of `open`, and a suspended auction remembers on which side it was. *)
(***************************************************************************)
EXTENDS AuctionLifecycle, FiniteSetTheorems, TLAPS

PreOpen == {None, "draft", "pending_approval", "scheduled"}

\* What holds of one auction, in terms of nothing but its own row and hold.
AuctionInv(a) ==
  /\ status[a] \in {"live", "closing", "calculating"} => hold[a] = "held"
  /\ status[a] \in PreOpen \cup {"cancelled"} => hold[a] # "held"
  /\ status[a] = "suspended" =>
       /\ suspendedFrom[a] \in Sources.suspend
       /\ hold[a] = "held" <=> suspendedFrom[a] = "live"
  /\ openedAt[a] # Null =>
       /\ openedAt[a] >= terms[a].starts
       /\ status[a] \notin PreOpen
       /\ status[a] = "suspended" => suspendedFrom[a] = "live"
  /\ closingAt[a] # Null =>
       /\ closingAt[a] >= terms[a].ends
       /\ status[a] \in {"closing", "calculating", "completed", "cancelled"}

IInv == TypeOK /\ NothingOversold /\ \A a \in Auctions : AuctionInv(a)

-----------------------------------------------------------------------------
(* Holds and the cached count. *)

LEMMA HeldIsFinite == \A p \in Products : IsFiniteSet(HeldFor(p)) /\ Cardinality(HeldFor(p)) \in Nat
<1> SUFFICES ASSUME NEW p \in Products
             PROVE  IsFiniteSet(HeldFor(p)) /\ Cardinality(HeldFor(p)) \in Nat
  OBVIOUS
<1>1. HeldFor(p) \in SUBSET Auctions
  BY DEF HeldFor
<1>2. IsFiniteSet(HeldFor(p))
  BY <1>1, AuctionsAssumption, FS_Subset
<1> QED  BY <1>2, FS_CardinalityType

\* Reserving a unit keeps the count right, and stock is there for it.
LEMMA ReserveKeepsCount ==
  ASSUME TypeOK, NothingOversold, NEW a \in Auctions, CanReserve(a), ReserveUnit(a), stock' = stock
  PROVE  /\ NothingOversold'
         /\ hold' \in [Auctions -> {None, "held", "released"}] /\ reserved' \in [Products -> Nat]
         /\ hold'[a] = "held" /\ \A b \in Auctions : b # a => hold'[b] = hold[b]
<1> DEFINE p == ProductOf[a]
<1>0. p \in Products
  BY ProductOfAssumption
<1>1. CASE hold[a] = "held"
  <2>1. hold' = hold /\ reserved' = reserved
    BY <1>1 DEF ReserveUnit, InsertReservation, FindHeldReservation, AdjustReservedQuantity
  <2>2. \A q \in Products : HeldFor(q)' = HeldFor(q)
    BY <2>1 DEF HeldFor
  <2> QED  BY <1>1, <2>1, <2>2 DEF NothingOversold, TypeOK
<1>2. CASE hold[a] # "held"
  <2>1. /\ hold' = [hold EXCEPT ![a] = "held"]
        /\ reserved' = [reserved EXCEPT ![p] = @ + 1]
    BY <1>2 DEF ReserveUnit, InsertReservation, FindHeldReservation, AdjustReservedQuantity
  <2>2. reserved[p] + 1 <= stock[p]
    BY <1>0, <1>2 DEF CanReserve, FindHeldReservation, Available, TypeOK
  <2>3. HeldFor(p)' = HeldFor(p) \cup {a} /\ a \notin HeldFor(p)
    BY <1>2, <2>1 DEF HeldFor, TypeOK
  <2>4. \A q \in Products : q # p => HeldFor(q)' = HeldFor(q)
    BY <2>1 DEF HeldFor, TypeOK
  <2>5. Cardinality(HeldFor(p) \cup {a}) = Cardinality(HeldFor(p)) + 1
    BY <1>0, <2>3, HeldIsFinite, FS_AddElement
  <2>6. NothingOversold'
    BY <1>0, <2>1, <2>2, <2>3, <2>4, <2>5 DEF NothingOversold, TypeOK
  <2> QED  BY <1>0, <2>1, <2>6 DEF TypeOK
<1> QED  BY <1>1, <1>2

\* Giving a unit back, or finding none to give back, keeps the count right too.
LEMMA ReleaseKeepsCount ==
  ASSUME TypeOK, NothingOversold, NEW a \in Auctions, ReleaseUnit(a), stock' = stock
  PROVE  /\ NothingOversold'
         /\ hold' \in [Auctions -> {None, "held", "released"}] /\ reserved' \in [Products -> Nat]
         /\ hold'[a] # "held" /\ \A b \in Auctions : b # a => hold'[b] = hold[b]
<1> DEFINE p == ProductOf[a]
<1>0. p \in Products
  BY ProductOfAssumption
<1>1. CASE hold[a] # "held"
  <2>1. hold' = hold /\ reserved' = reserved
    BY <1>1 DEF ReleaseUnit, MarkReservationReleased, FindHeldReservation, AdjustReservedQuantity
  <2>2. \A q \in Products : HeldFor(q)' = HeldFor(q)
    BY <2>1 DEF HeldFor
  <2> QED  BY <1>1, <2>1, <2>2 DEF NothingOversold, TypeOK
<1>2. CASE hold[a] = "held"
  <2>1. /\ hold' = [hold EXCEPT ![a] = "released"]
        /\ reserved' = [reserved EXCEPT ![p] = @ - 1]
    BY <1>2 DEF ReleaseUnit, MarkReservationReleased, FindHeldReservation, AdjustReservedQuantity
  <2>2. a \in HeldFor(p) /\ reserved[p] = Cardinality(HeldFor(p))
    BY <1>0, <1>2 DEF HeldFor, NothingOversold
  <2>3. HeldFor(p)' = HeldFor(p) \ {a}
    BY <2>1 DEF HeldFor, TypeOK
  <2>4. \A q \in Products : q # p => HeldFor(q)' = HeldFor(q)
    BY <2>1 DEF HeldFor, TypeOK
  <2>5. /\ IsFiniteSet(HeldFor(p) \ {a})
        /\ Cardinality(HeldFor(p) \ {a}) = Cardinality(HeldFor(p)) - 1
    BY <1>0, <2>2, HeldIsFinite, FS_RemoveElement
  <2>6. reserved[p] - 1 \in Nat
    <3>1. Cardinality(HeldFor(p) \ {a}) \in Nat
      BY <2>5, FS_CardinalityType
    <3> QED  BY <2>2, <2>5, <3>1
  <2>7. NothingOversold'
    <3>1. reserved'[p] = Cardinality(HeldFor(p))' /\ reserved'[p] <= stock'[p]
      <4>1. reserved'[p] = reserved[p] - 1 /\ reserved[p] \in Nat /\ stock[p] \in Nat /\ reserved[p] <= stock[p]
        BY <1>0, <2>1 DEF TypeOK, NothingOversold
      <4> QED  BY <2>2, <2>3, <2>5, <4>1
    <3>2. \A q \in Products : q # p => reserved'[q] = reserved[q]
      BY <2>1 DEF TypeOK
    <3> QED  BY <2>4, <3>1, <3>2 DEF NothingOversold
  <2> QED  BY <1>0, <2>1, <2>6, <2>7 DEF TypeOK
<1> QED  BY <1>1, <1>2

\* No hold and no stock moved.
LEMMA SameHolds ==
  ASSUME NothingOversold, UNCHANGED stockVars
  PROVE  NothingOversold'
<1>1. \A p \in Products : HeldFor(p)' = HeldFor(p)
  BY DEF HeldFor, stockVars
<1> QED  BY <1>1 DEF NothingOversold, stockVars

\* A step that touches one auction leaves what holds of the others alone.
LEMMA OthersKeep ==
  ASSUME NEW b \in Auctions, AuctionInv(b),
         status'[b] = status[b], suspendedFrom'[b] = suspendedFrom[b], terms'[b] = terms[b],
         openedAt'[b] = openedAt[b], closingAt'[b] = closingAt[b], hold'[b] = hold[b]
  PROVE  AuctionInv(b)'
BY DEF AuctionInv

\* So what holds of everything follows from what holds of the auction that moved.
LEMMA OneAuctionMoves ==
  ASSUME IInv, NEW a \in Auctions, TypeOK', NothingOversold', AuctionInv(a)',
         \A b \in Auctions : b # a =>
           /\ status'[b] = status[b] /\ suspendedFrom'[b] = suspendedFrom[b]
           /\ terms'[b] = terms[b] /\ openedAt'[b] = openedAt[b]
           /\ closingAt'[b] = closingAt[b] /\ hold'[b] = hold[b]
  PROVE  IInv'
<1>1. \A b \in Auctions : AuctionInv(b)'
  <2> SUFFICES ASSUME NEW b \in Auctions, b # a
               PROVE  AuctionInv(b)'
    OBVIOUS
  <2>1. AuctionInv(b)
    BY DEF IInv
  <2> QED  BY <2>1, OthersKeep
<1> QED  BY <1>1 DEF IInv

-----------------------------------------------------------------------------
(* One lemma per step. *)

LEMMA InitInv == Init => IInv
<1> SUFFICES ASSUME Init
             PROVE  IInv
  OBVIOUS
<1>1. TypeOK
  BY DEF Init, TypeOK, None, Null
<1>2. NothingOversold
  <2>1. \A p \in Products : HeldFor(p) = {}
    BY DEF Init, HeldFor, None
  <2> QED  BY <2>1, FS_EmptySet DEF Init, NothingOversold
<1>3. \A a \in Auctions : AuctionInv(a)
  BY DEF Init, AuctionInv, PreOpen, None, Null
<1> QED  BY <1>1, <1>2, <1>3 DEF IInv

LEMMA InsertStep ==
  ASSUME IInv, NEW a \in Auctions, NEW t \in Terms, Insert(a, t)
  PROVE  IInv'
<1>1. TypeOK'
  BY DEF IInv, TypeOK, Insert, Becomes, stockVars, Statuses, Terms, Times
<1>2. NothingOversold'
  BY SameHolds DEF IInv, Insert
<1>3. AuctionInv(a)'
  BY DEF IInv, TypeOK, AuctionInv, Insert, Becomes, stockVars, PreOpen, None
<1> QED  BY <1>1, <1>2, <1>3, OneAuctionMoves DEF IInv, TypeOK, Insert, Becomes, stockVars

LEMMA UpdateTermsStep ==
  ASSUME IInv, NEW a \in Auctions, NEW t \in Terms, UpdateTerms(a, t)
  PROVE  IInv'
<1>1. TypeOK'
  BY DEF IInv, TypeOK, UpdateTerms, NewTerms, stockVars, Terms, Times
<1>2. NothingOversold'
  BY SameHolds DEF IInv, UpdateTerms, NewTerms
<1>3. status[a] \in PreOpen
  BY DEF IInv, TypeOK, UpdateTerms, NewTerms, TermsLocked, Statuses, Terminal, PreOpen
<1>4. openedAt[a] = Null /\ closingAt[a] = Null
  BY <1>3 DEF IInv, AuctionInv, PreOpen, None
<1>5. AuctionInv(a)'
  BY <1>3, <1>4 DEF IInv, TypeOK, AuctionInv, UpdateTerms, NewTerms, stockVars, PreOpen, None
<1> QED  BY <1>1, <1>2, <1>5, OneAuctionMoves DEF IInv, TypeOK, UpdateTerms, NewTerms, stockVars

\* Submitting, approving, rejecting: from before the opening to before it.
LEMMA BeforeOpeningStep ==
  ASSUME IInv, NEW a \in Auctions, Submit(a) \/ Approve(a) \/ Reject(a)
  PROVE  IInv'
<1>1. /\ status[a] \in {"draft", "pending_approval"}
      /\ \E s \in {"draft", "pending_approval", "scheduled"} : status' = [status EXCEPT ![a] = s]
      /\ UNCHANGED <<suspendedFrom, terms, openedAt, closingAt, stockVars, clock>>
  BY DEF Submit, Approve, Reject, Moves, Becomes, Sources
<1>2. TypeOK'
  BY <1>1 DEF IInv, TypeOK, stockVars, Statuses
<1>3. NothingOversold'
  BY <1>1, SameHolds DEF IInv
<1>4. AuctionInv(a)'
  BY <1>1 DEF IInv, TypeOK, AuctionInv, stockVars, PreOpen, None
<1> QED  BY <1>1, <1>2, <1>3, <1>4, OneAuctionMoves DEF IInv, TypeOK, stockVars

LEMMA OpenStep ==
  ASSUME IInv, NEW a \in Auctions, NEW now \in 1..clock, Open(a, now)
  PROVE  IInv'
<1>0. status[a] = "scheduled" /\ hold[a] # "held" /\ openedAt[a] = Null /\ closingAt[a] = Null
  BY DEF IInv, AuctionInv, Open, Sources, PreOpen
<1>1. CASE UNCHANGED <<openedAt, hold, reserved>> /\ Becomes(a, "cancelled")
  <2>1. UNCHANGED <<suspendedFrom, terms, openedAt, closingAt, stockVars, clock>>
    BY <1>1 DEF Open, stockVars
  <2>2. TypeOK'
    BY <1>1, <2>1 DEF IInv, TypeOK, Becomes, stockVars, Statuses
  <2>3. NothingOversold'
    BY <2>1, SameHolds DEF IInv
  <2>4. AuctionInv(a)'
    BY <1>0, <1>1, <2>1 DEF IInv, TypeOK, AuctionInv, Becomes, stockVars, PreOpen, None
  <2> QED  BY <1>1, <2>1, <2>2, <2>3, <2>4, OneAuctionMoves DEF IInv, TypeOK, Becomes, stockVars
<1>2. CASE /\ CanReserve(a) /\ ReserveUnit(a) /\ Becomes(a, "live")
           /\ openedAt' = [openedAt EXCEPT ![a] = now]
  <2>1. UNCHANGED <<suspendedFrom, terms, closingAt, stock, clock>> /\ now >= terms[a].starts
    BY DEF Open
  <2>2. /\ NothingOversold'
        /\ hold' \in [Auctions -> {None, "held", "released"}] /\ reserved' \in [Products -> Nat]
        /\ hold'[a] = "held" /\ \A b \in Auctions : b # a => hold'[b] = hold[b]
    BY <1>2, <2>1, ReserveKeepsCount DEF IInv
  <2>3. TypeOK'
    <3>1. openedAt' \in [Auctions -> Nat]
      <4>1. now \in Nat /\ openedAt \in [Auctions -> Nat]
        BY DEF IInv, TypeOK
      <4> QED  BY <1>2, <4>1
    <3>2. status' \in [Auctions -> Statuses \cup {None}]
      BY <1>2 DEF IInv, TypeOK, Becomes, Statuses
    <3> QED  BY <2>1, <2>2, <3>1, <3>2 DEF IInv, TypeOK
  <2>4. status'[a] = "live" /\ openedAt'[a] = now
    BY <1>2 DEF IInv, TypeOK, Becomes
  <2>5. AuctionInv(a)'
    BY <1>0, <2>1, <2>2, <2>4 DEF AuctionInv, PreOpen, None
  <2> QED  BY <1>2, <2>1, <2>2, <2>3, <2>5, OneAuctionMoves DEF IInv, TypeOK, Becomes
<1> QED  BY <1>1, <1>2 DEF Open

LEMMA CloseStep ==
  ASSUME IInv, NEW a \in Auctions, NEW now \in 1..clock, Close(a, now)
  PROVE  IInv'
<1>0. status[a] = "live" /\ now \in Nat /\ now >= terms[a].ends
  BY DEF IInv, TypeOK, Close, Moves, Sources
<1>1. TypeOK'
  BY <1>0 DEF IInv, TypeOK, Close, Moves, Becomes, stockVars, Statuses
<1>2. NothingOversold'
  BY SameHolds DEF IInv, Close
<1>3. status'[a] = "closing" /\ closingAt'[a] = now
  BY DEF IInv, TypeOK, Close, Moves, Becomes
<1>4. AuctionInv(a)'
  BY <1>0, <1>3 DEF IInv, AuctionInv, Close, stockVars, PreOpen, None
<1> QED  BY <1>1, <1>2, <1>4, OneAuctionMoves DEF IInv, TypeOK, Close, Moves, Becomes, stockVars

LEMMA BeginCalculatingStep ==
  ASSUME IInv, NEW a \in Auctions, BeginCalculating(a)
  PROVE  IInv'
<1>1. TypeOK'
  BY DEF IInv, TypeOK, BeginCalculating, Moves, Becomes, stockVars, Statuses
<1>2. NothingOversold'
  BY SameHolds DEF IInv, BeginCalculating
<1>3. AuctionInv(a)'
  BY DEF IInv, TypeOK, AuctionInv, BeginCalculating, Moves, Becomes, Sources, stockVars, PreOpen, None
<1> QED  BY <1>1, <1>2, <1>3, OneAuctionMoves
            DEF IInv, TypeOK, BeginCalculating, Moves, Becomes, stockVars

\* What the end of an auction, decided or cancelled, does to its unit.
LEMMA EndKeepsCount ==
  ASSUME TypeOK, NothingOversold, NEW a \in Auctions, stock' = stock,
         ReleaseUnit(a) \/ UNCHANGED <<hold, reserved>>
  PROVE  /\ NothingOversold'
         /\ hold' \in [Auctions -> {None, "held", "released"}] /\ reserved' \in [Products -> Nat]
         /\ \A b \in Auctions : b # a => hold'[b] = hold[b]
<1>1. CASE ReleaseUnit(a)
  BY <1>1, ReleaseKeepsCount
<1>2. CASE UNCHANGED <<hold, reserved>>
  <2>1. UNCHANGED stockVars
    BY <1>2 DEF stockVars
  <2> QED  BY <1>2, <2>1, SameHolds DEF TypeOK
<1> QED  BY <1>1, <1>2

LEMMA CompleteStep ==
  ASSUME IInv, NEW a \in Auctions, NEW sold \in BOOLEAN, Complete(a, sold)
  PROVE  IInv'
<1>1. /\ UNCHANGED <<suspendedFrom, terms, openedAt, closingAt, stock, clock>>
      /\ ReleaseUnit(a) \/ UNCHANGED <<hold, reserved>>
      /\ status[a] = "calculating" /\ status' = [status EXCEPT ![a] = "completed"]
  BY DEF Complete, Moves, Becomes, Sources
<1>2. /\ NothingOversold'
      /\ hold' \in [Auctions -> {None, "held", "released"}] /\ reserved' \in [Products -> Nat]
      /\ \A b \in Auctions : b # a => hold'[b] = hold[b]
  BY <1>1, EndKeepsCount DEF IInv
<1>3. TypeOK'
  BY <1>1, <1>2 DEF IInv, TypeOK, Statuses
<1>4. status'[a] = "completed"
  BY <1>1 DEF IInv, TypeOK
<1>5. AuctionInv(a)'
  BY <1>1, <1>4 DEF IInv, AuctionInv, PreOpen, None
<1> QED  BY <1>1, <1>2, <1>3, <1>5, OneAuctionMoves DEF IInv, TypeOK

LEMMA SuspendStep ==
  ASSUME IInv, NEW a \in Auctions, Suspend(a)
  PROVE  IInv'
<1>1. /\ status[a] \in Sources.suspend /\ UNCHANGED <<terms, openedAt, closingAt, stockVars, clock>>
      /\ status' = [status EXCEPT ![a] = "suspended"]
      /\ suspendedFrom' = [suspendedFrom EXCEPT ![a] = status[a]]
  BY DEF Suspend, Moves, Becomes, Sources
<1>2. TypeOK'
  BY <1>1 DEF IInv, TypeOK, stockVars, Statuses
<1>3. NothingOversold'
  BY <1>1, SameHolds DEF IInv
<1>4. status'[a] = "suspended" /\ suspendedFrom'[a] = status[a]
  BY <1>1 DEF IInv, TypeOK
<1>5. /\ hold[a] = "held" <=> status[a] = "live"
      /\ openedAt[a] # Null => status[a] = "live"
      /\ closingAt[a] = Null
  BY <1>1 DEF IInv, AuctionInv, Sources, PreOpen
<1>6. AuctionInv(a)'
  BY <1>1, <1>4, <1>5 DEF IInv, AuctionInv, stockVars, PreOpen, None
<1> QED  BY <1>1, <1>2, <1>3, <1>6, OneAuctionMoves DEF IInv, TypeOK, stockVars

LEMMA ResumeStep ==
  ASSUME IInv, NEW a \in Auctions, Resume(a)
  PROVE  IInv'
<1>1. /\ status[a] = "suspended" /\ UNCHANGED <<terms, openedAt, closingAt, stockVars, clock>>
      /\ status' = [status EXCEPT ![a] = suspendedFrom[a]]
      /\ suspendedFrom' = [suspendedFrom EXCEPT ![a] = None]
  BY DEF Resume, Moves, Becomes, Sources
<1>2. suspendedFrom[a] \in {"pending_approval", "scheduled", "live"}
  BY <1>1 DEF IInv, AuctionInv, Sources
<1>3. TypeOK'
  BY <1>1, <1>2 DEF IInv, TypeOK, stockVars, Statuses
<1>4. NothingOversold'
  BY <1>1, SameHolds DEF IInv
<1>5. status'[a] = suspendedFrom[a]
  BY <1>1 DEF IInv, TypeOK
<1>6. /\ hold[a] = "held" <=> suspendedFrom[a] = "live"
      /\ openedAt[a] # Null => suspendedFrom[a] = "live"
      /\ closingAt[a] = Null
  BY <1>1 DEF IInv, AuctionInv
<1>7. AuctionInv(a)'
  BY <1>1, <1>2, <1>5, <1>6 DEF IInv, AuctionInv, stockVars, PreOpen, None
<1> QED  BY <1>1, <1>3, <1>4, <1>7, OneAuctionMoves DEF IInv, TypeOK, stockVars

LEMMA CancelStep ==
  ASSUME IInv, NEW a \in Auctions, Cancel(a)
  PROVE  IInv'
<1>1. /\ UNCHANGED <<suspendedFrom, terms, openedAt, closingAt, stock, clock>>
      /\ status[a] \in Sources.cancel /\ status' = [status EXCEPT ![a] = "cancelled"]
      /\ IF HoldsInventory(a) THEN ReleaseUnit(a) ELSE UNCHANGED <<hold, reserved>>
  BY DEF Cancel, Moves, Becomes
<1>2. /\ NothingOversold'
      /\ hold' \in [Auctions -> {None, "held", "released"}] /\ reserved' \in [Products -> Nat]
      /\ \A b \in Auctions : b # a => hold'[b] = hold[b]
  BY <1>1, EndKeepsCount DEF IInv
<1>3. TypeOK'
  BY <1>1, <1>2 DEF IInv, TypeOK, Statuses
<1>4. status'[a] = "cancelled"
  BY <1>1 DEF IInv, TypeOK
<1>5. hold'[a] # "held"
  <2>1. CASE HoldsInventory(a)
    BY <1>1, <2>1, ReleaseKeepsCount DEF IInv
  <2>2. CASE ~HoldsInventory(a)
    <3>1. status[a] \in PreOpen
      BY <1>1, <2>2 DEF HoldsInventory, Sources, PreOpen
    <3> QED  BY <1>1, <2>2, <3>1 DEF IInv, AuctionInv
  <2> QED  BY <2>1, <2>2
<1>6. openedAt[a] >= terms[a].starts \/ openedAt[a] = Null
  BY DEF IInv, AuctionInv
<1>7. closingAt[a] >= terms[a].ends \/ closingAt[a] = Null
  BY DEF IInv, AuctionInv
<1>8. AuctionInv(a)'
  BY <1>1, <1>4, <1>5, <1>6, <1>7 DEF AuctionInv, PreOpen, None
<1> QED  BY <1>1, <1>2, <1>3, <1>8, OneAuctionMoves DEF IInv, TypeOK

LEMMA WriteStockStep ==
  ASSUME IInv, NEW p \in Products, NEW n \in 0..MaxStock, WriteStock(p, n)
  PROVE  IInv'
<1>1. /\ UNCHANGED <<auctionVars, hold, reserved, clock>>
      /\ reserved[p] <= n /\ stock' = [stock EXCEPT ![p] = n]
  BY DEF WriteStock
<1>2. TypeOK'
  BY <1>1, StockAssumption DEF IInv, TypeOK, auctionVars
<1>3. \A q \in Products : HeldFor(q)' = HeldFor(q)
  BY <1>1 DEF HeldFor
<1>4. NothingOversold'
  BY <1>1, <1>3 DEF IInv, TypeOK, NothingOversold
<1>5. \A a \in Auctions : AuctionInv(a)'
  BY <1>1, OthersKeep DEF IInv, auctionVars
<1> QED  BY <1>2, <1>4, <1>5 DEF IInv

\* Time passes, or nothing happens.
LEMMA TickStep ==
  ASSUME IInv, UNCHANGED <<auctionVars, stockVars>>, clock' \in Nat
  PROVE  IInv'
<1>1. TypeOK'
  BY DEF IInv, TypeOK, auctionVars, stockVars
<1>2. NothingOversold'
  BY SameHolds DEF IInv
<1>3. \A a \in Auctions : AuctionInv(a)'
  BY OthersKeep DEF IInv, auctionVars, stockVars
<1> QED  BY <1>1, <1>2, <1>3 DEF IInv

LEMMA NextInv == IInv /\ [Next]_vars => IInv'
<1> SUFFICES ASSUME IInv, [Next]_vars
             PROVE  IInv'
  OBVIOUS
<1>1. ASSUME NEW a \in Auctions, AuctionStep(a)
      PROVE  IInv'
  <2>1. CASE \E t \in Terms : UpdateTerms(a, t)
    BY <2>1, UpdateTermsStep
  <2>2. CASE Submit(a) \/ Approve(a) \/ Reject(a)
    BY <2>2, BeforeOpeningStep
  <2>3. CASE \E now \in 1..clock : Open(a, now) \/ Close(a, now)
    BY <2>3, OpenStep, CloseStep
  <2>4. CASE BeginCalculating(a)
    BY <2>4, BeginCalculatingStep
  <2>5. CASE \E sold \in BOOLEAN : Complete(a, sold)
    BY <2>5, CompleteStep
  <2>6. CASE Suspend(a)
    BY <2>6, SuspendStep
  <2>7. CASE Resume(a)
    BY <2>7, ResumeStep
  <2>8. CASE Cancel(a)
    BY <2>8, CancelStep
  <2> QED  BY <1>1, <2>1, <2>2, <2>3, <2>4, <2>5, <2>6, <2>7, <2>8 DEF AuctionStep, UndecidedStep
<1>2. ASSUME NEW a \in Auctions, NEW t \in Terms, Insert(a, t)
      PROVE  IInv'
  BY <1>2, InsertStep
<1>3. ASSUME NEW p \in Products, NEW n \in 0..MaxStock, WriteStock(p, n)
      PROVE  IInv'
  BY <1>3, WriteStockStep
<1>4. CASE Tick
  <2>1. UNCHANGED <<auctionVars, stockVars>> /\ clock' = clock + 1 /\ clock \in Nat
    BY <1>4 DEF Tick, IInv, TypeOK
  <2>2. clock' \in Nat
    BY <2>1
  <2> QED  BY <2>1, <2>2, TickStep
<1>5. CASE UNCHANGED vars
  BY <1>5, TickStep DEF vars, IInv, TypeOK
<1> QED  BY <1>1, <1>2, <1>3, <1>4, <1>5 DEF Next

-----------------------------------------------------------------------------
(* What holds of every behaviour. *)

\* The inductive invariant, of which the safety theorems are parts.
THEOREM LifecycleInvariant == Spec => []IInv
<1>1. Init => IInv
  BY InitInv
<1>2. IInv /\ [Next]_vars => IInv'
  BY NextInv
<1> QED  BY <1>1, <1>2, PTL DEF Spec

\* Every column keeps its type.
THEOREM TypeCorrect == Spec => []TypeOK
<1>1. IInv => TypeOK
  BY DEF IInv
<1> QED  BY <1>1, LifecycleInvariant, PTL

\* inventory.ts: reserved_quantity is the number of held units and never more
\* than the stock, for any number of auctions of any number of products.
THEOREM StockIsNeverOversold == Spec => []NothingOversold
<1>1. IInv => NothingOversold
  BY DEF IInv
<1> QED  BY <1>1, LifecycleInvariant, PTL

\* An auction holds its unit exactly while it may still need it.
THEOREM UnitsFollowAuctions == Spec => []UnitFollowsAuction
<1>1. IInv => UnitFollowsAuction
  BY DEF IInv, AuctionInv, UnitFollowsAuction, PreOpen
<1> QED  BY <1>1, LifecycleInvariant, PTL

\* No auction opens before its start or closes before its deadline.
THEOREM NoAuctionIsEarly == Spec => []NeverEarly
<1>1. IInv => NeverEarly
  BY DEF IInv, AuctionInv, NeverEarly
<1> QED  BY <1>1, LifecycleInvariant, PTL

\* One step changes no terms of an auction that has opened.
LEMMA TermsStay ==
  ASSUME IInv, Next, NEW a \in Auctions, openedAt[a] # Null
  PROVE  terms'[a] = terms[a]
<1>1. status[a] \notin PreOpen
  BY DEF IInv, AuctionInv
<1>2. ASSUME NEW b \in Auctions, NEW t \in Terms, Insert(b, t)
      PROVE  terms'[a] = terms[a]
  BY <1>1, <1>2 DEF Insert, PreOpen, IInv, TypeOK
<1>3. ASSUME NEW b \in Auctions, NEW t \in Terms, UpdateTerms(b, t)
      PROVE  terms'[a] = terms[a]
  BY <1>1, <1>3 DEF UpdateTerms, NewTerms, TermsLocked, Statuses, Terminal, PreOpen, IInv, TypeOK
<1>4. CASE UNCHANGED terms
  BY <1>4
<1> QED
  BY <1>2, <1>3, <1>4
     DEF Next, AuctionStep, UndecidedStep, Submit, Approve, Reject, Open, Close, BeginCalculating, Complete,
         Suspend, Resume, Cancel, WriteStock, Tick, auctionVars

\* And an auction that has opened has opened for good.
LEMMA OpenedStays ==
  ASSUME IInv, Next, NEW a \in Auctions, openedAt[a] # Null
  PROVE  openedAt'[a] # Null
<1>1. ASSUME NEW b \in Auctions, NEW now \in 1..clock, Open(b, now)
      PROVE  openedAt'[a] # Null
  BY <1>1 DEF Open, IInv, TypeOK, Null
<1>2. CASE UNCHANGED openedAt
  BY <1>2
<1> QED
  BY <1>1, <1>2
     DEF Next, AuctionStep, UndecidedStep, Insert, UpdateTerms, NewTerms, Submit, Approve, Reject, Close,
         BeginCalculating, Complete, Suspend, Resume, Cancel, WriteStock, Tick, auctionVars

\* The terms bidders commit to are frozen from the moment the auction opens.
THEOREM TermsStayFrozen == Spec => TermsFrozenOnceOpen
<1> DEFINE Frozen == \A a \in Auctions : openedAt[a] # Null => terms'[a] = terms[a]
<1>1. IInv /\ [Next]_vars => [Frozen]_vars
  BY TermsStay DEF vars
<1> QED  BY <1>1, LifecycleInvariant, PTL DEF Spec, TermsFrozenOnceOpen

\* An auction that has opened is never opened again, and one that is over stays over.
THEOREM OverIsOver == Spec => NoWayBack
<1> DEFINE Onward ==
      \A a \in Auctions :
        /\ openedAt[a] # Null => status'[a] \notin {"draft", "pending_approval", "scheduled"}
        /\ status[a] \in Terminal => status'[a] = status[a]
<1>1. IInv /\ [Next]_vars => [Onward]_vars
  <2> SUFFICES ASSUME IInv, Next
               PROVE  Onward
    BY DEF vars
  <2>1. IInv'
    BY NextInv
  <2>2. ASSUME NEW a \in Auctions, openedAt[a] # Null
        PROVE  status'[a] \notin {"draft", "pending_approval", "scheduled"}
    <3>1. openedAt'[a] # Null
      BY <2>2, OpenedStays
    <3> QED  BY <2>1, <3>1 DEF IInv, AuctionInv, PreOpen
  <2>3. ASSUME NEW a \in Auctions, status[a] \in Terminal
        PROVE  status'[a] = status[a]
    <3>1. ASSUME NEW b \in Auctions, NEW s, status' = [status EXCEPT ![b] = s], status[b] \notin Terminal
          PROVE  status'[a] = status[a]
      BY <2>3, <3>1 DEF IInv, TypeOK
    <3>2. \/ UNCHANGED status
          \/ \E b \in Auctions : \E s : status' = [status EXCEPT ![b] = s] /\ status[b] \notin Terminal
      BY DEF Next, AuctionStep, UndecidedStep, Insert, UpdateTerms, NewTerms, Submit, Approve, Reject, Open, Close,
             BeginCalculating, Complete, Suspend, Resume, Cancel, WriteStock, Tick, auctionVars,
             Moves, Becomes, Sources, Terminal, None
    <3> QED  BY <3>1, <3>2
  <2> QED  BY <2>2, <2>3
<1> QED  BY <1>1, LifecycleInvariant, PTL DEF Spec, NoWayBack
=============================================================================
