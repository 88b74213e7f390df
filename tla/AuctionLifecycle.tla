-------------------------- MODULE AuctionLifecycle --------------------------
(***************************************************************************)
(* The auction status machine (transitions.ts, lifecycle.ts) and the units *)
(* of stock auctions hold (inventory.ts).                                  *)
(*                                                                         *)
(* Every transition is one transaction: it locks the auction row, reads    *)
(* its status, locks the product row if a unit moves, and writes both.     *)
(* Since it reads nothing it has not locked, it is one step, at the moment *)
(* it takes its last lock.  What it does read earlier is the clock: now()  *)
(* is the time the transaction began, before it waited for its locks.      *)
(*                                                                         *)
(* Anybody may call any transition at any moment: a seller, staff, the     *)
(* scheduled job, its retry, or the sweeper.  Which role may do what is    *)
(* left out.  The seller's edits of products are steps of the module       *)
(* Catalog; here a product is written whenever the database allows it.     *)
(***************************************************************************)
EXTENDS Integers, FiniteSets

CONSTANTS
  Auctions,
  Products,
  ProductOf,   \* the product an auction sells one unit of
  MaxTime,     \* bound: the clock stops here
  MaxStock     \* bound: a seller has at most this many units

ASSUME ProductOfAssumption == ProductOf \in [Auctions -> Products]
ASSUME AuctionsAssumption  == IsFiniteSet(Auctions)
ASSUME TimeAssumption      == MaxTime \in Nat \ {0}
ASSUME StockAssumption     == MaxStock \in Nat

VARIABLES
  status,          \* auctions.status
  suspendedFrom,   \* auctions.suspended_from
  terms,           \* starts_at and ends_at, of the terms bidders commit to
  openedAt,        \* auctions.opened_at
  closingAt,       \* auctions.closing_at
  hold,            \* the auction's row in inventory_reservations
  stock,           \* products.stock_quantity
  reserved,        \* products.reserved_quantity
  clock            \* PostgreSQL's now()

auctionVars == <<status, suspendedFrom, terms, openedAt, closingAt>>
stockVars   == <<hold, stock, reserved>>
vars        == <<auctionVars, stockVars, clock>>

Times == 1..MaxTime
Null  == 0             \* a timestamp that is not set
None  == "none"        \* a row, or a column, that is not there

Statuses == {"draft", "pending_approval", "scheduled", "live", "closing",
             "calculating", "completed", "suspended", "cancelled"}
Terminal == {"completed", "cancelled"}

\* transitions.ts: what each operation may start from.
Sources == [submit    |-> {"draft"},
            approve   |-> {"pending_approval"},
            reject    |-> {"pending_approval"},
            open      |-> {"scheduled"},
            close     |-> {"live"},
            calculate |-> {"closing"},
            complete  |-> {"calculating"},
            suspend   |-> {"pending_approval", "scheduled", "live"},
            resume    |-> {"suspended"},
            cancel    |-> {"draft", "pending_approval", "scheduled", "live",
                           "closing", "suspended"}]

TypeOK ==
  /\ status        \in [Auctions -> Statuses \cup {None}]
  /\ suspendedFrom \in [Auctions -> Sources.suspend \cup {None}]
  /\ terms         \in [Auctions -> [starts : Nat, ends : Nat]]
  /\ openedAt      \in [Auctions -> Nat]
  /\ closingAt     \in [Auctions -> Nat]
  /\ hold          \in [Auctions -> {None, "held", "released"}]
  /\ stock         \in [Products -> Nat]
  /\ reserved      \in [Products -> Nat]
  /\ clock         \in Nat

Init ==
  /\ status        = [a \in Auctions |-> None]
  /\ suspendedFrom = [a \in Auctions |-> None]
  /\ terms         = [a \in Auctions |-> [starts |-> Null, ends |-> Null]]
  /\ openedAt      = [a \in Auctions |-> Null]
  /\ closingAt     = [a \in Auctions |-> Null]
  /\ hold          = [a \in Auctions |-> None]
  /\ stock         = [p \in Products |-> 0]
  /\ reserved      = [p \in Products |-> 0]
  /\ clock         = 1

-----------------------------------------------------------------------------
\* validateAuctionConfig, of what is modelled: the auction ends after it starts.
Terms == {t \in [starts : Times, ends : Times] : t.starts < t.ends}

\* Mutant of TermsLocked: a suspended auction may be edited.
BugTermsLocked(a) == status[a] \in {"live", "closing", "calculating"} \cup Terminal

\* termsAreLocked: bidders may have committed to the terms.
TermsLocked(a) == status[a] \in {"live", "closing", "calculating", "suspended"} \cup Terminal

\* Mutant of HoldsInventory: a suspended auction is thought to hold nothing.
BugHoldsInventory(a) == status[a] \in {"live", "closing"}

\* holdsInventory: cancelling from here gives a unit back.
HoldsInventory(a) == status[a] \in {"live", "closing", "suspended"}

Available(p) == stock[p] - reserved[p]

\* applyTransition: UPDATE auctions SET status.
Becomes(a, next) == status' = [status EXCEPT ![a] = next]

Moves(a, action, next) == status[a] \in Sources[action] /\ Becomes(a, next)

\* The rows of inventory_reservations, at most one of an auction held, and the
\* count of them cached in the product's row.
FindHeldReservation(a) == hold[a] = "held"

InsertReservation(a) == hold' = [hold EXCEPT ![a] = "held"]

MarkReservationReleased(a) == hold' = [hold EXCEPT ![a] = "released"]

AdjustReservedQuantity(p, delta) == reserved' = [reserved EXCEPT ![p] = @ + delta]

\* reserveUnit: a hold row and the cached count together, unless the hold is there.
CanReserve(a) == FindHeldReservation(a) \/ Available(ProductOf[a]) >= 1

ReserveUnit(a) ==
  IF FindHeldReservation(a)
  THEN UNCHANGED <<hold, reserved>>
  ELSE InsertReservation(a) /\ AdjustReservedQuantity(ProductOf[a], 1)

\* releaseUnit: a hold that is there is given back; nothing happens otherwise.
ReleaseUnit(a) ==
  IF FindHeldReservation(a)
  THEN MarkReservationReleased(a) /\ AdjustReservedQuantity(ProductOf[a], -1)
  ELSE UNCHANGED <<hold, reserved>>

-----------------------------------------------------------------------------
\* createAuction's INSERT.
Insert(a, t) ==
  /\ status[a] = None
  /\ Becomes(a, "draft")
  /\ terms' = [terms EXCEPT ![a] = t]
  /\ UNCHANGED <<suspendedFrom, openedAt, closingAt, stockVars, clock>>

\* The UPDATE of the terms: what the edit does not name stays as stored.
NewTerms(a, t) == terms' = [terms EXCEPT ![a] = t]

\* updateAuction, under the auction's row lock.
UpdateTerms(a, t) ==
  /\ status[a] # None
  /\ ~TermsLocked(a)
  /\ NewTerms(a, t)
  /\ UNCHANGED <<status, suspendedFrom, openedAt, closingAt, stockVars, clock>>

\* What the seller and the staff decide before the auction opens.
Submit(a) ==
  /\ Moves(a, "submit", "pending_approval")
  /\ UNCHANGED <<suspendedFrom, terms, openedAt, closingAt, stockVars, clock>>

Approve(a) ==
  /\ Moves(a, "approve", "scheduled")
  /\ UNCHANGED <<suspendedFrom, terms, openedAt, closingAt, stockVars, clock>>

Reject(a) ==
  /\ Moves(a, "reject", "draft")
  /\ UNCHANGED <<suspendedFrom, terms, openedAt, closingAt, stockVars, clock>>

\* open, of a transaction that began at `now`: live with a unit, or cancelled
\* because there is none.
Open(a, now) ==
  /\ status[a] \in Sources.open
  /\ now >= terms[a].starts
  /\ \/ /\ ~CanReserve(a)
        /\ Becomes(a, "cancelled")
        /\ UNCHANGED <<openedAt, hold, reserved>>
     \/ /\ CanReserve(a)
        /\ Becomes(a, "live")
        /\ openedAt' = [openedAt EXCEPT ![a] = now]
        /\ ReserveUnit(a)
  /\ UNCHANGED <<suspendedFrom, terms, closingAt, stock, clock>>

\* close, of a transaction that began at `now`.
Close(a, now) ==
  /\ Moves(a, "close", "closing")
  /\ now >= terms[a].ends
  /\ closingAt' = [closingAt EXCEPT ![a] = now]
  /\ UNCHANGED <<suspendedFrom, terms, openedAt, stockVars, clock>>

\* beginCalculating, the first transaction of closeAuction.
BeginCalculating(a) ==
  /\ Moves(a, "calculate", "calculating")
  /\ UNCHANGED <<suspendedFrom, terms, openedAt, closingAt, stockVars, clock>>

\* complete, with what the second transaction of closeAuction does to the unit:
\* a winner's order keeps it, any other outcome gives it back.
Complete(a, sold) ==
  /\ Moves(a, "complete", "completed")
  /\ IF sold THEN UNCHANGED <<hold, reserved>> ELSE ReleaseUnit(a)
  /\ UNCHANGED <<suspendedFrom, terms, openedAt, closingAt, stock, clock>>

Suspend(a) ==
  /\ Moves(a, "suspend", "suspended")
  /\ suspendedFrom' = [suspendedFrom EXCEPT ![a] = status[a]]
  /\ UNCHANGED <<terms, openedAt, closingAt, stockVars, clock>>

\* Mutant of Resume: back to the schedule, whatever was interrupted.
BugResume(a) ==
  /\ Moves(a, "resume", "scheduled")
  /\ suspendedFrom' = [suspendedFrom EXCEPT ![a] = None]
  /\ UNCHANGED <<terms, openedAt, closingAt, stockVars, clock>>

Resume(a) ==
  /\ Moves(a, "resume", suspendedFrom[a])
  /\ suspendedFrom' = [suspendedFrom EXCEPT ![a] = None]
  /\ UNCHANGED <<terms, openedAt, closingAt, stockVars, clock>>

Cancel(a) ==
  /\ Moves(a, "cancel", "cancelled")
  /\ IF HoldsInventory(a) THEN ReleaseUnit(a) ELSE UNCHANGED <<hold, reserved>>
  /\ UNCHANGED <<suspendedFrom, terms, openedAt, closingAt, stock, clock>>

\* The UPDATE of stock_quantity; the CHECK aborts one that would oversell.
WriteStock(p, n) ==
  /\ reserved[p] <= n
  /\ stock' = [stock EXCEPT ![p] = n]
  /\ UNCHANGED <<auctionVars, hold, reserved, clock>>

Tick ==
  /\ clock < MaxTime
  /\ clock' = clock + 1
  /\ UNCHANGED <<auctionVars, stockVars>>

\* Everything but the two transitions that only closeAuction makes.
UndecidedStep(a) ==
  \/ \E t \in Terms : UpdateTerms(a, t)
  \/ Submit(a) \/ Approve(a) \/ Reject(a)
  \/ \E now \in 1..clock : Open(a, now) \/ Close(a, now)
  \/ Suspend(a) \/ Resume(a) \/ Cancel(a)

AuctionStep(a) ==
  \/ UndecidedStep(a)
  \/ BeginCalculating(a)
  \/ \E sold \in BOOLEAN : Complete(a, sold)

Next ==
  \/ \E a \in Auctions : AuctionStep(a) \/ \E t \in Terms : Insert(a, t)
  \/ \E p \in Products, n \in 0..MaxStock : WriteStock(p, n)
  \/ Tick

Spec == Init /\ [][Next]_vars

-----------------------------------------------------------------------------
HeldFor(p) == {a \in Auctions : ProductOf[a] = p /\ hold[a] = "held"}

\* The cached count is the number of holds, and no more units are promised than
\* exist, although stock is edited while auctions open, close and are cancelled.
NothingOversold ==
  \A p \in Products : reserved[p] = Cardinality(HeldFor(p)) /\ reserved[p] <= stock[p]

\* An auction that takes bids, or is being decided, has its unit from the moment
\* it opened, through suspensions; one that never opened or was cancelled has none.
UnitFollowsAuction ==
  \A a \in Auctions :
    /\ status[a] \in {"live", "closing", "calculating"} => hold[a] = "held"
    /\ status[a] \in {None, "draft", "pending_approval", "scheduled", "cancelled"} => hold[a] # "held"
    /\ status[a] = "suspended" => (hold[a] = "held" <=> suspendedFrom[a] = "live")

\* Measured against the terms as they are now, no auction opened before its
\* start or stopped taking bids before its deadline.
NeverEarly ==
  \A a \in Auctions :
    /\ openedAt[a] # Null => openedAt[a] >= terms[a].starts
    /\ closingAt[a] # Null => closingAt[a] >= terms[a].ends

\* What bidders committed to stays: the terms never change after the auction
\* opened, not even while it is suspended.
TermsFrozenOnceOpen ==
  [][\A a \in Auctions : openedAt[a] # Null => terms'[a] = terms[a]]_vars

\* An auction that has taken bids never goes back to a state that may be edited
\* or opened again, and one that is over stays over.
NoWayBack ==
  [][\A a \in Auctions :
       /\ openedAt[a] # Null => status'[a] \notin {"draft", "pending_approval", "scheduled"}
       /\ status[a] \in Terminal => status'[a] = status[a]]_vars
=============================================================================
