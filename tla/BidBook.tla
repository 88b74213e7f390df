------------------------------ MODULE BidBook ------------------------------
(***************************************************************************)
(* What the rest of the system may rely on from bidding: a book of bids    *)
(* and of what each participant paid for them, which grows one accepted    *)
(* batch at a time, bids and fee together, and only while the auction is   *)
(* live.  How submitBids keeps this promise, with its keys, locks, retries *)
(* and crashes, is the module Bidding, which implements this one.          *)
(***************************************************************************)
EXTENDS AuctionLifecycle

CONSTANTS
  Users,
  Ladder,    \* the amounts that the terms of the auctions allow
  MaxBids,   \* auctions.max_bids_per_user
  Fee        \* auctions.bid_fee_minor

ASSUME BookAssumption == /\ IsFiniteSet(Users) /\ IsFiniteSet(Ladder) /\ Ladder \subseteq Nat
                         /\ MaxBids \in Nat /\ Fee \in Nat

VARIABLES
  bids,   \* the table bids, whose rows are never changed
  paid    \* auction_participants.total_fees_minor

book     == <<bids, paid>>
bookVars == <<vars, book>>

Bid == [auction : Auctions, user : Users, amount : Ladder]

BookTypeOK ==
  /\ TypeOK
  /\ bids \subseteq Bid
  /\ paid \in [Auctions -> [Users -> Nat]]

EmptyBook ==
  /\ bids = {}
  /\ paid = [a \in Auctions |-> [u \in Users |-> 0]]

BookInit == Init /\ EmptyBook

BidsIn(a)      == {b \in bids : b.auction = a}
PlacedBy(a, u) == {b \in BidsIn(a) : b.user = u}

\* Mutant of Accepting: a batch that was on its way is let in after the close.
BugAccepting(a) == status[a] \in {"live", "closing", "calculating", "completed"}

\* submitBids, step 3: the status is the only freeze there is.
Accepting(a) == status[a] = "live"

\* One accepted batch, at the moment it commits.
PlaceBids(a, u, amounts) ==
  LET batch == {[auction |-> a, user |-> u, amount |-> m] : m \in amounts} IN
  /\ Accepting(a)
  /\ amounts # {}
  /\ batch \cap bids = {}
  /\ Cardinality(PlacedBy(a, u)) + Cardinality(amounts) <= MaxBids
  /\ bids' = bids \cup batch
  /\ paid' = [paid EXCEPT ![a][u] = @ + Fee * Cardinality(amounts)]
  /\ UNCHANGED vars

BookNext ==
  \/ \E a \in Auctions, u \in Users, amounts \in SUBSET Ladder : PlaceBids(a, u, amounts)
  \/ Next /\ UNCHANGED book

BookSpec == BookInit /\ [][BookNext]_bookVars
=============================================================================
