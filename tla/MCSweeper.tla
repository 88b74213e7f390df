----------------------------- MODULE MCSweeper -----------------------------
(***************************************************************************)
(* Two stories of one product with one unit, each with a second closer     *)
(* beside the sweeper.  Early: an auction is about to open, two users may  *)
(* bid, and the sweeper may fail.  Late: bidding is over, one auction      *)
(* was cancelled, with two bids on it, and a second one, with none, is due *)
(* to be closed; a list names one auction at a time.                       *)
(***************************************************************************)
EXTENDS Sweeper

CONSTANTS a1, a2, p1

MCProductOf == [a \in Auctions |-> p1]
MCCurrency  == [a \in Auctions |-> "ETB"]

Common ==
  /\ suspendedFrom = [a \in Auctions |-> None]
  /\ terms         = [a \in Auctions |-> [starts |-> 1, ends |-> 2]]
  /\ stock         = [p \in Products |-> MaxStock]
  /\ reserved      = [p \in Products |-> Cardinality(HeldFor(p))]
  /\ NothingClosed
  /\ pass = "rest" /\ work = NoWork

Early ==
  /\ status    = [a \in Auctions |-> IF a = a1 THEN "scheduled" ELSE "cancelled"]
  /\ openedAt  = [a \in Auctions |-> Null]
  /\ closingAt = [a \in Auctions |-> Null]
  /\ hold      = [a \in Auctions |-> None]
  /\ clock     = 1
  /\ EmptyBook
  /\ failures = 0

Late ==
  /\ status    = [a \in Auctions |-> IF a = a1 THEN "live" ELSE "cancelled"]
  /\ openedAt  = [a \in Auctions |-> 1]
  /\ closingAt = [a \in Auctions |-> Null]
  /\ hold      = [a \in Auctions |-> IF a = a1 THEN "held" ELSE "released"]
  /\ clock     = 2
  /\ bids      = {[auction |-> a2, user |-> u, amount |-> 1] : u \in Users}
  /\ paid      = [a \in Auctions |-> [u \in Users |-> IF a = a2 THEN Fee ELSE 0]]
  /\ failures  = MaxFailures

MCInit == (Early \/ Late) /\ Common

MCSpec == MCInit /\ [][SNext]_svars /\ WF_svars(SweeperStep)
=============================================================================
