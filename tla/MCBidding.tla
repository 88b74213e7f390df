----------------------------- MODULE MCBidding -----------------------------
(***************************************************************************)
(* One auction, just opened, that allows two bids per user at a fee of one *)
(* and ends at time 2; two attempts at a time of five submissions, chosen  *)
(* to meet each other: a batch of two, one that would pass the limit       *)
(* beside it, one that reuses the first's key for the second's amount,     *)
(* another user's under the same key, and one off the ladder.              *)
(***************************************************************************)
EXTENDS Bidding

CONSTANTS a1, p1, u1, u2, c1, c2, k1, k2

MCProductOf == [a \in Auctions |-> p1]

Ask(u, k, amounts) == [auction |-> a1, user |-> u, key |-> k, amounts |-> amounts]

\* Two attempts of one submission, and one of another under a key of its own.
MCContenders == {Ask(u1, k1, {1}), Ask(u1, k2, {2})}

MCSubmissions ==
  {Ask(u1, k1, {1, 2}), Ask(u1, k2, {3}), Ask(u1, k1, {3}), Ask(u2, k1, {1}), Ask(u2, k2, {9})}

\* The auction has opened at time 1, with the only unit there is.
MCInit ==
  /\ status        = [a \in Auctions |-> "live"]
  /\ suspendedFrom = [a \in Auctions |-> None]
  /\ terms         = [a \in Auctions |-> [starts |-> 1, ends |-> 2]]
  /\ openedAt      = [a \in Auctions |-> 1]
  /\ closingAt     = [a \in Auctions |-> Null]
  /\ hold          = [a \in Auctions |-> "held"]
  /\ stock         = [p \in Products |-> 1]
  /\ reserved      = [p \in Products |-> 1]
  /\ clock         = 1
  /\ BEmpty

MCSpec == MCInit /\ [][BNext]_bvars
MCFairSpec == MCSpec /\ Fairness
=============================================================================
