------------------------------ MODULE Closing ------------------------------
(***************************************************************************)
(* What happens to an auction after the bidding: closeAuction of           *)
(* resultService.ts, the winner's order, and the return of the fees.       *)
(*                                                                         *)
(* Any number of closers (the scheduled job, its retries, the sweeper) may *)
(* close the same auction at once, and any of them may die anywhere.  Each *)
(* makes a first transaction that marks the auction, a second one that     *)
(* decides it, and then one small transaction per participant to whom a    *)
(* fee is owed.  Both of the first two hold the auction's row lock from    *)
(* beginning to end, so each is one step.                                  *)
(*                                                                         *)
(* Bids arrive as the module BidBook promises.  Of the wallets, only the   *)
(* entries that return fees are kept; a credit is never refused for the    *)
(* wallet's state (module WalletLedger).  Events are left out.             *)
(***************************************************************************)
EXTENDS BidBook, LubV1, Sequences

CONSTANTS
  Closers,
  Currencies,
  Currency,          \* auctions.currency
  DefaultCurrency    \* of the wallet that is meant when no currency is named

ASSUME CurrencyAssumption == DefaultCurrency \in Currencies /\ Currency \in [Auctions -> Currencies]
ASSUME UserOrderAssumption == Users \subseteq Nat

VARIABLES
  results,   \* the table auction_results
  orders,    \* the orders that auctions made
  refunds,   \* by auction and user: the bid_fee_refund entries of the user's ledger
  closer     \* what each closer is doing

outcome == <<results, orders>>
kvars   == <<bookVars, outcome, refunds, closer>>

Counts == [bids : Nat, participants : Nat, unique : Nat]
Result == [auction : Auctions, outcome : {"winner", "no_unique_bid", "no_bids", "cancelled"},
           winner : SUBSET Bid, frozen : SUBSET Bid, counts : Counts]
Order  == [auction : Auctions, user : Users, amount : Ladder]
Entry  == [amount : Nat, currency : Currencies]
Payer  == [user : Users, fees : Nat]
Closer == [at : {"idle", "decide", "list", "refund"}, auction : Auctions \cup {None},
           todo : SUBSET Payer]

KTypeOK ==
  /\ BookTypeOK
  /\ results \subseteq Result
  /\ orders \subseteq Order
  /\ refunds \in [Auctions -> [Users -> Seq(Entry)]]
  /\ closer \in [Closers -> Closer]

Resting == [at |-> "idle", auction |-> None, todo |-> {}]

NothingClosed ==
  /\ results = {} /\ orders = {}
  /\ refunds = [a \in Auctions |-> [u \in Users |-> <<>>]]
  /\ closer = [c \in Closers |-> Resting]

KInit == BookInit /\ NothingClosed

-----------------------------------------------------------------------------
ResultOf(a) == {r \in results : r.auction = a}
OrderOf(a)  == {o \in orders : o.auction = a}

\* decideOutcome.
Outcome(a, winner) ==
  CASE status[a] = "cancelled" -> "cancelled"
    [] status[a] # "cancelled" /\ winner # {} -> "winner"
    [] status[a] # "cancelled" /\ winner = {} /\ BidsIn(a) = {} -> "no_bids"
    [] OTHER -> "no_unique_bid"

\* checksumFrozenBids: a hash of the id, the user and the amount of every bid.  The set
\* stands for its hash: two of them are equal when the bids are.
FrozenBids(a) == BidsIn(a)

\* What an attempt computes.
Computed(a, winner, why) ==
  [auction |-> a, outcome |-> why, winner |-> winner, frozen |-> FrozenBids(a),
   counts |-> Statistics(BidsIn(a))]

\* Mutant of Decision: a cancelled auction is decided like any other.
BugDecision(a) ==
  LET winner == Winner(BidsIn(a)) IN
  Computed(a, winner, IF winner # {} THEN "winner" ELSE Outcome(a, winner))

Decision(a) ==
  LET winner == IF status[a] = "cancelled" THEN {} ELSE Winner(BidsIn(a))
  IN  Computed(a, winner, Outcome(a, winner))

\* insertResult: what the table holds after INSERT ... ON CONFLICT DO NOTHING.
Stored(a) == IF ResultOf(a) = {} THEN {Decision(a)} ELSE ResultOf(a)

\* createWinnerOrder: the winner owes what the winner bid.
WinnerOrder(a, w) == [auction |-> a, user |-> w.user, amount |-> w.amount]

\* insertAuctionOrder, likewise.
Ordered(a, r) == IF OrderOf(a) = {} THEN {WinnerOrder(a, w) : w \in r.winner} ELSE {}

\* verifyResult: the bids as they are now give what was published.
Verifies(r) ==
  LET now == BidsIn(r.auction) IN
  /\ r.frozen = FrozenBids(r.auction)
  /\ r.counts = Statistics(now)
  /\ r.winner = IF r.outcome = "cancelled" THEN {} ELSE Winner(now)

\* settleMoney: which outcomes return the fees.
Owes(r) == r.outcome \in {"no_unique_bid", "cancelled"}

\* listFeePayers.
Payers(a) == {[user |-> u, fees |-> paid[a][u]] : u \in {v \in Users : paid[a][v] > 0}}

\* Mutant of Returned: every attempt makes up a key of its own.
BugReturned(a, u) == FALSE

\* The wallet knows the key auction-refund:<a>:<u>.
Returned(a, u) == refunds[a][u] # <<>>

-----------------------------------------------------------------------------
Turns(c, at, a, todo) ==
  closer' = [closer EXCEPT ![c] = [at |-> at, auction |-> a, todo |-> todo]]

Rests(c) == closer' = [closer EXCEPT ![c] = Resting]

\* The first transaction of closeAuction, on an auction nobody has begun to decide.
BeginClosing(c, a) ==
  /\ closer[c] = Resting
  /\ BeginCalculating(a)
  /\ Turns(c, "decide", a, {})
  /\ UNCHANGED <<book, outcome, refunds>>

\* The same, on one that was begun, or that was cancelled; any other status but
\* completed is refused.
ResumeClosing(c, a) ==
  /\ closer[c] = Resting
  /\ status[a] \in {"calculating", "cancelled"}
  /\ Turns(c, "decide", a, {})
  /\ UNCHANGED <<bookVars, outcome, refunds>>

\* Mutant of CarryOut: an attempt that finds the auction decided gives the unit back.
BugCarryOut(a, sold) ==
  \/ Complete(a, sold)
  \/ /\ status[a] \in Terminal
     /\ ReleaseUnit(a)
     /\ UNCHANGED <<auctionVars, stock, clock>>

\* The status and the unit: complete, or nothing left to complete.
CarryOut(a, sold) ==
  \/ Complete(a, sold)
  \/ /\ status[a] \in Terminal
     /\ IF sold THEN UNCHANGED <<hold, reserved>> ELSE ReleaseUnit(a)
     /\ UNCHANGED <<auctionVars, stock, clock>>

\* The second transaction: the decision, whatever is stored already, and all
\* that follows from it.
Decide(c) ==
  LET a == closer[c].auction IN
  /\ closer[c].at = "decide"
  /\ \E r \in Stored(a) :
       /\ results' = results \cup {r}
       /\ orders' = orders \cup Ordered(a, r)
       /\ CarryOut(a, r.outcome = "winner")
       /\ IF Owes(r) THEN Turns(c, "list", a, {}) ELSE Rests(c)
  /\ UNCHANGED <<book, refunds>>

\* refundParticipationFees of a decided auction: closeAuction once more, or
\* sweepOutstandingRefunds, whose list may be old.
StartRefunds(c, a) ==
  /\ closer[c] = Resting
  /\ \E r \in ResultOf(a) : Owes(r)
  /\ Turns(c, "list", a, {})
  /\ UNCHANGED <<bookVars, outcome, refunds>>

\* The list of those to pay is read with no lock.
ListPayers(c) ==
  LET a == closer[c].auction IN
  /\ closer[c].at = "list"
  /\ IF Payers(a) = {} THEN Rests(c) ELSE Turns(c, "refund", a, Payers(a))
  /\ UNCHANGED <<bookVars, outcome, refunds>>

\* One wallet, one transaction: the entry is booked, or was booked before and is
\* replayed.  A stored entry of another amount is a conflict and ends the pass.
Refund(c) ==
  LET a == closer[c].auction
      p == CHOOSE x \in closer[c].todo : \A y \in closer[c].todo : x.user <= y.user
      u == p.user
      rest == closer[c].todo \ {p}
  IN
  /\ closer[c].at = "refund"
  /\ IF Returned(a, u)
     THEN UNCHANGED refunds
     ELSE refunds' = [refunds EXCEPT ![a][u] = Append(@, [amount |-> p.fees, currency |-> DefaultCurrency])]
  /\ IF rest = {} \/ \E i \in DOMAIN refunds[a][u] : refunds[a][u][i].amount # p.fees
     THEN Rests(c)
     ELSE Turns(c, "refund", a, rest)
  /\ UNCHANGED <<bookVars, outcome>>

Without(dead) == [c \in Closers |-> IF c \in dead THEN Resting ELSE closer[c]]

\* A process dies with its closers, a transaction fails, or a wallet's exception ends
\* the pass: what was committed stays, and the rest is not done.
Interrupt(dead) ==
  /\ \E c \in dead : closer[c] # Resting
  /\ closer' = Without(dead)
  /\ UNCHANGED <<bookVars, outcome, refunds>>

CloserStep(c) ==
  \/ \E a \in Auctions : BeginClosing(c, a) \/ ResumeClosing(c, a) \/ StartRefunds(c, a)
  \/ Decide(c) \/ ListPayers(c) \/ Refund(c)

\* All that happens to auctions, products and bids without a closer.
Elsewhere ==
  /\ \/ \E a \in Auctions, u \in Users, amounts \in SUBSET Ladder : PlaceBids(a, u, amounts)
     \/ /\ \/ \E a \in Auctions : UndecidedStep(a) \/ \E t \in Terms : Insert(a, t)
           \/ \E p \in Products, n \in 0..MaxStock : WriteStock(p, n)
           \/ Tick
        /\ UNCHANGED book
  /\ UNCHANGED <<outcome, refunds, closer>>

KNext ==
  \/ Elsewhere
  \/ \E c \in Closers : CloserStep(c)
  \/ \E dead \in SUBSET Closers : Interrupt(dead)

KSpec == KInit /\ [][KNext]_kvars

-----------------------------------------------------------------------------
\* A published result is evidence: there is one per auction, and whenever
\* verifyResult counts the bids again and looks for the winner again, it finds
\* what was published, however many attempts were made and whatever came late.
ResultsVerify == \A r \in results : ResultOf(r.auction) = {r} /\ Verifies(r)

\* The rule as the bidders are told it (docs/results.md): nobody else chose the
\* winning amount, and every lower one was chosen by two or more of them; there
\* is no winner only if no amount was chosen by one bidder alone.
WinnerStandsAlone ==
  \A r \in results :
    LET B == BidsIn(r.auction)
        Alone(b) == \A d \in B : d.amount = b.amount => d.user = b.user
    IN
    /\ r.outcome = "winner" =>
         \E w \in B : r.winner = {w} /\ Alone(w) /\ \A b \in B : b.amount < w.amount => ~Alone(b)
    /\ r.outcome \in {"no_unique_bid", "no_bids"} => \A b \in B : ~Alone(b)

\* The result, the status, the unit and the order are one fact, committed whole:
\* a winner has an order of what the winner bid and the unit is kept for it; any
\* other outcome has neither, and nothing is published before it is carried out.
DecisionIsCarriedOut ==
  \A a \in Auctions :
    /\ status[a] = "completed" => ResultOf(a) # {}
    /\ ResultOf(a) = {} => OrderOf(a) = {}
    /\ \A r \in ResultOf(a) :
         /\ status[a] = IF r.outcome = "cancelled" THEN "cancelled" ELSE "completed"
         /\ OrderOf(a) = {[auction |-> a, user |-> w.user, amount |-> w.amount] : w \in r.winner}
         /\ r.outcome = "winner" <=> r.winner # {}
         /\ r.outcome = "winner" <=> hold[a] = "held"

\* A fee is returned once, whole, and only after an outcome that returns fees,
\* although passes over one auction overlap, die half-way and are made again.
FeesAreReturnedOnce ==
  \A a \in Auctions, u \in Users :
    refunds[a][u] # <<>> =>
      /\ Len(refunds[a][u]) = 1
      /\ refunds[a][u][1].amount = paid[a][u] /\ paid[a][u] > 0
      /\ \E r \in ResultOf(a) : r.outcome \in {"no_unique_bid", "cancelled"}

\* What the closers do to auctions and units is what the lifecycle allows, and
\* they never touch a bid: all that holds of BidBook and AuctionLifecycle holds here.
ImplementsBook == [][BookNext]_bookVars

\* docs/auction-closing.md, "what the participant was actually charged": fees are
\* charged in the auction's currency, and come back in it.
FeesReturnInKind ==
  \A a \in Auctions, u \in Users :
    \A i \in DOMAIN refunds[a][u] : refunds[a][u][i].currency = Currency[a]
=============================================================================
