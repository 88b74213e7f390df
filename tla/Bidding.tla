------------------------------ MODULE Bidding ------------------------------
(***************************************************************************)
(* `submitBids` of bidService.ts, with idempotency.ts and bidRepository.ts,*)
(* beside the lifecycle of the auctions and the other uses of the wallets. *)
(*                                                                         *)
(* An attempt looks at the auction before it takes any lock; then, in one  *)
(* transaction, it claims its idempotency key, waits for the auction's row *)
(* lock, judges the batch under that lock, and writes bids, fee, counters  *)
(* and the answer together.  Clients retry what they have asked for, and   *)
(* attempts die at any point.  The participant's row is only ever locked   *)
(* by a holder of the auction's lock, so it needs no lock of its own here. *)
(***************************************************************************)
EXTENDS AuctionLifecycle

CONSTANTS
  Users,
  Keys,         \* idempotency keys
  Amounts,      \* what a client may ask for
  Ladder,       \* the amounts that the terms of the auctions allow
  MaxBids,      \* auctions.max_bids_per_user
  Fee,          \* auctions.bid_fee_minor
  Submissions,  \* what clients ask for, again and again
  Attempts,     \* concurrent executions of submitBids
  Free,         \* "nobody holds the lock"
  MaxBalance    \* bound: a wallet never holds more than this

\* parseAmounts and assertNoRepeats: some amounts, none of them twice.
Submission == [auction : Auctions, user : Users, key : Keys, amounts : (SUBSET Amounts) \ {{}}]

ASSUME SubmissionsAssumption == Submissions \subseteq Submission /\ Submissions # {}
ASSUME AmountsAssumption     == IsFiniteSet(Amounts) /\ Ladder \subseteq Amounts
ASSUME FeeAssumption         == Fee \in Nat /\ MaxBids \in Nat /\ MaxBalance \in Nat
ASSUME AttemptsAssumption    == Free \notin Attempts

VARIABLES
  bids,          \* the table bids
  keys,          \* idempotency_keys, with the stored answers
  participant,   \* auction_participants
  total,         \* auctions.total_bids and total_participants
  spendable,     \* the balance of each user's wallet, zero while it is frozen
  fees,          \* the bid_fee entries of the wallets' ledgers
  keyLock,       \* who has inserted this key and not committed
  rowLock,       \* who holds the auction's row lock
  pc, asked,     \* where each attempt is, and what it was asked
  judged,        \* the clock_timestamp() of its verdict
  told           \* its answer

tables    == <<bids, keys, participant, total>>
walletRow == <<spendable, fees>>
attempt   == <<keyLock, rowLock, pc, asked, judged, told>>
bvars     == <<vars, tables, walletRow, attempt>>

\* A row of bids: all but what this module does not tell apart.
BidRow == [auction : Auctions, user : Users, amount : Amounts, key : Keys]

\* A row of auction_participants, and what a user without one has.
Row     == [bids : Nat, fees : Nat]
Totals  == [bids : Nat, participants : Nat]
NoRow   == [bids |-> 0, fees |-> 0]
Nothing == [kind |-> "none", amounts |-> {}, count |-> 0, at |-> 0]
Refusals == {"not_live", "ended", "off_ladder", "conflict", "limit", "duplicate", "wallet"}

BTypeOK ==
  /\ TypeOK
  /\ bids \subseteq BidRow
  /\ keys \subseteq [auction : Auctions, user : Users, key : Keys, amounts : SUBSET Amounts,
                     count : Nat, at : Nat]
  /\ participant \in [Auctions -> [Users -> Row]]
  /\ total   \in [Auctions -> Totals]
  /\ spendable \in [Users -> Nat]
  /\ fees \subseteq [user : Users, key : Keys, amount : Nat]
  /\ keyLock \in [Keys -> Attempts \cup {Free}]
  /\ rowLock \in [Auctions -> Attempts \cup {Free}]
  /\ pc      \in [Attempts -> {"idle", "claim", "lock", "judge", "commit", "answer"}]
  /\ asked   \in [Attempts -> Submissions]
  /\ judged  \in [Attempts -> Nat]
  /\ told    \in [Attempts -> [kind : {"none", "accepted", "replayed"} \cup Refusals,
                               amounts : SUBSET Amounts, count : Nat, at : Nat]]

SomeSubmission == CHOOSE r \in Submissions : TRUE   \* stands for "nothing asked"

\* The tables of this module are empty and no attempt runs.
BEmpty ==
  /\ bids = {} /\ keys = {} /\ fees = {}
  /\ participant = [a \in Auctions |-> [u \in Users |-> NoRow]]
  /\ total   = [a \in Auctions |-> [bids |-> 0, participants |-> 0]]
  /\ spendable = [u \in Users |-> 0]
  /\ keyLock = [k \in Keys |-> Free]
  /\ rowLock = [a \in Auctions |-> Free]
  /\ pc      = [c \in Attempts |-> "idle"]
  /\ asked   = [c \in Attempts |-> SomeSubmission]
  /\ judged  = [c \in Attempts |-> 0]
  /\ told    = [c \in Attempts |-> Nothing]

BInit == Init /\ BEmpty

-----------------------------------------------------------------------------
BidsOf(a, u) == {b \in bids : b.auction = a /\ b.user = u}
Batch(r)     == {[auction |-> r.auction, user |-> r.user, amount |-> m, key |-> r.key] : m \in r.amounts}
Charge(r)    == Fee * Cardinality(r.amounts)

\* assertAmountsAllowed: from the least to the greatest amount, by the increment.
OnLadder(r) == r.amounts \subseteq Ladder

\* findBidsByIdempotencyKey: the amounts that a retry is told it has.
BidsUnder(r) == {b.amount : b \in {x \in BidsOf(r.auction, r.user) : x.key = r.key}}

\* recountAuction: what the cached counters of an auction are the count of.
Recount(a) ==
  LET counted == {b \in bids : b.auction = a} IN
  [bids |-> Cardinality(counted), participants |-> Cardinality({b.user : b \in counted})]

\* Mutant of SameRequest: a key answers whatever its user asks.
BugSameRequest(r, x) == x.user = r.user

\* claimKey: the user and the request hash of the stored key are this request's.
SameRequest(r, x) == x.user = r.user /\ x.auction = r.auction /\ x.amounts = r.amounts

\* findExistingAmounts, and what the unique index of the INSERT refuses.
Repeats(r) == {b \in BidsOf(r.auction, r.user) : b.amount \in r.amounts}

\* Mutant of InWindow: the status is trusted, the deadline is not looked at.
BugInWindow(a) == TRUE

\* assertAcceptingBids, with the time read once the lock is held.
InWindow(a) == terms[a].starts <= clock /\ clock < terms[a].ends

\* Mutant of WithinLimit: the batch is not counted.
BugWithinLimit(r) == participant[r.auction][r.user].bids < MaxBids

\* assertDeliverable: the auction's unit is still held for it.
Deliverable(r) == FindHeldReservation(r.auction)

\* The bid limit, read from the participant's locked row.
WithinLimit(r) == participant[r.auction][r.user].bids + Cardinality(r.amounts) <= MaxBids

\* Steps 3 to 7 of submitBids, in the order in which they refuse.
Verdict(r) ==
  IF status[r.auction] # "live" THEN "not_live"
  ELSE IF ~InWindow(r.auction) THEN "ended"
  ELSE IF ~OnLadder(r) THEN "off_ladder"
  ELSE IF ~Deliverable(r) THEN "not_live"
  ELSE IF ~WithinLimit(r) THEN "limit"
  ELSE IF Repeats(r) # {} THEN "duplicate"
  ELSE "accepted"

\* The entry the wallet already has under this submission's key, if any.
Charged(r) == {f \in fees : f.user = r.user /\ f.key = r.key}

\* chargeFee through applyMovement: a zero fee moves nothing, a key the wallet
\* knows is replayed or refused, and a debit needs money that can be spent.
Payable(r) ==
  \/ Charge(r) = 0
  \/ \E f \in Charged(r) : f.amount = Charge(r)
  \/ Charged(r) = {} /\ spendable[r.user] >= Charge(r)

\* Mutant of Pay: the fee is taken once per submission instead of once per bid.
BugPay(r) ==
  IF Fee = 0 \/ Charged(r) # {}
  THEN UNCHANGED walletRow
  ELSE /\ spendable' = [spendable EXCEPT ![r.user] = @ - Fee]
       /\ fees' = fees \cup {[user |-> r.user, key |-> r.key, amount |-> Fee]}

Pay(r) ==
  IF Charge(r) = 0 \/ Charged(r) # {}
  THEN UNCHANGED walletRow
  ELSE /\ spendable' = [spendable EXCEPT ![r.user] = @ - Charge(r)]
       /\ fees' = fees \cup {[user |-> r.user, key |-> r.key, amount |-> Charge(r)]}

-----------------------------------------------------------------------------
Goes(c, next) == pc' = [pc EXCEPT ![c] = next]

\* Mutant of Unlock: the claim of the key outlives the transaction that made it.
BugUnlock(c) ==
  /\ rowLock' = [a \in Auctions |-> IF rowLock[a] = c THEN Free ELSE rowLock[a]]
  /\ UNCHANGED keyLock

\* COMMIT or ROLLBACK: the uncommitted key and the row lock go.
Unlock(c) ==
  /\ rowLock' = [a \in Auctions |-> IF rowLock[a] = c THEN Free ELSE rowLock[a]]
  /\ keyLock' = [k \in Keys |-> IF keyLock[k] = c THEN Free ELSE keyLock[k]]

Answers(c, kind, amounts, count, at) ==
  /\ Goes(c, "answer")
  /\ told' = [told EXCEPT ![c] = [kind |-> kind, amounts |-> amounts, count |-> count, at |-> at]]
  /\ judged' = [judged EXCEPT ![c] = 0]

\* A refusal rolls everything back, the claim of the key included.
Refuse(c, kind) == Answers(c, kind, {}, 0, 0) /\ Unlock(c) /\ UNCHANGED <<vars, tables, walletRow, asked>>

\* The checks before the transaction, on rows nobody has locked.
SubmitBids(c, r) ==
  /\ pc[c] = "idle"
  /\ asked' = [asked EXCEPT ![c] = r]
  /\ IF status[r.auction] = "live" /\ OnLadder(r)
     THEN Goes(c, "claim") /\ UNCHANGED <<told, judged>>
     ELSE Answers(c, IF status[r.auction] # "live" THEN "not_live" ELSE "off_ladder", {}, 0, 0)
  /\ UNCHANGED <<vars, tables, walletRow, keyLock, rowLock>>

\* claimKey.  The INSERT waits for whoever has inserted the key and not committed;
\* then the key is claimed, or its stored answer is replayed, or it is refused.
Claim(c) ==
  LET r == asked[c]
      stored == {x \in keys : x.key = r.key}
  IN
  /\ pc[c] = "claim"
  /\ keyLock[r.key] = Free
  /\ \/ /\ stored = {}
        /\ keyLock' = [keyLock EXCEPT ![r.key] = c]
        /\ Goes(c, "lock")
        /\ UNCHANGED <<vars, tables, walletRow, rowLock, asked, judged, told>>
     \/ \E x \in stored :
          /\ SameRequest(r, x)
          /\ Answers(c, "replayed", BidsUnder(r), x.count, x.at)
          /\ UNCHANGED <<vars, tables, walletRow, keyLock, rowLock, asked>>
     \/ /\ \E x \in stored : ~SameRequest(r, x)
        /\ Refuse(c, "conflict")

\* lockForBidding: SELECT ... FOR UPDATE.
LockAuction(c) ==
  /\ pc[c] = "lock"
  /\ rowLock[asked[c].auction] = Free
  /\ rowLock' = [rowLock EXCEPT ![asked[c].auction] = c]
  /\ Goes(c, "judge")
  /\ UNCHANGED <<vars, tables, walletRow, keyLock, asked, judged, told>>

Judge(c) ==
  /\ pc[c] = "judge"
  /\ IF Verdict(asked[c]) = "accepted"
     THEN /\ Goes(c, "commit")
          /\ judged' = [judged EXCEPT ![c] = clock]
          /\ UNCHANGED <<vars, tables, walletRow, keyLock, rowLock, asked, told>>
     ELSE Refuse(c, Verdict(asked[c]))

\* lockOrCreateParticipant: the row is new, because this is the user's first batch.
Inserted(r) == participant[r.auction][r.user].bids = 0

\* Mutant of AddParticipantBids: the row is told of one fee per submission.
BugAddParticipantBids(r) ==
  LET mine == participant[r.auction][r.user] IN
  participant' = [participant EXCEPT ![r.auction][r.user] =
                    [bids |-> mine.bids + Cardinality(r.amounts), fees |-> mine.fees + Fee]]

AddParticipantBids(r) ==
  LET mine == participant[r.auction][r.user] IN
  participant' = [participant EXCEPT ![r.auction][r.user] =
                    [bids |-> mine.bids + Cardinality(r.amounts), fees |-> mine.fees + Charge(r)]]

AddBidCounters(r) ==
  LET cached == total[r.auction] IN
  total' = [total EXCEPT ![r.auction] =
              [bids |-> cached.bids + Cardinality(r.amounts),
               participants |-> IF Inserted(r) THEN cached.participants + 1 ELSE cached.participants]]

\* Mutant of Remember: the answer is not stored.
BugRemember(c, count) == UNCHANGED keys

\* completeKey: the answer, stored with the key.
Remember(c, count) ==
  LET r == asked[c] IN
  keys' = keys \cup {[auction |-> r.auction, user |-> r.user, key |-> r.key, amounts |-> r.amounts,
                      count |-> count, at |-> judged[c]]}

\* insertBatch: all the rows or none, since one that repeats an amount refuses the batch.
InsertBatch(r) == bids' = bids \cup Batch(r)

\* Steps 8 to 12 and COMMIT, from the moment the wallet's row lock is there.
Commit(c) ==
  LET r == asked[c]
      count == participant[r.auction][r.user].bids + Cardinality(r.amounts)
  IN
  /\ pc[c] = "commit"
  /\ IF Repeats(r) # {} THEN Refuse(c, "duplicate")
     ELSE IF ~Payable(r) THEN Refuse(c, "wallet")
     ELSE /\ InsertBatch(r)
          /\ Pay(r)
          /\ AddParticipantBids(r)
          /\ AddBidCounters(r)
          /\ Remember(c, count)
          /\ Answers(c, "accepted", r.amounts, count, judged[c])
          /\ Unlock(c)
          /\ UNCHANGED <<vars, asked>>

\* The answer is read, or lost on the way.
Reply(c) ==
  /\ pc[c] = "answer"
  /\ Goes(c, "idle")
  /\ told' = [told EXCEPT ![c] = Nothing]
  /\ asked' = [asked EXCEPT ![c] = SomeSubmission]
  /\ UNCHANGED <<vars, tables, walletRow, keyLock, rowLock, judged>>

\* The process or its connection dies: PostgreSQL rolls back.
Crash(c) ==
  /\ pc[c] \in {"claim", "lock", "judge", "commit"}
  /\ Goes(c, "idle")
  /\ asked' = [asked EXCEPT ![c] = SomeSubmission]
  /\ judged' = [judged EXCEPT ![c] = 0]
  /\ Unlock(c)
  /\ UNCHANGED <<vars, tables, walletRow, told>>

\* Everything else that happens to a wallet: money comes and goes, other auctions
\* charge their fees, finance freezes it and lets it go.
OtherMovement(u) ==
  /\ \E n \in 0..MaxBalance : spendable' = [spendable EXCEPT ![u] = n]
  /\ UNCHANGED <<vars, tables, fees, attempt>>

\* A transition of an auction takes its row lock; products and time do not.
LifecycleStep ==
  /\ \/ \E a \in Auctions : rowLock[a] = Free /\ (AuctionStep(a) \/ \E t \in Terms : Insert(a, t))
     \/ \E p \in Products, n \in 0..MaxStock : WriteStock(p, n)
     \/ Tick
  /\ UNCHANGED <<tables, walletRow, attempt>>

AttemptStep(c) == Claim(c) \/ LockAuction(c) \/ Judge(c) \/ Commit(c) \/ Reply(c)

BNext ==
  \/ \E c \in Attempts : AttemptStep(c) \/ Crash(c) \/ \E r \in Submissions : SubmitBids(c, r)
  \/ \E u \in Users : OtherMovement(u)
  \/ LifecycleStep

BSpec == BInit /\ [][BNext]_bvars

-----------------------------------------------------------------------------
\* The three tables tell one story: under every key, exactly the amounts of the
\* one submission it answers are bids, and exactly their fee was taken.
EveryBidIsPaid ==
  /\ \A x, y \in keys : x.key = y.key => x = y
  /\ bids = UNION {Batch(x) : x \in keys}
  /\ Fee > 0 => fees = {[user |-> x.user, key |-> x.key, amount |-> Charge(x)] : x \in keys}

\* The cached counters are what a recount finds (recountAuction), and nobody has
\* more bids in an auction than it allows, or two of the same amount.
CountersAgree ==
  \A a \in Auctions :
    /\ total[a] = Recount(a)
    /\ \A u \in Users :
         /\ participant[a][u].bids = Cardinality(BidsOf(a, u))
         /\ participant[a][u].bids <= MaxBids
         /\ participant[a][u].fees = Fee * participant[a][u].bids
         /\ \A b, d \in BidsOf(a, u) : b.amount = d.amount => b = d

\* An answer is about what was asked: whoever is told that bids were accepted, on
\* the first attempt or a retry, has exactly those bids; the counts are those of
\* the moment they were accepted; and that moment was inside the window, even if
\* the lock was waited for until after the deadline.
AnswersAreTrue ==
  \A c \in Attempts :
    told[c].kind \in {"accepted", "replayed"} =>
      /\ told[c].amounts = asked[c].amounts
      /\ Batch(asked[c]) \subseteq bids
      /\ \E x \in keys : x.key = asked[c].key /\ x.count = told[c].count /\ x.at = told[c].at
      /\ terms[asked[c].auction].starts <= told[c].at /\ told[c].at < terms[asked[c].auction].ends

\* What was asked has been accepted: its bids, and no others, are there under its key.
Accepted(r) == Batch(r) = {b \in bids : b.key = r.key}

\* A retry of a submission that was accepted is not refused once its transaction
\* has begun, whatever it would meet now: a full quota, its own bids, an empty wallet.
RetryIsNotRefused ==
  [][\A c \in Attempts :
       pc[c] # "idle" /\ told[c] = Nothing /\ told'[c].kind \in Refusals => ~Accepted(asked[c])]_bvars

\* docs/bidding.md, "A retry of a committed request replays": whenever it is made.  TLC
\* refutes it: a retry that comes after the close is refused before its key is looked at.
RetryIsReplayed ==
  [][\A c \in Attempts :
       told[c] = Nothing /\ told'[c].kind \in Refusals => ~Accepted(asked'[c])]_bvars

\* What the rest of the system sees of all this is the bid book: a batch appears
\* whole, with its fee in the participant's row, while the auction is live, and
\* refusals, replays and crashes leave no trace.
Book == INSTANCE BidBook WITH
          bids <- {[auction |-> b.auction, user |-> b.user, amount |-> b.amount] : b \in bids},
          paid <- [a \in Auctions |-> [u \in Users |-> participant[a][u].fees]]

ImplementsBook == [][Book!BookNext]_(Book!bookVars)

\* PostgreSQL grants row locks and unique keys to those who wait in turn, and a
\* server that is up finishes what it began.
Fairness ==
  \A c \in Attempts : /\ SF_bvars(Claim(c)) /\ SF_bvars(LockAuction(c))
                      /\ WF_bvars(Judge(c)) /\ WF_bvars(Commit(c))

BFairSpec == BSpec /\ Fairness

\* No attempt waits for ever for a key or for a lock.
EveryoneIsAnswered == \A c \in Attempts : pc[c] = "claim" ~> pc[c] \in {"answer", "idle"}
=============================================================================
