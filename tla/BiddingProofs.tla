--------------------------- MODULE BiddingProofs ---------------------------
(***************************************************************************)
(* What submitBids promises, for any number of attempts, keys, users,      *)
(* auctions and amounts, while auctions go through their lives and wallets *)
(* are emptied and frozen.  The argument: an attempt that holds its key    *)
(* and its auction's row finds, when it commits, what it judged: nobody    *)
(* else can have stored an answer under that key, or moved that auction,   *)
(* its bids or its participants.                                           *)
(***************************************************************************)
EXTENDS Bidding, AuctionLifecycleProofs, FunctionTheorems

-----------------------------------------------------------------------------
(* The lifecycle as BidBook sees it is the lifecycle. *)

LEMMA SameUnits ==
  ASSUME NEW a \in Auctions
  PROVE  /\ ReleaseUnit(a) = Book!ReleaseUnit(a)
         /\ ReserveUnit(a) = Book!ReserveUnit(a)
         /\ CanReserve(a) = Book!CanReserve(a)
         /\ HoldsInventory(a) = Book!HoldsInventory(a)
BY DEF ReleaseUnit, Book!ReleaseUnit, ReserveUnit, Book!ReserveUnit, CanReserve, Book!CanReserve,
       FindHeldReservation, Book!FindHeldReservation, InsertReservation, Book!InsertReservation,
       MarkReservationReleased, Book!MarkReservationReleased, HoldsInventory, Book!HoldsInventory,
       AdjustReservedQuantity, Book!AdjustReservedQuantity, Available, Book!Available

LEMMA SameLifecycle ==
  ASSUME Next
  PROVE  Book!Next
<1>0. Terms = Book!Terms
  BY DEF Terms, Book!Terms, Times, Book!Times
<1>1. ASSUME NEW a \in Auctions, NEW now \in 1..clock, Open(a, now) \/ Close(a, now)
      PROVE  Book!Open(a, now) \/ Book!Close(a, now)
  BY <1>1, SameUnits DEF Open, Book!Open, Close, Book!Close,
         Moves, Book!Moves, Becomes, Book!Becomes, Sources, Book!Sources,
         stockVars, Book!stockVars, auctionVars, Book!auctionVars
<1>2. ASSUME NEW a \in Auctions, BeginCalculating(a) \/ \E sold \in BOOLEAN : Complete(a, sold)
      PROVE  Book!AuctionStep(a)
  BY <1>2, SameUnits DEF BeginCalculating, Book!BeginCalculating, Complete, Book!Complete, Book!AuctionStep,
         Moves, Book!Moves, Becomes, Book!Becomes, Sources, Book!Sources,
         stockVars, Book!stockVars, auctionVars, Book!auctionVars
<1>3. ASSUME NEW a \in Auctions, NEW t \in Terms, UpdateTerms(a, t)
      PROVE  Book!UpdateTerms(a, t)
  BY <1>3 DEF UpdateTerms, Book!UpdateTerms, NewTerms, Book!NewTerms, TermsLocked, Book!TermsLocked,
                         None, Book!None, Terminal, Book!Terminal,
         Moves, Book!Moves, Becomes, Book!Becomes, Sources, Book!Sources,
         stockVars, Book!stockVars, auctionVars, Book!auctionVars
<1>4. ASSUME NEW a \in Auctions, Submit(a) \/ Approve(a) \/ Reject(a)
      PROVE  Book!Submit(a) \/ Book!Approve(a) \/ Book!Reject(a)
  BY <1>4 DEF Submit, Book!Submit, Approve, Book!Approve, Reject, Book!Reject,
         Moves, Book!Moves, Becomes, Book!Becomes, Sources, Book!Sources,
         stockVars, Book!stockVars, auctionVars, Book!auctionVars
<1>5. ASSUME NEW a \in Auctions, Suspend(a) \/ Resume(a) \/ Cancel(a)
      PROVE  Book!Suspend(a) \/ Book!Resume(a) \/ Book!Cancel(a)
  BY <1>5, SameUnits DEF Suspend, Book!Suspend, Resume, Book!Resume, Cancel, Book!Cancel,
                                    None, Book!None,
         Moves, Book!Moves, Becomes, Book!Becomes, Sources, Book!Sources,
         stockVars, Book!stockVars, auctionVars, Book!auctionVars
<1>6. ASSUME NEW a \in Auctions, AuctionStep(a)
      PROVE  Book!AuctionStep(a)
  <2>1. UndecidedStep(a) => Book!UndecidedStep(a)
    BY <1>0, <1>1, <1>3, <1>4, <1>5 DEF UndecidedStep, Book!UndecidedStep
  <2> QED  BY <1>2, <1>6, <2>1 DEF AuctionStep, Book!AuctionStep
<1>7. ASSUME NEW a \in Auctions, NEW t \in Terms, Insert(a, t)
      PROVE  Book!Insert(a, t)
  BY <1>7 DEF Insert, Book!Insert, None, Book!None,
         Moves, Book!Moves, Becomes, Book!Becomes, Sources, Book!Sources,
         stockVars, Book!stockVars, auctionVars, Book!auctionVars
<1>8. ASSUME NEW p \in Products, NEW n \in 0..MaxStock, WriteStock(p, n)
      PROVE  Book!WriteStock(p, n)
  BY <1>8 DEF WriteStock, Book!WriteStock,
         Moves, Book!Moves, Becomes, Book!Becomes, Sources, Book!Sources,
         stockVars, Book!stockVars, auctionVars, Book!auctionVars
<1>9. Tick => Book!Tick
  BY DEF Tick, Book!Tick,
         Moves, Book!Moves, Becomes, Book!Becomes, Sources, Book!Sources,
         stockVars, Book!stockVars, auctionVars, Book!auctionVars
<1> QED  BY <1>0, <1>6, <1>7, <1>8, <1>9 DEF Next, Book!Next

\* What a transition of one auction leaves alone is every other auction.
LEMMA OthersUnmoved ==
  ASSUME IInv, NEW a \in Auctions, NEW b \in Auctions, a # b,
         AuctionStep(a) \/ \E t \in Terms : Insert(a, t)
  PROVE  status'[b] = status[b] /\ terms'[b] = terms[b] /\ openedAt'[b] = openedAt[b]
BY DEF IInv, TypeOK, AuctionStep, UndecidedStep, UpdateTerms, NewTerms, Submit, Approve, Reject, Open, Close,
       BeginCalculating, Complete, Suspend, Resume, Cancel, Insert, Moves, Becomes, stockVars

-----------------------------------------------------------------------------
(* The invariant. *)

\* An auction that takes bids, or is suspended while it does, has opened.
LiveIsOpen ==
  \A a \in Auctions :
    status[a] = "live" \/ (status[a] = "suspended" /\ suspendedFrom[a] = "live") => openedAt[a] # Null

\* A moment at which the auction took bids, by terms that are frozen by now.
InTime(a, at) == openedAt[a] # Null /\ terms[a].starts <= at /\ at < terms[a].ends

\* A row of idempotency_keys.
KeyRow == [auction : Auctions, user : Users, key : Keys, amounts : SUBSET Amounts, count : Nat, at : Nat]

KeysInTime == \A x \in keys : x.amounts # {} /\ InTime(x.auction, x.at)

\* What an attempt judged under the lock of the auction.
Passed(r, at) == status[r.auction] = "live" /\ OnLadder(r) /\ WithinLimit(r) /\ InTime(r.auction, at)

\* An answer is the stored one.
Stored(r, t) ==
  /\ t.amounts = r.amounts
  /\ \E x \in keys : x.key = r.key /\ SameRequest(r, x) /\ x.count = t.count /\ x.at = t.at

\* What an attempt has and knows, by where it is.
Safe(c) ==
  /\ pc[c] \in {"lock", "judge", "commit"} =>
       keyLock[asked[c].key] = c /\ \A x \in keys : x.key # asked[c].key
  /\ pc[c] \in {"judge", "commit"} => rowLock[asked[c].auction] = c
  /\ pc[c] = "commit" => Passed(asked[c], judged[c])
  /\ pc[c] # "answer" => told[c] = Nothing
  /\ told[c].kind \in {"accepted", "replayed"} => Stored(asked[c], told[c])

BInv ==
  /\ IInv /\ BTypeOK /\ IsFiniteSet(bids)
  /\ LiveIsOpen /\ EveryBidIsPaid /\ CountersAgree /\ KeysInTime
  /\ \A c \in Attempts : Safe(c)

-----------------------------------------------------------------------------
(* Arithmetic and cardinalities. *)

LEMMA Charges ==
  ASSUME NEW r \in Submission
  PROVE  /\ IsFiniteSet(r.amounts) /\ Cardinality(r.amounts) \in Nat \ {0}
         /\ Charge(r) \in Nat /\ (Charge(r) = 0 <=> Fee = 0)
<1>1. r.amounts \subseteq Amounts /\ r.amounts # {}
  BY DEF Submission
<1>2. IsFiniteSet(r.amounts)
  BY <1>1, AmountsAssumption, FS_Subset
<1>3. Cardinality(r.amounts) \in Nat /\ Cardinality(r.amounts) # 0
  BY <1>1, <1>2, FS_CardinalityType, FS_EmptySet
<1>4. ASSUME NEW n \in Nat \ {0}, NEW m \in Nat
      PROVE  m * n \in Nat /\ (m * n = 0 <=> m = 0)
  BY <1>4
<1> QED  BY <1>2, <1>3, <1>4, FeeAssumption DEF Charge

\* The rows of a batch, one for each amount.
LEMMA BatchRows ==
  ASSUME NEW r \in Submission
  PROVE  /\ Batch(r) \subseteq BidRow /\ Batch(r) # {}
         /\ \A b \in BidRow :
              b \in Batch(r) <=> b.auction = r.auction /\ b.user = r.user /\ b.key = r.key /\ b.amount \in r.amounts
<1> DEFINE row(n) == [auction |-> r.auction, user |-> r.user, amount |-> n, key |-> r.key]
<1>1. r.amounts \subseteq Amounts /\ r.amounts # {} /\ r.auction \in Auctions /\ r.user \in Users /\ r.key \in Keys
  BY DEF Submission
<1>2. Batch(r) = {row(n) : n \in r.amounts}
  BY DEF Batch
<1>3. \A n \in r.amounts : row(n) \in BidRow
  BY <1>1 DEF BidRow
<1>4. PICK n \in r.amounts : TRUE
  BY <1>1
<1>5. ASSUME NEW b \in BidRow
      PROVE  b \in Batch(r) <=> b.auction = r.auction /\ b.user = r.user /\ b.key = r.key /\ b.amount \in r.amounts
  <2>1. ASSUME b \in Batch(r)
        PROVE  b.auction = r.auction /\ b.user = r.user /\ b.key = r.key /\ b.amount \in r.amounts
    <3>1. PICK m \in r.amounts : b = row(m)
      BY <1>2, <2>1
    <3> QED  BY <3>1
  <2>2. ASSUME b.auction = r.auction, b.user = r.user, b.key = r.key, b.amount \in r.amounts
        PROVE  b \in Batch(r)
    <3>1. b = row(b.amount)
      BY <2>2 DEF BidRow
    <3> QED  BY <1>2, <2>2, <3>1
  <2> QED  BY <2>1, <2>2
<1> QED  BY <1>2, <1>3, <1>4, <1>5

LEMMA BatchSize ==
  ASSUME NEW r \in Submission
  PROVE  IsFiniteSet(Batch(r)) /\ Cardinality(Batch(r)) = Cardinality(r.amounts)
<1> DEFINE row(n) == [auction |-> r.auction, user |-> r.user, amount |-> n, key |-> r.key]
           f == [n \in r.amounts |-> row(n)]
<1>1. Batch(r) = {row(n) : n \in r.amounts}
  BY DEF Batch
<1>2. \A n \in r.amounts : f[n] = row(n) /\ f[n] \in Batch(r)
  BY <1>1
<1>3. \A n, p \in r.amounts : f[n] = f[p] => n = p
  BY <1>2
<1>4. ASSUME NEW b \in Batch(r)
      PROVE  \E n \in r.amounts : f[n] = b
  <2>1. PICK n \in r.amounts : b = row(n)
    BY <1>1
  <2> QED  BY <1>2, <2>1
<1>5. f \in Bijection(r.amounts, Batch(r))
  BY <1>2, <1>3, <1>4, Fun_IsBij
<1> QED  BY <1>5, Charges, FS_Bijection DEF ExistsBijection

-----------------------------------------------------------------------------
(* Steps that write nothing to the tables. *)

\* What is said of the tables is said of nothing else.
LEMMA SameTables ==
  ASSUME BInv, UNCHANGED <<tables, fees>>
  PROVE  IsFiniteSet(bids)' /\ EveryBidIsPaid' /\ CountersAgree'
<1>1. UNCHANGED <<bids, keys, participant, total, fees>>
  BY DEF tables
<1>2. EveryBidIsPaid'
  BY <1>1 DEF BInv, EveryBidIsPaid
<1>3. \A a \in Auctions : Recount(a)' = Recount(a) /\ \A u \in Users : BidsOf(a, u)' = BidsOf(a, u)
  BY <1>1 DEF Recount, BidsOf
<1>4. CountersAgree'
  BY <1>1, <1>3 DEF BInv, CountersAgree
<1> QED  BY <1>1, <1>2, <1>4 DEF BInv

LEMMA SameAuctions ==
  ASSUME BInv, UNCHANGED vars
  PROVE  IInv' /\ LiveIsOpen'
<1>1. IInv'
  BY NextInv DEF BInv
<1> QED  BY <1>1 DEF BInv, LiveIsOpen, vars, auctionVars

\* An attempt that does nothing stays safe if nobody takes its locks, stores an
\* answer under its key, or moves the auction whose row it holds.
LEMMA StaysSafe ==
  ASSUME NEW c \in Attempts, Safe(c), BTypeOK,
         pc'[c] = pc[c], asked'[c] = asked[c], judged'[c] = judged[c], told'[c] = told[c],
         \A k \in Keys : keyLock[k] = c => keyLock'[k] = c,
         \A a \in Auctions : rowLock[a] = c => rowLock'[a] = c,
         keys \subseteq keys', \A x \in keys' \ keys : keyLock[x.key] # c,
         \A a \in Auctions : rowLock[a] = c =>
           /\ status'[a] = status[a] /\ terms'[a] = terms[a] /\ openedAt'[a] = openedAt[a]
           /\ participant'[a] = participant[a]
  PROVE  Safe(c)'
<1> DEFINE r == asked[c]
<1>1. r.auction \in Auctions /\ r.key \in Keys
  BY SubmissionsAssumption DEF BTypeOK, Submission
<1>2. pc[c] \in {"lock", "judge", "commit"} => keyLock'[r.key] = c /\ \A x \in keys' : x.key # r.key
  BY <1>1 DEF Safe
<1>3. pc[c] \in {"judge", "commit"} => rowLock'[r.auction] = c
  BY <1>1 DEF Safe
<1>4. pc[c] = "commit" => Passed(r, judged[c])'
  <2> SUFFICES ASSUME pc[c] = "commit"
               PROVE  Passed(r, judged[c])'
    OBVIOUS
  <2>1. Passed(r, judged[c]) /\ rowLock[r.auction] = c
    BY DEF Safe
  <2> QED  BY <1>1, <2>1 DEF Passed, OnLadder, WithinLimit, InTime
<1>5. told[c].kind \in {"accepted", "replayed"} => Stored(r, told[c])'
  BY DEF Safe, Stored, SameRequest
<1>6. pc[c] # "answer" => told[c] = Nothing
  BY DEF Safe
<1> QED  BY <1>2, <1>3, <1>4, <1>5, <1>6 DEF Safe, Nothing

LEMMA OneAttempt ==
  ASSUME BInv, NEW c \in Attempts, UNCHANGED <<vars, tables, fees>>, BTypeOK', Safe(c)',
         \A d \in Attempts : d # c =>
           /\ pc'[d] = pc[d] /\ asked'[d] = asked[d] /\ judged'[d] = judged[d] /\ told'[d] = told[d]
           /\ \A k \in Keys : keyLock[k] = d => keyLock'[k] = d
           /\ \A a \in Auctions : rowLock[a] = d => rowLock'[a] = d
  PROVE  BInv'
<1>1. UNCHANGED <<bids, keys, participant, total, fees, status, terms, openedAt>>
  BY DEF tables, vars, auctionVars
<1>2. ASSUME NEW d \in Attempts, d # c
      PROVE  Safe(d)'
  BY <1>1, <1>2, StaysSafe DEF BInv
<1>3. KeysInTime'
  BY <1>1 DEF BInv, KeysInTime, InTime
<1> QED  BY <1>2, <1>3, SameTables, SameAuctions DEF BInv

\* Giving the locks of one attempt back takes none from another.
LEMMA UnlockIsOwn ==
  ASSUME BTypeOK, NEW c \in Attempts, Unlock(c)
  PROVE  /\ keyLock' \in [Keys -> Attempts \cup {Free}] /\ rowLock' \in [Auctions -> Attempts \cup {Free}]
         /\ \A d \in Attempts : d # c =>
              /\ \A k \in Keys : keyLock[k] = d => keyLock'[k] = d
              /\ \A a \in Auctions : rowLock[a] = d => rowLock'[a] = d
BY DEF BTypeOK, Unlock

LEMMA RefuseStep ==
  ASSUME BInv, NEW c \in Attempts, NEW kind \in Refusals, Refuse(c, kind)
  PROVE  BInv'
<1>1. /\ pc' = [pc EXCEPT ![c] = "answer"] /\ judged' = [judged EXCEPT ![c] = 0]
      /\ told' = [told EXCEPT ![c] = [kind |-> kind, amounts |-> {}, count |-> 0, at |-> 0]]
      /\ Unlock(c) /\ UNCHANGED <<vars, tables, walletRow, asked>>
  BY DEF Refuse, Answers, Goes
<1>2. BTypeOK'
  <2>1. told' \in [Attempts -> [kind : {"none", "accepted", "replayed"} \cup Refusals,
                                amounts : SUBSET Amounts, count : Nat, at : Nat]]
    BY <1>1 DEF BInv, BTypeOK
  <2> QED  BY <1>1, <2>1, UnlockIsOwn, SameAuctions DEF BInv, IInv, BTypeOK, tables, walletRow
<1>3. Safe(c)'
  BY <1>1 DEF BInv, BTypeOK, Safe, Refusals
<1>4. ASSUME NEW d \in Attempts, d # c
      PROVE  pc'[d] = pc[d] /\ asked'[d] = asked[d] /\ judged'[d] = judged[d] /\ told'[d] = told[d]
  BY <1>1, <1>4 DEF BInv, BTypeOK
<1> QED  BY <1>1, <1>2, <1>3, <1>4, UnlockIsOwn, OneAttempt DEF BInv, walletRow

LEMMA SubmitBidsStep ==
  ASSUME BInv, NEW c \in Attempts, NEW r \in Submissions, SubmitBids(c, r)
  PROVE  BInv'
<1>1. /\ pc[c] = "idle" /\ asked' = [asked EXCEPT ![c] = r]
      /\ UNCHANGED <<vars, tables, walletRow, keyLock, rowLock>>
  BY DEF SubmitBids
<1>2. CASE Goes(c, "claim") /\ UNCHANGED <<told, judged>>
  <2>1. BTypeOK'
    BY <1>1, <1>2, SameAuctions DEF BInv, IInv, BTypeOK, tables, walletRow, Goes
  <2>2. Safe(c)'
    BY <1>1, <1>2 DEF BInv, BTypeOK, Safe, Goes, Nothing
  <2> QED  BY <1>1, <1>2, <2>1, <2>2, OneAttempt DEF BInv, BTypeOK, walletRow, Goes
<1>3. ASSUME NEW kind \in Refusals, Answers(c, kind, {}, 0, 0)
      PROVE  BInv'
  <2>1. /\ pc' = [pc EXCEPT ![c] = "answer"] /\ judged' = [judged EXCEPT ![c] = 0]
        /\ told' = [told EXCEPT ![c] = [kind |-> kind, amounts |-> {}, count |-> 0, at |-> 0]]
    BY <1>3 DEF Answers, Goes
  <2>2. BTypeOK'
    <3>1. told' \in [Attempts -> [kind : {"none", "accepted", "replayed"} \cup Refusals,
                                  amounts : SUBSET Amounts, count : Nat, at : Nat]]
      BY <2>1 DEF BInv, BTypeOK
    <3> QED  BY <1>1, <2>1, <3>1, SameAuctions DEF BInv, IInv, BTypeOK, tables, walletRow
  <2>3. Safe(c)'
    BY <2>1 DEF BInv, BTypeOK, Safe, Refusals
  <2> QED  BY <1>1, <2>1, <2>2, <2>3, OneAttempt DEF BInv, BTypeOK, walletRow
<1> QED  BY <1>2, <1>3 DEF SubmitBids, Refusals

LEMMA ClaimKeyStep ==
  ASSUME BInv, NEW c \in Attempts, pc[c] = "claim", keyLock[asked[c].key] = Free,
         {x \in keys : x.key = asked[c].key} = {},
         keyLock' = [keyLock EXCEPT ![asked[c].key] = c], Goes(c, "lock"),
         UNCHANGED <<vars, tables, walletRow, rowLock, asked, judged, told>>
  PROVE  BInv'
<1> DEFINE r == asked[c]
<1>1. r.key \in Keys
  BY SubmissionsAssumption DEF BInv, BTypeOK, Submission
<1>2. BTypeOK'
  BY <1>1, SameAuctions DEF BInv, IInv, BTypeOK, tables, walletRow, Goes
<1>3. Safe(c)'
  BY <1>1 DEF BInv, BTypeOK, Safe, Goes, tables, Nothing
<1>4. ASSUME NEW d \in Attempts, d # c
      PROVE  /\ pc'[d] = pc[d] /\ asked'[d] = asked[d] /\ judged'[d] = judged[d] /\ told'[d] = told[d]
             /\ \A k \in Keys : keyLock[k] = d => keyLock'[k] = d
  BY <1>1, <1>4, AttemptsAssumption DEF BInv, BTypeOK, Goes
<1> QED  BY <1>2, <1>3, <1>4, OneAttempt DEF walletRow

\* The amounts that a retry is told it has are the ones it asked for.
LEMMA Replays ==
  ASSUME BInv, NEW r \in Submission, NEW x \in keys, x.key = r.key, SameRequest(r, x)
  PROVE  BidsUnder(r) = r.amounts /\ {b \in bids : b.key = r.key} = Batch(r)
<1>1. \A y \in keys : y \in KeyRow /\ y.amounts # {}
  BY DEF BInv, BTypeOK, KeysInTime, KeyRow
<1>2. Batch(x) = Batch(r)
  BY DEF SameRequest, Batch
<1>3. ASSUME NEW b \in bids, b.key = r.key
      PROVE  b \in Batch(r)
  <2>1. PICK y \in keys : b \in Batch(y)
    BY DEF BInv, EveryBidIsPaid
  <2>2. b.key = y.key
    BY <2>1 DEF Batch
  <2>3. y = x
    BY <1>3, <2>2 DEF BInv, EveryBidIsPaid
  <2> QED  BY <1>2, <2>1, <2>3
<1>4. ASSUME NEW b \in Batch(r)
      PROVE  b \in bids /\ b.key = r.key /\ b.auction = r.auction /\ b.user = r.user /\ b.amount \in r.amounts
  <2>1. b \in bids
    BY <1>2, <1>4 DEF BInv, EveryBidIsPaid
  <2> QED  BY <1>4, <2>1 DEF Batch
<1>5. {b \in bids : b.key = r.key} = Batch(r)
  BY <1>3, <1>4
<1>6. {y \in BidsOf(r.auction, r.user) : y.key = r.key} = Batch(r)
  BY <1>3, <1>4 DEF BidsOf
<1>7. {b.amount : b \in Batch(r)} = r.amounts
  <2>1. ASSUME NEW m \in r.amounts
        PROVE  \E b \in Batch(r) : b.amount = m
    <3> DEFINE b == [auction |-> r.auction, user |-> r.user, amount |-> m, key |-> r.key]
    <3>1. b \in Batch(r) /\ b.amount = m
      BY DEF Batch
    <3> QED  BY <3>1
  <2> QED  BY <1>4, <2>1
<1> QED  BY <1>5, <1>6, <1>7 DEF BidsUnder

LEMMA ReplayStep ==
  ASSUME BInv, NEW c \in Attempts, pc[c] = "claim", NEW x \in keys, x.key = asked[c].key,
         SameRequest(asked[c], x), Answers(c, "replayed", BidsUnder(asked[c]), x.count, x.at),
         UNCHANGED <<vars, tables, walletRow, keyLock, rowLock, asked>>
  PROVE  BInv'
<1> DEFINE r == asked[c]
<1>0. r \in Submission /\ r.amounts \in SUBSET Amounts
  BY SubmissionsAssumption DEF BInv, BTypeOK, Submission
<1>1. x.count \in Nat /\ x.at \in Nat /\ BidsUnder(r) = r.amounts
  BY <1>0, Replays DEF BInv, BTypeOK
<1>2. /\ pc' = [pc EXCEPT ![c] = "answer"] /\ judged' = [judged EXCEPT ![c] = 0]
      /\ told' = [told EXCEPT ![c] = [kind |-> "replayed", amounts |-> r.amounts, count |-> x.count, at |-> x.at]]
  BY <1>1 DEF Answers, Goes
<1>3. BTypeOK'
  <2>1. told' \in [Attempts -> [kind : {"none", "accepted", "replayed"} \cup Refusals,
                                amounts : SUBSET Amounts, count : Nat, at : Nat]]
    BY <1>0, <1>1, <1>2 DEF BInv, BTypeOK
  <2> QED  BY <1>2, <2>1, SameAuctions DEF BInv, IInv, BTypeOK, tables, walletRow
<1>4. Safe(c)'
  <2>1. pc'[c] = "answer" /\ r = asked'[c] /\ keys' = keys
    BY <1>2 DEF BInv, BTypeOK, tables
  <2>2. told'[c] = [kind |-> "replayed", amounts |-> r.amounts, count |-> x.count, at |-> x.at]
    BY <1>2 DEF BInv, BTypeOK
  <2>3. Stored(r, told'[c])
    BY <2>2 DEF Stored
  <2> QED  BY <2>1, <2>3 DEF Safe, Stored, SameRequest
<1> QED  BY <1>2, <1>3, <1>4, OneAttempt DEF BInv, BTypeOK, walletRow

LEMMA ClaimStep ==
  ASSUME BInv, NEW c \in Attempts, Claim(c)
  PROVE  BInv'
BY ClaimKeyStep, ReplayStep, RefuseStep DEF Claim, Refusals

LEMMA LockAuctionStep ==
  ASSUME BInv, NEW c \in Attempts, LockAuction(c)
  PROVE  BInv'
<1> DEFINE r == asked[c]
<1>1. r.auction \in Auctions
  BY SubmissionsAssumption DEF BInv, BTypeOK, Submission
<1>2. /\ pc[c] = "lock" /\ rowLock[r.auction] = Free /\ pc' = [pc EXCEPT ![c] = "judge"]
      /\ rowLock' = [rowLock EXCEPT ![r.auction] = c]
      /\ UNCHANGED <<vars, tables, walletRow, keyLock, asked, judged, told>>
  BY DEF LockAuction, Goes
<1>3. BTypeOK'
  BY <1>1, <1>2, SameAuctions DEF BInv, IInv, BTypeOK, tables, walletRow
<1>4. Safe(c)'
  BY <1>1, <1>2 DEF BInv, BTypeOK, Safe, tables, Nothing
<1>5. ASSUME NEW d \in Attempts, d # c
      PROVE  /\ pc'[d] = pc[d] /\ asked'[d] = asked[d] /\ judged'[d] = judged[d] /\ told'[d] = told[d]
             /\ \A a \in Auctions : rowLock[a] = d => rowLock'[a] = d
  BY <1>1, <1>2, <1>5, AttemptsAssumption DEF BInv, BTypeOK
<1> QED  BY <1>2, <1>3, <1>4, <1>5, OneAttempt DEF walletRow

LEMMA JudgeStep ==
  ASSUME BInv, NEW c \in Attempts, Judge(c)
  PROVE  BInv'
<1> DEFINE r == asked[c]
<1>1. CASE Verdict(r) = "accepted"
  <2>1. /\ pc[c] = "judge" /\ pc' = [pc EXCEPT ![c] = "commit"] /\ judged' = [judged EXCEPT ![c] = clock]
        /\ UNCHANGED <<vars, tables, walletRow, keyLock, rowLock, asked, told>>
    BY <1>1 DEF Judge, Goes
  <2>2. status[r.auction] = "live" /\ InWindow(r.auction) /\ OnLadder(r) /\ WithinLimit(r)
    BY <1>1 DEF Verdict
  <2>3. r.auction \in Auctions /\ clock \in Nat
    BY SubmissionsAssumption DEF BInv, BTypeOK, Submission, TypeOK
  <2>4. Passed(r, clock)
    BY <2>2, <2>3 DEF Passed, InWindow, InTime, BInv, LiveIsOpen
  <2>5. BTypeOK'
    BY <2>1, <2>3, SameAuctions DEF BInv, IInv, BTypeOK, tables, walletRow
  <2>6. pc'[c] = "commit" /\ judged'[c] = clock /\ asked'[c] = r /\ told'[c] = told[c]
    BY <2>1 DEF BInv, BTypeOK
  <2>7. Passed(asked[c], judged[c])'
    BY <2>1, <2>4, <2>6 DEF Passed, OnLadder, WithinLimit, InTime, vars, auctionVars, tables
  <2>8. Safe(c)'
    BY <2>1, <2>6, <2>7 DEF BInv, Safe, tables, Nothing
  <2> QED  BY <2>1, <2>5, <2>8, OneAttempt DEF BInv, BTypeOK, walletRow
<1>2. CASE Verdict(r) # "accepted"
  <2>1. Verdict(r) \in Refusals
    BY <1>2 DEF Verdict, Refusals
  <2> QED  BY <1>2, <2>1, RefuseStep DEF Judge
<1> QED  BY <1>1, <1>2

LEMMA ReplyStep ==
  ASSUME BInv, NEW c \in Attempts, Reply(c)
  PROVE  BInv'
<1>1. /\ pc' = [pc EXCEPT ![c] = "idle"] /\ told' = [told EXCEPT ![c] = Nothing]
      /\ asked' = [asked EXCEPT ![c] = SomeSubmission]
      /\ UNCHANGED <<vars, tables, walletRow, keyLock, rowLock, judged>>
  BY DEF Reply, Goes
<1>2. SomeSubmission \in Submissions
  BY SubmissionsAssumption DEF SomeSubmission
<1>3. BTypeOK'
  <2>1. told' \in [Attempts -> [kind : {"none", "accepted", "replayed"} \cup Refusals,
                                amounts : SUBSET Amounts, count : Nat, at : Nat]]
    BY <1>1 DEF BInv, BTypeOK, Nothing
  <2> QED  BY <1>1, <1>2, <2>1, SameAuctions DEF BInv, IInv, BTypeOK, tables, walletRow
<1>4. Safe(c)'
  BY <1>1 DEF BInv, BTypeOK, Safe, Nothing
<1> QED  BY <1>1, <1>3, <1>4, OneAttempt DEF BInv, BTypeOK, walletRow

LEMMA CrashStep ==
  ASSUME BInv, NEW c \in Attempts, Crash(c)
  PROVE  BInv'
<1>1. /\ pc[c] # "answer" /\ pc' = [pc EXCEPT ![c] = "idle"] /\ judged' = [judged EXCEPT ![c] = 0]
      /\ asked' = [asked EXCEPT ![c] = SomeSubmission] /\ Unlock(c)
      /\ UNCHANGED <<vars, tables, walletRow, told>>
  BY DEF Crash, Goes
<1>2. SomeSubmission \in Submissions
  BY SubmissionsAssumption DEF SomeSubmission
<1>3. BTypeOK'
  BY <1>1, <1>2, SameAuctions, UnlockIsOwn DEF BInv, IInv, BTypeOK, tables, walletRow
<1>4. Safe(c)'
  BY <1>1 DEF BInv, BTypeOK, Safe, Nothing
<1>5. ASSUME NEW d \in Attempts, d # c
      PROVE  pc'[d] = pc[d] /\ asked'[d] = asked[d] /\ judged'[d] = judged[d] /\ told'[d] = told[d]
  BY <1>1, <1>5 DEF BInv, BTypeOK
<1> QED  BY <1>1, <1>3, <1>4, <1>5, UnlockIsOwn, OneAttempt DEF BInv, walletRow

-----------------------------------------------------------------------------
(* Steps of others: the wallets, and the auctions nobody's attempt has locked. *)

LEMMA OtherMovementStep ==
  ASSUME BInv, NEW u \in Users, OtherMovement(u)
  PROVE  BInv'
<1>1. /\ \E n \in 0..MaxBalance : spendable' = [spendable EXCEPT ![u] = n]
      /\ UNCHANGED <<vars, tables, fees, attempt>>
  BY DEF OtherMovement
<1>2. BTypeOK'
  BY <1>1, FeeAssumption, SameAuctions DEF BInv, IInv, BTypeOK, tables, attempt
<1>3. UNCHANGED <<bids, keys, participant, status, terms, openedAt, keyLock, rowLock, pc, asked, judged, told>>
  BY <1>1 DEF tables, attempt, vars, auctionVars
<1>4. ASSUME NEW c \in Attempts
      PROVE  Safe(c)'
  BY <1>3, StaysSafe DEF BInv
<1>5. KeysInTime'
  BY <1>3 DEF BInv, KeysInTime, InTime
<1> QED  BY <1>1, <1>2, <1>4, <1>5, SameTables, SameAuctions DEF BInv

LEMMA OpeningsAreRecorded ==
  ASSUME IInv, LiveIsOpen, Next
  PROVE  LiveIsOpen'
<1> SUFFICES ASSUME NEW a \in Auctions,
                    (status[a] = "live" \/ (status[a] = "suspended" /\ suspendedFrom[a] = "live"))'
             PROVE  openedAt'[a] # Null
  BY DEF LiveIsOpen
<1>1. CASE openedAt[a] # Null
  BY <1>1, OpenedStays
<1>2. CASE openedAt[a] = Null
  <2>1. status[a] # "live" /\ (status[a] = "suspended" => suspendedFrom[a] # "live")
    BY <1>2 DEF LiveIsOpen
  <2>2. ASSUME NEW b \in Auctions, NEW now \in 1..clock, Open(b, now)
        PROVE  openedAt'[a] # Null
    <3>1. CASE a = b
      BY <2>1, <2>2, <3>1 DEF Open, Becomes, Sources, IInv, TypeOK, Null
    <3>2. CASE a # b
      BY <2>1, <2>2, <3>2 DEF Open, Becomes, IInv, TypeOK
    <3> QED  BY <3>1, <3>2
  <2>3. ASSUME NEW b \in Auctions, Suspend(b)
        PROVE  FALSE
    BY <2>1, <2>3 DEF Suspend, Moves, Becomes, Sources, IInv, TypeOK
  <2>4. ASSUME NEW b \in Auctions, Resume(b)
        PROVE  FALSE
    BY <2>1, <2>4 DEF Resume, Moves, Becomes, Sources, IInv, TypeOK, None
  <2>5. ASSUME NEW b \in Auctions, NEW s \in Statuses \ {"live", "suspended"},
               status' = [status EXCEPT ![b] = s], UNCHANGED suspendedFrom
        PROVE  FALSE
    BY <2>1, <2>5 DEF IInv, TypeOK
  <2>6. CASE UNCHANGED <<status, suspendedFrom>>
    BY <2>1, <2>6
  <2>7. \/ UNCHANGED <<status, suspendedFrom>>
        \/ \E b \in Auctions : Suspend(b) \/ Resume(b) \/ \E now \in 1..clock : Open(b, now)
        \/ \E b \in Auctions : \E s \in Statuses \ {"live", "suspended"} :
             status' = [status EXCEPT ![b] = s] /\ UNCHANGED suspendedFrom
    BY DEF Next, AuctionStep, UndecidedStep, Insert, UpdateTerms, NewTerms, Submit, Approve, Reject, Close,
           BeginCalculating, Complete, Cancel, WriteStock, Tick, auctionVars, Moves, Becomes, Statuses
  <2> QED  BY <2>2, <2>3, <2>4, <2>5, <2>6, <2>7
<1> QED  BY <1>1, <1>2 DEF IInv, TypeOK

LEMMA LifecycleKeepsBidding ==
  ASSUME BInv, LifecycleStep
  PROVE  BInv' /\ Next
<1>1. UNCHANGED <<tables, walletRow, attempt>> /\ Next
  BY DEF LifecycleStep, Next
<1>2. IInv' /\ LiveIsOpen'
  BY <1>1, NextInv, OpeningsAreRecorded DEF BInv
<1>3. BTypeOK'
  BY <1>1, <1>2 DEF BInv, IInv, BTypeOK, tables, walletRow, attempt
<1>4. KeysInTime'
  <2>1. \A x \in keys : x.auction \in Auctions
    BY DEF BInv, BTypeOK
  <2> QED  BY <1>1, <2>1, TermsStay, OpenedStays DEF BInv, KeysInTime, InTime, tables
<1>5. ASSUME NEW a \in Auctions, rowLock[a] # Free
      PROVE  status'[a] = status[a] /\ terms'[a] = terms[a] /\ openedAt'[a] = openedAt[a]
  <2>1. CASE \E b \in Auctions : rowLock[b] = Free /\ (AuctionStep(b) \/ \E t \in Terms : Insert(b, t))
    BY <1>5, <2>1, OthersUnmoved DEF BInv
  <2>2. CASE UNCHANGED <<status, terms, openedAt>>
    BY <2>2
  <2> QED  BY <2>1, <2>2 DEF LifecycleStep, WriteStock, Tick, auctionVars
<1>6. ASSUME NEW c \in Attempts
      PROVE  Safe(c)'
  <2>1. UNCHANGED <<keys, participant, keyLock, rowLock, pc, asked, judged, told>>
    BY <1>1 DEF tables, attempt
  <2> QED  BY <1>5, <2>1, StaysSafe, AttemptsAssumption DEF BInv
<1> QED  BY <1>1, <1>2, <1>3, <1>4, <1>6, SameTables DEF BInv, walletRow

-----------------------------------------------------------------------------
(* The commit of a batch. *)

\* The set of users that have bids in an auction.
Bidders(S) == {b.user : b \in S}

LEMMA BiddersFinite ==
  ASSUME NEW S, IsFiniteSet(S)
  PROVE  IsFiniteSet(Bidders(S))
<1> DEFINE f == [b \in S |-> b.user]
<1>1. f \in Surjection(S, Bidders(S))
  <2>1. \A b \in S : f[b] = b.user /\ f[b] \in Bidders(S)
    BY DEF Bidders
  <2>2. ASSUME NEW u \in Bidders(S)
        PROVE  \E b \in S : f[b] = u
    BY <2>1, <2>2 DEF Bidders
  <2> QED  BY <2>1, <2>2, Fun_IsSurj
<1> QED  BY <1>1, FS_Surjection

LEMMA DisjointUnion ==
  ASSUME NEW S, NEW T, IsFiniteSet(S), IsFiniteSet(T), S \cap T = {}
  PROVE  IsFiniteSet(S \cup T) /\ Cardinality(S \cup T) = Cardinality(S) + Cardinality(T)
BY FS_Union, FS_EmptySet, FS_CardinalityType

\* What a new batch does to the bids of its bidder, of its auction and of everybody else.
LEMMA NewBids ==
  ASSUME bids \subseteq BidRow, IsFiniteSet(bids), NEW r \in Submission, Repeats(r) = {},
         bids' = bids \cup Batch(r)
  PROVE  /\ IsFiniteSet(bids')
         /\ bids \cap Batch(r) = {}
         /\ BidsOf(r.auction, r.user)' = BidsOf(r.auction, r.user) \cup Batch(r)
         /\ Cardinality(BidsOf(r.auction, r.user)')
              = Cardinality(BidsOf(r.auction, r.user)) + Cardinality(r.amounts)
         /\ \A a \in Auctions, u \in Users :
              a # r.auction \/ u # r.user => BidsOf(a, u)' = BidsOf(a, u)
<1>1. IsFiniteSet(Batch(r)) /\ Cardinality(Batch(r)) = Cardinality(r.amounts)
  BY BatchSize
<1>2. Batch(r) \subseteq BidRow
      /\ \A b \in Batch(r) : b.auction = r.auction /\ b.user = r.user /\ b.key = r.key /\ b.amount \in r.amounts
  BY BatchRows
<1>3. bids \cap Batch(r) = {}
  BY <1>2 DEF Repeats, BidsOf
<1>4. BidsOf(r.auction, r.user)' = BidsOf(r.auction, r.user) \cup Batch(r)
  BY <1>2 DEF BidsOf
<1>5. \A a \in Auctions, u \in Users : a # r.auction \/ u # r.user => BidsOf(a, u)' = BidsOf(a, u)
  BY <1>2 DEF BidsOf
<1>6. IsFiniteSet(bids')
  BY <1>1, <1>3, DisjointUnion
<1>7. IsFiniteSet(BidsOf(r.auction, r.user)) /\ BidsOf(r.auction, r.user) \cap Batch(r) = {}
  <2>1. BidsOf(r.auction, r.user) \in SUBSET bids
    BY DEF BidsOf
  <2> QED  BY <1>3, <2>1, FS_Subset
<1>8. Cardinality(BidsOf(r.auction, r.user)')
        = Cardinality(BidsOf(r.auction, r.user)) + Cardinality(r.amounts)
  BY <1>1, <1>4, <1>7, DisjointUnion
<1> QED  BY <1>3, <1>4, <1>5, <1>6, <1>8

\* What it does to a recount of its auction: its rows, and its bidder if they are new.
LEMMA NewRecount ==
  ASSUME bids \subseteq BidRow, IsFiniteSet(bids), NEW r \in Submission, Repeats(r) = {},
         bids' = bids \cup Batch(r)
  PROVE  /\ Recount(r.auction).bids \in Nat /\ Recount(r.auction).participants \in Nat
         /\ Recount(r.auction)' =
              [bids |-> Recount(r.auction).bids + Cardinality(r.amounts),
               participants |-> IF BidsOf(r.auction, r.user) = {}
                                THEN Recount(r.auction).participants + 1
                                ELSE Recount(r.auction).participants]
         /\ \A a \in Auctions : a # r.auction => Recount(a)' = Recount(a)
<1> DEFINE In(a) == {b \in bids : b.auction = a}
           old == In(r.auction)
<1>0. \A a \in Auctions \cup {r.auction} :
        Recount(a) = [bids |-> Cardinality(In(a)), participants |-> Cardinality(Bidders(In(a)))]
  BY DEF Recount, Bidders
<1>1. \A a \in Auctions \cup {r.auction} :
        Recount(a)' = [bids |-> Cardinality(In(a)'), participants |-> Cardinality(Bidders(In(a)'))]
  BY DEF Recount, Bidders
<1>2. IsFiniteSet(Batch(r)) /\ Cardinality(Batch(r)) = Cardinality(r.amounts)
  BY BatchSize
<1>3. /\ Batch(r) \subseteq BidRow /\ Batch(r) # {}
      /\ \A b \in Batch(r) : b.auction = r.auction /\ b.user = r.user
  BY BatchRows
<1>4. bids \cap Batch(r) = {}
  BY NewBids
<1>5. old' = old \cup Batch(r) /\ old \cap Batch(r) = {}
  BY <1>3, <1>4
<1>6. IsFiniteSet(old)
  <2>1. old \in SUBSET bids
    OBVIOUS
  <2> QED  BY <2>1, FS_Subset
<1>7. Cardinality(old') = Cardinality(old) + Cardinality(r.amounts)
  BY <1>2, <1>5, <1>6, DisjointUnion
<1>8. Bidders(old') = Bidders(old) \cup {r.user}
  BY <1>3, <1>5 DEF Bidders
<1>9. r.user \in Bidders(old) <=> BidsOf(r.auction, r.user) # {}
  BY DEF Bidders, BidsOf
<1>10. Cardinality(Bidders(old')) =
         IF BidsOf(r.auction, r.user) = {} THEN Cardinality(Bidders(old)) + 1 ELSE Cardinality(Bidders(old))
  BY <1>6, <1>8, <1>9, BiddersFinite, FS_AddElement
<1>11. Cardinality(old) \in Nat /\ Cardinality(Bidders(old)) \in Nat
  BY <1>6, BiddersFinite, FS_CardinalityType
<1>12. \A a \in Auctions : a # r.auction => In(a)' = In(a)
  BY <1>3
<1> HIDE DEF In, old
<1>13. Recount(r.auction).bids = Cardinality(old) /\ Recount(r.auction).participants = Cardinality(Bidders(old))
  BY <1>0 DEF old
<1>14. Recount(r.auction)' = [bids |-> Cardinality(old'), participants |-> Cardinality(Bidders(old'))]
  BY <1>1 DEF old
<1>15. \A a \in Auctions : a # r.auction => Recount(a)' = Recount(a)
  BY <1>0, <1>1, <1>12
<1> QED  BY <1>7, <1>10, <1>11, <1>13, <1>14, <1>15

\* The row that completeKey stores.
Entry(c) ==
  LET r == asked[c] IN
  [auction |-> r.auction, user |-> r.user, key |-> r.key, amounts |-> r.amounts,
   count |-> participant[r.auction][r.user].bids + Cardinality(r.amounts), at |-> judged[c]]

\* A commit that is not a refusal.
Accepts(c) ==
  /\ pc[c] = "commit" /\ Repeats(asked[c]) = {} /\ Payable(asked[c])
  /\ InsertBatch(asked[c]) /\ Pay(asked[c]) /\ AddParticipantBids(asked[c]) /\ AddBidCounters(asked[c])
  /\ keys' = keys \cup {Entry(c)}
  /\ Answers(c, "accepted", asked[c].amounts, Entry(c).count, judged[c])
  /\ Unlock(c) /\ UNCHANGED <<vars, asked>>

LEMMA CommitCases ==
  ASSUME NEW c \in Attempts, Commit(c)
  PROVE  Accepts(c) \/ Refuse(c, "duplicate") \/ Refuse(c, "wallet")
BY DEF Commit, Accepts, Remember, Entry

\* What the committing attempt knows.
LEMMA AtCommit ==
  ASSUME BInv, NEW c \in Attempts, Accepts(c)
  PROVE  /\ asked[c] \in Submission /\ Passed(asked[c], judged[c])
         /\ keyLock[asked[c].key] = c /\ rowLock[asked[c].auction] = c
         /\ \A x \in keys : x.key # asked[c].key
         /\ participant[asked[c].auction][asked[c].user] \in Row
         /\ Entry(c) \in KeyRow /\ Batch(Entry(c)) = Batch(asked[c]) /\ Charge(Entry(c)) = Charge(asked[c])
         /\ Entry(c).key = asked[c].key /\ Entry(c).auction = asked[c].auction /\ Entry(c).user = asked[c].user
         /\ Entry(c).amounts = asked[c].amounts /\ Entry(c).at = judged[c]
<1> DEFINE r == asked[c]
<1>1. r \in Submission
  BY SubmissionsAssumption DEF BInv, BTypeOK
<1>2. /\ Passed(r, judged[c]) /\ keyLock[r.key] = c /\ rowLock[r.auction] = c
      /\ \A x \in keys : x.key # r.key
  BY DEF BInv, Safe, Accepts
<1>3. /\ r.auction \in Auctions /\ r.user \in Users /\ r.key \in Keys /\ r.amounts \in SUBSET Amounts
      /\ judged[c] \in Nat
  BY <1>1 DEF Submission, BInv, BTypeOK
<1>4. participant[r.auction][r.user] \in Row
  BY <1>3 DEF BInv, BTypeOK
<1>5. participant[r.auction][r.user].bids + Cardinality(r.amounts) \in Nat
  BY <1>1, <1>4, Charges DEF Row
<1>6. Entry(c) \in KeyRow
  BY <1>3, <1>5 DEF Entry, KeyRow
<1>7. /\ Entry(c).key = r.key /\ Entry(c).auction = r.auction /\ Entry(c).user = r.user
      /\ Entry(c).amounts = r.amounts /\ Entry(c).at = judged[c]
  BY DEF Entry
<1>8. Batch(Entry(c)) = Batch(r) /\ Charge(Entry(c)) = Charge(r)
  BY <1>7 DEF Batch, Charge
<1> QED  BY <1>1, <1>2, <1>4, <1>6, <1>7, <1>8

LEMMA AcceptedIsPaid ==
  ASSUME BInv, NEW c \in Attempts, Accepts(c)
  PROVE  EveryBidIsPaid'
<1>0. PICK r : r = asked[c]
  OBVIOUS
<1>a. PICK e : e = Entry(c)
  OBVIOUS
<1> DEFINE fee(x) == [user |-> x.user, key |-> x.key, amount |-> Charge(x)]
<1>1. /\ r \in Submission /\ \A x \in keys : x.key # r.key
      /\ e.key = r.key /\ e.user = r.user /\ Batch(e) = Batch(r) /\ Charge(e) = Charge(r)
  BY <1>0, <1>a, AtCommit
<1>2. keys' = keys \cup {e} /\ bids' = bids \cup Batch(r)
  BY <1>0, <1>a DEF Accepts, InsertBatch
<1>3. \A x, y \in keys' : x.key = y.key => x = y
  BY <1>1, <1>2 DEF BInv, EveryBidIsPaid
<1>4. bids' = UNION {Batch(x) : x \in keys'}
  BY <1>1, <1>2 DEF BInv, EveryBidIsPaid
<1>5. ASSUME Fee > 0
      PROVE  fees' = {fee(x) : x \in keys'}
  <2>1. fees = {fee(x) : x \in keys}
    BY <1>5 DEF BInv, EveryBidIsPaid
  <2>2. Charged(r) = {}
    BY <1>1, <2>1 DEF Charged
  <2>3. Charge(r) # 0
    BY <1>1, <1>5, Charges, FeeAssumption
  <2>4. fees' = fees \cup {fee(r)}
    BY <1>0, <2>2, <2>3 DEF Accepts, Pay
  <2>5. fee(e) = fee(r)
    BY <1>1
  <2> QED  BY <1>2, <2>1, <2>4, <2>5
<1>6. \A x : (Batch(x))' = Batch(x) /\ (Charge(x))' = Charge(x)
  BY DEF Batch, Charge
<1> QED  BY <1>3, <1>4, <1>5 DEF EveryBidIsPaid, Batch, Charge

\* The counters of the bidder, of the auction and of everybody else.
LEMMA AcceptedIsCounted ==
  ASSUME BInv, NEW c \in Attempts, Accepts(c)
  PROVE  CountersAgree'
<1>0. PICK r : r = asked[c]
  OBVIOUS
<1> DEFINE n == Cardinality(r.amounts)
           mine == participant[r.auction][r.user]
<1>1. r \in Submission /\ Passed(r, judged[c]) /\ mine \in Row
  BY <1>0, AtCommit
<1>2. r.auction \in Auctions /\ r.user \in Users /\ n \in Nat
  BY <1>1, Charges DEF Submission
<1>3. bids \subseteq BidRow /\ IsFiniteSet(bids) /\ Repeats(r) = {} /\ bids' = bids \cup Batch(r)
  BY <1>0 DEF BInv, BTypeOK, Accepts, InsertBatch
<1>4. /\ BidsOf(r.auction, r.user)' = BidsOf(r.auction, r.user) \cup Batch(r)
      /\ Cardinality(BidsOf(r.auction, r.user)') = Cardinality(BidsOf(r.auction, r.user)) + n
      /\ \A a \in Auctions, u \in Users : a # r.auction \/ u # r.user => BidsOf(a, u)' = BidsOf(a, u)
  BY <1>1, <1>3, NewBids
<1>5. /\ participant'[r.auction][r.user] = [bids |-> mine.bids + n, fees |-> mine.fees + Fee * n]
      /\ \A a \in Auctions, u \in Users :
           a # r.auction \/ u # r.user => participant'[a][u] = participant[a][u]
  <2>1. participant' = [participant EXCEPT ![r.auction][r.user] =
                          [bids |-> mine.bids + n, fees |-> mine.fees + Fee * n]]
    BY <1>0 DEF Accepts, AddParticipantBids, Charge
  <2> QED  BY <1>2, <2>1 DEF BInv, BTypeOK
<1>6. /\ mine.bids \in Nat /\ mine.bids = Cardinality(BidsOf(r.auction, r.user))
      /\ mine.bids + n <= MaxBids /\ mine.fees = Fee * mine.bids
      /\ total[r.auction] = Recount(r.auction)
  BY <1>1, <1>2 DEF BInv, CountersAgree, Row, Passed, WithinLimit
<1>7. Inserted(r) <=> BidsOf(r.auction, r.user) = {}
  <2>1. IsFiniteSet(BidsOf(r.auction, r.user))
    <3>1. BidsOf(r.auction, r.user) \in SUBSET bids
      BY DEF BidsOf
    <3> QED  BY <1>3, <3>1, FS_Subset
  <2> QED  BY <1>6, <2>1, FS_EmptySet DEF Inserted
<1>8. \A a \in Auctions : total'[a] = Recount(a)'
  <2>1. total' = [total EXCEPT ![r.auction] =
                    [bids |-> total[r.auction].bids + n,
                     participants |-> IF Inserted(r) THEN total[r.auction].participants + 1
                                      ELSE total[r.auction].participants]]
    BY <1>0 DEF Accepts, AddBidCounters
  <2>2. total'[r.auction] = Recount(r.auction)'
    BY <1>1, <1>2, <1>3, <1>6, <1>7, <2>1, NewRecount DEF BInv, BTypeOK
  <2>3. \A a \in Auctions : a # r.auction => total'[a] = total[a] /\ Recount(a)' = Recount(a)
    BY <1>1, <1>3, <2>1, NewRecount DEF BInv, BTypeOK
  <2> QED  BY <2>2, <2>3 DEF BInv, CountersAgree
<1>9. /\ participant'[r.auction][r.user].bids = Cardinality(BidsOf(r.auction, r.user)')
      /\ participant'[r.auction][r.user].bids <= MaxBids
      /\ participant'[r.auction][r.user].fees = Fee * participant'[r.auction][r.user].bids
  <2>1. ASSUME NEW i \in Nat, NEW j \in Nat, NEW k \in Nat
        PROVE  i * j + i * k = i * (j + k)
    OBVIOUS
  <2> QED  BY <1>2, <1>4, <1>5, <1>6, <2>1, FeeAssumption
<1>10. \A b, d \in BidsOf(r.auction, r.user)' : b.amount = d.amount => b = d
  <2>1. \A b \in Batch(r) : b \in BidRow /\ b.auction = r.auction /\ b.user = r.user /\ b.key = r.key /\ b.amount \in r.amounts
    BY <1>1, BatchRows
  <2>2. \A b \in BidsOf(r.auction, r.user) : b.amount \notin r.amounts
    BY <1>3 DEF Repeats
  <2>3. \A b, d \in BidsOf(r.auction, r.user) : b.amount = d.amount => b = d
    BY <1>2 DEF BInv, CountersAgree
  <2>4. \A b, d \in Batch(r) : b.amount = d.amount => b = d
    BY <2>1 DEF BidRow
  <2> QED  BY <1>4, <2>1, <2>2, <2>3, <2>4
<1>11. ASSUME NEW a \in Auctions, NEW u \in Users
       PROVE  /\ participant'[a][u].bids = Cardinality(BidsOf(a, u)')
              /\ participant'[a][u].bids <= MaxBids
              /\ participant'[a][u].fees = Fee * participant'[a][u].bids
              /\ \A b, d \in BidsOf(a, u)' : b.amount = d.amount => b = d
  <2>1. CASE a = r.auction /\ u = r.user
    BY <1>9, <1>10, <2>1
  <2>2. CASE a # r.auction \/ u # r.user
    BY <1>4, <1>5, <2>2 DEF BInv, CountersAgree
  <2> QED  BY <2>1, <2>2
<1> QED  BY <1>8, <1>11 DEF CountersAgree

LEMMA AcceptsStep ==
  ASSUME BInv, NEW c \in Attempts, Accepts(c)
  PROVE  BInv'
<1>0. PICK r : r = asked[c]
  OBVIOUS
<1>1. PICK e : e = Entry(c)
  OBVIOUS
<1> DEFINE mine == participant[r.auction][r.user]
           n == Cardinality(r.amounts)
<1>2. /\ r \in Submission /\ Passed(r, judged[c]) /\ keyLock[r.key] = c /\ rowLock[r.auction] = c
      /\ \A x \in keys : x.key # r.key
      /\ e \in KeyRow /\ e.key = r.key /\ e.auction = r.auction /\ e.user = r.user /\ e.amounts = r.amounts
      /\ e.at = judged[c] /\ mine \in Row
  BY <1>0, <1>1, AtCommit
<1>3. /\ r.auction \in Auctions /\ r.user \in Users /\ r.key \in Keys /\ r.amounts \in SUBSET Amounts
      /\ r.amounts # {} /\ n \in Nat /\ Charge(r) \in Nat /\ e.count \in Nat
  BY <1>2, Charges DEF Submission, KeyRow
<1>4. /\ pc' = [pc EXCEPT ![c] = "answer"] /\ judged' = [judged EXCEPT ![c] = 0]
      /\ told' = [told EXCEPT ![c] = [kind |-> "accepted", amounts |-> r.amounts, count |-> e.count, at |-> judged[c]]]
      /\ keys' = keys \cup {e} /\ bids' = bids \cup Batch(r) /\ Unlock(c) /\ UNCHANGED <<vars, asked>>
      /\ Repeats(r) = {} /\ Payable(r) /\ Pay(r) /\ AddParticipantBids(r)
  BY <1>0, <1>1 DEF Accepts, Answers, Goes, InsertBatch
<1>5. IInv' /\ LiveIsOpen' /\ EveryBidIsPaid' /\ CountersAgree'
  BY <1>4, SameAuctions, AcceptedIsPaid, AcceptedIsCounted
<1>6. participant' = [participant EXCEPT ![r.auction][r.user] = [bids |-> mine.bids + n, fees |-> mine.fees + Charge(r)]]
  BY <1>4 DEF AddParticipantBids
<1>7. BTypeOK'
  <2>1. bids' \subseteq BidRow
    BY <1>2, <1>4, BatchRows DEF BInv, BTypeOK
  <2>2. keys' \subseteq KeyRow
    BY <1>2, <1>4 DEF BInv, BTypeOK, KeyRow
  <2>3. participant' \in [Auctions -> [Users -> Row]]
    <3>1. [bids |-> mine.bids + n, fees |-> mine.fees + Charge(r)] \in Row
      BY <1>2, <1>3 DEF Row
    <3> QED  BY <1>3, <1>6, <3>1 DEF BInv, BTypeOK
  <2>4. total' \in [Auctions -> Totals]
    <3>1. PICK t : t = total[r.auction]
      OBVIOUS
    <3>2. t \in Totals
      BY <1>3, <3>1 DEF BInv, BTypeOK
    <3>3. PICK t2 : t2 = [bids |-> t.bids + n, participants |-> IF Inserted(r) THEN t.participants + 1 ELSE t.participants]
      OBVIOUS
    <3>4. t2 \in Totals
      BY <1>3, <3>2, <3>3 DEF Totals
    <3>5. total' = [total EXCEPT ![r.auction] = t2]
      BY <1>0, <3>1, <3>3 DEF Accepts, AddBidCounters
    <3> QED  BY <1>3, <3>4, <3>5 DEF BInv, BTypeOK
  <2>5. spendable' \in [Users -> Nat] /\ fees' \subseteq [user : Users, key : Keys, amount : Nat]
    <3>1. CASE Charge(r) = 0 \/ Charged(r) # {}
      BY <1>4, <3>1 DEF Pay, walletRow, BInv, BTypeOK
    <3>2. CASE Charge(r) # 0 /\ Charged(r) = {}
      <4>1. spendable[r.user] >= Charge(r)
        BY <1>4, <3>2 DEF Payable
      <4>2. /\ spendable' = [spendable EXCEPT ![r.user] = @ - Charge(r)]
            /\ fees' = fees \cup {[user |-> r.user, key |-> r.key, amount |-> Charge(r)]}
        BY <1>4, <3>2 DEF Pay
      <4>3. spendable[r.user] - Charge(r) \in Nat
        BY <1>3, <4>1 DEF BInv, BTypeOK
      <4> QED  BY <1>3, <4>2, <4>3 DEF BInv, BTypeOK
    <3> QED  BY <3>1, <3>2
  <2>6. told' \in [Attempts -> [kind : {"none", "accepted", "replayed"} \cup Refusals,
                                amounts : SUBSET Amounts, count : Nat, at : Nat]]
    <3>1. judged[c] \in Nat
      BY DEF BInv, BTypeOK
    <3> QED  BY <1>3, <1>4, <3>1 DEF BInv, BTypeOK
  <2>7. /\ pc' \in [Attempts -> {"idle", "claim", "lock", "judge", "commit", "answer"}]
        /\ asked' \in [Attempts -> Submissions] /\ judged' \in [Attempts -> Nat]
    BY <1>4 DEF BInv, BTypeOK
  <2>8. keyLock' \in [Keys -> Attempts \cup {Free}] /\ rowLock' \in [Auctions -> Attempts \cup {Free}]
    BY <1>4, UnlockIsOwn DEF BInv
  <2> QED  BY <1>5, <2>1, <2>2, <2>3, <2>4, <2>5, <2>6, <2>7, <2>8 DEF BTypeOK, IInv, KeyRow
<1>8. IsFiniteSet(bids')
  BY <1>2, <1>4, NewBids DEF BInv, BTypeOK
<1>9. KeysInTime'
  <2>1. UNCHANGED <<terms, openedAt>>
    BY <1>4 DEF vars, auctionVars
  <2>2. InTime(e.auction, e.at)
    BY <1>2 DEF Passed
  <2> QED  BY <1>2, <1>3, <1>4, <2>1, <2>2 DEF BInv, KeysInTime, InTime
<1>10. Safe(c)'
  <2>1. pc'[c] = "answer" /\ asked'[c] = r
        /\ told'[c] = [kind |-> "accepted", amounts |-> r.amounts, count |-> e.count, at |-> judged[c]]
    BY <1>0, <1>4 DEF BInv, BTypeOK
  <2>2. e \in keys'
    BY <1>4
  <2>3. Stored(asked[c], told[c])'
    BY <1>2, <2>1, <2>2 DEF Stored, SameRequest
  <2> QED  BY <2>1, <2>3 DEF Safe
<1>11. ASSUME NEW d \in Attempts, d # c
       PROVE  Safe(d)'
  <2>1. pc'[d] = pc[d] /\ asked'[d] = asked[d] /\ judged'[d] = judged[d] /\ told'[d] = told[d]
    BY <1>4, <1>11 DEF BInv, BTypeOK
  <2>2. keys \subseteq keys' /\ \A x \in keys' \ keys : keyLock[x.key] # d
    BY <1>2, <1>4, <1>11
  <2>3. \A a \in Auctions : rowLock[a] = d =>
          /\ status'[a] = status[a] /\ terms'[a] = terms[a] /\ openedAt'[a] = openedAt[a]
          /\ participant'[a] = participant[a]
    BY <1>2, <1>4, <1>6, <1>11 DEF BInv, BTypeOK, vars, auctionVars
  <2> QED  BY <1>4, <1>11, <2>1, <2>2, <2>3, UnlockIsOwn, StaysSafe DEF BInv
<1> QED  BY <1>5, <1>7, <1>8, <1>9, <1>10, <1>11 DEF BInv

-----------------------------------------------------------------------------
(* The invariant holds, and what it says. *)

LEMMA BInitInv == BInit => BInv
<1> SUFFICES ASSUME BInit
             PROVE  BInv
  OBVIOUS
<1>1. IInv
  BY InitInv DEF BInit
<1>2. SomeSubmission \in Submissions
  BY SubmissionsAssumption DEF SomeSubmission
<1>3. BTypeOK
  BY <1>1, <1>2 DEF BInit, BEmpty, IInv, BTypeOK, NoRow, Row, Totals, Nothing
<1>4. IsFiniteSet(bids) /\ Cardinality({}) = 0
  BY FS_EmptySet DEF BInit, BEmpty
<1>5. LiveIsOpen
  BY DEF BInit, Init, LiveIsOpen, None
<1>6. EveryBidIsPaid /\ KeysInTime
  BY DEF BInit, BEmpty, EveryBidIsPaid, KeysInTime
<1>7. CountersAgree
  <2>1. bids = {} /\ Fee * 0 = 0 /\ 0 <= MaxBids
    BY FeeAssumption DEF BInit, BEmpty
  <2>2. ASSUME NEW a \in Auctions
        PROVE  total[a] = Recount(a)
    <3>1. {b \in bids : b.auction = a} = {} /\ {b.user : b \in {x \in bids : x.auction = a}} = {}
      BY <2>1
    <3> QED  BY <1>4, <3>1 DEF Recount, BInit, BEmpty
  <2>3. ASSUME NEW a \in Auctions, NEW u \in Users
        PROVE  /\ participant[a][u].bids = Cardinality(BidsOf(a, u))
               /\ participant[a][u].bids <= MaxBids
               /\ participant[a][u].fees = Fee * participant[a][u].bids
               /\ \A b, d \in BidsOf(a, u) : b.amount = d.amount => b = d
    <3>1. BidsOf(a, u) = {} /\ participant[a][u] = NoRow
      BY <2>1 DEF BidsOf, BInit, BEmpty
    <3> QED  BY <1>4, <2>1, <3>1 DEF NoRow
  <2> QED  BY <2>2, <2>3 DEF CountersAgree
<1>8. \A c \in Attempts : Safe(c)
  BY DEF BInit, BEmpty, Safe, Nothing
<1> QED  BY <1>1, <1>3, <1>4, <1>5, <1>6, <1>7, <1>8 DEF BInv

LEMMA BNextInv == BInv /\ [BNext]_bvars => BInv'
<1> SUFFICES ASSUME BInv, [BNext]_bvars
             PROVE  BInv'
  OBVIOUS
<1>1. ASSUME NEW c \in Attempts, AttemptStep(c) \/ Crash(c) \/ \E r \in Submissions : SubmitBids(c, r)
      PROVE  BInv'
  <2>1. ASSUME Commit(c)
        PROVE  BInv'
    BY <2>1, CommitCases, AcceptsStep, RefuseStep DEF Refusals
  <2> QED  BY <1>1, <2>1, ClaimStep, LockAuctionStep, JudgeStep, ReplyStep, CrashStep, SubmitBidsStep DEF AttemptStep
<1>2. ASSUME UNCHANGED bvars
      PROVE  BInv'
  <2>1. UNCHANGED <<vars, tables, fees, spendable, keyLock, rowLock, pc, asked, judged, told>>
    BY <1>2 DEF bvars, walletRow, attempt
  <2>2. UNCHANGED <<bids, keys, participant, total, status, terms, openedAt>>
    BY <2>1 DEF tables, vars, auctionVars
  <2>3. BTypeOK'
    BY <2>1, <2>2, SameAuctions DEF BInv, IInv, BTypeOK
  <2>4. \A c \in Attempts : Safe(c)'
    BY <2>1, <2>2, StaysSafe DEF BInv
  <2>5. KeysInTime'
    BY <2>2 DEF BInv, KeysInTime, InTime
  <2> QED  BY <2>1, <2>3, <2>4, <2>5, SameTables, SameAuctions DEF BInv
<1> QED  BY <1>1, <1>2, OtherMovementStep, LifecycleKeepsBidding DEF BNext

\* The invariant, of every reachable state.
THEOREM BiddingInvariant == BSpec => []BInv
<1> QED  BY BInitInv, BNextInv, PTL DEF BSpec

\* Every variable keeps its type: no wallet is ever overdrawn by a fee, however many
\* submissions pay from it at once.
THEOREM BiddingTypesCorrect == BSpec => []BTypeOK
<1>1. BInv => BTypeOK
  BY DEF BInv
<1> QED  BY <1>1, BiddingInvariant, PTL

\* bidService.ts: bids, stored answers and fees tell one story.  No key books twice, no
\* bid is there without its fee, and no fee without its bids.
THEOREM BidsArePaid == BSpec => []EveryBidIsPaid
<1>1. BInv => EveryBidIsPaid
  BY DEF BInv
<1> QED  BY <1>1, BiddingInvariant, PTL

\* bidRepository.ts: the cached counters are what a recount finds, and nobody has more
\* bids than the auction allows or two of one amount.
THEOREM CountersAlwaysAgree == BSpec => []CountersAgree
<1>1. BInv => CountersAgree
  BY DEF BInv
<1> QED  BY <1>1, BiddingInvariant, PTL

\* idempotency.ts: what a client is told is what it asked for, is in the book, and was
\* accepted inside the window of the terms as they still are.
THEOREM AnswersAlwaysTrue == BSpec => []AnswersAreTrue
<1>1. BInv => AnswersAreTrue
  <2> SUFFICES ASSUME BInv, NEW c \in Attempts, told[c].kind \in {"accepted", "replayed"}
               PROVE  /\ told[c].amounts = asked[c].amounts
                      /\ Batch(asked[c]) \subseteq bids
                      /\ \E x \in keys : x.key = asked[c].key /\ x.count = told[c].count /\ x.at = told[c].at
                      /\ terms[asked[c].auction].starts <= told[c].at /\ told[c].at < terms[asked[c].auction].ends
    BY DEF AnswersAreTrue
  <2>1. Stored(asked[c], told[c])
    BY DEF BInv, Safe
  <2>2. PICK x \in keys : x.key = asked[c].key /\ SameRequest(asked[c], x) /\ x.count = told[c].count /\ x.at = told[c].at
    BY <2>1 DEF Stored
  <2>3. Batch(x) = Batch(asked[c])
    BY <2>2 DEF SameRequest, Batch
  <2>4. Batch(x) \subseteq bids
    BY DEF BInv, EveryBidIsPaid
  <2>5. InTime(asked[c].auction, told[c].at)
    BY <2>2 DEF BInv, KeysInTime, SameRequest
  <2> QED  BY <2>1, <2>2, <2>3, <2>4, <2>5 DEF Stored, InTime
<1> QED  BY <1>1, BiddingInvariant, PTL

-----------------------------------------------------------------------------
(* A retry of what was accepted is not refused once its transaction has begun. *)

\* What was accepted has an answer stored under its key, which is its own.
LEMMA AcceptedIsStored ==
  ASSUME BInv, NEW r \in Submission, Accepted(r)
  PROVE  \E x \in keys : x.key = r.key /\ SameRequest(r, x)
<1>1. PICK b \in Batch(r) : b \in bids /\ b.key = r.key
  BY BatchRows DEF Accepted
<1>2. PICK x \in keys : b \in Batch(x)
  BY <1>1 DEF BInv, EveryBidIsPaid
<1>3. x \in KeyRow /\ x.amounts # {}
  BY DEF BInv, BTypeOK, KeysInTime, KeyRow
<1>4. PICK q : q = [auction |-> x.auction, user |-> x.user, key |-> x.key, amounts |-> x.amounts]
  OBVIOUS
<1>5. q \in Submission /\ Batch(q) = Batch(x)
  BY <1>3, <1>4 DEF KeyRow, Submission, Batch
<1>6. x.key = r.key /\ x.auction = r.auction /\ x.user = r.user
  BY <1>1, <1>2 DEF Batch
<1>7. Batch(x) \subseteq Batch(r)
  <2>1. \A y \in Batch(x) : y \in bids /\ y.key = r.key
    BY <1>6 DEF BInv, EveryBidIsPaid, Batch
  <2> QED  BY <2>1 DEF Accepted
<1>8. Batch(r) \subseteq Batch(x)
  <2> SUFFICES ASSUME NEW y \in Batch(r)
               PROVE  y \in Batch(x)
    OBVIOUS
  <2>1. y \in bids /\ y.key = r.key
    BY DEF Accepted
  <2>2. PICK z \in keys : y \in Batch(z)
    BY <2>1 DEF BInv, EveryBidIsPaid
  <2>3. z.key = x.key
    BY <1>6, <2>1, <2>2 DEF Batch
  <2> QED  BY <2>2, <2>3 DEF BInv, EveryBidIsPaid
<1>9. r.amounts = x.amounts
  <2>1. ASSUME NEW s \in Submission, NEW t \in Submission, Batch(s) \subseteq Batch(t)
        PROVE  s.amounts \subseteq t.amounts
    <3> SUFFICES ASSUME NEW m \in s.amounts
                 PROVE  m \in t.amounts
      OBVIOUS
    <3>1. PICK y : y = [auction |-> s.auction, user |-> s.user, amount |-> m, key |-> s.key]
      OBVIOUS
    <3>2. y \in Batch(s) /\ y.amount = m
      BY <3>1 DEF Batch
    <3>3. PICK n \in t.amounts : y = [auction |-> t.auction, user |-> t.user, amount |-> n, key |-> t.key]
      BY <2>1, <3>2 DEF Batch
    <3> QED  BY <3>2, <3>3
  <2>2. q.amounts \subseteq r.amounts
    BY <1>5, <1>7, <2>1
  <2>3. r.amounts \subseteq q.amounts
    BY <1>5, <1>8, <2>1
  <2> QED  BY <1>4, <2>2, <2>3
<1> QED  BY <1>6, <1>9 DEF SameRequest

THEOREM AcceptedIsNeverRefused == BSpec => RetryIsNotRefused
<1> DEFINE Kept == \A c \in Attempts :
      pc[c] # "idle" /\ told[c] = Nothing /\ told'[c].kind \in Refusals => ~Accepted(asked[c])
<1>1. BInv /\ [BNext]_bvars => [Kept]_bvars
  <2> SUFFICES ASSUME BInv, BNext, NEW c \in Attempts, pc[c] # "idle",
                      told[c] = Nothing, told'[c].kind \in Refusals, Accepted(asked[c])
               PROVE  FALSE
    OBVIOUS
  <2>0. PICK r : r = asked[c]
    OBVIOUS
  <2>1. r \in Submission
    BY <2>0, SubmissionsAssumption DEF BInv, BTypeOK
  <2>2. PICK x \in keys : x.key = r.key /\ SameRequest(r, x)
    BY <2>0, <2>1, AcceptedIsStored
  <2>3. told'[c] # told[c]
    BY DEF Nothing, Refusals
  <2>4. pc[c] \notin {"lock", "judge", "commit"}
    BY <2>0, <2>2 DEF BInv, Safe
  <2>5. told'[c] # Nothing
    BY DEF Nothing, Refusals
  <2>6. Claim(c)
    <3>1. ASSUME NEW d \in Attempts, d # c, AttemptStep(d) \/ Crash(d) \/ \E s \in Submissions : SubmitBids(d, s)
          PROVE  told'[c] = told[c]
      BY <3>1 DEF AttemptStep, Claim, LockAuction, Judge, Commit, Reply, Crash, SubmitBids, Refuse, Answers,
                  BInv, BTypeOK
    <3>2. told' # told
      BY <2>3
    <3>3. AttemptStep(c) \/ Crash(c) \/ \E s \in Submissions : SubmitBids(c, s)
      BY <2>3, <3>1, <3>2 DEF BNext, OtherMovement, LifecycleStep, attempt
    <3>4. ~Crash(c) /\ ~(\E s \in Submissions : SubmitBids(c, s)) /\ ~LockAuction(c)
      BY <2>3 DEF Crash, SubmitBids, LockAuction
    <3>5. ~Judge(c) /\ ~Commit(c)
      BY <2>4 DEF Judge, Commit
    <3>6. ~Reply(c)
      BY <2>5 DEF Reply, BInv, BTypeOK
    <3> QED  BY <3>3, <3>4, <3>5, <3>6 DEF AttemptStep
  <2>7. \A y \in keys : y.key = r.key => SameRequest(r, y)
    BY <2>2 DEF BInv, EveryBidIsPaid
  <2>8. told'[c].kind = "replayed" \/ told' = told
    BY <2>0, <2>6, <2>7 DEF Claim, Answers, BInv, BTypeOK
  <2> QED  BY <2>3, <2>8 DEF Refusals
<1> QED  BY <1>1, BiddingInvariant, PTL DEF BSpec, RetryIsNotRefused

-----------------------------------------------------------------------------
(* Bidding implements the bid book. *)

\* A bid as the book has it, and the book.
Shown(b) == [auction |-> b.auction, user |-> b.user, amount |-> b.amount]

ShownBids == {Shown(b) : b \in bids}

Fees == [a \in Auctions |-> [u \in Users |-> participant[a][u].fees]]

\* The book's bids of one user in one auction are no more than the rows of the table.
LEMMA ShownAreFewer ==
  ASSUME BInv, NEW a \in Auctions, NEW u \in Users
  PROVE  /\ IsFiniteSet({b \in ShownBids : b.auction = a /\ b.user = u})
         /\ Cardinality({b \in ShownBids : b.auction = a /\ b.user = u}) <= participant[a][u].bids
<1> DEFINE S == BidsOf(a, u)
           T == {b \in ShownBids : b.auction = a /\ b.user = u}
           f == [b \in S |-> Shown(b)]
<1>1. IsFiniteSet(S)
  <2>1. S \in SUBSET bids
    BY DEF BidsOf
  <2> QED  BY <2>1, FS_Subset DEF BInv
<1>2. f \in Surjection(S, T)
  <2>1. ASSUME NEW b \in S
        PROVE  f[b] = Shown(b) /\ f[b] \in T
    BY DEF BidsOf, ShownBids, Shown
  <2>2. ASSUME NEW t \in T
        PROVE  \E b \in S : f[b] = t
    <3>1. PICK b \in bids : t = Shown(b)
      BY DEF ShownBids
    <3>2. b \in S
      BY <3>1 DEF BidsOf, Shown
    <3> QED  BY <2>1, <3>1, <3>2
  <2> QED  BY <2>1, <2>2, Fun_IsSurj
<1>3. IsFiniteSet(T) /\ Cardinality(T) <= Cardinality(S)
  BY <1>1, <1>2, FS_Surjection
<1> QED  BY <1>3 DEF BInv, CountersAgree

LEMMA SameCardinality ==
  ASSUME NEW S
  PROVE  Book!Cardinality(S) = Cardinality(S)
BY DEF Book!Cardinality, Cardinality

LEMMA AcceptedIsPlaced ==
  ASSUME BInv, NEW c \in Attempts, Accepts(c)
  PROVE  Book!BookNext
<1>0. PICK r : r = asked[c]
  OBVIOUS
<1> DEFINE a == r.auction
           u == r.user
           batch == {[auction |-> a, user |-> u, amount |-> m] : m \in r.amounts}
<1>1. r \in Submission /\ Passed(r, judged[c]) /\ participant[a][u] \in Row
  BY <1>0, AtCommit
<1>2. a \in Auctions /\ u \in Users /\ r.amounts # {} /\ r.amounts \in SUBSET Ladder /\ Charge(r) \in Nat
  BY <1>1, Charges DEF Submission, Passed, OnLadder
<1>3. /\ bids' = bids \cup Batch(r) /\ Repeats(r) = {} /\ UNCHANGED vars
      /\ participant' = [participant EXCEPT ![a][u] = [bids |-> participant[a][u].bids + Cardinality(r.amounts),
                                                       fees |-> participant[a][u].fees + Charge(r)]]
  BY <1>0 DEF Accepts, InsertBatch, AddParticipantBids
<1>4. batch = {Shown(b) : b \in Batch(r)}
  <2>1. ASSUME NEW m \in r.amounts
        PROVE  \E b \in Batch(r) : [auction |-> a, user |-> u, amount |-> m] = Shown(b)
    <3>1. PICK b : b = [auction |-> a, user |-> u, amount |-> m, key |-> r.key]
      OBVIOUS
    <3> QED  BY <3>1 DEF Batch, Shown
  <2>2. ASSUME NEW b \in Batch(r)
        PROVE  Shown(b) \in batch
    BY DEF Batch, Shown
  <2> QED  BY <2>1, <2>2
<1>5. ShownBids' = ShownBids \cup batch
  BY <1>3, <1>4 DEF ShownBids
<1>6. batch \cap ShownBids = {}
  <2> SUFFICES ASSUME NEW s \in batch, s \in ShownBids
               PROVE  FALSE
    OBVIOUS
  <2>1. PICK b \in bids : s = Shown(b)
    BY DEF ShownBids
  <2>2. s.auction = a /\ s.user = u /\ s.amount \in r.amounts
    OBVIOUS
  <2>3. b.auction = a /\ b.user = u /\ b.amount \in r.amounts
    BY <2>1, <2>2 DEF Shown
  <2> QED  BY <1>3, <2>3 DEF Repeats, BidsOf
<1>7. Cardinality({b \in ShownBids : b.auction = a /\ b.user = u}) + Cardinality(r.amounts) <= MaxBids
  <2>1. /\ Cardinality({b \in ShownBids : b.auction = a /\ b.user = u}) \in Nat
        /\ Cardinality({b \in ShownBids : b.auction = a /\ b.user = u}) <= participant[a][u].bids
    BY <1>2, ShownAreFewer, FS_CardinalityType
  <2>2. participant[a][u].bids + Cardinality(r.amounts) <= MaxBids
    BY <1>1 DEF Passed, WithinLimit
  <2> QED  BY <1>1, <2>1, <2>2, Charges, FeeAssumption DEF Row
<1>8. {b \in {x \in ShownBids : x.auction = a} : b.user = u} = {b \in ShownBids : b.auction = a /\ b.user = u}
  OBVIOUS
<1>9. Fees' = [Fees EXCEPT ![a][u] = @ + Fee * Cardinality(r.amounts)]
  BY <1>1, <1>2, <1>3 DEF Fees, Charge, Row, BInv, BTypeOK
<1>10. status[a] = "live"
  BY <1>1 DEF Passed
<1>11. /\ ShownBids = {[auction |-> b.auction, user |-> b.user, amount |-> b.amount] : b \in bids}
       /\ ShownBids' = {[auction |-> b.auction, user |-> b.user, amount |-> b.amount] : b \in bids'}
  BY DEF ShownBids, Shown
<1>12. Book!PlacedBy(a, u) = {b \in ShownBids : b.auction = a /\ b.user = u}
  BY <1>8, <1>11 DEF Book!PlacedBy, Book!BidsIn
<1>13. UNCHANGED Book!vars
  BY <1>3 DEF Book!vars, Book!auctionVars, Book!stockVars, vars, auctionVars, stockVars
<1>14. Book!PlaceBids(a, u, r.amounts)
  BY <1>2, <1>5, <1>6, <1>7, <1>9, <1>10, <1>11, <1>12, <1>13, SameCardinality
     DEF Book!PlaceBids, Book!Accepting, Fees
<1> QED  BY <1>2, <1>14 DEF Book!BookNext

\* submitBids, with its keys, locks, retries and crashes, is nothing to the rest of the
\* system but a book that grows one paid batch at a time while the auction is live.
THEOREM BiddingImplementsBook == BSpec => ImplementsBook
<1>1. BInv /\ [BNext]_bvars => [Book!BookNext]_(Book!bookVars)
  <2> SUFFICES ASSUME BInv, [BNext]_bvars
               PROVE  Book!BookNext \/ UNCHANGED Book!bookVars
    OBVIOUS
  <2>1. ASSUME UNCHANGED <<vars, tables>>
        PROVE  UNCHANGED Book!bookVars
    BY <2>1 DEF tables, vars, auctionVars, stockVars, Book!bookVars, Book!book, Book!vars, Book!auctionVars, Book!stockVars
  <2>2. ASSUME NEW c \in Attempts, Commit(c)
        PROVE  Book!BookNext \/ UNCHANGED Book!bookVars
    BY <2>1, <2>2, CommitCases, AcceptedIsPlaced DEF Refuse
  <2>3. ASSUME NEW c \in Attempts, Claim(c) \/ LockAuction(c) \/ Judge(c) \/ Reply(c) \/ Crash(c)
                                   \/ \E r \in Submissions : SubmitBids(c, r)
        PROVE  UNCHANGED <<vars, tables>>
    BY <2>3 DEF Claim, LockAuction, Judge, Reply, Crash, SubmitBids, Refuse
  <2>4. ASSUME NEW u \in Users, OtherMovement(u)
        PROVE  UNCHANGED <<vars, tables>>
    BY <2>4 DEF OtherMovement
  <2>5. ASSUME LifecycleStep
        PROVE  Book!BookNext
    <3>1. Book!Next
      BY <2>5, LifecycleKeepsBidding, SameLifecycle
    <3>2. UNCHANGED Book!book
      BY <2>5 DEF LifecycleStep, tables, Book!book
    <3> QED  BY <3>1, <3>2 DEF Book!BookNext
  <2>6. ASSUME UNCHANGED bvars
        PROVE  UNCHANGED <<vars, tables>>
    BY <2>6 DEF bvars
  <2> QED  BY <2>1, <2>2, <2>3, <2>4, <2>5, <2>6 DEF BNext, AttemptStep
<1> QED  BY <1>1, BiddingInvariant, PTL DEF BSpec, ImplementsBook

\* And it begins as the empty book.
THEOREM BiddingBeginsAsBook == BInit => Book!BookInit
BY DEF BInit, BEmpty, NoRow, Init, Book!BookInit, Book!EmptyBook, Book!Init, None, Book!None, Null, Book!Null
=============================================================================
