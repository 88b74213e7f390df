------------------------------ MODULE Catalog ------------------------------
(***************************************************************************)
(* The seller's side of the catalog (catalogService.ts, and createAuction  *)
(* of auctionService.ts) beside the auction lifecycle.                     *)
(*                                                                         *)
(* None of these operations locks the product: each reads it, then counts  *)
(* what depends on it, then writes, in three statements of one READ        *)
(* COMMITTED transaction.  Auctions open, close and are cancelled between  *)
(* them, and so do the other sessions' writes.                             *)
(***************************************************************************)
EXTENDS AuctionLifecycle

CONSTANTS
  Sessions   \* concurrent requests of sellers

VARIABLES
  listed,    \* products.status
  at,        \* where each session is in its transaction
  request,   \* what it was asked to do
  seen       \* stock_quantity and reserved_quantity, as its first statement read them

catalogVars == <<listed, at, request, seen>>
cvars       == <<vars, catalogVars>>

Keep == -1   \* a stock_quantity that the request does not change

\* A request names a product and what to change; None leaves the status alone.
Request(ops, stocks, states) == [op : ops, product : Products, stock : stocks, status : states]

Requests ==
  Request({"create"}, {Keep}, {None})
    \cup Request({"update"}, 0..MaxStock \cup {Keep}, {"draft", "active", None})
    \cup Request({"archive"}, {Keep}, {"archived"})

Unread == [stock |-> 0, reserved |-> 0]
Idle   == CHOOSE r \in Requests : r.op = "create"   \* stands for "nothing asked"

CTypeOK ==
  /\ TypeOK
  /\ listed  \in [Products -> {None, "draft", "active", "archived"}]
  /\ at      \in [Sessions -> {"idle", "check", "write", "refused"}]
  /\ request \in [Sessions -> Requests]
  /\ seen    \in [Sessions -> [stock : Nat, reserved : Nat]]

CInit ==
  /\ Init
  /\ listed  = [p \in Products |-> None]
  /\ at      = [s \in Sessions |-> "idle"]
  /\ request = [s \in Sessions |-> Idle]
  /\ seen    = [s \in Sessions |-> Unread]

-----------------------------------------------------------------------------
AuctionsOf(p, in) == {a \in Auctions : ProductOf[a] = p /\ status[a] \in in}

\* countUnfinishedForProduct.
Unfinished(p) == AuctionsOf(p, Statuses \ Terminal)

\* countActiveAuctionsForProduct: a draft is not counted.
Active(p) == AuctionsOf(p, Statuses \ (Terminal \cup {"draft"}))

\* What the first statement, findProductById, must find.
Eligible(r) ==
  /\ listed[r.product] # None
  /\ r.op = "create" => listed[r.product] = "active" /\ stock[r.product] >= 1
  /\ r.op = "update" => listed[r.product] # "archived"

\* What the second statement must count: assertProductEligible, the stock check of
\* updateProduct, the dependency check of archiveProduct.
Allowed(r, row) ==
  /\ r.op = "create" => Cardinality(Unfinished(r.product)) < row.stock - row.reserved
  /\ r.op = "update" /\ r.stock # Keep => r.stock >= Cardinality(HeldFor(r.product))
  /\ r.op = "archive" => Active(r.product) = {}

Goes(s, next) == at' = [at EXCEPT ![s] = next]

-----------------------------------------------------------------------------
\* insertProduct: a new product is a draft, and no unit of it is reserved.
NewProduct(p, n) ==
  /\ listed' = [listed EXCEPT ![p] = "draft"]
  /\ stock' = [stock EXCEPT ![p] = n]

\* createProduct.
CreateProduct(p, n) ==
  /\ listed[p] = None
  /\ NewProduct(p, n)
  /\ UNCHANGED <<auctionVars, hold, reserved, clock, at, request, seen>>

\* The transaction begins and reads the product, with no lock.
Read(s, r) ==
  /\ at[s] = "idle"
  /\ Eligible(r)
  /\ Goes(s, "check")
  /\ request' = [request EXCEPT ![s] = r]
  /\ seen' = [seen EXCEPT ![s] = [stock |-> stock[r.product], reserved |-> reserved[r.product]]]
  /\ UNCHANGED <<vars, listed>>

\* The second statement counts, with no lock either.
Check(s) ==
  /\ at[s] = "check"
  /\ Goes(s, IF Allowed(request[s], seen[s]) THEN "write" ELSE "refused")
  /\ UNCHANGED <<vars, listed, request, seen>>

\* The end of the transaction, however it ends, and its answer.
Ends(s) ==
  /\ Goes(s, "idle")
  /\ request' = [request EXCEPT ![s] = Idle]
  /\ seen' = [seen EXCEPT ![s] = Unread]

\* createAuction's INSERT and its commit.
InsertAuction(s, a, t) ==
  /\ at[s] = "write"
  /\ request[s].op = "create"
  /\ ProductOf[a] = request[s].product
  /\ Insert(a, t)
  /\ Ends(s)
  /\ UNCHANGED listed

\* Mutant of WriteRow: the table has no CHECK, so the count taken earlier decides.
BugNoCheck(r, row) ==
  /\ stock' = IF r.stock = Keep THEN stock ELSE [stock EXCEPT ![r.product] = r.stock]
  /\ UNCHANGED reserved

\* Mutant of WriteRow: the UPDATE writes the whole row back as it was read.
BugWriteRow(r, row) ==
  /\ r.stock # Keep => row.reserved <= r.stock
  /\ stock' = [stock EXCEPT ![r.product] = IF r.stock = Keep THEN row.stock ELSE r.stock]
  /\ reserved' = [reserved EXCEPT ![r.product] = row.reserved]

\* The UPDATE writes what the request changes and nothing else (COALESCE); the
\* CHECK refuses a stock below what is reserved by then.
WriteRow(r, row) ==
  /\ r.stock # Keep => reserved[r.product] <= r.stock
  /\ stock' = IF r.stock = Keep THEN stock ELSE [stock EXCEPT ![r.product] = r.stock]
  /\ UNCHANGED reserved

\* The UPDATE of updateProduct and archiveProduct, and its commit.
WriteProduct(s) ==
  LET r == request[s] IN
  /\ at[s] = "write"
  /\ r.op # "create"
  /\ WriteRow(r, seen[s])
  /\ listed' = IF r.status = None THEN listed ELSE [listed EXCEPT ![r.product] = r.status]
  /\ Ends(s)
  /\ UNCHANGED <<auctionVars, hold, clock>>

\* A refusal is answered; a CHECK that fires, or a lost connection, rolls back.
Abandon(s) ==
  /\ at[s] # "idle"
  /\ Ends(s)
  /\ UNCHANGED <<vars, listed>>

SessionStep(s) ==
  \/ \E r \in Requests : Read(s, r)
  \/ Check(s) \/ WriteProduct(s) \/ Abandon(s)
  \/ \E a \in Auctions, t \in Terms : InsertAuction(s, a, t)

CNext ==
  \/ \E s \in Sessions : SessionStep(s)
  \/ \E p \in Products, n \in 0..MaxStock : CreateProduct(p, n)
  \/ (Tick \/ \E a \in Auctions : AuctionStep(a)) /\ UNCHANGED catalogVars

CSpec == CInit /\ [][CNext]_cvars

-----------------------------------------------------------------------------
\* Whatever sellers' unlocked reads and late writes do, the auctions and the
\* stock they see stay within AuctionLifecycle, where stock is only written when
\* the CHECK lets it: everything proved of that module holds here.
StaysInLifecycle == Spec

\* docs/catalog.md, "Status": an archived product "cannot be auctioned".  TLC refutes it:
\* a draft auction does not count as depending on its product, and may go live later.
ArchivedIsNotAuctioned ==
  \A a \in Auctions : status[a] = "live" => listed[ProductOf[a]] # "archived"

\* auctionService.ts, assertProductEligible: a seller is told the stock is already
\* promised only if there are as many unfinished auctions as units.  TLC refutes it: an
\* auction that holds its unit is counted twice, as unfinished and as reserved.
CommittedMeansPromised ==
  [][\A s \in Sessions :
       at'[s] = "refused" /\ at[s] = "check" /\ request[s].op = "create"
         => Cardinality(Unfinished(request[s].product)) >= seen[s].stock]_cvars
=============================================================================
