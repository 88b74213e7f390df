# A formal model of HOWLOW

HOWLOW sells products by lowest-unique-bid auctions: bidders pay a fee for every
amount they name, and the lowest amount named exactly once wins. This directory
holds TLA+ modules of the program's core, the TLC configurations that check them
on small instances, and proofs, checked by TLAPS, for every instance.

Run `tlc -config X.cfg M` and `tlapm MProofs.tla` in this directory.

## 1. The system

PostgreSQL is the only authority: money, stock, bids and statuses are rows, and
every rule is decided in a transaction that holds the row it decides about. Redis
carries jobs, drafts, rate limits and notifications, and may lose all of them.

| Component | State | Operations | Talks to |
| --- | --- | --- | --- |
| wallet | `wallets`, `wallet_entries` | credit, debit, refund, adjust, freeze, reconcile | called by bidding and results, in their transactions or its own |
| auctions | `auctions` | create, edit, submit, approve, reject, open, close, calculate, complete, suspend, resume, cancel | locks an auction, then the catalog's product |
| catalog | `products`, `inventory_reservations`, `categories`, `product_images` and a bucket | create, edit, archive, reserve, release; move categories; add, remove, reorder images | reserve and release are called by auctions and results |
| bidding | `bids`, `auction_participants`, `idempotency_keys`, counters of `auctions` | submitBids | locks key, auction, participant, then debits the wallet |
| results | `auction_results` | closeAuction, refunds, verify | locks an auction, creates an order or releases a unit; refunds by the wallet |
| orders | `orders` | create the winner's order | called by results |
| worker | BullMQ queues in Redis | schedule, catch up, run and retry the jobs that open and close; sweeper; nightly reconciliation | told of approvals over Redis; calls auctions, results, wallet |
| auth | `users`, `sessions`, `otp_challenges`, `telegram_link_tokens`, `telegram_accounts` | register, verify, log in, rotate, revoke, link Telegram | used by both channels; every request asks whether its session is live |
| Telegram bot | one draft per user in Redis | ask, quote, confirm, report | auth, bidding |
| website | state of its pages, one token in localStorage | quote, confirm, retry; restore and refresh the sign-in; page through lists | every service, over HTTP |
| HTTP, events, audit, storage, schemas | none that is read back, but the objects of the bucket | parse, publish, record, sign, validate | |

What is hard in each of them:

* **wallet.** Concurrent movements, retries whose first answer was lost, a freeze
  in between, a crash between the balance and its entry, and a reconciliation that
  reads two tables while money moves. Correct when the ledger explains the balance,
  money moves once per key, and answers are true.
* **auctions and catalog.** Jobs that fire early, late, twice or not at all; staff
  who suspend and resume; sellers whose product edits lock nothing; moves of categories
  and positions of images that are computed from rows others are changing. Correct when
  no unit is promised twice, an auction that takes bids has its unit, terms are frozen
  once bidders may have committed to them, nothing ends early, and an image that is
  shown has its bytes.
* **bidding.** Batches that race each other, the close, the deadline and the wallet;
  retries with the same key; keys reused for something else. Correct when bids, fees,
  counters and stored answers always tell one story, and the set of bids is final
  once the auction is not live.
* **results and worker.** A close in two transactions and many refunds, interrupted
  anywhere and resumed by a retry or a sweep; a queue that forgets, repeats and goes by
  another clock. Correct when there is one decision, one order or one released unit, one
  refund per payer, and all of that eventually, whatever the queue does.
* **auth.** Tokens presented twice, refreshes that the database aborts and the server
  repeats, revocations beside them; codes that are resent while they are checked, and
  counted while their transaction is rolled back. Correct when a token is exchanged at most
  once, a family is one chain, a code that has authorised a request is found by no later
  one, guesses are counted, and a link token makes one link.
* **clients.** Updates delivered again, drafts lost or left over, requests that arrive
  after the page has given up on them, two tabs with one token, lists that change between
  two pages. Correct when a key means one set of amounts, nobody is told of bids that were
  not placed, no page presents a token twice, and a row that stands still is shown once.

`PROJECT.json` lists the hazards one by one, at their lines.

## 2. The modules

    Accounts  <--implements--  WalletLedger <-- Reconciliation <-- MCWallet
                                    ^-- WalletLedgerProofs

    AuctionLifecycle
        ^-- AuctionLifecycleProofs
        ^-- Catalog <-- MCCatalog          (Catalog implements AuctionLifecycle)
        |      ^-- CatalogProofs (with Listing and AuctionLifecycleProofs)
        ^-- Bidding <-- MCBidding          (Bidding implements BidBook)
        |      ^-- BiddingProofs (with AuctionLifecycleProofs)
        ^-- BidBook
               ^-- Closing (with LubV1)
                      ^-- Sweeper <-- MCSweeper
                      |      ^-- Jobs <-- MCClosing   (Jobs implements Sweeper's steps)
                      ^-- ClosingProofs (of LubV1, Closing, Sweeper and Jobs)

    Categories, Gallery <-- Listing <-- MCCatalog

    TokenFamilies  <--implements--  Sessions <-- MCSessions
                                       ^-- SessionsProofs

    Codes, Links <-- MCIdentity            Channels, Pages, Paging <-- MCChannels
        ^-- IdentityProofs                           ^-- ChannelsProofs

### Accounts, WalletLedger, Reconciliation

`WalletLedger` is `applyMovement` step by step: a caller resolves its wallet
(`Resolve`), waits for the row lock (`Lock`), decides on the row it read under it
(`Decide`) and writes balance and entry together with the commit (`Commit`). What a
transaction writes is invisible until it commits, so the writes are one step. `Crash`
is also the abort by the database (40001, 40P01): `postMovement` retries after it,
which here is the same call again. Answers are kept until they are read, because the
properties are about what callers are told. The freeze is a transaction that writes
one row under its lock and is one step. Roles and audit rows are left out;
`reserved_minor` is never written by the program.

`Accounts` is the promise: one step per movement, once per key, never below zero,
nothing out of a frozen account. `Reconciliation` adds the nightly check with its
REPEATABLE READ snapshot.

### AuctionLifecycle

Every transition locks the auction before it reads it, and the product before it
touches a unit, and holds both to the commit, so a transition is one step. What it
reads earlier is `now()`, the start of its transaction: `Open(a, now)` and
`Close(a, now)` take any `now` up to the clock. Any transition may be called by
anybody at any moment: who may is a matter of roles, and when jobs call is not
trusted for safety. A call that finds its work done changes nothing and is a stutter.
`Complete(a, sold)` includes what the decision's transaction does to the unit.
Stock is written whenever the CHECK of the table allows it (`WriteStock`).

### Catalog

The seller's `createAuction`, `updateProduct` and `archiveProduct` lock nothing. Each is
three steps, `Read`, `Check` and a write (`InsertAuction` or `WriteProduct`), and the
lifecycle moves between them. That all of this stays within what `AuctionLifecycle`
allows (`StaysInLifecycle`) is what justifies `WriteStock`, and is proved.

### Categories, Gallery, Listing

The tree of categories: staff check a move by climbing from the new parent (`CheckMove`)
and write it later (`WriteMove`), with nothing locked in between. The images of one
product: adding counts the rows and inserts at that position, removing deletes a row, lists
the others and writes them again, reordering lists and writes; a unique index on positions,
and the offset at which rows are parked, are all that keeps two such requests apart. The
object of an image is written by the browser with a URL that expires (`Upload`, `Expire`),
and deleted after the row, outside the transaction (`DeleteObject`). `Listing` puts the two
side by side; they share no row.

### Bidding

`submitBids` beside the lifecycle: `SubmitBids` (the checks before the transaction),
`Claim` (the key, waiting for whoever holds it uncommitted), `LockAuction`, `Judge` (all
checks under the lock, on `clock_timestamp()`), `Commit` (bids, fee, counters, stored
answer), `Reply`, and `Crash` from anywhere. Lifecycle transitions need the auction's row
lock. The participant's row is only locked under the auction's, so it has no lock here.
The wallet is its contract: `Accounts` with the balance and the freeze in one number,
`spendable`, which other movements change at will (`OtherMovement`). All auctions share
one ladder, limit and fee. Rate limits and eligibility, checked once before the
transaction, are left out.

`BidBook` is what this promises: a set of bids that only grows, a batch at a time, bids
and fee together, and only while the auction is live. Everything after the bidding is
built on it, so it need not carry keys and locks along.

### LubV1, Closing

`LubV1` is the query that finds the winner, over sets of bids. `Closing` is `closeAuction`
by any number of closers at once (the job, its retries, the sweeper): a first transaction
marks the auction (`BeginClosing`, or `ResumeClosing` when that was done before), a second
one counts the bids, stores the result, makes the order or releases the unit (`Decide`),
and a pass over the payers returns the fees, if the outcome is one that does (`StartRefunds`,
`ListPayers`, `Refund`). The two transactions hold the auction's row from beginning to end
and are one step each; the list of payers is read with no lock and each refund is a
transaction of its own. `Interrupt` ends one closer or several, anywhere: a crash, an exception,
an abort. `Elsewhere` is the rest of the world: bids, and every step of the lifecycle that the
closers do not make.

### Sweeper, Jobs

`Sweeper` is `runSweep` as one of those closers: it reads four lists, works on them in turn
with what may have become of their auctions meanwhile, fails (`Fails`) and starts again.
Other closers may do anything or nothing beside it.

`Jobs` is the queue. An approval is announced after its commit (`ApproveAuction`); the
announcement is lost (`LoseEvent`) or heard by a worker that listens (`Hear`), which plans
two jobs and adds them one after the other (`AddJob`, ignored while a job of that id is
kept), or gives up when Redis is away (`Forget`). A worker that starts reads what is ahead
(`Boot`), adds it, and only then subscribes. A job is due by the worker's clock, which may be
ahead by `Skew`; the services it calls go by the database's. It opens (`JobOpens`), closes
(`JobCloses`, then `JobDecides` and the closer's own steps), finds that it is early
(`JobIsEarly`), or fails and is retried or given up (`JobFails`; attempts are not counted, any
may be the last). The worker dies (`Kill`) and Redis is flushed (`Flush`) at any point. Its one
handler is the closer `TheWorker`. Here staff and sellers do everything but open and close, as
the system has it, where `Closing` lets anybody open and close at any time.

### TokenFamilies, Sessions

The sessions of one user. A refresh sets a row aside (`Refresh`), reads the presented one in
its SERIALIZABLE transaction (`Read`), waits for its row and updates it (`Write`), or is
aborted because somebody did before (`Conflict`: one retry, then an error), and commits
(`Commit`: the old row revoked and linked, the new one in the family). A revocation by
logout, by reuse or of everything is one UPDATE of a READ COMMITTED transaction and has
two steps: the rows it picks when it begins (`Aim`), and those it gets once nobody holds
them (`Revoke`). `Stale` says what PostgreSQL's first-updater-wins rule sees. That an
access token is refused when its session is not live is `Live`; a request reads it once and
uses it once, so nothing more is to be said of it. `TokenFamilies` is the promise: at most
one current token in each family, exchanged at most once, and an ended family stays ended.

### Codes, Links

`Codes` is one phone number's challenges for three purposes and the account behind it.
`VerifyOtp` reads the live challenge with no lock; then the right answer consumes the row in
the transaction that it authorises (`ConsumeOtp`, `Commit`), and a wrong one is counted on a
connection of its own (`CountAttempt`), after which the transaction is rolled back
(`Rollback`). A resend puts another code into the row it found (`UpsertOtpChallenge`). The pool
has `PoolMax` connections. What a reset does to sessions is `RevokeAll` of `Sessions`.
`accepted` counts what each code has authorised: two requests that read one challenge before
either consumed it both get past `VerifyOtp`, and `ConsumeOtp`, which asks nothing of the row,
lets both commit. `AcceptedIsSpent` says what is left: from the first commit on nobody else
finds the code, and only the requests that had found it right by then may follow.
`Links` is the issue of a link token in two statements, outside a transaction
(`RetireLinkToken`, `InsertLinkToken`), and its confirmation, in one that locks the token
(`ConfirmLink`, `LinkAccount`), beside expiry and removal of the link.

### Channels, Pages, Paging

`Channels` is how one user's bids reach the engine. The bot handles each update on its own
(`TypeAmounts`, `Quote`, `TapConfirm`, `SubmitDraft`, `ForgetDraft`, `Report`), all of them over
one draft in Redis, whose calls may fail; the page goes through its stages with the key it made
(`Review`, `Submit`, `AfterAnswer`, `LeaveStage`) while its requests and their answers wander.
`Engine` is what `Bidding` promises: a key is booked with what it came with, once.

`Pages` is the stored sign-in: every tab has its variables (`page`), all have one
token in localStorage (`storage`). Only the effect that restores the session when a page is
mounted calls `Refresh`, once, or twice under StrictMode (`LoadPage`); a second call joins the
first, which takes effect when the answer is heard by the page that asked, if it is still
there. A read of the storage may find nothing, and a write or a removal may fail unseen, as
`auth-api.ts` swallows both: `StoredRefreshToken` and `Stores` choose, and `stuck` remembers
what a failed write left behind. The server is `Sessions`, seen from outside. `Paging` is a list read a page at a time: the keyset query (`Resumes`,
`Ordered`, `PageOf`), the cursor, and the page that appends what it gets, while rows come, go
and move (`ChangeRow`).

## 3. The runs

| Run | Instance | Shows |
| --- | --- | --- |
| `wallet` | one wallet, two callers, seven intents (two fees that together exceed the deposit, a key reused for another amount, an adjustment without key, a wrong currency, a refused type) | With crashes, retries, freezes and a reconciliation beside them, money moves once per key and the ledger explains the balance. |
| `catalog` | three stories: two auctions of one product of up to two units and one seller's session; three categories and two members of staff; three images and two editors | Every transition in every order, between the statements of an unlocked seller: nothing oversold or brought back. A move whose readings still hold when it is written, under a parent the climb reaches the top from, keeps the tree a tree. The first image is first, positions stay whole, and what is shown keeps its object. |
| `bidding` | one open auction, two attempts at a time, five submissions chosen to collide in limit, amount, key and user | Bids, fees, counters and answers tell one story while the auction closes, is suspended, resumed or cancelled; `ImplementsBook`. |
| `bidding_live` | two attempts of contending submissions, fair | Everybody is answered. |
| `closing` | two stories of one auction. Bidding: three users, two amounts, up to two bids each, two closers. Queued: from the approval on, with jobs, sweeper, staff, one death of the worker and any loss of Redis | Over every set of bids: one result that verifies, one order, each fee returned once; terms stay what they were at the opening. Whatever becomes of the queue, jobs do no more than a closer. |
| `refund_currency` | the same | *Violated*: the fees of an auction in USD come back in ETB. |
| `sweeper` | two stories, two auctions, the sweeper (which may fail) and another closer | What is due is opened and closed, what ended is decided, every fee comes back. |
| `sessions` | two requests at a time, four sessions | Answers, revocations, the families' promise, and nobody waits for ever. |
| `sessions_over` | the same | *Violated*: a logout during a refresh is answered, and the refreshed session is live. |
| `channels` | three stories: one user on the bot and on the website, two updates at a time, two sets of amounts; two tabs; a list of three rows under two filters | A key never means two sets of amounts, what is reported placed is placed; no page presents one token twice, nor leaves one stored whose answer it has heard, unless the storage failed; a row that stands still is shown once, in order. |
| `identity` | two stories: two requests at a time over three purposes with a pool of two; two linkers, two users, two Telegram accounts | A code that has authorised a request is found right by no later one, guesses are counted whatever is rolled back; a link token makes one link. |
| `identity_pool` | the same | *Violated*: two wrong codes at once wait for each other's connection for ever. |

**Stories.** Parts that share no row are checked in one run, one story at a time: while one
is told, the others stay in their initial states. Nothing is lost by that, because a
property of one part does not read the others' variables.

**Bounds.** `MaxEntries` = 3 limits the length of a ledger: a fourth entry meets no
new case, since a movement looks only at the row and at entries with its key. One wallet
and one auction for bidding suffice because a movement, or an attempt, never reads
another's rows; two auctions are needed only where they compete for stock or for a place in a
list. `MaxTime` is 2, or 3 where terms may still be edited: an auction starts at 1 and ends
at 2, so there is an instant before, at and, with 3, after the deadline, and two choices of
it. `MaxStock` = 2 lets both, one or no auction have a unit. `MaxBids` = 2 is reached by one
batch and passed by two. `MaxBalance` = 2 pays for two bids. In `closing` three users and two
amounts give every kind of set: none, one alone, two together with and without one alone
above or below, three together; and `Skew` = 1 makes a job early by one instant. `Batch` = 1
is the real limit of 100 made small enough to be met; `MaxFailures` = 1 lets every failure
happen once, at any point. `MaxSessions` = 4 is two families of two, or one chain of four.
Three categories are enough for two moves that make a cycle and one above it, and `MaxDepth` = 2,
the 32 rows of the climb, is less than three categories may need; `MaxImages` = 3
lets an image be removed from the middle. `MaxCodes` = 2 is a code and the one that replaces it,
or codes for two purposes; `LockAfter` and `PoolMax` are 2, the smallest numbers that are
reached by two requests and not by one. `MaxTokens` = 3 of `Links` is a token, its replacement
and another user's. In `Pages` two tokens are one that is exchanged and one that is not yet, and
`MaxEffects` = 2 is StrictMode; tabs are alike, so `w1` is opened first. A list of three rows and pages of one row has a first
page, one in the middle and a last one, and two rows may share a value.

The bidding and closing runs begin with an auction that has just opened, or that awaits
approval; `MCInit` spells out the state that leads there. `sweeper` begins either before an
opening (`Early`: one auction from there to the last refund, with failures) or when bidding
is over (`Late`: a cancelled auction with bids and one that is due, in lists that hold one).

**Fairness.**
`bidding_live`: weak fairness of `Judge` and `Commit` (a server that is up finishes), strong
fairness of `Claim` and `LockAuction`, because PostgreSQL grants a lock to its waiters in
turn. `sessions`: strong fairness of what each request does next (`GoesOn`), for the same
two reasons. `sweeper`: weak fairness of `SweeperStep` alone: the sweep repeats every 30
seconds, is registered again at every start of the worker and runs one at a time. Crashes
may come at any time; nothing is assumed of clients, of the delayed jobs, of other closers
or of the auction. `Jobs` has no fairness: no job has to run.

**Deadlock** is checked in every run but `channels`, `identity` and `identity_pool`. There
the bounds end a story (no key, token or code is left) and clients need not go on; in
`identity_pool` the state that is looked for is stated as an invariant, `PoolIsNotStuck`,
because time goes on, and codes expire, while the pool is stuck.

## 4. The proofs

* `WalletLedgerProofs`. The inductive invariant adds to the checked invariants that the
  caller past its lock is the one that holds it, that the row it saw is still the row, and
  that a movement about to be written passed the checks against that row. From it follow
  the invariants of the run and the refinement of `Accounts`
  (`WalletImplementsAccounts`). The assumptions are those of the module: intents are well
  formed, and "no key" and "nobody" are not a key or a caller.
  Reconciliation: `NoFalseAlarm` alone is not inductive. What carries it is that a snapshot
  that has been taken has a row and a ledger of one moment (`SnapshotsOfOneMoment`), and that
  the ledger of any moment explains the row. That the sum of such a ledger is the balance of
  its last entry is shown of the least prefix for which it would fail. `ReconciliationOnlyReads`
  carries all of the wallet over to the wallet with the check beside it.
* `AuctionLifecycleProofs`. `IInv` ties status, unit, `openedAt` and `closingAt` together;
  `NothingOversold` needs that the holds of a product form a finite set, whose cardinality
  changes by one. `NeverEarly` is proved here and not run. Assumes finitely many auctions
  and `ProductOf` a function.
* `CatalogProofs`. Every step of `Catalog` is a step of `AuctionLifecycle` or a stutter, so
  whatever is proved of the lifecycle holds with sellers' sessions beside it.
  Images: the positions of a product's images stand apart (`Apart`, the unique index, which
  guards the reordering too), a primary image is at position 0, a list that a request holds has
  each image once, and an object is deleted only of images that are shown no more
  (`ObjectsLast`). `PrimaryIsFirst`, `ShownKeepTheirObjects` and `StaysWhole` follow for any
  number of images and editors.
  Categories: what is above a category is the least closed set over it (`AboveFacts`), and no
  category is above itself exactly when every set of categories has one whose parent is outside
  it (`NoLoopIsTree`, `TreeHasNoLoop`). A pending move is not of a category that was found above
  its new parent (`TreeInvariant`), so with readings that still hold it puts a category under a
  closed set without it, which makes no loop. `MovesAreChecked` asks this only of the request that
  writes, whatever the others have read, and of a new parent with less above it than the climb
  has rows (`InReach`; 32 rows in the code): in a deeper chain the check misses an ancestor, and
  nothing limits the depth. That the climb then finds all there is above is `ClimbedFacts` and
  `ReachesTheTop`. `MovesAreAlwaysChecked` proves the property for any number of categories and
  any depth of the climb; that there are finitely many categories is the only assumption.
* `BiddingProofs`. The inductive invariant adds to the three invariants of the run what an
  attempt has at each place (`Safe`): from `Claim` on it holds its key and no answer is
  stored under that key; from `LockAuction` on it holds the auction's row; and before
  `Commit` what it judged still stands (`Passed`), because whoever could undo it (another
  batch, a transition) needs the row it holds. A stored answer names a moment inside the
  window (`KeysInTime`), of terms that are frozen since the auction opened (`LiveIsOpen`).
  Lemmas on cardinalities say what a batch adds to the counts of its bidder and of its
  auction. All the safety of the run follows, the refinement of `BidBook` included, for any
  number of attempts, keys, users and auctions; the assumptions are those of the module
  (finitely many amounts, the ladder among them; "nobody" is not an attempt).
* `ClosingProofs` begins with LUB_V1: in any finite set of bids the query finds the bid that
  is alone at its amount with nobody alone below it, and finds none only if nobody is alone:
  a non-empty finite set of numbers has a least element.
  The inductive invariant says that a stored result *is what would be
  decided now*: the bids are final once the auction is not live, so a late attempt computes
  the same. Status, unit, order, refunds and what each closer remembers are tied to it. All
  invariants of the run and `ImplementsBook` follow, for any number of closers and users.
  The second half proves that `Sweeper` implements `Closing` (`SweeperIsACloser`) and that
  every step of `Jobs` is one of `Sweeper`'s (`JobsAreJustClosers`): so all of it holds with
  the queue, the worker and Redis as they are (`JobsKeepThePromises`). It needs one more
  fact, that the clock has begun, because a sweep compares with the clock itself where
  `Closing` speaks of transactions that began at some instant before.
* `SessionsProofs`. The inductive invariant adds to `FamilyIsAChain` and `AnswersAreTrue`
  that rows refer to rows (`Rows`), what a request knows where it is (`Work`), that only a
  refresh about to commit holds a lock, of its own old row (`Locks`), that ids set aside
  differ (`Apart`), and that what a revocation has not aimed at came from a rotation of
  what it has (`Marks`). `Marks` gives `RevocationIsWhole`: the only way a live session
  survives its family's revocation is the one of `sessions_over`. The refinement of
  `TokenFamilies` is proved action by action. `FamilyIsAChain` is proved and not run.
* `IdentityProofs`. Links: who holds a token's lock finds it unused when it writes. Codes:
  a code is in one row at most (`RowsApart`), so the request that was told that its code is
  right spends the row that has it, or one that has another code by now (`Safe`); and an
  accepted code is in no row that can be found again (`AcceptedAreGone`). After the first
  authorisation the requests that match the code only become fewer (`Narrows`), and each
  commit takes its own request away (`CommitCounts`): so authorisations of one code overlap
  (`AuthorisationsOverlap`), and are never more than there are requests at one time. That
  there is only one is not true (`CodeIsSpentOnce`, section 5).
  Guesses: `GuessInv` counts requests. As long as a row has a code, the refusals of that code
  and the requests about to refuse it are at most the attempts in the row (`HeldCounts`); once
  the code has been replaced, the refusals and the requests still at work on it stay below the
  bound (`ReplacedCounts`), because nobody new comes to a code that is in no row. It needs that
  there are finitely many requests at one time, and one at least.
* `ChannelsProofs` has three parts, which share no state.
  The bid: whatever is carried anywhere, by chat, panel or a request that nobody waits for, or
  is booked, is one batch per key, of a key that was minted (`KeyMeansOneBatch`,
  `KeysAreMinted`): a step only copies what is carried, or mints a key for one new batch
  (`NothingNew`). An answer on its way back is of a booked batch (`ReportIsTrue`). So retries
  never conflict and "placed" is true. `BookedAsTyped` is proved here and not run.
  The sign-in, for any number of tabs: a token on its way to a page has been presented by nobody
  and is stored nowhere (`NewIsFresh`); while a page's refresh is under way its calls join it,
  and after it the page makes none; and what a page has heard of is overwritten or removed,
  unless that write fails (`stuck`). The invariant says nothing of families, which are the
  server's (`SessionsProofs`).
  The lists: the rows that keep their place are all shown, once and in order, up to the cursor
  of the list (`ShowsKept`), and a page on its way has them from the cursor it was asked for to
  the one it brings, for the one request that the list waits for (`WaitsForOne`).
  `StandingRowsShownOnce` follows, for any number of rows, ties and changes. That the query
  answers with such a page rests on the order of rows being total, and on there being a list in
  that order of any finite set of rows.

The type invariants of the wallet, the lifecycle, bidding, closing, the sessions, the pages, the
images, the categories and the lists are proved. Those of `Catalog`, `Sweeper`, `Jobs`,
`Codes` and `Channels` say what the variables are and are no runs of their own; the
proofs carry what they need of them.

Recursive definitions (the sum of a ledger, the climb through the categories) are recursive
functions, and what is said of them is shown by their least counterexample: the natural numbers
up to a bound have a least one with any property that some have.

Only model-checked: the liveness properties `EveryoneIsAnswered`, `DueIsActedOn` and
`EverythingIsSettled`, since liveness under fairness is out of TLAPS's reach, as is ENABLED.
Every safety property of a passing run is stated by a theorem.

## 5. Where the code and its documents disagree

Shown by runs:

* Fees charged in another currency than ETB are returned to the ETB wallet
  (`refunds.ts:107` names no currency and `walletService.ts:155` takes ETB, whereas
  `bidService.ts:413` charges in the auction's; against `docs/auction-closing.md:180`, `:190`).
* A revocation that overlaps a rotation of its family leaves the new session live
  (`repository.ts:285` of auth is one UPDATE over the rows of its snapshot; against
  `docs/authentication.md:134` and `:143`). A revocation that overlaps none is whole, which
  is proved.
* Wrong codes are counted on a second connection while the first is held
  (`auth.service.ts:142`), which `bidService.ts:326` warns of.

Stated in the modules, and refuted by TLC when they are added to the run of their module:

* `ArchivedIsNotAuctioned`: an archived product is auctioned when its auction was a draft at
  the time (`catalogRepository.ts:489` counts no drafts, against `docs/catalog.md:72`).
* `CommittedMeansPromised`: `assertProductEligible` counts live auctions twice
  (`auctionService.ts:143`, against the comment at `:119`), and refuses stock that is free.
* `CodeIsSpentOnce`: two requests with the same right code are both authorised.
  `repository.ts:152` of auth reads the challenge without a lock and `:208` consumes it by its
  id alone, against "One-time codes" (`otp.ts:4`), "Verify a code and consume it"
  (`auth.service.ts:107`) and "spent atomically with whatever it authorised" (`:150`). No
  request that looks after the first commit finds the code (`AcceptedIsSpent`).
* `RetryIsReplayed`: a retry of a committed bid is not replayed once the auction has left
  live (`bidService.ts:108`, against `docs/bidding.md:249` and `:390`). One whose transaction
  has begun is (`RetryIsNotRefused`).
* `NoCategoryAboveItself`: two moves at once, each checked before the other is written, make
  a cycle (`catalogService.ts:206`, against its comment at `:201` and `docs/catalog.md:57`).
* `NoneIsStranded`: an image that is added while another request reorders stays parked at
  the offset (`catalogRepository.ts:621`, against `catalogService.ts:771` and
  `docs/catalog.md:156`).
* `NotSubmittedIsTrue`: when the report of committed bids cannot be sent, the chat says that
  they were not submitted (`handlers/bidding/index.ts:272`).
* `EachTokenOnce`, `ForgetsItsOwn`: two tabs that restore at once, or a reload during a slow
  refresh, present one token twice,
  and a page whose refresh fails forgets the token another tab has stored
  (`auth-api.ts:113`). The code's comment knows the first.
* `ShowsWhatIsChosen`: an answer to the filter chosen before is shown under the one chosen
  now (`AuctionList.tsx:69`).
* `JobsArePrecise`: the terms of a scheduled auction may be edited, and the job, whose id is
  fixed, stays as it was (`docs/auctions.md`, "Precise jobs"); likewise an approval that
  falls between the catch-up's reading and the subscription has no job. Both are left to
  the sweeper.

Seen and not modelled: a rate-limit counter whose process dies between INCR and EXPIRE
never expires (`rate-limit.ts:81`, against the comment at `:113`); a login that has checked
its password before a password change commits, and issues its session after, leaves that
session live (`auth.service.ts:305` and `:372` check outside their transactions).

## 6. Not modelled

* Sellers' profiles and their approval, users and roles, audit rows: plain record keeping,
  one row at a time, decided on nothing else.
* Rate limits: they fail open, and no other state depends on them.
* Order statuses after the creation: no code writes them yet.
* Presentation, wording, formats, money as text, slugs, keyboards, signatures of URLs,
  hashes and tokens as bytes: pure computation, or layout, on which no property depends.
* Scripts, seeds, configuration, health probes: no state of the system.
