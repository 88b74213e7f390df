---------------------------- MODULE WalletLedger ----------------------------
(***************************************************************************)
(* The wallet module: `move` and `adminAdjust` of walletService.ts,        *)
(* `applyMovement` of ledger.ts, the freeze, and the wallet SQL.           *)
(*                                                                         *)
(* A wallet is a row that caches its balance, and an append-only ledger.   *)
(* Callers (requests, jobs) run transactions: resolve the wallet, take its *)
(* row lock, decide, write both the row and the entry, commit.  What a     *)
(* transaction writes is invisible until it commits, so `wallets` and      *)
(* `entries` hold the committed rows and a write is a single step.  A      *)
(* caller may die at any point, and may issue the same movement again.     *)
(***************************************************************************)
EXTENDS Integers, Sequences

CONSTANTS
  Wallets,     \* wallet identities: one per user and currency
  Clients,     \* concurrent callers of the wallet module
  Keys,        \* idempotency keys
  NoKey,       \* a movement that carries none
  Free,        \* "nobody holds the row lock"
  Intents,     \* the movements callers ask for
  MaxEntries   \* bound: no new movement is asked of a longer ledger

CreditTypes == {"deposit", "bid_fee_refund", "payment_refund", "prize_payout", "admin_credit"}
DebitTypes  == {"withdrawal", "bid_fee", "auction_payment", "seller_payout", "admin_debit"}
HoldTypes   == {"hold", "hold_release"}
AdminTypes  == {"admin_credit", "admin_debit"}

Intent == [wallet       : Wallets,
           type         : CreditTypes \cup DebitTypes \cup HoldTypes,
           amount       : Int,
           key          : Keys \cup {NoKey},
           sameCurrency : BOOLEAN]  \* the currency named, if any, is the wallet's

ASSUME IntentsAssumption  == Intents \subseteq Intent /\ Intents # {}
ASSUME LockAssumption     == Free \notin Clients
ASSUME KeyAssumption      == NoKey \notin Keys
ASSUME MaxEntriesAssumption == MaxEntries \in Nat

VARIABLES
  wallets,   \* the wallet rows
  entries,   \* the ledger of each wallet
  lock,      \* who holds the wallet's row lock
  pc,        \* where each caller is in its operation
  intent,    \* what it asked for
  seen,      \* the row it read under the lock
  answer     \* what it was told, with the ledger position that backs it

vars == <<wallets, entries, lock, pc, intent, seen, answer>>

Row   == [exists : BOOLEAN, available : Nat, version : Nat, frozen : BOOLEAN]
Entry == [seq : Nat, type : CreditTypes \cup DebitTypes, amount : Int,
          balanceAfter : Int, key : Keys \cup {NoKey}]

NoRow    == [exists |-> FALSE, available |-> 0, version |-> 0, frozen |-> FALSE]
NoAnswer == [kind |-> "none", seq |-> 0]
SomeIntent == CHOOSE i \in Intents : TRUE   \* stands for "nothing asked"

Refusals == {"not_found", "invalid", "currency", "conflict", "frozen", "insufficient"}
Answer   == [kind : {"none", "applied", "replayed", "db_error"} \cup Refusals, seq : Nat]

TypeOK ==
  /\ wallets \in [Wallets -> Row]
  /\ entries \in [Wallets -> Seq(Entry)]
  /\ lock    \in [Wallets -> Clients \cup {Free}]
  /\ pc      \in [Clients -> {"idle", "resolve", "lock", "locked", "commit", "answer"}]
  /\ intent  \in [Clients -> Intents]
  /\ seen    \in [Clients -> Row]
  /\ answer  \in [Clients -> Answer]

Init ==
  /\ wallets = [w \in Wallets |-> NoRow]
  /\ entries = [w \in Wallets |-> <<>>]
  /\ lock    = [w \in Wallets |-> Free]
  /\ pc      = [c \in Clients |-> "idle"]
  /\ intent  = [c \in Clients |-> SomeIntent]
  /\ seen    = [c \in Clients |-> NoRow]
  /\ answer  = [c \in Clients |-> NoAnswer]

-----------------------------------------------------------------------------
\* The direction comes from the entry type, never from the sign of the amount.
Signed(i) == IF i.type \in CreditTypes THEN i.amount ELSE -i.amount

\* assertMovableType and assertPositiveMagnitude.
Movable(i) == i.type \notin HoldTypes /\ i.amount > 0

\* findEntryByIdempotencyKey, as the set of positions that carry i's key.
Positions(w, k) == {n \in 1..Len(entries[w]) : entries[w][n].key = k}
Booked(i) == i.key # NoKey /\ Positions(i.wallet, i.key) # {}
Stored(i) == CHOOSE n \in Positions(i.wallet, i.key) : TRUE

\* Mutant of Same: any entry under the key answers for the request.
BugSame(i) == TRUE

\* assertSameMovement.
Same(i) == LET e == entries[i.wallet][Stored(i)]
           IN  e.type = i.type /\ e.amount = Signed(i)

BalanceAfter(i, row) == row.available + Signed(i)

\* Mutant of Verdict: the freeze and the funds are checked before the replay.
BugVerdict(i, row) ==
  IF ~i.sameCurrency THEN "currency"
  ELSE IF i.type \in DebitTypes /\ row.frozen THEN "frozen"
  ELSE IF BalanceAfter(i, row) < 0 THEN "insufficient"
  ELSE IF Booked(i) THEN IF Same(i) THEN "replayed" ELSE "conflict"
  ELSE "apply"

\* The early returns of applyMovement, in the order it makes them.
Verdict(i, row) ==
  IF ~i.sameCurrency THEN "currency"
  ELSE IF Booked(i) THEN IF Same(i) THEN "replayed" ELSE "conflict"
  ELSE IF i.type \in DebitTypes /\ row.frozen THEN "frozen"
  ELSE IF BalanceAfter(i, row) < 0 THEN "insufficient"
  ELSE "apply"

\* Mutant of Updated: the version is not bumped.
BugUpdated(row, available) == [row EXCEPT !.available = available]

\* updateWalletBalance: an absolute balance, a relative version.
Updated(row, available) == [row EXCEPT !.available = available, !.version = @ + 1]

\* ensureWallet: INSERT ... ON CONFLICT DO NOTHING.
Ensured(row) == [row EXCEPT !.exists = TRUE]

\* setFrozen and clearFrozen.
Frozen(row, f) == [row EXCEPT !.frozen = f]

\* Mutant of NewEntry: the entry records the balance it found, not the one it left.
BugNewEntry(i, row) == [seq |-> row.version + 1, type |-> i.type, amount |-> Signed(i),
                        balanceAfter |-> row.available, key |-> i.key]

\* insertEntry: the position is the version read under the lock, plus one.
NewEntry(i, row) == [seq |-> row.version + 1, type |-> i.type, amount |-> Signed(i),
                     balanceAfter |-> BalanceAfter(i, row), key |-> i.key]

\* The CHECKs and unique indexes of the two tables accept the write.
ConstraintsAccept(w, e) ==
  /\ e.balanceAfter >= 0
  /\ \A n \in 1..Len(entries[w]) :
       /\ entries[w][n].seq # e.seq
       /\ e.key # NoKey => entries[w][n].key # e.key

\* The transaction of c ends with an answer; its lock, if any, goes.
Finish(c, kind, n) ==
  /\ pc' = [pc EXCEPT ![c] = "answer"]
  /\ answer' = [answer EXCEPT ![c] = [kind |-> kind, seq |-> n]]
  /\ seen' = [seen EXCEPT ![c] = NoRow]

Release(c) == lock' = [w \in Wallets |-> IF lock[w] = c THEN Free ELSE lock[w]]

-----------------------------------------------------------------------------
\* A caller asks for a movement, perhaps one it, or another, asked for before.
Call(c, i) ==
  /\ pc[c] = "idle"
  /\ Booked(i) \/ Len(entries[i.wallet]) < MaxEntries
  /\ pc' = [pc EXCEPT ![c] = "resolve"]
  /\ intent' = [intent EXCEPT ![c] = i]
  /\ UNCHANGED <<wallets, entries, lock, seen, answer>>

\* An adjustment finds the wallet it was given; a movement creates it if need be,
\* in a statement of its own.  Then the arguments are checked.
Resolve(c) ==
  LET i == intent[c] IN
  /\ pc[c] = "resolve"
  /\ \/ /\ i.type \in AdminTypes
        /\ ~wallets[i.wallet].exists
        /\ Finish(c, "not_found", 0)
        /\ UNCHANGED wallets
     \/ /\ i.type \in AdminTypes => wallets[i.wallet].exists
        /\ wallets' = [wallets EXCEPT ![i.wallet] = Ensured(@)]
        /\ IF Movable(i)
           THEN /\ pc' = [pc EXCEPT ![c] = "lock"]
                /\ UNCHANGED <<seen, answer>>
           ELSE Finish(c, "invalid", 0)
  /\ UNCHANGED <<entries, lock, intent>>

\* Mutant of Lock: findWalletById in its place, a read that takes no lock.
BugLock(c) ==
  /\ pc[c] = "lock"
  /\ seen' = [seen EXCEPT ![c] = wallets[intent[c].wallet]]
  /\ pc' = [pc EXCEPT ![c] = "locked"]
  /\ UNCHANGED <<wallets, entries, lock, intent, answer>>

\* lockWalletById: SELECT ... FOR UPDATE waits for the lock, then reads the row.
Lock(c) ==
  LET w == intent[c].wallet IN
  /\ pc[c] = "lock"
  /\ lock[w] = Free
  /\ lock' = [lock EXCEPT ![w] = c]
  /\ seen' = [seen EXCEPT ![c] = wallets[w]]
  /\ pc' = [pc EXCEPT ![c] = "locked"]
  /\ UNCHANGED <<wallets, entries, intent, answer>>

\* The checks of applyMovement; a refusal or a replay ends the transaction.
Decide(c) ==
  LET i == intent[c]
      v == Verdict(i, seen[c])
  IN
  /\ pc[c] = "locked"
  /\ IF v = "apply"
     THEN /\ pc' = [pc EXCEPT ![c] = "commit"]
          /\ UNCHANGED <<lock, seen, answer>>
     ELSE /\ Finish(c, v, IF v = "replayed" THEN Stored(i) ELSE 0)
          /\ Release(c)
  /\ UNCHANGED <<wallets, entries, intent>>

\* UPDATE of the row and INSERT of the entry, and their commit.  The UPDATE
\* needs the row lock, which c holds; a constraint that fires aborts it all.
Commit(c) ==
  LET i == intent[c]
      w == i.wallet
      e == NewEntry(i, seen[c])
  IN
  /\ pc[c] = "commit"
  /\ lock[w] \in {c, Free}
  /\ IF ConstraintsAccept(w, e)
     THEN /\ wallets' = [wallets EXCEPT ![w] = Updated(@, e.balanceAfter)]
          /\ entries' = [entries EXCEPT ![w] = Append(@, e)]
          /\ Finish(c, "applied", e.seq)
     ELSE /\ Finish(c, "db_error", 0)
          /\ UNCHANGED <<wallets, entries>>
  /\ Release(c)
  /\ UNCHANGED intent

\* The caller reads its answer, or never does: either way it is free to call again.
Reply(c) ==
  /\ pc[c] = "answer"
  /\ pc' = [pc EXCEPT ![c] = "idle"]
  /\ answer' = [answer EXCEPT ![c] = NoAnswer]
  /\ intent' = [intent EXCEPT ![c] = SomeIntent]
  /\ UNCHANGED <<wallets, entries, lock, seen>>

\* The process or its connection dies, or the database aborts the transaction
\* (40001, 40P01): PostgreSQL rolls back and the lock goes with it.
Crash(c) ==
  /\ pc[c] \in {"resolve", "lock", "locked", "commit"}
  /\ pc' = [pc EXCEPT ![c] = "idle"]
  /\ seen' = [seen EXCEPT ![c] = NoRow]
  /\ intent' = [intent EXCEPT ![c] = SomeIntent]
  /\ Release(c)
  /\ UNCHANGED <<wallets, entries, answer>>

\* freezeWallet and unfreezeWallet: a whole transaction that writes one row under
\* its lock, so nothing can be seen between its steps.
SetFrozen(w, f) ==
  /\ lock[w] = Free
  /\ wallets[w].exists
  /\ wallets[w].frozen # f
  /\ wallets' = [wallets EXCEPT ![w] = Frozen(@, f)]
  /\ UNCHANGED <<entries, lock, pc, intent, seen, answer>>

Step(c) == Resolve(c) \/ Lock(c) \/ Decide(c) \/ Commit(c) \/ Reply(c)

Next ==
  \/ \E c \in Clients : Step(c) \/ Crash(c) \/ \E i \in Intents : Call(c, i)
  \/ \E w \in Wallets, f \in BOOLEAN : SetFrozen(w, f)

Spec == Init /\ [][Next]_vars

-----------------------------------------------------------------------------
\* What reconciliation looks for is never there: the cached balance is the one
\* the last entry records, every entry records the balance of the one before it
\* plus its own amount, and positions have no gap (updateWalletBalance and
\* insertEntry always land together).
LedgerExplainsBalance ==
  \A w \in Wallets :
    LET es == entries[w]
        n  == Len(es)
    IN  /\ wallets[w].version = n
        /\ wallets[w].available = IF n = 0 THEN 0 ELSE es[n].balanceAfter
        /\ \A m \in 1..n :
             /\ es[m].seq = m
             /\ es[m].balanceAfter = (IF m = 1 THEN 0 ELSE es[m-1].balanceAfter) + es[m].amount

\* The ledger position an answer names holds the movement that was asked for.
Backed(i, a) ==
  LET es == entries[i.wallet]
      e  == es[a.seq]
  IN  a.seq \in 1..Len(es) /\ e.type = i.type /\ e.amount = Signed(i) /\ e.key = i.key

\* A caller told that its movement happened, now or on an earlier attempt, can
\* find it in the ledger: that entry is of its type, amount and key.
SuccessIsBooked ==
  \A c \in Clients : answer[c].kind \in {"applied", "replayed"} => Backed(intent[c], answer[c])

\* A retry of a movement that was booked is never told it was refused, although
\* the wallet may have been emptied or frozen since: only a request that
\* disagrees with the booked entry, or names another currency, is refused.
RefusedIsNotBooked ==
  [][\A c \in Clients :
       /\ answer[c].kind = "none"
       /\ answer'[c].kind \in {"not_found", "frozen", "insufficient", "db_error"}
       => ~Booked(intent[c])]_vars

\* The row lock, not a CHECK or a unique index, is what refuses: no caller is
\* ever answered with a database error.
ConstraintsNeverFire == \A c \in Clients : answer[c].kind # "db_error"

\* The detailed module implements Accounts: seen from outside, a movement is one
\* step, happens once per key, and never takes money out of a frozen wallet.
KeysOf(w) == {entries[w][n].key : n \in 1..Len(entries[w])} \ {NoKey}
Acc == INSTANCE Accounts WITH
         balance <- [w \in Wallets |-> wallets[w].available],
         frozen  <- [w \in Wallets |-> wallets[w].frozen],
         moved   <- [w \in Wallets |-> KeysOf(w)]
ImplementsAccounts == Acc!Spec
=============================================================================
