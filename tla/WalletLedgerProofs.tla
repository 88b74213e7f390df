------------------------- MODULE WalletLedgerProofs -------------------------
(***************************************************************************)
(* The wallet module's safety, for every set of wallets, callers, keys and *)
(* movements.  The inductive invariant IInv adds to what is promised how   *)
(* the row lock makes it true: a caller past `lockWalletById` holds its    *)
(* wallet's lock, so the row it read is still the row, and the verdict it  *)
(* reached is still the verdict when it commits.                           *)
(*                                                                         *)
(* The nightly reconciliation (module Reconciliation) reads beside them:   *)
(* what it adds up is the ledger of the moment its row is from.            *)
(***************************************************************************)
EXTENDS Reconciliation, FiniteSetTheorems, WellFoundedInduction, TLAPS

InTx(c)      == pc[c] \in {"locked", "commit"}
Resolved(c)  == pc[c] \in {"lock", "locked", "commit"}

\* A caller in the critical part of its transaction holds its wallet's lock, and
\* nobody else holds one.
LocksAreHeld ==
  /\ \A c \in Clients : InTx(c) => lock[intent[c].wallet] = c
  /\ \A w \in Wallets : lock[w] # Free => InTx(lock[w]) /\ intent[lock[w]].wallet = w

\* The arguments were checked and the wallet resolved before the lock is asked for.
ArgumentsChecked ==
  \A c \in Clients : Resolved(c) => Movable(intent[c]) /\ wallets[intent[c].wallet].exists

\* What was read under the lock is still so.
SeenIsCurrent == \A c \in Clients : InTx(c) => seen[c] = wallets[intent[c].wallet]

\* The decision to apply is still right.
VerdictStands ==
  \A c \in Clients : pc[c] = "commit" => Verdict(intent[c], seen[c]) = "apply"

AnswersArePending == \A c \in Clients : answer[c].kind # "none" => pc[c] = "answer"

NoRowNoLedger == \A w \in Wallets : ~wallets[w].exists => entries[w] = <<>>

IInv ==
  /\ TypeOK
  /\ LedgerExplainsBalance
  /\ LocksAreHeld
  /\ ArgumentsChecked
  /\ SeenIsCurrent
  /\ VerdictStands
  /\ AnswersArePending
  /\ NoRowNoLedger
  /\ ConstraintsNeverFire
  /\ SuccessIsBooked

-----------------------------------------------------------------------------
(* Facts about the operators. *)

\* A movement that may be made changes the balance, and is of a stored type.
LEMMA MovableIsSigned ==
  ASSUME NEW i \in Intents, Movable(i)
  PROVE  /\ Signed(i) \in Int
         /\ Signed(i) # 0
         /\ i.type \in CreditTypes \cup DebitTypes
         /\ Signed(i) < 0 => i.type \in DebitTypes
BY IntentsAssumption DEF Movable, Signed, Intent, HoldTypes, CreditTypes, DebitTypes

\* The entry a replay answers with is one that carries the request's key.
LEMMA StoredIsBooked ==
  ASSUME NEW i, Booked(i)
  PROVE  Stored(i) \in Positions(i.wallet, i.key)
<1>1. \E n : n \in Positions(i.wallet, i.key)
  BY DEF Booked
<1> QED  BY <1>1 DEF Stored

\* Only a movement that is not booked, is funded and is not frozen is applied.
LEMMA ApplyMeansAllowed ==
  ASSUME NEW i, NEW row, Verdict(i, row) = "apply"
  PROVE  /\ ~Booked(i)
         /\ ~(i.type \in DebitTypes /\ row.frozen)
         /\ ~(BalanceAfter(i, row) < 0)
BY DEF Verdict

\* A refusal of Decide names no position, and a replay names a booked entry.
LEMMA VerdictKinds ==
  ASSUME NEW i, NEW row
  PROVE  /\ Verdict(i, row) \in {"currency", "replayed", "conflict", "frozen", "insufficient", "apply"}
         /\ Verdict(i, row) = "replayed" => Booked(i) /\ Same(i)
         /\ Verdict(i, row) \in {"frozen", "insufficient"} => ~Booked(i)
BY DEF Verdict

\* What the statements that write a wallet row leave alone.
LEMMA RowUpdates ==
  ASSUME NEW row \in Row
  PROVE  /\ Ensured(row) \in Row /\ Ensured(row).exists
         /\ Ensured(row).available = row.available
         /\ Ensured(row).version = row.version
         /\ Ensured(row).frozen = row.frozen
         /\ row.exists => Ensured(row) = row
         /\ \A f \in BOOLEAN : /\ Frozen(row, f) \in Row
                              /\ Frozen(row, f).available = row.available
                              /\ Frozen(row, f).version = row.version
                              /\ Frozen(row, f).exists = row.exists
                              /\ Frozen(row, f).frozen = f
         /\ \A n \in Nat : /\ Updated(row, n) \in Row
                          /\ Updated(row, n).available = n
                          /\ Updated(row, n).version = row.version + 1
                          /\ Updated(row, n).exists = row.exists
                          /\ Updated(row, n).frozen = row.frozen
<1>1. /\ Ensured(row) \in Row /\ Ensured(row).exists
      /\ Ensured(row).available = row.available
      /\ Ensured(row).version = row.version
      /\ Ensured(row).frozen = row.frozen
  BY DEF Ensured, Row
<1>2. row.exists => Ensured(row) = row
  BY DEF Ensured, Row
<1>3. \A f \in BOOLEAN : /\ Frozen(row, f) \in Row
                        /\ Frozen(row, f).available = row.available
                        /\ Frozen(row, f).version = row.version
                        /\ Frozen(row, f).exists = row.exists
                        /\ Frozen(row, f).frozen = f
  BY DEF Frozen, Row
<1>4. ASSUME NEW n \in Nat
      PROVE  /\ Updated(row, n) \in Row
             /\ Updated(row, n).available = n
             /\ Updated(row, n).version = row.version + 1
             /\ Updated(row, n).exists = row.exists
             /\ Updated(row, n).frozen = row.frozen
  <2> DEFINE v == row.version + 1
  <2>1. v \in Nat
    BY DEF Row
  <2>2. Updated(row, n) = [row EXCEPT !.available = n, !.version = v]
    BY DEF Updated
  <2> HIDE DEF v
  <2>3. /\ [row EXCEPT !.available = n, !.version = v] \in Row
        /\ [row EXCEPT !.available = n, !.version = v].exists = row.exists
        /\ [row EXCEPT !.available = n, !.version = v].frozen = row.frozen
        /\ [row EXCEPT !.available = n, !.version = v].available = n
        /\ [row EXCEPT !.available = n, !.version = v].version = v
    BY <2>1 DEF Row
  <2> QED  BY <2>2, <2>3 DEF v
<1> QED  BY <1>1, <1>2, <1>3, <1>4

\* The write of a caller whose verdict stands passes every CHECK and unique index.
LEMMA CommitIsAccepted ==
  ASSUME IInv, NEW c \in Clients, pc[c] = "commit"
  PROVE  /\ lock[intent[c].wallet] = c
         /\ seen[c] = wallets[intent[c].wallet]
         /\ intent[c] \in Intents /\ intent[c].wallet \in Wallets
         /\ NewEntry(intent[c], seen[c]) \in Entry
         /\ NewEntry(intent[c], seen[c]).seq = Len(entries[intent[c].wallet]) + 1
         /\ NewEntry(intent[c], seen[c]).balanceAfter \in Nat
         /\ ConstraintsAccept(intent[c].wallet, NewEntry(intent[c], seen[c]))
<1> DEFINE i == intent[c]
           w == i.wallet
           e == NewEntry(i, seen[c])
<1>1. i \in Intents /\ w \in Wallets /\ i.key \in Keys \cup {NoKey}
  BY IntentsAssumption DEF IInv, TypeOK, Intent
<1>2. lock[w] = c /\ seen[c] = wallets[w] /\ wallets[w] \in Row /\ entries[w] \in Seq(Entry)
  BY <1>1 DEF IInv, TypeOK, LocksAreHeld, SeenIsCurrent, InTx
<1>3. Movable(i)
  BY DEF IInv, ArgumentsChecked, Resolved
<1>4. Signed(i) \in Int /\ i.type \in CreditTypes \cup DebitTypes
  BY <1>1, <1>3, MovableIsSigned
<1>5. ~Booked(i) /\ ~(BalanceAfter(i, seen[c]) < 0)
  BY ApplyMeansAllowed DEF IInv, VerdictStands
<1>6. BalanceAfter(i, seen[c]) \in Nat
  BY <1>2, <1>4, <1>5 DEF BalanceAfter, Row
<1>7. wallets[w].version = Len(entries[w]) /\ Len(entries[w]) \in Nat
  BY <1>1, <1>2 DEF IInv, LedgerExplainsBalance
<1>8. \A n \in 1..Len(entries[w]) : entries[w][n].seq = n
  BY <1>1 DEF IInv, LedgerExplainsBalance
<1>9. e \in Entry /\ e.seq = Len(entries[w]) + 1 /\ e.balanceAfter = BalanceAfter(i, seen[c])
      /\ e.key = i.key
  BY <1>1, <1>2, <1>4, <1>6, <1>7 DEF NewEntry, Entry
<1>10. \A n \in 1..Len(entries[w]) : e.key # NoKey => entries[w][n].key # e.key
  BY <1>5, <1>9 DEF Booked, Positions
<1>11. ConstraintsAccept(w, e)
  <2>1. \A n \in 1..Len(entries[w]) : entries[w][n].seq # e.seq
    BY <1>7, <1>8, <1>9
  <2>2. e.balanceAfter >= 0
    BY <1>6, <1>9
  <2> QED  BY <2>1, <2>2, <1>10 DEF ConstraintsAccept
<1> QED  BY <1>1, <1>2, <1>6, <1>9, <1>11

-----------------------------------------------------------------------------
(* The inductive invariant. *)

\* Nothing has been asked, held or booked yet.
LEMMA InitInv == Init => IInv
<1> SUFFICES ASSUME Init PROVE IInv
  OBVIOUS
<1>1. SomeIntent \in Intents
  BY IntentsAssumption DEF SomeIntent
<1>2. TypeOK
  BY <1>1 DEF Init, TypeOK, Row, NoRow, Answer, NoAnswer
<1>3. LedgerExplainsBalance
  <2>1. Len(<<>>) = 0 /\ 1..0 = {}
    OBVIOUS
  <2>2. \A w \in Wallets : wallets[w].version = 0 /\ wallets[w].available = 0 /\ entries[w] = <<>>
    BY DEF Init, NoRow
  <2> QED  BY <2>1, <2>2 DEF LedgerExplainsBalance
<1>4. SuccessIsBooked /\ ConstraintsNeverFire /\ AnswersArePending
  BY DEF Init, SuccessIsBooked, ConstraintsNeverFire, AnswersArePending, NoAnswer
<1>5. LocksAreHeld /\ ArgumentsChecked /\ SeenIsCurrent /\ VerdictStands /\ NoRowNoLedger
  BY DEF Init, LocksAreHeld, ArgumentsChecked, SeenIsCurrent, VerdictStands, NoRowNoLedger,
         InTx, Resolved
<1> QED  BY <1>2, <1>3, <1>4, <1>5 DEF IInv

\* A step that changes no ledger leaves every fact about ledgers alone.
LEMMA SameLedgers ==
  ASSUME entries' = entries
  PROVE  /\ \A i : Booked(i)' = Booked(i)
         /\ \A i, row : Verdict(i, row)' = Verdict(i, row)
<1>1. \A w, k : Positions(w, k)' = Positions(w, k)
  BY DEF Positions
<1>2. \A i : Booked(i)' = Booked(i) /\ Stored(i)' = Stored(i)
  BY <1>1 DEF Booked, Stored
<1>3. \A i : Same(i)' = Same(i)
  BY <1>2 DEF Same
<1> QED  BY <1>2, <1>3 DEF Verdict, BalanceAfter, Signed

LEMMA CallInv ==
  ASSUME IInv, NEW c \in Clients, NEW i \in Intents, Call(c, i)
  PROVE  IInv'
<1> USE DEF IInv, Call
<1>1. TypeOK'
  BY DEF TypeOK
<1>2. LedgerExplainsBalance' /\ NoRowNoLedger' /\ ConstraintsNeverFire'
  BY DEF LedgerExplainsBalance, NoRowNoLedger, ConstraintsNeverFire
<1>3. LocksAreHeld'
  BY DEF LocksAreHeld, InTx, TypeOK
<1>4. ArgumentsChecked' /\ SeenIsCurrent'
  BY DEF ArgumentsChecked, SeenIsCurrent, InTx, Resolved, Movable, TypeOK
<1>5. VerdictStands'
  BY SameLedgers DEF VerdictStands, TypeOK
<1>6. AnswersArePending'
  BY DEF AnswersArePending, TypeOK
<1>7. SuccessIsBooked'
  BY DEF SuccessIsBooked, AnswersArePending, TypeOK, Backed, Signed
<1> QED  BY <1>1, <1>2, <1>3, <1>4, <1>5, <1>6, <1>7

LEMMA ResolveInv ==
  ASSUME IInv, NEW c \in Clients, Resolve(c)
  PROVE  IInv'
<1> DEFINE i == intent[c]
<1>0. i \in Intents /\ i.wallet \in Wallets /\ wallets[i.wallet] \in Row
  BY IntentsAssumption DEF IInv, TypeOK, Intent
<1>1. pc[c] = "resolve" /\ entries' = entries /\ lock' = lock /\ intent' = intent
  BY DEF Resolve
<1>2. wallets' = wallets \/ wallets' = [wallets EXCEPT ![i.wallet] = Ensured(@)]
  BY DEF Resolve
<1>3. \/ pc' = [pc EXCEPT ![c] = "lock"] /\ seen' = seen /\ answer' = answer
      \/ \E k \in {"not_found", "invalid"} :
           /\ pc' = [pc EXCEPT ![c] = "answer"]
           /\ answer' = [answer EXCEPT ![c] = [kind |-> k, seq |-> 0]]
           /\ seen' = [seen EXCEPT ![c] = NoRow]
  BY DEF Resolve, Finish
<1>4. pc'[c] = "lock" => Movable(i) /\ wallets' = [wallets EXCEPT ![i.wallet] = Ensured(@)]
  BY DEF Resolve, Finish, IInv, TypeOK
<1>5. \A w \in Wallets :
        /\ wallets'[w] \in Row
        /\ wallets[w].exists => wallets'[w] = wallets[w]
        /\ wallets'[w].available = wallets[w].available
        /\ wallets'[w].version = wallets[w].version
  <2> SUFFICES ASSUME NEW w \in Wallets
               PROVE  /\ wallets'[w] \in Row
                      /\ wallets[w].exists => wallets'[w] = wallets[w]
                      /\ wallets'[w].available = wallets[w].available
                      /\ wallets'[w].version = wallets[w].version
    OBVIOUS
  <2>1. wallets[w] \in Row
    BY DEF IInv, TypeOK
  <2>2. wallets'[w] \in {wallets[w], Ensured(wallets[w])}
    BY <1>0, <1>2, <2>1 DEF IInv, TypeOK
  <2> QED  BY <2>1, <2>2, RowUpdates
<1>6. TypeOK'
  <2>1. pc' \in [Clients -> {"idle", "resolve", "lock", "locked", "commit", "answer"}]
    BY <1>3 DEF IInv, TypeOK
  <2>2. NoRow \in Row
    BY DEF Row, NoRow
  <2>3. seen' \in [Clients -> Row]
    BY <1>3, <2>2 DEF IInv, TypeOK
  <2>4. \A k \in {"not_found", "invalid"} : [kind |-> k, seq |-> 0] \in Answer
    BY DEF Answer, Refusals
  <2>5. answer' \in [Clients -> Answer]
    <3>1. answer \in [Clients -> Answer]
      BY DEF IInv, TypeOK
    <3>2. CASE answer' = answer
      BY <3>1, <3>2
    <3>3. ASSUME NEW k \in {"not_found", "invalid"},
                 answer' = [answer EXCEPT ![c] = [kind |-> k, seq |-> 0]]
          PROVE  answer' \in [Clients -> Answer]
      <4> DEFINE r == [kind |-> k, seq |-> 0]
      <4>1. r \in Answer /\ answer' = [answer EXCEPT ![c] = r]
        BY <2>4, <3>3
      <4> HIDE DEF r
      <4> QED  BY <3>1, <4>1
    <3> QED  BY <1>3, <3>2, <3>3
  <2>6. wallets' \in [Wallets -> Row]
    BY <1>2, <1>5 DEF IInv, TypeOK
  <2> QED  BY <1>1, <2>1, <2>3, <2>5, <2>6 DEF IInv, TypeOK
<1>7. LedgerExplainsBalance'
  BY <1>1, <1>5 DEF IInv, LedgerExplainsBalance
<1>8. NoRowNoLedger'
  BY <1>1, <1>5 DEF IInv, NoRowNoLedger
<1>9. \A d \in Clients : d # c => pc'[d] = pc[d] /\ answer'[d] = answer[d] /\ seen'[d] = seen[d]
  BY <1>3 DEF IInv, TypeOK
<1>10. pc'[c] \in {"lock", "answer"}
  BY <1>3 DEF IInv, TypeOK
<1>11. answer'[c] = answer[c] \/ (answer'[c].kind \in {"not_found", "invalid"} /\ pc'[c] = "answer")
  BY <1>3 DEF IInv, TypeOK
<1>12. LocksAreHeld'
  BY <1>1, <1>9, <1>10 DEF IInv, LocksAreHeld, InTx, TypeOK
<1>13. AnswersArePending' /\ ConstraintsNeverFire'
  BY <1>1, <1>9, <1>11 DEF IInv, AnswersArePending, ConstraintsNeverFire, TypeOK
<1>14. ArgumentsChecked'
  <2> SUFFICES ASSUME NEW d \in Clients, Resolved(d)'
               PROVE  (Movable(intent[d]) /\ wallets[intent[d].wallet].exists)'
    BY DEF ArgumentsChecked
  <2>1. intent[d].wallet \in Wallets
    BY IntentsAssumption DEF IInv, TypeOK, Intent
  <2>2. CASE d = c
    <3>1. Movable(i) /\ wallets' = [wallets EXCEPT ![i.wallet] = Ensured(@)]
      BY <1>4, <1>10, <2>2 DEF Resolved
    <3>2. wallets'[i.wallet].exists
      BY <1>0, <3>1, RowUpdates DEF IInv, TypeOK
    <3> QED  BY <1>1, <2>2, <3>1, <3>2 DEF Movable
  <2>3. CASE d # c
    BY <1>1, <1>5, <1>9, <2>1, <2>3 DEF IInv, ArgumentsChecked, Resolved, Movable
  <2> QED  BY <2>2, <2>3
<1>15. SeenIsCurrent'
  <2> SUFFICES ASSUME NEW d \in Clients, InTx(d)'
               PROVE  (seen[d] = wallets[intent[d].wallet])'
    BY DEF SeenIsCurrent
  <2>1. intent[d].wallet \in Wallets
    BY IntentsAssumption DEF IInv, TypeOK, Intent
  <2>2. d # c /\ InTx(d)
    BY <1>9, <1>10 DEF InTx
  <2>3. wallets[intent[d].wallet].exists
    BY <2>2 DEF IInv, ArgumentsChecked, Resolved, InTx
  <2> QED  BY <1>1, <1>5, <1>9, <2>1, <2>2, <2>3 DEF IInv, SeenIsCurrent
<1>16. VerdictStands'
  BY <1>1, <1>9, <1>10, SameLedgers DEF IInv, VerdictStands
<1>17. SuccessIsBooked'
  <2>1. \A d \in Clients : Backed(intent[d], answer[d])' <=> Backed(intent[d], answer'[d])
    BY <1>1 DEF Backed, Signed
  <2> QED  BY <1>1, <1>9, <1>11, <2>1 DEF IInv, SuccessIsBooked
<1> QED  BY <1>6, <1>7, <1>8, <1>12, <1>13, <1>14, <1>15, <1>16, <1>17 DEF IInv

LEMMA LockInv ==
  ASSUME IInv, NEW c \in Clients, Lock(c)
  PROVE  IInv'
<1> DEFINE w == intent[c].wallet
<1>0. intent[c] \in Intents /\ w \in Wallets /\ wallets[w] \in Row
  BY IntentsAssumption DEF IInv, TypeOK, Intent
<1>1. TypeOK'
  BY <1>0 DEF IInv, Lock, TypeOK
<1>2. LedgerExplainsBalance' /\ NoRowNoLedger' /\ ConstraintsNeverFire'
  BY DEF IInv, Lock, LedgerExplainsBalance, NoRowNoLedger, ConstraintsNeverFire
<1>3. LocksAreHeld'
  BY <1>0, LockAssumption DEF IInv, Lock, LocksAreHeld, InTx, TypeOK
<1>4. ArgumentsChecked' /\ SeenIsCurrent'
  BY <1>0 DEF IInv, Lock, ArgumentsChecked, SeenIsCurrent, InTx, Resolved, Movable, TypeOK
<1>5. VerdictStands'
  BY SameLedgers DEF IInv, Lock, VerdictStands, TypeOK
<1>6. AnswersArePending'
  BY DEF IInv, Lock, AnswersArePending, TypeOK
<1>7. SuccessIsBooked'
  BY DEF IInv, Lock, SuccessIsBooked, TypeOK, Backed, Signed
<1> QED  BY <1>1, <1>2, <1>3, <1>4, <1>5, <1>6, <1>7 DEF IInv

\* What ending a transaction does to the lock: the caller's own locks are free.
LEMMA ReleaseFrees ==
  ASSUME NEW c \in Clients, TypeOK, Release(c)
  PROVE  /\ lock' \in [Wallets -> Clients \cup {Free}]
         /\ \A w \in Wallets : lock[w] = c => lock'[w] = Free
         /\ \A w \in Wallets : lock[w] # c => lock'[w] = lock[w]
BY DEF TypeOK, Release

\* Ending a transaction, with an answer or without one, keeps the lock discipline.
LEMMA EndKeepsLocks ==
  ASSUME IInv, NEW c \in Clients, Release(c),
         pc' \in [Clients -> {"idle", "resolve", "lock", "locked", "commit", "answer"}],
         ~Resolved(c)', \A d \in Clients : d # c => pc'[d] = pc[d] /\ intent'[d] = intent[d]
  PROVE  LocksAreHeld'
<1>1. \A d \in Clients : InTx(d)' => d # c /\ InTx(d)
  BY DEF InTx, Resolved
<1>2. \A d \in Clients : intent[d].wallet \in Wallets
  BY IntentsAssumption DEF IInv, TypeOK, Intent
<1>3. \A d \in Clients : InTx(d)' => lock'[intent'[d].wallet] = d
  BY <1>1, <1>2, ReleaseFrees DEF IInv, LocksAreHeld
<1>4. ASSUME NEW w \in Wallets, lock'[w] # Free
      PROVE  InTx(lock[w])' /\ intent'[lock'[w]].wallet = w
  <2>1. lock[w] # c /\ lock'[w] = lock[w]
    BY <1>4, ReleaseFrees DEF IInv
  <2>2. lock[w] \in Clients /\ lock[w] # Free
    BY <1>4, <2>1 DEF IInv, TypeOK
  <2>3. InTx(lock[w]) /\ intent[lock[w]].wallet = w
    BY <2>2 DEF IInv, LocksAreHeld
  <2> QED  BY <2>1, <2>2, <2>3 DEF InTx
<1>5. \A w \in Wallets : lock'[w] # Free => InTx(lock[w])' /\ intent'[lock'[w]].wallet = w
  BY <1>4
<1> QED  BY <1>3, <1>5 DEF LocksAreHeld

LEMMA DecideInv ==
  ASSUME IInv, NEW c \in Clients, Decide(c)
  PROVE  IInv'
<1> DEFINE i == intent[c]
           v == Verdict(i, seen[c])
           n == IF v = "replayed" THEN Stored(i) ELSE 0
<1>0. i \in Intents /\ i.wallet \in Wallets /\ entries[i.wallet] \in Seq(Entry)
  BY IntentsAssumption DEF IInv, TypeOK, Intent
<1>1. pc[c] = "locked" /\ wallets' = wallets /\ entries' = entries /\ intent' = intent
  BY DEF Decide
<1>2. \A d \in Clients : Backed(intent[d], answer[d])' <=> Backed(intent[d], answer'[d])
  BY <1>1 DEF Backed, Signed
<1>3. LedgerExplainsBalance' /\ NoRowNoLedger'
  BY <1>1 DEF IInv, LedgerExplainsBalance, NoRowNoLedger
<1>4. CASE v = "apply"
  <2>1. pc' = [pc EXCEPT ![c] = "commit"] /\ lock' = lock /\ seen' = seen /\ answer' = answer
    BY <1>4 DEF Decide
  <2>2. TypeOK'
    BY <1>1, <2>1 DEF IInv, TypeOK
  <2>3. LocksAreHeld' /\ ArgumentsChecked' /\ SeenIsCurrent'
    BY <1>1, <2>1 DEF IInv, TypeOK, LocksAreHeld, ArgumentsChecked, SeenIsCurrent, InTx,
                      Resolved, Movable
  <2>4. VerdictStands'
    BY <1>1, <1>4, <2>1, SameLedgers DEF IInv, TypeOK, VerdictStands
  <2>5. AnswersArePending' /\ ConstraintsNeverFire'
    BY <1>1, <2>1 DEF IInv, TypeOK, AnswersArePending, ConstraintsNeverFire
  <2>6. SuccessIsBooked'
    BY <1>2, <2>1 DEF IInv, SuccessIsBooked
  <2> QED  BY <1>3, <2>2, <2>3, <2>4, <2>5, <2>6 DEF IInv
<1>5. CASE v # "apply"
  <2>1. /\ pc' = [pc EXCEPT ![c] = "answer"]
        /\ answer' = [answer EXCEPT ![c] = [kind |-> v, seq |-> n]]
        /\ seen' = [seen EXCEPT ![c] = NoRow]
        /\ Release(c)
    BY <1>5 DEF Decide, Finish
  <2>2. v \in Refusals \cup {"replayed"} /\ v # "db_error"
    BY <1>5, VerdictKinds DEF Refusals
  <2>3. v = "replayed" => n \in Positions(i.wallet, i.key) /\ Same(i) /\ n = Stored(i)
    BY VerdictKinds, StoredIsBooked
  <2>4. n \in Nat
    BY <1>0, <2>3 DEF Positions
  <2>5. TypeOK'
    <3>1. NoRow \in Row
      BY DEF Row, NoRow
    <3>2. [kind |-> v, seq |-> n] \in Answer
      BY <2>2, <2>4 DEF Answer
    <3>3. answer' \in [Clients -> Answer]
      BY <2>1, <3>2 DEF IInv, TypeOK
    <3>4. pc' \in [Clients -> {"idle", "resolve", "lock", "locked", "commit", "answer"}]
      BY <2>1 DEF IInv, TypeOK
    <3>5. seen' \in [Clients -> Row]
      BY <2>1, <3>1 DEF IInv, TypeOK
    <3> QED  BY <1>1, <2>1, <3>3, <3>4, <3>5, ReleaseFrees DEF IInv, TypeOK
  <2>6. pc'[c] = "answer" /\ answer'[c] = [kind |-> v, seq |-> n]
    BY <2>1 DEF IInv, TypeOK
  <2>7. \A d \in Clients : d # c => pc'[d] = pc[d] /\ answer'[d] = answer[d] /\ seen'[d] = seen[d]
    BY <2>1 DEF IInv, TypeOK
  <2>8. LocksAreHeld'
    BY <1>1, <2>1, <2>5, <2>6, <2>7, EndKeepsLocks DEF Resolved, TypeOK
  <2>9. ArgumentsChecked' /\ SeenIsCurrent'
    BY <1>1, <2>6, <2>7 DEF IInv, ArgumentsChecked, SeenIsCurrent, InTx, Resolved, Movable
  <2>10. VerdictStands'
    BY <1>1, <2>6, <2>7, SameLedgers DEF IInv, VerdictStands
  <2>11. AnswersArePending' /\ ConstraintsNeverFire'
    BY <2>2, <2>6, <2>7 DEF IInv, AnswersArePending, ConstraintsNeverFire
  <2>12. v = "replayed" => Backed(i, [kind |-> v, seq |-> n])
    BY <2>3 DEF Backed, Positions, Same
  <2>13. SuccessIsBooked'
    <3> SUFFICES ASSUME NEW d \in Clients, answer'[d].kind \in {"applied", "replayed"}
                 PROVE  Backed(intent[d], answer'[d])
      BY <1>2 DEF SuccessIsBooked
    <3>1. CASE d = c
      BY <2>2, <2>6, <2>12, <3>1 DEF Refusals
    <3>2. CASE d # c
      BY <2>7, <3>2 DEF IInv, SuccessIsBooked
    <3> QED  BY <3>1, <3>2
  <2> QED  BY <1>3, <2>5, <2>8, <2>9, <2>10, <2>11, <2>13 DEF IInv
<1> QED  BY <1>4, <1>5

\* What a commit writes, one wallet and one entry at a time.
LEMMA CommitWrites ==
  ASSUME IInv, NEW c \in Clients, Commit(c)
  PROVE  LET i == intent[c]
             w == i.wallet
             e == NewEntry(i, seen[c])
         IN  /\ wallets' = [wallets EXCEPT ![w] = Updated(@, e.balanceAfter)]
             /\ entries' = [entries EXCEPT ![w] = Append(@, e)]
             /\ Finish(c, "applied", e.seq)
             /\ Release(c)
             /\ intent' = intent
BY CommitIsAccepted DEF Commit

LEMMA CommitInv ==
  ASSUME IInv, NEW c \in Clients, Commit(c)
  PROVE  IInv'
<1> DEFINE i == intent[c]
           w == i.wallet
           e == NewEntry(i, seen[c])
<1>0. pc[c] = "commit"
  BY DEF Commit
<1>1. /\ i \in Intents /\ w \in Wallets /\ lock[w] = c /\ seen[c] = wallets[w]
      /\ e \in Entry /\ e.seq = Len(entries[w]) + 1 /\ e.balanceAfter \in Nat
  BY <1>0, CommitIsAccepted
<1>2. /\ wallets' = [wallets EXCEPT ![w] = Updated(@, e.balanceAfter)]
      /\ entries' = [entries EXCEPT ![w] = Append(@, e)]
      /\ intent' = intent
      /\ Release(c)
      /\ pc' = [pc EXCEPT ![c] = "answer"]
      /\ answer' = [answer EXCEPT ![c] = [kind |-> "applied", seq |-> e.seq]]
      /\ seen' = [seen EXCEPT ![c] = NoRow]
  BY CommitWrites DEF Finish
<1>3. wallets[w] \in Row /\ entries[w] \in Seq(Entry)
  BY <1>1 DEF IInv, TypeOK
<1>4. \A d \in Clients : d # c => pc'[d] = pc[d] /\ answer'[d] = answer[d] /\ seen'[d] = seen[d]
  BY <1>2 DEF IInv, TypeOK
<1>5. pc'[c] = "answer" /\ answer'[c] = [kind |-> "applied", seq |-> e.seq]
  BY <1>2 DEF IInv, TypeOK
<1>6. \A x \in Wallets : x # w => wallets'[x] = wallets[x] /\ entries'[x] = entries[x]
  BY <1>2 DEF IInv, TypeOK
<1>7. wallets'[w] = Updated(wallets[w], e.balanceAfter) /\ entries'[w] = Append(entries[w], e)
  BY <1>1, <1>2 DEF IInv, TypeOK
<1>8. /\ wallets'[w] \in Row
      /\ wallets'[w].available = e.balanceAfter
      /\ wallets'[w].version = wallets[w].version + 1
      /\ wallets'[w].exists = wallets[w].exists
  <2>1. \A row \in Row, b \in Nat :
          /\ Updated(row, b) \in Row
          /\ Updated(row, b).available = b
          /\ Updated(row, b).version = row.version + 1
          /\ Updated(row, b).exists = row.exists
    BY RowUpdates
  <2>2. e.balanceAfter \in Nat
    BY <1>1
  <2> DEFINE old == wallets[w]
             new == wallets'[w]
             b   == e.balanceAfter
  <2>3. old \in Row /\ b \in Nat /\ new = Updated(old, b)
    BY <1>3, <1>7, <2>2
  <2> SUFFICES new \in Row /\ new.available = b /\ new.version = old.version + 1
               /\ new.exists = old.exists
    OBVIOUS
  <2> HIDE DEF old, new, b
  <2>4. /\ Updated(old, b) \in Row
        /\ Updated(old, b).available = b
        /\ Updated(old, b).version = old.version + 1
        /\ Updated(old, b).exists = old.exists
    BY <2>1, <2>3, ZenonT(30)
  <2> QED  BY <2>3, <2>4
<1>9. /\ entries'[w] \in Seq(Entry)
      /\ Len(entries'[w]) = Len(entries[w]) + 1
      /\ entries'[w][Len(entries[w]) + 1] = e
      /\ \A m \in 1..Len(entries[w]) : entries'[w][m] = entries[w][m]
  BY <1>1, <1>3, <1>7
<1>10. TypeOK'
  <2>1. wallets' \in [Wallets -> Row]
    BY <1>1, <1>2, <1>7, <1>8 DEF IInv, TypeOK
  <2>2. entries' \in [Wallets -> Seq(Entry)]
    BY <1>1, <1>2, <1>7, <1>9 DEF IInv, TypeOK
  <2>3. [kind |-> "applied", seq |-> e.seq] \in Answer
    BY <1>1 DEF Entry, Answer
  <2>4. answer' \in [Clients -> Answer]
    BY <1>2, <2>3 DEF IInv, TypeOK
  <2>5. NoRow \in Row
    BY DEF Row, NoRow
  <2>6. seen' \in [Clients -> Row]
    BY <1>2, <2>5 DEF IInv, TypeOK
  <2>7. pc' \in [Clients -> {"idle", "resolve", "lock", "locked", "commit", "answer"}]
    BY <1>2 DEF IInv, TypeOK
  <2> QED  BY <1>2, <2>1, <2>2, <2>4, <2>6, <2>7, ReleaseFrees DEF IInv, TypeOK
<1>11. LedgerExplainsBalance'
  <2> DEFINE es == entries[w]
             n  == Len(es)
  <2>1. n \in Nat /\ wallets[w].version = n
    BY <1>1, <1>3 DEF IInv, LedgerExplainsBalance
  <2>2. e.amount = Signed(i) /\ e.balanceAfter = wallets[w].available + Signed(i)
    BY <1>1 DEF NewEntry, BalanceAfter
  <2>3. wallets[w].available = IF n = 0 THEN 0 ELSE es[n].balanceAfter
    BY <1>1 DEF IInv, LedgerExplainsBalance
  <2>4. \A m \in 1..n :
          /\ es[m].seq = m
          /\ es[m].balanceAfter = (IF m = 1 THEN 0 ELSE es[m-1].balanceAfter) + es[m].amount
    BY <1>1 DEF IInv, LedgerExplainsBalance
  <2>5. /\ wallets'[w].version = n + 1
        /\ wallets'[w].available = entries'[w][n + 1].balanceAfter
        /\ Len(entries'[w]) = n + 1
    BY <1>8, <1>9, <2>1
  <2>6. ASSUME NEW m \in 1..(n + 1)
        PROVE  /\ entries'[w][m].seq = m
               /\ entries'[w][m].balanceAfter
                    = (IF m = 1 THEN 0 ELSE entries'[w][m-1].balanceAfter) + entries'[w][m].amount
    <3>1. CASE m = n + 1
      <4>1. entries'[w][m] = e /\ e.seq = m
        BY <1>1, <1>9, <3>1
      <4>2. wallets[w].available = IF m = 1 THEN 0 ELSE entries'[w][m-1].balanceAfter
        BY <1>9, <2>1, <2>3, <3>1
      <4> QED  BY <2>2, <4>1, <4>2
    <3>2. CASE m \in 1..n
      <4>1. entries'[w][m] = es[m] /\ (m # 1 => entries'[w][m-1] = es[m-1])
        BY <1>9, <2>1, <3>2
      <4> QED  BY <2>4, <3>2, <4>1
    <3> QED  BY <2>1, <3>1, <3>2
  <2>7. \A m \in 1..Len(entries'[w]) :
          /\ entries'[w][m].seq = m
          /\ entries'[w][m].balanceAfter
               = (IF m = 1 THEN 0 ELSE entries'[w][m-1].balanceAfter) + entries'[w][m].amount
    BY <2>5, <2>6
  <2>8. wallets'[w].available = IF Len(entries'[w]) = 0 THEN 0
                                ELSE entries'[w][Len(entries'[w])].balanceAfter
    BY <2>1, <2>5
  <2> HIDE DEF w, n, es
  <2>9. \A x \in Wallets : x # w => wallets'[x] = wallets[x] /\ entries'[x] = entries[x]
    BY <1>6
  <2>10. wallets'[w].version = Len(entries'[w])
    BY <2>5
  <2>11. LedgerExplainsBalance
    BY DEF IInv
  <2> QED
    <3> SUFFICES ASSUME NEW x \in Wallets
                 PROVE  /\ wallets'[x].version = Len(entries'[x])
                        /\ wallets'[x].available = IF Len(entries'[x]) = 0 THEN 0
                                                  ELSE entries'[x][Len(entries'[x])].balanceAfter
                        /\ \A m \in 1..Len(entries'[x]) :
                             /\ entries'[x][m].seq = m
                             /\ entries'[x][m].balanceAfter
                                  = (IF m = 1 THEN 0 ELSE entries'[x][m-1].balanceAfter)
                                      + entries'[x][m].amount
      BY DEF LedgerExplainsBalance
    <3>1. CASE x = w
      BY <2>7, <2>8, <2>10, <3>1
    <3>2. CASE x # w
      BY <2>9, <2>11, <3>2 DEF LedgerExplainsBalance
    <3> QED  BY <3>1, <3>2
<1>12. LocksAreHeld'
  BY <1>2, <1>4, <1>5, <1>10, EndKeepsLocks DEF Resolved, TypeOK
<1>13. \A d \in Clients : InTx(d) /\ d # c => intent[d].wallet # w
  BY <1>1 DEF IInv, LocksAreHeld
<1>14. \A d \in Clients : intent[d].wallet \in Wallets
  BY IntentsAssumption DEF IInv, TypeOK, Intent
<1>15. ArgumentsChecked'
  <2> SUFFICES ASSUME NEW d \in Clients, Resolved(d)'
               PROVE  Movable(intent'[d]) /\ wallets'[intent'[d].wallet].exists
    BY DEF ArgumentsChecked, Movable
  <2>1. d # c /\ Resolved(d) /\ intent'[d] = intent[d]
    BY <1>2, <1>4, <1>5 DEF Resolved
  <2>2. Movable(intent[d]) /\ wallets[intent[d].wallet].exists
    BY <2>1 DEF IInv, ArgumentsChecked
  <2>3. wallets'[intent[d].wallet].exists
    BY <1>6, <1>8, <1>14, <2>2
  <2> QED  BY <2>1, <2>2, <2>3
<1>16. SeenIsCurrent'
  BY <1>2, <1>4, <1>5, <1>6, <1>13, <1>14 DEF IInv, SeenIsCurrent, InTx
<1>17. VerdictStands'
  <2> SUFFICES ASSUME NEW d \in Clients, pc'[d] = "commit"
               PROVE  (Verdict(intent[d], seen[d]) = "apply")'
    BY DEF VerdictStands
  <2>1. d # c /\ pc[d] = "commit" /\ seen'[d] = seen[d] /\ intent'[d] = intent[d]
    BY <1>2, <1>4, <1>5
  <2>2. entries'[intent[d].wallet] = entries[intent[d].wallet]
    BY <1>6, <1>13, <1>14, <2>1 DEF InTx
  <2>3. \A k : Positions(intent[d].wallet, k)' = Positions(intent[d].wallet, k)
    BY <1>2, <2>2 DEF Positions
  <2>4. Verdict(intent[d], seen[d]) = "apply"
    BY <2>1 DEF IInv, VerdictStands
  <2>5. Booked(intent[d])' = Booked(intent[d])
    BY <2>1, <2>3 DEF Booked
  <2> QED  BY <2>1, <2>4, <2>5 DEF Verdict, BalanceAfter, Signed
<1>18. AnswersArePending' /\ ConstraintsNeverFire'
  BY <1>4, <1>5 DEF IInv, AnswersArePending, ConstraintsNeverFire
<1>19. NoRowNoLedger'
  <2>1. wallets[w].exists
    BY <1>0 DEF IInv, ArgumentsChecked, Resolved
  <2> QED  BY <1>6, <1>8, <2>1 DEF IInv, NoRowNoLedger
<1>20. SuccessIsBooked'
  <2> SUFFICES ASSUME NEW d \in Clients, answer'[d].kind \in {"applied", "replayed"}
               PROVE  Backed(intent[d], answer[d])'
    BY DEF SuccessIsBooked
  <2>1. CASE d = c
    <3>1. e.type = i.type /\ e.amount = Signed(i) /\ e.key = i.key
      BY DEF NewEntry
    <3>2. Len(entries[w]) \in Nat
      BY <1>3
    <3>3. answer'[c].seq = e.seq /\ e.seq = Len(entries[w]) + 1
      BY <1>1, <1>5
    <3>4. Len(entries'[w]) = Len(entries[w]) + 1 /\ entries'[w][Len(entries[w]) + 1] = e
      BY <1>9
    <3>5. answer'[c].seq \in 1..Len(entries'[w]) /\ entries'[w][answer'[c].seq] = e
      BY <3>2, <3>3, <3>4
    <3>6. intent'[c] = i /\ Signed(i)' = Signed(i)
      BY <1>2 DEF Signed
    <3> QED  BY <2>1, <3>1, <3>5, <3>6 DEF Backed
  <2>2. CASE d # c
    <3> DEFINE x == intent[d].wallet
    <3>1. answer'[d] = answer[d] /\ intent'[d] = intent[d] /\ x \in Wallets
      BY <1>2, <1>4, <1>14, <2>2
    <3>2. Backed(intent[d], answer[d])
      BY <3>1 DEF IInv, SuccessIsBooked
    <3>3. \A m \in 1..Len(entries[x]) : m \in 1..Len(entries'[x]) /\ entries'[x][m] = entries[x][m]
      <4>1. CASE x # w
        BY <1>6, <3>1, <4>1
      <4>2. Len(entries[w]) \in Nat
        BY <1>3
      <4>3. CASE x = w
        BY <1>9, <4>2, <4>3
      <4> QED  BY <4>1, <4>3
    <3> QED  BY <3>1, <3>2, <3>3 DEF Backed, Signed
  <2> QED  BY <2>1, <2>2
<1> QED  BY <1>10, <1>11, <1>12, <1>15, <1>16, <1>17, <1>18, <1>19, <1>20 DEF IInv

\* Both ways a caller leaves without writing: it read its answer, or it died.
LEMMA LeaveInv ==
  ASSUME IInv, NEW c \in Clients, Reply(c) \/ Crash(c)
  PROVE  IInv'
<1> DEFINE PCs == {"idle", "resolve", "lock", "locked", "commit", "answer"}
<1>1. /\ wallets' = wallets /\ entries' = entries
      /\ pc' = [pc EXCEPT ![c] = "idle"]
      /\ intent' = [intent EXCEPT ![c] = SomeIntent]
      /\ seen' \in {seen, [seen EXCEPT ![c] = NoRow]}
      /\ answer' \in {answer, [answer EXCEPT ![c] = NoAnswer]}
      /\ pc[c] # "answer" => Release(c)
      /\ pc[c] = "answer" => lock' = lock /\ answer' = [answer EXCEPT ![c] = NoAnswer]
  BY DEF Reply, Crash
<1>2. SomeIntent \in Intents /\ NoRow \in Row /\ NoAnswer \in Answer
  BY IntentsAssumption DEF SomeIntent, NoRow, Row, NoAnswer, Answer
<1>3. TypeOK'
  <2>1. pc' \in [Clients -> PCs] /\ intent' \in [Clients -> Intents]
    BY <1>1, <1>2 DEF IInv, TypeOK
  <2>2. seen' \in [Clients -> Row]
    BY <1>1, <1>2 DEF IInv, TypeOK
  <2>3. answer' \in [Clients -> Answer]
    BY <1>1, <1>2 DEF IInv, TypeOK
  <2> QED  BY <1>1, <2>1, <2>2, <2>3, ReleaseFrees DEF IInv, TypeOK
<1>4. pc'[c] = "idle" /\ \A d \in Clients : d # c => /\ pc'[d] = pc[d] /\ intent'[d] = intent[d]
                                                   /\ seen'[d] = seen[d] /\ answer'[d] = answer[d]
  BY <1>1 DEF IInv, TypeOK
<1>5. answer'[c].kind = "none"
  BY <1>1 DEF IInv, TypeOK, AnswersArePending, NoAnswer
<1>6. LocksAreHeld'
  <2>1. CASE pc[c] # "answer"
    BY <1>1, <1>3, <1>4, <2>1, EndKeepsLocks DEF Resolved, TypeOK
  <2>2. CASE pc[c] = "answer"
    BY <1>1, <1>4, <2>2 DEF IInv, LocksAreHeld, InTx, TypeOK
  <2> QED  BY <2>1, <2>2
<1>7. LedgerExplainsBalance' /\ NoRowNoLedger'
  BY <1>1 DEF IInv, LedgerExplainsBalance, NoRowNoLedger
<1>8. ArgumentsChecked' /\ SeenIsCurrent'
  BY <1>1, <1>4 DEF IInv, ArgumentsChecked, SeenIsCurrent, InTx, Resolved, Movable
<1>9. VerdictStands'
  BY <1>1, <1>4, SameLedgers DEF IInv, VerdictStands
<1>10. AnswersArePending' /\ ConstraintsNeverFire'
  BY <1>4, <1>5 DEF IInv, AnswersArePending, ConstraintsNeverFire
<1>11. SuccessIsBooked'
  <2> SUFFICES ASSUME NEW d \in Clients, answer'[d].kind \in {"applied", "replayed"}
               PROVE  Backed(intent[d], answer[d])'
    BY DEF SuccessIsBooked
  <2>1. d # c /\ answer'[d] = answer[d] /\ intent'[d] = intent[d]
    BY <1>4, <1>5
  <2>2. Backed(intent[d], answer[d])
    BY <2>1 DEF IInv, SuccessIsBooked
  <2> QED  BY <1>1, <2>1, <2>2 DEF Backed, Signed
<1> QED  BY <1>3, <1>6, <1>7, <1>8, <1>9, <1>10, <1>11 DEF IInv

LEMMA SetFrozenInv ==
  ASSUME IInv, NEW w \in Wallets, NEW f \in BOOLEAN, SetFrozen(w, f)
  PROVE  IInv'
<1>1. /\ lock[w] = Free /\ UNCHANGED <<entries, lock, pc, intent, seen, answer>>
      /\ wallets' = [wallets EXCEPT ![w] = Frozen(@, f)]
  BY DEF SetFrozen
<1>2. wallets[w] \in Row
  BY DEF IInv, TypeOK
<1>3. wallets'[w] = Frozen(wallets[w], f) /\ \A x \in Wallets : x # w => wallets'[x] = wallets[x]
  BY <1>1 DEF IInv, TypeOK
<1>4. /\ Frozen(wallets[w], f) \in Row
      /\ Frozen(wallets[w], f).available = wallets[w].available
      /\ Frozen(wallets[w], f).version = wallets[w].version
      /\ Frozen(wallets[w], f).exists = wallets[w].exists
  BY <1>2, RowUpdates
<1>5. wallets' \in [Wallets -> Row]
  BY <1>1, <1>3, <1>4 DEF IInv, TypeOK
<1>6. TypeOK'
  BY <1>1, <1>5 DEF IInv, TypeOK
<1>7. LedgerExplainsBalance' /\ NoRowNoLedger'
  BY <1>1, <1>3, <1>4 DEF IInv, LedgerExplainsBalance, NoRowNoLedger
<1>8. \A d \in Clients : intent[d].wallet \in Wallets
  BY IntentsAssumption DEF IInv, TypeOK, Intent
<1>9. \A d \in Clients : InTx(d) => intent[d].wallet # w
  BY <1>1, LockAssumption DEF IInv, LocksAreHeld
<1>10. SeenIsCurrent'
  BY <1>1, <1>3, <1>8, <1>9 DEF IInv, SeenIsCurrent, InTx
<1>11. ArgumentsChecked'
  BY <1>1, <1>3, <1>4, <1>8 DEF IInv, ArgumentsChecked, Resolved, Movable
<1>12. VerdictStands'
  BY <1>1, SameLedgers DEF IInv, VerdictStands
<1>13. LocksAreHeld' /\ AnswersArePending' /\ ConstraintsNeverFire' /\ SuccessIsBooked'
  BY <1>1 DEF IInv, LocksAreHeld, AnswersArePending, ConstraintsNeverFire, SuccessIsBooked,
              InTx, Backed, Signed
<1> QED  BY <1>6, <1>7, <1>10, <1>11, <1>12, <1>13 DEF IInv

LEMMA StutterInv == IInv /\ UNCHANGED vars => IInv'
<1> SUFFICES ASSUME IInv, UNCHANGED vars PROVE IInv'
  OBVIOUS
<1> USE DEF vars
<1>1. TypeOK' /\ NoRowNoLedger' /\ AnswersArePending' /\ ConstraintsNeverFire'
  BY DEF IInv, TypeOK, NoRowNoLedger, AnswersArePending, ConstraintsNeverFire
<1>4. LedgerExplainsBalance'
  BY DEF IInv, LedgerExplainsBalance
<1>2. LocksAreHeld' /\ ArgumentsChecked' /\ SeenIsCurrent' /\ SuccessIsBooked'
  BY DEF IInv, LocksAreHeld, ArgumentsChecked, SeenIsCurrent, SuccessIsBooked, InTx, Resolved,
         Movable, Backed, Signed
<1>3. VerdictStands'
  BY SameLedgers DEF IInv, VerdictStands
<1> QED  BY <1>1, <1>2, <1>3, <1>4 DEF IInv

LEMMA NextInv == IInv /\ [Next]_vars => IInv'
<1> SUFFICES ASSUME IInv, [Next]_vars PROVE IInv'
  OBVIOUS
<1>1. CASE UNCHANGED vars
  BY <1>1, StutterInv
<1>2. ASSUME NEW c \in Clients, Step(c) PROVE IInv'
  BY <1>2, ResolveInv, LockInv, DecideInv, CommitInv, LeaveInv DEF Step
<1>3. ASSUME NEW c \in Clients, Crash(c) PROVE IInv'
  BY <1>3, LeaveInv
<1>4. ASSUME NEW c \in Clients, NEW i \in Intents, Call(c, i) PROVE IInv'
  BY <1>4, CallInv
<1>5. ASSUME NEW w \in Wallets, NEW f \in BOOLEAN, SetFrozen(w, f) PROVE IInv'
  BY <1>5, SetFrozenInv
<1> QED  BY <1>1, <1>2, <1>3, <1>4, <1>5 DEF Next

-----------------------------------------------------------------------------
(* What holds of every behaviour of the wallet module. *)

\* IInv is inductive: it holds at first and every step keeps it.
THEOREM WalletInvariant == Spec => []IInv
<1>1. Init => IInv
  BY InitInv
<1>2. IInv /\ [Next]_vars => IInv'
  BY NextInv
<1> QED  BY <1>1, <1>2, PTL DEF Spec

\* Every row is a row and every entry an entry: no balance is ever negative.
THEOREM TypeCorrect == Spec => []TypeOK
<1>1. IInv => TypeOK
  BY DEF IInv
<1> QED  BY <1>1, WalletInvariant, PTL

\* The nightly reconciliation has nothing to find, whoever moves money and when.
THEOREM LedgerAlwaysExplains == Spec => []LedgerExplainsBalance
<1>1. IInv => LedgerExplainsBalance
  BY DEF IInv
<1> QED  BY <1>1, WalletInvariant, PTL

\* A caller told of a success can find it in the ledger.
THEOREM SuccessAlwaysBooked == Spec => []SuccessIsBooked
<1>1. IInv => SuccessIsBooked
  BY DEF IInv
<1> QED  BY <1>1, WalletInvariant, PTL

\* The CHECKs and unique indexes never have to refuse what the code writes.
THEOREM ConstraintsAreBackstops == Spec => []ConstraintsNeverFire
<1>1. IInv => ConstraintsNeverFire
  BY DEF IInv
<1> QED  BY <1>1, WalletInvariant, PTL

\* A step that refuses a caller for the state of the wallet finds nothing booked.
LEMMA RefusalStep ==
  ASSUME IInv, Next, NEW c \in Clients, answer[c].kind = "none",
         answer'[c].kind \in {"not_found", "frozen", "insufficient", "db_error"}
  PROVE  ~Booked(intent[c])
<1>0. intent[c] \in Intents /\ intent[c].wallet \in Wallets
  BY IntentsAssumption DEF IInv, TypeOK, Intent
<1>1. ASSUME NEW d \in Clients, Resolve(d) PROVE ~Booked(intent[c])
  <2>1. d = c
    BY <1>1 DEF Resolve, Finish, IInv, TypeOK
  <2>2. ~wallets[intent[c].wallet].exists
    BY <1>1, <2>1 DEF Resolve, Finish, IInv, TypeOK
  <2>3. entries[intent[c].wallet] = <<>> /\ 1..Len(<<>>) = {}
    BY <1>0, <2>2 DEF IInv, NoRowNoLedger
  <2> QED  BY <2>3 DEF Booked, Positions
<1>2. ASSUME NEW d \in Clients, Decide(d) PROVE ~Booked(intent[c])
  <2>1. Verdict(intent[d], seen[d]) # "apply" /\ d = c
    BY <1>2 DEF Decide, Finish, IInv, TypeOK
  <2>2. answer'[c].kind = Verdict(intent[c], seen[c])
    BY <1>2, <2>1 DEF Decide, Finish, IInv, TypeOK
  <2> QED  BY <2>2, VerdictKinds
<1>3. ASSUME NEW d \in Clients, Commit(d) PROVE ~Booked(intent[c])
  <2>1. answer' = [answer EXCEPT ![d] = [kind |-> "applied", seq |-> NewEntry(intent[d], seen[d]).seq]]
    BY <1>3, CommitWrites DEF Finish
  <2> QED  BY <2>1 DEF IInv, TypeOK
<1>4. ASSUME NEW d \in Clients, Lock(d) \/ Reply(d) \/ Crash(d) \/ \E i \in Intents : Call(d, i)
      PROVE  ~Booked(intent[c])
  BY <1>4 DEF Lock, Reply, Crash, Call, NoAnswer, IInv, TypeOK
<1>5. ASSUME NEW w \in Wallets, NEW f \in BOOLEAN, SetFrozen(w, f) PROVE ~Booked(intent[c])
  BY <1>5 DEF SetFrozen
<1> QED  BY <1>1, <1>2, <1>3, <1>4, <1>5 DEF Next, Step

\* A retry of a booked movement is never refused for what the wallet has become.
THEOREM RefusalsAreHonest == Spec => RefusedIsNotBooked
<1> DEFINE Honest == \A c \in Clients :
             /\ answer[c].kind = "none"
             /\ answer'[c].kind \in {"not_found", "frozen", "insufficient", "db_error"}
             => ~Booked(intent[c])
<1>1. IInv /\ [Next]_vars => [Honest]_vars
  BY RefusalStep
<1> QED  BY <1>1, WalletInvariant, PTL DEF Spec, RefusedIsNotBooked

-----------------------------------------------------------------------------
(* The wallet module implements Accounts. *)

Balances == [w \in Wallets |-> wallets[w].available]
Freezes  == [w \in Wallets |-> wallets[w].frozen]
Moved    == [w \in Wallets |-> KeysOf(w)]

\* A commit is the abstract movement of its amount under its key.
LEMMA CommitMoves ==
  ASSUME IInv, NEW c \in Clients, Commit(c)
  PROVE  \E w \in Wallets, k \in Keys \cup {NoKey} : Acc!Move(w, Balances'[w] - Balances[w], k)
<1> DEFINE i == intent[c]
           w == i.wallet
           e == NewEntry(i, seen[c])
           d == Signed(i)
<1>0. pc[c] = "commit"
  BY DEF Commit
<1>1. /\ i \in Intents /\ w \in Wallets /\ seen[c] = wallets[w]
      /\ e.balanceAfter \in Nat /\ e \in Entry
  BY <1>0, CommitIsAccepted
<1>2. /\ wallets' = [wallets EXCEPT ![w] = Updated(@, e.balanceAfter)]
      /\ entries' = [entries EXCEPT ![w] = Append(@, e)]
  BY CommitWrites
<1>3. wallets[w] \in Row /\ entries[w] \in Seq(Entry) /\ i.key \in Keys \cup {NoKey}
  BY <1>1, IntentsAssumption DEF IInv, TypeOK, Intent
<1>4. d \in Int /\ d # 0 /\ (d < 0 => i.type \in DebitTypes)
  BY <1>0, <1>1, MovableIsSigned DEF IInv, ArgumentsChecked, Resolved
<1>5. e.balanceAfter = wallets[w].available + d /\ e.key = i.key
  BY <1>1 DEF NewEntry, BalanceAfter
<1>6. ~Booked(i) /\ (d < 0 => ~wallets[w].frozen)
  BY <1>0, <1>1, <1>4, ApplyMeansAllowed DEF IInv, VerdictStands
<1>7. \A x \in Wallets :
        /\ wallets'[x].available = IF x = w THEN e.balanceAfter ELSE wallets[x].available
        /\ wallets'[x].frozen = wallets[x].frozen
  <2>1. \A row \in Row, b \in Nat :
          Updated(row, b).available = b /\ Updated(row, b).frozen = row.frozen
    BY RowUpdates
  <2>2. \A x \in Wallets : x # w => wallets'[x] = wallets[x]
    BY <1>2 DEF IInv, TypeOK
  <2>3. wallets'[w] = Updated(wallets[w], e.balanceAfter)
    BY <1>1, <1>2 DEF IInv, TypeOK
  <2>4. wallets'[w].available = e.balanceAfter /\ wallets'[w].frozen = wallets[w].frozen
    <3> DEFINE b == e.balanceAfter
               old == wallets[w]
               new == wallets'[w]
    <3>1. old \in Row /\ b \in Nat /\ new = Updated(old, b)
      BY <1>1, <1>3, <2>3
    <3> SUFFICES new.available = b /\ new.frozen = old.frozen
      OBVIOUS
    <3> HIDE DEF b, old, new
    <3> QED  BY <2>1, <3>1
  <2> QED  BY <2>2, <2>4
<1>8. Balances' = [Balances EXCEPT ![w] = @ + d] /\ Freezes' = Freezes
  <2>1. Balances' = [Balances EXCEPT ![w] = @ + d]
    BY <1>1, <1>5, <1>7 DEF Balances
  <2>2. Freezes' = Freezes
    BY <1>7 DEF Freezes
  <2> QED  BY <2>1, <2>2
<1>9. i.key \notin Moved[w]
  <2> SUFFICES ASSUME i.key \in KeysOf(w) PROVE FALSE
    BY <1>1 DEF Moved
  <2> QED  BY <1>6 DEF KeysOf, Booked, Positions
<1>10. Moved' = [Moved EXCEPT ![w] = @ \cup ({i.key} \ {NoKey})]
  <2>1. \A x \in Wallets : x # w => KeysOf(x)' = KeysOf(x)
    BY <1>2 DEF KeysOf, IInv, TypeOK
  <2>2. /\ Len(entries'[w]) = Len(entries[w]) + 1 /\ Len(entries[w]) \in Nat
        /\ entries'[w][Len(entries[w]) + 1] = e
        /\ \A m \in 1..Len(entries[w]) : entries'[w][m] = entries[w][m]
    BY <1>1, <1>2, <1>3 DEF IInv, TypeOK
  <2>3. 1..(Len(entries[w]) + 1) = 1..Len(entries[w]) \cup {Len(entries[w]) + 1}
    BY <2>2
  <2>4. ASSUME NEW x \in Wallets, x = w
        PROVE  KeysOf(x)' = KeysOf(x) \cup ({i.key} \ {NoKey})
    <3>1. {entries'[w][n].key : n \in 1..Len(entries'[w])}
            = {entries[w][n].key : n \in 1..Len(entries[w])} \cup {e.key}
      <4> DEFINE old == entries[w]
                 new == entries'[w]
                 f   == e
      <4>1. /\ Len(new) = Len(old) + 1 /\ Len(old) \in Nat /\ new[Len(old) + 1] = f
            /\ \A m \in 1..Len(old) : new[m] = old[m]
        BY <2>2
      <4> SUFFICES {new[n].key : n \in 1..Len(new)} = {old[n].key : n \in 1..Len(old)} \cup {f.key}
        OBVIOUS
      <4> HIDE DEF old, new, f
      <4> QED  BY <4>1
    <3>2. KeysOf(x)' = {entries'[w][n].key : n \in 1..Len(entries'[w])} \ {NoKey}
      BY <2>4 DEF KeysOf
    <3> QED  BY <1>5, <2>4, <3>1, <3>2 DEF KeysOf
  <2> QED  BY <1>1, <2>1, <2>4 DEF Moved
<1>11. Balances[w] = wallets[w].available /\ Balances[w] \in Nat /\ Balances'[w] = Balances[w] + d
  BY <1>1, <1>3, <1>8 DEF Balances, Row
<1>12. Balances'[w] - Balances[w] = d
  BY <1>4, <1>11
<1>13. Balances[w] + d >= 0 /\ (d < 0 => ~Freezes[w])
  BY <1>1, <1>5, <1>6, <1>11 DEF Freezes
<1>14. ASSUME NEW x \in Wallets, NEW k, NEW a, x = w, k = i.key, a = d
       PROVE  Acc!Move(x, a, k)
  <2>1. /\ a # 0 /\ k \notin Moved[x] /\ Balances[x] + a >= 0 /\ (a < 0 => ~Freezes[x])
        /\ Balances' = [Balances EXCEPT ![x] = @ + a] /\ Freezes' = Freezes
        /\ Moved' = [Moved EXCEPT ![x] = @ \cup ({k} \ {NoKey})]
    BY <1>4, <1>8, <1>9, <1>10, <1>13, <1>14
  <2> QED  BY <2>1 DEF Acc!Move, Balances, Freezes, Moved
<1>15. \A x \in Wallets : \A k : x = w /\ k = i.key => Acc!Move(x, Balances'[x] - Balances[x], k)
  <2> SUFFICES ASSUME NEW x \in Wallets, NEW k, x = w, k = i.key
               PROVE  Acc!Move(x, Balances'[x] - Balances[x], k)
    OBVIOUS
  <2>1. Balances'[x] - Balances[x] = d
    BY <1>12
  <2> QED  BY <1>14, <2>1
<1> QED  BY <1>1, <1>3, <1>15

\* Every other step of a caller is invisible from outside.
LEMMA OtherStepsHide ==
  ASSUME IInv, NEW c \in Clients,
         Resolve(c) \/ Lock(c) \/ Decide(c) \/ Reply(c) \/ Crash(c) \/ \E i \in Intents : Call(c, i)
  PROVE  Balances' = Balances /\ Freezes' = Freezes /\ Moved' = Moved
<1>1. entries' = entries
  BY DEF Resolve, Lock, Decide, Reply, Crash, Call
<1>2. wallets' = wallets \/ wallets' = [wallets EXCEPT ![intent[c].wallet] = Ensured(@)]
  BY DEF Resolve, Lock, Decide, Reply, Crash, Call
<1>3. ASSUME NEW w \in Wallets
      PROVE  wallets'[w].available = wallets[w].available /\ wallets'[w].frozen = wallets[w].frozen
  <2>1. wallets[w] \in Row /\ wallets'[w] \in {wallets[w], Ensured(wallets[w])}
    BY <1>2 DEF IInv, TypeOK
  <2> QED  BY <2>1, RowUpdates
<1>4. Moved' = Moved
  BY <1>1 DEF Moved, KeysOf
<1>5. Balances' = Balances
  BY <1>3 DEF Balances
<1>6. Freezes' = Freezes
  BY <1>3 DEF Freezes
<1> QED  BY <1>4, <1>5, <1>6

\* A freeze is the abstract freeze.
LEMMA SetFrozenMaps ==
  ASSUME IInv, NEW w \in Wallets, NEW f \in BOOLEAN, SetFrozen(w, f)
  PROVE  Acc!SetFrozen(w, f)
<1>1. entries' = entries /\ wallets' = [wallets EXCEPT ![w] = Frozen(@, f)]
  BY DEF SetFrozen
<1>2. wallets[w] \in Row /\ wallets'[w] = Frozen(wallets[w], f)
      /\ \A x \in Wallets : x # w => wallets'[x] = wallets[x]
  BY <1>1 DEF IInv, TypeOK
<1>3. wallets'[w].available = wallets[w].available /\ wallets'[w].frozen = f
  BY <1>2, RowUpdates
<1>4. Balances' = Balances
  BY <1>2, <1>3 DEF Balances
<1>5. Freezes' = [Freezes EXCEPT ![w] = f]
  BY <1>2, <1>3 DEF Freezes
<1>6. Moved' = Moved
  BY <1>1 DEF Moved, KeysOf
<1> QED  BY <1>4, <1>5, <1>6 DEF Acc!SetFrozen, Balances, Freezes, Moved

\* A step of the wallet module is a step of Accounts or leaves it as it is.
LEMMA StepMaps == IInv /\ [Next]_vars => [Acc!Next]_<<Balances, Freezes, Moved>>
<1> SUFFICES ASSUME IInv, [Next]_vars PROVE [Acc!Next]_<<Balances, Freezes, Moved>>
  OBVIOUS
<1>1. CASE UNCHANGED vars
  BY <1>1 DEF vars, Balances, Freezes, Moved, KeysOf
<1>2. ASSUME NEW c \in Clients, Commit(c) PROVE Acc!Next
  BY <1>2, CommitMoves DEF Acc!Next, Balances
<1>3. ASSUME NEW w \in Wallets, NEW f \in BOOLEAN, SetFrozen(w, f) PROVE Acc!Next
  BY <1>3, SetFrozenMaps DEF Acc!Next
<1>4. ASSUME NEW c \in Clients,
             Resolve(c) \/ Lock(c) \/ Decide(c) \/ Reply(c) \/ Crash(c) \/ \E i \in Intents : Call(c, i)
      PROVE  UNCHANGED <<Balances, Freezes, Moved>>
  BY <1>4, OtherStepsHide
<1> QED  BY <1>1, <1>2, <1>3, <1>4 DEF Next, Step

\* The wallet module implements Accounts: whatever callers, crashes and freezes
\* interleave, seen from outside money moves in single steps, once per key.
THEOREM WalletImplementsAccounts == Spec => ImplementsAccounts
<1>1. Init => Acc!Init
  <2> SUFFICES ASSUME Init PROVE Acc!Init
    OBVIOUS
  <2>1. \A w \in Wallets : wallets[w] = NoRow /\ KeysOf(w) = {}
    <3>1. 1..Len(<<>>) = {}
      OBVIOUS
    <3> QED  BY <3>1 DEF Init, KeysOf
  <2>2. NoRow.available = 0 /\ NoRow.frozen = FALSE
    BY DEF NoRow
  <2> QED  BY <2>1, <2>2 DEF Acc!Init
<1>2. IInv /\ [Next]_vars => [Acc!Next]_(Acc!accountVars)
  BY StepMaps DEF Acc!accountVars, Balances, Freezes, Moved
<1> QED  BY <1>1, <1>2, WalletInvariant, PTL DEF Spec, ImplementsAccounts, Acc!Spec

-----------------------------------------------------------------------------
(* reconcileWallet, which only reads.  A row and its ledger of one moment are *)
(* consistent: the running sums of its SQL are the balances the entries       *)
(* record, and the last position is their number.                             *)

BalanceAt(es, n) == IF n = 0 THEN 0 ELSE es[n].balanceAfter

Explains(row, es) ==
  /\ es \in Seq(Entry)
  /\ row.available = BalanceAt(es, Len(es))
  /\ \A m \in 1..Len(es) :
       /\ es[m].seq = m
       /\ es[m].balanceAfter = BalanceAt(es, m - 1) + es[m].amount

\* A finite set of integers has a least element: among its initial segments,
\* ordered by strict inclusion, there is a minimal one.
LEMMA LeastExists ==
  ASSUME NEW S, S \subseteq Int, IsFiniteSet(S), S # {}
  PROVE  \E m \in S : \A n \in S : m <= n
<1> DEFINE Below(k) == {n \in S : n <= k}
<1> DEFINE Belows   == {Below(k) : k \in S}
<1>1. IsWellFoundedOn(StrictSubsetOrdering(S), FiniteSubsetsOf(S))
  BY FS_StrictSubsetOrderingWellFounded
<1>2. Belows \subseteq FiniteSubsetsOf(S)
  <2>1. \A k \in S : Below(k) \in SUBSET S
    OBVIOUS
  <2>2. \A k \in S : IsFiniteSet(Below(k))
    BY <2>1, FS_Subset
  <2> QED  BY <2>1, <2>2 DEF FiniteSubsetsOf
<1>3. Belows # {}
  OBVIOUS
<1>4. PICK T \in Belows : \A U \in Belows : ~(<<U, T>> \in StrictSubsetOrdering(S))
  <2> HIDE DEF Belows
  <2> QED  BY <1>1, <1>2, <1>3, WFMin
<1>5. PICK m \in S : T = Below(m)
  BY <1>4
<1>6. ASSUME NEW n \in S, n < m
      PROVE  FALSE
  <2>1. m \in Int /\ n \in Int /\ \A k \in S : k \in Int
    OBVIOUS
  <2>2. /\ \A k \in S : k <= n => k <= m
        /\ ~(m <= n) /\ m <= m
    BY <1>6, <2>1
  <2>3. Below(n) \subseteq Below(m) /\ m \notin Below(n) /\ m \in Below(m)
    BY <2>2
  <2>4. <<Below(n), Below(m)>> \in StrictSubsetOrdering(S)
    BY <2>3 DEF StrictSubsetOrdering
  <2> QED  BY <1>4, <1>5, <1>6, <2>4
<1>7. m \in Int /\ \A n \in S : n \in Int
  OBVIOUS
<1> QED  BY <1>6, <1>7

\* A sum over a ledger is what its equation says, if anything is.
LEMMA SumIsUnique ==
  ASSUME NEW es, Len(es) \in Nat, NEW S, NEW g,
         g = [n \in 0..Len(es) |-> IF n = 0 THEN 0
                                   ELSE g[n-1] + (IF n \in S THEN es[n].amount ELSE 0)]
  PROVE  SumOf(es, S) = g[Len(es)]
<1> DEFINE N == Len(es)
           A(n) == IF n \in S THEN es[n].amount ELSE 0
           F(f) == [n \in 0..N |-> IF n = 0 THEN 0 ELSE f[n-1] + A(n)]
           f == CHOOSE f : f = F(f)
<1>1. f = F(f)
  <2>1. g = F(g)
    OBVIOUS
  <2> HIDE DEF F
  <2> QED  BY <2>1
<1>2. \A n \in 0..N : f[n] = g[n]
  <2> DEFINE Bad == {n \in 0..N : f[n] # g[n]}
  <2> SUFFICES ASSUME Bad # {} PROVE FALSE
    OBVIOUS
  <2>1. Bad \in SUBSET (0..N) /\ N \in Int /\ 0 \in Int
    OBVIOUS
  <2>2. IsFiniteSet(Bad) /\ Bad \subseteq Int
    <3> HIDE DEF Bad
    <3>1. IsFiniteSet(0..N)
      BY <2>1, FS_Interval
    <3>2. IsFiniteSet(Bad)
      BY <2>1, <3>1, FS_Subset
    <3> QED  BY <2>1, <3>2
  <2>3. PICK m \in Bad : \A n \in Bad : m <= n
    <3> HIDE DEF Bad
    <3> QED  BY <2>2, LeastExists
  <2> HIDE DEF f
  <2>4. m \in 0..N /\ f[m] # g[m]
    OBVIOUS
  <2>5. CASE m = 0
    BY <2>4, <2>5, <1>1
  <2>6. CASE m # 0
    <3>1. m - 1 \in 0..N /\ ~(m <= m - 1)
      BY <2>4, <2>6
    <3>2. f[m-1] = g[m-1]
      BY <2>3, <3>1
    <3>3. f[m] = f[m-1] + A(m)
      BY <1>1, <2>4, <2>6
    <3>4. g[m] = g[m-1] + A(m)
      BY <2>4, <2>6
    <3> QED  BY <2>4, <3>2, <3>3, <3>4
  <2> QED  BY <2>5, <2>6
<1>3. SumOf(es, S) = f[N]
  BY DEF SumOf
<1> QED  BY <1>2, <1>3

\* Where every entry records the balance before it plus its amount, the amounts up
\* to a position add up to the balance recorded there.
LEMMA SumsAreBalances ==
  ASSUME NEW row, NEW es, Explains(row, es), NEW n \in 0..Len(es)
  PROVE  SumOf(es, 1..n) = BalanceAt(es, n)
<1> DEFINE N == Len(es)
           S == 1..n
           g == [k \in 0..N |-> BalanceAt(es, IF k <= n THEN k ELSE n)]
<1>1. N \in Nat /\ n \in Nat /\ n <= N
  BY DEF Explains
<1>2. ASSUME NEW k \in 1..N
      PROVE  es[k].amount \in Int /\ es[k].balanceAfter = BalanceAt(es, k - 1) + es[k].amount
             /\ BalanceAt(es, k - 1) \in Int
  <2>1. es[k] \in Entry /\ (k # 1 => es[k-1] \in Entry)
    BY DEF Explains
  <2>2. BalanceAt(es, k - 1) \in Int
    BY <2>1 DEF BalanceAt, Entry
  <2> QED  BY <2>1, <2>2 DEF Explains, Entry
<1>3. ASSUME NEW k \in 0..N
      PROVE  g[k] = IF k = 0 THEN 0 ELSE g[k-1] + (IF k \in S THEN es[k].amount ELSE 0)
  <2>1. CASE k = 0
    BY <2>1, <1>1 DEF BalanceAt
  <2>2. CASE k # 0 /\ k <= n
    <3>1. k \in 1..N /\ k - 1 \in 0..N /\ k - 1 <= n /\ k \in S
      BY <2>2, <1>1
    <3>2. g[k] = BalanceAt(es, k) /\ g[k-1] = BalanceAt(es, k - 1)
      BY <2>2, <3>1
    <3>3. BalanceAt(es, k) = es[k].balanceAfter
      BY <2>2 DEF BalanceAt
    <3> HIDE DEF g, S
    <3> QED  BY <2>2, <3>1, <3>2, <3>3, <1>2
  <2>3. CASE k # 0 /\ ~(k <= n)
    <3>1. k \in 1..N /\ k - 1 \in 0..N /\ k \notin S
      BY <2>3, <1>1
    <3>2. (IF k <= n THEN k ELSE n) = n /\ (IF k - 1 <= n THEN k - 1 ELSE n) = n
      BY <2>3, <1>1
    <3>3. g[k] = BalanceAt(es, n) /\ g[k-1] = BalanceAt(es, n)
      BY <3>1, <3>2
    <3>4. BalanceAt(es, n) \in Int
      <4>1. CASE n = 0
        BY <4>1 DEF BalanceAt
      <4>2. CASE n # 0
        <5>1. n \in 1..N
          BY <4>2, <1>1
        <5>2. es[n] \in Entry
          BY <5>1 DEF Explains
        <5> QED  BY <4>2, <5>2 DEF BalanceAt, Entry
      <4> QED  BY <4>1, <4>2
    <3> HIDE DEF g, S
    <3> QED  BY <2>3, <3>1, <3>3, <3>4
  <2> QED  BY <2>1, <2>2, <2>3
<1>4. g = [k \in 0..Len(es) |-> IF k = 0 THEN 0
                                ELSE g[k-1] + (IF k \in S THEN es[k].amount ELSE 0)]
  <2>1. g = [k \in 0..N |-> g[k]]
    OBVIOUS
  <2> HIDE DEF g
  <2> QED  BY <1>3, <2>1
<1>5. g[N] = BalanceAt(es, n)
  <2>1. (IF N <= n THEN N ELSE n) = n /\ N \in 0..N
    BY <1>1
  <2> QED  BY <2>1
<1> HIDE DEF g, S
<1>6. SumOf(es, S) = g[Len(es)]
  BY <1>1, <1>4, SumIsUnique
<1> QED  BY <1>5, <1>6 DEF S

\* A row and its ledger of one moment are found consistent.
LEMMA ExplainedIsConsistent ==
  ASSUME NEW row, NEW es, Explains(row, es)
  PROVE  Consistent(row, es)
<1> DEFINE N == Len(es)
<1>1. N \in Nat /\ DOMAIN es = 1..N
  BY DEF Explains
<1>2. \A n \in 0..N : SumOf(es, 1..n) = BalanceAt(es, n)
  BY SumsAreBalances
<1>3. SumLedger(es) = row.available
  <2>1. SumOf(es, 1..N) = BalanceAt(es, N)
    BY <1>1, <1>2
  <2> QED  BY <1>1, <2>1 DEF SumLedger, Explains
<1>4. RunningBalanceBreaks(es) = {}
  <2> SUFFICES ASSUME NEW n \in 1..N
               PROVE  es[n].balanceAfter = SumOf(es, {m \in DOMAIN es : es[m].seq <= es[n].seq})
    BY <1>1 DEF RunningBalanceBreaks
  <2>1. \A m \in 1..N : es[m].seq = m
    BY DEF Explains
  <2>2. {m \in DOMAIN es : es[m].seq <= es[n].seq} = 1..n
    BY <1>1, <2>1
  <2>3. n \in 0..N /\ n # 0
    BY <1>1
  <2>4. SumOf(es, 1..n) = es[n].balanceAfter
    BY <1>2, <2>3 DEF BalanceAt
  <2> QED  BY <2>2, <2>4
<1>5. SequenceGaps(es) = 0
  <2>1. CASE es = <<>>
    BY <2>1 DEF SequenceGaps
  <2>2. CASE es # <<>>
    <3>1. N # 0
      BY <2>2, <1>1 DEF Explains
    <3>2. \A m \in 1..N : es[m].seq = m
      BY DEF Explains
    <3>3. {es[n].seq : n \in DOMAIN es} = 1..N
      BY <1>1, <3>2
    <3>4. Max(1..N) = N
      <4>1. N \in 1..N /\ \A y \in 1..N : N >= y
        BY <1>1, <3>1
      <4>2. ASSUME NEW x \in 1..N, \A y \in 1..N : x >= y
            PROVE  x = N
        <5> HIDE DEF N
        <5>1. x >= N /\ x <= N /\ x \in Int
          BY <4>1, <4>2
        <5> QED  BY <5>1, <1>1
      <4> QED  BY <4>1, <4>2 DEF Max
    <3>5. SequenceGaps(es) = Max(1..N) - N
      BY <2>2, <3>3 DEF SequenceGaps
    <3> QED  BY <3>4, <3>5, <1>1
  <2> QED  BY <2>1, <2>2
<1> QED  BY <1>3, <1>4, <1>5 DEF Consistent

SnapshotsOfOneMoment ==
  \A w \in Wallets :
    /\ report[w] \in {"none", "consistent"}
    /\ snapshot[w].taken => Explains(snapshot[w].row, snapshot[w].ledger)

ReportsTyped ==
  /\ snapshot \in [Wallets -> [taken : BOOLEAN, row : Row, ledger : Seq(Entry)]]
  /\ report \in [Wallets -> {"none", "consistent", "inconsistent"}]

RInv == IInv /\ ReportsTyped /\ SnapshotsOfOneMoment

LEMMA RowsAreExplained ==
  ASSUME IInv, NEW w \in Wallets
  PROVE  Explains(wallets[w], entries[w])
<1> DEFINE es == entries[w]
<1>1. es \in Seq(Entry)
  BY DEF IInv, TypeOK
<1>2. /\ wallets[w].available = IF Len(es) = 0 THEN 0 ELSE es[Len(es)].balanceAfter
      /\ \A m \in 1..Len(es) :
           /\ es[m].seq = m
           /\ es[m].balanceAfter = (IF m = 1 THEN 0 ELSE es[m-1].balanceAfter) + es[m].amount
  BY DEF IInv, LedgerExplainsBalance
<1>3. Len(es) \in Nat
  BY <1>1
<1> HIDE DEF es
<1>4. \A m \in 1..Len(es) : BalanceAt(es, m - 1) = IF m = 1 THEN 0 ELSE es[m-1].balanceAfter
  BY <1>3 DEF BalanceAt
<1>5. Explains(wallets[w], es)
  BY <1>1, <1>2, <1>4 DEF Explains, BalanceAt
<1> QED  BY <1>5 DEF es

LEMMA ReconciliationStarts == RInit => RInv
<1> SUFFICES ASSUME RInit PROVE RInv
  OBVIOUS
<1>1. NoRow \in Row
  BY DEF NoRow, Row
<1>2. None \in [taken : BOOLEAN, row : Row, ledger : Seq(Entry)] /\ ~None.taken
  BY <1>1 DEF None
<1>3. ReportsTyped
  BY <1>2 DEF RInit, ReportsTyped
<1>4. SnapshotsOfOneMoment
  BY <1>2 DEF RInit, SnapshotsOfOneMoment
<1> QED  BY <1>3, <1>4, InitInv DEF RInit, RInv

LEMMA ReadWalletKeeps ==
  ASSUME RInv, NEW w \in Wallets, ReadWallet(w)
  PROVE  RInv'
<1> DEFINE s == [taken |-> TRUE, row |-> wallets[w], ledger |-> entries[w]]
<1>1. IInv' /\ report' = report
  BY StutterInv DEF ReadWallet, RInv
<1>2. /\ s \in [taken : BOOLEAN, row : Row, ledger : Seq(Entry)]
      /\ s.row = wallets[w] /\ s.ledger = entries[w]
  BY DEF RInv, IInv, TypeOK
<1>3. snapshot' = [snapshot EXCEPT ![w] = s]
  BY DEF ReadWallet
<1> HIDE DEF s
<1>4. ReportsTyped'
  BY <1>1, <1>2, <1>3 DEF RInv, ReportsTyped
<1>5. \A v \in Wallets : snapshot'[v] = IF v = w THEN s ELSE snapshot[v]
  BY <1>3 DEF RInv, ReportsTyped
<1>6. Explains(s.row, s.ledger)
  BY <1>2, RowsAreExplained DEF RInv
<1>7. SnapshotsOfOneMoment'
  <2> SUFFICES ASSUME NEW v \in Wallets
               PROVE  /\ report'[v] \in {"none", "consistent"}
                      /\ snapshot'[v].taken => Explains(snapshot'[v].row, snapshot'[v].ledger)
    BY DEF SnapshotsOfOneMoment, Explains, BalanceAt
  <2>1. report'[v] \in {"none", "consistent"}
    BY <1>1 DEF RInv, SnapshotsOfOneMoment
  <2>2. CASE v = w
    BY <2>1, <2>2, <1>5, <1>6
  <2>3. CASE v # w
    <3>1. snapshot'[v] = snapshot[v]
      BY <2>3, <1>5
    <3>2. snapshot[v].taken => Explains(snapshot[v].row, snapshot[v].ledger)
      BY DEF RInv, SnapshotsOfOneMoment
    <3> QED  BY <2>1, <3>1, <3>2
  <2> QED  BY <2>2, <2>3
<1> QED  BY <1>1, <1>4, <1>7 DEF RInv

LEMMA ReportOnKeeps ==
  ASSUME RInv, NEW w \in Wallets, ReportOn(w)
  PROVE  RInv'
<1>1. IInv'
  BY StutterInv DEF ReportOn, RInv
<1>2. Explains(snapshot[w].row, LedgerRead(w))
  BY DEF ReportOn, RInv, SnapshotsOfOneMoment, LedgerRead
<1>3. Consistent(snapshot[w].row, LedgerRead(w))
  BY <1>2, ExplainedIsConsistent
<1>4. /\ report' = [report EXCEPT ![w] = "consistent"]
      /\ snapshot' = [snapshot EXCEPT ![w] = None]
  BY <1>3 DEF ReportOn
<1>5. NoRow \in Row
  BY DEF NoRow, Row
<1>6. None \in [taken : BOOLEAN, row : Row, ledger : Seq(Entry)] /\ ~None.taken
  BY <1>5 DEF None
<1>7. ReportsTyped'
  BY <1>4, <1>6 DEF RInv, ReportsTyped
<1>8. \A v \in Wallets : /\ report'[v] = IF v = w THEN "consistent" ELSE report[v]
                         /\ snapshot'[v] = IF v = w THEN None ELSE snapshot[v]
  BY <1>4 DEF RInv, ReportsTyped
<1>9. SnapshotsOfOneMoment'
  <2> SUFFICES ASSUME NEW v \in Wallets
               PROVE  /\ report'[v] \in {"none", "consistent"}
                      /\ snapshot'[v].taken => Explains(snapshot'[v].row, snapshot'[v].ledger)
    BY DEF SnapshotsOfOneMoment, Explains, BalanceAt
  <2>1. CASE v = w
    BY <2>1, <1>6, <1>8
  <2>2. CASE v # w
    <3>1. snapshot'[v] = snapshot[v] /\ report'[v] = report[v]
      BY <2>2, <1>8
    <3>2. /\ report[v] \in {"none", "consistent"}
          /\ snapshot[v].taken => Explains(snapshot[v].row, snapshot[v].ledger)
      BY DEF RInv, SnapshotsOfOneMoment
    <3> QED  BY <3>1, <3>2
  <2> QED  BY <2>1, <2>2
<1> QED  BY <1>1, <1>7, <1>9 DEF RInv

LEMMA ReconciliationSteps == RInv /\ [RNext]_<<vars, rvars>> => RInv'
<1> SUFFICES ASSUME RInv, [RNext]_<<vars, rvars>> PROVE RInv'
  OBVIOUS
<1>1. ASSUME NEW w \in Wallets, ReadWallet(w)
      PROVE  RInv'
  BY <1>1, ReadWalletKeeps
<1>2. ASSUME NEW w \in Wallets, ReportOn(w)
      PROVE  RInv'
  BY <1>2, ReportOnKeeps
<1>3. CASE [Next]_vars /\ UNCHANGED rvars
  <2>1. IInv'
    BY <1>3, NextInv DEF RInv
  <2>2. snapshot' = snapshot /\ report' = report
    BY <1>3 DEF rvars
  <2>3. ReportsTyped'
    BY <2>2 DEF RInv, ReportsTyped
  <2>4. SnapshotsOfOneMoment'
    <3> SUFFICES ASSUME NEW v \in Wallets
                 PROVE  /\ report'[v] \in {"none", "consistent"}
                        /\ snapshot'[v].taken => Explains(snapshot'[v].row, snapshot'[v].ledger)
      BY DEF SnapshotsOfOneMoment, Explains, BalanceAt
    <3> QED  BY <2>2 DEF RInv, SnapshotsOfOneMoment
  <2> QED  BY <2>1, <2>3, <2>4 DEF RInv
<1> QED  BY <1>1, <1>2, <1>3 DEF RNext

\* Beside the movements, a check that is running has the row and the ledger of one
\* moment, and no check ever reported anything.
THEOREM ReconciliationInvariant == RSpec => []RInv
BY ReconciliationStarts, ReconciliationSteps, PTL DEF RSpec

\* reconcileWallet never raises a false alarm.
THEOREM ReconciliationIsQuiet == RSpec => []NoFalseAlarm
<1>1. RInv => NoFalseAlarm
  BY DEF RInv, SnapshotsOfOneMoment, NoFalseAlarm
<1> QED  BY <1>1, ReconciliationInvariant, PTL

\* The check changes nothing: beside it the wallet module does what it does alone.
THEOREM ReconciliationOnlyReads == RSpec => Spec
<1>1. RInit => Init
  BY DEF RInit
<1>2. [RNext]_<<vars, rvars>> => [Next]_vars
  BY DEF RNext, ReadWallet, ReportOn
<1> QED  BY <1>1, <1>2, PTL DEF RSpec, Spec
=============================================================================
