------------------------------ MODULE Accounts ------------------------------
(***************************************************************************)
(* What the wallet module promises to the rest of HOWLOW, with no locks,   *)
(* rows, ledger or clients: an account has a balance and a freeze, and     *)
(* money moves in single steps.  A movement that carries an idempotency    *)
(* key happens at most once, a debit never takes more than there is, and   *)
(* nothing leaves a frozen account.  WalletLedger implements this module.  *)
(***************************************************************************)
EXTENDS Integers

CONSTANTS
  Wallets,   \* wallet identities
  Keys,      \* idempotency keys
  NoKey      \* a movement without a key

VARIABLES
  balance,   \* [Wallets -> Nat]: money that can be spent
  frozen,    \* [Wallets -> BOOLEAN]
  moved      \* [Wallets -> SUBSET Keys]: the keys whose movement happened

accountVars == <<balance, frozen, moved>>

Init ==
  /\ balance = [w \in Wallets |-> 0]
  /\ frozen  = [w \in Wallets |-> FALSE]
  /\ moved   = [w \in Wallets |-> {}]

\* A movement of the signed amount d, once per key.
Move(w, d, k) ==
  /\ d # 0
  /\ k \notin moved[w]
  /\ balance[w] + d >= 0
  /\ d < 0 => ~frozen[w]
  /\ balance' = [balance EXCEPT ![w] = @ + d]
  /\ moved' = [moved EXCEPT ![w] = @ \cup ({k} \ {NoKey})]
  /\ UNCHANGED frozen

\* Finance stops, or lets, money leave the account.
SetFrozen(w, f) ==
  /\ frozen' = [frozen EXCEPT ![w] = f]
  /\ UNCHANGED <<balance, moved>>

\* The amount is existential over what the balance did, so that the next-state
\* relation needs no set of amounts.
Next ==
  \E w \in Wallets :
    \/ \E k \in Keys \cup {NoKey} : Move(w, balance'[w] - balance[w], k)
    \/ \E f \in BOOLEAN : SetFrozen(w, f)

Spec == Init /\ [][Next]_accountVars
=============================================================================
