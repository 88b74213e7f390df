------------------------------ MODULE MCWallet ------------------------------
(***************************************************************************)
(* One wallet (wallets do not interact), callers that race a deposit, two  *)
(* bid fees that together exceed it, a reuse of a fee's key for another    *)
(* amount, an unkeyed adjustment, one in the wrong currency and a hold.    *)
(***************************************************************************)
EXTENDS Reconciliation

CONSTANTS w1, c1, c2, k1, k2, k3

Ask(type, amount, key, same) ==
  [wallet |-> w1, type |-> type, amount |-> amount, key |-> key, sameCurrency |-> same]

MCIntents == {
  Ask("deposit", 2, k1, TRUE),
  Ask("bid_fee", 2, k2, TRUE),
  Ask("bid_fee", 1, k3, TRUE),
  Ask("bid_fee", 1, k2, TRUE),
  Ask("admin_debit", 1, NoKey, TRUE),
  Ask("admin_credit", 1, NoKey, FALSE),
  Ask("hold", 1, NoKey, TRUE)}
=============================================================================
