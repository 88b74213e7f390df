--------------------------- MODULE Reconciliation ---------------------------
(***************************************************************************)
(* `reconcileWallet` of reconciliation.ts, run by the nightly job beside   *)
(* live movements.  It takes no lock: it reads the wallet row and then the *)
(* ledger inside one REPEATABLE READ snapshot, and only reports.           *)
(***************************************************************************)
EXTENDS WalletLedger, FiniteSetsExt

VARIABLES
  snapshot,   \* the rows the running check sees, per wallet, or None
  report      \* the last report on each wallet

rvars == <<snapshot, report>>

None == [taken |-> FALSE, row |-> NoRow, ledger |-> <<>>]

RInit ==
  /\ Init
  /\ snapshot = [w \in Wallets |-> None]
  /\ report   = [w \in Wallets |-> "none"]

\* SUM(amount_minor) over the entries at the positions in S.
SumOf(es, S) ==
  LET sum[n \in 0..Len(es)] ==
        IF n = 0 THEN 0 ELSE sum[n-1] + (IF n \in S THEN es[n].amount ELSE 0)
  IN  sum[Len(es)]

\* sumLedger.
SumLedger(es) == SumOf(es, DOMAIN es)

\* countRunningBalanceBreaks: the replay is in seq order.
RunningBalanceBreaks(es) ==
  {n \in DOMAIN es : es[n].balanceAfter # SumOf(es, {m \in DOMAIN es : es[m].seq <= es[n].seq})}

\* countSequenceGaps: MAX(seq) - COUNT(*).
SequenceGaps(es) ==
  IF es = <<>> THEN 0 ELSE Max({es[n].seq : n \in DOMAIN es}) - Len(es)

Consistent(row, es) ==
  /\ SumLedger(es) = row.available
  /\ RunningBalanceBreaks(es) = {}
  /\ SequenceGaps(es) = 0

\* Mutant of LedgerRead: READ COMMITTED, each statement sees what is committed by then.
BugLedgerRead(w) == entries[w]

\* The ledger as the check reads it: the snapshot its first statement took.
LedgerRead(w) == snapshot[w].ledger

\* BEGIN ISOLATION LEVEL REPEATABLE READ and the first read, which takes the snapshot.
ReadWallet(w) ==
  /\ ~snapshot[w].taken
  /\ wallets[w].exists
  /\ snapshot' = [snapshot EXCEPT ![w] = [taken |-> TRUE, row |-> wallets[w], ledger |-> entries[w]]]
  /\ UNCHANGED <<vars, report>>

\* sumLedger, countRunningBalanceBreaks, countSequenceGaps, and the verdict.
ReportOn(w) ==
  /\ snapshot[w].taken
  /\ report' = [report EXCEPT ![w] = IF Consistent(snapshot[w].row, LedgerRead(w))
                                     THEN "consistent" ELSE "inconsistent"]
  /\ snapshot' = [snapshot EXCEPT ![w] = None]
  /\ UNCHANGED vars

RNext ==
  \/ Next /\ UNCHANGED rvars
  \/ \E w \in Wallets : ReadWallet(w) \/ ReportOn(w)

RSpec == RInit /\ [][RNext]_<<vars, rvars>>

-----------------------------------------------------------------------------
\* A check that runs beside live movements never raises a false alarm: it does
\* not pair a balance with a ledger from another moment.
NoFalseAlarm == \A w \in Wallets : report[w] # "inconsistent"
=============================================================================
