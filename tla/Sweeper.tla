------------------------------ MODULE Sweeper ------------------------------
(***************************************************************************)
(* The repeating job of the worker (runSweep of auction-lifecycle.ts) that *)
(* repairs what the scheduled jobs missed.  It asks the database what is   *)
(* due, four times over, and calls the same services as everybody else, so *)
(* it is one of the closers of the module Closing; here are its lists, and *)
(* the promise that with it alone running nothing is left undone.          *)
(*                                                                         *)
(* The scheduled jobs live in Redis, which may lose them: the other        *)
(* closers may do anything or nothing.                                     *)
(***************************************************************************)
EXTENDS Closing

CONSTANTS
  TheSweeper,    \* the closer that sweeps
  Batch,         \* SWEEP_BATCH: how many auctions one list may name
  MaxFailures    \* bound: how often the sweeper fails

ASSUME SweeperAssumption == TheSweeper \in Closers /\ Batch \in Nat \ {0} /\ MaxFailures \in Nat

VARIABLES
  pass,      \* where runSweep is
  work,      \* what is left of its lists
  failures

sweep == <<pass, work, failures>>
svars == <<kvars, sweep>>

Lists == {"open", "close", "decide", "refund"}
NoWork == [l \in Lists |-> {}]

STypeOK ==
  /\ KTypeOK
  /\ pass \in {"rest", "due"} \cup Lists
  /\ work \in [Lists -> SUBSET Auctions]
  /\ failures \in 0..MaxFailures

Asleep == pass = "rest" /\ work = NoWork /\ failures = 0

SInit == KInit /\ Asleep

-----------------------------------------------------------------------------
\* findDueToOpen.
DueToOpen == {a \in Auctions : status[a] = "scheduled" /\ terms[a].starts <= clock}

\* Mutant of DueToClose: an auction is not due at its deadline, only after it.
BugDueToClose == {a \in Auctions : status[a] = "live" /\ terms[a].ends < clock}

\* findDueToClose.
DueToClose == {a \in Auctions : status[a] = "live" /\ terms[a].ends <= clock}

\* Mutant of AwaitingResult: an auction that somebody began to decide is left to them.
BugAwaitingResult ==
  {a \in Auctions : ResultOf(a) = {} /\ (status[a] = "closing" \/ (status[a] = "cancelled" /\ BidsIn(a) # {}))}

\* findAuctionsAwaitingResult.
AwaitingResult ==
  {a \in Auctions : /\ ResultOf(a) = {}
                    /\ \/ status[a] \in {"closing", "calculating"}
                       \/ status[a] = "cancelled" /\ BidsIn(a) # {}}

\* findAuctionsWithUnpaidRefunds.
WithUnpaidRefunds ==
  {a \in Auctions : /\ \E r \in ResultOf(a) : Owes(r)
                    /\ \E u \in Users : paid[a][u] > 0 /\ ~Returned(a, u)}

\* LIMIT.  The lists are ordered by age; here any choice of so many may be made.
Some(S) == {T \in SUBSET S : Cardinality(T) = IF Cardinality(S) < Batch THEN Cardinality(S) ELSE Batch}

-----------------------------------------------------------------------------
Free == closer[TheSweeper] = Resting

Done(l, a) == work' = [work EXCEPT ![l] = @ \ {a}]

\* From one list of runSweep to the next, which is read now.
Reads(from, to, list, S) ==
  /\ pass = from /\ Free
  /\ \A l \in Lists : from = l => work[l] = {}
  /\ pass' = to
  /\ \E T \in Some(S) : work' = [work EXCEPT ![list] = T]
  /\ UNCHANGED <<kvars, failures>>

\* runOpen, when the database says it is `now`: the auction is opened or cancelled, or is
\* live already, or it is not due; of any other status it is an error.
RunOpen(a, now) ==
  \/ Open(a, now)
  \/ (status[a] = "live" \/ (status[a] = "scheduled" /\ now < terms[a].starts)) /\ UNCHANGED vars

OpenThrows(a) == status[a] \notin {"scheduled", "live"}

OpenNext(a) ==
  /\ pass = "open" /\ a \in work.open
  /\ RunOpen(a, clock) \/ (OpenThrows(a) /\ UNCHANGED vars)
  /\ Done("open", a)
  /\ UNCHANGED <<book, outcome, refunds, closer, pass, failures>>

\* runClose, up to its second call: the auction is closed now or was before.
RunClose(a, now) ==
  \/ Close(a, now)
  \/ status[a] \in {"closing", "calculating", "completed"} /\ UNCHANGED vars

CloseThrows(a) == status[a] \notin {"live", "closing", "calculating", "completed"}

\* An auction that is closed is decided next.
CloseNext(a) ==
  /\ pass = "close" /\ Free
  /\ a \in work.close /\ work.decide = {}
  /\ \/ /\ RunClose(a, clock)
        /\ work' = [work EXCEPT !.close = @ \ {a}, !.decide = {a}]
     \/ /\ CloseThrows(a)
        /\ Done("close", a)
        /\ UNCHANGED vars
  /\ UNCHANGED <<book, outcome, refunds, closer, pass, failures>>

\* runDecide: what is left to do of closeAuction, which may be nothing, or refuses.
RunDecide(c, a) ==
  \/ BeginClosing(c, a)
  \/ ResumeClosing(c, a)
  \/ status[a] = "completed" /\ StartRefunds(c, a)
  \/ /\ status[a] \notin {"closing", "calculating", "cancelled"}
     /\ status[a] = "completed" => \A r \in ResultOf(a) : ~Owes(r)
     /\ UNCHANGED kvars

\* Of an auction just closed, or of the third list.
DecideNext(a) ==
  /\ a \in work.decide /\ Free
  /\ RunDecide(TheSweeper, a)
  /\ Done("decide", a)
  /\ UNCHANGED <<pass, failures>>

\* sweepOutstandingRefunds.
RefundNext(a) ==
  /\ pass = "refund" /\ a \in work.refund
  /\ StartRefunds(TheSweeper, a)
  /\ Done("refund", a)
  /\ UNCHANGED <<pass, failures>>

\* Inside closeAuction or refundParticipationFees.
GoesOn ==
  /\ Decide(TheSweeper) \/ ListPayers(TheSweeper) \/ Refund(TheSweeper)
  /\ UNCHANGED sweep

\* An exception ends the work on one auction, or the worker dies with its lists, and
\* with the jobs that it was handling.
Fails ==
  /\ failures < MaxFailures
  /\ failures' = failures + 1
  /\ \/ closer' = Without({TheSweeper}) /\ UNCHANGED <<pass, work>>
     \/ /\ \E others \in SUBSET Closers : closer' = Without(others \cup {TheSweeper})
        /\ pass' = "rest" /\ work' = NoWork
  /\ UNCHANGED <<bookVars, outcome, refunds>>

SweeperStep ==
  \/ Reads("rest", "due", "open", DueToOpen)
  \/ Reads("due", "open", "close", DueToClose)
  \/ pass = "open" /\ work.open = {} /\ pass' = "close" /\ UNCHANGED <<kvars, work, failures>>
  \/ work.decide = {} /\ Reads("close", "decide", "decide", AwaitingResult)
  \/ Reads("decide", "refund", "refund", WithUnpaidRefunds)
  \/ pass = "refund" /\ work.refund = {} /\ Free /\ pass' = "rest" /\ UNCHANGED <<kvars, work, failures>>
  \/ \E a \in Auctions : OpenNext(a) \/ CloseNext(a) \/ DecideNext(a) \/ RefundNext(a)
  \/ GoesOn

OtherClosers ==
  \/ \E c \in Closers \ {TheSweeper} : CloserStep(c)
  \/ \E dead \in SUBSET (Closers \ {TheSweeper}) : Interrupt(dead)

SNext ==
  \/ SweeperStep
  \/ Fails
  \/ (OtherClosers \/ Elsewhere) /\ UNCHANGED sweep

\* The sweep is scheduled again every 30 seconds, also after a restart, and one
\* sweep runs at a time (concurrency 1); nothing else has to happen.
SSpec == SInit /\ [][SNext]_svars /\ WF_svars(SweeperStep)

-----------------------------------------------------------------------------
\* Nothing waits for ever: what is due is opened or closed, whatever was lost
\* from the queue, unless somebody suspends, edits or cancels it first.
DueIsActedOn ==
  \A a \in Auctions :
    /\ (status[a] = "scheduled" /\ clock >= terms[a].starts)
         ~> ~(status[a] = "scheduled" /\ clock >= terms[a].starts)
    /\ (status[a] = "live" /\ clock >= terms[a].ends) ~> status[a] # "live"

\* An auction has ended for good, and somebody bid on it or waits for its result.
Ended(a) == status[a] \in {"closing", "calculating"} \/ (status[a] = "cancelled" /\ BidsIn(a) # {})

Settled(a) ==
  \/ \E r \in ResultOf(a) :
       r.outcome \in {"no_unique_bid", "cancelled"} => \A u \in Users : paid[a][u] > 0 => refunds[a][u] # <<>>
  \/ status[a] = "cancelled" /\ BidsIn(a) = {}

\* No auction is left undecided and no fee unreturned, wherever the closers died:
\* between the two transactions, after the decision, or between two refunds.
EverythingIsSettled == \A a \in Auctions : Ended(a) ~> Settled(a)
=============================================================================
