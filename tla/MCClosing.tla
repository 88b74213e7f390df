----------------------------- MODULE MCClosing -----------------------------
(***************************************************************************)
(* One auction of the only unit there is, in two stories.  Bidding: it has *)
(* just opened, three users may each choose up to two of the amounts 1 and *)
(* 2, and there are two closers beside the sweeper, which rests.  Queued:  *)
(* it awaits approval; the closers are the sweeper and the handler of the  *)
(* queue's jobs, staff and seller do what they may, the worker may die     *)
(* once, and Redis may be flushed.                                         *)
(***************************************************************************)
EXTENDS Jobs

CONSTANTS a1, p1

MCProductOf == [a \in Auctions |-> p1]
MCCurrency  == [a \in Auctions |-> "USD"]

VARIABLE story

Bidding ==
  /\ story = "bidding"
  /\ status   = [a \in Auctions |-> "live"]
  /\ terms    = [a \in Auctions |-> [starts |-> 1, ends |-> 2]]
  /\ openedAt = [a \in Auctions |-> 1]
  /\ hold     = [a \in Auctions |-> "held"]
  /\ reserved = [p \in Products |-> 1]

Queued ==
  /\ story = "queued"
  /\ status   = [a \in Auctions |-> "pending_approval"]
  /\ terms \in [Auctions -> Terms]
  /\ openedAt = [a \in Auctions |-> Null]
  /\ hold     = [a \in Auctions |-> None]
  /\ reserved = [p \in Products |-> 0]

MCInit ==
  /\ Bidding \/ Queued
  /\ suspendedFrom = [a \in Auctions |-> None]
  /\ closingAt     = [a \in Auctions |-> Null]
  /\ stock         = [p \in Products |-> 1]
  /\ clock         = 1
  /\ EmptyBook
  /\ NothingClosed
  /\ Asleep
  /\ NoJobs

MCNext ==
  /\ \/ story = "bidding" /\ (OtherClosers \/ Elsewhere) /\ UNCHANGED <<sweep, jobVars>>
     \/ story = "queued" /\ JNext
  /\ UNCHANGED story

MCSpec == MCInit /\ [][MCNext]_<<jvars, story>>
=============================================================================
