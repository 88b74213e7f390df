-------------------------------- MODULE Jobs --------------------------------
(***************************************************************************)
(* The delayed jobs that open and close auctions on time (worker:          *)
(* auction-scheduler.ts, auction-lifecycle.ts), beside the sweeper.        *)
(*                                                                         *)
(* An approval is announced over Redis after it has committed, and the     *)
(* worker, if it listens by then, reads the times and adds two jobs to a   *)
(* queue, whose ids are fixed: while a job of that id is kept, finished or *)
(* not, another is ignored.  A worker that starts adds the jobs of all     *)
(* auctions ahead, and only then subscribes.  A job that runs asks the     *)
(* same services as the sweeper, which go by the database's clock.         *)
(*                                                                         *)
(* Here staff and sellers do everything but open and close, as the system  *)
(* has it; the one handler of jobs is the closer TheWorker.                *)
(***************************************************************************)
EXTENDS Sweeper

CONSTANTS
  TheWorker,   \* the closer that handles jobs
  Skew         \* how far the worker's clock is ahead of the database's

ASSUME JobsAssumption ==
  TheWorker \in Closers \ {TheSweeper} /\ Skew \in Nat

VARIABLES
  worker,      \* the worker's process: down, adding what is ahead, or subscribed
  announced,   \* auctions whose AUCTION_SCHEDULED is about to be published, or under way
  plans,       \* the calls of scheduleAuction that are under way
  jobs         \* the queue, by id

jobVars == <<worker, announced, plans, jobs>>
jvars   == <<svars, jobVars>>

Ids    == {"open", "close"} \X Auctions
Absent == [at |-> "absent", due |-> 0]

JTypeOK ==
  /\ STypeOK
  /\ worker \in {"down", "starting", "subscribed"}
  /\ announced \subseteq Auctions
  /\ plans \subseteq [auction : Auctions, next : {"open", "close"}, terms : Terms]
  /\ jobs \in [Ids -> [at : {"absent", "delayed", "closed", "deciding", "kept"}, due : Nat]]

NoJobs ==
  /\ worker = "subscribed"
  /\ announced = {} /\ plans = {}
  /\ jobs = [id \in Ids |-> Absent]

-----------------------------------------------------------------------------
\* findScheduledAhead, findLiveAhead.
ScheduledAhead == {a \in Auctions : status[a] = "scheduled" /\ terms[a].starts > clock}
LiveAhead      == {a \in Auctions : status[a] = "live" /\ terms[a].ends > clock}

Plan(a) == [auction |-> a, next |-> "open", terms |-> terms[a]]

\* publishAuctionEvent comes after the commit and nobody waits for it: the message is
\* handled once at most, by a worker that has subscribed, or by nobody.
Hear(a) ==
  /\ a \in announced
  /\ announced' = announced \ {a}
  /\ plans' = IF worker = "subscribed" /\ a \in ScheduledAhead THEN plans \cup {Plan(a)} ELSE plans
  /\ UNCHANGED <<svars, worker, jobs>>

LoseEvent(a) ==
  /\ a \in announced
  /\ announced' = announced \ {a}
  /\ UNCHANGED <<svars, worker, plans, jobs>>

\* catchUpSchedules reads what is ahead.
Boot ==
  /\ worker = "down"
  /\ worker' = "starting"
  /\ plans' = {Plan(a) : a \in ScheduledAhead \cup LiveAhead}
  /\ UNCHANGED <<svars, announced, jobs>>

\* subscribeToLifecycleEvents, when the catch-up has ended.
Subscribe ==
  /\ worker = "starting" /\ plans = {}
  /\ worker' = "subscribed"
  /\ UNCHANGED <<svars, announced, plans, jobs>>

\* scheduleAuction: the job that opens, and then the one that closes.
AddJob(p) ==
  LET id == <<p.next, p.auction>>
      due == IF p.next = "open" THEN p.terms.starts ELSE p.terms.ends
      later == IF p.next = "open" THEN {[p EXCEPT !.next = "close"]} ELSE {}
  IN
  /\ p \in plans
  /\ plans' = (plans \ {p}) \cup later
  /\ jobs' = IF jobs[id].at = "absent" THEN [jobs EXCEPT ![id] = [at |-> "delayed", due |-> due]] ELSE jobs
  /\ UNCHANGED <<svars, worker, announced>>

\* The queue is not to be reached: logged, and left to the sweeper.
Forget(p) ==
  /\ p \in plans /\ worker = "subscribed"
  /\ plans' = plans \ {p}
  /\ UNCHANGED <<svars, worker, announced, jobs>>

-----------------------------------------------------------------------------
JobGoes(id, at) == jobs' = [jobs EXCEPT ![id] = [at |-> at, due |-> 0]]

\* The delay was measured on the worker's clock.
Ready(id) == worker # "down" /\ jobs[id].at = "delayed" /\ jobs[id].due <= clock + Skew

\* Mutant of DatabaseNow: the service goes by the worker's clock.
BugDatabaseNow == clock + Skew

\* databaseNow.
DatabaseNow == clock

\* registerAuctionLifecycle: a job that opens is done when runOpen returns, also if the
\* auction was not due, and stays in the queue as completed.
JobOpens(a) ==
  /\ Ready(<<"open", a>>)
  /\ RunOpen(a, DatabaseNow)
  /\ JobGoes(<<"open", a>>, "kept")
  /\ UNCHANGED <<book, outcome, refunds, closer, sweep, worker, announced, plans>>

JobCloses(a) ==
  /\ Ready(<<"close", a>>)
  /\ RunClose(a, DatabaseNow)
  /\ JobGoes(<<"close", a>>, "closed")
  /\ UNCHANGED <<book, outcome, refunds, closer, sweep, worker, announced, plans>>

\* isNotDue: logged, and the job is done.
JobIsEarly(a) ==
  /\ Ready(<<"close", a>>)
  /\ status[a] = "live" /\ DatabaseNow < terms[a].ends
  /\ JobGoes(<<"close", a>>, "kept")
  /\ UNCHANGED <<svars, worker, announced, plans>>

\* runDecide, and the rest of closeAuction.
JobDecides(a) ==
  /\ jobs[<<"close", a>>].at = "closed" /\ closer[TheWorker] = Resting
  /\ RunDecide(TheWorker, a)
  /\ JobGoes(<<"close", a>>, "deciding")
  /\ UNCHANGED <<sweep, worker, announced, plans>>

JobGoesOn ==
  /\ Decide(TheWorker) \/ ListPayers(TheWorker) \/ Refund(TheWorker)
  /\ UNCHANGED <<sweep, jobVars>>

JobEnds(a) ==
  /\ jobs[<<"close", a>>].at = "deciding" /\ closer[TheWorker] = Resting
  /\ JobGoes(<<"close", a>>, "kept")
  /\ UNCHANGED <<svars, worker, announced, plans>>

\* The services refuse, or the database is not to be reached.  An attempt that throws is
\* made again after a while; attempts are not counted here, any one may be the last.
JobFails(id) ==
  /\ Ready(id) \/ jobs[id].at \in {"closed", "deciding"}
  /\ JobGoes(id, "delayed") \/ JobGoes(id, "kept")
  /\ closer' = IF jobs[id].at = "deciding" THEN Without({TheWorker}) ELSE closer
  /\ UNCHANGED <<bookVars, outcome, refunds, sweep, worker, announced, plans>>

\* removeOnComplete, removeOnFail: of the finished jobs the queue keeps the last ones.
Trim(id) ==
  /\ jobs[id].at = "kept"
  /\ jobs' = [jobs EXCEPT ![id] = Absent]
  /\ UNCHANGED <<svars, worker, announced, plans>>

-----------------------------------------------------------------------------
\* The worker dies with everything it was doing; a job that was running is run again.
Kill ==
  /\ worker # "down" /\ failures < MaxFailures
  /\ failures' = failures + 1
  /\ worker' = "down" /\ plans' = {}
  /\ jobs' = [id \in Ids |-> IF jobs[id].at \in {"closed", "deciding"} THEN [at |-> "delayed", due |-> 0] ELSE jobs[id]]
  /\ closer' = Without({TheWorker, TheSweeper})
  /\ pass' = "rest" /\ work' = NoWork
  /\ UNCHANGED <<bookVars, outcome, refunds, announced>>

\* Redis loses what it holds.
Flush ==
  /\ jobs' = [id \in Ids |-> Absent]
  /\ announced' = {}
  /\ UNCHANGED <<svars, worker, plans>>

\* approve commits, and is about to be announced.
ApproveAuction(a) ==
  /\ Approve(a)
  /\ announced' = announced \cup {a}
  /\ UNCHANGED <<book, outcome, refunds, closer, sweep, worker, plans, jobs>>

\* All else that sellers and staff do to an auction.
StaffStep(a) ==
  /\ \/ \E t \in Terms : UpdateTerms(a, t)
     \/ Submit(a) \/ Reject(a) \/ Suspend(a) \/ Resume(a) \/ Cancel(a)
  /\ UNCHANGED <<book, outcome, refunds, closer, sweep, jobVars>>

JobStep ==
  \/ \E a \in Auctions :
       Hear(a) \/ LoseEvent(a) \/ JobOpens(a) \/ JobCloses(a) \/ JobIsEarly(a) \/ JobDecides(a) \/ JobEnds(a)
  \/ Subscribe \/ JobGoesOn
  \/ \E p \in plans : AddJob(p) \/ Forget(p)
  \/ \E id \in Ids : JobFails(id) \/ Trim(id)

\* The sweep runs in the same process.
Sweeps == worker # "down" /\ SweeperStep /\ UNCHANGED jobVars

JNext ==
  \/ JobStep \/ Boot \/ Kill \/ Flush \/ Sweeps
  \/ \E a \in Auctions : ApproveAuction(a) \/ StaffStep(a)
  \/ Tick /\ UNCHANGED <<book, outcome, refunds, closer, sweep, jobVars>>

\* No job has to run.
JSpec == SInit /\ NoJobs /\ [][JNext]_jvars

-----------------------------------------------------------------------------
\* Jobs that are early or late by the worker's clock, made for other times, run twice, or
\* run half and then again, do to auctions, results and fees no more than Sweeper leaves
\* to the closers beside it; so what it promises does not depend on the queue.
JobsAreClosers == [][SNext]_svars

\* docs/auctions.md, "Precise jobs": "one to open at starts_at".  TLC refutes it: the terms
\* of a scheduled auction may be edited, and the job with its fixed id stays as it was.
JobsArePrecise ==
  \A a \in Auctions :
    status[a] = "scheduled" /\ jobs[<<"open", a>>].at = "delayed" => jobs[<<"open", a>>].due = terms[a].starts
=============================================================================
