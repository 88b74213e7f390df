------------------------------- MODULE Codes -------------------------------
(***************************************************************************)
(* One phone number's one-time codes and the account behind it             *)
(* (auth.service.ts over auth/repository.ts).                              *)
(*                                                                         *)
(* A challenge is read without a lock and written by its id: a resend      *)
(* replaces the code in the row it found, a right answer consumes the row  *)
(* in the transaction that it authorises, and a wrong one is counted on a  *)
(* connection of its own, because that transaction is about to be rolled   *)
(* back.  The pool has PoolMax connections and waits for one without end.  *)
(***************************************************************************)
EXTENDS Naturals, Sequences, FiniteSets

CONSTANTS
  Callers,      \* requests handled at one time
  Purposes,     \* of "phone_verify", "login", "password_reset"
  MaxAttempts,  \* OTP_MAX_ATTEMPTS
  MaxSends,     \* OTP_MAX_SENDS_PER_CHALLENGE
  LockAfter,    \* LOCK_AFTER_ATTEMPTS
  PoolMax,      \* DATABASE_POOL_MAX
  MaxCodes,     \* bound: codes ever sent
  MaxFailures   \* bound: wrong passwords in a row

ASSUME CodesAssumption ==
  /\ Purposes \subseteq {"phone_verify", "login", "password_reset"}
  /\ {MaxAttempts, MaxSends, LockAfter, PoolMax, MaxCodes, MaxFailures} \subseteq Nat \ {0}
  /\ IsFiniteSet(Callers) /\ Callers # {}

VARIABLES
  rows,        \* otp_challenges, in the order of their insertion
  sent,        \* how many codes were sent: they are numbered
  user,        \* the account of the number
  request,     \* what each request is doing
  accepted,    \* code -> how many requests it authorised that committed
  told         \* code -> how many requests were told that it is not the code

cVars == <<rows, sent, user, request, accepted, told>>

Codes == 1..MaxCodes
Idle  == [at |-> "idle", purpose |-> "login", row |-> 0, code |-> 0]

CodesTypeOK ==
  /\ sent \in 0..MaxCodes
  /\ \A i \in 1..Len(rows) :
       rows[i] \in [purpose : Purposes, code : Codes, attempts : 0..MaxAttempts, sends : 1..MaxCodes,
                    warm : BOOLEAN, expired : BOOLEAN, consumed : BOOLEAN]
  /\ user \in [active : BOOLEAN, failures : 0..MaxFailures, locked : BOOLEAN]
  /\ request \in [Callers -> [at : {"idle", "look", "find", "write", "verify", "count", "exhaust",
                                   "consume", "commit", "password"},
                              purpose : Purposes \cup {"login"}, row : 0..MaxCodes, code : 0..MaxCodes]]
  /\ accepted \in [Codes -> Nat]
  /\ told \in [Codes -> Nat]

CInit ==
  /\ rows = <<>> /\ sent = 0
  /\ user = [active |-> FALSE, failures |-> 0, locked |-> FALSE]
  /\ request = [c \in Callers |-> Idle]
  /\ accepted = [k \in Codes |-> 0]
  /\ told = [k \in Codes |-> 0]

-----------------------------------------------------------------------------
\* findLiveOtp: the unique index leaves at most one row.
FindLiveOtp(purpose) ==
  {i \in 1..Len(rows) : rows[i].purpose = purpose /\ ~rows[i].consumed}

\* The connections that transactions hold between their statements.
InUse == {c \in Callers : request[c].at \in {"verify", "count", "exhaust", "consume", "commit"}}
Connection == Cardinality(InUse) < PoolMax

\* A row that a transaction has updated is locked until it ends.
RowLocked(i) == \E c \in Callers : request[c].at = "commit" /\ request[c].row = i

At(c, at) == request[c].at = at
Goes(c, at) == request' = [request EXCEPT ![c].at = at]
Ends(c)     == request' = [request EXCEPT ![c] = Idle]

-----------------------------------------------------------------------------
Starts(c, at, purpose) ==
  /\ At(c, "idle") /\ purpose \in Purposes
  /\ request' = [request EXCEPT ![c] = [Idle EXCEPT !.at = at, !.purpose = purpose]]
  /\ UNCHANGED <<rows, sent, user, accepted, told>>

\* A code is sent to an account that is not active yet, or to one that is; anybody
\* else gets the same answer and no code.  register's transaction ends with the write.
Register(c)             == ~user.active /\ Starts(c, "look", "phone_verify")
RequestLoginOtp(c)      == user.active /\ Starts(c, "look", "login")
RequestPasswordReset(c) == user.active /\ Starts(c, "look", "password_reset")

\* dispatchOtp: the cooldown, and the number of sends of a challenge.
DispatchOtp(c) ==
  /\ At(c, "look")
  /\ IF \E i \in FindLiveOtp(request[c].purpose) : rows[i].warm \/ rows[i].sends >= MaxSends
     THEN Ends(c)
     ELSE Goes(c, "find")
  /\ UNCHANGED <<rows, sent, user, accepted, told>>

\* upsertOtpChallenge looks for the live challenge once more.
FindChallenge(c) ==
  LET live == FindLiveOtp(request[c].purpose) IN
  /\ At(c, "find")
  /\ \E i \in IF live = {} THEN {0} ELSE live :
       request' = [request EXCEPT ![c] = [@ EXCEPT !.at = "write", !.row = i]]
  /\ UNCHANGED <<rows, sent, user, accepted, told>>

Challenge(purpose, code) ==
  [purpose |-> purpose, code |-> code, attempts |-> 0, sends |-> 1,
   warm |-> TRUE, expired |-> FALSE, consumed |-> FALSE]

\* What a resend makes of the row, which keeps its consumed_at.
Resent(r, code) ==
  [r EXCEPT !.code = code, !.attempts = 0, !.expired = FALSE, !.sends = @ + 1, !.warm = TRUE]

\* upsertOtpChallenge.  The unique index refuses a second live row.
UpsertOtpChallenge(c) ==
  LET q == request[c] IN
  /\ At(c, "write")
  /\ sent < MaxCodes
  /\ IF q.row # 0
     THEN /\ ~RowLocked(q.row)
          /\ rows' = [rows EXCEPT ![q.row] = Resent(@, sent + 1)]
          /\ sent' = sent + 1
     ELSE IF FindLiveOtp(q.purpose) # {}
     THEN UNCHANGED <<rows, sent>>
     ELSE /\ rows' = Append(rows, Challenge(q.purpose, sent + 1))
          /\ sent' = sent + 1
  /\ Ends(c)
  /\ UNCHANGED <<user, accepted, told>>

-----------------------------------------------------------------------------
\* assertNotLocked.
NotLocked == user.active /\ ~user.locked

\* What presents a code does so in a transaction; loginWithOtp looks at the account first.
VerifyPhone(c)   == Connection /\ Starts(c, "verify", "phone_verify")
LoginWithOtp(c)  == Connection /\ NotLocked /\ Starts(c, "verify", "login")
ResetPassword(c) == Connection /\ Starts(c, "verify", "password_reset")

\* verifyOtp, up to its first write: the challenge as it is now, and what was typed,
\* which is some code that was sent, or none.
VerifyOtp(c, guess) ==
  LET live == FindLiveOtp(request[c].purpose) IN
  /\ At(c, "verify")
  /\ \/ live = {} /\ Ends(c)
     \/ \E i \in live :
          request' = [request EXCEPT ![c] =
            IF rows[i].expired \/ rows[i].attempts >= MaxAttempts
            THEN [@ EXCEPT !.row = i, !.at = "exhaust"]
            ELSE [@ EXCEPT !.row = i, !.code = rows[i].code,
                           !.at = IF guess = rows[i].code THEN "consume" ELSE "count"]]
  /\ UNCHANGED <<rows, sent, user, accepted, told>>

Rejected(c) ==
  /\ told' = IF request[c].code = 0 THEN told ELSE [told EXCEPT ![request[c].code] = @ + 1]
  /\ Ends(c)

\* Mutant of IncrementOtpAttempts: counted in the transaction, and rolled back with it.
BugIncrementOtpAttempts(i) == [attempts |-> rows[i].attempts + 1, rows |-> rows]

\* incrementOtpAttempts: the new count.
IncrementOtpAttempts(i) ==
  [attempts |-> rows[i].attempts + 1, rows |-> [rows EXCEPT ![i].attempts = @ + 1]]

\* The wrong answer is counted, on a second connection; the CHECK refuses to count
\* past max_attempts, and the caller is then told that something went wrong.
CountAttempt(c) ==
  LET i == request[c].row
      counted == IncrementOtpAttempts(i) IN
  /\ At(c, "count")
  /\ Connection
  /\ ~RowLocked(i)
  /\ IF rows[i].attempts = MaxAttempts
     THEN Ends(c) /\ UNCHANGED <<rows, told>>
     ELSE /\ rows' = counted.rows
          /\ IF counted.attempts >= MaxAttempts
             THEN Goes(c, "exhaust") /\ UNCHANGED told
             ELSE Rejected(c)
  /\ UNCHANGED <<sent, user, accepted>>

\* exhaustOtp, on a second connection too.
ExhaustOtp(c) ==
  /\ At(c, "exhaust")
  /\ Connection
  /\ ~RowLocked(request[c].row)
  /\ rows' = [rows EXCEPT ![request[c].row] = [@ EXCEPT !.consumed = TRUE, !.attempts = MaxAttempts]]
  /\ Rejected(c)
  /\ UNCHANGED <<sent, user, accepted>>

\* consumeOtp, in the transaction: it waits for the row, and locks it.
ConsumeOtp(c) ==
  /\ At(c, "consume")
  /\ ~RowLocked(request[c].row)
  /\ Goes(c, "commit")
  /\ UNCHANGED <<rows, sent, user, accepted, told>>

\* Mutant of Spent: the code stays good.
BugSpent(i) == rows

\* What the commit makes of the challenge.
Spent(i) == [rows EXCEPT ![i].consumed = TRUE]

\* activateUser; clearLoginFailures.
Activated == [user EXCEPT !.failures = 0, !.locked = FALSE, !.active = TRUE]
Cleared   == [user EXCEPT !.failures = 0, !.locked = FALSE]

\* verifyPhone activates the account; the others clear its failures.
Authorised(purpose) == IF purpose = "phone_verify" THEN Activated ELSE Cleared

\* The challenge is consumed together with what it authorises; consumeOtp does not ask
\* whether it still was to be consumed, or has the code that was compared.
Commit(c) ==
  /\ At(c, "commit")
  /\ rows' = Spent(request[c].row)
  /\ user' = Authorised(request[c].purpose)
  /\ accepted' = [accepted EXCEPT ![request[c].code] = @ + 1]
  /\ Ends(c)
  /\ UNCHANGED <<sent, told>>

\* A statement fails, or the connection or the process is lost: a transaction is
\* rolled back.
Rollback(c) ==
  /\ ~At(c, "idle")
  /\ Ends(c)
  /\ UNCHANGED <<rows, sent, user, accepted, told>>

-----------------------------------------------------------------------------
\* loginWithPassword, up to the comparison, which takes a while.
LoginWithPassword(c) ==
  /\ At(c, "idle")
  /\ NotLocked
  /\ Goes(c, "password")
  /\ UNCHANGED <<rows, sent, user, accepted, told>>

\* recordFailedLogin, one statement.
RecordFailedLogin(c) ==
  /\ At(c, "password")
  /\ user.failures < MaxFailures
  /\ user' = [user EXCEPT !.failures = @ + 1, !.locked = @ \/ user.failures + 1 >= LockAfter]
  /\ Ends(c)
  /\ UNCHANGED <<rows, sent, accepted, told>>

\* The right password.
SignIn(c) ==
  /\ At(c, "password")
  /\ user' = Cleared
  /\ Ends(c)
  /\ UNCHANGED <<rows, sent, accepted, told>>

\* Time: a cooldown ends, a code expires, a lock runs out.
Elapse ==
  /\ \/ \E i \in 1..Len(rows) :
          /\ ~rows[i].consumed
          /\ \/ rows[i].warm /\ rows' = [rows EXCEPT ![i].warm = FALSE]
             \/ ~rows[i].warm /\ ~rows[i].expired /\ rows' = [rows EXCEPT ![i].expired = TRUE]
          /\ UNCHANGED user
     \/ user.locked /\ user' = [user EXCEPT !.locked = FALSE] /\ UNCHANGED rows
  /\ UNCHANGED <<sent, request, accepted, told>>

CodesStep(c) ==
  \/ Register(c) \/ RequestLoginOtp(c) \/ RequestPasswordReset(c)
  \/ VerifyPhone(c) \/ LoginWithOtp(c) \/ ResetPassword(c)
  \/ DispatchOtp(c) \/ FindChallenge(c) \/ UpsertOtpChallenge(c)
  \/ \E guess \in 0..sent : VerifyOtp(c, guess)
  \/ CountAttempt(c) \/ ExhaustOtp(c) \/ ConsumeOtp(c) \/ Commit(c) \/ Rollback(c)
  \/ LoginWithPassword(c) \/ RecordFailedLogin(c) \/ SignIn(c)

CNext == (\E c \in Callers : CodesStep(c)) \/ Elapse

CSpec == CInit /\ [][CNext]_cVars

-----------------------------------------------------------------------------
\* The requests that found a code right and have not ended.
Matched(k) == {c \in Callers : request[c].at \in {"consume", "commit"} /\ request[c].code = k}

\* verifyOtp: a code that has authorised something is in no live challenge, whatever was
\* resent, retried or rolled back beside it.  No request that looks later finds it: only
\* those that had found it right by then may still be authorised, each of them once.
AcceptedIsSpent ==
  \A k \in Codes : accepted[k] > 0 =>
    /\ \A i \in 1..Len(rows) : rows[i].code = k => rows[i].consumed
    /\ accepted[k] + Cardinality(Matched(k)) <= Cardinality(Callers)

\* otp.ts: "One-time codes", and auth.service.ts: "the code must be spent atomically with
\* whatever it authorised".  TLC refutes it with two requests that read the challenge
\* before either consumed it: both spend it, and both are authorised.
CodeIsSpentOnce == \A k \in Codes : accepted[k] <= 1

\* docs/authentication.md, "Attempts: 5, then the challenge is burned": of one code,
\* MaxAttempts answers are refused and, if it was replaced while they were being
\* handled, those that had been compared with it by then.  No rollback takes one back.
GuessesAreBounded == \A k \in Codes : told[k] < MaxAttempts + Cardinality(Callers)

\* bidService.ts, of connections: "every request holding one connection and waiting for
\* a second that only another request could release" would deadlock the pool.
PoolIsNotStuck ==
  ~(/\ Cardinality(InUse) >= PoolMax
    /\ \A c \in InUse : request[c].at \in {"count", "exhaust"})
=============================================================================
