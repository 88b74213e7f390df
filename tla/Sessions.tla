------------------------------ MODULE Sessions ------------------------------
(***************************************************************************)
(* The sessions of one user: session.service.ts and the revocations that   *)
(* the rest of auth asks of it.  Sessions of different users share nothing.*)
(*                                                                         *)
(* A refresh runs in one SERIALIZABLE transaction, so all it reads is as   *)
(* it was when it first read, and its UPDATE fails if the row has been     *)
(* updated since.  A revocation is one UPDATE in a READ COMMITTED          *)
(* transaction: it picks the rows that are live when it begins, waits for  *)
(* whoever holds one of them, and takes those that are live still.  What a *)
(* transaction writes is seen by nobody before it commits, so the writes   *)
(* and the commit are one step.                                            *)
(*                                                                         *)
(* A token and its session are one: there is one hash per row.  Passwords, *)
(* codes and access tokens are left out.                                   *)
(***************************************************************************)
EXTENDS Integers

CONSTANTS
  Callers,
  Nobody,
  MaxSessions    \* bound: how many rows there may be

ASSUME CallersAssumption == Nobody \notin Callers /\ MaxSessions \in Nat

VARIABLES
  family,     \* sessions.family_id, of the rows that are committed
  revoked,    \* sessions whose revoked_at is set
  next,       \* sessions.replaced_by_session_id
  lock,       \* by row: the transaction that has updated it
  caller      \* what each request is doing

table == <<family, revoked, next>>
vars  == <<table, lock, caller>>

Ids  == 1..MaxSessions
None == 0

\* rotateSession asks withTransaction for one retry.
MaxRetries == 1

Caller == [at : {"idle", "read", "write", "commit", "aim", "revoke", "answered"},
           op : {"none", "login", "refresh", "logout", "revoke_all"},
           token : Ids \cup {None},       \* the token it presents
           fresh : Ids \cup {None},       \* the row it inserts, if it gets so far
           aim : SUBSET Ids,              \* the rows its UPDATE has picked
           attempt : 0..MaxRetries,
           answer : {"none", "token", "reuse", "refused", "failed", "done"}]

TypeOK ==
  /\ family \in [Ids -> Ids \cup {None}]
  /\ revoked \subseteq Ids
  /\ next \in [Ids -> Ids \cup {None}]
  /\ lock \in [Ids -> Callers \cup {Nobody}]
  /\ caller \in [Callers -> Caller]

Idle == [at |-> "idle", op |-> "none", token |-> None, fresh |-> None, aim |-> {},
         attempt |-> 0, answer |-> "none"]

Init ==
  /\ family = [s \in Ids |-> None]
  /\ revoked = {}
  /\ next = [s \in Ids |-> None]
  /\ lock = [s \in Ids |-> Nobody]
  /\ caller = [c \in Callers |-> Idle]

-----------------------------------------------------------------------------
Issued  == {s \in Ids : family[s] # None}
Live    == Issued \ revoked
Kin(f)  == {s \in Issued : family[s] = f}

\* The id of a new row is no row's yet, nor the one that a refresh has set aside.  It
\* is the least such (they are random, so any will do), and there is a bound on them.
New(s) ==
  LET Unused == Ids \ (Issued \cup {caller[c].fresh : c \in Callers})
  IN  s \in Unused /\ \A t \in Unused : s <= t

\* Mutant of Unlocked: the connection goes back to the pool inside its transaction.
BugUnlocked(c) == lock

\* COMMIT or ROLLBACK.
Unlocked(c) == [s \in Ids |-> IF lock[s] = c THEN Nobody ELSE lock[s]]

Answers(c, answer) == [caller[c] EXCEPT !.at = "answered", !.aim = {}, !.answer = answer]

Begins(c, op, t, s, at) ==
  /\ caller[c] = Idle
  /\ caller' = [caller EXCEPT ![c] = [Idle EXCEPT !.at = at, !.op = op, !.token = t, !.fresh = s]]
  /\ UNCHANGED <<table, lock>>

-----------------------------------------------------------------------------
\* issueSession, for a login: a session that founds a family of its own.
Login(c, s) ==
  /\ caller[c] = Idle
  /\ New(s)
  /\ family' = [family EXCEPT ![s] = s]
  /\ caller' = [caller EXCEPT ![c] = [Idle EXCEPT !.at = "answered", !.op = "login",
                                                 !.fresh = s, !.answer = "token"]]
  /\ UNCHANGED <<revoked, next, lock>>

\* rotateSession: any token may come back, at any time and from many callers.
Refresh(c, t, s) == t \in Issued /\ New(s) /\ Begins(c, "refresh", t, s, "read")

\* revokeByRefreshToken: its family does not change, so it may be looked up now.
LogOut(c, t) == t \in Issued /\ Begins(c, "logout", t, None, "aim")

\* revokeAllSessions: logout of all sessions, a changed or a reset password.
RevokeAll(c) == Begins(c, "revoke_all", None, None, "aim")

\* The transaction reads the presented session.  One that is revoked is reuse, and
\* ends the transaction; one that has expired, or whose user is not active, is refused.
Read(c) ==
  /\ caller[c].at = "read"
  /\ IF caller[c].token \in revoked
     THEN caller' = [caller EXCEPT ![c].at = "aim"]
     ELSE \/ caller' = [caller EXCEPT ![c].at = "write"]
          \/ caller' = [caller EXCEPT ![c] = Answers(c, "refused")]
  /\ UNCHANGED <<table, lock>>

\* withTransaction: whether an aborted transaction is tried again.
Again(attempt) == attempt < MaxRetries

\* PostgreSQL aborts the transaction (40001): nothing of it remains.
Abort(c) ==
  /\ caller' = [caller EXCEPT ![c] =
       IF Again(caller[c].attempt)
       THEN [caller[c] EXCEPT !.at = "read", !.attempt = @ + 1]
       ELSE Answers(c, "failed")]
  /\ lock' = Unlocked(c)
  /\ UNCHANGED table

\* Mutant of Stale: the transaction is READ COMMITTED.
BugStale(c) == FALSE

\* The row has been updated since the transaction read it; it was live then, and
\* every UPDATE of a live row sets revoked_at.
Stale(c) == caller[c].token \in revoked

\* The new row, and the UPDATE of the old one, which waits for its lock.
Write(c) ==
  LET t == caller[c].token IN
  /\ caller[c].at = "write"
  /\ lock[t] = Nobody
  /\ ~Stale(c)
  /\ caller' = [caller EXCEPT ![c].at = "commit"]
  /\ lock' = [lock EXCEPT ![t] = c]
  /\ UNCHANGED table

\* The UPDATE finds another version of the row.  The check for serializability may
\* abort the transaction anywhere, too.
Conflict(c) ==
  /\ caller[c].at \in {"write", "commit"}
  /\ Abort(c)

\* Mutant of Linked: the old row is not told what replaced it.
BugLinked(old, new) == next

\* linkRotatedSession.
Linked(old, new) == [next EXCEPT ![old] = new]

\* The commit: the new session is in the family, the old one revoked and linked.
Commit(c) ==
  LET old == caller[c].token
      new == caller[c].fresh
  IN
  /\ caller[c].at = "commit"
  /\ family' = [family EXCEPT ![new] = family[old]]
  /\ revoked' = revoked \cup {old}
  /\ next' = Linked(old, new)
  /\ lock' = Unlocked(c)
  /\ caller' = [caller EXCEPT ![c] = Answers(c, "token")]

\* Mutant of Targets: the presented session only.
BugTargets(c) == IF caller[c].op = "revoke_all" THEN Live ELSE Live \cap {caller[c].token}

\* The WHERE of revokeSessionFamily and of revokeAllUserSessions.
Targets(c) == IF caller[c].op = "revoke_all" THEN Live ELSE Live \cap Kin(family[caller[c].token])

\* The UPDATE begins: it will look at the rows that are live now, and no others.
\* After a reuse this is handleReuse, in a transaction of its own.
Aim(c) ==
  /\ caller[c].at = "aim"
  /\ caller' = [caller EXCEPT ![c].at = "revoke", ![c].aim = Targets(c)]
  /\ UNCHANGED <<table, lock>>

\* It has got hold of all of them and commits; of those that have been rotated
\* meanwhile it sees that they are revoked.
Revoke(c) ==
  /\ caller[c].at = "revoke"
  /\ \A s \in caller[c].aim : lock[s] = Nobody
  /\ revoked' = revoked \cup caller[c].aim
  /\ caller' = [caller EXCEPT ![c] = Answers(c, IF caller[c].op = "refresh" THEN "reuse" ELSE "done")]
  /\ UNCHANGED <<family, next, lock>>

\* The answer arrives, or is lost.
Reply(c) ==
  /\ caller[c].at = "answered"
  /\ caller' = [caller EXCEPT ![c] = Idle]
  /\ UNCHANGED <<table, lock>>

\* The server dies, or loses its connection: nothing that it had not committed remains.
Crash(c) ==
  /\ caller[c].at \notin {"idle", "answered"}
  /\ caller' = [caller EXCEPT ![c] = Idle]
  /\ lock' = Unlocked(c)
  /\ UNCHANGED table

GoesOn(c) == Read(c) \/ Write(c) \/ (Stale(c) /\ Conflict(c)) \/ Commit(c) \/ Aim(c) \/ Revoke(c)

Next ==
  \E c \in Callers :
    \/ \E s \in Ids : Login(c, s) \/ \E t \in Ids : Refresh(c, t, s)
    \/ \E t \in Ids : LogOut(c, t)
    \/ RevokeAll(c)
    \/ GoesOn(c) \/ Conflict(c) \/ Reply(c) \/ Crash(c)

\* A server that is up finishes what it does, and PostgreSQL grants a row lock to its
\* waiters in turn; anything may crash at any time.
Spec == Init /\ [][Next]_vars /\ \A c \in Callers : SF_vars(GoesOn(c))

-----------------------------------------------------------------------------
\* Every family is one chain: its first session, then what replaced it, and so on.
\* Only the last one may be live, and none has two successors or two predecessors,
\* although one token may be presented many times at once.
FamilyIsAChain ==
  /\ \A s, t \in Live : family[s] = family[t] => s = t
  /\ \A s \in Issued : next[s] # None => s \in revoked /\ next[s] \in Kin(family[s]) \ {family[s]}
  /\ \A s \in Issued \ {family[t] : t \in Issued} :
       \E p \in Issued : next[p] = s /\ \A q \in Issued : next[q] = s => q = p

\* What callers are told is so: who gets a token after a refresh has the only one
\* that ever replaced the token presented; who is told of reuse presented a dead
\* token; and who logged out did not keep the session that was live.
AnswersAreTrue ==
  \A c \in Callers :
    LET k == caller[c] IN
    k.at = "answered" =>
      /\ k.answer = "token" => k.fresh \in Issued
      /\ k.answer = "token" /\ k.op = "refresh" => k.token \in revoked /\ next[k.token] = k.fresh
      /\ k.answer \in {"reuse", "done"} /\ k.token # None => k.token \in revoked

Over(f) == Kin(f) \subseteq revoked

\* A revocation during which none of its rows was rotated leaves nothing of the
\* families it was for, whether or not it found them live.
RevocationIsWhole ==
  [][\A c \in Callers :
       LET k    == caller[c]
           hers == {family[s] : s \in IF k.token = None THEN k.aim ELSE {k.token}}
       IN
       k.at = "revoke" /\ caller'[c].at = "answered" /\ (\A s \in k.aim : next[s] = None)
         => \A f \in hers : Over(f)']_vars

\* Nobody waits for ever, although a refresh and a revocation wait for each other's rows.
EveryoneIsAnswered == \A c \in Callers : caller[c].at # "idle" ~> caller[c].at \in {"idle", "answered"}

\* The sessions are the families that docs/authentication.md promises: a token is
\* exchanged once, and no refresh that was under way revives a family that ended.
TheOne(S) == CHOOSE s \in S : TRUE
Current == [f \in Ids |-> IF Kin(f) \ revoked = {} THEN None ELSE TheOne(Kin(f) \ revoked)]
Promise == INSTANCE TokenFamilies WITH issued <- Issued, current <- Current
ImplementsFamilies == Promise!FSpec

\* docs/authentication.md, "Reuse detection" and session.service.ts: whoever is told
\* of reuse, or has logged out, has ended the whole family.
RevokedFamilyIsOver ==
  \A c \in Callers :
    caller[c].at = "answered" /\ caller[c].answer \in {"reuse", "done"} /\ caller[c].token # None
      => Over(family[caller[c].token])
=============================================================================
