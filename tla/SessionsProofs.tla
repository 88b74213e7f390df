--------------------------- MODULE SessionsProofs ---------------------------
(***************************************************************************)
(* Proofs about the module Sessions, for any number of callers and rows.   *)
(***************************************************************************)
EXTENDS Sessions, TLAPS

\* Rows refer to rows: the founder of a family is one of them, and what is not
\* inserted yet has no successor, no lock and no revocation.
Rows ==
  /\ \A s \in Issued : family[s] \in Issued /\ family[family[s]] = family[s]
  /\ \A s \in Ids \ Issued : s \notin revoked /\ next[s] = None /\ lock[s] = Nobody

\* What a request knows at the point it has reached.
Knows(c) ==
  LET k == caller[c] IN
  /\ k.token # None => k.token \in Issued
  /\ k.at # "idle" /\ k.op \in {"refresh", "logout"} => k.token # None
  /\ k.at \in {"aim", "revoke"} => k.op \in {"refresh", "logout", "revoke_all"}
  /\ k.at \in {"read", "write", "commit"} => k.op = "refresh" /\ k.fresh \in Ids \ Issued
  /\ k.at = "commit" => lock[k.token] = c /\ k.token \notin revoked
  /\ k.at \in {"aim", "revoke"} /\ k.op = "refresh" => k.token \in revoked
  /\ k.at = "revoke" => k.aim \subseteq Issued /\ (k.token # None => k.token \in k.aim \cup revoked)

Work == \A c \in Callers : Knows(c)

\* Only a refresh about to commit holds a lock, and only that of its old row.
Locks ==
  \A s \in Ids : lock[s] # Nobody => caller[lock[s]].at = "commit" /\ caller[lock[s]].token = s

\* Two requests never set the same id aside.
Apart ==
  \A c, d \in Callers : c # d /\ caller[c].fresh # None => caller[c].fresh # caller[d].fresh

\* What the caller of an answered request may rely on.
Told(c) ==
  LET k == caller[c] IN
  k.at = "answered" =>
    /\ k.answer = "token" => k.fresh \in Issued
    /\ k.answer = "token" /\ k.op = "refresh" => k.token \in revoked /\ next[k.token] = k.fresh
    /\ k.answer \in {"reuse", "done"} /\ k.token # None => k.token \in revoked

\* The families that the revocation of c is for.
Touched(c) == {family[s] : s \in IF caller[c].token = None THEN caller[c].aim ELSE {caller[c].token}}

\* What a revocation has not aimed at has come from a rotation of what it has.
Marks ==
  \A c \in Callers :
    caller[c].at = "revoke" =>
      \A f \in Touched(c) : \A s \in Live \cap Kin(f) :
        s \in caller[c].aim \/ \E p \in caller[c].aim : next[p] # None

\* The inductive invariant.
IInv ==
  /\ TypeOK /\ Rows /\ FamilyIsAChain /\ Work
  /\ Locks /\ Apart /\ AnswersAreTrue /\ Marks

-----------------------------------------------------------------------------

\* A step that leaves the table alone and is no revocation's aim leaves Marks alone.
LEMMA MarksStay ==
  ASSUME Marks, NEW c \in Callers, UNCHANGED <<family, revoked, next>>,
         \A d \in Callers : d # c => caller'[d] = caller[d], caller'[c].at # "revoke"
  PROVE  Marks'
<1>1. \A f \in Ids : Kin(f)' = Kin(f) /\ Live' = Live
  BY DEF Kin, Live, Issued
<1>2. SUFFICES ASSUME NEW d \in Callers, caller'[d].at = "revoke", NEW f \in Touched(d)', NEW s \in (Live \cap Kin(f))'
              PROVE  s \in caller'[d].aim \/ \E p \in caller'[d].aim : next'[p] # None
  BY DEF Marks
<1>3. d # c /\ caller'[d] = caller[d]
  BY <1>2
<1>4. Touched(d)' = Touched(d)
  BY <1>3 DEF Touched
<1>5. s \in Live \cap Kin(f)
  BY <1>2 DEF Kin, Live, Issued
<1> QED BY <1>2, <1>3, <1>4, <1>5 DEF Marks

\* Nor does a step that sets no row aside endanger those that are.
LEMMA ApartStays ==
  ASSUME Apart, NEW c \in Callers, caller'[c].fresh \in {None, caller[c].fresh},
         \A d \in Callers : d # c => caller'[d] = caller[d]
  PROVE  Apart'
<1> SUFFICES ASSUME NEW d \in Callers, NEW e \in Callers, d # e, caller'[d].fresh # None
             PROVE  caller'[d].fresh # caller'[e].fresh
  BY DEF Apart
<1>1. caller'[d].fresh = caller[d].fresh /\ caller'[e].fresh \in {None, caller[e].fresh}
  OBVIOUS
<1>2. caller[d].fresh # caller[e].fresh
  BY <1>1 DEF Apart
<1> QED BY <1>1, <1>2

\* And a step of somebody who holds no lock, and takes none, leaves the locks as they are.
LEMMA LocksStay ==
  ASSUME TypeOK, Locks, NEW c \in Callers, caller[c].at # "commit", lock' = lock,
         \A d \in Callers : d # c => caller'[d] = caller[d]
  PROVE  Locks'
<1> SUFFICES ASSUME NEW s \in Ids, lock[s] # Nobody
             PROVE  caller'[lock[s]].at = "commit" /\ caller'[lock[s]].token = s
  BY DEF Locks
<1>1. lock[s] \in Callers /\ caller[lock[s]].at = "commit" /\ caller[lock[s]].token = s
  BY DEF TypeOK, Locks
<1> QED BY <1>1

\* COMMIT and ROLLBACK give up the locks of one transaction and no others.
LEMMA LocksLeft ==
  ASSUME TypeOK, Locks, NEW c \in Callers, lock' = Unlocked(c),
         \A d \in Callers : d # c => caller'[d] = caller[d]
  PROVE  Locks'
<1> SUFFICES ASSUME NEW s \in Ids, lock'[s] # Nobody
             PROVE  caller'[lock'[s]].at = "commit" /\ caller'[lock'[s]].token = s
  BY DEF Locks
<1>1. lock'[s] = lock[s] /\ lock[s] \in Callers /\ lock[s] # c
  BY DEF TypeOK, Unlocked
<1> QED BY <1>1 DEF Locks

\* issueSession: a new row in a family of its own.
LEMMA LoginKeeps ==
  ASSUME IInv, NEW c \in Callers, NEW s \in Ids, Login(c, s)
  PROVE  IInv'
<1> USE CallersAssumption DEF IInv, Ids, None
<1>a. /\ caller[c] = Idle
      /\ family' = [family EXCEPT ![s] = s]
      /\ revoked' = revoked
      /\ next' = next
      /\ lock' = lock
      /\ New(s)
  BY DEF Login, table
<1>t. caller' \in [Callers -> Caller]
  BY DEF TypeOK, Caller, Idle, MaxRetries, Login
<1>f. \A d \in Callers : d # c => caller'[d] = caller[d]
  BY DEF TypeOK, Login
<1>r. /\ caller'[c].at = "answered"
      /\ caller'[c].op = "login"
      /\ caller'[c].token = None
      /\ caller'[c].fresh = s
      /\ caller'[c].aim = {}
      /\ caller'[c].answer = "token"
  BY DEF TypeOK, Caller, Idle, Login
<1>1. TypeOK'
  BY <1>a, <1>t DEF TypeOK
<1>2. Rows'
  BY <1>a DEF TypeOK, Rows, Issued, New
<1>3. FamilyIsAChain'
  <2>1. /\ Issued' = Issued \cup {s} /\ s \notin Issued /\ s \notin revoked
        /\ \A x \in Issued : family'[x] = family[x] /\ family[x] \in Issued
        /\ family'[s] = s /\ next[s] = None
    BY <1>a DEF TypeOK, Rows, Issued, New
  <2>2. \A x \in Issued : next[x] # s
    BY <2>1 DEF FamilyIsAChain, Kin
  <2>3. \A x, y \in Live' : family'[x] = family'[y] => x = y
    BY <1>a, <2>1 DEF FamilyIsAChain, Live
  <2>4. \A x \in Issued' : next'[x] # None => x \in revoked' /\ next'[x] \in Kin(family[x])' \ {family'[x]}
    BY <1>a, <2>1 DEF FamilyIsAChain, Kin
  <2>5. ASSUME NEW x \in Issued' \ {family'[y] : y \in Issued'}
        PROVE  \E p \in Issued' : next'[p] = x /\ \A q \in Issued' : next'[q] = x => q = p
    <3>1. x \in Issued \ {family[y] : y \in Issued} /\ x # None
      BY <2>1 DEF Issued, Ids, None
    <3>2. PICK p \in Issued : next[p] = x /\ \A q \in Issued : next[q] = x => q = p
      BY <3>1 DEF FamilyIsAChain
    <3> QED BY <1>a, <2>1, <3>1, <3>2
  <2> QED BY <2>3, <2>4, <2>5 DEF FamilyIsAChain
<1>4. Work'
  <2>1. ASSUME NEW d \in Callers, d # c PROVE Knows(d)'
    BY <1>a, <1>f, <2>1 DEF TypeOK, Issued, Work, Knows, Locks, Caller, New, Rows
  <2>2. Knows(c)'
    BY <1>a, <1>t, <1>r DEF TypeOK, Issued, Work, Knows, Locks, Caller, New, Rows
  <2> QED BY <2>1, <2>2 DEF Work
<1>5. Locks'
  BY <1>a, <1>f, LocksStay DEF Idle
<1>6. Apart'
  <2> SUFFICES ASSUME NEW d \in Callers, NEW e \in Callers, d # e, caller'[d].fresh # None
               PROVE  caller'[d].fresh # caller'[e].fresh
    BY DEF Apart
  <2>1. \A x \in Callers : caller[x].fresh # s
    BY DEF Login, New
  <2> QED BY <1>f, <1>r, <2>1 DEF Apart
<1>7. AnswersAreTrue'
  <2>1. ASSUME NEW d \in Callers, d # c PROVE Told(d)'
    BY <1>a, <1>f, <2>1 DEF TypeOK, Issued, AnswersAreTrue, Knows, Told, Work, New, Rows
  <2>2. Told(c)'
    BY <1>a, <1>t, <1>r DEF TypeOK, Issued, AnswersAreTrue, Knows, Told, Work, New, Rows
  <2> QED BY <2>1, <2>2 DEF AnswersAreTrue, Told
<1>8. Marks'
  <2> SUFFICES ASSUME NEW d \in Callers, caller'[d].at = "revoke", NEW f \in Touched(d)', NEW x \in (Live \cap Kin(f))'
               PROVE  x \in caller'[d].aim \/ \E p \in caller'[d].aim : next'[p] # None
    BY DEF Marks
  <2>1. d # c /\ caller'[d] = caller[d] /\ caller[d].at = "revoke"
    BY <1>f, <1>r
  <2>2. caller[d].aim \subseteq Issued /\ (caller[d].token # None => caller[d].token \in Issued)
    BY <2>1 DEF Work, Knows
  <2>3. f \in Touched(d) /\ f \in Issued
    BY <1>a, <2>1, <2>2 DEF Touched, TypeOK, Rows, Issued, New
  <2>4. x \in Live \cap Kin(f)
    BY <1>a, <2>3 DEF TypeOK, Live, Kin, Issued, New
  <2> QED BY <1>a, <2>1, <2>3, <2>4 DEF Marks
<1> QED BY <1>1, <1>2, <1>3, <1>4, <1>5, <1>6, <1>7, <1>8

\* rotateSession, asked for: an id is set aside for the row it may insert.
LEMMA RefreshKeeps ==
  ASSUME IInv, NEW c \in Callers, NEW s \in Ids, NEW t \in Ids, Refresh(c, t, s)
  PROVE  IInv'
<1> USE CallersAssumption DEF IInv, Ids, None
<1>a. /\ caller[c] = Idle
      /\ UNCHANGED <<family, revoked, next>>
      /\ lock' = lock
      /\ t \in Issued
      /\ New(s)
  BY DEF Refresh, Begins, table
<1>t. caller' \in [Callers -> Caller]
  BY DEF TypeOK, Caller, Idle, MaxRetries, Refresh, Begins
<1>f. \A d \in Callers : d # c => caller'[d] = caller[d]
  BY DEF TypeOK, Refresh, Begins
<1>r. /\ caller'[c].at = "read"
      /\ caller'[c].op = "refresh"
      /\ caller'[c].token = t
      /\ caller'[c].fresh = s
      /\ caller'[c].aim = {}
      /\ caller'[c].answer = "none"
  BY DEF TypeOK, Caller, Idle, Refresh, Begins
<1>1. TypeOK'
  BY <1>a, <1>t DEF TypeOK
<1>2. Rows'
  BY <1>a DEF Rows, Issued
<1>3. FamilyIsAChain'
  BY <1>a DEF FamilyIsAChain, Live, Kin, Issued
<1>4. Work'
  <2>1. ASSUME NEW d \in Callers, d # c PROVE Knows(d)'
    BY <1>a, <1>f, <2>1 DEF TypeOK, Issued, Work, Knows, Locks, Caller, New
  <2>2. Knows(c)'
    BY <1>a, <1>t, <1>r DEF TypeOK, Issued, Work, Knows, Locks, Caller, New
  <2> QED BY <2>1, <2>2 DEF Work
<1>5. Locks'
  BY <1>a, <1>f, LocksStay DEF Idle
<1>6. Apart'
  <2> SUFFICES ASSUME NEW d \in Callers, NEW e \in Callers, d # e, caller'[d].fresh # None
               PROVE  caller'[d].fresh # caller'[e].fresh
    BY DEF Apart
  <2>1. \A x \in Callers : caller[x].fresh # s
    BY DEF Refresh, New
  <2> QED BY <1>f, <1>r, <2>1 DEF Apart
<1>7. AnswersAreTrue'
  <2>1. ASSUME NEW d \in Callers, d # c PROVE Told(d)'
    BY <1>a, <1>f, <2>1 DEF TypeOK, Issued, AnswersAreTrue, Told, New
  <2>2. Told(c)'
    BY <1>a, <1>t, <1>r DEF TypeOK, Issued, AnswersAreTrue, Told, New
  <2> QED BY <2>1, <2>2 DEF AnswersAreTrue, Told
<1>8. Marks'
  BY <1>a, <1>f, <1>r, MarksStay
<1> QED BY <1>1, <1>2, <1>3, <1>4, <1>5, <1>6, <1>7, <1>8

\* revokeByRefreshToken, asked for.
LEMMA LogOutKeeps ==
  ASSUME IInv, NEW c \in Callers, NEW t \in Ids, LogOut(c, t)
  PROVE  IInv'
<1> USE CallersAssumption DEF IInv, Ids, None
<1>a. /\ caller[c] = Idle
      /\ UNCHANGED <<family, revoked, next>>
      /\ lock' = lock
      /\ t \in Issued
  BY DEF LogOut, Begins, table
<1>t. caller' \in [Callers -> Caller]
  BY DEF TypeOK, Caller, Idle, MaxRetries, LogOut, Begins
<1>f. \A d \in Callers : d # c => caller'[d] = caller[d]
  BY DEF TypeOK, LogOut, Begins
<1>r. /\ caller'[c].at = "aim"
      /\ caller'[c].op = "logout"
      /\ caller'[c].token = t
      /\ caller'[c].fresh = None
      /\ caller'[c].aim = {}
      /\ caller'[c].answer = "none"
  BY DEF TypeOK, Caller, Idle, LogOut, Begins
<1>1. TypeOK'
  BY <1>a, <1>t DEF TypeOK
<1>2. Rows'
  BY <1>a DEF Rows, Issued
<1>3. FamilyIsAChain'
  BY <1>a DEF FamilyIsAChain, Live, Kin, Issued
<1>4. Work'
  <2>1. ASSUME NEW d \in Callers, d # c PROVE Knows(d)'
    BY <1>a, <1>f, <2>1 DEF TypeOK, Issued, Work, Knows, Caller
  <2>2. Knows(c)'
    BY <1>a, <1>t, <1>r DEF TypeOK, Issued, Work, Knows, Caller
  <2> QED BY <2>1, <2>2 DEF Work
<1>5. Locks'
  BY <1>a, <1>f, LocksStay DEF Idle
<1>6. Apart'
  BY <1>f, <1>r, ApartStays
<1>7. AnswersAreTrue'
  <2>1. ASSUME NEW d \in Callers, d # c PROVE Told(d)'
    BY <1>a, <1>f, <2>1 DEF TypeOK, Issued, AnswersAreTrue, Told
  <2>2. Told(c)'
    BY <1>a, <1>t, <1>r DEF TypeOK, Issued, AnswersAreTrue, Told
  <2> QED BY <2>1, <2>2 DEF AnswersAreTrue, Told
<1>8. Marks'
  BY <1>a, <1>f, <1>r, MarksStay
<1> QED BY <1>1, <1>2, <1>3, <1>4, <1>5, <1>6, <1>7, <1>8

\* revokeAllSessions, asked for.
LEMMA RevokeAllKeeps ==
  ASSUME IInv, NEW c \in Callers, RevokeAll(c)
  PROVE  IInv'
<1> USE CallersAssumption DEF IInv, Ids, None
<1>a. /\ caller[c] = Idle
      /\ UNCHANGED <<family, revoked, next>>
      /\ lock' = lock
  BY DEF RevokeAll, Begins, table
<1>t. caller' \in [Callers -> Caller]
  BY DEF TypeOK, Caller, Idle, MaxRetries, RevokeAll, Begins
<1>f. \A d \in Callers : d # c => caller'[d] = caller[d]
  BY DEF TypeOK, RevokeAll, Begins
<1>r. /\ caller'[c].at = "aim"
      /\ caller'[c].op = "revoke_all"
      /\ caller'[c].token = None
      /\ caller'[c].fresh = None
      /\ caller'[c].aim = {}
      /\ caller'[c].answer = "none"
  BY DEF TypeOK, Caller, Idle, RevokeAll, Begins
<1>1. TypeOK'
  BY <1>a, <1>t DEF TypeOK
<1>2. Rows'
  BY <1>a DEF Rows, Issued
<1>3. FamilyIsAChain'
  BY <1>a DEF FamilyIsAChain, Live, Kin, Issued
<1>4. Work'
  <2>1. ASSUME NEW d \in Callers, d # c PROVE Knows(d)'
    BY <1>a, <1>f, <2>1 DEF TypeOK, Issued, Work, Knows, Caller
  <2>2. Knows(c)'
    BY <1>a, <1>t, <1>r DEF TypeOK, Issued, Work, Knows, Caller
  <2> QED BY <2>1, <2>2 DEF Work
<1>5. Locks'
  BY <1>a, <1>f, LocksStay DEF Idle
<1>6. Apart'
  BY <1>f, <1>r, ApartStays
<1>7. AnswersAreTrue'
  <2>1. ASSUME NEW d \in Callers, d # c PROVE Told(d)'
    BY <1>a, <1>f, <2>1 DEF TypeOK, Issued, AnswersAreTrue, Told
  <2>2. Told(c)'
    BY <1>a, <1>t, <1>r DEF TypeOK, Issued, AnswersAreTrue, Told
  <2> QED BY <2>1, <2>2 DEF AnswersAreTrue, Told
<1>8. Marks'
  BY <1>a, <1>f, <1>r, MarksStay
<1> QED BY <1>1, <1>2, <1>3, <1>4, <1>5, <1>6, <1>7, <1>8

\* The read of rotateSession, and what it finds.
LEMMA ReadKeeps ==
  ASSUME IInv, NEW c \in Callers, Read(c)
  PROVE  IInv'
<1> USE CallersAssumption DEF IInv, Ids, None
<1>a. /\ caller[c].at = "read"
      /\ UNCHANGED <<family, revoked, next>>
      /\ lock' = lock
  BY DEF Read, Answers, table
<1>t. caller' \in [Callers -> Caller]
  <2>k. PICK k \in Caller : k = caller[c]
    BY DEF TypeOK
  <2>1. [k EXCEPT !.at = "aim"] \in Caller
    BY DEF Caller
  <2>2. [k EXCEPT !.at = "write"] \in Caller
    BY DEF Caller
  <2>3. [k EXCEPT !.at = "answered", !.aim = {}, !.answer = "refused"] \in Caller
    BY DEF Caller
  <2> QED BY <2>k, <2>1, <2>2, <2>3 DEF TypeOK, Read, Answers
<1>f. \A d \in Callers : d # c => caller'[d] = caller[d]
  BY DEF TypeOK, Read, Answers
<1>r. /\ caller'[c].at \in {"write", "answered"} \cup (IF caller[c].token \in revoked THEN {"aim"} ELSE {})
      /\ caller'[c].at = "answered" => caller'[c].answer = "refused"
      /\ caller'[c].op = caller[c].op
      /\ caller'[c].token = caller[c].token
      /\ caller'[c].fresh = caller[c].fresh
  <2>1. CASE caller[c].token \in revoked
    BY <2>1 DEF TypeOK, Caller, Read
  <2>2. CASE caller[c].token \notin revoked
    <3>1. \/ caller' = [caller EXCEPT ![c].at = "write"]
          \/ caller' = [caller EXCEPT ![c] = Answers(c, "refused")]
      BY <2>2 DEF Read
    <3>2. CASE caller' = [caller EXCEPT ![c].at = "write"]
      BY <3>2 DEF TypeOK, Caller
    <3>3. CASE caller' = [caller EXCEPT ![c] = Answers(c, "refused")]
      BY <3>3 DEF TypeOK, Caller, Answers
    <3> QED BY <3>1, <3>2, <3>3
  <2> QED BY <2>1, <2>2
<1>1. TypeOK'
  BY <1>a, <1>t DEF TypeOK
<1>2. Rows'
  BY <1>a DEF Rows, Issued
<1>3. FamilyIsAChain'
  BY <1>a DEF FamilyIsAChain, Live, Kin, Issued
<1>4. Work'
  <2>1. ASSUME NEW d \in Callers, d # c PROVE Knows(d)'
    BY <1>a, <1>f, <2>1 DEF TypeOK, Issued, Work, Knows, Caller
  <2>2. Knows(c)'
    BY <1>a, <1>t, <1>r DEF TypeOK, Issued, Work, Knows, Caller
  <2> QED BY <2>1, <2>2 DEF Work
<1>5. Locks'
  BY <1>a, <1>f, LocksStay
<1>6. Apart'
  BY <1>f, <1>r, ApartStays
<1>7. AnswersAreTrue'
  <2>1. ASSUME NEW d \in Callers, d # c PROVE Told(d)'
    BY <1>a, <1>f, <2>1 DEF TypeOK, Issued, AnswersAreTrue, Told
  <2>2. Told(c)'
    BY <1>a, <1>t, <1>r DEF TypeOK, Issued, AnswersAreTrue, Told
  <2> QED BY <2>1, <2>2 DEF AnswersAreTrue, Told
<1>8. Marks'
  BY <1>a, <1>f, <1>r, MarksStay
<1> QED BY <1>1, <1>2, <1>3, <1>4, <1>5, <1>6, <1>7, <1>8

\* The UPDATE of the old row, which takes its lock.
LEMMA WriteKeeps ==
  ASSUME IInv, NEW c \in Callers, Write(c)
  PROVE  IInv'
<1> USE CallersAssumption DEF IInv, Ids, None
<1>a. /\ caller[c].at = "write"
      /\ UNCHANGED <<family, revoked, next>>
      /\ lock' = [lock EXCEPT ![caller[c].token] = c]
      /\ lock[caller[c].token] = Nobody
      /\ caller[c].token \notin revoked
  BY DEF Write, Stale, table
<1>t. caller' \in [Callers -> Caller]
  <2>k. PICK k \in Caller : k = caller[c]
    BY DEF TypeOK
  <2>1. [k EXCEPT !.at = "commit"] \in Caller
    BY DEF Caller
  <2> QED BY <2>k, <2>1 DEF TypeOK, Write, Stale
<1>f. \A d \in Callers : d # c => caller'[d] = caller[d]
  BY DEF TypeOK, Write, Stale
<1>r. /\ caller'[c].at = "commit"
      /\ caller'[c].op = caller[c].op
      /\ caller'[c].token = caller[c].token
      /\ caller'[c].fresh = caller[c].fresh
      /\ caller'[c].aim = caller[c].aim
      /\ caller'[c].answer = caller[c].answer
  BY DEF TypeOK, Caller, Idle, Write, Stale
<1>1. TypeOK'
  BY <1>a, <1>t DEF TypeOK, Caller
<1>2. Rows'
  BY <1>a DEF TypeOK, Rows, Work, Knows, Issued
<1>3. FamilyIsAChain'
  BY <1>a DEF FamilyIsAChain, Live, Kin, Issued
<1>4. Work'
  <2>1. ASSUME NEW d \in Callers, d # c PROVE Knows(d)'
    BY <1>a, <1>f, <2>1 DEF TypeOK, Issued, Work, Knows, Locks, Caller
  <2>2. Knows(c)'
    BY <1>a, <1>t, <1>r DEF TypeOK, Issued, Work, Knows, Locks, Caller
  <2> QED BY <2>1, <2>2 DEF Work
<1>5. Locks'
  <2> SUFFICES ASSUME NEW x \in Ids, lock'[x] # Nobody
               PROVE  caller'[lock'[x]].at = "commit" /\ caller'[lock'[x]].token = x
    BY DEF Locks
  <2>1. CASE x = caller[c].token
    BY <1>a, <1>r, <2>1 DEF TypeOK
  <2>2. CASE x # caller[c].token
    <3>1. lock'[x] = lock[x] /\ lock[x] \in Callers
      BY <1>a, <2>2 DEF TypeOK
    <3>2. caller[lock[x]].at = "commit" /\ caller[lock[x]].token = x /\ lock[x] # c
      BY <1>a, <3>1 DEF Locks
    <3> QED BY <1>f, <3>1, <3>2
  <2> QED BY <2>1, <2>2
<1>6. Apart'
  BY <1>f, <1>r, ApartStays
<1>7. AnswersAreTrue'
  <2>1. ASSUME NEW d \in Callers, d # c PROVE Told(d)'
    BY <1>a, <1>f, <2>1 DEF TypeOK, Issued, AnswersAreTrue, Told
  <2>2. Told(c)'
    BY <1>a, <1>t, <1>r DEF TypeOK, Issued, AnswersAreTrue, Told
  <2> QED BY <2>1, <2>2 DEF AnswersAreTrue, Told
<1>8. Marks'
  BY <1>a, <1>f, <1>r, MarksStay
<1> QED BY <1>1, <1>2, <1>3, <1>4, <1>5, <1>6, <1>7, <1>8

\* A serialization failure: another attempt, or none.
LEMMA ConflictKeeps ==
  ASSUME IInv, NEW c \in Callers, Conflict(c)
  PROVE  IInv'
<1> USE CallersAssumption DEF IInv, Ids, None
<1>a. /\ caller[c].at \in {"write", "commit"}
      /\ UNCHANGED <<family, revoked, next>>
      /\ lock' = Unlocked(c)
  BY DEF Conflict, Abort, Again, Answers, table
<1>t. caller' \in [Callers -> Caller]
  <2>k. PICK k \in Caller : k = caller[c]
    BY DEF TypeOK
  <2>1. ASSUME Again(k.attempt) PROVE [k EXCEPT !.at = "read", !.attempt = @ + 1] \in Caller
    <3>1. k.attempt \in 0..MaxRetries /\ k.attempt + 1 \in 0..MaxRetries
      BY <2>1 DEF Caller, Again, MaxRetries
    <3> QED BY <3>1 DEF Caller
  <2>2. [k EXCEPT !.at = "answered", !.aim = {}, !.answer = "failed"] \in Caller
    BY DEF Caller
  <2> QED BY <2>k, <2>1, <2>2 DEF TypeOK, Conflict, Abort, Answers
<1>f. \A d \in Callers : d # c => caller'[d] = caller[d]
  BY DEF TypeOK, Conflict, Abort, Again, Unlocked, Answers
<1>r. /\ caller'[c].at \in {"read", "answered"}
      /\ caller'[c].at = "answered" => caller'[c].answer = "failed"
      /\ caller'[c].op = caller[c].op
      /\ caller'[c].token = caller[c].token
      /\ caller'[c].fresh = caller[c].fresh
  BY DEF TypeOK, Caller, Conflict, Abort, Answers
<1>1. TypeOK'
  BY <1>a, <1>t DEF TypeOK, Unlocked
<1>2. Rows'
  BY <1>a DEF Rows, Issued, Unlocked
<1>3. FamilyIsAChain'
  BY <1>a DEF FamilyIsAChain, Live, Kin, Issued
<1>4. Work'
  <2>1. ASSUME NEW d \in Callers, d # c PROVE Knows(d)'
    BY <1>a, <1>f, <2>1 DEF TypeOK, Issued, Work, Knows, Locks, Caller, Unlocked
  <2>2. Knows(c)'
    BY <1>a, <1>t, <1>r DEF TypeOK, Issued, Work, Knows, Locks, Caller, Unlocked
  <2> QED BY <2>1, <2>2 DEF Work
<1>5. Locks'
  BY <1>a, <1>f, LocksLeft
<1>6. Apart'
  BY <1>f, <1>r, ApartStays
<1>7. AnswersAreTrue'
  <2>1. ASSUME NEW d \in Callers, d # c PROVE Told(d)'
    BY <1>a, <1>f, <2>1 DEF TypeOK, Issued, AnswersAreTrue, Told, Unlocked
  <2>2. Told(c)'
    BY <1>a, <1>t, <1>r DEF TypeOK, Issued, AnswersAreTrue, Told, Unlocked
  <2> QED BY <2>1, <2>2 DEF AnswersAreTrue, Told
<1>8. Marks'
  BY <1>a, <1>f, <1>r, MarksStay
<1> QED BY <1>1, <1>2, <1>3, <1>4, <1>5, <1>6, <1>7, <1>8

\* A rotation: the one step that adds to a family.  A revocation under way that had
\* picked the old row has picked one with a successor now.
LEMMA CommitKeeps ==
  ASSUME IInv, NEW c \in Callers, Commit(c)
  PROVE  IInv'
<1> USE CallersAssumption DEF IInv, Ids, None
<1>a. /\ caller[c].at = "commit"
      /\ family' = [family EXCEPT ![caller[c].fresh] = family[caller[c].token]]
      /\ revoked' = revoked \cup {caller[c].token}
      /\ next' = [next EXCEPT ![caller[c].token] = caller[c].fresh]
      /\ lock' = Unlocked(c)
  BY DEF Commit, Linked, Answers, table
<1>t. caller' \in [Callers -> Caller]
  <2>k. PICK k \in Caller : k = caller[c]
    BY DEF TypeOK
  <2>1. [k EXCEPT !.at = "answered", !.aim = {}, !.answer = "token"] \in Caller
    BY DEF Caller
  <2> QED BY <2>k, <2>1 DEF TypeOK, Commit, Linked, Unlocked, Answers
<1>f. \A d \in Callers : d # c => caller'[d] = caller[d]
  BY DEF TypeOK, Commit, Linked, Unlocked, Answers
<1>r. /\ caller'[c].at = "answered"
      /\ caller'[c].op = caller[c].op
      /\ caller'[c].token = caller[c].token
      /\ caller'[c].fresh = caller[c].fresh
      /\ caller'[c].aim = {}
      /\ caller'[c].answer = "token"
  BY DEF TypeOK, Caller, Idle, Commit, Linked, Unlocked, Answers
<1>1. TypeOK'
  <2>1. caller[c].token \in Ids /\ caller[c].fresh \in Ids
    BY <1>a DEF TypeOK, Caller, Work, Knows, Issued
  <2> QED BY <1>a, <1>t, <2>1 DEF TypeOK, Unlocked
<1>2. Rows'
  BY <1>a, <1>t, <1>f, <1>r DEF TypeOK, Caller, Rows, Issued, Work, Knows, Unlocked
<1>3. FamilyIsAChain'
  <2> DEFINE old == caller[c].token
             new == caller[c].fresh
  <2>1. /\ old \in Issued /\ old \notin revoked /\ new \in Ids \ Issued
        /\ next[new] = None /\ new \notin revoked
    BY <1>a DEF Work, Knows, Rows, TypeOK, Caller
  <2>2. /\ Issued' = Issued \cup {new} /\ old # new
        /\ \A x \in Issued : family'[x] = family[x] /\ family[x] \in Issued
        /\ family'[new] = family[old] /\ next'[old] = new /\ next'[new] = None
        /\ \A x \in Issued : x # old => next'[x] = next[x]
    BY <1>a, <2>1 DEF TypeOK, Rows, Issued
  <2>3. next[old] = None /\ \A x \in Issued : next[x] # new
    BY <2>1 DEF FamilyIsAChain, Kin
  <2>4. \A x, y \in Live' : family'[x] = family'[y] => x = y
    BY <1>a, <2>1, <2>2 DEF FamilyIsAChain, Live
  <2>5. \A x \in Issued' : next'[x] # None => x \in revoked' /\ next'[x] \in Kin(family[x])' \ {family'[x]}
    BY <1>a, <2>1, <2>2 DEF FamilyIsAChain, Kin
  <2>6. ASSUME NEW x \in Issued' \ {family'[y] : y \in Issued'}
        PROVE  \E p \in Issued' : next'[p] = x /\ \A q \in Issued' : next'[q] = x => q = p
    <3>1. CASE x = new
      BY <2>1, <2>2, <2>3, <3>1
    <3>2. CASE x # new
      <4>1. x \in Issued \ {family[y] : y \in Issued} /\ x # None
        BY <2>1, <2>2, <3>2 DEF Issued, Ids, None
      <4>2. PICK p \in Issued : next[p] = x /\ \A q \in Issued : next[q] = x => q = p
        BY <4>1 DEF FamilyIsAChain
      <4> QED BY <2>1, <2>2, <2>3, <3>2, <4>1, <4>2
    <3> QED BY <3>1, <3>2
  <2> QED BY <2>4, <2>5, <2>6 DEF FamilyIsAChain
<1>4. Work'
  <2>1. ASSUME NEW d \in Callers, d # c PROVE Knows(d)'
    BY <1>a, <1>f, <2>1 DEF TypeOK, Issued, Work, Knows, Locks, Caller, Unlocked, Apart, Rows
  <2>2. Knows(c)'
    BY <1>a, <1>t, <1>r DEF TypeOK, Issued, Work, Knows, Locks, Caller, Unlocked, Apart, Rows
  <2> QED BY <2>1, <2>2 DEF Work
<1>5. Locks'
  BY <1>a, <1>f, LocksLeft
<1>6. Apart'
  BY <1>f, <1>r, ApartStays
<1>7. AnswersAreTrue'
  <2>1. ASSUME NEW d \in Callers, d # c PROVE Told(d)'
    BY <1>a, <1>f, <2>1 DEF TypeOK, Issued, AnswersAreTrue, Knows, Told, Work, Unlocked, Apart, Rows, Locks
  <2>2. Told(c)'
    BY <1>a, <1>t, <1>r DEF TypeOK, Issued, AnswersAreTrue, Knows, Told, Work, Unlocked, Apart, Rows, Locks
  <2> QED BY <2>1, <2>2 DEF AnswersAreTrue, Told
<1>8. Marks'
  <2> SUFFICES ASSUME NEW d \in Callers, caller'[d].at = "revoke", NEW f \in Touched(d)', NEW x \in (Live \cap Kin(f))'
               PROVE  x \in caller'[d].aim \/ \E p \in caller'[d].aim : next'[p] # None
    BY DEF Marks
  <2>1. d # c /\ caller'[d] = caller[d] /\ caller[d].at = "revoke"
    BY <1>f, <1>r
  <2>2. caller[d].aim \subseteq Issued /\ (caller[d].token # None => caller[d].token \in Issued)
    BY <2>1 DEF Work, Knows
  <2>3. /\ caller[c].token \in Issued /\ caller[c].token \notin revoked
        /\ caller[c].fresh \in Ids \ Issued
    BY <1>a DEF Work, Knows
  <2>4. f \in Touched(d)
    BY <1>a, <2>1, <2>2, <2>3 DEF Touched, TypeOK, Issued
  <2>5. PICK y \in Live \cap Kin(f) : y = x \/ y = caller[c].token
    BY <1>a, <2>3 DEF TypeOK, Live, Kin, Issued
  <2>6. y \in caller[d].aim \/ \E p \in caller[d].aim : next[p] # None
    BY <2>1, <2>4 DEF Marks
  <2>7. \A p \in Issued : next[p] # None \/ p = caller[c].token => next'[p] # None
    BY <1>a, <2>3 DEF TypeOK, Issued, Ids, None
  <2> QED BY <2>1, <2>2, <2>5, <2>6, <2>7
<1> QED BY <1>1, <1>2, <1>3, <1>4, <1>5, <1>6, <1>7, <1>8

\* A revocation picks its rows: every live one of its families.
LEMMA AimKeeps ==
  ASSUME IInv, NEW c \in Callers, Aim(c)
  PROVE  IInv'
<1> USE CallersAssumption DEF IInv, Ids, None
<1>a. /\ caller[c].at = "aim"
      /\ UNCHANGED <<family, revoked, next>>
      /\ lock' = lock
  BY DEF Aim, Targets, table
<1>t. caller' \in [Callers -> Caller]
  <2>k. PICK k \in Caller : k = caller[c]
    BY DEF TypeOK
  <2>1. Targets(c) \subseteq Ids
    BY DEF Targets, Live, Issued
  <2>2. [k EXCEPT !.at = "revoke", !.aim = Targets(c)] \in Caller
    BY <2>1 DEF Caller
  <2> QED BY <2>k, <2>2 DEF TypeOK, Aim
<1>f. \A d \in Callers : d # c => caller'[d] = caller[d]
  BY DEF TypeOK, Aim, Targets
<1>r. /\ caller'[c].at = "revoke"
      /\ caller'[c].op = caller[c].op
      /\ caller'[c].token = caller[c].token
      /\ caller'[c].fresh = caller[c].fresh
      /\ caller'[c].aim = Targets(c)
      /\ caller'[c].answer = caller[c].answer
  BY DEF TypeOK, Caller, Idle, Aim, Targets
<1>1. TypeOK'
  BY <1>a, <1>t DEF TypeOK
<1>2. Rows'
  BY <1>a DEF Rows, Issued
<1>3. FamilyIsAChain'
  BY <1>a DEF FamilyIsAChain, Live, Kin, Issued
<1>4. Work'
  <2>1. ASSUME NEW d \in Callers, d # c PROVE Knows(d)'
    BY <1>a, <1>f, <2>1 DEF TypeOK, Issued, Work, Knows, Caller
  <2>2. Knows(c)'
    BY <1>a, <1>t, <1>r DEF TypeOK, Issued, Work, Knows, Caller, Targets, Live, Kin
  <2> QED BY <2>1, <2>2 DEF Work
<1>5. Locks'
  BY <1>a, <1>f, LocksStay
<1>6. Apart'
  BY <1>f, <1>r, ApartStays
<1>7. AnswersAreTrue'
  <2>1. ASSUME NEW d \in Callers, d # c PROVE Told(d)'
    BY <1>a, <1>f, <2>1 DEF TypeOK, Issued, AnswersAreTrue, Told
  <2>2. Told(c)'
    BY <1>a, <1>t, <1>r DEF TypeOK, Issued, AnswersAreTrue, Told, Targets, Live, Kin
  <2> QED BY <2>1, <2>2 DEF AnswersAreTrue, Told
<1>8. Marks'
  <2> SUFFICES ASSUME NEW d \in Callers, caller'[d].at = "revoke", NEW f \in Touched(d)', NEW x \in (Live \cap Kin(f))'
               PROVE  x \in caller'[d].aim \/ \E p \in caller'[d].aim : next'[p] # None
    BY DEF Marks
  <2>1. CASE d # c
    <3>1. caller'[d] = caller[d] /\ caller[d].at = "revoke" /\ f \in Touched(d)
      BY <1>a, <1>f, <2>1 DEF Touched
    <3>2. x \in Live \cap Kin(f)
      BY <1>a DEF Live, Kin, Issued
    <3> QED BY <1>a, <3>1, <3>2 DEF Marks
  <2>2. CASE d = c
    <3>1. x \in Live \cap Kin(f)
      BY <1>a DEF Live, Kin, Issued
    <3>2. CASE caller[c].op = "revoke_all"
      BY <1>r, <2>2, <3>1, <3>2 DEF Targets
    <3>3. CASE caller[c].op # "revoke_all"
      <4>1. caller[c].token # None
        BY <1>a, <3>3 DEF Work, Knows
      <4>2. f = family[caller[c].token]
        BY <1>a, <1>r, <2>2, <4>1 DEF Touched
      <4> QED BY <1>r, <2>2, <3>1, <3>3, <4>2 DEF Targets
    <3> QED BY <3>2, <3>3
  <2> QED BY <2>1, <2>2
<1> QED BY <1>1, <1>2, <1>3, <1>4, <1>5, <1>6, <1>7, <1>8

\* A revocation takes its rows; nobody holds them, so no refresh is about to commit.
LEMMA RevokeKeeps ==
  ASSUME IInv, NEW c \in Callers, Revoke(c)
  PROVE  IInv'
<1> USE CallersAssumption DEF IInv, Ids, None
<1>a. /\ caller[c].at = "revoke"
      /\ family' = family
      /\ next' = next
      /\ lock' = lock
      /\ revoked' = revoked \cup caller[c].aim
      /\ \A s \in caller[c].aim : lock[s] = Nobody
  BY DEF Revoke, Answers, table
<1>t. caller' \in [Callers -> Caller]
  <2>k. PICK k \in Caller : k = caller[c]
    BY DEF TypeOK
  <2>1. [k EXCEPT !.at = "answered", !.aim = {}, !.answer = "reuse"] \in Caller
    BY DEF Caller
  <2>2. [k EXCEPT !.at = "answered", !.aim = {}, !.answer = "done"] \in Caller
    BY DEF Caller
  <2> QED BY <2>k, <2>1, <2>2 DEF TypeOK, Revoke, Answers
<1>f. \A d \in Callers : d # c => caller'[d] = caller[d]
  BY DEF TypeOK, Revoke, Answers
<1>r. /\ caller'[c].at = "answered"
      /\ caller'[c].op = caller[c].op
      /\ caller'[c].token = caller[c].token
      /\ caller'[c].fresh = caller[c].fresh
      /\ caller'[c].aim = {}
      /\ caller'[c].answer = IF caller[c].op = "refresh" THEN "reuse" ELSE "done"
  BY DEF TypeOK, Caller, Idle, Revoke, Answers
<1>1. TypeOK'
  BY <1>a, <1>t DEF TypeOK, Caller
<1>2. Rows'
  BY <1>a, <1>t, <1>f, <1>r DEF TypeOK, Caller, Rows, Issued, Work, Knows
<1>3. FamilyIsAChain'
  BY <1>a, <1>t, <1>f, <1>r DEF TypeOK, Caller, FamilyIsAChain, Live, Kin, Issued, Rows, Work, Knows
<1>4. Work'
  <2>1. ASSUME NEW d \in Callers, d # c PROVE Knows(d)'
    BY <1>a, <1>f, <2>1 DEF TypeOK, Issued, Work, Knows, Locks, Caller
  <2>2. Knows(c)'
    BY <1>a, <1>t, <1>r DEF TypeOK, Issued, Work, Knows, Locks, Caller
  <2> QED BY <2>1, <2>2 DEF Work
<1>5. Locks'
  BY <1>a, <1>f, LocksStay
<1>6. Apart'
  BY <1>f, <1>r, ApartStays
<1>7. AnswersAreTrue'
  <2>1. ASSUME NEW d \in Callers, d # c PROVE Told(d)'
    BY <1>a, <1>f, <2>1 DEF TypeOK, Issued, AnswersAreTrue, Knows, Told, Work, Locks
  <2>2. Told(c)'
    BY <1>a, <1>t, <1>r DEF TypeOK, Issued, AnswersAreTrue, Knows, Told, Work, Locks
  <2> QED BY <2>1, <2>2 DEF AnswersAreTrue, Told
<1>8. Marks'
  <2> SUFFICES ASSUME NEW d \in Callers, caller'[d].at = "revoke", NEW f \in Touched(d)', NEW x \in (Live \cap Kin(f))'
               PROVE  x \in caller'[d].aim \/ \E p \in caller'[d].aim : next'[p] # None
    BY DEF Marks
  <2>1. d # c /\ caller'[d] = caller[d] /\ caller[d].at = "revoke"
    BY <1>f, <1>r
  <2>2. f \in Touched(d)
    BY <1>a, <2>1 DEF Touched
  <2>3. x \in Live \cap Kin(f)
    BY <1>a DEF Live, Kin, Issued
  <2> QED BY <1>a, <2>1, <2>2, <2>3 DEF Marks
<1> QED BY <1>1, <1>2, <1>3, <1>4, <1>5, <1>6, <1>7, <1>8

\* The answer leaves the request idle.
LEMMA ReplyKeeps ==
  ASSUME IInv, NEW c \in Callers, Reply(c)
  PROVE  IInv'
<1> USE CallersAssumption DEF IInv, Ids, None
<1>a. /\ caller[c].at = "answered"
      /\ UNCHANGED <<family, revoked, next>>
      /\ lock' = lock
  BY DEF Reply, table
<1>t. caller' \in [Callers -> Caller]
  BY DEF TypeOK, Caller, Idle, MaxRetries, Reply
<1>f. \A d \in Callers : d # c => caller'[d] = caller[d]
  BY DEF TypeOK, Reply
<1>r. /\ caller'[c].at = "idle"
      /\ caller'[c].op = "none"
      /\ caller'[c].token = None
      /\ caller'[c].fresh = None
      /\ caller'[c].aim = {}
      /\ caller'[c].answer = "none"
  BY DEF TypeOK, Caller, Idle, Reply
<1>1. TypeOK'
  BY <1>a, <1>t DEF TypeOK
<1>2. Rows'
  BY <1>a DEF Rows, Issued
<1>3. FamilyIsAChain'
  BY <1>a DEF FamilyIsAChain, Live, Kin, Issued
<1>4. Work'
  <2>1. ASSUME NEW d \in Callers, d # c PROVE Knows(d)'
    BY <1>a, <1>f, <2>1 DEF TypeOK, Issued, Work, Knows, Caller
  <2>2. Knows(c)'
    BY <1>a, <1>t, <1>r DEF TypeOK, Issued, Work, Knows, Caller
  <2> QED BY <2>1, <2>2 DEF Work
<1>5. Locks'
  BY <1>a, <1>f, LocksStay
<1>6. Apart'
  BY <1>f, <1>r, ApartStays
<1>7. AnswersAreTrue'
  <2>1. ASSUME NEW d \in Callers, d # c PROVE Told(d)'
    BY <1>a, <1>f, <2>1 DEF TypeOK, Issued, AnswersAreTrue, Told
  <2>2. Told(c)'
    BY <1>a, <1>t, <1>r DEF TypeOK, Issued, AnswersAreTrue, Told
  <2> QED BY <2>1, <2>2 DEF AnswersAreTrue, Told
<1>8. Marks'
  BY <1>a, <1>f, <1>r, MarksStay
<1> QED BY <1>1, <1>2, <1>3, <1>4, <1>5, <1>6, <1>7, <1>8

\* A crash leaves nothing of the transaction.
LEMMA CrashKeeps ==
  ASSUME IInv, NEW c \in Callers, Crash(c)
  PROVE  IInv'
<1> USE CallersAssumption DEF IInv, Ids, None
<1>a. /\ caller[c].at \notin {"idle", "answered"}
      /\ UNCHANGED <<family, revoked, next>>
      /\ lock' = Unlocked(c)
  BY DEF Crash, table
<1>t. caller' \in [Callers -> Caller]
  BY DEF TypeOK, Caller, Idle, MaxRetries, Crash, Unlocked
<1>f. \A d \in Callers : d # c => caller'[d] = caller[d]
  BY DEF TypeOK, Crash, Unlocked
<1>r. /\ caller'[c].at = "idle"
      /\ caller'[c].op = "none"
      /\ caller'[c].token = None
      /\ caller'[c].fresh = None
      /\ caller'[c].aim = {}
      /\ caller'[c].answer = "none"
  BY DEF TypeOK, Caller, Idle, Crash, Unlocked
<1>1. TypeOK'
  BY <1>a, <1>t DEF TypeOK, Unlocked
<1>2. Rows'
  BY <1>a DEF Rows, Issued, Unlocked
<1>3. FamilyIsAChain'
  BY <1>a DEF FamilyIsAChain, Live, Kin, Issued
<1>4. Work'
  <2>1. ASSUME NEW d \in Callers, d # c PROVE Knows(d)'
    BY <1>a, <1>f, <2>1 DEF TypeOK, Issued, Work, Knows, Locks, Caller, Unlocked
  <2>2. Knows(c)'
    BY <1>a, <1>t, <1>r DEF TypeOK, Issued, Work, Knows, Locks, Caller, Unlocked
  <2> QED BY <2>1, <2>2 DEF Work
<1>5. Locks'
  BY <1>a, <1>f, LocksLeft
<1>6. Apart'
  BY <1>f, <1>r, ApartStays
<1>7. AnswersAreTrue'
  <2>1. ASSUME NEW d \in Callers, d # c PROVE Told(d)'
    BY <1>a, <1>f, <2>1 DEF TypeOK, Issued, AnswersAreTrue, Told, Unlocked
  <2>2. Told(c)'
    BY <1>a, <1>t, <1>r DEF TypeOK, Issued, AnswersAreTrue, Told, Unlocked
  <2> QED BY <2>1, <2>2 DEF AnswersAreTrue, Told
<1>8. Marks'
  BY <1>a, <1>f, <1>r, MarksStay
<1> QED BY <1>1, <1>2, <1>3, <1>4, <1>5, <1>6, <1>7, <1>8

-----------------------------------------------------------------------------
\* The empty table keeps it.
LEMMA InitHolds == Init => IInv
<1> SUFFICES ASSUME Init PROVE IInv
  OBVIOUS
<1> USE CallersAssumption DEF Init, Idle, Ids, None
<1>1. TypeOK
  BY DEF TypeOK, Caller, MaxRetries
<1>2. Issued = {}
  BY DEF Issued
<1>3. Rows /\ FamilyIsAChain
  BY <1>2 DEF Rows, FamilyIsAChain, Live, Kin
<1>4. Work /\ Locks /\ Apart /\ AnswersAreTrue /\ Marks
  BY DEF Work, Knows, Locks, Apart, AnswersAreTrue, Marks
<1> QED BY <1>1, <1>3, <1>4 DEF IInv

\* And so does every step.
LEMMA StepKeeps == IInv /\ [Next]_vars => IInv'
<1> SUFFICES ASSUME IInv, [Next]_vars PROVE IInv'
  OBVIOUS
<1>1. CASE UNCHANGED vars
  BY <1>1 DEF vars, table, IInv, TypeOK, Rows, FamilyIsAChain, Work, Knows, Locks, Apart,
              AnswersAreTrue, Marks, Touched, Live, Kin, Issued
<1>2. CASE Next
  BY <1>2, LoginKeeps, RefreshKeeps, LogOutKeeps, RevokeAllKeeps, ReadKeeps, WriteKeeps,
     ConflictKeeps, CommitKeeps, AimKeeps, RevokeKeeps, ReplyKeeps, CrashKeeps DEF Next, GoesOn
<1> QED BY <1>1, <1>2

\* The inductive invariant holds of every behaviour of Sessions.
THEOREM SessionsInvariant == Spec => []IInv
<1>1. Init => IInv
  BY InitHolds
<1>2. IInv /\ [Next]_vars => IInv'
  BY StepKeeps
<1> QED BY <1>1, <1>2, PTL DEF Spec

\* Whatever the requests do and wherever they stop, the rows and what the requests
\* know of them have their types; the retries of withTransaction are bounded.
THEOREM TypeCorrect == Spec => []TypeOK
<1>1. IInv => TypeOK
  BY DEF IInv
<1> QED BY <1>1, SessionsInvariant, PTL

\* rotateSession and issueSession: a family is one chain and its last session the only
\* one that may be live, however many callers present however many tokens at once.
THEOREM FamilyStaysAChain == Spec => []FamilyIsAChain
<1>1. IInv => FamilyIsAChain
  BY DEF IInv
<1> QED BY <1>1, SessionsInvariant, PTL

\* What rotateSession, revokeByRefreshToken and handleReuse answer is so when the
\* answer arrives.
THEOREM CallersAreToldTheTruth == Spec => []AnswersAreTrue
<1>1. IInv => AnswersAreTrue
  BY DEF IInv
<1> QED BY <1>1, SessionsInvariant, PTL

-----------------------------------------------------------------------------
\* A step that answers a revocation is the UPDATE's own.
LEMMA WholeStep ==
  ASSUME IInv, Next, NEW c \in Callers, caller[c].at = "revoke", caller'[c].at = "answered",
         \A s \in caller[c].aim : next[s] = None, NEW f \in Touched(c)
  PROVE  Over(f)'
<1> USE DEF IInv
<1>1. Revoke(c)
  <2>1. PICK d \in Callers :
          \/ \E s \in Ids : Login(d, s) \/ \E t \in Ids : Refresh(d, t, s)
          \/ \E t \in Ids : LogOut(d, t)
          \/ RevokeAll(d)
          \/ GoesOn(d) \/ Conflict(d) \/ Reply(d) \/ Crash(d)
    BY DEF Next
  <2>2. d = c
    BY <2>1 DEF TypeOK, Login, Refresh, LogOut, RevokeAll, Begins, GoesOn, Read, Write, Conflict,
                Abort, Commit, Aim, Revoke, Reply, Crash
  <2>3. caller[c] # Idle
    BY DEF Idle
  <2>4. ~Crash(c)
    BY DEF TypeOK, Crash, Idle
  <2>5. ~(Read(c) \/ Write(c) \/ Conflict(c) \/ Commit(c) \/ Aim(c) \/ Reply(c))
    BY DEF Read, Write, Conflict, Commit, Aim, Reply
  <2> QED BY <2>1, <2>2, <2>3, <2>4, <2>5 DEF Login, Refresh, LogOut, RevokeAll, Begins, GoesOn
<1>2. family' = family /\ revoked' = revoked \cup caller[c].aim
  BY <1>1 DEF Revoke
<1>3. SUFFICES ASSUME NEW s \in Kin(f) PROVE s \in revoked'
  BY <1>2 DEF Over, Kin, Issued
<1>4. CASE s \in revoked
  BY <1>2, <1>4
<1>5. CASE s \notin revoked
  <2>1. s \in Live \cap Kin(f)
    BY <1>5 DEF Live, Kin
  <2>2. s \in caller[c].aim
    BY <2>1 DEF Marks
  <2> QED BY <1>2, <2>2
<1> QED BY <1>4, <1>5

\* revokeSessionFamily and revokeAllUserSessions, as far as the promise is kept: a
\* revocation that met no rotation of the rows it had picked leaves no live session.
THEOREM QuietRevocationIsWhole == Spec => RevocationIsWhole
<1> DEFINE Whole == \A c \in Callers :
      LET k    == caller[c]
          hers == {family[s] : s \in IF k.token = None THEN k.aim ELSE {k.token}}
      IN
      k.at = "revoke" /\ caller'[c].at = "answered" /\ (\A s \in k.aim : next[s] = None)
        => \A f \in hers : Over(f)'
<1>1. IInv /\ [Next]_vars => [Whole]_vars
  BY WholeStep DEF Touched
<1>2. RevocationIsWhole <=> [][Whole]_vars
  BY DEF RevocationIsWhole
<1>3. [][Next]_vars /\ []IInv => [][Whole]_vars
  BY <1>1, PTL
<1> QED BY <1>2, <1>3, SessionsInvariant, PTL DEF Spec

-----------------------------------------------------------------------------
\* The only element of a set of one.
LEMMA TheOneIs == \A s : TheOne({s}) = s
BY DEF TheOne

\* The current session of a family is settled by its rows and their revocations.
LEMMA SameCurrent ==
  ASSUME family' = family, revoked' = revoked
  PROVE  Issued' = Issued /\ Current' = Current
BY DEF Issued, Current, Kin

\* No session, no family.
LEMMA InitRefines == Init => Promise!FInit
BY DEF Init, Promise!FInit, Issued, Current, Kin, Ids, None

\* A login founds a family.
LEMMA FoundRefines ==
  ASSUME IInv, IInv', NEW c \in Callers, NEW s \in Ids, Login(c, s)
  PROVE  Promise!Found(s)
<1> USE DEF IInv, Ids, None
<1>1. s \notin Issued /\ s \notin revoked /\ family' = [family EXCEPT ![s] = s] /\ revoked' = revoked
  BY DEF Login, New, Rows
<1>2. Issued' = Issued \cup {s}
  BY <1>1 DEF Issued, TypeOK
<1>3. \A f \in Ids : f # s => Kin(f)' = Kin(f)
  BY <1>1 DEF Kin, Issued, TypeOK
<1>4. Kin(s)' = {s}
  BY <1>1 DEF Kin, Issued, TypeOK, Rows
<1>5. Current' = [Current EXCEPT ![s] = s]
  BY <1>1, <1>3, <1>4, TheOneIs DEF Current
<1> QED BY <1>1, <1>2, <1>5 DEF Promise!Found

\* A rotation exchanges the token of a family that has not ended.
LEMMA ExchangeRefines ==
  ASSUME IInv, IInv', NEW c \in Callers, Commit(c)
  PROVE  Promise!Exchange(family[caller[c].token], caller[c].fresh)
<1> USE DEF IInv, Ids, None
<1> DEFINE old == caller[c].token
           new == caller[c].fresh
<1>1. /\ family' = [family EXCEPT ![new] = family[old]]
      /\ revoked' = revoked \cup {old}
      /\ old \in Issued /\ old \notin revoked /\ new \in Ids \ Issued /\ new \notin revoked /\ old # new
  BY DEF Commit, Work, Knows, Rows
<1>2. Issued' = Issued \cup {new} /\ family[old] \in Ids /\ family[old] # None
  BY <1>1 DEF Issued, TypeOK
<1>3. \A f \in Ids : f # family[old] => Kin(f)' \ revoked' = Kin(f) \ revoked
  BY <1>1 DEF Kin, Issued, TypeOK
<1>4. Kin(family[old]) \ revoked = {old}
  BY <1>1 DEF FamilyIsAChain, Live, Kin
<1>5. \A f \in Ids : f = family[old] => Kin(f)' = Kin(f) \cup {new}
  BY <1>1, <1>2 DEF Kin, Issued, TypeOK
<1>6. \A f \in Ids : f = family[old] => Kin(f)' \ revoked' = {new}
  BY <1>1, <1>4, <1>5
<1>7. Current' = [Current EXCEPT ![family[old]] = new]
  BY <1>2, <1>3, <1>6, TheOneIs DEF Current
<1>8. Current[family[old]] = old /\ old # None
  <2>1. Current[family[old]] = TheOne({old})
    BY <1>2, <1>4 DEF Current
  <2>2. old # None
    BY <1>1, CallersAssumption DEF Issued
  <2> QED BY <2>1, <2>2, TheOneIs
<1> QED BY <1>1, <1>2, <1>7, <1>8 DEF Promise!Exchange

\* A revocation ends the families of which nothing is left.
LEMMA EndRefines ==
  ASSUME IInv, IInv', NEW c \in Callers, Revoke(c)
  PROVE  \E F \in SUBSET Ids : Promise!End(F)
<1> USE DEF IInv, Ids, None
<1> DEFINE F == {f \in Ids : Kin(f) \ revoked' = {}}
<1>1. family' = family /\ revoked' = revoked \cup caller[c].aim
  BY DEF Revoke
<1>2. \A f \in Ids : Kin(f)' = Kin(f) /\ Issued' = Issued
  BY <1>1 DEF Kin, Issued
<1>3. ASSUME NEW f \in Ids \ F PROVE Kin(f) \ revoked' = Kin(f) \ revoked
  <2>1. PICK s \in Kin(f) \ revoked' : TRUE
    OBVIOUS
  <2>2. Kin(f) \ revoked = {s}
    BY <1>1, <2>1 DEF FamilyIsAChain, Live, Kin
  <2> QED BY <1>1, <2>1, <2>2
<1>4. Current' = [f \in Ids |-> IF f \in F THEN None ELSE Current[f]]
  BY <1>2, <1>3 DEF Current
<1>5. Promise!End(F)
  BY <1>2, <1>4 DEF Promise!End, Issued
<1> QED BY <1>5

\* Nothing else changes what the families show.
LEMMA StepRefines == IInv /\ IInv' /\ [Next]_vars => [Promise!FNext]_(Promise!families)
<1> SUFFICES ASSUME IInv, IInv', [Next]_vars
             PROVE  Promise!FNext \/ UNCHANGED <<Issued, Current>>
  BY DEF Promise!families
<1>1. CASE UNCHANGED vars
  BY <1>1, SameCurrent DEF vars, table
<1>2. CASE Next
  <2>1. PICK c \in Callers :
          \/ \E s \in Ids : Login(c, s) \/ \E t \in Ids : Refresh(c, t, s)
          \/ \E t \in Ids : LogOut(c, t)
          \/ RevokeAll(c)
          \/ GoesOn(c) \/ Conflict(c) \/ Reply(c) \/ Crash(c)
    BY <1>2 DEF Next
  <2>2. ASSUME NEW s \in Ids, Login(c, s) PROVE Promise!FNext
    BY <2>2, FoundRefines DEF Promise!FNext
  <2>3. ASSUME Commit(c) PROVE Promise!FNext
    <3>1. family[caller[c].token] \in Ids /\ caller[c].fresh \in Ids
      BY <2>3 DEF Commit, IInv, Work, Knows, Issued, TypeOK, None, Ids
    <3> QED BY <2>3, <3>1, ExchangeRefines DEF Promise!FNext
  <2>4. ASSUME Revoke(c) PROVE Promise!FNext
    BY <2>4, EndRefines DEF Promise!FNext
  <2>5. ASSUME \/ \E s, t \in Ids : Refresh(c, t, s)
               \/ \E t \in Ids : LogOut(c, t)
               \/ RevokeAll(c) \/ Read(c) \/ Write(c) \/ Conflict(c) \/ Aim(c) \/ Reply(c) \/ Crash(c)
        PROVE  UNCHANGED <<Issued, Current>>
    <3>1. family' = family /\ revoked' = revoked
      BY <2>5 DEF Refresh, LogOut, RevokeAll, Begins, Read, Write, Conflict, Abort, Aim, Reply, Crash, table
    <3> QED BY <3>1, SameCurrent
  <2> QED BY <2>1, <2>2, <2>3, <2>4, <2>5 DEF GoesOn
<1> QED BY <1>1, <1>2

\* The sessions of the code implement the token families of the docs, as TLC shows for
\* two callers: a token is exchanged at most once, and only while it is the current one
\* of a family that has not ended.
THEOREM SessionsImplementFamilies == Spec => ImplementsFamilies
<1>1. Init => Promise!FInit
  BY InitRefines
<1>2. IInv /\ IInv' /\ [Next]_vars => [Promise!FNext]_(Promise!families)
  BY StepRefines
<1> QED BY <1>1, <1>2, SessionsInvariant, PTL DEF Spec, ImplementsFamilies, Promise!FSpec
=============================================================================
