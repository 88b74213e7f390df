--------------------------- MODULE IdentityProofs ---------------------------
(***************************************************************************)
(* What one-time secrets promise, for any number of requests, users,       *)
(* Telegram accounts and codes: a link token makes one link, a code that   *)
(* has authorised something is never found again, and no crowd of wrong    *)
(* guesses gets past the attempts of a code by more than its own number.   *)
(***************************************************************************)
EXTENDS Codes, Links, FiniteSetTheorems, TLAPS

-----------------------------------------------------------------------------
(* Links.  A confirmation has locked its token, and so it finds it unused   *)
(* when it writes.                                                          *)

LinkToken == [user : Users, by : Telegrams \cup {Nobody, Superseded}, expired : BOOLEAN]
Holding   == {l \in Linkers : linker[l].at = "claimed"}

LinksTyped ==
  /\ tokens \in Seq(LinkToken)
  /\ linker \in [Linkers -> {Resting} \cup [at : {"retire", "insert"}, user : Users]
                                      \cup [at : {"claimed"}, token : Nat, telegram : Telegrams]]

ClaimsHold ==
  /\ \A l \in Holding : linker[l].token \in 1..Len(tokens) /\ tokens[linker[l].token].by = Nobody
  /\ \A l, m \in Holding : linker[l].token = linker[m].token => l = m

LinksInv == LinksTyped /\ ClaimsHold

\* What a step of one linker is to the others.
LEMMA LinkerMoves ==
  ASSUME LinksTyped, NEW l \in Linkers, NEW s, Moves(l, s)
  PROVE  linker'[l] = s /\ \A m \in Linkers : m # l => linker'[m] = linker[m]
BY DEF LinksTyped, Moves

\* A linker that holds no token after its step disturbs no claim, if no token that is
\* claimed is written.
LEMMA LetsGo ==
  ASSUME LinksInv, NEW l \in Linkers,
         NEW s \in {Resting} \cup [at : {"retire", "insert"}, user : Users], Moves(l, s),
         tokens' \in Seq(LinkToken), Len(tokens) <= Len(tokens'),
         \A m \in Holding \ {l} : tokens'[linker[m].token].by = tokens[linker[m].token].by
  PROVE  LinksInv'
<1>1. linker'[l] = s /\ \A m \in Linkers : m # l => linker'[m] = linker[m]
  BY LinkerMoves DEF LinksInv
<1>2. s.at # "claimed"
  BY DEF Resting
<1>3. Holding' = Holding \ {l}
  BY <1>1, <1>2 DEF Holding
<1>4. LinksTyped'
  BY DEF LinksInv, LinksTyped, Moves
<1>5. Len(tokens) \in Nat /\ Len(tokens') \in Nat
  BY DEF LinksInv, LinksTyped
<1>6. \A m \in Holding' : m \in Holding /\ m # l /\ linker'[m] = linker[m]
  BY <1>1, <1>3 DEF Holding
<1>7. ClaimsHold'
  BY <1>5, <1>6 DEF LinksInv, ClaimsHold
<1> QED  BY <1>4, <1>7 DEF LinksInv

\* A step of a user, or of time, which moves no linker.
LEMMA NobodyMoves ==
  ASSUME LinksInv, linker' = linker, tokens' \in Seq(LinkToken), Len(tokens) <= Len(tokens'),
         \A m \in Holding : tokens'[linker[m].token].by = tokens[linker[m].token].by
  PROVE  LinksInv'
<1>1. Len(tokens) \in Nat /\ Len(tokens') \in Nat
  BY DEF LinksInv, LinksTyped
<1>2. ClaimsHold'
  BY <1>1 DEF LinksInv, ClaimsHold, Holding
<1> QED  BY <1>2 DEF LinksInv, LinksTyped

\* A token is one after it is used or has expired.
LEMMA TokenUpdates ==
  ASSUME NEW k \in LinkToken, NEW g \in Telegrams \cup {Superseded}
  PROVE  /\ [k EXCEPT !.by = g] \in LinkToken
         /\ [k EXCEPT !.by = g].by = g
         /\ [k EXCEPT !.expired = TRUE] \in LinkToken
         /\ [k EXCEPT !.expired = TRUE].by = k.by
<1>1. [k EXCEPT !.by = g] \in LinkToken /\ [k EXCEPT !.expired = TRUE] \in LinkToken
  BY DEF LinkToken
<1>2. [k EXCEPT !.expired = TRUE].by = k.by
  BY DEF LinkToken
<1>3. [k EXCEPT !.by = g].by = g
  BY DEF LinkToken
<1> QED  BY <1>1, <1>2, <1>3

LEMMA RetireStep ==
  ASSUME LinksInv, NEW l \in Linkers, RetireLinkToken(l)
  PROVE  LinksInv'
<1> DEFINE u == linker[l].user
           R(t) == IF t \in LiveTokens(u) THEN [tokens[t] EXCEPT !.by = Superseded] ELSE tokens[t]
           ts == [t \in 1..Len(tokens) |-> R(t)]
<1>1. /\ linker[l].at = "retire" /\ tokens' = ts
      /\ Moves(l, [linker[l] EXCEPT !.at = "insert"])
      /\ \A t \in LiveTokens(u) : ~TokenLocked(t)
  BY DEF RetireLinkToken
<1>2. tokens \in Seq(LinkToken) /\ Len(tokens) \in Nat
  BY DEF LinksInv, LinksTyped
<1>3. ASSUME NEW t \in 1..Len(tokens)
      PROVE  R(t) \in LinkToken
  <2>1. PICK k \in LinkToken : k = tokens[t]
    BY <1>2
  <2>2. [k EXCEPT !.by = Superseded] \in LinkToken
    BY TokenUpdates
  <2>3. R(t) = IF t \in LiveTokens(u) THEN [k EXCEPT !.by = Superseded] ELSE k
    BY <2>1, Zenon
  <2> QED  BY <2>2, <2>3
<1>4. \A m \in Holding : ts[linker[m].token] = tokens[linker[m].token]
  <2> SUFFICES ASSUME NEW m \in Holding PROVE ts[linker[m].token] = tokens[linker[m].token]
    OBVIOUS
  <2>1. linker[m].token \in 1..Len(tokens) /\ m \in Linkers /\ linker[m].at = "claimed"
    BY DEF LinksInv, ClaimsHold, Holding
  <2>2. TokenLocked(linker[m].token)
    BY <2>1 DEF TokenLocked
  <2> QED  BY <1>1, <2>1, <2>2
<1>5. DOMAIN ts = 1..Len(tokens) /\ ts = [t \in 1..Len(tokens) |-> ts[t]] /\ \A t \in 1..Len(tokens) : ts[t] \in LinkToken
  BY <1>3
<1> HIDE DEF ts
<1>6. ts \in [1..Len(tokens) -> LinkToken]
  BY <1>5
<1>7. ts \in Seq(LinkToken) /\ Len(ts) = Len(tokens)
  BY <1>2, <1>5, <1>6
<1>8. PICK k \in [at : {"retire", "insert"}, user : Users] : k = linker[l]
  BY <1>1 DEF LinksInv, LinksTyped, Resting
<1>9. PICK s \in [at : {"retire", "insert"}, user : Users] : s = [k EXCEPT !.at = "insert"]
  OBVIOUS
<1>10. Moves(l, s)
  BY <1>1, <1>8, <1>9
<1> QED  BY <1>1, <1>2, <1>4, <1>7, <1>10, LetsGo

LEMMA InsertStep ==
  ASSUME LinksInv, NEW l \in Linkers, InsertLinkToken(l)
  PROVE  LinksInv'
<1> DEFINE new == [user |-> linker[l].user, by |-> Nobody, expired |-> FALSE]
<1>1. linker[l].at = "insert" /\ tokens' \in {tokens, Append(tokens, new)} /\ Moves(l, Resting)
  BY DEF InsertLinkToken
<1>2. tokens \in Seq(LinkToken) /\ Len(tokens) \in Nat
  BY DEF LinksInv, LinksTyped
<1>3. linker[l].user \in Users
  BY <1>1 DEF LinksInv, LinksTyped, Resting
<1>4. new \in LinkToken
  BY <1>3 DEF LinkToken
<1> HIDE DEF new
<1>5. /\ tokens' \in Seq(LinkToken) /\ Len(tokens) <= Len(tokens')
      /\ \A t \in 1..Len(tokens) : tokens'[t] = tokens[t]
  BY <1>1, <1>2, <1>4
<1>6. \A m \in Holding : tokens'[linker[m].token] = tokens[linker[m].token]
  BY <1>5 DEF LinksInv, ClaimsHold
<1> QED  BY <1>1, <1>5, <1>6, LetsGo

LEMMA ConfirmStep ==
  ASSUME LinksInv, NEW l \in Linkers, NEW t \in 1..Len(tokens), NEW g \in Telegrams, ConfirmLink(l, t, g)
  PROVE  LinksInv'
<1> DEFINE s == [at |-> "claimed", token |-> t, telegram |-> g]
<1>1. linker[l] = Resting /\ ~TokenLocked(t) /\ tokens[t].by = Nobody /\ Moves(l, s) /\ tokens' = tokens
  BY DEF ConfirmLink
<1>2. linker'[l] = s /\ \A m \in Linkers : m # l => linker'[m] = linker[m]
  BY <1>1, LinkerMoves DEF LinksInv
<1>3. Len(tokens) \in Nat /\ t \in Nat
  BY DEF LinksInv, LinksTyped
<1>4. LinksTyped'
  BY <1>1, <1>3 DEF LinksInv, LinksTyped, Moves
<1>5. \A m \in Holding : m # l /\ linker[m].token # t
  BY <1>1 DEF Holding, Resting, TokenLocked
<1>6. Holding' = Holding \cup {l}
  BY <1>2, <1>5 DEF Holding
<1>7. linker'[l].token = t /\ \A m \in Holding : linker'[m] = linker[m]
  BY <1>2, <1>5 DEF Holding
<1>8. ClaimsHold'
  BY <1>1, <1>5, <1>6, <1>7 DEF LinksInv, ClaimsHold
<1> QED  BY <1>4, <1>8 DEF LinksInv

LEMMA LinkAccountStep ==
  ASSUME LinksInv, NEW l \in Linkers, LinkAccount(l)
  PROVE  /\ LinksInv'
         /\ \A a \in accounts' \ accounts :
              \E t \in 1..Len(tokens) :
                tokens[t].user = a.user /\ tokens[t].by = Nobody /\ tokens'[t].by = a.telegram
<1> DEFINE t == linker[l].token
           g == linker[l].telegram
           u == tokens[t].user
<1>1. l \in Holding /\ Moves(l, Resting)
  BY DEF LinkAccount, Holding
<1>2. t \in 1..Len(tokens) /\ tokens[t].by = Nobody
  BY <1>1 DEF LinksInv, ClaimsHold
<1>3. tokens \in Seq(LinkToken) /\ Len(tokens) \in Nat
  BY DEF LinksInv, LinksTyped
<1>4. g \in Telegrams
  BY <1>1 DEF LinksInv, LinksTyped, Holding, Resting
<1>5. CASE UNCHANGED <<tokens, accounts>>
  BY <1>1, <1>3, <1>5, LetsGo
<1>6. CASE accounts' = CreateTelegramAccount(u, g) /\ tokens' = MarkLinkTokenConsumed(t, g)
  <2>1. PICK k \in LinkToken : k = tokens[t]
    BY <1>2, <1>3
  <2>2. PICK j \in LinkToken : j = [k EXCEPT !.by = g] /\ j.by = g
    <3> HIDE DEF g
    <3> QED  BY <1>4, TokenUpdates, Zenon
  <2>3. tokens' = [tokens EXCEPT ![t] = j]
    BY <1>6, <2>1, <2>2 DEF MarkLinkTokenConsumed
  <2> HIDE DEF t, g
  <2>4. tokens' \in Seq(LinkToken) /\ Len(tokens') = Len(tokens)
    BY <1>2, <1>3, <2>3
  <2>5. tokens'[t].by = g /\ \A x \in 1..Len(tokens) : x # t => tokens'[x] = tokens[x]
    BY <1>2, <1>3, <2>2, <2>3
  <2>6. \A m \in Holding \ {l} : linker[m].token # t /\ linker[m].token \in 1..Len(tokens)
    BY <1>1 DEF LinksInv, ClaimsHold, t
  <2>7. LinksInv'
    BY <1>1, <1>3, <2>4, <2>5, <2>6, LetsGo
  <2>8. \A a \in accounts' \ accounts : a.user = u /\ a.telegram = g
    BY <1>6 DEF CreateTelegramAccount
  <2> QED  BY <1>2, <2>5, <2>7, <2>8
<1> QED  BY <1>5, <1>6 DEF LinkAccount

LEMMA ExpireStep ==
  ASSUME LinksInv, NEW t \in 1..Len(tokens), ExpireToken(t)
  PROVE  LinksInv'
<1>1. tokens \in Seq(LinkToken) /\ Len(tokens) \in Nat
  BY DEF LinksInv, LinksTyped
<1>2. PICK k \in LinkToken : k = tokens[t]
  BY <1>1
<1>3. PICK j \in LinkToken : j = [k EXCEPT !.expired = TRUE] /\ j.by = k.by
  BY TokenUpdates, Zenon
<1>4. tokens' = [tokens EXCEPT ![t] = j] /\ linker' = linker
  BY <1>2, <1>3 DEF ExpireToken
<1>5. tokens' \in Seq(LinkToken) /\ Len(tokens') = Len(tokens)
  BY <1>1, <1>4
<1>6. \A x \in 1..Len(tokens) : tokens'[x].by = tokens[x].by
  BY <1>1, <1>2, <1>3, <1>4
<1> QED  BY <1>1, <1>4, <1>5, <1>6, NobodyMoves DEF LinksInv, ClaimsHold

\* Locked tokens stay unused until their holder writes, whoever else steps.
THEOREM LinksInvariant == LkSpec => []LinksInv
<1>1. LInit => LinksInv
  BY DEF LInit, LinksInv, LinksTyped, ClaimsHold, Holding, Resting
<1>2. LinksInv /\ [LNext]_lVars => LinksInv'
  <2> SUFFICES ASSUME LinksInv, [LNext]_lVars PROVE LinksInv'
    OBVIOUS
  <2>0. tokens \in Seq(LinkToken) /\ Len(tokens) \in Nat
    BY DEF LinksInv, LinksTyped
  <2>1. CASE UNCHANGED lVars
    BY <2>1 DEF lVars, LinksInv, LinksTyped, ClaimsHold, Holding
  <2>2. ASSUME NEW l \in Linkers, NEW u \in Users, CreateLinkToken(l, u)
        PROVE  LinksInv'
    <3> DEFINE s == [at |-> "retire", user |-> u]
    <3>1. s \in [at : {"retire", "insert"}, user : Users] /\ Moves(l, s) /\ tokens' = tokens
      BY <2>2 DEF CreateLinkToken
    <3> HIDE DEF s
    <3> QED  BY <2>0, <3>1, LetsGo
  <2>3. ASSUME NEW l \in Linkers, AbandonLink(l)
        PROVE  LinksInv'
    BY <2>0, <2>3, LetsGo DEF AbandonLink
  <2>4. ASSUME NEW u \in Users, UnlinkTelegram(u)
        PROVE  LinksInv'
    BY <2>0, <2>4, NobodyMoves DEF UnlinkTelegram
  <2> QED  BY <2>1, <2>2, <2>3, <2>4, RetireStep, InsertStep, ConfirmStep, LinkAccountStep, ExpireStep
           DEF LNext, LinkStep
<1> QED  BY <1>1, <1>2, PTL DEF LkSpec

\* confirmLink: each link uses up a token of its user that was unused, and which names
\* the Telegram account from then on.
THEOREM TokensMakeOneLink == LkSpec => TokenIsSingleUse
<1>1. LinksInv /\ [LNext]_lVars =>
        [\A a \in accounts' \ accounts :
           \E t \in 1..Len(tokens) :
             tokens[t].user = a.user /\ tokens[t].by = Nobody /\ tokens'[t].by = a.telegram]_lVars
  <2> SUFFICES ASSUME LinksInv, LNext
               PROVE  \A a \in accounts' \ accounts :
                        \E t \in 1..Len(tokens) :
                          tokens[t].user = a.user /\ tokens[t].by = Nobody /\ tokens'[t].by = a.telegram
    OBVIOUS
  <2>1. CASE \E l \in Linkers : LinkAccount(l)
    BY <2>1, LinkAccountStep
  <2>2. CASE accounts' \subseteq accounts
    BY <2>2
  <2>3. (\E l \in Linkers : LinkAccount(l)) \/ accounts' \subseteq accounts
    BY DEF LNext, LinkStep, CreateLinkToken, RetireLinkToken, InsertLinkToken, ConfirmLink, AbandonLink,
           UnlinkTelegram, DeleteTelegramAccount, ExpireToken
  <2> QED  BY <2>1, <2>2, <2>3
<1> QED  BY <1>1, LinksInvariant, PTL DEF LkSpec, TokenIsSingleUse

-----------------------------------------------------------------------------
(* Codes.  A code is in one row at most, and stays out of all others; so    *)
(* the request that was told that it is right spends the row that has it,   *)
(* or a row that has another code by now.                                   *)

Ch  == [purpose : Purposes \cup {"login"}, code : Nat, attempts : Nat, sends : Nat,
        warm : BOOLEAN, expired : BOOLEAN, consumed : BOOLEAN]
Req == [at : {"idle", "look", "find", "write", "verify", "count", "exhaust", "consume", "commit", "password"},
        purpose : Purposes \cup {"login"}, row : Nat, code : Nat]

CodesTyped ==
  /\ rows \in Seq(Ch) /\ sent \in Nat
  /\ request \in [Callers -> Req]
  /\ accepted \in [Codes -> Nat]

\* What a request knows of rows and codes.
Safe(q) ==
  /\ q.at \in {"count", "exhaust", "consume", "commit"} => q.row \in 1..Len(rows)
  /\ q.at = "write" => q.row \in 0..Len(rows)
  /\ q.at \in {"consume", "commit"} =>
       q.code \in 1..sent /\ \A j \in 1..Len(rows) : rows[j].code = q.code => j = q.row

RowsApart ==
  /\ \A i \in 1..Len(rows) : rows[i].code \in 1..sent
  /\ \A i, j \in 1..Len(rows) : rows[i].code = rows[j].code => i = j

AcceptedAreGone ==
  \A k \in Codes : accepted[k] > 0 => k <= sent /\ \A i \in 1..Len(rows) : rows[i].code = k => rows[i].consumed

CodesInv == CodesTyped /\ RowsApart /\ AcceptedAreGone /\ \A c \in Callers : Safe(request[c])

\* The rows keep their codes, and what is consumed.
RowsKept ==
  /\ rows' \in Seq(Ch) /\ Len(rows') = Len(rows)
  /\ \A i \in 1..Len(rows) : rows'[i].code = rows[i].code /\ (rows[i].consumed => rows'[i].consumed)

LEMMA ChallengeUpdates ==
  ASSUME NEW r \in Ch, NEW n \in Nat
  PROVE  /\ [r EXCEPT !.attempts = @ + 1] \in Ch
         /\ [r EXCEPT !.attempts = @ + 1].code = r.code
         /\ [r EXCEPT !.attempts = @ + 1].consumed = r.consumed
         /\ [r EXCEPT !.consumed = TRUE, !.attempts = n] \in Ch
         /\ [r EXCEPT !.consumed = TRUE, !.attempts = n].code = r.code
         /\ [r EXCEPT !.consumed = TRUE, !.attempts = n].consumed
         /\ [r EXCEPT !.consumed = TRUE] \in Ch
         /\ [r EXCEPT !.consumed = TRUE].code = r.code
         /\ [r EXCEPT !.consumed = TRUE].consumed
<1>1. [r EXCEPT !.attempts = @ + 1] \in Ch
  BY DEF Ch
<1>2. [r EXCEPT !.attempts = @ + 1].code = r.code
  BY DEF Ch
<1>3. [r EXCEPT !.attempts = @ + 1].consumed = r.consumed
  BY DEF Ch
<1>4. [r EXCEPT !.consumed = TRUE, !.attempts = n] \in Ch
  BY DEF Ch
<1>5. [r EXCEPT !.consumed = TRUE, !.attempts = n].code = r.code
  BY DEF Ch
<1>6. [r EXCEPT !.consumed = TRUE, !.attempts = n].consumed
  BY DEF Ch
<1>7. [r EXCEPT !.consumed = TRUE] \in Ch
  BY DEF Ch
<1>8. [r EXCEPT !.consumed = TRUE].code = r.code
  BY DEF Ch
<1>9. [r EXCEPT !.consumed = TRUE].consumed
  BY DEF Ch
<1> QED  BY <1>1, <1>2, <1>3, <1>4, <1>5, <1>6, <1>7, <1>8, <1>9

LEMMA TimeUpdates ==
  ASSUME NEW r \in Ch
  PROVE  /\ [r EXCEPT !.warm = FALSE] \in Ch /\ [r EXCEPT !.expired = TRUE] \in Ch
         /\ [r EXCEPT !.warm = FALSE].code = r.code /\ [r EXCEPT !.expired = TRUE].code = r.code
         /\ [r EXCEPT !.warm = FALSE].consumed = r.consumed
         /\ [r EXCEPT !.expired = TRUE].consumed = r.consumed
<1>1. [r EXCEPT !.warm = FALSE] \in Ch /\ [r EXCEPT !.expired = TRUE] \in Ch
  BY DEF Ch
<1>2. [r EXCEPT !.warm = FALSE].code = r.code /\ [r EXCEPT !.expired = TRUE].code = r.code
  BY DEF Ch
<1>3. [r EXCEPT !.warm = FALSE].consumed = r.consumed
  BY DEF Ch
<1>4. [r EXCEPT !.expired = TRUE].consumed = r.consumed
  BY DEF Ch
<1> QED  BY <1>1, <1>2, <1>3, <1>4

Stage == {"idle", "look", "find", "write", "verify", "count", "exhaust", "consume", "commit", "password"}

LEMMA RequestGoes ==
  ASSUME NEW q \in Req, NEW a \in Stage
  PROVE  /\ [q EXCEPT !.at = a] \in Req
         /\ [q EXCEPT !.at = a].at = a /\ [q EXCEPT !.at = a].row = q.row /\ [q EXCEPT !.at = a].code = q.code
<1>1. [q EXCEPT !.at = a] \in Req
  BY DEF Req, Stage
<1>2. [q EXCEPT !.at = a].at = a /\ [q EXCEPT !.at = a].row = q.row /\ [q EXCEPT !.at = a].code = q.code
  BY DEF Req
<1> QED  BY <1>1, <1>2

\* A request that has found row n, and one that has read its code m too.
Finds(q, n, a)    == [q EXCEPT !.row = n, !.at = a]
Reads(q, n, m, a) == [q EXCEPT !.row = n, !.code = m, !.at = a]

LEMMA RequestFinds ==
  ASSUME NEW q \in Req, NEW n \in Nat, NEW a \in Stage
  PROVE  Finds(q, n, a) \in Req /\ Finds(q, n, a).at = a /\ Finds(q, n, a).row = n
<1>1. Finds(q, n, a) \in Req
  BY DEF Req, Stage, Finds
<1>2. Finds(q, n, a).at = a /\ Finds(q, n, a).row = n
  BY DEF Req, Finds
<1> QED  BY <1>1, <1>2

LEMMA RequestReads ==
  ASSUME NEW q \in Req, NEW n \in Nat, NEW m \in Nat, NEW a \in Stage
  PROVE  /\ Reads(q, n, m, a) \in Req
         /\ Reads(q, n, m, a).at = a /\ Reads(q, n, m, a).row = n /\ Reads(q, n, m, a).code = m
<1>1. Reads(q, n, m, a) \in Req
  BY DEF Req, Stage, Reads
<1>2. Reads(q, n, m, a).at = a
  BY DEF Req, Reads
<1>3. Reads(q, n, m, a).row = n
  BY DEF Req, Reads
<1>4. Reads(q, n, m, a).code = m
  BY DEF Req, Reads
<1> QED  BY <1>1, <1>2, <1>3, <1>4

\* One row is written, and keeps its code.
LEMMA RowWritten ==
  ASSUME CodesTyped, NEW i \in 1..Len(rows), NEW r \in Ch, rows' = [rows EXCEPT ![i] = r],
         r.code = rows[i].code, rows[i].consumed => r.consumed
  PROVE  RowsKept /\ rows'[i] = r
<1>1. rows \in Seq(Ch) /\ Len(rows) \in Nat
  BY DEF CodesTyped
<1>2. rows' \in Seq(Ch) /\ Len(rows') = Len(rows)
  BY <1>1
<1>3. rows'[i] = r /\ \A j \in 1..Len(rows) : j # i => rows'[j] = rows[j]
  BY <1>1
<1> QED  BY <1>2, <1>3 DEF RowsKept

\* A request goes on with what is safe to know, and the rows keep their codes.
LEMMA RequestMoves ==
  ASSUME CodesInv, NEW c \in Callers, NEW q \in Req, request' = [request EXCEPT ![c] = q],
         RowsKept, sent' = sent, accepted' = accepted, Safe(q)
  PROVE  CodesInv'
<1>1. CodesTyped /\ RowsApart /\ AcceptedAreGone
  BY DEF CodesInv
<1>2. Len(rows) \in Nat /\ Len(rows') = Len(rows)
  BY <1>1 DEF CodesTyped, RowsKept
<1>3. request'[c] = q /\ \A d \in Callers : d # c => request'[d] = request[d]
  BY <1>1 DEF CodesTyped
<1>4. \A d \in Callers : Safe(request'[d])
  BY <1>3 DEF CodesInv
<1>5. \A d \in Callers : Safe(request[d])'
  BY <1>2, <1>4 DEF Safe, RowsKept
<1>6. CodesTyped'
  BY <1>1 DEF CodesTyped, RowsKept
<1>7. RowsApart' /\ AcceptedAreGone'
  BY <1>1, <1>2 DEF RowsApart, AcceptedAreGone, RowsKept
<1> QED  BY <1>5, <1>6, <1>7 DEF CodesInv

\* A request that knows nothing, or nothing new, and rows as they are.
LEMMA SafeRequests ==
  ASSUME CodesInv
  PROVE  /\ Idle \in Req /\ Safe(Idle)
         /\ \A q \in Req : q.at \in {"idle", "look", "find", "verify", "password"} => Safe(q)
         /\ rows' = rows => RowsKept
         /\ \A c \in Callers : request[c] \in Req /\ Safe(request[c])
         /\ rows \in Seq(Ch) /\ Len(rows) \in Nat /\ sent \in Nat
<1>1. Idle \in Req /\ Idle.at = "idle"
  BY DEF Idle, Req
<1>2. \A q \in Req : q.at \in {"idle", "look", "find", "verify", "password"} => Safe(q)
  BY DEF Safe
<1>3. rows' = rows => RowsKept
  BY DEF CodesInv, CodesTyped, RowsKept
<1> QED  BY <1>1, <1>2, <1>3 DEF CodesInv, CodesTyped

LEMMA StartsStep ==
  ASSUME CodesInv, NEW c \in Callers, NEW at \in {"look", "verify"}, NEW purpose, Starts(c, at, purpose)
  PROVE  CodesInv'
<1>1. PICK k \in Req : k = Idle
  BY SafeRequests
<1>2. purpose \in Purposes /\ UNCHANGED <<rows, sent, accepted>>
      /\ request' = [request EXCEPT ![c] = [k EXCEPT !.at = at, !.purpose = purpose]]
  BY <1>1 DEF Starts
<1>3. [k EXCEPT !.at = at, !.purpose = purpose] \in Req
  BY <1>2 DEF Req
<1>4. [k EXCEPT !.at = at, !.purpose = purpose].at = at
  BY DEF Req
<1>5. PICK q \in Req : q = [k EXCEPT !.at = at, !.purpose = purpose] /\ q.at = at
  BY <1>3, <1>4, Zenon
<1> QED  BY <1>2, <1>5, SafeRequests, RequestMoves

LEMMA EndsStep ==
  ASSUME CodesInv, NEW c \in Callers, Ends(c), RowsKept, UNCHANGED <<sent, accepted>>
  PROVE  CodesInv'
BY SafeRequests, RequestMoves DEF Ends

\* A request goes on, with the row and the code that it knows.
LEMMA GoesStep ==
  ASSUME CodesInv, NEW c \in Callers,
         NEW at \in {"look", "find", "verify", "password", "exhaust", "commit"}, Goes(c, at),
         at = "exhaust" => request[c].at = "count", at = "commit" => request[c].at = "consume",
         RowsKept, UNCHANGED <<sent, accepted>>
  PROVE  CodesInv'
<1>1. PICK k \in Req : k = request[c] /\ Safe(k)
  BY SafeRequests
<1>2. PICK q \in Req : q = [k EXCEPT !.at = at] /\ q.at = at /\ q.row = k.row /\ q.code = k.code
  <2>1. at \in Stage
    BY DEF Stage
  <2> QED  BY <2>1, RequestGoes, Zenon
<1>3. request' = [request EXCEPT ![c] = q]
  BY <1>1, <1>2 DEF Goes
<1>4. Safe(q)
  BY <1>1, <1>2 DEF Safe
<1> QED  BY <1>3, <1>4, RequestMoves

LEMMA FindStep ==
  ASSUME CodesInv, NEW c \in Callers, FindChallenge(c)
  PROVE  CodesInv'
<1> DEFINE live == FindLiveOtp(request[c].purpose)
<1>1. PICK i \in IF live = {} THEN {0} ELSE live :
        request' = [request EXCEPT ![c] = [@ EXCEPT !.at = "write", !.row = i]]
  BY DEF FindChallenge
<1>2. UNCHANGED <<rows, sent, accepted>> /\ i \in 0..Len(rows)
  BY SafeRequests DEF FindChallenge, FindLiveOtp
<1>3. PICK k \in Req : k = request[c]
  BY SafeRequests
<1>4. i \in Nat /\ "write" \in Stage
  BY <1>2, SafeRequests DEF Stage
<1> DEFINE q == Finds(k, i, "write")
<1>5. q \in Req /\ q.at = "write" /\ q.row = i
  BY <1>4, RequestFinds
<1>7. request' = [request EXCEPT ![c] = q]
  BY <1>1, <1>3 DEF Finds
<1> HIDE DEF q
<1>6. Safe(q)
  BY <1>2, <1>5 DEF Safe
<1> QED  BY <1>2, <1>5, <1>7, <1>6, SafeRequests, RequestMoves

LEMMA VerifyStep ==
  ASSUME CodesInv, NEW c \in Callers, NEW guess, VerifyOtp(c, guess)
  PROVE  CodesInv'
<1>1. UNCHANGED <<rows, sent, accepted>> /\ RowsKept
  BY SafeRequests DEF VerifyOtp
<1>2. CASE Ends(c)
  BY <1>1, <1>2, EndsStep
<1>3. ASSUME NEW i \in FindLiveOtp(request[c].purpose),
             request' = [request EXCEPT ![c] =
               IF rows[i].expired \/ rows[i].attempts >= MaxAttempts
               THEN [@ EXCEPT !.row = i, !.at = "exhaust"]
               ELSE [@ EXCEPT !.row = i, !.code = rows[i].code,
                              !.at = IF guess = rows[i].code THEN "consume" ELSE "count"]]
      PROVE  CodesInv'
  <2>1. i \in 1..Len(rows) /\ i \in Nat /\ rows[i].code \in Nat
    BY SafeRequests DEF FindLiveOtp, CodesInv, RowsApart
  <2>2. PICK k \in Req : k = request[c]
    BY SafeRequests
  <2>3. PICK n \in Nat : n = rows[i].code
    BY <2>1
  <2>4. PICK a \in {"consume", "count"} : a = IF guess = rows[i].code THEN "consume" ELSE "count"
    OBVIOUS
  <2>s. "exhaust" \in Stage /\ a \in Stage
    BY DEF Stage
  <2> DEFINE e == Finds(k, i, "exhaust")
             v == Reads(k, i, n, a)
  <2>5. e \in Req /\ e.row = i /\ e.at = "exhaust"
    BY <2>1, <2>s, RequestFinds
  <2>6. v \in Req /\ v.row = i /\ v.code = n /\ v.at = a
    <3>1. k \in Req /\ i \in Nat /\ n \in Nat /\ a \in Stage
      BY <2>1, <2>s
    <3>2. Reads(k, i, n, a) \in Req
      BY <3>1, RequestReads
    <3>3. Reads(k, i, n, a).row = i /\ Reads(k, i, n, a).code = n /\ Reads(k, i, n, a).at = a
      BY <3>1, RequestReads
    <3> QED  BY <3>2, <3>3
  <2>7. request' = [request EXCEPT ![c] = e] \/ request' = [request EXCEPT ![c] = v]
    <3>1. request' = [request EXCEPT ![c] =
            IF rows[i].expired \/ rows[i].attempts >= MaxAttempts
            THEN Finds(request[c], i, "exhaust")
            ELSE Reads(request[c], i, rows[i].code, IF guess = rows[i].code THEN "consume" ELSE "count")]
      BY <1>3 DEF Finds, Reads
    <3>2. e = Finds(request[c], i, "exhaust")
      BY <2>2
    <3>3. v = Reads(request[c], i, rows[i].code, IF guess = rows[i].code THEN "consume" ELSE "count")
      BY <2>2, <2>3, <2>4
    <3> HIDE DEF e, v
    <3> QED  BY <3>1, <3>2, <3>3
  <2> HIDE DEF e, v
  <2>8. Safe(e)
    BY <2>1, <2>5 DEF Safe
  <2>9. Safe(v)
    BY <2>1, <2>3, <2>6 DEF Safe, CodesInv, RowsApart
  <2> QED  BY <1>1, <2>5, <2>6, <2>7, <2>8, <2>9, RequestMoves
<1> QED  BY <1>2, <1>3 DEF VerifyOtp

LEMMA CountStep ==
  ASSUME CodesInv, NEW c \in Callers, CountAttempt(c)
  PROVE  CodesInv'
<1> DEFINE i == request[c].row
<1>1. request[c].at = "count" /\ UNCHANGED <<sent, accepted>>
  BY DEF CountAttempt, At
<1>2. i \in 1..Len(rows)
  BY <1>1, SafeRequests DEF Safe
<1>3. PICK r \in Ch : r = rows[i]
  BY <1>2, SafeRequests
<1>4. PICK x \in Ch : x = [r EXCEPT !.attempts = @ + 1] /\ x.code = r.code /\ x.consumed = r.consumed
  <2>1. [r EXCEPT !.attempts = @ + 1] \in Ch
    BY ChallengeUpdates
  <2>2. [r EXCEPT !.attempts = @ + 1].code = r.code /\ [r EXCEPT !.attempts = @ + 1].consumed = r.consumed
    BY ChallengeUpdates
  <2> QED  BY <2>1, <2>2, Zenon
<1>5. rows' = rows \/ rows' = [rows EXCEPT ![i] = x]
  BY <1>3, <1>4 DEF CountAttempt, IncrementOtpAttempts
<1> HIDE DEF i
<1>6. RowsKept
  <2>1. CASE rows' = rows
    BY <2>1, SafeRequests
  <2>2. CASE rows' = [rows EXCEPT ![i] = x]
    BY <1>2, <1>3, <1>4, <2>2, RowWritten DEF CodesInv
  <2> QED  BY <1>5, <2>1, <2>2
<1>7. Ends(c) \/ Goes(c, "exhaust")
  BY DEF CountAttempt, Rejected
<1> QED  BY <1>1, <1>6, <1>7, EndsStep, GoesStep

LEMMA ExhaustStep ==
  ASSUME CodesInv, NEW c \in Callers, ExhaustOtp(c)
  PROVE  CodesInv'
<1> DEFINE i == request[c].row
<1>1. request[c].at = "exhaust" /\ UNCHANGED <<sent, accepted>> /\ Ends(c)
  BY DEF ExhaustOtp, At, Rejected
<1>2. i \in 1..Len(rows)
  BY <1>1, SafeRequests DEF Safe
<1>3. PICK r \in Ch : r = rows[i]
  BY <1>2, SafeRequests
<1>4. PICK x \in Ch : x = [r EXCEPT !.consumed = TRUE, !.attempts = MaxAttempts] /\ x.code = r.code /\ x.consumed
  <2>1. PICK n \in Nat : n = MaxAttempts
    BY CodesAssumption
  <2>2. [r EXCEPT !.consumed = TRUE, !.attempts = n] \in Ch
    BY ChallengeUpdates
  <2>3. [r EXCEPT !.consumed = TRUE, !.attempts = n].code = r.code /\ [r EXCEPT !.consumed = TRUE, !.attempts = n].consumed
    BY ChallengeUpdates
  <2> QED  BY <2>1, <2>2, <2>3, Zenon
<1>5. rows' = [rows EXCEPT ![i] = x]
  BY <1>3, <1>4 DEF ExhaustOtp
<1> HIDE DEF i
<1>6. RowsKept
  BY <1>2, <1>3, <1>4, <1>5, RowWritten DEF CodesInv
<1> QED  BY <1>1, <1>6, EndsStep

\* A code that goes into a row is a new one: no request and no other row has it.
LEMMA UpsertStep ==
  ASSUME CodesInv, NEW c \in Callers, UpsertOtpChallenge(c)
  PROVE  CodesInv'
<1>1. request[c].at = "write" /\ accepted' = accepted /\ Ends(c)
  BY DEF UpsertOtpChallenge, At
<1>2. CASE UNCHANGED <<rows, sent>>
  BY <1>1, <1>2, SafeRequests, EndsStep
<1>3. ASSUME rows' \in Seq(Ch), sent' = sent + 1, NEW i \in Nat, i \in 1..Len(rows'), Len(rows) <= Len(rows'),
             Len(rows') <= Len(rows) + 1, i = Len(rows) + 1 \/ Len(rows') = Len(rows),
             rows'[i].code = sent + 1,
             \A j \in 1..Len(rows') : j # i => j \in 1..Len(rows) /\ rows'[j] = rows[j]
      PROVE  CodesInv'
  <2>1. Len(rows) \in Nat /\ Len(rows') \in Nat /\ sent \in Nat
    BY <1>3, SafeRequests
  <2>2. RowsApart /\ AcceptedAreGone
    BY DEF CodesInv
  <2>3. RowsApart'
    <3>1. \A j \in 1..Len(rows') : rows'[j].code \in 1..(sent + 1) /\ (j # i => rows'[j].code <= sent)
      BY <1>3, <2>1, <2>2 DEF RowsApart
    <3>2. ASSUME NEW j \in 1..Len(rows'), NEW k \in 1..Len(rows'), rows'[j].code = rows'[k].code
          PROVE  j = k
      <4>1. j = i <=> k = i
        BY <1>3, <2>1, <3>1, <3>2
      <4> QED  BY <1>3, <2>2, <3>2, <4>1 DEF RowsApart
    <3> QED  BY <1>3, <3>1, <3>2 DEF RowsApart
  <2>4. AcceptedAreGone'
    <3>1. ASSUME NEW k \in Codes, accepted[k] > 0, NEW j \in 1..Len(rows'), rows'[j].code = k
          PROVE  rows'[j].consumed
      <4>1. k <= sent
        BY <2>2, <3>1 DEF AcceptedAreGone
      <4>2. j # i
        BY <1>3, <2>1, <3>1, <4>1, CodesAssumption DEF Codes
      <4> QED  BY <1>3, <2>2, <3>1, <4>2 DEF AcceptedAreGone
    <3>2. \A k \in Codes : accepted[k] > 0 => k <= sent + 1
      BY <2>1, <2>2, CodesAssumption DEF AcceptedAreGone, Codes
    <3> QED  BY <1>1, <1>3, <3>1, <3>2 DEF AcceptedAreGone
  <2>5. request'[c] = Idle /\ \A d \in Callers : d # c => request'[d] = request[d]
    BY <1>1 DEF Ends, CodesInv, CodesTyped
  <2>6. CodesTyped'
    BY <1>1, <1>3, <2>1, SafeRequests DEF Ends, CodesInv, CodesTyped
  <2>7. \A d \in Callers : Safe(request[d])'
    <3>1. \A d \in Callers : request'[d] \in Req /\ Safe(request'[d])
      BY <2>5, SafeRequests
    <3>2. ASSUME NEW q \in Req, Safe(q), q.at \in {"consume", "commit"}
          PROVE  q.code \in 1..sent' /\ \A j \in 1..Len(rows') : rows'[j].code = q.code => j = q.row
      BY <1>3, <2>1, <3>2 DEF Safe
    <3> QED  BY <1>3, <2>1, <3>1, <3>2 DEF Safe
  <2> QED  BY <2>3, <2>4, <2>6, <2>7 DEF CodesInv
<1>4. CASE rows' = [rows EXCEPT ![request[c].row] = Resent(@, sent + 1)] /\ sent' = sent + 1 /\ request[c].row # 0
  <2> DEFINE i == request[c].row
  <2>1. i \in 1..Len(rows) /\ i \in Nat
    BY <1>1, <1>4, SafeRequests DEF Safe
  <2>2. PICK r \in Ch : r = rows[i]
    BY <2>1, SafeRequests
  <2>3. PICK x \in Ch : x = Resent(r, sent + 1) /\ x.code = sent + 1
    <3>1. PICK n \in Nat : n = sent + 1
      BY SafeRequests
    <3>2. PICK m \in Nat : m = r.sends + 1
      BY DEF Ch
    <3>3. [r EXCEPT !.code = n, !.attempts = 0, !.expired = FALSE, !.sends = m, !.warm = TRUE] \in Ch
      BY DEF Ch
    <3>4. Resent(r, n) = [r EXCEPT !.code = n, !.attempts = 0, !.expired = FALSE, !.sends = m, !.warm = TRUE]
      BY <3>2, Zenon DEF Resent
    <3>5. Resent(r, n) \in Ch
      BY <3>3, <3>4
    <3>6. Resent(r, n).code = n
      BY DEF Resent, Ch
    <3> QED  BY <3>1, <3>5, <3>6
  <2>4. rows' = [rows EXCEPT ![i] = x]
    BY <1>4, <2>2, <2>3
  <2> HIDE DEF i
  <2>5. rows' \in Seq(Ch) /\ Len(rows') = Len(rows) /\ rows'[i] = x /\ \A j \in 1..Len(rows) : j # i => rows'[j] = rows[j]
    BY <2>1, <2>4, SafeRequests
  <2> QED  BY <1>3, <1>4, <2>1, <2>3, <2>5, SafeRequests
<1>5. CASE rows' = Append(rows, Challenge(request[c].purpose, sent + 1)) /\ sent' = sent + 1
           /\ request[c].row = 0
  <2> DEFINE x == Challenge(request[c].purpose, sent + 1)
  <2>1. x \in Ch
    <3>1. request[c].purpose \in Purposes \cup {"login"} /\ sent + 1 \in Nat
      BY SafeRequests DEF Req
    <3> QED  BY <3>1 DEF Challenge, Ch
  <2>2. x.code = sent + 1
    BY DEF Challenge
  <2> HIDE DEF x
  <2>3. rows' \in Seq(Ch) /\ Len(rows') = Len(rows) + 1 /\ rows'[Len(rows) + 1] = x
        /\ \A j \in 1..Len(rows) : rows'[j] = rows[j]
    BY <1>5, <2>1, SafeRequests DEF x
  <2> QED  BY <1>3, <1>5, <2>2, <2>3, SafeRequests
<1> QED  BY <1>2, <1>4, <1>5 DEF UpsertOtpChallenge

\* The row that had the accepted code is consumed with it, or has another code by now.
LEMMA CommitStep ==
  ASSUME CodesInv, NEW c \in Callers, Commit(c)
  PROVE  CodesInv'
<1> DEFINE i == request[c].row
<1>1. request[c].at = "commit" /\ Ends(c) /\ sent' = sent /\ accepted' = [accepted EXCEPT ![request[c].code] = @ + 1]
  BY DEF Commit, At
<1>2. /\ i \in 1..Len(rows) /\ request[c].code \in 1..sent
      /\ \A j \in 1..Len(rows) : rows[j].code = request[c].code => j = i
  BY <1>1, SafeRequests DEF Safe
<1>3. PICK r \in Ch : r = rows[i]
  BY <1>2, SafeRequests
<1>4. PICK x \in Ch : x = [r EXCEPT !.consumed = TRUE] /\ x.code = r.code /\ x.consumed
  <2>1. [r EXCEPT !.consumed = TRUE] \in Ch
    BY ChallengeUpdates, CodesAssumption
  <2>2. [r EXCEPT !.consumed = TRUE].code = r.code /\ [r EXCEPT !.consumed = TRUE].consumed
    BY ChallengeUpdates, CodesAssumption
  <2> QED  BY <2>1, <2>2, Zenon
<1>5. rows' = [rows EXCEPT ![i] = x]
  BY <1>3, <1>4 DEF Commit, Spent
<1> HIDE DEF i
<1>6. RowsKept /\ rows'[i] = x
  BY <1>2, <1>3, <1>4, <1>5, RowWritten DEF CodesInv
<1>7. request'[c] = Idle /\ \A d \in Callers : d # c => request'[d] = request[d]
  BY <1>1 DEF Ends, CodesInv, CodesTyped
<1>8. CodesTyped'
  <2>1. rows' \in Seq(Ch) /\ sent' \in Nat
    BY <1>1, <1>6, SafeRequests DEF RowsKept
  <2>2. request' \in [Callers -> Req]
    BY <1>1, SafeRequests DEF Ends, CodesInv, CodesTyped
  <2>3. accepted \in [Codes -> Nat]
    BY DEF CodesInv, CodesTyped
  <2>4. accepted' \in [Codes -> Nat]
    <3>1. CASE request[c].code \in Codes
      BY <1>1, <2>3, <3>1
    <3>2. CASE request[c].code \notin Codes
      BY <1>1, <2>3, <3>2
    <3> QED  BY <3>1, <3>2
  <2> QED  BY <2>1, <2>2, <2>4 DEF CodesTyped
<1>9. RowsApart'
  BY <1>1, <1>6, SafeRequests DEF CodesInv, RowsApart, RowsKept
<1>10. AcceptedAreGone'
  <2>1. ASSUME NEW k \in Codes, accepted'[k] > 0
        PROVE  k <= sent /\ \A j \in 1..Len(rows') : rows'[j].code = k => rows'[j].consumed
    <3>1. CASE accepted[k] > 0
      BY <1>6, <3>1 DEF CodesInv, AcceptedAreGone, RowsKept
    <3>2. CASE k = request[c].code
      <4>1. k <= sent /\ \A j \in 1..Len(rows) : rows[j].code = k => j = i
        BY <1>2, <3>2, SafeRequests
      <4>2. Len(rows') = Len(rows) /\ \A j \in 1..Len(rows) : rows'[j].code = rows[j].code
        BY <1>6 DEF RowsKept
      <4>3. rows'[i].consumed
        BY <1>4, <1>6
      <4> QED  BY <4>1, <4>2, <4>3
    <3>3. k # request[c].code => accepted'[k] = accepted[k]
      BY <1>1 DEF CodesInv, CodesTyped
    <3> QED  BY <2>1, <3>1, <3>2, <3>3
  <2> QED  BY <1>1, <2>1 DEF AcceptedAreGone
<1>11. \A d \in Callers : Safe(request[d])'
  <2>1. \A d \in Callers : Safe(request'[d])
    BY <1>7, SafeRequests
  <2> QED  BY <1>1, <1>6, <2>1, SafeRequests DEF Safe, RowsKept
<1> QED  BY <1>8, <1>9, <1>10, <1>11 DEF CodesInv

\* A cooldown or a lifetime ends.
LEMMA TimeStep ==
  ASSUME CodesInv, Elapse
  PROVE  CodesInv'
<1>1. UNCHANGED <<sent, request, accepted>>
  BY DEF Elapse
<1>2. RowsKept
  <2>1. CASE rows' = rows
    BY <2>1, SafeRequests
  <2>2. ASSUME NEW i \in 1..Len(rows),
               rows' \in {[rows EXCEPT ![i].warm = FALSE], [rows EXCEPT ![i].expired = TRUE]}
        PROVE  RowsKept
    <3>1. PICK r \in Ch : r = rows[i]
      BY SafeRequests
    <3>2. PICK x \in Ch : x = [r EXCEPT !.warm = FALSE] /\ x.code = r.code /\ x.consumed = r.consumed
      <4>1. LET y == [r EXCEPT !.warm = FALSE] IN y \in Ch /\ y.code = r.code /\ y.consumed = r.consumed
        BY TimeUpdates
      <4> QED  BY <4>1, Zenon
    <3>3. PICK z \in Ch : z = [r EXCEPT !.expired = TRUE] /\ z.code = r.code /\ z.consumed = r.consumed
      <4>1. LET y == [r EXCEPT !.expired = TRUE] IN y \in Ch /\ y.code = r.code /\ y.consumed = r.consumed
        BY TimeUpdates
      <4> QED  BY <4>1, Zenon
    <3>4. CASE rows' = [rows EXCEPT ![i] = x]
      BY <3>1, <3>2, <3>4, RowWritten DEF CodesInv
    <3>5. CASE rows' = [rows EXCEPT ![i] = z]
      BY <3>1, <3>3, <3>5, RowWritten DEF CodesInv
    <3> QED  BY <2>2, <3>1, <3>2, <3>3, <3>4, <3>5
  <2> QED  BY <2>1, <2>2 DEF Elapse
<1>3. CodesTyped /\ RowsApart /\ AcceptedAreGone
  BY DEF CodesInv
<1>4. \A c \in Callers : Safe(request[c])'
  BY <1>1, <1>2, SafeRequests DEF Safe, RowsKept
<1>5. CodesTyped' /\ RowsApart' /\ AcceptedAreGone'
  BY <1>1, <1>2, <1>3 DEF CodesTyped, RowsApart, AcceptedAreGone, RowsKept
<1> QED  BY <1>4, <1>5 DEF CodesInv

LEMMA CodesBegin ==
  ASSUME CInit
  PROVE  CodesInv
<1>1. Idle \in Req /\ Idle.at = "idle"
  BY DEF Idle, Req
<1>2. CodesTyped
  BY <1>1 DEF CInit, CodesTyped
<1>3. \A c \in Callers : Safe(request[c])
  BY <1>1 DEF CInit, Safe
<1>4. RowsApart /\ AcceptedAreGone
  BY DEF CInit, RowsApart, AcceptedAreGone
<1> QED  BY <1>2, <1>3, <1>4 DEF CodesInv

\* Codes are never shared by two rows, and an accepted one is in no row that is not
\* consumed, whatever requests read before they write.
THEOREM CodesInvariant == CSpec => []CodesInv
<1>1. CInit => CodesInv
  BY CodesBegin
<1>2. CodesInv /\ [CNext]_cVars => CodesInv'
  <2> SUFFICES ASSUME CodesInv, [CNext]_cVars PROVE CodesInv'
    OBVIOUS
  <2>1. CASE UNCHANGED cVars
    BY <2>1 DEF cVars, CodesInv, CodesTyped, RowsApart, AcceptedAreGone, Safe
  <2>2. ASSUME NEW c \in Callers, CodesStep(c)
        PROVE  CodesInv'
    <3>1. CASE Register(c) \/ RequestLoginOtp(c) \/ RequestPasswordReset(c)
               \/ VerifyPhone(c) \/ LoginWithOtp(c) \/ ResetPassword(c)
      BY <3>1, StartsStep DEF Register, RequestLoginOtp, RequestPasswordReset, VerifyPhone, LoginWithOtp, ResetPassword
    <3>2. CASE DispatchOtp(c) \/ LoginWithPassword(c)
      BY <3>2, SafeRequests, GoesStep, EndsStep DEF DispatchOtp, LoginWithPassword
    <3>3. CASE ConsumeOtp(c)
      BY <3>3, SafeRequests, GoesStep DEF ConsumeOtp, At
    <3>4. CASE Rollback(c) \/ RecordFailedLogin(c) \/ SignIn(c)
      BY <3>4, SafeRequests, EndsStep DEF Rollback, RecordFailedLogin, SignIn
    <3> QED  BY <2>2, <3>1, <3>2, <3>3, <3>4, FindStep, UpsertStep, VerifyStep, CountStep, ExhaustStep, CommitStep
             DEF CodesStep
  <2> QED  BY <2>1, <2>2, TimeStep DEF CNext
<1> QED  BY <1>1, <1>2, PTL DEF CSpec

\* Counting requests.
LEMMA Crowds ==
  ASSUME NEW S \in SUBSET Callers, NEW T \in SUBSET Callers, NEW c \in Callers
  PROVE  /\ Cardinality(S) \in Nat /\ Cardinality(Callers) \in Nat
         /\ S \subseteq T => Cardinality(S) <= Cardinality(T)
         /\ S \subseteq T \cup {c} => Cardinality(S) <= Cardinality(T) + 1
         /\ c \in T /\ S \subseteq T \ {c} => Cardinality(S) + 1 <= Cardinality(T)
         /\ c \notin S => Cardinality(S) < Cardinality(Callers)
<1>1. IsFiniteSet(Callers) /\ IsFiniteSet(S) /\ IsFiniteSet(T)
  BY CodesAssumption, FS_Subset
<1>2. Cardinality(S) \in Nat /\ Cardinality(T) \in Nat /\ Cardinality(Callers) \in Nat
  BY <1>1, FS_CardinalityType
<1>3. S \subseteq T => Cardinality(S) <= Cardinality(T)
  BY <1>1, FS_Subset
<1>4. IsFiniteSet(T \cup {c}) /\ Cardinality(T \cup {c}) <= Cardinality(T) + 1
  <2>1. /\ IsFiniteSet(T \cup {c})
        /\ Cardinality(T \cup {c}) = IF c \in T THEN Cardinality(T) ELSE Cardinality(T) + 1
    BY <1>1, FS_AddElement
  <2>2. CASE c \in T
    BY <1>2, <2>1, <2>2
  <2>3. CASE c \notin T
    BY <1>2, <2>1, <2>3
  <2> QED  BY <2>2, <2>3
<1>5. S \subseteq T \cup {c} => Cardinality(S) <= Cardinality(T) + 1
  <2>1. Cardinality(T \cup {c}) \in Nat
    BY <1>4, FS_CardinalityType
  <2>2. S \subseteq T \cup {c} => Cardinality(S) <= Cardinality(T \cup {c})
    BY <1>4, FS_Subset
  <2> QED  BY <1>2, <1>4, <2>1, <2>2
<1>6. ASSUME NEW X \in SUBSET Callers, c \in X, S \subseteq X \ {c}
      PROVE  Cardinality(S) + 1 <= Cardinality(X)
  <2>1. IsFiniteSet(X)
    BY <1>1, FS_Subset
  <2>2. IsFiniteSet(X \ {c}) /\ Cardinality(X \ {c}) = Cardinality(X) - 1
    BY <1>6, <2>1, FS_RemoveElement
  <2>3. Cardinality(S) <= Cardinality(X \ {c}) /\ Cardinality(X) \in Nat
    BY <1>6, <2>1, <2>2, FS_Subset, FS_CardinalityType
  <2> QED  BY <1>2, <2>2, <2>3
<1>7. c \notin S => Cardinality(S) < Cardinality(Callers)
  <2>1. c \notin S => Cardinality(S) + 1 <= Cardinality(Callers)
    BY <1>6
  <2> QED  BY <1>2, <2>1
<1>8. c \in T /\ S \subseteq T \ {c} => Cardinality(S) + 1 <= Cardinality(T)
  BY <1>6
<1> QED  BY <1>2, <1>3, <1>5, <1>7, <1>8

LEMMA CrowdShrinks ==
  ASSUME NEW S \in SUBSET Callers, NEW T \in SUBSET Callers, S \subseteq T
  PROVE  Cardinality(S) <= Cardinality(T) /\ Cardinality(S) \in Nat /\ Cardinality(T) \in Nat
BY CodesAssumption, FS_Subset, FS_CardinalityType

LEMMA OneLeaves ==
  ASSUME NEW S \in SUBSET Callers, NEW T \in SUBSET Callers, NEW c \in T, S \subseteq T \ {c}
  PROVE  Cardinality(S) + 1 <= Cardinality(T)
BY Crowds

LEMMA OneMore ==
  ASSUME NEW S \in SUBSET Callers, NEW T \in SUBSET Callers, NEW c \in Callers, S \subseteq T \cup {c}
  PROVE  Cardinality(S) <= Cardinality(T) + 1 /\ Cardinality(S) \in Nat /\ Cardinality(T) \in Nat
BY Crowds

-----------------------------------------------------------------------------
(* The authorisations of a code.  From the first one on nobody finds the    *)
(* code right who had not found it so by then, and each one uses up its     *)
(* request: the requests that may still be authorised only become fewer.    *)

Overlapping ==
  \A k \in Codes : accepted[k] > 0 => accepted[k] + Cardinality(Matched(k)) <= Cardinality(Callers)

SpentInv == CodesInv /\ Overlapping

\* Nobody comes to match a code that has been accepted.
Narrows == \A k \in Codes : accepted[k] > 0 => Matched(k)' \subseteq Matched(k)

LEMMA NarrowsIsEnough ==
  ASSUME SpentInv, accepted' = accepted, Narrows
  PROVE  Overlapping'
<1> SUFFICES ASSUME NEW k \in Codes, accepted[k] > 0
             PROVE  accepted[k] + Cardinality(Matched(k)') <= Cardinality(Callers)
  BY DEF Overlapping
<1>1. Matched(k)' \in SUBSET Callers /\ Matched(k) \in SUBSET Callers /\ Matched(k)' \subseteq Matched(k)
  BY DEF Matched, Narrows
<1>2. /\ Cardinality(Matched(k)') <= Cardinality(Matched(k))
      /\ Cardinality(Matched(k)') \in Nat /\ Cardinality(Matched(k)) \in Nat
  BY <1>1, CrowdShrinks
<1>3. accepted[k] + Cardinality(Matched(k)) <= Cardinality(Callers)
  BY DEF SpentInv, Overlapping
<1>4. accepted[k] \in Nat /\ Cardinality(Callers) \in Nat
  BY CodesAssumption, FS_CardinalityType DEF SpentInv, CodesInv, CodesTyped
<1> QED  BY <1>2, <1>3, <1>4

\* A request that does not match a code goes on.
LEMMA OthersStay ==
  ASSUME CodesTyped, NEW c \in Callers, NEW q, request' = [request EXCEPT ![c] = q],
         q.at \notin {"consume", "commit"}
  PROVE  Narrows
<1>1. request'[c] = q /\ \A d \in Callers : d # c => request'[d] = request[d]
  BY DEF CodesTyped
<1> QED  BY <1>1 DEF Narrows, Matched

LEMMA StartsNarrows ==
  ASSUME CodesInv, NEW c \in Callers, NEW at \in {"look", "verify"}, NEW purpose, Starts(c, at, purpose)
  PROVE  Narrows /\ accepted' = accepted
<1>1. [Idle EXCEPT !.at = at, !.purpose = purpose].at = at
  BY DEF Idle
<1> QED  BY <1>1, OthersStay DEF Starts, CodesInv

LEMMA EndsNarrows ==
  ASSUME CodesInv, NEW c \in Callers, Ends(c)
  PROVE  Narrows
BY OthersStay DEF Ends, Idle, CodesInv

LEMMA GoesNarrows ==
  ASSUME CodesInv, NEW c \in Callers, NEW at \in Stage, Goes(c, at),
         at \in {"consume", "commit"} => request[c].at = "consume"
  PROVE  Narrows
<1>1. PICK k \in Req : k = request[c]
  BY SafeRequests
<1>2. PICK q \in Req : q = [k EXCEPT !.at = at] /\ q.at = at /\ q.code = k.code
  BY RequestGoes, Zenon
<1>3. request' = [request EXCEPT ![c] = q]
  BY <1>1, <1>2 DEF Goes
<1>4. request'[c] = q /\ \A d \in Callers : d # c => request'[d] = request[d]
  BY <1>3 DEF CodesInv, CodesTyped
<1> QED  BY <1>1, <1>2, <1>4 DEF Narrows, Matched

LEMMA FindNarrows ==
  ASSUME CodesInv, NEW c \in Callers, FindChallenge(c)
  PROVE  Narrows
<1>1. PICK i : request' = [request EXCEPT ![c] = [@ EXCEPT !.at = "write", !.row = i]]
  BY DEF FindChallenge
<1>2. [request[c] EXCEPT !.at = "write", !.row = i].at = "write"
  BY SafeRequests DEF Req
<1> QED  BY <1>1, <1>2, OthersStay DEF CodesInv

\* The code of a live challenge has authorised nothing yet.
LEMMA VerifyNarrows ==
  ASSUME CodesInv, NEW c \in Callers, NEW guess, VerifyOtp(c, guess)
  PROVE  Narrows
<1>1. CASE Ends(c)
  BY <1>1, EndsNarrows
<1>2. ASSUME NEW i \in FindLiveOtp(request[c].purpose),
             request' = [request EXCEPT ![c] =
               IF rows[i].expired \/ rows[i].attempts >= MaxAttempts
               THEN [@ EXCEPT !.row = i, !.at = "exhaust"]
               ELSE [@ EXCEPT !.row = i, !.code = rows[i].code,
                              !.at = IF guess = rows[i].code THEN "consume" ELSE "count"]]
      PROVE  Narrows
  <2>1. PICK q : q = request'[c]
    OBVIOUS
  <2>2. \A d \in Callers : d # c => request'[d] = request[d]
    BY <1>2 DEF CodesInv, CodesTyped
  <2>3. PICK k \in Req : k = request[c]
    BY SafeRequests
  <2>4. q = [k EXCEPT !.row = i, !.at = "exhaust"]
        \/ q = [k EXCEPT !.row = i, !.code = rows[i].code,
                         !.at = IF guess = rows[i].code THEN "consume" ELSE "count"]
    BY <1>2, <2>1, <2>3 DEF CodesInv, CodesTyped
  <2>5. q.at = "exhaust" \/ q.code = rows[i].code
    BY <2>4 DEF Req
  <2>6. \A n \in Codes : rows[i].code = n => ~(accepted[n] > 0)
    BY DEF FindLiveOtp, CodesInv, AcceptedAreGone
  <2> QED  BY <2>1, <2>2, <2>5, <2>6 DEF Narrows, Matched
<1> QED  BY <1>1, <1>2 DEF VerifyOtp

\* An authorisation uses up its request, and is the first one or was counted on.
LEMMA CommitCounts ==
  ASSUME SpentInv, NEW c \in Callers, Commit(c)
  PROVE  Overlapping'
<1>1. /\ request[c].at = "commit" /\ accepted' = [accepted EXCEPT ![request[c].code] = @ + 1]
      /\ request' = [request EXCEPT ![c] = Idle]
  BY DEF Commit, At, Ends
<1>2. /\ accepted \in [Codes -> Nat] /\ CodesTyped /\ Cardinality(Callers) \in Nat
  BY CodesAssumption, FS_CardinalityType DEF SpentInv, CodesInv, CodesTyped
<1>3. request'[c] = Idle /\ \A d \in Callers : d # c => request'[d] = request[d]
  BY <1>1, <1>2 DEF CodesTyped
<1>4. ASSUME NEW k \in Codes, accepted'[k] > 0
      PROVE  accepted'[k] + Cardinality(Matched(k)') <= Cardinality(Callers)
  <2>1. Matched(k)' \in SUBSET Callers /\ Matched(k) \in SUBSET Callers /\ Matched(k)' \subseteq Matched(k) \ {c}
    BY <1>3 DEF Matched, Idle
  <2>2. /\ Cardinality(Matched(k)') <= Cardinality(Matched(k))
        /\ Cardinality(Matched(k)') \in Nat /\ Cardinality(Matched(k)) \in Nat
    BY <2>1, CrowdShrinks
  <2>3. Cardinality(Matched(k)) <= Cardinality(Callers)
    BY <2>1, CodesAssumption, FS_Subset
  <2>4. accepted[k] \in Nat
    BY <1>2
  <2>5. accepted[k] > 0 => accepted[k] + Cardinality(Matched(k)) <= Cardinality(Callers)
    BY DEF SpentInv, Overlapping
  <2>6. CASE k = request[c].code
    <3>1. c \in Matched(k)
      BY <1>1, <2>6 DEF Matched
    <3>2. Cardinality(Matched(k)') + 1 <= Cardinality(Matched(k))
      BY <2>1, <3>1, OneLeaves
    <3>3. accepted'[k] = accepted[k] + 1
      BY <1>1, <1>2, <2>6
    <3> QED  BY <1>2, <2>2, <2>3, <2>4, <2>5, <3>2, <3>3
  <2>7. CASE k # request[c].code
    <3>1. accepted'[k] = accepted[k]
      BY <1>1, <1>2, <2>7
    <3> QED  BY <1>2, <1>4, <2>2, <2>4, <2>5, <3>1
  <2> QED  BY <2>6, <2>7
<1> QED  BY <1>4 DEF Overlapping

\* consumeOtp spends a code twice only for requests that were at work together.
THEOREM AuthorisationsOverlap == CSpec => []SpentInv
<1>1. CInit => Overlapping
  BY DEF CInit, Overlapping
<1>2. SpentInv /\ [CNext]_cVars => Overlapping'
  <2> SUFFICES ASSUME SpentInv, [CNext]_cVars PROVE Overlapping'
    OBVIOUS
  <2>1. CodesInv
    BY DEF SpentInv
  <2>2. CASE UNCHANGED cVars \/ Elapse
    <3>1. request' = request /\ accepted' = accepted
      BY <2>2 DEF cVars, Elapse
    <3> QED  BY <3>1, NarrowsIsEnough DEF Narrows, Matched
  <2>3. ASSUME NEW c \in Callers, CodesStep(c)
        PROVE  Overlapping'
    <3>1. CASE Commit(c)
      BY <3>1, CommitCounts
    <3>2. CASE Register(c) \/ RequestLoginOtp(c) \/ RequestPasswordReset(c)
               \/ VerifyPhone(c) \/ LoginWithOtp(c) \/ ResetPassword(c)
      BY <2>1, <3>2, StartsNarrows, NarrowsIsEnough
         DEF Register, RequestLoginOtp, RequestPasswordReset, VerifyPhone, LoginWithOtp, ResetPassword
    <3>3. CASE DispatchOtp(c) \/ LoginWithPassword(c) \/ ConsumeOtp(c) \/ CountAttempt(c)
      <4>1. accepted' = accepted
        BY <3>3 DEF DispatchOtp, LoginWithPassword, ConsumeOtp, CountAttempt
      <4>2. Ends(c) \/ Goes(c, "find") \/ Goes(c, "password") \/ Goes(c, "exhaust")
            \/ (Goes(c, "commit") /\ request[c].at = "consume")
        BY <3>3 DEF DispatchOtp, LoginWithPassword, ConsumeOtp, CountAttempt, Rejected, At
      <4>3. {"find", "password", "exhaust", "commit"} \subseteq Stage
        BY DEF Stage
      <4> QED  BY <2>1, <4>1, <4>2, <4>3, EndsNarrows, GoesNarrows, NarrowsIsEnough
    <3>4. CASE ExhaustOtp(c) \/ UpsertOtpChallenge(c) \/ Rollback(c) \/ RecordFailedLogin(c) \/ SignIn(c)
      <4>1. accepted' = accepted /\ Ends(c)
        BY <3>4 DEF ExhaustOtp, UpsertOtpChallenge, Rollback, RecordFailedLogin, SignIn, Rejected
      <4> QED  BY <2>1, <4>1, EndsNarrows, NarrowsIsEnough
    <3>5. CASE FindChallenge(c) \/ (\E guess \in 0..sent : VerifyOtp(c, guess))
      <4>1. accepted' = accepted
        BY <3>5 DEF FindChallenge, VerifyOtp
      <4> QED  BY <2>1, <3>5, <4>1, FindNarrows, VerifyNarrows, NarrowsIsEnough
    <3> QED  BY <2>3, <3>1, <3>2, <3>3, <3>4, <3>5 DEF CodesStep
  <2> QED  BY <2>2, <2>3 DEF CNext
<1>3. CodesInv /\ Overlapping => SpentInv
  BY DEF SpentInv
<1> QED  BY <1>1, <1>2, <1>3, CodesInvariant, PTL DEF CSpec

\* verifyOtp: what has been accepted is in no live challenge, and authorises nobody who
\* had not found it right by then.
THEOREM AcceptedStaysSpent == CSpec => []AcceptedIsSpent
<1>1. SpentInv => AcceptedIsSpent
  BY DEF SpentInv, Overlapping, CodesInv, AcceptedAreGone, AcceptedIsSpent
<1> QED  BY <1>1, AuthorisationsOverlap, PTL

-----------------------------------------------------------------------------
(* Guesses.  While a code is in a row, the refusals of it that were told,   *)
(* and those that are only to be told, are in the row's attempts.  Once it  *)
(* has been replaced, no more requests can come to be compared with it than *)
(* were already: all but the one that replaced it.                          *)

Refusing(k)    == {c \in Callers : request[c].at = "exhaust" /\ request[c].code = k}
Outstanding(k) == {c \in Callers : request[c].at \in {"count", "exhaust"} /\ request[c].code = k}
Held(k)        == \E i \in 1..Len(rows) : rows[i].code = k

\* What a request that has compared a code knows of it, and the others of none.
Knows(q) ==
  /\ q.at \in {"idle", "look", "find", "write", "verify", "password"} => q.code = 0
  /\ q.at \in {"count", "exhaust"} =>
       q.code <= sent /\ \A j \in 1..Len(rows) : rows[j].code = q.code => j = q.row

CountsTyped ==
  /\ told \in [Codes -> Nat] /\ sent <= MaxCodes
  /\ \A i \in 1..Len(rows) : rows[i].attempts <= MaxAttempts
  /\ \A c \in Callers : Knows(request[c])

HeldCounts ==
  \A k \in Codes, i \in 1..Len(rows) :
    rows[i].code = k => told[k] + Cardinality(Refusing(k)) <= rows[i].attempts

ReplacedCounts ==
  \A k \in Codes :
    ~Held(k) => told[k] + Cardinality(Outstanding(k)) < MaxAttempts + Cardinality(Callers)

FreshCounts == \A k \in Codes : k > sent => told[k] = 0

GuessInv == CodesInv /\ CountsTyped /\ HeldCounts /\ ReplacedCounts /\ FreshCounts

\* The rows keep their codes, and each code its account.
LEMMA Accounts ==
  ASSUME GuessInv, CodesInv', RowsKept, sent' = sent, told' \in [Codes -> Nat],
         \A c \in Callers : Knows(request'[c]),
         \A i \in 1..Len(rows) : rows'[i].attempts <= MaxAttempts,
         \A k \in Codes : k > sent => told'[k] = 0,
         \A k \in Codes, i \in 1..Len(rows) :
           rows[i].code = k => told'[k] + Cardinality(Refusing(k)') <= rows'[i].attempts,
         \A k \in Codes :
           ~Held(k) => told'[k] + Cardinality(Outstanding(k)') <= told[k] + Cardinality(Outstanding(k))
  PROVE  GuessInv'
<1>1. Len(rows') = Len(rows) /\ \A i \in 1..Len(rows) : rows'[i].code = rows[i].code
  BY DEF RowsKept
<1>2. CountsTyped'
  <2>1. \A c \in Callers : Knows(request[c])'
    BY <1>1 DEF Knows
  <2> QED  BY <1>1, <2>1 DEF GuessInv, CountsTyped
<1>3. HeldCounts'
  BY <1>1 DEF HeldCounts
<1>4. ReplacedCounts'
  <2> SUFFICES ASSUME NEW k \in Codes, ~Held(k)'
               PROVE  told'[k] + Cardinality(Outstanding(k)') < MaxAttempts + Cardinality(Callers)
    BY DEF ReplacedCounts
  <2>1. ~Held(k)
    BY <1>1 DEF Held
  <2>2. told[k] + Cardinality(Outstanding(k)) < MaxAttempts + Cardinality(Callers)
    BY <2>1 DEF GuessInv, ReplacedCounts
  <2>3. told'[k] + Cardinality(Outstanding(k)') <= told[k] + Cardinality(Outstanding(k))
    BY <2>1
  <2>4. told[k] \in Nat /\ told'[k] \in Nat
    BY DEF GuessInv, CountsTyped
  <2>5. /\ Cardinality(Outstanding(k)) \in Nat /\ Cardinality(Outstanding(k)') \in Nat
        /\ Cardinality(Callers) \in Nat
    <3>1. Outstanding(k) \in SUBSET Callers /\ Outstanding(k)' \in SUBSET Callers
      BY DEF Outstanding
    <3>2. PICK c \in Callers : TRUE
      BY CodesAssumption
    <3> QED  BY <3>1, <3>2, Crowds
  <2>6. MaxAttempts \in Nat
    BY CodesAssumption
  <2> QED  BY <2>2, <2>3, <2>4, <2>5, <2>6
<1>5. FreshCounts'
  BY DEF FreshCounts
<1> QED  BY <1>2, <1>3, <1>4, <1>5 DEF GuessInv

LEMMA Requests ==
  ASSUME GuessInv, NEW k \in Nat
  PROVE  /\ CodesInv /\ CodesTyped /\ Idle.at = "idle" /\ Idle.code = 0 /\ Knows(Idle)
         /\ sent \in Nat /\ Len(rows) \in Nat /\ MaxAttempts \in Nat /\ Codes \subseteq Nat /\ 0 \notin Codes
         /\ told \in [Codes -> Nat]
         /\ \A c \in Callers : request[c] \in Req /\ Safe(request[c]) /\ Knows(request[c])
         /\ \A i \in 1..Len(rows) : rows[i].code \in Codes /\ rows[i].attempts \in 0..MaxAttempts
         /\ Refusing(k) \in SUBSET Callers /\ Outstanding(k) \in SUBSET Callers
         /\ Cardinality(Refusing(k)) \in Nat /\ Cardinality(Outstanding(k)) \in Nat
         /\ Cardinality(Callers) \in Nat
<1>1. CodesInv /\ CodesTyped /\ told \in [Codes -> Nat] /\ MaxAttempts \in Nat /\ MaxCodes \in Nat /\ sent <= MaxCodes
  BY CodesAssumption DEF GuessInv, CodesInv, CountsTyped
<1>2. Idle.at = "idle" /\ Idle.code = 0 /\ Knows(Idle)
  BY DEF Idle, Knows
<1>3. sent \in Nat /\ Len(rows) \in Nat /\ Codes \subseteq Nat /\ 0 \notin Codes
  BY <1>1, SafeRequests DEF Codes
<1>4. \A c \in Callers : request[c] \in Req /\ Safe(request[c]) /\ Knows(request[c])
  BY <1>1, SafeRequests DEF GuessInv, CountsTyped
<1>5. ASSUME NEW i \in 1..Len(rows)
      PROVE  rows[i].code \in Codes /\ rows[i].attempts \in 0..MaxAttempts
  <2>1. PICK r \in Ch : r = rows[i]
    BY <1>1 DEF CodesTyped
  <2>2. r.attempts \in Nat /\ r.attempts <= MaxAttempts
    BY <2>1 DEF Ch, GuessInv, CountsTyped
  <2>3. r.code \in 1..sent
    BY <1>1, <2>1 DEF CodesInv, RowsApart
  <2> QED  BY <1>1, <1>3, <2>1, <2>2, <2>3 DEF Codes
<1>6. Refusing(k) \in SUBSET Callers /\ Outstanding(k) \in SUBSET Callers
  BY DEF Refusing, Outstanding
<1>7. /\ Cardinality(Refusing(k)) \in Nat /\ Cardinality(Outstanding(k)) \in Nat
      /\ Cardinality(Callers) \in Nat
  <2>1. PICK c \in Callers : TRUE
    BY CodesAssumption
  <2> QED  BY <1>6, Crowds
<1> QED  BY <1>1, <1>2, <1>3, <1>4, <1>5, <1>6, <1>7

\* Who is refused, when one request goes on.
LEMMA OneGoesOn ==
  ASSUME CodesTyped, NEW c \in Callers, NEW q \in Req, request' = [request EXCEPT ![c] = q], NEW k \in Nat
  PROVE  /\ request'[c] = q /\ \A d \in Callers : d # c => request'[d] = request[d]
         /\ Refusing(k)' \subseteq Refusing(k) \cup {c}
         /\ ~(q.at = "exhaust" /\ q.code = k) => Refusing(k)' \subseteq Refusing(k) \ {c}
         /\ ~(q.at \in {"count", "exhaust"} /\ q.code = k) => Outstanding(k)' \subseteq Outstanding(k) \ {c}
         /\ request[c].at \in {"count", "exhaust"} /\ request[c].code = q.code /\ q.at \in {"count", "exhaust"}
              => Outstanding(k)' = Outstanding(k)
         /\ Refusing(k)' \in SUBSET Callers /\ Outstanding(k)' \in SUBSET Callers
<1>1. request'[c] = q /\ \A d \in Callers : d # c => request'[d] = request[d]
  BY DEF CodesTyped
<1> QED  BY <1>1 DEF Refusing, Outstanding

\* A step that compares no code that has been replaced and tells nobody anything.
LEMMA QuietStep ==
  ASSUME GuessInv, CodesInv', NEW c \in Callers, NEW q \in Req, request' = [request EXCEPT ![c] = q],
         RowsKept, \A i \in 1..Len(rows) : rows'[i].attempts = rows[i].attempts,
         sent' = sent, told' = told, Knows(q),
         q.at = "exhaust" => q.code = 0,
         q.at = "count" => Held(q.code)
  PROVE  GuessInv'
<1>1. /\ CodesTyped /\ Codes \subseteq Nat /\ 0 \notin Codes /\ told \in [Codes -> Nat]
      /\ \A d \in Callers : Knows(request[d])
      /\ \A i \in 1..Len(rows) : rows[i].attempts \in 0..MaxAttempts
  BY Requests
<1>2. \A d \in Callers : Knows(request'[d])
  <2>1. PICK k \in Nat : k = 0
    OBVIOUS
  <2>2. request'[c] = q /\ \A d \in Callers : d # c => request'[d] = request[d]
    BY <1>1, <2>1, OneGoesOn
  <2> QED  BY <1>1, <2>2, Zenon
<1>3. ASSUME NEW k \in Codes
      PROVE  /\ Cardinality(Refusing(k)') <= Cardinality(Refusing(k))
             /\ ~Held(k) => Cardinality(Outstanding(k)') <= Cardinality(Outstanding(k))
             /\ Cardinality(Refusing(k)') \in Nat /\ Cardinality(Refusing(k)) \in Nat
             /\ Cardinality(Outstanding(k)') \in Nat /\ Cardinality(Outstanding(k)) \in Nat
  <2>1. k \in Nat /\ k # 0
    BY <1>1
  <2>2. /\ Refusing(k)' \subseteq Refusing(k)
        /\ ~Held(k) => Outstanding(k)' \subseteq Outstanding(k)
        /\ Refusing(k)' \in SUBSET Callers /\ Outstanding(k)' \in SUBSET Callers
    BY <1>1, <2>1, OneGoesOn
  <2>3. Refusing(k) \in SUBSET Callers /\ Outstanding(k) \in SUBSET Callers
    BY <2>1, Requests
  <2> QED  BY <2>2, <2>3, Crowds
<1>4. \A k \in Codes, i \in 1..Len(rows) :
        rows[i].code = k => told[k] + Cardinality(Refusing(k)') <= rows[i].attempts
  BY <1>1, <1>3 DEF GuessInv, HeldCounts
<1> QED  BY <1>1, <1>2, <1>3, <1>4, Accounts DEF GuessInv, FreshCounts

LEMMA Departs ==
  ASSUME GuessInv, CodesInv', NEW c \in Callers, Ends(c), RowsKept,
         \A i \in 1..Len(rows) : rows'[i].attempts = rows[i].attempts, UNCHANGED <<sent, told>>
  PROVE  GuessInv'
<1>1. PICK k \in Nat : k = 0
  OBVIOUS
<1>2. Idle \in Req /\ Knows(Idle) /\ Idle.at = "idle"
  BY <1>1, Requests, SafeRequests
<1> QED  BY <1>2, QuietStep DEF Ends

LEMMA SumsGrow ==
  ASSUME NEW t \in Nat, NEW u \in Nat, NEW x \in Nat, NEW y \in Nat, NEW m \in Nat, NEW p \in Nat,
         t + x <= m, y <= x, m <= p,
         u = t \/ (u = t + 1 /\ y + 1 <= x) \/ (u = t + 1 /\ m + 1 <= p)
  PROVE  u + y <= p
OBVIOUS

\* A refusal is told: its request was counted on the way, or the code is another now.
LEMMA Told ==
  ASSUME GuessInv, CodesInv', NEW c \in Callers, request[c].at \in {"count", "exhaust"}, Rejected(c),
         RowsKept, sent' = sent, NEW i \in 1..Len(rows), i = request[c].row,
         \A j \in 1..Len(rows) : j # i => rows'[j].attempts = rows[j].attempts,
         rows'[i].attempts \in 0..MaxAttempts,
         rows[i].attempts <= rows'[i].attempts,
         request[c].at = "count" => rows[i].attempts + 1 <= rows'[i].attempts
  PROVE  GuessInv'
<1>1. PICK n \in Nat : n = request[c].code
  BY SafeRequests DEF Req, GuessInv
<1>2. /\ CodesTyped /\ Codes \subseteq Nat /\ 0 \notin Codes /\ told \in [Codes -> Nat]
      /\ \A d \in Callers : Knows(request[d])
      /\ \A j \in 1..Len(rows) : rows[j].attempts \in 0..MaxAttempts
      /\ Idle.at = "idle" /\ Idle \in Req /\ Knows(Idle) /\ sent \in Nat /\ MaxCodes \in Nat
  BY Requests, SafeRequests, CodesAssumption DEF GuessInv
<1>3. /\ request' = [request EXCEPT ![c] = Idle]
      /\ told' = IF n = 0 THEN told ELSE [told EXCEPT ![n] = @ + 1]
  BY <1>1 DEF Rejected, Ends
<1>4. n <= sent /\ \A j \in 1..Len(rows) : rows[j].code = n => j = i
  BY <1>1, <1>2, Zenon DEF Knows
<1>5. n = 0 \/ n \in Codes
  BY <1>2, <1>4 DEF GuessInv, CountsTyped, Codes
<1>6. /\ told' \in [Codes -> Nat]
      /\ n \in Codes => told'[n] = told[n] + 1
      /\ \A k \in Codes : k # n => told'[k] = told[k]
  BY <1>2, <1>3, <1>5
<1>7. \A d \in Callers : Knows(request'[d])
  <2>1. request'[c] = Idle /\ \A d \in Callers : d # c => request'[d] = request[d]
    BY <1>2, <1>3, OneGoesOn
  <2> QED  BY <1>2, <2>1, Zenon
<1>8. ASSUME NEW k \in Codes
      PROVE  /\ Cardinality(Refusing(k)') <= Cardinality(Refusing(k))
             /\ k = n /\ request[c].at = "exhaust" => Cardinality(Refusing(k)') + 1 <= Cardinality(Refusing(k))
             /\ Cardinality(Outstanding(k)') <= Cardinality(Outstanding(k))
             /\ k = n => Cardinality(Outstanding(k)') + 1 <= Cardinality(Outstanding(k))
             /\ Cardinality(Refusing(k)') \in Nat /\ Cardinality(Refusing(k)) \in Nat
             /\ Cardinality(Outstanding(k)') \in Nat /\ Cardinality(Outstanding(k)) \in Nat
  <2>1. k \in Nat
    BY <1>2
  <2>2. /\ Refusing(k)' \subseteq Refusing(k) \ {c} /\ Outstanding(k)' \subseteq Outstanding(k) \ {c}
        /\ Refusing(k)' \in SUBSET Callers /\ Outstanding(k)' \in SUBSET Callers
    BY <1>2, <1>3, <2>1, OneGoesOn
  <2>3. Refusing(k) \in SUBSET Callers /\ Outstanding(k) \in SUBSET Callers
    BY <2>1, Requests
  <2>4. (k = n => c \in Outstanding(k)) /\ (k = n /\ request[c].at = "exhaust" => c \in Refusing(k))
    BY <1>1 DEF Outstanding, Refusing
  <2>5. Refusing(k)' \subseteq Refusing(k) /\ Outstanding(k)' \subseteq Outstanding(k)
    BY <2>2
  <2>6. /\ Cardinality(Refusing(k)') <= Cardinality(Refusing(k))
        /\ Cardinality(Refusing(k)') \in Nat /\ Cardinality(Refusing(k)) \in Nat
    BY <2>2, <2>3, <2>5, CrowdShrinks
  <2>7. /\ Cardinality(Outstanding(k)') <= Cardinality(Outstanding(k))
        /\ Cardinality(Outstanding(k)') \in Nat /\ Cardinality(Outstanding(k)) \in Nat
    BY <2>2, <2>3, <2>5, CrowdShrinks
  <2>8. ASSUME k = n
        PROVE  Cardinality(Outstanding(k)') + 1 <= Cardinality(Outstanding(k))
    BY <2>2, <2>3, <2>4, <2>8, OneLeaves
  <2>9. ASSUME k = n, request[c].at = "exhaust"
        PROVE  Cardinality(Refusing(k)') + 1 <= Cardinality(Refusing(k))
    BY <2>2, <2>3, <2>4, <2>9, OneLeaves
  <2> QED  BY <2>6, <2>7, <2>8, <2>9
<1>9. ASSUME NEW k \in Codes, NEW j \in 1..Len(rows), rows[j].code = k
      PROVE  told'[k] + Cardinality(Refusing(k)') <= rows'[j].attempts
  <2>1. told[k] + Cardinality(Refusing(k)) <= rows[j].attempts
    BY <1>9 DEF GuessInv, HeldCounts
  <2>2. rows[j].attempts <= rows'[j].attempts /\ rows'[j].attempts \in Nat /\ rows[j].attempts \in Nat
    BY <1>2
  <2>3. PICK t \in Nat, u \in Nat, x \in Nat, y \in Nat :
          /\ t = told[k] /\ u = told'[k] /\ x = Cardinality(Refusing(k)) /\ y = Cardinality(Refusing(k)')
          /\ y <= x /\ (k = n /\ request[c].at = "exhaust" => y + 1 <= x)
    BY <1>2, <1>6, <1>8
  <2>4. (k # n => u = t) /\ (k = n => u = t + 1)
    BY <1>6, <2>3
  <2>5. t + x <= rows[j].attempts
    BY <2>1, <2>3
  <2>6. k = n /\ request[c].at = "count" => rows[j].attempts + 1 <= rows'[j].attempts
    BY <1>4, <1>9
  <2>7. u + y <= rows'[j].attempts
    <3>1. PICK m \in Nat, p \in Nat : m = rows[j].attempts /\ p = rows'[j].attempts /\ m <= p
      BY <2>2
    <3>2. t + x <= m /\ y <= x /\ m <= p
      BY <2>3, <2>5, <3>1
    <3>3. k = n /\ request[c].at = "count" => m + 1 <= p
      BY <2>6, <3>1
    <3>4. u = t \/ (u = t + 1 /\ y + 1 <= x) \/ (u = t + 1 /\ m + 1 <= p)
      BY <2>3, <2>4, <3>3
    <3>5. u + y <= p
      BY <3>2, <3>4
    <3> QED  BY <3>1, <3>5
  <2> QED  BY <2>3, <2>7
<1>10. ASSUME NEW k \in Codes
       PROVE  told'[k] + Cardinality(Outstanding(k)') <= told[k] + Cardinality(Outstanding(k))
  <2>1. PICK t \in Nat, u \in Nat, x \in Nat, y \in Nat :
          /\ t = told[k] /\ u = told'[k] /\ x = Cardinality(Outstanding(k)) /\ y = Cardinality(Outstanding(k)')
          /\ y <= x /\ (k = n => y + 1 <= x)
    BY <1>2, <1>6, <1>8
  <2>2. (k # n => u = t) /\ (k = n => u = t + 1)
    BY <1>6, <2>1
  <2>3. u + y <= t + x
    BY <2>1, <2>2
  <2> QED  BY <2>1, <2>3
<1>11. \A k \in Codes : k > sent => told'[k] = 0
  <2>1. \A k \in Codes : k > sent => k # n
    BY <1>2, <1>4
  <2> QED  BY <1>6, <2>1 DEF GuessInv, FreshCounts
<1>12. \A j \in 1..Len(rows) : rows'[j].attempts <= MaxAttempts
  BY <1>2
<1> QED  BY <1>6, <1>7, <1>9, <1>10, <1>11, <1>12, Accounts

\* One row is written: the attempts of the others stay.
LEMMA OneRowCounts ==
  ASSUME CodesTyped, NEW i \in 1..Len(rows), NEW x \in Ch, rows' = [rows EXCEPT ![i] = x]
  PROVE  rows'[i] = x /\ \A j \in 1..Len(rows) : j # i => rows'[j] = rows[j]
<1>1. rows \in Seq(Ch) /\ Len(rows) \in Nat
  BY DEF CodesTyped
<1> QED  BY <1>1

LEMMA AttemptUpdates ==
  ASSUME NEW r \in Ch, NEW n \in Nat
  PROVE  /\ [r EXCEPT !.attempts = @ + 1].attempts = r.attempts + 1
         /\ [r EXCEPT !.consumed = TRUE, !.attempts = n].attempts = n
         /\ [r EXCEPT !.consumed = TRUE].attempts = r.attempts
         /\ [r EXCEPT !.warm = FALSE].attempts = r.attempts
         /\ [r EXCEPT !.expired = TRUE].attempts = r.attempts
<1>1. [r EXCEPT !.attempts = @ + 1].attempts = r.attempts + 1
  BY DEF Ch
<1>2. [r EXCEPT !.consumed = TRUE, !.attempts = n].attempts = n
  BY DEF Ch
<1>3. [r EXCEPT !.consumed = TRUE].attempts = r.attempts
  BY DEF Ch
<1>4. [r EXCEPT !.warm = FALSE].attempts = r.attempts
  BY DEF Ch
<1>5. [r EXCEPT !.expired = TRUE].attempts = r.attempts
  BY DEF Ch
<1> QED  BY <1>1, <1>2, <1>3, <1>4, <1>5

\* The last attempt of a code is counted, and one more is to be refused.
LEMMA LastCounted ==
  ASSUME GuessInv, CodesInv', NEW c \in Callers, NEW q \in Req, request' = [request EXCEPT ![c] = q],
         request[c].at = "count", q.at = "exhaust", q.code = request[c].code, q.row = request[c].row,
         RowsKept, UNCHANGED <<sent, told>>, NEW i \in 1..Len(rows), i = request[c].row,
         \A j \in 1..Len(rows) : j # i => rows'[j].attempts = rows[j].attempts,
         rows'[i].attempts = rows[i].attempts + 1, rows[i].attempts < MaxAttempts
  PROVE  GuessInv'
<1>1. /\ CodesTyped /\ Codes \subseteq Nat /\ 0 \notin Codes /\ told \in [Codes -> Nat] /\ MaxAttempts \in Nat
      /\ \A d \in Callers : Knows(request[d])
      /\ \A j \in 1..Len(rows) : rows[j].attempts \in 0..MaxAttempts
  <2>1. PICK k \in Nat : k = 0
    OBVIOUS
  <2> QED  BY <2>1, Requests
<1>2. Knows(request[c])
  BY <1>1
<1>3. Knows(q)
  BY <1>2 DEF Knows
<1>4. \A d \in Callers : Knows(request'[d])
  <2>1. request'[c] = q /\ \A d \in Callers : d # c => request'[d] = request[d]
    BY <1>1 DEF CodesTyped
  <2> QED  BY <1>1, <1>3, <2>1, Zenon
<1>5. \A j \in 1..Len(rows) : rows'[j].attempts <= MaxAttempts
  BY <1>1
<1>6. ASSUME NEW k \in Codes
      PROVE  /\ Cardinality(Refusing(k)') <= Cardinality(Refusing(k)) + 1
             /\ k # q.code => Cardinality(Refusing(k)') <= Cardinality(Refusing(k))
             /\ Cardinality(Outstanding(k)') = Cardinality(Outstanding(k))
             /\ Cardinality(Refusing(k)') \in Nat /\ Cardinality(Refusing(k)) \in Nat
             /\ Cardinality(Outstanding(k)) \in Nat
  <2>1. k \in Nat
    BY <1>1
  <2>2. /\ Refusing(k)' \subseteq Refusing(k) \cup {c} /\ Refusing(k)' \in SUBSET Callers
        /\ k # q.code => Refusing(k)' \subseteq Refusing(k)
        /\ Outstanding(k)' = Outstanding(k)
    BY <1>1, <2>1, OneGoesOn
  <2>3. Refusing(k) \in SUBSET Callers /\ Outstanding(k) \in SUBSET Callers
    BY <2>1, Requests
  <2>4. Cardinality(Outstanding(k)') = Cardinality(Outstanding(k))
    BY <2>2
  <2>5. /\ Cardinality(Refusing(k)') <= Cardinality(Refusing(k)) + 1
        /\ Cardinality(Refusing(k)') \in Nat /\ Cardinality(Refusing(k)) \in Nat
    BY <2>2, <2>3, OneMore
  <2>6. k # q.code => Cardinality(Refusing(k)') <= Cardinality(Refusing(k))
    BY <2>2, <2>3, CrowdShrinks
  <2>7. Cardinality(Outstanding(k)) \in Nat
    BY <2>3, CrowdShrinks
  <2> QED  BY <2>4, <2>5, <2>6, <2>7
<1>7. ASSUME NEW k \in Codes, NEW j \in 1..Len(rows), rows[j].code = k
      PROVE  told'[k] + Cardinality(Refusing(k)') <= rows'[j].attempts
  <2>1. told[k] + Cardinality(Refusing(k)) <= rows[j].attempts
    BY <1>7 DEF GuessInv, HeldCounts
  <2>2. /\ told[k] \in Nat
        /\ Cardinality(Refusing(k)) \in Nat /\ Cardinality(Refusing(k)') \in Nat
    BY <1>1, <1>6
  <2>3. PICK t \in Nat : t = told[k]
    BY <2>2
  <2>4. PICK x \in Nat : x = Cardinality(Refusing(k))
    BY <2>2
  <2>5. PICK y \in Nat : y = Cardinality(Refusing(k)')
    BY <2>2
  <2>6. PICK m \in Nat, p \in Nat : m = rows[j].attempts /\ p = rows'[j].attempts
    <3>1. rows[j].attempts \in Nat /\ rows'[j].attempts \in Nat
      BY <1>1
    <3> QED  BY <3>1
  <2>7. t + x <= m /\ y <= x + 1 /\ (k # q.code => y <= x)
    BY <1>6, <2>1, <2>3, <2>4, <2>5, <2>6
  <2>8. p = m \/ p = m + 1
    BY <1>1, <2>6
  <2>9. k = q.code => j = i
    BY <1>2, <1>7 DEF Knows
  <2>10. k = q.code => p = m + 1
    BY <2>6, <2>9
  <2>11. t + y <= p
    <3>1. CASE k # q.code
      BY <2>7, <2>8, <3>1
    <3>2. CASE k = q.code
      BY <2>7, <2>10, <3>2
    <3> QED  BY <3>1, <3>2
  <2> QED  BY <2>3, <2>5, <2>6, <2>11
<1>8. \A k \in Codes : told'[k] + Cardinality(Outstanding(k)') <= told[k] + Cardinality(Outstanding(k))
  BY <1>1, <1>6
<1> QED  BY <1>1, <1>4, <1>5, <1>7, <1>8, Accounts DEF GuessInv, FreshCounts

LEMMA CountGuess ==
  ASSUME GuessInv, CodesInv', NEW c \in Callers, CountAttempt(c)
  PROVE  GuessInv'
<1> DEFINE i == request[c].row
<1>1. request[c].at = "count" /\ UNCHANGED <<sent, accepted>>
  BY DEF CountAttempt, At
<1>2. CodesInv /\ CodesTyped /\ MaxAttempts \in Nat
  BY CodesAssumption DEF GuessInv, CodesInv
<1>3. i \in 1..Len(rows)
  BY <1>1, <1>2, SafeRequests DEF Safe
<1>4. PICK r \in Ch : r = rows[i]
  BY <1>2, <1>3, SafeRequests
<1>5. r.attempts \in 0..MaxAttempts
  <2>1. PICK k \in Nat : k = 0
    OBVIOUS
  <2> QED  BY <1>3, <1>4, <2>1, Requests
<1>6. PICK x \in Ch : x = [r EXCEPT !.attempts = @ + 1] /\ x.code = r.code /\ x.consumed = r.consumed
                      /\ x.attempts = r.attempts + 1
  <2>1. PICK n \in Nat : n = 0
    OBVIOUS
  <2>2. LET y == [r EXCEPT !.attempts = @ + 1]
        IN  y \in Ch /\ y.code = r.code /\ y.consumed = r.consumed
    BY <2>1, ChallengeUpdates
  <2>3. [r EXCEPT !.attempts = @ + 1].attempts = r.attempts + 1
    BY <2>1, AttemptUpdates
  <2> QED  BY <2>2, <2>3, Zenon
<1>11. x.attempts = r.attempts + 1
  BY <1>6
<1>7. CASE Ends(c) /\ UNCHANGED <<rows, told>>
  BY <1>1, <1>2, <1>7, Departs, SafeRequests
<1>8. ASSUME rows[i].attempts # MaxAttempts, rows' = [rows EXCEPT ![i] = x], Goes(c, "exhaust"), told' = told
      PROVE  GuessInv'
  <2>1. RowsKept /\ rows'[i] = x /\ \A j \in 1..Len(rows) : j # i => rows'[j] = rows[j]
    BY <1>2, <1>3, <1>4, <1>6, <1>8, RowWritten, OneRowCounts
  <2>2. PICK k \in Req : k = request[c]
    BY <1>2, SafeRequests
  <2>3. PICK q \in Req : q = [k EXCEPT !.at = "exhaust"] /\ q.at = "exhaust" /\ q.row = k.row /\ q.code = k.code
    <3>1. "exhaust" \in Stage
      BY DEF Stage
    <3> QED  BY <3>1, RequestGoes, Zenon
  <2>4. request' = [request EXCEPT ![c] = q]
    BY <1>8, <2>2, <2>3 DEF Goes
  <2>5. rows'[i].attempts = rows[i].attempts + 1 /\ rows[i].attempts < MaxAttempts
    BY <1>2, <1>4, <1>5, <1>8, <1>11, <2>1
  <2> QED  BY <1>1, <1>3, <1>8, <2>1, <2>2, <2>3, <2>4, <2>5, LastCounted
<1>9. ASSUME rows[i].attempts # MaxAttempts, rows' = [rows EXCEPT ![i] = x], Rejected(c)
      PROVE  GuessInv'
  <2>1. RowsKept /\ rows'[i] = x /\ \A j \in 1..Len(rows) : j # i => rows'[j] = rows[j]
    BY <1>2, <1>3, <1>4, <1>6, <1>9, RowWritten, OneRowCounts
  <2>2. /\ rows'[i].attempts \in 0..MaxAttempts /\ rows[i].attempts <= rows'[i].attempts
        /\ rows[i].attempts + 1 <= rows'[i].attempts
    BY <1>2, <1>4, <1>5, <1>9, <1>11, <2>1
  <2> QED  BY <1>1, <1>3, <1>9, <2>1, <2>2, Told
<1>10. \/ Ends(c) /\ UNCHANGED <<rows, told>>
       \/ /\ rows[i].attempts # MaxAttempts
          /\ rows' = [rows EXCEPT ![i] = x]
          /\ (Goes(c, "exhaust") /\ told' = told) \/ Rejected(c)
  BY <1>4, <1>6 DEF CountAttempt, IncrementOtpAttempts
<1> QED  BY <1>7, <1>8, <1>9, <1>10

LEMMA ExhaustGuess ==
  ASSUME GuessInv, CodesInv', NEW c \in Callers, ExhaustOtp(c)
  PROVE  GuessInv'
<1> DEFINE i == request[c].row
<1>1. request[c].at = "exhaust" /\ sent' = sent /\ Rejected(c)
  BY DEF ExhaustOtp, At
<1>2. CodesInv /\ CodesTyped /\ MaxAttempts \in Nat
  BY CodesAssumption DEF GuessInv, CodesInv
<1>3. i \in 1..Len(rows)
  BY <1>1, <1>2, SafeRequests DEF Safe
<1>4. PICK r \in Ch : r = rows[i]
  BY <1>2, <1>3, SafeRequests
<1>5. r.attempts \in 0..MaxAttempts
  <2>1. PICK k \in Nat : k = 0
    OBVIOUS
  <2> QED  BY <1>3, <1>4, <2>1, Requests
<1>6. PICK x \in Ch : x = [r EXCEPT !.consumed = TRUE, !.attempts = MaxAttempts] /\ x.code = r.code /\ x.consumed
                      /\ x.attempts = MaxAttempts
  <2>1. PICK n \in Nat : n = MaxAttempts
    BY <1>2
  <2>2. LET y == [r EXCEPT !.consumed = TRUE, !.attempts = n] IN y \in Ch /\ y.code = r.code /\ y.consumed
    BY ChallengeUpdates
  <2>3. [r EXCEPT !.consumed = TRUE, !.attempts = n].attempts = n
    BY AttemptUpdates
  <2> QED  BY <2>1, <2>2, <2>3, Zenon
<1>7. rows' = [rows EXCEPT ![i] = x]
  BY <1>4, <1>6 DEF ExhaustOtp
<1>8. RowsKept /\ rows'[i] = x /\ \A j \in 1..Len(rows) : j # i => rows'[j] = rows[j]
  BY <1>2, <1>3, <1>4, <1>6, <1>7, RowWritten, OneRowCounts
<1>9. rows'[i].attempts \in 0..MaxAttempts /\ rows[i].attempts <= rows'[i].attempts
  BY <1>2, <1>4, <1>5, <1>6, <1>8
<1> QED  BY <1>1, <1>3, <1>8, <1>9, Told

\* A request compares the code that the row has now, or finds that it is not to.
LEMMA VerifyGuess ==
  ASSUME GuessInv, CodesInv', NEW c \in Callers, NEW guess, VerifyOtp(c, guess)
  PROVE  GuessInv'
<1>1. UNCHANGED <<rows, sent, told>> /\ RowsKept /\ CodesInv /\ request[c].at = "verify"
  BY SafeRequests DEF VerifyOtp, At, GuessInv
<1>2. CASE Ends(c)
  BY <1>1, <1>2, Departs
<1>3. ASSUME NEW i \in FindLiveOtp(request[c].purpose),
             request' = [request EXCEPT ![c] =
               IF rows[i].expired \/ rows[i].attempts >= MaxAttempts
               THEN [@ EXCEPT !.row = i, !.at = "exhaust"]
               ELSE [@ EXCEPT !.row = i, !.code = rows[i].code,
                              !.at = IF guess = rows[i].code THEN "consume" ELSE "count"]]
      PROVE  GuessInv'
  <2>1. i \in 1..Len(rows) /\ i \in Nat /\ rows[i].code \in Nat
    BY <1>1, SafeRequests DEF FindLiveOtp, CodesInv, RowsApart
  <2>2. PICK k \in Req : k = request[c] /\ k.code = 0
    <3>1. request[c] \in Req
      BY <1>1, SafeRequests
    <3>2. request[c].code = 0
      BY <1>1 DEF GuessInv, CountsTyped, Knows
    <3> QED  BY <3>1, <3>2
  <2>3. PICK n \in Nat : n = rows[i].code
    BY <2>1
  <2>4. PICK a \in {"consume", "count"} : a = IF guess = rows[i].code THEN "consume" ELSE "count"
    OBVIOUS
  <2>s. "exhaust" \in Stage /\ a \in Stage
    BY DEF Stage
  <2> DEFINE e == Finds(k, i, "exhaust")
             v == Reads(k, i, n, a)
  <2>5. e \in Req /\ e.row = i /\ e.at = "exhaust"
    BY <2>1, <2>s, RequestFinds
  <2>6. e.code = 0
    BY <2>2 DEF Finds, Req
  <2>7. v \in Req /\ v.row = i /\ v.code = n /\ v.at = a
    <3>1. k \in Req /\ i \in Nat /\ n \in Nat /\ a \in Stage
      BY <2>1, <2>s
    <3>2. Reads(k, i, n, a) \in Req
      BY <3>1, RequestReads
    <3>3. Reads(k, i, n, a).row = i /\ Reads(k, i, n, a).code = n /\ Reads(k, i, n, a).at = a
      BY <3>1, RequestReads
    <3> QED  BY <3>2, <3>3
  <2>8. request' = [request EXCEPT ![c] = e] \/ request' = [request EXCEPT ![c] = v]
    <3>1. request' = [request EXCEPT ![c] =
            IF rows[i].expired \/ rows[i].attempts >= MaxAttempts
            THEN Finds(request[c], i, "exhaust")
            ELSE Reads(request[c], i, rows[i].code, IF guess = rows[i].code THEN "consume" ELSE "count")]
      BY <1>3 DEF Finds, Reads
    <3>2. e = Finds(request[c], i, "exhaust")
      BY <2>2
    <3>3. v = Reads(request[c], i, rows[i].code, IF guess = rows[i].code THEN "consume" ELSE "count")
      BY <2>2, <2>3, <2>4
    <3> HIDE DEF e, v
    <3> QED  BY <3>1, <3>2, <3>3
  <2> HIDE DEF e, v
  <2>9. \A j \in 1..Len(rows) : rows[j].code \in 1..sent /\ (rows[j].code = n => j = i)
    BY <1>1, <2>1, <2>3 DEF CodesInv, RowsApart
  <2>10. sent \in Nat
    BY <1>1, SafeRequests
  <2>11. Knows(e)
    BY <2>5, <2>6, <2>9, <2>10 DEF Knows
  <2>12. Knows(v)
    BY <2>1, <2>3, <2>7, <2>9, <2>10 DEF Knows
  <2>13. Held(v.code)
    BY <2>1, <2>3, <2>7 DEF Held
  <2>14. v.at # "exhaust"
    BY <2>7
  <2> QED  BY <1>1, <2>5, <2>6, <2>7, <2>8, <2>11, <2>12, <2>13, <2>14, QuietStep
<1> QED  BY <1>2, <1>3 DEF VerifyOtp

\* A new code is nobody's, and the one that it replaces was compared by others only.
LEMMA Replaced ==
  ASSUME GuessInv, CodesInv', NEW c \in Callers, request[c].at = "write", Ends(c), UNCHANGED told,
         sent' = sent + 1, sent < MaxCodes, NEW i \in Nat, i \in 1..Len(rows'), Len(rows) <= Len(rows'),
         rows'[i].code = sent + 1, rows'[i].attempts = 0,
         \A j \in 1..Len(rows') : j # i => j \in 1..Len(rows) /\ rows'[j] = rows[j],
         \A j \in 1..Len(rows) : j \in 1..Len(rows')
  PROVE  GuessInv'
<1>1. /\ CodesInv /\ CodesTyped /\ sent \in Nat /\ MaxAttempts \in Nat \ {0} /\ MaxCodes \in Nat
      /\ Codes \subseteq Nat /\ 0 \notin Codes /\ told \in [Codes -> Nat]
      /\ \A d \in Callers : Knows(request[d]) /\ request[d] \in Req
      /\ \A j \in 1..Len(rows) : rows[j].code \in Codes /\ rows[j].attempts \in 0..MaxAttempts
      /\ Idle.at = "idle" /\ Idle \in Req /\ Knows(Idle)
      /\ \A j \in 1..Len(rows) : rows[j].code <= sent
      /\ Cardinality(Callers) \in Nat
  <2>1. PICK k \in Nat : k = 0
    OBVIOUS
  <2>2. CodesInv
    BY DEF GuessInv
  <2>3. \A j \in 1..Len(rows) : rows[j].code \in 1..sent
    BY <2>2 DEF CodesInv, RowsApart
  <2>4. MaxAttempts \in Nat \ {0} /\ MaxCodes \in Nat
    BY CodesAssumption
  <2>5. sent \in Nat /\ Idle \in Req
    BY <2>2, SafeRequests
  <2>6. \A j \in 1..Len(rows) : rows[j].code <= sent
    BY <2>3, <2>5
  <2> QED  BY <2>1, <2>2, <2>4, <2>5, <2>6, Requests
<1>2. request' = [request EXCEPT ![c] = Idle]
  BY DEF Ends
<1>3. request'[c] = Idle /\ \A d \in Callers : d # c => request'[d] = request[d]
  BY <1>1, <1>2 DEF CodesTyped
<1>4. \A d \in Callers : request'[d] \in Req /\ Knows(request'[d])
  BY <1>1, <1>3, Zenon
<1>5. CountsTyped'
  <2>1. ASSUME NEW q \in Req, Knows(q)
        PROVE  /\ q.at \in {"idle", "look", "find", "write", "verify", "password"} => q.code = 0
               /\ q.at \in {"count", "exhaust"} =>
                    q.code <= sent' /\ \A j \in 1..Len(rows') : rows'[j].code = q.code => j = q.row
    <3>1. q.code \in Nat
      BY DEF Req
    <3> QED  BY <1>1, <2>1, <3>1 DEF Knows
  <2>2. \A d \in Callers : Knows(request[d])'
    BY <1>4, <2>1 DEF Knows
  <2>3. \A j \in 1..Len(rows') : rows'[j].attempts <= MaxAttempts
    BY <1>1
  <2>4. sent' <= MaxCodes
    BY <1>1
  <2> QED  BY <1>1, <2>2, <2>3, <2>4 DEF CountsTyped
<1>6. ASSUME NEW k \in Codes
      PROVE  /\ Cardinality(Refusing(k)') <= Cardinality(Refusing(k))
             /\ k = sent + 1 => Refusing(k)' = {}
             /\ Cardinality(Outstanding(k)') <= Cardinality(Outstanding(k))
             /\ Cardinality(Outstanding(k)') < Cardinality(Callers)
             /\ Cardinality(Refusing(k)') \in Nat /\ Cardinality(Refusing(k)) \in Nat
             /\ Cardinality(Outstanding(k)') \in Nat /\ Cardinality(Outstanding(k)) \in Nat
  <2>1. k \in Nat
    BY <1>1
  <2>2. /\ Refusing(k)' \subseteq Refusing(k) /\ Outstanding(k)' \subseteq Outstanding(k)
        /\ Refusing(k)' \in SUBSET Callers /\ Outstanding(k)' \in SUBSET Callers /\ c \notin Outstanding(k)'
    BY <1>1, <1>2, <2>1, OneGoesOn
  <2>3. Refusing(k) \in SUBSET Callers /\ Outstanding(k) \in SUBSET Callers
    BY <2>1, Requests
  <2>4. k = sent + 1 => Refusing(k) = {}
    BY <1>1 DEF Refusing, Knows
  <2> QED  BY <2>2, <2>3, <2>4, Crowds
<1>7. FreshCounts'
  BY <1>1 DEF GuessInv, FreshCounts
<1>8. HeldCounts'
  <2> SUFFICES ASSUME NEW k \in Codes, NEW j \in 1..Len(rows'), rows'[j].code = k
               PROVE  told[k] + Cardinality(Refusing(k)') <= rows'[j].attempts
    BY DEF HeldCounts
  <2>1. CASE j = i
    <3>1. k = sent + 1 /\ told[k] = 0
      BY <1>1, <2>1 DEF GuessInv, FreshCounts
    <3>2. Cardinality(Refusing(k)') = 0
      BY <1>6, <3>1, FS_EmptySet
    <3> QED  BY <2>1, <3>1, <3>2
  <2>2. CASE j # i
    <3>1. j \in 1..Len(rows) /\ rows'[j] = rows[j]
      BY <2>2
    <3>2. told[k] + Cardinality(Refusing(k)) <= rows[j].attempts
      BY <3>1 DEF GuessInv, HeldCounts
    <3>3. PICK t \in Nat, x \in Nat, y \in Nat, m \in Nat :
            /\ t = told[k] /\ x = Cardinality(Refusing(k)) /\ y = Cardinality(Refusing(k)')
            /\ m = rows[j].attempts /\ t + x <= m /\ y <= x
      <4>1. rows[j].attempts \in Nat /\ told[k] \in Nat
        BY <1>1, <3>1
      <4> QED  BY <1>6, <3>2, <4>1
    <3>4. t + y <= m
      <4>1. t + x <= m /\ y <= x
        BY <3>3
      <4> QED  BY <4>1
    <3> QED  BY <3>1, <3>3, <3>4
  <2> QED  BY <2>1, <2>2
<1>9. ReplacedCounts'
  <2> SUFFICES ASSUME NEW k \in Codes, ~Held(k)'
               PROVE  told[k] + Cardinality(Outstanding(k)') < MaxAttempts + Cardinality(Callers)
    BY DEF ReplacedCounts
  <2>1. PICK t \in Nat, x \in Nat, y \in Nat :
          /\ t = told[k] /\ x = Cardinality(Outstanding(k)) /\ y = Cardinality(Outstanding(k)')
          /\ y <= x /\ y < Cardinality(Callers)
    BY <1>1, <1>6
  <2>2. CASE ~Held(k)
    <3>1. t + x < MaxAttempts + Cardinality(Callers)
      BY <2>1, <2>2 DEF GuessInv, ReplacedCounts
    <3>2. t + y < MaxAttempts + Cardinality(Callers)
      BY <1>1, <2>1, <3>1
    <3> QED  BY <2>1, <3>2
  <2>3. CASE Held(k)
    <3>1. PICK j \in 1..Len(rows) : rows[j].code = k
      BY <2>3 DEF Held
    <3>2. told[k] + Cardinality(Refusing(k)) <= rows[j].attempts
      BY <3>1 DEF GuessInv, HeldCounts
    <3>3. PICK m \in Nat, z \in Nat : /\ m = rows[j].attempts /\ z = Cardinality(Refusing(k))
                                      /\ t + z <= m /\ m <= MaxAttempts
      <4>1. rows[j].attempts \in 0..MaxAttempts /\ MaxAttempts \in Nat
        BY <1>1, <3>1
      <4>2. rows[j].attempts \in Nat /\ rows[j].attempts <= MaxAttempts
        BY <4>1
      <4>3. Cardinality(Refusing(k)) \in Nat
        BY <1>6
      <4>4. t + Cardinality(Refusing(k)) <= rows[j].attempts
        BY <2>1, <3>2
      <4> QED  BY <4>2, <4>3, <4>4
    <3>4. t <= MaxAttempts
      BY <1>1, <3>3
    <3>5. MaxAttempts \in Nat /\ Cardinality(Callers) \in Nat /\ y < Cardinality(Callers)
      BY <1>1, <2>1
    <3>6. t + y < MaxAttempts + Cardinality(Callers)
      BY <3>4, <3>5
    <3> QED  BY <2>1, <3>6
  <2> QED  BY <2>2, <2>3
<1> QED  BY <1>5, <1>7, <1>8, <1>9 DEF GuessInv

LEMMA UpsertGuess ==
  ASSUME GuessInv, CodesInv', NEW c \in Callers, UpsertOtpChallenge(c)
  PROVE  GuessInv'
<1>1. request[c].at = "write" /\ Ends(c) /\ told' = told /\ sent < MaxCodes
  BY DEF UpsertOtpChallenge, At
<1>0. CodesInv
  BY DEF GuessInv
<1>2. CASE UNCHANGED <<rows, sent>>
  BY <1>0, <1>1, <1>2, SafeRequests, Departs
<1>3. CASE rows' = [rows EXCEPT ![request[c].row] = Resent(@, sent + 1)] /\ sent' = sent + 1 /\ request[c].row # 0
  <2> DEFINE i == request[c].row
  <2>1. i \in 1..Len(rows) /\ i \in Nat
    BY <1>0, <1>1, <1>3, SafeRequests DEF Safe
  <2>2. PICK r \in Ch : r = rows[i]
    BY <1>0, <2>1, SafeRequests
  <2>3. PICK x : x = Resent(r, sent + 1)
    OBVIOUS
  <2>4. x.code = sent + 1 /\ x.attempts = 0
    <3>1. Resent(r, sent + 1).code = sent + 1
      BY DEF Resent, Ch
    <3>2. Resent(r, sent + 1).attempts = 0
      BY DEF Resent, Ch
    <3> QED  BY <2>3, <3>1, <3>2
  <2>5. rows' = [rows EXCEPT ![i] = x]
    BY <1>3, <2>2, <2>3
  <2> HIDE DEF i
  <2>6. Len(rows') = Len(rows) /\ rows'[i] = x /\ \A j \in 1..Len(rows) : j # i => rows'[j] = rows[j]
    BY <1>0, <2>1, <2>5, SafeRequests
  <2>7. Len(rows) \in Nat
    BY <1>0, SafeRequests
  <2> QED  BY <1>1, <1>3, <2>1, <2>4, <2>6, <2>7, Replaced
<1>4. CASE rows' = Append(rows, Challenge(request[c].purpose, sent + 1)) /\ sent' = sent + 1
  <2> DEFINE x == Challenge(request[c].purpose, sent + 1)
             i == Len(rows) + 1
  <2>1. x.code = sent + 1 /\ x.attempts = 0
    BY DEF Challenge
  <2> HIDE DEF x
  <2>2. /\ Len(rows') = Len(rows) + 1 /\ rows'[Len(rows) + 1] = x
        /\ \A j \in 1..Len(rows) : rows'[j] = rows[j]
    BY <1>0, <1>4, SafeRequests DEF x
  <2>3. Len(rows) \in Nat /\ i \in Nat
    BY <1>0, SafeRequests
  <2>4. i \in 1..Len(rows') /\ rows'[i] = x /\ \A j \in 1..Len(rows') : j # i => j \in 1..Len(rows) /\ rows'[j] = rows[j]
    BY <2>2, <2>3
  <2>5. \A j \in 1..Len(rows) : j \in 1..Len(rows')
    BY <2>2, <2>3
  <2>6. Len(rows) <= Len(rows')
    BY <2>2, <2>3
  <2> HIDE DEF i
  <2> QED  BY <1>1, <1>4, <2>1, <2>3, <2>4, <2>5, <2>6, Replaced
<1> QED  BY <1>2, <1>3, <1>4 DEF UpsertOtpChallenge

\* A request starts, or goes on with what it knows, and compares nothing.
LEMMA PlainSteps ==
  ASSUME GuessInv, CodesInv', NEW c \in Callers, UNCHANGED <<rows, sent, told>>,
         NEW at \in {"look", "find", "verify", "password", "commit"}, NEW purpose,
         \/ Starts(c, at, purpose)
         \/ Goes(c, at) /\ request[c].at \in {"idle", "look"}
         \/ Goes(c, at) /\ request[c].at = "consume" /\ at = "commit"
  PROVE  GuessInv'
<1>1. CodesInv /\ RowsKept /\ Idle.at = "idle" /\ Idle.code = 0 /\ Idle \in Req
  BY SafeRequests DEF GuessInv, Idle
<1>2. PICK z \in Nat : z = 0
  OBVIOUS
<1>3. CASE Starts(c, at, purpose)
  <2>1. PICK k \in Req : k = Idle /\ k.code = 0
    BY <1>1
  <2>2. purpose \in Purposes /\ request' = [request EXCEPT ![c] = [k EXCEPT !.at = at, !.purpose = purpose]]
    BY <1>3, <2>1 DEF Starts
  <2>3. [k EXCEPT !.at = at, !.purpose = purpose] \in Req
    BY <2>2 DEF Req
  <2>4. [k EXCEPT !.at = at, !.purpose = purpose].at = at
    BY DEF Req
  <2>5. [k EXCEPT !.at = at, !.purpose = purpose].code = k.code
    BY DEF Req
  <2>6. PICK q \in Req : q = [k EXCEPT !.at = at, !.purpose = purpose] /\ q.at = at /\ q.code = 0
    BY <2>1, <2>3, <2>4, <2>5, Zenon
  <2>7. Knows(q)
    BY <2>6 DEF Knows
  <2>8. q.at \notin {"count", "exhaust"}
    BY <2>6
  <2> QED  BY <1>1, <2>2, <2>6, <2>7, <2>8, QuietStep
<1>4. CASE Goes(c, at) /\ (request[c].at \in {"idle", "look"} \/ (request[c].at = "consume" /\ at = "commit"))
  <2>1. PICK k \in Req : k = request[c] /\ Knows(k)
    BY <1>2, Requests
  <2>2. PICK q \in Req : q = [k EXCEPT !.at = at] /\ q.at = at /\ q.row = k.row /\ q.code = k.code
    <3>1. at \in Stage
      BY DEF Stage
    <3> QED  BY <3>1, RequestGoes, Zenon
  <2>3. request' = [request EXCEPT ![c] = q]
    BY <1>4, <2>1, <2>2 DEF Goes
  <2>4. Knows(q)
    BY <1>4, <2>1, <2>2 DEF Knows
  <2>5. q.at \notin {"count", "exhaust"}
    BY <2>2
  <2> QED  BY <1>1, <2>3, <2>4, <2>5, QuietStep
<1> QED  BY <1>3, <1>4

\* What ends a request, and does not look at attempts.
LEMMA EndingSteps ==
  ASSUME GuessInv, CodesInv', NEW c \in Callers,
         Rollback(c) \/ RecordFailedLogin(c) \/ SignIn(c) \/ Commit(c)
  PROVE  GuessInv'
<1>1. Ends(c) /\ UNCHANGED <<sent, told>> /\ CodesInv /\ CodesTyped
  BY DEF Rollback, RecordFailedLogin, SignIn, Commit, GuessInv, CodesInv
<1>2. CASE rows' = rows
  BY <1>1, <1>2, SafeRequests, Departs
<1>3. CASE Commit(c)
  <2> DEFINE i == request[c].row
  <2>1. i \in 1..Len(rows)
    BY <1>1, <1>3, SafeRequests DEF Safe, Commit, At
  <2>2. PICK r \in Ch : r = rows[i]
    BY <1>1, <2>1, SafeRequests
  <2>3. PICK x \in Ch : x = [r EXCEPT !.consumed = TRUE] /\ x.code = r.code /\ x.consumed /\ x.attempts = r.attempts
    <3>1. PICK n \in Nat : n = 0
      OBVIOUS
    <3>2. [r EXCEPT !.consumed = TRUE] \in Ch
      BY <3>1, ChallengeUpdates
    <3>3. [r EXCEPT !.consumed = TRUE].code = r.code /\ [r EXCEPT !.consumed = TRUE].consumed
      BY <3>1, ChallengeUpdates
    <3>4. [r EXCEPT !.consumed = TRUE].attempts = r.attempts
      BY <3>1, AttemptUpdates
    <3> QED  BY <3>2, <3>3, <3>4, Zenon
  <2>4. rows' = [rows EXCEPT ![i] = x]
    BY <1>3, <2>2, <2>3 DEF Commit, Spent
  <2> HIDE DEF i
  <2>5. RowsKept /\ rows'[i] = x /\ \A j \in 1..Len(rows) : j # i => rows'[j] = rows[j]
    BY <1>1, <2>1, <2>2, <2>3, <2>4, RowWritten, OneRowCounts
  <2>6. \A j \in 1..Len(rows) : rows'[j].attempts = rows[j].attempts
    BY <2>2, <2>3, <2>5
  <2> QED  BY <1>1, <2>5, <2>6, Departs
<1>4. rows' = rows \/ Commit(c)
  BY DEF Rollback, RecordFailedLogin, SignIn
<1> QED  BY <1>2, <1>3, <1>4

LEMMA TimeGuess ==
  ASSUME GuessInv, CodesInv', Elapse
  PROVE  GuessInv'
<1>1. UNCHANGED <<sent, request, told>> /\ CodesInv /\ CodesTyped
  BY DEF Elapse, GuessInv, CodesInv
<1>2. RowsKept /\ \A j \in 1..Len(rows) : rows'[j].attempts = rows[j].attempts
  <2>1. CASE rows' = rows
    BY <1>1, <2>1, SafeRequests
  <2>2. ASSUME NEW i \in 1..Len(rows),
               rows' \in {[rows EXCEPT ![i].warm = FALSE], [rows EXCEPT ![i].expired = TRUE]}
        PROVE  RowsKept /\ \A j \in 1..Len(rows) : rows'[j].attempts = rows[j].attempts
    <3>1. PICK r \in Ch : r = rows[i]
      BY <1>1, SafeRequests
    <3>2. PICK x \in Ch : /\ rows' = [rows EXCEPT ![i] = x]
                          /\ x.code = r.code /\ x.consumed = r.consumed /\ x.attempts = r.attempts
      <4>1. PICK n \in Nat : n = 0
        OBVIOUS
      <4>2. PICK x \in Ch : x = [r EXCEPT !.warm = FALSE] /\ x.code = r.code /\ x.consumed = r.consumed
                            /\ x.attempts = r.attempts
        <5>1. LET y == [r EXCEPT !.warm = FALSE] IN y \in Ch /\ y.code = r.code /\ y.consumed = r.consumed
          BY TimeUpdates
        <5>2. [r EXCEPT !.warm = FALSE].attempts = r.attempts
          BY <4>1, AttemptUpdates
        <5> QED  BY <5>1, <5>2, Zenon
      <4>3. PICK z \in Ch : z = [r EXCEPT !.expired = TRUE] /\ z.code = r.code /\ z.consumed = r.consumed
                            /\ z.attempts = r.attempts
        <5>1. LET y == [r EXCEPT !.expired = TRUE] IN y \in Ch /\ y.code = r.code /\ y.consumed = r.consumed
          BY TimeUpdates
        <5>2. [r EXCEPT !.expired = TRUE].attempts = r.attempts
          BY <4>1, AttemptUpdates
        <5> QED  BY <5>1, <5>2, Zenon
      <4>4. rows' = [rows EXCEPT ![i] = x] \/ rows' = [rows EXCEPT ![i] = z]
        BY <2>2, <3>1, <4>2, <4>3
      <4> QED  BY <4>2, <4>3, <4>4
    <3>3. RowsKept /\ rows'[i] = x /\ \A j \in 1..Len(rows) : j # i => rows'[j] = rows[j]
      BY <1>1, <3>1, <3>2, RowWritten, OneRowCounts
    <3> QED  BY <3>1, <3>2, <3>3
  <2> QED  BY <2>1, <2>2 DEF Elapse
<1>3. \A d \in Callers : Knows(request'[d])
  BY <1>1 DEF GuessInv, CountsTyped
<1>4. \A k \in Codes : Refusing(k)' = Refusing(k) /\ Outstanding(k)' = Outstanding(k)
  BY <1>1 DEF Refusing, Outstanding
<1>5. \A k \in Codes, i \in 1..Len(rows) :
        rows[i].code = k => told'[k] + Cardinality(Refusing(k)') <= rows'[i].attempts
  BY <1>1, <1>2, <1>4 DEF GuessInv, HeldCounts
<1>6. ASSUME NEW k \in Codes
      PROVE  told'[k] + Cardinality(Outstanding(k)') <= told[k] + Cardinality(Outstanding(k))
  <2>1. k \in Nat
    BY CodesAssumption DEF Codes
  <2>2. told[k] \in Nat /\ Cardinality(Outstanding(k)) \in Nat
    BY <2>1, Requests
  <2> QED  BY <1>1, <1>4, <2>2
<1>7. told' \in [Codes -> Nat] /\ \A j \in 1..Len(rows) : rows'[j].attempts <= MaxAttempts
  BY <1>1, <1>2 DEF GuessInv, CountsTyped
<1>8. \A k \in Codes : k > sent => told'[k] = 0
  BY <1>1 DEF GuessInv, FreshCounts
<1> QED  BY <1>1, <1>2, <1>3, <1>5, <1>6, <1>7, <1>8, Accounts

\* Each refusal of a code is in the attempts of its row, or was under way when the code
\* was replaced.
THEOREM GuessesAreCounted == CSpec => []GuessInv
<1>1. CInit => GuessInv
  <2> SUFFICES ASSUME CInit PROVE GuessInv
    OBVIOUS
  <2>1. CodesInv
    BY CodesBegin
  <2>2. \A c \in Callers : Knows(request[c])
    BY DEF CInit, Knows, Idle
  <2>3. CountsTyped
    BY <2>2, CodesAssumption DEF CInit, CountsTyped
  <2>4. HeldCounts /\ FreshCounts
    BY DEF CInit, HeldCounts, FreshCounts
  <2>5. ReplacedCounts
    <3> SUFFICES ASSUME NEW k \in Codes
                 PROVE  told[k] + Cardinality(Outstanding(k)) < MaxAttempts + Cardinality(Callers)
      BY DEF ReplacedCounts
    <3>1. Outstanding(k) = {} /\ told[k] = 0
      BY DEF CInit, Outstanding, Idle
    <3>2. Cardinality(Outstanding(k)) = 0
      BY <3>1, FS_EmptySet
    <3>3. Cardinality(Callers) \in Nat /\ MaxAttempts \in Nat \ {0}
      BY CodesAssumption, FS_CardinalityType
    <3> QED  BY <3>1, <3>2, <3>3
  <2> QED  BY <2>1, <2>3, <2>4, <2>5 DEF GuessInv
<1>2. GuessInv /\ CodesInv' /\ [CNext]_cVars => GuessInv'
  <2> SUFFICES ASSUME GuessInv, CodesInv', [CNext]_cVars PROVE GuessInv'
    OBVIOUS
  <2>1. CASE UNCHANGED cVars
    <3>1. UNCHANGED <<rows, sent, request, told>>
      BY <2>1 DEF cVars
    <3>2. \A k \in Codes : Refusing(k)' = Refusing(k) /\ Outstanding(k)' = Outstanding(k) /\ Held(k)' = Held(k)
      BY <3>1 DEF Refusing, Outstanding, Held
    <3>3. CountsTyped'
      <4>1. \A c \in Callers : Knows(request[c])'
        BY <3>1 DEF GuessInv, CountsTyped, Knows
      <4> QED  BY <3>1, <4>1 DEF GuessInv, CountsTyped
    <3> QED  BY <3>1, <3>2, <3>3 DEF GuessInv, HeldCounts, ReplacedCounts, FreshCounts
  <2>2. ASSUME NEW c \in Callers, CodesStep(c)
        PROVE  GuessInv'
    <3>1. CASE Register(c) \/ RequestLoginOtp(c) \/ RequestPasswordReset(c)
               \/ VerifyPhone(c) \/ LoginWithOtp(c) \/ ResetPassword(c)
      <4>1. PICK at \in {"look", "verify"}, purpose \in {"phone_verify", "login", "password_reset"} :
              Starts(c, at, purpose)
        BY <3>1 DEF Register, RequestLoginOtp, RequestPasswordReset, VerifyPhone, LoginWithOtp, ResetPassword
      <4>2. UNCHANGED <<rows, sent, told>>
        BY <4>1 DEF Starts
      <4> QED  BY <4>1, <4>2, PlainSteps
    <3>2. CASE DispatchOtp(c)
      <4>1. UNCHANGED <<rows, sent, told>> /\ request[c].at = "look" /\ (Ends(c) \/ Goes(c, "find")) /\ CodesInv
        BY <3>2 DEF DispatchOtp, At, GuessInv
      <4>2. CASE Ends(c)
        BY <4>1, <4>2, SafeRequests, Departs
      <4>3. CASE Goes(c, "find")
        BY <4>1, <4>3, PlainSteps
      <4> QED  BY <4>1, <4>2, <4>3
    <3>3. CASE LoginWithPassword(c)
      BY <3>3, PlainSteps DEF LoginWithPassword, At
    <3>4. CASE ConsumeOtp(c)
      BY <3>4, PlainSteps DEF ConsumeOtp, At
    <3>5. CASE FindChallenge(c)
      <4> DEFINE live == FindLiveOtp(request[c].purpose)
      <4>1. PICK i \in IF live = {} THEN {0} ELSE live :
              request' = [request EXCEPT ![c] = [@ EXCEPT !.at = "write", !.row = i]]
        BY <3>5 DEF FindChallenge
      <4>2. UNCHANGED <<rows, sent, told>> /\ CodesInv /\ RowsKept /\ i \in Nat /\ request[c].at = "find"
        BY <3>5, SafeRequests DEF FindChallenge, FindLiveOtp, GuessInv, At
      <4>3. PICK k \in Req : k = request[c] /\ k.code = 0
        <5>1. request[c] \in Req
          BY <4>2, SafeRequests
        <5>2. request[c].code = 0
          BY <4>2 DEF GuessInv, CountsTyped, Knows
        <5> QED  BY <5>1, <5>2
      <4>4. "write" \in Stage
        BY DEF Stage
      <4> DEFINE q == Finds(k, i, "write")
      <4>5. q \in Req /\ q.at = "write"
        BY <4>2, <4>4, RequestFinds
      <4>6. q.code = 0
        BY <4>3 DEF Finds, Req
      <4>7. request' = [request EXCEPT ![c] = q]
        BY <4>1, <4>3 DEF Finds
      <4> HIDE DEF q
      <4>8. Knows(q)
        BY <4>5, <4>6 DEF Knows
      <4>9. q.at \notin {"count", "exhaust"}
        BY <4>5
      <4> QED  BY <4>2, <4>5, <4>7, <4>8, <4>9, QuietStep
    <3> QED  BY <2>2, <3>1, <3>2, <3>3, <3>4, <3>5, UpsertGuess, VerifyGuess, CountGuess, ExhaustGuess, EndingSteps
             DEF CodesStep
  <2> QED  BY <2>1, <2>2, TimeGuess DEF CNext
<1> QED  BY <1>1, <1>2, CodesInvariant, PTL DEF CSpec

\* docs/authentication.md, "Attempts: 5, then the challenge is burned", for any number of
\* requests at one time: they can add to the attempts of a code no more than one each.
THEOREM GuessesStayBounded == CSpec => []GuessesAreBounded
<1>1. GuessInv => GuessesAreBounded
  <2> SUFFICES ASSUME GuessInv, NEW k \in Codes
               PROVE  told[k] < MaxAttempts + Cardinality(Callers)
    BY DEF GuessesAreBounded
  <2>1. k \in Nat
    BY CodesAssumption DEF Codes
  <2>2. /\ Cardinality(Outstanding(k)) \in Nat /\ Cardinality(Refusing(k)) \in Nat
        /\ told[k] \in Nat /\ MaxAttempts \in Nat /\ Cardinality(Callers) \in Nat
        /\ \A i \in 1..Len(rows) : rows[i].attempts \in 0..MaxAttempts
    BY <2>1, Requests
  <2>3. CASE ~Held(k)
    BY <2>2, <2>3 DEF GuessInv, ReplacedCounts
  <2>4. CASE Held(k)
    <3>1. PICK i \in 1..Len(rows) : rows[i].code = k
      BY <2>4 DEF Held
    <3>2. told[k] + Cardinality(Refusing(k)) <= rows[i].attempts
      BY <3>1 DEF GuessInv, HeldCounts
    <3>3. PICK m \in Nat : m = rows[i].attempts /\ m <= MaxAttempts
      BY <2>2, <3>1
    <3>4. Cardinality(Callers) > 0
      <4>1. IsFiniteSet(Callers) /\ Callers # {}
        BY CodesAssumption
      <4> QED  BY <2>2, <4>1, FS_EmptySet
    <3>5. told[k] + Cardinality(Refusing(k)) <= m
      BY <3>2, <3>3
    <3> QED  BY <2>2, <3>3, <3>4, <3>5
  <2> QED  BY <2>3, <2>4
<1> QED  BY <1>1, GuessesAreCounted, PTL
=============================================================================
