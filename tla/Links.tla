------------------------------- MODULE Links -------------------------------
(***************************************************************************)
(* The linking of Telegram accounts (telegram.service.ts over              *)
(* auth/repository.ts).  The website issues a token, in two statements     *)
(* outside a transaction, and the bot confirms it, in one transaction that *)
(* locks the token; the user unlinks.  One account per user and per        *)
(* Telegram id is the doing of unique indexes.                             *)
(***************************************************************************)
EXTENDS Naturals, Sequences

CONSTANTS
  Linkers,     \* requests and confirmations handled at one time
  Users,
  Telegrams,   \* Telegram user ids
  MaxTokens,   \* bound: tokens ever issued
  Nobody,      \* consumed_at IS NULL
  Superseded   \* consumed_by_telegram_user_id = 0

ASSUME LinksAssumption ==
  /\ Nobody \notin Telegrams /\ Superseded \notin Telegrams /\ Nobody # Superseded
  /\ MaxTokens \in Nat

VARIABLES
  tokens,      \* telegram_link_tokens, in the order of their insertion
  accounts,    \* telegram_accounts, committed
  linker       \* what each request is doing

lVars == <<tokens, accounts, linker>>

Resting == [at |-> "rest"]

LInit ==
  /\ tokens = <<>>
  /\ accounts = {}
  /\ linker = [l \in Linkers |-> Resting]

-----------------------------------------------------------------------------
LiveTokens(u) == {t \in 1..Len(tokens) : tokens[t].user = u /\ tokens[t].by = Nobody}

\* findTelegramAccountByUserId, findTelegramAccountByTelegramId.
LinkedUser(u)     == \E a \in accounts : a.user = u
LinkedTelegram(g) == \E a \in accounts : a.telegram = g

\* Mutant of TokenLocked: claimLinkToken without FOR UPDATE.
BugTokenLocked(t) == FALSE

\* claimLinkToken, FOR UPDATE, until the transaction ends.
TokenLocked(t) == \E l \in Linkers : linker[l].at = "claimed" /\ linker[l].token = t

Moves(l, state) == linker' = [linker EXCEPT ![l] = state]

\* createLinkToken, for a user who is not linked.
CreateLinkToken(l, u) ==
  /\ linker[l] = Resting
  /\ ~LinkedUser(u)
  /\ Moves(l, [at |-> "retire", user |-> u])
  /\ UNCHANGED <<tokens, accounts>>

\* replaceLinkToken, its first statement: the user's live token is retired; it waits
\* for a confirmation that has the row.
RetireLinkToken(l) ==
  /\ linker[l].at = "retire"
  /\ \A t \in LiveTokens(linker[l].user) : ~TokenLocked(t)
  /\ tokens' = [t \in 1..Len(tokens) |->
                  IF t \in LiveTokens(linker[l].user) THEN [tokens[t] EXCEPT !.by = Superseded] ELSE tokens[t]]
  /\ Moves(l, [linker[l] EXCEPT !.at = "insert"])
  /\ UNCHANGED accounts

\* And its second.  The unique index refuses another live token of the user.
InsertLinkToken(l) ==
  LET u == linker[l].user IN
  /\ linker[l].at = "insert"
  /\ Len(tokens) < MaxTokens
  /\ tokens' = IF LiveTokens(u) = {} THEN Append(tokens, [user |-> u, by |-> Nobody, expired |-> FALSE])
               ELSE tokens
  /\ Moves(l, Resting)
  /\ UNCHANGED accounts

\* confirmLink, up to its first write: a token that is live, for a Telegram account
\* that is not linked.
ConfirmLink(l, t, g) ==
  /\ linker[l] = Resting
  /\ ~TokenLocked(t)
  /\ tokens[t].by = Nobody /\ ~tokens[t].expired
  /\ ~LinkedTelegram(g)
  /\ Moves(l, [at |-> "claimed", token |-> t, telegram |-> g])
  /\ UNCHANGED <<tokens, accounts>>

\* markLinkTokenConsumed, by the token's id.
MarkLinkTokenConsumed(t, g) == [tokens EXCEPT ![t].by = g]

CreateTelegramAccount(u, g) == accounts \cup {[user |-> u, telegram |-> g]}
DeleteTelegramAccount(u)    == {a \in accounts : a.user # u}

\* createTelegramAccount and markLinkTokenConsumed, committed together; the unique
\* indexes refuse a user or a Telegram account that was linked meanwhile.
LinkAccount(l) ==
  LET t == linker[l].token  g == linker[l].telegram  u == tokens[t].user IN
  /\ linker[l].at = "claimed"
  /\ IF LinkedUser(u) \/ LinkedTelegram(g)
     THEN UNCHANGED <<tokens, accounts>>
     ELSE /\ accounts' = CreateTelegramAccount(u, g)
          /\ tokens' = MarkLinkTokenConsumed(t, g)
  /\ Moves(l, Resting)

\* The process dies, or a statement fails.
AbandonLink(l) ==
  /\ linker[l] # Resting
  /\ Moves(l, Resting)
  /\ UNCHANGED <<tokens, accounts>>

\* unlinkTelegram, for a user with another way to sign in.
UnlinkTelegram(u) ==
  /\ LinkedUser(u)
  /\ accounts' = DeleteTelegramAccount(u)
  /\ UNCHANGED <<tokens, linker>>

\* LINK_TOKEN_TTL_SECONDS.
ExpireToken(t) ==
  /\ tokens[t].by = Nobody /\ ~tokens[t].expired
  /\ tokens' = [tokens EXCEPT ![t].expired = TRUE]
  /\ UNCHANGED <<accounts, linker>>

LinkStep(l) ==
  \/ \E u \in Users : CreateLinkToken(l, u)
  \/ RetireLinkToken(l) \/ InsertLinkToken(l)
  \/ \E t \in 1..Len(tokens), g \in Telegrams : ConfirmLink(l, t, g)
  \/ LinkAccount(l) \/ AbandonLink(l)

LNext ==
  \/ \E l \in Linkers : LinkStep(l)
  \/ \E u \in Users : UnlinkTelegram(u)
  \/ \E t \in 1..Len(tokens) : ExpireToken(t)

LkSpec == LInit /\ [][LNext]_lVars

-----------------------------------------------------------------------------
\* Every link that comes to be uses up one token of its user, which nobody had used
\* and nothing had superseded, and which names the Telegram account from then on: one
\* token makes one link, however its confirmations overlap each other, a newer token,
\* an unlinking, or the confirmation of another.
TokenIsSingleUse ==
  [][\A a \in accounts' \ accounts :
       \E t \in 1..Len(tokens) :
         tokens[t].user = a.user /\ tokens[t].by = Nobody /\ tokens'[t].by = a.telegram]_lVars
=============================================================================
