------------------------------ MODULE Channels ------------------------------
(***************************************************************************)
(* How one user's bids on one auction reach the engine: the conversation   *)
(* with the bot (handlers/bidding/index.ts over conversation.ts) and the   *)
(* panel of the website (BidPanel.tsx over bid-api.ts).                    *)
(*                                                                         *)
(* Telegram delivers updates whenever it likes, and again if no answer     *)
(* came; each is handled on its own, and what they share is one draft in   *)
(* Redis.  A call to Redis that fails is swallowed.  A browser keeps its   *)
(* key in the page; its requests and their answers may be lost or late.    *)
(*                                                                         *)
(* The engine is the module Bidding, seen from outside: a key is booked    *)
(* with the amounts it came with, once, and asked again it replays.        *)
(***************************************************************************)
EXTENDS Naturals, FiniteSets

CONSTANTS
  Keys,        \* fresh idempotency keys, each minted once
  Batches,     \* the sets of amounts that the user may type
  MaxBids,     \* auctions.max_bids_per_user
  Handlers,    \* updates handled at one time
  Tabs,        \* pages open at one time
  NoKey

ASSUME ChannelsAssumption ==
  /\ NoKey \notin Keys
  /\ {} \notin Batches
  /\ MaxBids \in Nat

VARIABLES
  open,        \* the auction takes bids
  booked,      \* the engine: what was accepted under each key, {} if nothing was
  minted,      \* the keys in use
  draft,       \* conv:bid:<subject> in Redis: a set, empty if there is none
  shown,       \* the confirmations in the chat, whose buttons stay there
  handler,     \* what each update has read
  told,        \* what the chat was told about a key
  stage,       \* the panel's stage, in each tab
  wire         \* requests on their way to the server; a page awaits some

engineVars == <<open, booked>>
chatVars   == <<draft, shown, handler, told>>
webVars    == <<stage, wire>>
chVars     == <<engineVars, minted, chatVars, webVars>>

Bid     == [key : Keys, amounts : Batches]
Prompt  == [key |-> NoKey, amounts |-> {}]
Free    == [at |-> "free", bid |-> Prompt]
Entry   == [kind |-> "entry", bid |-> Prompt]

ChTypeOK ==
  /\ open \in BOOLEAN
  /\ booked \in [Keys -> Batches \cup {{}}]
  /\ minted \subseteq Keys
  /\ draft \subseteq Bid \cup {Prompt} /\ Cardinality(draft) <= 1
  /\ shown \subseteq Keys
  /\ handler \in [Handlers -> [at : {"free", "prompt", "typed", "quote", "show", "submit", "drop", "report"},
                               bid : Bid \cup {Prompt} \cup [key : {NoKey}, amounts : Batches]]]
  /\ told \in [{"placed", "not_submitted"} -> SUBSET Keys]
  /\ stage \in [Tabs -> [kind : {"entry", "confirming", "submitting", "done"}, bid : Bid \cup {Prompt}]]
  /\ wire \subseteq [tab : Tabs, bid : Bid, awaited : BOOLEAN]

ChInit ==
  /\ open = TRUE
  /\ booked = [k \in Keys |-> {}]
  /\ minted = {}
  /\ draft = {} /\ shown = {}
  /\ handler = [h \in Handlers |-> Free]
  /\ told = [w \in {"placed", "not_submitted"} |-> {}]
  /\ stage = [t \in Tabs |-> Entry]
  /\ wire = {}

-----------------------------------------------------------------------------
Held      == UNION {booked[k] : k \in Keys}
Remaining == MaxBids - Cardinality(Held)

\* submitBids.  A key that is booked is replayed, or refused with other amounts; but
\* an auction that takes no bids refuses first, before it looks for the key.
Accepts(b) ==
  /\ open
  /\ IF booked[b.key] # {} THEN booked[b.key] = b.amounts
     ELSE b.amounts \cap Held = {} /\ Cardinality(b.amounts) <= Remaining

Books(b) == booked' = [booked EXCEPT ![b.key] = b.amounts]

\* The engine answers, "accepted" for what is accepted now or was before.  A wallet,
\* a rate limit or an expired sign-in may refuse anything; a database that fails
\* may do so before its commit, or after it.
Engine(b, answer) ==
  \/ answer = "accepted" /\ Accepts(b) /\ Books(b)
  \/ answer = "refused"  /\ UNCHANGED booked
  \/ answer = "error"    /\ (UNCHANGED booked \/ (Accepts(b) /\ Books(b)))

\* The auction closes.
CloseAuction ==
  /\ open
  /\ open' = FALSE
  /\ UNCHANGED <<booked, minted, chatVars, webVars>>

-----------------------------------------------------------------------------
\* putDraft: one draft per user; a failure is swallowed.
PutDraft(d) == draft' \in {{d}, draft}

\* dropDraft.
DropDraft == draft' \in {{}, draft}

Turn(h, at, bid) == handler' = [handler EXCEPT ![h] = [at |-> at, bid |-> bid]]
Done(h)          == handler' = [handler EXCEPT ![h] = Free]
Says(what, k)    == told' = [told EXCEPT ![what] = @ \cup {k}]

\* beginBid, up to the status.
BeginBid(h) ==
  /\ handler[h] = Free
  /\ open
  /\ Turn(h, "prompt", Prompt)
  /\ UNCHANGED <<engineVars, minted, draft, shown, told, webVars>>

\* The allowance, the draft that waits for amounts, and the prompt.
SendPrompt(h) ==
  /\ handler[h].at = "prompt"
  /\ IF Remaining = 0 THEN UNCHANGED draft ELSE PutDraft(Prompt)
  /\ Done(h)
  /\ UNCHANGED <<engineVars, minted, shown, told, webVars>>

\* collectAmounts, up to getDraft: a message means something while there is a draft.
TypeAmounts(h, amounts) ==
  /\ handler[h] = Free
  /\ draft # {}
  /\ Turn(h, "typed", [key |-> NoKey, amounts |-> amounts])
  /\ UNCHANGED <<engineVars, minted, draft, shown, told, webVars>>

\* The status of the auction that the draft named.
CheckTyped(h) ==
  /\ handler[h].at = "typed"
  /\ IF open
     THEN Turn(h, "quote", handler[h].bid) /\ UNCHANGED draft
     ELSE Done(h) /\ DropDraft
  /\ UNCHANGED <<engineVars, minted, shown, told, webVars>>

\* Mutant of Quote: the key that the draft has is kept.
BugQuote(h, k) ==
  LET old == {d.key : d \in draft} \ {NoKey}
      bid == [handler[h].bid EXCEPT !.key = IF old = {} THEN k ELSE CHOOSE o \in old : TRUE] IN
  /\ handler[h].at = "quote"
  /\ Cardinality(bid.amounts) <= Remaining
  /\ k \notin minted
  /\ minted' = minted \cup {k}
  /\ PutDraft(bid)
  /\ Turn(h, "show", bid)
  /\ UNCHANGED <<engineVars, shown, told, webVars>>

\* The allowance, and a draft with the amounts and a key of their own.
Quote(h, k) ==
  LET bid == [handler[h].bid EXCEPT !.key = k] IN
  /\ handler[h].at = "quote"
  /\ Cardinality(bid.amounts) <= Remaining
  /\ k \notin minted
  /\ minted' = minted \cup {k}
  /\ PutDraft(bid)
  /\ Turn(h, "show", bid)
  /\ UNCHANGED <<engineVars, shown, told, webVars>>

\* The confirmation, with its button.
ShowConfirmation(h) ==
  /\ handler[h].at = "show"
  /\ shown' = shown \cup {handler[h].bid.key}
  /\ Done(h)
  /\ UNCHANGED <<engineVars, minted, draft, told, webVars>>

\* confirmBid, up to getDraft.  The button names no bid: the draft does.
TapConfirm(h) ==
  /\ handler[h] = Free
  /\ shown # {}
  /\ \E d \in draft : d # Prompt /\ Turn(h, "submit", d)
  /\ UNCHANGED <<engineVars, minted, draft, shown, told, webVars>>

\* submitBids, and the refusal if there is one: the engine's own words, or else
\* replyWithError.  The draft stays then.
SubmitDraft(h) ==
  LET b == handler[h].bid IN
  /\ handler[h].at = "submit"
  /\ \/ Engine(b, "accepted") /\ Turn(h, "drop", b) /\ UNCHANGED told
     \/ Engine(b, "refused") /\ Done(h) /\ UNCHANGED told
     \/ Engine(b, "error") /\ Done(h) /\ Says("not_submitted", b.key)
  /\ UNCHANGED <<open, minted, draft, shown, webVars>>

ForgetDraft(h) ==
  /\ handler[h].at = "drop"
  /\ DropDraft
  /\ Turn(h, "report", handler[h].bid)
  /\ UNCHANGED <<engineVars, minted, shown, told, webVars>>

\* getPublicAuction and the reply; if either fails, replyWithError.
Report(h) ==
  /\ handler[h].at = "report"
  /\ \E what \in {"placed", "not_submitted"} : Says(what, handler[h].bid.key)
  /\ Done(h)
  /\ UNCHANGED <<engineVars, minted, draft, shown, webVars>>

\* The process dies, or a read fails, before the update has been answered.
LoseUpdate(h) ==
  /\ handler[h] # Free
  /\ Done(h)
  /\ UNCHANGED <<engineVars, minted, draft, shown, told, webVars>>

\* The Cancel button, and the 15 minutes of a draft.
CancelDraft ==
  /\ draft # {}
  /\ draft' = {}
  /\ UNCHANGED <<engineVars, minted, shown, handler, told, webVars>>

ChatStep(h) ==
  \/ BeginBid(h) \/ SendPrompt(h) \/ CheckTyped(h) \/ ShowConfirmation(h)
  \/ TapConfirm(h) \/ SubmitDraft(h) \/ ForgetDraft(h) \/ Report(h) \/ LoseUpdate(h)
  \/ \E amounts \in Batches : TypeAmounts(h, amounts)
  \/ \E k \in Keys : Quote(h, k)

-----------------------------------------------------------------------------
Becomes(t, kind, bid) == stage' = [stage EXCEPT ![t] = [kind |-> kind, bid |-> bid]]

\* review: what was typed, with a key of its own.  What the panel knows of the bids
\* that remain may be old.
Review(t, amounts, k) ==
  /\ stage[t].kind \in {"entry", "done"}
  /\ k \notin minted
  /\ minted' = minted \cup {k}
  /\ Becomes(t, "confirming", [key |-> k, amounts |-> amounts])
  /\ UNCHANGED <<engineVars, chatVars, wire>>

\* submit, up to the fetch.
Submit(t) ==
  /\ stage[t].kind = "confirming"
  /\ Becomes(t, "submitting", stage[t].bid)
  /\ wire' = wire \cup {[tab |-> t, bid |-> stage[t].bid, awaited |-> TRUE]}
  /\ UNCHANGED <<engineVars, minted, chatVars>>

\* Mutant of AfterAnswer: a failure is taken for a submission that went through.
BugAfterAnswer(answer, bid) ==
  IF answer = "refused" THEN Entry ELSE [kind |-> "done", bid |-> bid]

\* The stage after an answer: isRetryable decides whether the key is kept.
AfterAnswer(answer, bid) ==
  CASE answer = "accepted" -> [kind |-> "done", bid |-> bid]
    [] answer = "refused"  -> Entry
    [] answer = "error"    -> [kind |-> "confirming", bid |-> bid]

\* The server handles a request; its answer reaches the page that awaits it, or is
\* lost.
Serve(r) ==
  /\ r \in wire
  /\ wire' = wire \ {r}
  /\ \E answer \in {"accepted", "refused", "error"} :
       /\ Engine(r.bid, answer)
       /\ \/ UNCHANGED stage
          \/ r.awaited /\ stage' = [stage EXCEPT ![r.tab] = AfterAnswer(answer, r.bid)]
  /\ UNCHANGED <<open, minted, chatVars>>

\* The page awaits no answer any more, although the request may still arrive.
StopWaiting(t) ==
  wire' = {IF r.tab = t THEN [r EXCEPT !.awaited = FALSE] ELSE r : r \in wire}

\* The fetch fails: any error that is not the API's own is retryable.
FetchFails(t) ==
  /\ stage[t].kind = "submitting"
  /\ Becomes(t, "confirming", stage[t].bid)
  /\ StopWaiting(t)
  /\ UNCHANGED <<engineVars, minted, chatVars>>

\* A request that never arrives.
LoseRequest(r) ==
  /\ r \in wire
  /\ wire' = wire \ {r}
  /\ UNCHANGED <<engineVars, minted, chatVars, stage>>

\* Cancel, or a reload, which forgets the key.
LeaveStage(t) ==
  /\ stage[t] # Entry
  /\ stage' = [stage EXCEPT ![t] = Entry]
  /\ StopWaiting(t)
  /\ UNCHANGED <<engineVars, minted, chatVars>>

WebStep(t) ==
  \/ \E amounts \in Batches, k \in Keys : Review(t, amounts, k)
  \/ Submit(t) \/ FetchFails(t) \/ LeaveStage(t)

ChNext ==
  \/ \E h \in Handlers : ChatStep(h)
  \/ \E t \in Tabs : WebStep(t)
  \/ \E r \in wire : Serve(r) \/ LoseRequest(r)
  \/ CancelDraft
  \/ CloseAuction

ChSpec == ChInit /\ [][ChNext]_chVars

-----------------------------------------------------------------------------
\* Every bid that is somewhere with a key: in Redis, in a handler, in a page, on
\* the wire.
Carried ==
  {b \in Bid : \/ b \in draft
               \/ \E h \in Handlers : handler[h].bid = b
               \/ \E t \in Tabs : stage[t].bid = b
               \/ \E r \in wire : r.bid = b}

Booked == {b \in Bid : booked[b.key] = b.amounts}

\* A key never meets two sets of amounts, over both channels, retries, redelivered
\* updates and late requests: so no retry is ever refused as a conflict, and what
\* is booked under the key of a confirmation is what that confirmation was about.
KeyMeansOneBatch == \A b, d \in Carried \cup Booked : b.key = d.key => b = d

\* Whoever is told that bids were placed has them, by either channel, whichever of
\* the answers, replays or retries it was that came through.
PlacedIsTrue ==
  /\ \A k \in told["placed"] : booked[k] # {}
  /\ \A t \in Tabs : stage[t].kind = "done" => booked[stage[t].bid.key] = stage[t].bid.amounts

\* The amounts that were typed are booked together or not at all, and none twice.
BookedAsTyped ==
  /\ \A k \in Keys : booked[k] # {} => booked[k] \in Batches /\ k \in minted
  /\ \A j, k \in Keys : j # k => booked[j] \cap booked[k] = {}

\* replyWithError: "Your bids were not submitted."  TLC refutes it: sending
\* the report of committed bids may fail, and that is what is said then.
NotSubmittedIsTrue == \A k \in told["not_submitted"] : booked[k] = {}
=============================================================================
