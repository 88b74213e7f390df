------------------------------- MODULE Pages -------------------------------
(***************************************************************************)
(* The sign-in of the website (auth-api.ts, App.tsx).  Every tab keeps the *)
(* refresh in flight in a variable of its page; the tabs of a browser      *)
(* share one refresh token, in localStorage.  The server, seen from here,  *)
(* exchanges a token once, and ends its family if it sees it again (the    *)
(* module Sessions is about how).                                          *)
(*                                                                         *)
(* A page may be reloaded while its request is on the way, requests and    *)
(* answers may be lost, the storage may fail without anybody being told,   *)
(* and React may run the effect that restores the session twice.           *)
(***************************************************************************)
EXTENDS Naturals, Sequences

CONSTANTS
  Windows,     \* the tabs of the browser
  MaxTokens,   \* bound: refresh tokens that are issued
  MaxLoads,    \* bound: loads of pages, over all tabs
  MaxEffects   \* how often the effect of a mount may run: 2 under StrictMode

ASSUME PagesAssumption == MaxTokens \in Nat /\ MaxLoads \in Nat /\ MaxEffects \in Nat

VARIABLES
  storage,     \* howlow.refresh in localStorage: a token, or Nothing
  tokens,      \* the server's tokens, in the order they were issued
  page,        \* the page in each tab
  loads,       \* how many pages there have been; each has its number
  sent,        \* which page has presented which token
  again,       \* and which it has presented more than once
  transit,     \* the refreshes that have not been answered for good
  goodbyes,    \* the tokens in logouts that the server has not seen yet
  stuck        \* what was in the storage when a write of it failed

pageVars == <<storage, tokens, page, loads, sent, again, transit, goodbyes, stuck>>

Nothing == 0
Token   == [family : Nat, status : {"active", "rotated", "revoked"}]
NoPage  == [load |-> 0, effects |-> 0, inFlight |-> FALSE, signedIn |-> FALSE, leaving |-> FALSE]
Request == [load : Nat, token : Nat]

PagesTypeOK ==
  /\ tokens \in Seq(Token)
  /\ storage \in 0..Len(tokens)
  /\ page \in [Windows -> [load : Nat, effects : Nat, inFlight : BOOLEAN, signedIn : BOOLEAN, leaving : BOOLEAN]]
  /\ loads \in Nat
  /\ sent \subseteq Request /\ again \subseteq Request
  /\ transit \subseteq [load : Nat, token : Nat, answer : {"none", "new", "refused"}, new : Nat]
  /\ goodbyes \subseteq 1..Len(tokens)
  /\ stuck \subseteq 0..Len(tokens)

PagesInit ==
  /\ storage = Nothing
  /\ tokens = <<>>
  /\ page = [w \in Windows |-> NoPage]
  /\ loads = 0
  /\ sent = {} /\ again = {}
  /\ transit = {} /\ goodbyes = {} /\ stuck = {}

-----------------------------------------------------------------------------
Status(t)       == tokens[t].status
FamilyEnds(ts, f) == [t \in DOMAIN ts |-> IF ts[t].family = f THEN [ts[t] EXCEPT !.status = "revoked"] ELSE ts[t]]
Family(t)       == tokens[t].family
CanIssue        == Len(tokens) < MaxTokens

\* storedRefreshToken: a storage that cannot be read is like an empty one.
StoredRefreshToken == {storage, Nothing}

\* A storage that cannot be written stays as it is, and the error is swallowed.
Stores(t) ==
  \/ storage' = t /\ UNCHANGED stuck
  \/ UNCHANGED storage /\ stuck' = stuck \cup {storage}

\* rememberTokens and forgetTokens: what the page holds, and what all tabs share.
RememberTokens(w, p, t) == Stores(t)       /\ page' = [page EXCEPT ![w] = [p EXCEPT !.signedIn = TRUE]]
ForgetTokens(w, p)      == Stores(Nothing) /\ page' = [page EXCEPT ![w] = [p EXCEPT !.signedIn = FALSE]]

\* A tab is opened or reloaded: what the page held is gone, what it sent is not.  The
\* effect of the mount is run before anything else happens in the page.
LoadPage(w) ==
  /\ loads < MaxLoads
  /\ loads' = loads + 1
  /\ \E n \in 1..MaxEffects : page' = [page EXCEPT ![w] = [NoPage EXCEPT !.load = loads + 1, !.effects = n]]
  /\ UNCHANGED <<storage, tokens, sent, again, transit, goodbyes, stuck>>

Mounted(w) == page[w].load > 0 /\ page[w].effects = 0

\* Mutant of InFlight: every caller sends a request of its own.
BugInFlight(w) == FALSE

\* `inFlight ??=`: a caller joins the refresh that is under way.
InFlight(w) == page[w].inFlight

\* The request of a page for another token.
Present(q) ==
  /\ sent' = sent \cup {q} /\ again' = again \cup ({q} \cap sent)
  /\ transit' = transit \cup {[load |-> q.load, token |-> q.token, answer |-> "none", new |-> Nothing]}

\* refresh, which only the effect of the mount calls.
Refresh(w) ==
  /\ page[w].load > 0 /\ page[w].effects > 0
  /\ LET p == [page[w] EXCEPT !.effects = @ - 1, !.inFlight = TRUE]
     IN  page' = [page EXCEPT ![w] = p]
  /\ \E t \in StoredRefreshToken :
       IF InFlight(w) \/ t = Nothing
       THEN UNCHANGED <<sent, again, transit>>
       ELSE Present([load |-> page[w].load, token |-> t])
  /\ UNCHANGED <<storage, tokens, loads, goodbyes, stuck>>

\* Who found no token is answered without a request.
FindNoToken(w) ==
  /\ Mounted(w) /\ page[w].inFlight
  /\ \A r \in transit : r.load # page[w].load
  /\ page' = [page EXCEPT ![w] = [@ EXCEPT !.inFlight = FALSE]]
  /\ UNCHANGED <<storage, tokens, loads, sent, again, transit, goodbyes, stuck>>

-----------------------------------------------------------------------------
Exchanged(t) ==
  Append([tokens EXCEPT ![t].status = "rotated"], [family |-> Family(t), status |-> "active"])

Answers(r, answer, new) == transit' = (transit \ {r}) \cup {[r EXCEPT !.answer = answer, !.new = new]}

\* The server rotates the token; or has seen it before, and ends its family; or
\* refuses it.
ServeRefresh(r) ==
  /\ r \in transit /\ r.answer = "none"
  /\ CASE Status(r.token) = "active"  -> CanIssue /\ tokens' = Exchanged(r.token) /\ Answers(r, "new", Len(tokens) + 1)
       [] Status(r.token) = "rotated" -> tokens' = FamilyEnds(tokens, Family(r.token)) /\ Answers(r, "refused", Nothing)
       [] Status(r.token) = "revoked" -> UNCHANGED tokens /\ Answers(r, "refused", Nothing)
  /\ UNCHANGED <<storage, page, loads, sent, again, goodbyes, stuck>>

\* The request, or its answer, is lost, or the server fails: to the page it is all one.
LoseRefresh(r) ==
  /\ r \in transit /\ r.answer # "refused"
  /\ Answers(r, "refused", Nothing)
  /\ UNCHANGED <<storage, tokens, page, loads, sent, again, goodbyes, stuck>>

\* The answer of the fetch: every caller of the page hears it, and the page is
\* free to ask again.  Any failure forgets the tokens, whatever it was.
HearRefresh(w, r) ==
  /\ r \in transit /\ r.answer # "none"
  /\ r.load = page[w].load /\ Mounted(w)
  /\ LET p == [page[w] EXCEPT !.inFlight = FALSE]
     IN  IF r.answer = "new" THEN RememberTokens(w, p, r.new) ELSE ForgetTokens(w, p)
  /\ transit' = transit \ {r}
  /\ UNCHANGED <<tokens, loads, sent, again, goodbyes>>

\* verifyPhone or login: a family of its own.
SignIn(w) ==
  /\ Mounted(w) /\ ~page[w].signedIn /\ ~page[w].inFlight
  /\ CanIssue
  /\ tokens' = Append(tokens, [family |-> Len(tokens) + 1, status |-> "active"])
  /\ RememberTokens(w, page[w], Len(tokens) + 1)
  /\ UNCHANGED <<loads, sent, again, transit, goodbyes>>

\* logout: a request with the stored token, if one is found.
Logout(w) ==
  /\ page[w].signedIn /\ ~page[w].leaving
  /\ page' = [page EXCEPT ![w] = [@ EXCEPT !.leaving = TRUE]]
  /\ \E t \in StoredRefreshToken : goodbyes' = goodbyes \cup ({t} \ {Nothing})
  /\ UNCHANGED <<storage, tokens, loads, sent, again, transit, stuck>>

\* The server ends the family, unless the request is lost: then this never happens.
ServeLogout(t) ==
  /\ t \in goodbyes
  /\ tokens' = FamilyEnds(tokens, Family(t))
  /\ goodbyes' = goodbyes \ {t}
  /\ UNCHANGED <<storage, page, loads, sent, again, transit, stuck>>

\* The tokens are forgotten, whatever became of the request.
FinishLogout(w) ==
  /\ page[w].leaving
  /\ ForgetTokens(w, [page[w] EXCEPT !.leaving = FALSE])
  /\ UNCHANGED <<tokens, loads, sent, again, transit, goodbyes>>

PagesNext ==
  \/ \E w \in Windows :
       \/ LoadPage(w) \/ Refresh(w) \/ FindNoToken(w) \/ SignIn(w) \/ Logout(w) \/ FinishLogout(w)
       \/ \E r \in transit : HearRefresh(w, r)
  \/ \E r \in transit : ServeRefresh(r) \/ LoseRefresh(r)
  \/ \E t \in goodbyes : ServeLogout(t)

PagesSpec == PagesInit /\ [][PagesNext]_pageVars

-----------------------------------------------------------------------------
\* The page has heard what became of a token that it presented.
AnswerHeard(q) == \A r \in transit : r.load # q.load \/ r.token # q.token

\* auth-api.ts, of a token that may be presented once: a page presents none twice,
\* however its effects run; and once a page has heard what became of its token, no page
\* finds that token stored, whatever the answer was and whatever the other tabs wrote,
\* unless the storage failed to be written while it held it.
PageKeepsItsPromise ==
  /\ again = {}
  /\ \A q \in sent : AnswerHeard(q) => q.token # storage \/ q.token \in stuck

\* Not true, as the comment on refresh says: two tabs that restore at once, or a
\* reload during a slow refresh, present one token twice and end the family.
\* TLC refutes it.
EachTokenOnce == again = {} /\ \A q, r \in sent : q.token = r.token => q = r

\* Not true either: a page whose refresh fails forgets the token that another tab
\* has stored in the meantime.  TLC refutes it.
ForgetsItsOwn ==
  [][\A w \in Windows :
       (page[w].inFlight /\ storage # Nothing /\ storage' = Nothing /\ page'[w] # page[w])
         => [load |-> page[w].load, token |-> storage] \in sent]_pageVars
=============================================================================
