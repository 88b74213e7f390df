--------------------------- MODULE ChannelsProofs ---------------------------
(***************************************************************************)
(* The channels and the sign-in of the website, for any number of updates, *)
(* tabs, keys, loads, calls and tokens; and lists that are read a page at  *)
(* a time, of any rows, in any order of events.                            *)
(***************************************************************************)
EXTENDS Channels, Pages, Paging, FiniteSetTheorems, TLAPS

-----------------------------------------------------------------------------
(* The channels.  A key is minted with its amounts, and goes wherever it    *)
(* goes together with them; the engine books it with those, once.           *)

HandlerState ==
  {Free} \cup [at : {"prompt"}, bid : {Prompt}]
         \cup [at : {"typed", "quote"}, bid : [key : {NoKey}, amounts : Batches]]
         \cup [at : {"show", "submit", "drop", "report"}, bid : Bid]
StageState == {Entry} \cup [kind : {"confirming", "submitting", "done"}, bid : Bid]
Onwire     == [tab : Tabs, bid : Bid, awaited : BOOLEAN]

ChTyped ==
  /\ booked \in [Keys -> Batches \cup {{}}]
  /\ minted \subseteq Keys
  /\ draft \subseteq Bid \cup {Prompt}
  /\ handler \in [Handlers -> HandlerState]
  /\ told \in [{"placed", "not_submitted"} -> SUBSET Keys]
  /\ stage \in [Tabs -> StageState]
  /\ wire \subseteq Onwire

KeysAreMinted == \A b \in Carried \cup Booked : b.key \in minted

\* What is to be reported is booked.
ReportIsTrue ==
  \A h \in Handlers : handler[h].at \in {"drop", "report"} => booked[handler[h].bid.key] = handler[h].bid.amounts

ChInv == ChTyped /\ KeyMeansOneBatch /\ KeysAreMinted /\ ReportIsTrue /\ PlacedIsTrue /\ BookedAsTyped

\* What is carried and booked after a step was so before, but for one new bid.
LEMMA NothingNew ==
  ASSUME KeyMeansOneBatch, KeysAreMinted, NEW X, minted \subseteq minted',
         (Carried \cup Booked)' \subseteq Carried \cup Booked \cup X,
         \A b \in X : b.key \in minted' \ minted,
         \A b, d \in X : b = d
  PROVE  KeyMeansOneBatch' /\ KeysAreMinted'
<1>1. \A b \in (Carried \cup Booked)' : b \in Carried \cup Booked \/ b \in X
  OBVIOUS
<1>2. ASSUME NEW b \in (Carried \cup Booked)', NEW d \in (Carried \cup Booked)', b.key = d.key
      PROVE  b = d
  BY <1>1, <1>2 DEF KeyMeansOneBatch, KeysAreMinted
<1>3. \A b \in (Carried \cup Booked)' : b.key \in minted'
  BY <1>1 DEF KeysAreMinted
<1> QED  BY <1>2, <1>3 DEF KeyMeansOneBatch, KeysAreMinted

\* Where a carried bid is.
LEMMA CarriedFrom ==
  ASSUME NEW X,
         \A b \in draft' \cap Bid : b \in Carried \cup X,
         \A h \in Handlers : handler'[h].bid \in Bid => handler'[h].bid \in Carried \cup X,
         \A t \in Tabs : stage'[t].bid \in Bid => stage'[t].bid \in Carried \cup X,
         \A r \in wire' : r.bid \in Bid => r.bid \in Carried \cup X
  PROVE  Carried' \subseteq Carried \cup X
BY DEF Carried

LEMMA CarriedHere ==
  ASSUME ChTyped
  PROVE  /\ \A b \in draft \cap Bid : b \in Carried
         /\ \A h \in Handlers : handler[h].bid \in Bid => handler[h].bid \in Carried
         /\ \A t \in Tabs : stage[t].bid \in Bid => stage[t].bid \in Carried
         /\ \A r \in wire : r.bid \in Bid => r.bid \in Carried
BY DEF Carried

\* The engine books a key with the amounts that came with it, and books it once.
LEMMA EngineBooks ==
  ASSUME ChInv, NEW b \in Carried, NEW answer, Engine(b, answer)
  PROVE  /\ booked' \in [Keys -> Batches \cup {{}}]
         /\ \A k \in Keys : booked[k] # {} => booked'[k] = booked[k]
         /\ Booked' \subseteq Booked \cup {b}
         /\ answer = "accepted" => booked'[b.key] = b.amounts
         /\ minted' = minted => BookedAsTyped'
<1>1. /\ b \in Bid /\ b.key \in Keys /\ b.amounts \in Batches /\ b.amounts # {} /\ b.key \in minted
      /\ booked \in [Keys -> Batches \cup {{}}]
  BY ChannelsAssumption DEF Carried, Bid, ChInv, ChTyped, KeysAreMinted
<1>2. CASE UNCHANGED booked /\ answer # "accepted"
  BY <1>1, <1>2 DEF Booked, ChInv, BookedAsTyped
<1>3. CASE Accepts(b) /\ Books(b)
  <2>1. booked'[b.key] = b.amounts /\ \A k \in Keys : k # b.key => booked'[k] = booked[k]
    BY <1>1, <1>3 DEF Books
  <2>2. booked' \in [Keys -> Batches \cup {{}}]
    BY <1>1, <1>3 DEF Books
  <2>3. booked[b.key] # {} => booked[b.key] = b.amounts
    BY <1>3 DEF Accepts
  <2>4. Booked' \subseteq Booked \cup {b}
    BY <1>1, <2>1 DEF Booked, Bid
  <2>5. ASSUME NEW j \in Keys, NEW k \in Keys, j # k
        PROVE  booked'[j] \cap booked'[k] = {}
    <3>1. booked[j] \cap booked[k] = {}
      BY <2>5 DEF ChInv, BookedAsTyped
    <3>2. CASE booked' = booked
      BY <3>1, <3>2
    <3>3. CASE booked[b.key] = {}
      <4>1. b.amounts \cap Held = {}
        BY <1>3, <3>3 DEF Accepts
      <4>2. \A x \in Keys : b.amounts \cap booked[x] = {}
        BY <4>1 DEF Held
      <4> QED  BY <2>1, <2>5, <3>1, <4>2
    <3>4. booked[b.key] # {} => booked' = booked
      BY <1>1, <1>3, <2>3 DEF Books
    <3> QED  BY <3>2, <3>3, <3>4
  <2>6. ASSUME NEW k \in Keys, booked'[k] # {}, minted' = minted
        PROVE  booked'[k] \in Batches /\ k \in minted'
    BY <1>1, <2>1, <2>6 DEF ChInv, BookedAsTyped
  <2> QED  BY <2>1, <2>2, <2>3, <2>4, <2>5, <2>6 DEF BookedAsTyped
<1> QED  BY <1>2, <1>3 DEF Engine

\* A step that books nothing.
LEMMA BooksNothing ==
  ASSUME ChInv, booked' = booked, minted \subseteq minted'
  PROVE  /\ booked' \in [Keys -> Batches \cup {{}}]
         /\ \A k \in Keys : booked[k] # {} => booked'[k] = booked[k]
         /\ Booked' = Booked
         /\ BookedAsTyped'
BY DEF ChInv, ChTyped, Booked, BookedAsTyped

\* What holds of reports and pages after a step, if it holds of those that it changes.
LEMMA BookedStays ==
  ASSUME ChInv, \A k \in Keys : booked[k] # {} => booked'[k] = booked[k],
         NEW b, b \in Bid => booked[b.key] = b.amounts
  PROVE  b \in Bid => booked'[b.key] = b.amounts
BY ChannelsAssumption DEF Bid

LEMMA StepKeeps ==
  ASSUME ChInv, ChTyped', NEW X, minted \subseteq minted',
         Carried' \subseteq Carried \cup X, Booked' \subseteq Booked \cup Carried,
         \A b \in X : b.key \in minted' \ minted,
         \A b, d \in X : b = d,
         \A k \in Keys : booked[k] # {} => booked'[k] = booked[k],
         BookedAsTyped',
         \A h \in Handlers :
           \/ handler'[h] = handler[h]
           \/ handler'[h].at \notin {"drop", "report"}
           \/ handler'[h].bid \in Bid /\ booked'[handler'[h].bid.key] = handler'[h].bid.amounts,
         \A k \in told'["placed"] : k \in told["placed"] \/ booked'[k] # {},
         \A t \in Tabs :
           \/ stage'[t] = stage[t]
           \/ stage'[t].kind # "done"
           \/ stage'[t].bid \in Bid /\ booked'[stage'[t].bid.key] = stage'[t].bid.amounts
  PROVE  ChInv'
<1>1. KeyMeansOneBatch' /\ KeysAreMinted'
  <2>1. (Carried \cup Booked)' \subseteq Carried \cup Booked \cup X
    OBVIOUS
  <2>2. KeyMeansOneBatch /\ KeysAreMinted
    BY DEF ChInv
  <2> QED  BY <2>1, <2>2, NothingNew
<1>2. ReportIsTrue'
  <2> SUFFICES ASSUME NEW h \in Handlers, handler'[h].at \in {"drop", "report"}
               PROVE  booked'[handler'[h].bid.key] = handler'[h].bid.amounts
    BY DEF ReportIsTrue
  <2>1. CASE handler'[h] = handler[h]
    <3>1. handler[h].bid \in Bid
      BY <2>1 DEF ChInv, ChTyped, HandlerState, Free
    <3>2. booked[handler[h].bid.key] = handler[h].bid.amounts
      BY <2>1 DEF ChInv, ReportIsTrue
    <3> QED  BY <2>1, <3>1, <3>2, BookedStays
  <2> QED  BY <2>1
<1>3. PlacedIsTrue'
  <2>1. ASSUME NEW k \in told'["placed"]
        PROVE  booked'[k] # {}
    <3>1. told["placed"] \subseteq Keys
      BY DEF ChInv, ChTyped
    <3> QED  BY <3>1 DEF ChInv, PlacedIsTrue
  <2>2. ASSUME NEW t \in Tabs, stage'[t].kind = "done"
        PROVE  booked'[stage'[t].bid.key] = stage'[t].bid.amounts
    <3>1. CASE stage'[t] = stage[t]
      <4>1. stage[t].bid \in Bid
        BY <2>2, <3>1 DEF ChInv, ChTyped, StageState, Entry
      <4>2. booked[stage[t].bid.key] = stage[t].bid.amounts
        BY <2>2, <3>1 DEF ChInv, PlacedIsTrue
      <4> QED  BY <3>1, <4>1, <4>2, BookedStays
    <3> QED  BY <2>2, <3>1
  <2> QED  BY <2>1, <2>2 DEF PlacedIsTrue
<1> QED  BY <1>1, <1>2, <1>3 DEF ChInv

\* One update goes on.
LEMMA OneTurns ==
  ASSUME ChTyped, NEW h \in Handlers, NEW s \in HandlerState, handler' = [handler EXCEPT ![h] = s]
  PROVE  /\ handler' \in [Handlers -> HandlerState]
         /\ handler'[h] = s /\ \A g \in Handlers : g # h => handler'[g] = handler[g]
BY DEF ChTyped

LEMMA States ==
  /\ Free \in HandlerState /\ Free.at = "free" /\ Free.bid = Prompt /\ Prompt \notin Bid
  /\ \A at \in {"typed", "quote"}, b \in [key : {NoKey}, amounts : Batches] :
       [at |-> at, bid |-> b] \in HandlerState /\ b \notin Bid
  /\ \A at \in {"show", "submit", "drop", "report"}, b \in Bid : [at |-> at, bid |-> b] \in HandlerState
  /\ [at |-> "prompt", bid |-> Prompt] \in HandlerState
  /\ Entry \in StageState /\ Entry.kind = "entry" /\ Entry.bid = Prompt
  /\ \A kind \in {"confirming", "submitting", "done"}, b \in Bid : [kind |-> kind, bid |-> b] \in StageState
<1>1. Prompt \notin Bid /\ \A b \in [key : {NoKey}, amounts : Batches] : b \notin Bid
  BY ChannelsAssumption DEF Prompt, Bid
<1>2. Free \in HandlerState /\ Free.at = "free" /\ Free.bid = Prompt
  BY DEF Free, HandlerState
<1>3. Entry \in StageState /\ Entry.kind = "entry" /\ Entry.bid = Prompt
  BY DEF Entry, StageState
<1> QED  BY <1>1, <1>2, <1>3 DEF HandlerState, StageState

\* A step of one update that books nothing: the state s that it goes on in carries
\* what it did before, or what is in the draft, or a bid with a new key.
LEMMA ChatMoves ==
  ASSUME ChInv, NEW h \in Handlers, NEW s \in HandlerState, handler' = [handler EXCEPT ![h] = s],
         booked' = booked, UNCHANGED webVars,
         NEW X \in SUBSET Bid, minted' = minted \cup {b.key : b \in X},
         \A b \in X : b.key \notin minted, \A b, d \in X : b = d,
         draft' \subseteq draft \cup X \cup {Prompt},
         s.bid \in Bid => s.bid \in Carried \cup X,
         s.at \in {"drop", "report"} => handler[h].at = "drop" /\ s.bid = handler[h].bid,
         told' \in [{"placed", "not_submitted"} -> SUBSET Keys],
         \A k \in told'["placed"] : k \in told["placed"] \/ booked[k] # {}
  PROVE  ChInv'
<1>1. ChTyped /\ Prompt \notin Bid
  BY States DEF ChInv
<1>2. /\ handler' \in [Handlers -> HandlerState]
      /\ handler'[h] = s /\ \A g \in Handlers : g # h => handler'[g] = handler[g]
  BY <1>1, OneTurns
<1>3. ChTyped'
  <2>1. \A b \in X : b \in Bid /\ b.key \in Keys
    BY DEF Bid
  <2>2. minted' \subseteq Keys /\ draft' \subseteq Bid \cup {Prompt}
    BY <1>1, <2>1 DEF ChTyped
  <2> QED  BY <1>1, <1>2, <2>2 DEF ChTyped, webVars
<1>4. Carried' \subseteq Carried \cup X
  BY <1>1, <1>2, CarriedFrom, CarriedHere DEF webVars
<1>5. /\ \A k \in Keys : booked[k] # {} => booked'[k] = booked[k]
      /\ Booked' = Booked /\ BookedAsTyped'
  BY BooksNothing
<1>6. \A g \in Handlers :
           \/ handler'[g] = handler[g]
           \/ handler'[g].at \notin {"drop", "report"}
           \/ handler'[g].bid \in Bid /\ booked'[handler'[g].bid.key] = handler'[g].bid.amounts
  <2>1. CASE s.at \in {"drop", "report"}
    <3>1. handler[h].at = "drop" /\ s.bid = handler[h].bid
      BY <2>1
    <3>2. handler[h].bid \in Bid
      BY <3>1 DEF ChInv, ChTyped, HandlerState, Free
    <3>3. booked[handler[h].bid.key] = handler[h].bid.amounts
      BY <3>1 DEF ChInv, ReportIsTrue
    <3> QED  BY <1>2, <3>1, <3>2, <3>3
  <2>2. CASE s.at \notin {"drop", "report"}
    BY <1>2, <2>2
  <2> QED  BY <2>1, <2>2
<1>7. stage' = stage
  BY DEF webVars
<1>8. \A k \in told'["placed"] : k \in told["placed"] \/ booked'[k] # {}
  OBVIOUS
<1>9. minted \subseteq minted' /\ \A b \in X : b.key \in minted' \ minted
  OBVIOUS
<1> QED  BY <1>3, <1>4, <1>5, <1>6, <1>7, <1>8, <1>9, StepKeeps

\* The same, with no new key and nothing said.
LEMMA ChatGoesOn ==
  ASSUME ChInv, NEW h \in Handlers, NEW s \in HandlerState, handler' = [handler EXCEPT ![h] = s],
         UNCHANGED <<booked, minted, told, webVars>>,
         draft' \subseteq draft \cup {Prompt},
         s.bid \in Bid => s.bid \in Carried,
         s.at \in {"drop", "report"} => handler[h].at = "drop" /\ s.bid = handler[h].bid
  PROVE  ChInv'
<1> DEFINE X == {}
<1>1. X \in SUBSET Bid /\ minted' = minted \cup {b.key : b \in X} /\ booked' = booked /\ UNCHANGED webVars
  OBVIOUS
<1>2. told' \in [{"placed", "not_submitted"} -> SUBSET Keys] /\ told' = told
  BY DEF ChInv, ChTyped
<1>3. (\A b \in X : b.key \notin minted) /\ (\A b, d \in X : b = d)
  OBVIOUS
<1>4. draft' \subseteq draft \cup X \cup {Prompt} /\ (s.bid \in Bid => s.bid \in Carried \cup X)
  OBVIOUS
<1>5. \A k \in told'["placed"] : k \in told["placed"] \/ booked[k] # {}
  BY <1>2
<1> HIDE DEF X
<1> QED  BY <1>1, <1>2, <1>3, <1>4, <1>5, ChatMoves

LEMMA TellTyped ==
  ASSUME ChInv, NEW what \in {"placed", "not_submitted"}, NEW k \in Keys, Says(what, k)
  PROVE  /\ told' \in [{"placed", "not_submitted"} -> SUBSET Keys]
         /\ \A j \in told'["placed"] : j \in told["placed"] \/ (what = "placed" /\ j = k)
BY DEF ChInv, ChTyped, Says

LEMMA QuoteStep ==
  ASSUME ChInv, NEW h \in Handlers, NEW k \in Keys, Quote(h, k)
  PROVE  ChInv'
<1> DEFINE b == [handler[h].bid EXCEPT !.key = k]
<1>1. /\ handler[h].at = "quote" /\ k \notin minted /\ minted' = minted \cup {k}
      /\ draft' \in {{b}, draft} /\ handler' = [handler EXCEPT ![h] = [at |-> "show", bid |-> b]]
      /\ UNCHANGED <<booked, told, webVars>>
  BY DEF Quote, PutDraft, Turn, engineVars
<1>2. PICK x \in [key : {NoKey}, amounts : Batches] : x = handler[h].bid
  BY <1>1 DEF ChInv, ChTyped, HandlerState, Free
<1>3. b \in Bid /\ b.key = k
  BY <1>2 DEF Bid
<1> DEFINE X == {b}
           s == [at |-> "show", bid |-> b]
<1>4. s \in HandlerState /\ s.bid = b /\ s.at = "show"
  <2> HIDE DEF b
  <2> QED  BY <1>3, States
<1> HIDE DEF b
<1>5. X \in SUBSET Bid /\ minted' = minted \cup {d.key : d \in X}
  BY <1>1, <1>3
<1>6. (\A d \in X : d.key \notin minted) /\ (\A d, e \in X : d = e)
  BY <1>1, <1>3
<1>7. draft' \subseteq draft \cup X \cup {Prompt} /\ s.bid \in Carried \cup X
  BY <1>1, <1>4
<1>8. handler' = [handler EXCEPT ![h] = s] /\ booked' = booked /\ UNCHANGED webVars /\ told' = told
  BY <1>1
<1>9. /\ told' \in [{"placed", "not_submitted"} -> SUBSET Keys]
      /\ \A j \in told'["placed"] : j \in told["placed"] \/ booked[j] # {}
  BY <1>1 DEF ChInv, ChTyped
<1> HIDE DEF X, s
<1>10. s.at \notin {"drop", "report"}
  BY <1>4
<1> QED  BY <1>4, <1>5, <1>6, <1>7, <1>8, <1>9, <1>10, ChatMoves

\* The engine answers an update, or a request: what it books is carried.
LEMMA SubmitDraftStep ==
  ASSUME ChInv, NEW h \in Handlers, SubmitDraft(h)
  PROVE  ChInv'
<1>1. PICK b : b = handler[h].bid
  OBVIOUS
<1>2. /\ handler[h].at = "submit" /\ UNCHANGED <<minted, draft, webVars>>
      /\ \/ Engine(b, "accepted") /\ Turn(h, "drop", b) /\ UNCHANGED told
         \/ Engine(b, "refused") /\ Done(h) /\ UNCHANGED told
         \/ Engine(b, "error") /\ Done(h) /\ Says("not_submitted", b.key)
  BY <1>1 DEF SubmitDraft
<1>3. ChTyped /\ b \in Bid /\ b \in Carried
  <2>1. b \in Bid
    BY <1>1, <1>2 DEF ChInv, ChTyped, HandlerState, Free
  <2> QED  BY <1>1, <2>1, CarriedHere DEF ChInv
<1>4. PICK answer \in {"accepted", "refused", "error"} :
        /\ Engine(b, answer)
        /\ answer = "accepted" => Turn(h, "drop", b)
        /\ answer # "accepted" => Done(h)
  BY <1>2
<1>5. /\ booked' \in [Keys -> Batches \cup {{}}]
      /\ \A k \in Keys : booked[k] # {} => booked'[k] = booked[k]
      /\ Booked' \subseteq Booked \cup {b}
      /\ answer = "accepted" => booked'[b.key] = b.amounts
      /\ BookedAsTyped'
  BY <1>2, <1>3, <1>4, EngineBooks
<1>6. PICK s \in HandlerState : /\ handler' = [handler EXCEPT ![h] = s]
                                /\ s.bid \in {b, Prompt} /\ (s.at \in {"drop", "report"} => answer = "accepted" /\ s.bid = b)
  <2>1. CASE answer = "accepted"
    BY <1>3, <1>4, <2>1, States DEF Turn
  <2>2. CASE answer # "accepted"
    BY <1>4, <2>2, States DEF Done
  <2> QED  BY <2>1, <2>2
<1>7. /\ handler' \in [Handlers -> HandlerState]
      /\ handler'[h] = s /\ \A g \in Handlers : g # h => handler'[g] = handler[g]
  BY <1>3, <1>6, OneTurns
<1>8. told' \in [{"placed", "not_submitted"} -> SUBSET Keys] /\ \A k \in told'["placed"] : k \in told["placed"]
  <2>1. CASE UNCHANGED told
    BY <2>1 DEF ChInv, ChTyped
  <2>2. CASE Says("not_submitted", b.key)
    <3>1. b.key \in Keys
      BY <1>3 DEF Bid
    <3> QED  BY <2>2, <3>1, TellTyped
  <2> QED  BY <1>2, <2>1, <2>2
<1>9. ChTyped'
  BY <1>2, <1>3, <1>5, <1>7, <1>8 DEF ChTyped, webVars
<1>10. Carried' \subseteq Carried \cup {}
  <2> DEFINE X == {}
  <2>1. /\ \A d \in draft' \cap Bid : d \in Carried \cup X
        /\ \A g \in Handlers : handler'[g].bid \in Bid => handler'[g].bid \in Carried \cup X
        /\ \A t \in Tabs : stage'[t].bid \in Bid => stage'[t].bid \in Carried \cup X
        /\ \A r \in wire' : r.bid \in Bid => r.bid \in Carried \cup X
    BY <1>2, <1>3, <1>6, <1>7, CarriedHere, States DEF webVars
  <2> HIDE DEF X
  <2>2. Carried' \subseteq Carried \cup X
    BY <2>1, CarriedFrom
  <2> QED  BY <2>2 DEF X
<1>11. \A g \in Handlers :
           \/ handler'[g] = handler[g]
           \/ handler'[g].at \notin {"drop", "report"}
           \/ handler'[g].bid \in Bid /\ booked'[handler'[g].bid.key] = handler'[g].bid.amounts
  BY <1>3, <1>5, <1>6, <1>7
<1>12. stage' = stage /\ minted' = minted /\ Booked' \subseteq Booked \cup Carried
  BY <1>2, <1>3, <1>5 DEF webVars
<1> QED  BY <1>5, <1>8, <1>9, <1>10, <1>11, <1>12, StepKeeps

LEMMA ChatStepKeeps ==
  ASSUME ChInv, NEW h \in Handlers, ChatStep(h)
  PROVE  ChInv'
<1> USE DEF engineVars
<1>1. CASE BeginBid(h)
  <2>1. PICK s \in HandlerState : s = [at |-> "prompt", bid |-> Prompt] /\ s.at = "prompt" /\ s.bid = Prompt
    BY States
  <2>2. handler' = [handler EXCEPT ![h] = s] /\ UNCHANGED <<booked, minted, draft, told, webVars>>
    BY <1>1, <2>1 DEF BeginBid, Turn
  <2> QED  BY <2>1, <2>2, States, ChatGoesOn
<1>2. CASE SendPrompt(h) \/ LoseUpdate(h)
  <2>1. handler' = [handler EXCEPT ![h] = Free] /\ UNCHANGED <<booked, minted, told, webVars>>
    BY <1>2 DEF SendPrompt, LoseUpdate, Done
  <2>2. draft' \subseteq draft \cup {Prompt}
    BY <1>2 DEF SendPrompt, LoseUpdate, PutDraft
  <2> QED  BY <2>1, <2>2, States, ChatGoesOn
<1>3. CASE CheckTyped(h)
  <2>1. PICK b \in [key : {NoKey}, amounts : Batches] : b = handler[h].bid
    BY <1>3 DEF CheckTyped, ChInv, ChTyped, HandlerState, Free
  <2>2. PICK s \in HandlerState : handler' = [handler EXCEPT ![h] = s] /\ s.bid \notin Bid /\ s.at \notin {"drop", "report"}
    <3>1. CASE open
      <4>1. PICK s \in HandlerState : s = [at |-> "quote", bid |-> b] /\ s.at = "quote" /\ s.bid = b /\ b \notin Bid
        BY <2>1, States
      <4> QED  BY <1>3, <2>1, <3>1, <4>1 DEF CheckTyped, Turn
    <3>2. CASE ~open
      BY <1>3, <3>2, States DEF CheckTyped, Done
    <3> QED  BY <3>1, <3>2
  <2>3. UNCHANGED <<booked, minted, told, webVars>> /\ draft' \subseteq draft \cup {Prompt}
    BY <1>3 DEF CheckTyped, DropDraft
  <2> QED  BY <2>2, <2>3, ChatGoesOn
<1>4. CASE ShowConfirmation(h)
  <2>1. handler' = [handler EXCEPT ![h] = Free] /\ UNCHANGED <<booked, minted, draft, told, webVars>>
    BY <1>4 DEF ShowConfirmation, Done
  <2> QED  BY <2>1, States, ChatGoesOn
<1>5. CASE TapConfirm(h)
  <2>1. PICK d \in draft : d # Prompt /\ Turn(h, "submit", d)
    BY <1>5 DEF TapConfirm
  <2>2. d \in Bid
    BY <2>1 DEF ChInv, ChTyped
  <2>3. PICK s \in HandlerState : s = [at |-> "submit", bid |-> d] /\ s.at = "submit" /\ s.bid = d
    BY <2>2, States
  <2>4. handler' = [handler EXCEPT ![h] = s] /\ UNCHANGED <<booked, minted, draft, told, webVars>>
    BY <1>5, <2>1, <2>3 DEF TapConfirm, Turn
  <2>5. d \in Carried
    BY <2>2, CarriedHere DEF ChInv
  <2> QED  BY <2>3, <2>4, <2>5, ChatGoesOn
<1>6. CASE ForgetDraft(h)
  <2>1. PICK b \in Bid : b = handler[h].bid
    BY <1>6 DEF ForgetDraft, ChInv, ChTyped, HandlerState, Free
  <2>2. PICK s \in HandlerState : s = [at |-> "report", bid |-> b] /\ s.at = "report" /\ s.bid = b
    BY States
  <2>3. handler' = [handler EXCEPT ![h] = s] /\ UNCHANGED <<booked, minted, told, webVars>> /\ handler[h].at = "drop"
    BY <1>6, <2>1, <2>2 DEF ForgetDraft, Turn
  <2>4. draft' \subseteq draft \cup {Prompt} /\ b \in Carried
    BY <1>6, <2>1, CarriedHere DEF ForgetDraft, DropDraft, ChInv
  <2> QED  BY <2>1, <2>2, <2>3, <2>4, ChatGoesOn
<1>7. CASE Report(h)
  <2>1. PICK b \in Bid : b = handler[h].bid
    BY <1>7 DEF Report, ChInv, ChTyped, HandlerState, Free
  <2>2. PICK what \in {"placed", "not_submitted"} : Says(what, b.key)
    BY <1>7, <2>1 DEF Report
  <2>3. b.key \in Keys /\ booked[b.key] # {}
    <3>1. booked[b.key] = b.amounts
      BY <1>7, <2>1 DEF Report, ChInv, ReportIsTrue
    <3> QED  BY <3>1, ChannelsAssumption DEF Bid
  <2>4. /\ told' \in [{"placed", "not_submitted"} -> SUBSET Keys]
        /\ \A k \in told'["placed"] : k \in told["placed"] \/ booked[k] # {}
    BY <2>2, <2>3, TellTyped
  <2>5. handler' = [handler EXCEPT ![h] = Free] /\ UNCHANGED <<booked, minted, draft, webVars>>
    BY <1>7 DEF Report, Done
  <2> DEFINE X == {}
  <2>6. /\ X \in SUBSET Bid /\ minted' = minted \cup {d.key : d \in X}
        /\ \A d \in X : d.key \notin minted
        /\ \A d, e \in X : d = e
        /\ draft' \subseteq draft \cup X \cup {Prompt}
    BY <2>5
  <2> HIDE DEF X
  <2>7. booked' = booked /\ UNCHANGED webVars
    BY <2>5
  <2>8. Free \in HandlerState /\ Free.bid \notin Bid /\ Free.at \notin {"drop", "report"}
    BY States
  <2> QED  BY <2>4, <2>5, <2>6, <2>7, <2>8, ChatMoves
<1>8. CASE \E amounts \in Batches : TypeAmounts(h, amounts)
  <2>1. PICK amounts \in Batches : TypeAmounts(h, amounts)
    BY <1>8
  <2>2. PICK b \in [key : {NoKey}, amounts : Batches] : b = [key |-> NoKey, amounts |-> amounts]
    OBVIOUS
  <2>3. PICK s \in HandlerState : s = [at |-> "typed", bid |-> b] /\ s.at = "typed" /\ s.bid = b /\ b \notin Bid
    BY States
  <2>4. handler' = [handler EXCEPT ![h] = s] /\ UNCHANGED <<booked, minted, draft, told, webVars>>
    BY <2>1, <2>2, <2>3 DEF TypeAmounts, Turn
  <2> QED  BY <2>3, <2>4, ChatGoesOn
<1> QED  BY <1>1, <1>2, <1>3, <1>4, <1>5, <1>6, <1>7, <1>8, QuoteStep, SubmitDraftStep DEF ChatStep

\* One page goes on.
LEMMA OneStages ==
  ASSUME ChTyped, NEW t \in Tabs, NEW s \in StageState, stage' = [stage EXCEPT ![t] = s]
  PROVE  /\ stage' \in [Tabs -> StageState]
         /\ stage'[t] = s /\ \A u \in Tabs : u # t => stage'[u] = stage[u]
BY DEF ChTyped

\* A page stops waiting for what it sent, which may arrive yet.
LEMMA WaitingStops ==
  ASSUME ChTyped, NEW t \in Tabs, StopWaiting(t)
  PROVE  wire' \subseteq Onwire /\ \A r \in wire' : \E q \in wire : r.bid = q.bid
<1>1. ASSUME NEW q \in wire
      PROVE  LET r == IF q.tab = t THEN [q EXCEPT !.awaited = FALSE] ELSE q IN r \in Onwire /\ r.bid = q.bid
  BY DEF ChTyped, Onwire
<1> QED  BY <1>1 DEF StopWaiting

\* A step of a page that books nothing: what it shows and sends has been there, or is
\* a bid with a new key.
LEMMA WebMoves ==
  ASSUME ChInv, NEW t \in Tabs, NEW s \in StageState, stage' = [stage EXCEPT ![t] = s],
         UNCHANGED <<booked, chatVars>>,
         NEW X \in SUBSET Bid, minted' = minted \cup {b.key : b \in X},
         \A b \in X : b.key \notin minted,
         \A b, d \in X : b = d,
         wire' \subseteq Onwire,
         \A r \in wire' : r.bid \in Carried \cup X,
         s.bid \in Bid => s.bid \in Carried \cup X,
         s.kind # "done"
  PROVE  ChInv'
<1>1. ChTyped
  BY DEF ChInv
<1>2. /\ stage' \in [Tabs -> StageState]
      /\ stage'[t] = s /\ \A u \in Tabs : u # t => stage'[u] = stage[u]
  BY <1>1, OneStages
<1>3. ChTyped'
  <2>1. \A b \in X : b \in Bid /\ b.key \in Keys
    BY DEF Bid
  <2>2. minted' \subseteq Keys
    BY <1>1, <2>1 DEF ChTyped
  <2> QED  BY <1>1, <1>2, <2>2 DEF ChTyped, chatVars
<1>4. Carried' \subseteq Carried \cup X
  BY <1>1, <1>2, CarriedFrom, CarriedHere DEF chatVars
<1>5. /\ \A k \in Keys : booked[k] # {} => booked'[k] = booked[k]
      /\ Booked' = Booked /\ BookedAsTyped'
  BY BooksNothing
<1>6. \A u \in Tabs : stage'[u] = stage[u] \/ stage'[u].kind # "done"
  BY <1>2
<1>7. handler' = handler /\ told' = told
  BY DEF chatVars
<1>8. minted \subseteq minted' /\ \A b \in X : b.key \in minted' \ minted
  OBVIOUS
<1> QED  BY <1>3, <1>4, <1>5, <1>6, <1>7, <1>8, StepKeeps

LEMMA ReviewStep ==
  ASSUME ChInv, NEW t \in Tabs, NEW amounts \in Batches, NEW k \in Keys, Review(t, amounts, k)
  PROVE  ChInv'
<1>1. PICK b \in Bid : b = [key |-> k, amounts |-> amounts] /\ b.key = k
  <2>1. [key |-> k, amounts |-> amounts] \in Bid
    BY DEF Bid
  <2>2. [key |-> k, amounts |-> amounts].key = k
    OBVIOUS
  <2> QED  BY <2>1, <2>2, Zenon
<1>2. PICK s \in StageState : s = [kind |-> "confirming", bid |-> b] /\ s.kind = "confirming" /\ s.bid = b
  BY States
<1>3. /\ k \notin minted /\ minted' = minted \cup {k} /\ stage' = [stage EXCEPT ![t] = s]
      /\ UNCHANGED <<booked, chatVars, wire>>
  BY <1>1, <1>2 DEF Review, Becomes, engineVars
<1> DEFINE X == {b}
<1>4. /\ X \in SUBSET Bid /\ minted' = minted \cup {d.key : d \in X}
      /\ \A d \in X : d.key \notin minted
      /\ \A d, e \in X : d = e
      /\ s.bid \in Carried \cup X
  BY <1>1, <1>2, <1>3
<1> HIDE DEF X
<1>5. wire' \subseteq Onwire /\ \A r \in wire' : r.bid \in Carried \cup X
  <2>1. wire \subseteq Onwire /\ ChTyped
    BY DEF ChInv, ChTyped
  <2>2. \A r \in wire : r.bid \in Bid
    BY <2>1 DEF Onwire
  <2> QED  BY <1>3, <2>1, <2>2, CarriedHere
<1>6. s.kind # "done" /\ UNCHANGED <<booked, chatVars>>
  BY <1>2, <1>3
<1> QED  BY <1>3, <1>4, <1>5, <1>6, WebMoves

\* A page submits, gives up waiting, or is left.
LEMMA PageStepKeeps ==
  ASSUME ChInv, NEW t \in Tabs, Submit(t) \/ FetchFails(t) \/ LeaveStage(t)
  PROVE  ChInv'
<1> DEFINE X == {}
<1>1. ChTyped /\ wire \subseteq Onwire /\ UNCHANGED <<booked, minted, chatVars>>
  BY DEF ChInv, ChTyped, Submit, FetchFails, LeaveStage, engineVars
<1>2. \A r \in wire : r.bid \in Bid /\ r.bid \in Carried
  <2>1. \A r \in wire : r.bid \in Bid
    BY <1>1 DEF Onwire
  <2> QED  BY <1>1, <2>1, CarriedHere
<1>3. CASE Submit(t) \/ FetchFails(t)
  <2>1. PICK b \in Bid : b = stage[t].bid
    BY <1>1, <1>3 DEF Submit, FetchFails, ChTyped, StageState, Entry
  <2>2. b \in Carried
    BY <1>1, <2>1, CarriedHere
  <2>3. PICK kind \in {"confirming", "submitting"} : stage' = [stage EXCEPT ![t] = [kind |-> kind, bid |-> b]]
    BY <1>3, <2>1 DEF Submit, FetchFails, Becomes
  <2>4. PICK s \in StageState : s = [kind |-> kind, bid |-> b] /\ s.kind = kind /\ s.bid = b
    BY States
  <2>5. wire' \subseteq Onwire /\ \A r \in wire' : r.bid \in Carried
    <3>1. CASE Submit(t)
      <4>1. PICK q \in Onwire : q = [tab |-> t, bid |-> b, awaited |-> TRUE] /\ q.bid = b
        <5>1. [tab |-> t, bid |-> b, awaited |-> TRUE] \in Onwire
          BY DEF Onwire
        <5>2. [tab |-> t, bid |-> b, awaited |-> TRUE].bid = b
          OBVIOUS
        <5> QED  BY <5>1, <5>2, Zenon
      <4>2. wire' = wire \cup {q}
        BY <2>1, <3>1, <4>1 DEF Submit
      <4> QED  BY <1>1, <1>2, <2>2, <4>1, <4>2
    <3>2. CASE FetchFails(t)
      <4>1. wire' \subseteq Onwire /\ \A r \in wire' : \E q \in wire : r.bid = q.bid
        BY <1>1, <3>2, WaitingStops DEF FetchFails
      <4> QED  BY <1>2, <4>1
    <3> QED  BY <1>3, <3>1, <3>2
  <2>6. /\ X \in SUBSET Bid /\ minted' = minted \cup {d.key : d \in X}
        /\ \A d \in X : d.key \notin minted
        /\ \A d, e \in X : d = e
        /\ s.bid \in Carried \cup X /\ s.kind # "done"
        /\ \A r \in wire' : r.bid \in Carried \cup X
    BY <1>1, <2>2, <2>4, <2>5
  <2> HIDE DEF X
  <2>7. stage' = [stage EXCEPT ![t] = s] /\ UNCHANGED <<booked, chatVars>>
    BY <1>1, <2>3, <2>4
  <2> QED  BY <2>5, <2>6, <2>7, WebMoves
<1>4. CASE LeaveStage(t)
  <2>1. wire' \subseteq Onwire /\ \A r \in wire' : \E q \in wire : r.bid = q.bid
    BY <1>1, <1>4, WaitingStops DEF LeaveStage
  <2>2. /\ X \in SUBSET Bid /\ minted' = minted \cup {d.key : d \in X}
        /\ \A d \in X : d.key \notin minted
        /\ \A d, e \in X : d = e
        /\ \A r \in wire' : r.bid \in Carried \cup X
    BY <1>1, <1>2, <2>1
  <2> HIDE DEF X
  <2>3. stage' = [stage EXCEPT ![t] = Entry] /\ UNCHANGED <<booked, chatVars>>
    BY <1>1, <1>4 DEF LeaveStage
  <2>4. Entry \in StageState /\ Entry.bid \notin Bid /\ Entry.kind # "done"
    BY States
  <2> QED  BY <2>1, <2>2, <2>3, <2>4, WebMoves
<1> QED  BY <1>3, <1>4

LEMMA ServeStep ==
  ASSUME ChInv, NEW r \in wire, Serve(r)
  PROVE  ChInv'
<1>1. ChTyped /\ r \in Onwire
  BY DEF ChInv, ChTyped
<1>2. PICK b \in Bid : b = r.bid
  BY <1>1 DEF Onwire
<1>3. r.tab \in Tabs
  BY <1>1 DEF Onwire
<1>4. b \in Carried
  BY <1>1, <1>2, CarriedHere
<1>5. PICK answer \in {"accepted", "refused", "error"} :
        /\ Engine(b, answer)
        /\ UNCHANGED stage \/ stage' = [stage EXCEPT ![r.tab] = AfterAnswer(answer, b)]
  BY <1>2 DEF Serve
<1>6. UNCHANGED <<minted, chatVars>> /\ wire' \subseteq wire
  BY DEF Serve
<1>7. /\ booked' \in [Keys -> Batches \cup {{}}]
      /\ \A k \in Keys : booked[k] # {} => booked'[k] = booked[k]
      /\ Booked' \subseteq Booked \cup {b}
      /\ answer = "accepted" => booked'[b.key] = b.amounts
      /\ BookedAsTyped'
  BY <1>4, <1>5, <1>6, EngineBooks
<1>8. PICK s \in StageState : s = AfterAnswer(answer, b) /\ s.bid \in {b, Prompt}
                              /\ (s.kind = "done" => answer = "accepted" /\ s.bid = b)
  <2>1. CASE answer = "refused"
    BY <2>1, States DEF AfterAnswer
  <2>2. CASE answer = "accepted"
    BY <2>2, States DEF AfterAnswer
  <2>3. CASE answer = "error"
    BY <2>3, States DEF AfterAnswer
  <2> QED  BY <2>1, <2>2, <2>3
<1>9. /\ stage' \in [Tabs -> StageState]
      /\ \A u \in Tabs : stage'[u] = stage[u] \/ stage'[u] = s
  <2>1. CASE UNCHANGED stage
    BY <1>1, <2>1 DEF ChTyped
  <2>2. CASE stage' = [stage EXCEPT ![r.tab] = s]
    BY <1>1, <1>3, <2>2, OneStages
  <2> QED  BY <1>5, <1>8, <2>1, <2>2
<1>10. ChTyped'
  BY <1>1, <1>6, <1>7, <1>9 DEF ChTyped, chatVars
<1>11. Carried' \subseteq Carried \cup {}
  <2> DEFINE X == {}
  <2>1. /\ \A d \in draft' \cap Bid : d \in Carried \cup X
        /\ \A h \in Handlers : handler'[h].bid \in Bid => handler'[h].bid \in Carried \cup X
        /\ \A q \in wire' : q.bid \in Bid => q.bid \in Carried \cup X
    BY <1>1, <1>6, CarriedHere DEF chatVars
  <2>2. \A t \in Tabs : stage'[t].bid \in Bid => stage'[t].bid \in Carried \cup X
    BY <1>1, <1>4, <1>8, <1>9, CarriedHere, States
  <2> HIDE DEF X
  <2>3. Carried' \subseteq Carried \cup X
    BY <2>1, <2>2, CarriedFrom
  <2> QED  BY <2>3 DEF X
<1>12. \A t \in Tabs :
           \/ stage'[t] = stage[t]
           \/ stage'[t].kind # "done"
           \/ stage'[t].bid \in Bid /\ booked'[stage'[t].bid.key] = stage'[t].bid.amounts
  BY <1>7, <1>8, <1>9
<1>13. /\ handler' = handler /\ told' = told /\ minted' = minted /\ Booked' \subseteq Booked \cup Carried
  BY <1>4, <1>6, <1>7 DEF chatVars
<1> QED  BY <1>7, <1>10, <1>11, <1>12, <1>13, StepKeeps

\* Less is carried, or the auction closes.
LEMMA FewerCarried ==
  ASSUME ChInv, UNCHANGED <<booked, minted, handler, told, stage>>, draft' \subseteq draft, wire' \subseteq wire
  PROVE  ChInv'
<1>1. ChTyped' /\ ChTyped
  BY DEF ChInv, ChTyped
<1>2. Carried' \subseteq Carried
  BY DEF Carried
<1>3. /\ \A k \in Keys : booked[k] # {} => booked'[k] = booked[k]
      /\ Booked' = Booked /\ BookedAsTyped'
  BY BooksNothing
<1> DEFINE X == {}
<1>4. /\ Carried' \subseteq Carried \cup X
      /\ \A b \in X : b.key \in minted' \ minted
      /\ \A b, d \in X : b = d
  BY <1>2
<1> HIDE DEF X
<1> QED  BY <1>1, <1>3, <1>4, StepKeeps

\* One key, one batch, over both channels: what retries and late requests carry is what
\* the key was minted with, and the engine has nothing else under it.
THEOREM ChannelsInvariant == ChSpec => []ChInv
<1>1. ChInit => ChInv
  <2> SUFFICES ASSUME ChInit PROVE ChInv
    OBVIOUS
  <2>1. ChTyped
    BY States DEF ChInit, ChTyped
  <2>2. Carried = {} /\ Booked = {}
    BY States, ChannelsAssumption DEF ChInit, Carried, Booked, Bid
  <2>3. KeyMeansOneBatch /\ KeysAreMinted
    BY <2>2 DEF KeyMeansOneBatch, KeysAreMinted
  <2>4. ReportIsTrue /\ PlacedIsTrue /\ BookedAsTyped
    BY States DEF ChInit, ReportIsTrue, PlacedIsTrue, BookedAsTyped
  <2> QED  BY <2>1, <2>3, <2>4 DEF ChInv
<1>2. ChInv /\ [ChNext]_chVars => ChInv'
  <2> SUFFICES ASSUME ChInv, [ChNext]_chVars PROVE ChInv'
    OBVIOUS
  <2>1. CASE UNCHANGED chVars
    BY <2>1, FewerCarried DEF chVars, engineVars, chatVars, webVars
  <2>2. CASE \E r \in wire : LoseRequest(r)
    BY <2>2, FewerCarried DEF LoseRequest, engineVars, chatVars
  <2>3. CASE CancelDraft \/ CloseAuction
    BY <2>3, FewerCarried DEF CancelDraft, CloseAuction, engineVars, chatVars, webVars
  <2> QED  BY <2>1, <2>2, <2>3, ChatStepKeeps, ReviewStep, PageStepKeeps, ServeStep DEF ChNext, WebStep
<1> QED  BY <1>1, <1>2, PTL DEF ChSpec

\* bidService.ts takes a key that comes back with other amounts for a conflict: no retry,
\* redelivery or late request of either channel makes one.
THEOREM KeysNeverConflict == ChSpec => []KeyMeansOneBatch
<1>1. ChInv => KeyMeansOneBatch
  BY DEF ChInv
<1> QED  BY <1>1, ChannelsInvariant, PTL

\* confirmBid and BidPanel: "placed" is said of what is booked.
THEOREM PlacedIsAlwaysTrue == ChSpec => []PlacedIsTrue
<1>1. ChInv => PlacedIsTrue
  BY DEF ChInv
<1> QED  BY <1>1, ChannelsInvariant, PTL

\* submitBids, as the channels use it: a batch is booked whole, under a key that was
\* minted for it, and no amount under two keys.
THEOREM BookedOnlyAsTyped == ChSpec => []BookedAsTyped
<1>1. ChInv => BookedAsTyped
  BY DEF ChInv
<1> QED  BY <1>1, ChannelsInvariant, PTL

-----------------------------------------------------------------------------
(* The sign-in.  A page presents no token twice: while its refresh is       *)
(* under way its calls join it, and no call comes after the answer.  When   *)
(* the answer comes, the token that was presented is gone from the storage, *)
(* for good or for one that nobody has presented, or was left in it by a    *)
(* write that failed.                                                       *)

Pg     == [load : Nat, effects : Nat, inFlight : BOOLEAN, signedIn : BOOLEAN, leaving : BOOLEAN]
Flight == [load : Nat, token : Nat, answer : {"none", "new", "refused"}, new : Nat]
Issued == 1..Len(tokens)

\* Tokens that are spoken of have been issued, and no two tabs show one page.
Numbers ==
  /\ \A q \in sent : q.token \in Issued /\ q.load \in 1..loads
  /\ \A r \in transit : r.token \in Issued
  /\ \A w \in Windows : page[w].load <= loads
  /\ \A w, v \in Windows : w # v /\ page[w].load = page[v].load => page[w].load = 0

\* A token on its way to a page has not been presented or stored, and no other page
\* will be given it.
Fresh(t) == t # storage /\ t \in Issued /\ \A q \in sent : q.token # t

NewIsFresh ==
  /\ \A r \in transit : r.answer = "new" => Fresh(r.new)
  /\ \A r, s \in transit : r.answer = "new" /\ s.answer = "new" /\ r.new = s.new => r = s

\* A page that has presented a token calls refresh no more, or joins that call.
NotYet == \A q \in sent, w \in Windows : q.load = page[w].load => page[w].effects = 0 \/ page[w].inFlight

Inv == PagesTypeOK /\ Numbers /\ NewIsFresh /\ NotYet /\ PageKeepsItsPromise

-----------------------------------------------------------------------------
\* A token is a token after its status has changed.
LEMMA StatusChanges ==
  ASSUME NEW x \in Token, NEW st \in {"active", "rotated", "revoked"}
  PROVE  [x EXCEPT !.status = st] \in Token
BY DEF Token

\* Ending a family issues no token and forgets none.
LEMMA EndingIssuesNone ==
  ASSUME NEW f \in Nat, tokens \in Seq(Token)
  PROVE  FamilyEnds(tokens, f) \in Seq(Token) /\ Len(FamilyEnds(tokens, f)) = Len(tokens)
<1> DEFINE ts == FamilyEnds(tokens, f)
<1>1. ASSUME NEW t \in DOMAIN tokens
      PROVE  ts[t] \in Token
  <2>1. PICK x \in Token : x = tokens[t]
    OBVIOUS
  <2>2. [x EXCEPT !.status = "revoked"] \in Token
    BY StatusChanges
  <2>3. ts[t] = IF tokens[t].family = f THEN [tokens[t] EXCEPT !.status = "revoked"] ELSE tokens[t]
    BY Zenon DEF FamilyEnds
  <2>4. ts[t] = IF x.family = f THEN [x EXCEPT !.status = "revoked"] ELSE x
    BY <2>1, <2>3, Zenon
  <2> QED  BY <2>2, <2>4
<1>2. DOMAIN ts = 1..Len(tokens) /\ DOMAIN tokens = 1..Len(tokens) /\ Len(tokens) \in Nat
  BY DEF FamilyEnds
<1>3. ts = [t \in 1..Len(tokens) |-> ts[t]]
  BY <1>2 DEF FamilyEnds
<1>4. \A t \in 1..Len(tokens) : ts[t] \in Token
  BY <1>1, <1>2
<1> HIDE DEF ts
<1>5. ts \in [1..Len(tokens) -> Token]
  BY <1>3, <1>4
<1>6. ts \in Seq(Token) /\ Len(ts) = Len(tokens)
  BY <1>2, <1>5
<1> QED  BY <1>6 DEF ts

\* An exchange issues one token.
LEMMA ExchangeIssuesOne ==
  ASSUME NEW t \in 1..Len(tokens), tokens \in Seq(Token)
  PROVE  Exchanged(t) \in Seq(Token) /\ Len(Exchanged(t)) = Len(tokens) + 1
<1> DEFINE ts == [tokens EXCEPT ![t].status = "rotated"]
           new == [family |-> Family(t), status |-> "active"]
<1>1. PICK x \in Token : x = tokens[t]
  OBVIOUS
<1>2. PICK y \in Token : y = [x EXCEPT !.status = "rotated"]
  BY StatusChanges
<1>3. ts = [tokens EXCEPT ![t] = y]
  BY <1>1, <1>2, Zenon
<1>4. ts \in Seq(Token) /\ Len(ts) = Len(tokens)
  BY <1>3
<1>5. x.family \in Nat /\ new = [family |-> x.family, status |-> "active"]
  BY <1>1 DEF Family, Token
<1>6. new \in Token
  BY <1>5 DEF Token
<1> HIDE DEF ts, new
<1>7. Append(ts, new) \in Seq(Token) /\ Len(Append(ts, new)) = Len(tokens) + 1
  BY <1>4, <1>6
<1> QED  BY <1>7 DEF Exchanged, ts, new

\* What a call, a request and an answer change in a page.
LEMMA PageUpdates ==
  ASSUME NEW k \in Pg, k.effects > 0
  PROVE  /\ [k EXCEPT !.effects = @ - 1, !.inFlight = TRUE] \in Pg
         /\ [k EXCEPT !.effects = @ - 1, !.inFlight = TRUE].load = k.load
         /\ [k EXCEPT !.effects = @ - 1, !.inFlight = TRUE].inFlight
<1>1. [k EXCEPT !.effects = @ - 1, !.inFlight = TRUE] \in Pg
  <2>1. PICK n \in Nat : n = k.effects - 1
    BY DEF Pg
  <2>2. [k EXCEPT !.effects = n, !.inFlight = TRUE] \in Pg
    BY DEF Pg
  <2> QED  BY <2>1, <2>2
<1>2. [k EXCEPT !.effects = @ - 1, !.inFlight = TRUE].load = k.load
  BY DEF Pg
<1>3. [k EXCEPT !.effects = @ - 1, !.inFlight = TRUE].inFlight
  BY DEF Pg
<1> QED  BY <1>1, <1>2, <1>3

LEMMA AnswerUpdates ==
  ASSUME NEW k \in Pg
  PROVE  /\ [k EXCEPT !.inFlight = FALSE] \in Pg
         /\ [k EXCEPT !.inFlight = FALSE].load = k.load
         /\ [k EXCEPT !.inFlight = FALSE].effects = k.effects
<1>1. [k EXCEPT !.inFlight = FALSE] \in Pg
  BY DEF Pg
<1>2. [k EXCEPT !.inFlight = FALSE].load = k.load
  BY DEF Pg
<1>3. [k EXCEPT !.inFlight = FALSE].effects = k.effects
  BY DEF Pg
<1> QED  BY <1>1, <1>2, <1>3

LEMMA NumberUpdates ==
  ASSUME NEW k \in Pg, NEW n \in Nat, NEW m \in Nat
  PROVE  [k EXCEPT !.load = n, !.effects = m] \in Pg /\ [k EXCEPT !.load = n, !.effects = m].load = n
<1>1. [k EXCEPT !.load = n, !.effects = m] \in Pg
  BY DEF Pg
<1>2. [k EXCEPT !.load = n, !.effects = m].load = n
  BY DEF Pg
<1> QED  BY <1>1, <1>2

LEMMA SigningUpdates ==
  ASSUME NEW k \in Pg, NEW x \in BOOLEAN
  PROVE  /\ [k EXCEPT !.signedIn = x] \in Pg
         /\ [k EXCEPT !.signedIn = x].load = k.load
         /\ [k EXCEPT !.signedIn = x].effects = k.effects
         /\ [k EXCEPT !.signedIn = x].inFlight = k.inFlight
         /\ [k EXCEPT !.leaving = x] \in Pg
         /\ [k EXCEPT !.leaving = x].load = k.load
         /\ [k EXCEPT !.leaving = x].effects = k.effects
         /\ [k EXCEPT !.leaving = x].inFlight = k.inFlight
<1>1. [k EXCEPT !.signedIn = x] \in Pg /\ [k EXCEPT !.leaving = x] \in Pg
  BY DEF Pg
<1>2. [k EXCEPT !.signedIn = x].load = k.load /\ [k EXCEPT !.leaving = x].load = k.load
  BY DEF Pg
<1>3. [k EXCEPT !.signedIn = x].inFlight = k.inFlight
  BY DEF Pg
<1>4. [k EXCEPT !.leaving = x].inFlight = k.inFlight
  BY DEF Pg
<1>5. [k EXCEPT !.signedIn = x].effects = k.effects /\ [k EXCEPT !.leaving = x].effects = k.effects
  BY DEF Pg
<1> QED  BY <1>1, <1>2, <1>3, <1>4, <1>5

\* What an update of one page is to the others.
LEMMA PageBecomes ==
  ASSUME PagesTypeOK, NEW w \in Windows, NEW p \in Pg, page' = [page EXCEPT ![w] = p]
  PROVE  /\ page' \in [Windows -> Pg]
         /\ page'[w] = p
         /\ \A v \in Windows : v # w => page'[v] = page[v]
BY DEF PagesTypeOK, Pg

\* A page that has presented a token is not to call again; loads and what was sent are
\* as they were.
LEMMA PageMoves ==
  ASSUME Inv, NEW w \in Windows, NEW p \in Pg,
         page' = [page EXCEPT ![w] = p], p.load = page[w].load,
         UNCHANGED <<loads, sent, again>>,
         tokens' \in Seq(Token), Len(tokens) <= Len(tokens'),
         p.inFlight \/ p.effects = 0 \/ (p.effects = page[w].effects /\ p.inFlight = page[w].inFlight)
  PROVE  /\ page' \in [Windows -> Pg]
         /\ \A q \in sent : q.token \in 1..Len(tokens') /\ q.load \in 1..loads
         /\ \A v \in Windows : page'[v].load <= loads
         /\ \A u, v \in Windows : u # v /\ page'[u].load = page'[v].load => page'[u].load = 0
         /\ NotYet'
<1>1. PagesTypeOK /\ Numbers /\ NotYet
  BY DEF Inv
<1>2. /\ page' \in [Windows -> Pg]
      /\ page'[w] = p
      /\ \A v \in Windows : v # w => page'[v] = page[v]
  BY <1>1, PageBecomes
<1>3. Len(tokens) \in Nat /\ Len(tokens') \in Nat
  BY <1>1 DEF PagesTypeOK
<1>4. \A q \in sent : q.token \in 1..Len(tokens') /\ q.load \in 1..loads
  BY <1>1, <1>3 DEF Numbers, Issued
<1>5. \A v \in Windows : page'[v].load = page[v].load
  BY <1>2
<1>6. \A v \in Windows : page'[v].load <= loads
  BY <1>1, <1>5 DEF Numbers
<1>7. \A u, v \in Windows : u # v /\ page'[u].load = page'[v].load => page'[u].load = 0
  BY <1>1, <1>5 DEF Numbers
<1>8. NotYet'
  <2> SUFFICES ASSUME NEW q \in sent, NEW v \in Windows, q.load = page'[v].load
               PROVE  page'[v].effects = 0 \/ page'[v].inFlight
    BY DEF NotYet
  <2>1. page[v].effects = 0 \/ page[v].inFlight
    BY <1>1, <1>5 DEF NotYet
  <2>2. CASE v = w
    BY <1>2, <2>1, <2>2
  <2>3. CASE v # w
    BY <1>2, <2>1, <2>3
  <2> QED  BY <2>2, <2>3
<1> QED  BY <1>2, <1>4, <1>6, <1>7, <1>8

\* A token that was presented is not stored, or was left by a write that failed.
Replaced(q) == q.token # storage \/ q.token \in stuck

\* Whether a write fails or not, none is left in the storage but what is known to be.
LEMMA StoresReplaces ==
  ASSUME PagesTypeOK, NEW t \in 0..Len(tokens'), Stores(t), Len(tokens) \in Nat, Len(tokens') \in Nat,
         Len(tokens) <= Len(tokens'), \A q \in sent : q.token # t
  PROVE  /\ \A q \in sent : Replaced(q)'
         /\ storage' = storage \/ storage' = t
         /\ storage' \in 0..Len(tokens') /\ stuck' \subseteq 0..Len(tokens')
<1>1. storage \in 0..Len(tokens') /\ stuck \subseteq 0..Len(tokens')
  BY DEF PagesTypeOK
<1>2. CASE storage' = t /\ stuck' = stuck
  BY <1>1, <1>2 DEF Replaced
<1>3. CASE storage' = storage /\ stuck' = stuck \cup {storage}
  BY <1>1, <1>3 DEF Replaced
<1> QED  BY <1>2, <1>3 DEF Stores

\* What is on its way stays fresh while its token has not been stored or presented.
LEMMA StillFresh ==
  ASSUME Inv, sent' = sent, transit' \subseteq transit,
         tokens' \in Seq(Token), Len(tokens) <= Len(tokens'),
         \A r \in transit' : r.answer = "new" => r.new # storage'
  PROVE  NewIsFresh' /\ \A r \in transit' : r.token \in 1..Len(tokens')
<1>1. Len(tokens) \in Nat /\ Len(tokens') \in Nat
  BY DEF Inv, PagesTypeOK
<1>2. \A r \in transit' : r.token \in 1..Len(tokens')
  BY <1>1 DEF Inv, Numbers, Issued
<1>3. ASSUME NEW r \in transit', r.answer = "new"
      PROVE  Fresh(r.new)'
  BY <1>1, <1>3 DEF Inv, NewIsFresh, Fresh, Issued
<1>4. \A r, t \in transit' : r.answer = "new" /\ t.answer = "new" /\ r.new = t.new => r = t
  BY DEF Inv, NewIsFresh
<1> QED  BY <1>2, <1>3, <1>4 DEF NewIsFresh

LEMMA LoadPageStep ==
  ASSUME Inv, NEW w \in Windows, LoadPage(w)
  PROVE  Inv'
<1>1. /\ PagesTypeOK /\ loads' = loads + 1
      /\ UNCHANGED <<storage, tokens, sent, again, transit, goodbyes, stuck>>
  BY DEF Inv, LoadPage
<1>2. loads \in Nat
  BY <1>1 DEF PagesTypeOK
<1>3. PICK p \in Pg : page' = [page EXCEPT ![w] = p] /\ p.load = loads + 1
  <2>1. PICK k \in Pg : k = NoPage
    BY DEF NoPage, Pg
  <2>2. PICK n \in Nat : n = loads + 1
    BY <1>2
  <2>3. PICK m \in 1..MaxEffects : page' = [page EXCEPT ![w] = [NoPage EXCEPT !.load = loads + 1, !.effects = m]]
    BY DEF LoadPage
  <2>4. m \in Nat
    BY <2>3, PagesAssumption
  <2>5. [k EXCEPT !.load = n, !.effects = m] \in Pg /\ [k EXCEPT !.load = n, !.effects = m].load = n
    BY <2>4, NumberUpdates
  <2> QED  BY <2>1, <2>2, <2>3, <2>5
<1>4. /\ page' \in [Windows -> Pg]
      /\ page'[w] = p
      /\ \A v \in Windows : v # w => page'[v] = page[v]
  BY <1>1, <1>3, PageBecomes
<1>5. PagesTypeOK'
  BY <1>1, <1>2, <1>4 DEF PagesTypeOK, Pg
<1>6. \A v \in Windows : page[v].load \in Nat
  BY <1>1 DEF PagesTypeOK
<1>7. Numbers'
  <2>1. \A q \in sent' : q.token \in Issued' /\ q.load \in 1..loads'
    BY <1>1, <1>2 DEF Inv, Numbers, Issued
  <2>2. \A r \in transit' : r.token \in Issued'
    BY <1>1 DEF Inv, Numbers, Issued
  <2>3. \A v \in Windows : page'[v].load <= loads'
    BY <1>1, <1>2, <1>3, <1>4, <1>6 DEF Inv, Numbers
  <2>4. \A v \in Windows : v # w => page'[v].load # page'[w].load
    BY <1>2, <1>3, <1>4, <1>6 DEF Inv, Numbers
  <2>5. \A u, v \in Windows : u # v /\ page'[u].load = page'[v].load => page'[u].load = 0
    BY <1>4, <2>4 DEF Inv, Numbers
  <2> QED  BY <2>1, <2>2, <2>3, <2>5 DEF Numbers
<1>8. NewIsFresh'
  BY <1>1 DEF Inv, NewIsFresh, Fresh, Issued
<1>9. NotYet'
  <2> SUFFICES ASSUME NEW q \in sent, NEW v \in Windows, q.load = page'[v].load
               PROVE  page'[v].effects = 0 \/ page'[v].inFlight
    BY <1>1 DEF NotYet
  <2>1. q.load \in 1..loads
    BY DEF Inv, Numbers
  <2>2. v # w
    BY <1>2, <1>3, <1>4, <2>1
  <2> QED  BY <1>4, <2>2 DEF Inv, NotYet
<1>10. PageKeepsItsPromise'
  BY <1>1 DEF Inv, PageKeepsItsPromise, AnswerHeard
<1> QED  BY <1>5, <1>7, <1>8, <1>9, <1>10 DEF Inv

LEMMA RefreshStep ==
  ASSUME Inv, NEW w \in Windows, Refresh(w)
  PROVE  Inv'
<1>1. PagesTypeOK /\ Numbers /\ NewIsFresh /\ NotYet /\ PageKeepsItsPromise
  BY DEF Inv
<1>2. PICK k \in Pg : k = page[w]
  BY <1>1 DEF PagesTypeOK, Pg
<1>3. k.effects > 0
  BY <1>2 DEF Refresh
<1>4. PICK p \in Pg : p = [k EXCEPT !.effects = @ - 1, !.inFlight = TRUE] /\ p.load = k.load /\ p.inFlight
  BY <1>3, PageUpdates, Zenon
<1>5. /\ UNCHANGED <<storage, tokens, loads, goodbyes, stuck>>
      /\ page' = [page EXCEPT ![w] = p] /\ p.load = page[w].load
  <2>1. page' = [page EXCEPT ![w] = [page[w] EXCEPT !.effects = @ - 1, !.inFlight = TRUE]]
    BY DEF Refresh
  <2>2. page' = [page EXCEPT ![w] = p]
    BY <1>2, <1>4, <2>1, Zenon
  <2>3. p.load = page[w].load
    BY <1>2, <1>4
  <2> QED  BY <2>2, <2>3 DEF Refresh
<1>6. tokens' \in Seq(Token) /\ Len(tokens) <= Len(tokens') /\ Len(tokens) \in Nat
  BY <1>1, <1>5 DEF PagesTypeOK
<1>7. PICK t \in StoredRefreshToken :
        IF InFlight(w) \/ t = Nothing
        THEN UNCHANGED <<sent, again, transit>>
        ELSE Present([load |-> page[w].load, token |-> t])
  BY DEF Refresh
<1>8. CASE UNCHANGED <<sent, again, transit>>
  <2>1. /\ page' \in [Windows -> Pg]
        /\ \A x \in sent : x.token \in 1..Len(tokens') /\ x.load \in 1..loads
        /\ \A v \in Windows : page'[v].load <= loads
        /\ \A u, v \in Windows : u # v /\ page'[u].load = page'[v].load => page'[u].load = 0
        /\ NotYet'
    BY <1>4, <1>5, <1>6, <1>8, PageMoves
  <2>2. PagesTypeOK'
    BY <1>1, <1>5, <1>8, <2>1 DEF PagesTypeOK, Pg
  <2>3. NewIsFresh' /\ \A x \in transit' : x.token \in Issued'
    BY <1>1, <1>5, <1>8 DEF NewIsFresh, Fresh, Numbers, Issued
  <2>4. Numbers'
    BY <1>5, <1>8, <2>1, <2>3 DEF Numbers, Issued
  <2>5. PageKeepsItsPromise'
    BY <1>1, <1>5, <1>8 DEF PageKeepsItsPromise, AnswerHeard
  <2> QED  BY <2>1, <2>2, <2>3, <2>4, <2>5 DEF Inv
<1>9. CASE ~page[w].inFlight /\ t # Nothing /\ Present([load |-> page[w].load, token |-> t])
  <2> DEFINE q == [load |-> page[w].load, token |-> storage]
             r == [load |-> q.load, token |-> q.token, answer |-> "none", new |-> Nothing]
  <2>0. /\ storage # Nothing
        /\ sent' = sent \cup {q} /\ again' = again \cup ({q} \cap sent)
        /\ transit' = transit \cup {r}
    <3>1. t = storage
      BY <1>9 DEF StoredRefreshToken
    <3> QED  BY <1>9, <3>1 DEF Present
  <2>2. storage \in Issued
    BY <1>1, <1>6, <2>0 DEF PagesTypeOK, Nothing, Issued
  <2>1. page[w].load \in Nat /\ page[w].effects # 0 /\ page[w].load # 0
    BY <1>2, <1>3 DEF Pg, Refresh
  <2>3. /\ q.load = page[w].load /\ q.token = storage /\ q \in Request
        /\ r.load = page[w].load /\ r.token = storage /\ r.answer = "none" /\ r \in Flight
    BY <1>6, <2>1, <2>2 DEF Request, Flight, Nothing, Issued
  <2>4. q \notin sent
    BY <1>1, <1>9, <2>1, <2>3 DEF NotYet
  <2> HIDE DEF q, r
  <2>5. /\ page' \in [Windows -> Pg]
        /\ page'[w] = p
        /\ \A v \in Windows : v # w => page'[v] = page[v]
    BY <1>1, <1>5, PageBecomes
  <2>6. PagesTypeOK'
    <3>1. sent' \subseteq Request /\ again' \subseteq Request /\ transit' \subseteq Flight
      BY <1>1, <2>0, <2>3 DEF PagesTypeOK, Flight
    <3> QED  BY <1>1, <1>5, <2>5, <3>1 DEF PagesTypeOK, Pg, Flight
  <2>7. Numbers'
    <3>1. \A v \in Windows : page'[v].load = page[v].load
      BY <1>5, <2>5
    <3>2. page[w].load \in 1..loads
      BY <1>1, <2>1 DEF Numbers, PagesTypeOK
    <3>3. \A x \in sent' : x.token \in Issued /\ x.load \in 1..loads
      BY <1>1, <2>0, <2>2, <2>3, <3>2 DEF Numbers
    <3>4. \A x \in transit' : x.token \in Issued
      BY <1>1, <2>0, <2>2, <2>3 DEF Numbers
    <3> QED  BY <1>1, <1>5, <3>1, <3>3, <3>4 DEF Numbers, Issued
  <2>8. NewIsFresh'
    <3>1. \A x \in transit' : x.answer = "new" => x \in transit
      BY <2>0, <2>3
    <3>2. ASSUME NEW x \in transit', x.answer = "new"
          PROVE  Fresh(x.new)'
      <4>1. Fresh(x.new)
        BY <1>1, <3>1, <3>2 DEF NewIsFresh
      <4>2. \A y \in sent' : y.token # x.new
        BY <2>0, <2>3, <4>1 DEF Fresh
      <4> QED  BY <1>5, <4>1, <4>2 DEF Fresh, Issued
    <3> QED  BY <1>1, <3>1, <3>2 DEF NewIsFresh
  <2>9. NotYet'
    <3> SUFFICES ASSUME NEW x \in sent', NEW v \in Windows, x.load = page'[v].load
                 PROVE  page'[v].effects = 0 \/ page'[v].inFlight
      BY DEF NotYet
    <3>1. CASE v = w
      BY <1>4, <2>5, <3>1
    <3>2. CASE v # w
      <4>1. page'[v] = page[v]
        BY <2>5, <3>2
      <4>2. CASE x \in sent
        BY <1>1, <4>1, <4>2 DEF NotYet
      <4>3. CASE x = q
        BY <1>1, <2>1, <2>3, <3>2, <4>1, <4>3 DEF Numbers
      <4> QED  BY <2>0, <4>2, <4>3
    <3> QED  BY <3>1, <3>2
  <2>10. PageKeepsItsPromise'
    <3>1. again' = {}
      BY <1>1, <2>0, <2>4 DEF PageKeepsItsPromise
    <3>2. ASSUME NEW x \in sent', AnswerHeard(x)'
          PROVE  x.token # storage' \/ x.token \in stuck'
      <4>1. x # q
        BY <2>0, <2>3, <3>2 DEF AnswerHeard
      <4>2. x \in sent /\ AnswerHeard(x)
        BY <2>0, <3>2, <4>1 DEF AnswerHeard
      <4> QED  BY <1>1, <1>5, <4>2 DEF PageKeepsItsPromise
    <3> QED  BY <3>1, <3>2 DEF PageKeepsItsPromise
  <2> QED  BY <2>6, <2>7, <2>8, <2>9, <2>10 DEF Inv
<1> QED  BY <1>7, <1>8, <1>9 DEF InFlight

\* The server's part leaves the pages and the storage alone.
LEMMA ServerMoves ==
  ASSUME Inv, UNCHANGED <<storage, page, loads, sent, again, stuck>>,
         tokens' \in Seq(Token), Len(tokens) <= Len(tokens'),
         goodbyes' \subseteq goodbyes,
         transit' \subseteq Flight, \A r \in transit' : r.token \in Issued,
         NewIsFresh', \A q \in sent : AnswerHeard(q)' => AnswerHeard(q)
  PROVE  Inv'
<1>1. Len(tokens) \in Nat /\ Len(tokens') \in Nat
  BY DEF Inv, PagesTypeOK
<1>2. PagesTypeOK'
  BY <1>1 DEF Inv, PagesTypeOK, Flight
<1>3. Numbers'
  BY <1>1 DEF Inv, Numbers, Issued
<1>4. NotYet'
  BY DEF Inv, NotYet
<1>5. PageKeepsItsPromise'
  BY DEF Inv, PageKeepsItsPromise
<1> QED  BY <1>2, <1>3, <1>4, <1>5 DEF Inv

\* A request is answered: with a token that is new, or with none.
LEMMA AnswerMoves ==
  ASSUME Inv, NEW r \in transit,
         UNCHANGED <<storage, page, loads, sent, again, goodbyes, stuck>>,
         tokens' \in Seq(Token), Len(tokens) <= Len(tokens'),
         NEW a, NEW n, Answers(r, a, n),
         \/ a = "refused" /\ n = Nothing
         \/ a = "new" /\ n = Len(tokens) + 1 /\ Len(tokens') = Len(tokens) + 1
  PROVE  Inv'
<1>1. PagesTypeOK /\ Numbers /\ NewIsFresh
  BY DEF Inv
<1>2. Len(tokens) \in Nat /\ Len(tokens') \in Nat /\ r \in Flight /\ n \in Nat /\ storage \in Nat
  BY <1>1 DEF PagesTypeOK, Flight, Nothing
<1>3. PICK x : x = [r EXCEPT !.answer = a, !.new = n]
  OBVIOUS
<1>4. x \in Flight /\ x.answer = a /\ x.new = n /\ x.token = r.token /\ x.load = r.load
  BY <1>2, <1>3 DEF Flight
<1>5. transit' = (transit \ {r}) \cup {x}
  BY <1>3 DEF Answers
<1>6. transit' \subseteq Flight /\ \A t \in transit' : t.token \in Issued
  BY <1>1, <1>4, <1>5 DEF PagesTypeOK, Flight, Numbers
<1>7. \A t \in transit : t.answer = "new" => t.new \in 1..Len(tokens)
  BY <1>1 DEF NewIsFresh, Fresh, Issued
<1>8. NewIsFresh'
  <2>1. ASSUME NEW t \in transit', t.answer = "new"
        PROVE  Fresh(t.new)'
    <3>1. CASE t \in transit
      BY <1>1, <1>2, <2>1, <3>1 DEF NewIsFresh, Fresh, Issued
    <3>2. CASE t = x
      <4>1. t.new = Len(tokens) + 1 /\ Len(tokens') = Len(tokens) + 1
        BY <1>4, <2>1, <3>2
      <4>2. t.new # storage
        BY <1>1, <1>2, <4>1 DEF PagesTypeOK
      <4>3. \A q \in sent : q.token # t.new
        BY <1>1, <1>2, <4>1 DEF Numbers, Issued
      <4> QED  BY <1>2, <4>1, <4>2, <4>3 DEF Fresh, Issued
    <3> QED  BY <1>5, <3>1, <3>2
  <2>2. ASSUME NEW t \in transit', NEW u \in transit', t.answer = "new", u.answer = "new", t.new = u.new
        PROVE  t = u
    <3>1. CASE t = x /\ u \in transit
      BY <1>2, <1>4, <1>7, <2>2, <3>1
    <3>2. CASE u = x /\ t \in transit
      BY <1>2, <1>4, <1>7, <2>2, <3>2
    <3>3. CASE t \in transit /\ u \in transit
      BY <1>1, <2>2, <3>3 DEF NewIsFresh
    <3> QED  BY <1>5, <3>1, <3>2, <3>3
  <2> QED  BY <2>1, <2>2 DEF NewIsFresh
<1>9. \A q \in sent : AnswerHeard(q)' => AnswerHeard(q)
  BY <1>4, <1>5 DEF AnswerHeard
<1> QED  BY <1>6, <1>8, <1>9, ServerMoves

LEMMA ServeRefreshStep ==
  ASSUME Inv, NEW r \in transit, ServeRefresh(r)
  PROVE  Inv'
<1>1. UNCHANGED <<storage, page, loads, sent, again, goodbyes, stuck>>
  BY DEF ServeRefresh
<1>2. tokens \in Seq(Token) /\ Len(tokens) \in Nat /\ r.token \in 1..Len(tokens)
  BY DEF Inv, PagesTypeOK, Numbers, Issued
<1>3. PICK x \in Token : x = tokens[r.token]
  BY <1>2
<1>4. Status(r.token) \in {"active", "rotated", "revoked"} /\ Family(r.token) \in Nat
  BY <1>3 DEF Status, Family, Token
<1>5. CASE Status(r.token) = "active"
  <2>1. tokens' = Exchanged(r.token) /\ Answers(r, "new", Len(tokens) + 1)
    BY <1>5 DEF ServeRefresh
  <2>2. tokens' \in Seq(Token) /\ Len(tokens') = Len(tokens) + 1
    BY <1>2, <2>1, ExchangeIssuesOne
  <2> QED  BY <1>1, <1>2, <2>1, <2>2, AnswerMoves
<1>6. CASE Status(r.token) = "rotated"
  <2>1. tokens' = FamilyEnds(tokens, Family(r.token)) /\ Answers(r, "refused", Nothing)
    BY <1>6 DEF ServeRefresh
  <2>2. tokens' \in Seq(Token) /\ Len(tokens') = Len(tokens)
    BY <1>2, <1>4, <2>1, EndingIssuesNone
  <2> QED  BY <1>1, <1>2, <2>1, <2>2, AnswerMoves
<1>7. CASE Status(r.token) = "revoked"
  <2>1. tokens' = tokens /\ Answers(r, "refused", Nothing)
    BY <1>7 DEF ServeRefresh
  <2> QED  BY <1>1, <1>2, <2>1, AnswerMoves
<1> QED  BY <1>4, <1>5, <1>6, <1>7

LEMMA LoseRefreshStep ==
  ASSUME Inv, NEW r \in transit, LoseRefresh(r)
  PROVE  Inv'
<1>1. UNCHANGED <<storage, tokens, page, loads, sent, again, goodbyes, stuck>> /\ Answers(r, "refused", Nothing)
  BY DEF LoseRefresh
<1>2. tokens \in Seq(Token) /\ Len(tokens) \in Nat
  BY DEF Inv, PagesTypeOK
<1> QED  BY <1>1, <1>2, AnswerMoves

LEMMA ServeLogoutStep ==
  ASSUME Inv, NEW t \in goodbyes, ServeLogout(t)
  PROVE  Inv'
<1>1. /\ UNCHANGED <<storage, page, loads, sent, again, transit, stuck>>
      /\ tokens' = FamilyEnds(tokens, Family(t)) /\ goodbyes' \subseteq goodbyes
  BY DEF ServeLogout
<1>2. tokens \in Seq(Token) /\ Len(tokens) \in Nat /\ t \in 1..Len(tokens)
  BY DEF Inv, PagesTypeOK
<1>3. PICK x \in Token : x = tokens[t]
  BY <1>2
<1>4. Family(t) \in Nat
  BY <1>3 DEF Family, Token
<1>5. tokens' \in Seq(Token) /\ Len(tokens') = Len(tokens)
  BY <1>1, <1>2, <1>4, EndingIssuesNone
<1>6. NewIsFresh' /\ transit' \subseteq Flight /\ \A r \in transit' : r.token \in Issued
  BY <1>1, <1>5 DEF Inv, NewIsFresh, Fresh, Issued, Numbers, PagesTypeOK, Flight
<1>7. \A q \in sent : AnswerHeard(q)' => AnswerHeard(q)
  BY <1>1 DEF AnswerHeard
<1> QED  BY <1>1, <1>2, <1>5, <1>6, <1>7, ServerMoves

\* A page acts on what it has heard, without a request of its own.
LEMMA PageActs ==
  ASSUME Inv, NEW w \in Windows, NEW p \in Pg,
         page' = [page EXCEPT ![w] = p], p.load = page[w].load,
         p.effects = 0 \/ (p.effects = page[w].effects /\ p.inFlight = page[w].inFlight),
         UNCHANGED <<loads, sent, again>>,
         tokens' \in Seq(Token), Len(tokens) <= Len(tokens'),
         goodbyes' \subseteq 1..Len(tokens'), transit' \subseteq transit,
         storage' \in 0..Len(tokens'), stuck' \subseteq 0..Len(tokens'),
         \A r \in transit' : r.answer = "new" => r.new # storage',
         UNCHANGED <<storage, transit, stuck>> \/ \A q \in sent : Replaced(q)'
  PROVE  Inv'
<1>1. /\ page' \in [Windows -> Pg]
      /\ \A q \in sent : q.token \in 1..Len(tokens') /\ q.load \in 1..loads
      /\ \A v \in Windows : page'[v].load <= loads
      /\ \A u, v \in Windows : u # v /\ page'[u].load = page'[v].load => page'[u].load = 0
      /\ NotYet'
  BY PageMoves
<1>2. NewIsFresh' /\ \A r \in transit' : r.token \in 1..Len(tokens')
  BY StillFresh
<1>3. Numbers'
  BY <1>1, <1>2 DEF Numbers, Issued
<1>4. PagesTypeOK'
  BY <1>1 DEF Inv, PagesTypeOK, Pg
<1>5. PageKeepsItsPromise'
  <2>1. CASE UNCHANGED <<storage, transit, stuck>>
    BY <2>1 DEF Inv, PageKeepsItsPromise, AnswerHeard
  <2>2. CASE \A q \in sent : Replaced(q)'
    BY <2>2 DEF Inv, PageKeepsItsPromise, Replaced
  <2> QED  BY <2>1, <2>2
<1> QED  BY <1>1, <1>2, <1>3, <1>4, <1>5 DEF Inv

LEMMA FindNoTokenStep ==
  ASSUME Inv, NEW w \in Windows, FindNoToken(w)
  PROVE  Inv'
<1>1. PICK k \in Pg : k = page[w]
  BY DEF Inv, PagesTypeOK, Pg
<1>2. PICK p \in Pg : p = [k EXCEPT !.inFlight = FALSE] /\ p.load = k.load /\ p.effects = k.effects
  BY AnswerUpdates, Zenon
<1>3. /\ UNCHANGED <<storage, tokens, loads, sent, again, transit, goodbyes, stuck>>
      /\ page' = [page EXCEPT ![w] = p] /\ p.effects = 0
  BY <1>1, <1>2 DEF FindNoToken, Mounted
<1>4. /\ tokens' \in Seq(Token) /\ Len(tokens) <= Len(tokens') /\ goodbyes' \subseteq 1..Len(tokens')
      /\ storage' \in 0..Len(tokens') /\ stuck' \subseteq 0..Len(tokens')
  BY <1>3 DEF Inv, PagesTypeOK
<1>5. \A r \in transit' : r.answer = "new" => r.new # storage'
  BY <1>3 DEF Inv, NewIsFresh, Fresh
<1> QED  BY <1>1, <1>2, <1>3, <1>4, <1>5, PageActs

LEMMA HearRefreshStep ==
  ASSUME Inv, NEW w \in Windows, NEW r \in transit, HearRefresh(w, r)
  PROVE  Inv'
<1> DEFINE p == [page[w] EXCEPT !.inFlight = FALSE]
<1>1. PICK k \in Pg : k = page[w]
  BY DEF Inv, PagesTypeOK, Pg
<1>2. PICK j \in Pg : j = p /\ j.load = page[w].load /\ j.effects = 0
  <2>1. page[w].effects = 0
    BY DEF HearRefresh, Mounted
  <2>2. PICK j \in Pg : j = [k EXCEPT !.inFlight = FALSE] /\ j.load = k.load /\ j.effects = k.effects
    BY AnswerUpdates, Zenon
  <2> QED  BY <1>1, <2>1, <2>2
<1>3. /\ UNCHANGED <<tokens, loads, sent, again, goodbyes>> /\ transit' = transit \ {r}
      /\ IF r.answer = "new" THEN RememberTokens(w, j, r.new) ELSE ForgetTokens(w, j)
  BY <1>2 DEF HearRefresh
<1>4. /\ tokens' \in Seq(Token) /\ Len(tokens) <= Len(tokens') /\ Len(tokens) \in Nat
      /\ goodbyes' \subseteq 1..Len(tokens') /\ Len(tokens') = Len(tokens) /\ PagesTypeOK
  BY <1>3 DEF Inv, PagesTypeOK
<1>5. ASSUME NEW t \in 0..Len(tokens'), Stores(t), \A q \in sent : q.token # t,
             \A u \in transit' : u.answer = "new" => u.new # t,
             NEW x \in BOOLEAN, page' = [page EXCEPT ![w] = [j EXCEPT !.signedIn = x]]
      PROVE  Inv'
  <2>1. PICK i \in Pg : i = [j EXCEPT !.signedIn = x] /\ i.load = j.load /\ i.effects = j.effects
    BY SigningUpdates, Zenon
  <2>2. /\ \A q \in sent : Replaced(q)'
        /\ storage' = storage \/ storage' = t
        /\ storage' \in 0..Len(tokens') /\ stuck' \subseteq 0..Len(tokens')
    BY <1>4, <1>5, StoresReplaces
  <2>3. \A u \in transit' : u.answer = "new" => u.new # storage'
    BY <1>3, <1>5, <2>2 DEF Inv, NewIsFresh, Fresh
  <2>4. page' = [page EXCEPT ![w] = i] /\ i.load = page[w].load /\ i.effects = 0 /\ transit' \subseteq transit
    BY <1>2, <1>3, <1>5, <2>1
  <2> QED  BY <1>3, <1>4, <2>2, <2>3, <2>4, PageActs
<1>6. CASE r.answer = "new"
  <2>1. Fresh(r.new) /\ \A u \in transit' : u.answer = "new" => u.new # r.new
    BY <1>3, <1>6 DEF Inv, NewIsFresh
  <2>2. r.new \in 0..Len(tokens') /\ \A q \in sent : q.token # r.new
    BY <1>4, <2>1 DEF Fresh, Issued
  <2>3. Stores(r.new) /\ page' = [page EXCEPT ![w] = [j EXCEPT !.signedIn = TRUE]]
    BY <1>3, <1>6 DEF RememberTokens
  <2> QED  BY <1>5, <2>1, <2>2, <2>3
<1>7. CASE r.answer # "new"
  <2>1. \A u \in transit' : u.answer = "new" => u.new # Nothing
    BY <1>3, <1>4 DEF Inv, NewIsFresh, Fresh, Issued, Nothing
  <2>2. Nothing \in 0..Len(tokens') /\ \A q \in sent : q.token # Nothing
    BY <1>4 DEF Inv, Numbers, Issued, Nothing
  <2>3. Stores(Nothing) /\ page' = [page EXCEPT ![w] = [j EXCEPT !.signedIn = FALSE]]
    BY <1>3, <1>7 DEF ForgetTokens
  <2> QED  BY <1>5, <2>1, <2>2, <2>3
<1> QED  BY <1>6, <1>7

LEMMA SignInStep ==
  ASSUME Inv, NEW w \in Windows, SignIn(w)
  PROVE  Inv'
<1> DEFINE new == [family |-> Len(tokens) + 1, status |-> "active"]
<1>1. PICK k \in Pg : k = page[w] /\ k.effects = 0
  BY DEF Inv, PagesTypeOK, Pg, SignIn, Mounted
<1>2. PICK i \in Pg : i = [k EXCEPT !.signedIn = TRUE] /\ i.load = k.load /\ i.effects = k.effects
  BY SigningUpdates, Zenon
<1>3. /\ UNCHANGED <<loads, sent, again, transit, goodbyes>>
      /\ tokens' = Append(tokens, new)
      /\ Stores(Len(tokens) + 1) /\ page' = [page EXCEPT ![w] = i]
  BY <1>1, <1>2 DEF SignIn, RememberTokens
<1>4. tokens \in Seq(Token) /\ Len(tokens) \in Nat /\ PagesTypeOK
  BY DEF Inv, PagesTypeOK
<1>5. new \in Token
  BY <1>4 DEF Token
<1> HIDE DEF new
<1>6. tokens' \in Seq(Token) /\ Len(tokens') = Len(tokens) + 1
  BY <1>3, <1>4, <1>5
<1>7. \A q \in sent : q.token # Len(tokens) + 1
  BY <1>4 DEF Inv, Numbers, Issued
<1>8. /\ \A q \in sent : Replaced(q)'
      /\ storage' = storage \/ storage' = Len(tokens) + 1
      /\ storage' \in 0..Len(tokens') /\ stuck' \subseteq 0..Len(tokens')
  <2>1. PICK t \in 0..Len(tokens') : t = Len(tokens) + 1
    BY <1>4, <1>6
  <2> QED  BY <1>3, <1>4, <1>6, <1>7, <2>1, StoresReplaces
<1>9. \A r \in transit' : r.answer = "new" => r.new # storage'
  BY <1>3, <1>4, <1>8 DEF Inv, NewIsFresh, Fresh, Issued
<1>10. goodbyes' \subseteq 1..Len(tokens')
  BY <1>3, <1>4, <1>6 DEF Inv, PagesTypeOK
<1>11. i.load = page[w].load /\ i.effects = 0 /\ transit' \subseteq transit /\ Len(tokens) <= Len(tokens')
  BY <1>1, <1>2, <1>3, <1>4, <1>6
<1> QED  BY <1>3, <1>6, <1>8, <1>9, <1>10, <1>11, PageActs

LEMMA LogoutStep ==
  ASSUME Inv, NEW w \in Windows, Logout(w)
  PROVE  Inv'
<1>1. PICK k \in Pg : k = page[w]
  BY DEF Inv, PagesTypeOK, Pg
<1>2. PICK i \in Pg : i = [k EXCEPT !.leaving = TRUE] /\ i.load = k.load
                       /\ i.effects = k.effects /\ i.inFlight = k.inFlight
  BY SigningUpdates, Zenon
<1>3. /\ UNCHANGED <<storage, tokens, loads, sent, again, transit, stuck>>
      /\ page' = [page EXCEPT ![w] = i]
  BY <1>1, <1>2 DEF Logout
<1>4. PICK t \in StoredRefreshToken : goodbyes' = goodbyes \cup ({t} \ {Nothing})
  BY DEF Logout
<1>5. /\ tokens' \in Seq(Token) /\ Len(tokens) <= Len(tokens') /\ goodbyes' \subseteq 1..Len(tokens')
      /\ storage' \in 0..Len(tokens') /\ stuck' \subseteq 0..Len(tokens')
  BY <1>3, <1>4 DEF Inv, PagesTypeOK, Nothing, StoredRefreshToken
<1>6. \A r \in transit' : r.answer = "new" => r.new # storage'
  BY <1>3 DEF Inv, NewIsFresh, Fresh
<1> QED  BY <1>1, <1>2, <1>3, <1>5, <1>6, PageActs

LEMMA FinishLogoutStep ==
  ASSUME Inv, NEW w \in Windows, FinishLogout(w)
  PROVE  Inv'
<1>1. PICK k \in Pg : k = page[w]
  BY DEF Inv, PagesTypeOK, Pg
<1>2. PICK j \in Pg : j = [k EXCEPT !.leaving = FALSE] /\ j.load = k.load
                       /\ j.effects = k.effects /\ j.inFlight = k.inFlight
  BY SigningUpdates, Zenon
<1>3. PICK i \in Pg : i = [j EXCEPT !.signedIn = FALSE] /\ i.load = j.load
                       /\ i.effects = j.effects /\ i.inFlight = j.inFlight
  BY SigningUpdates, Zenon
<1>4. /\ UNCHANGED <<tokens, loads, sent, again, transit, goodbyes>>
      /\ Stores(Nothing) /\ page' = [page EXCEPT ![w] = i]
  BY <1>1, <1>2, <1>3 DEF FinishLogout, ForgetTokens
<1>5. /\ tokens' \in Seq(Token) /\ Len(tokens) <= Len(tokens') /\ goodbyes' \subseteq 1..Len(tokens')
      /\ Len(tokens) \in Nat /\ Len(tokens') \in Nat /\ PagesTypeOK /\ Nothing \in 0..Len(tokens')
  BY <1>4 DEF Inv, PagesTypeOK, Nothing
<1>6. \A q \in sent : q.token # Nothing
  BY <1>5 DEF Inv, Numbers, Issued, Nothing
<1>7. /\ \A q \in sent : Replaced(q)'
      /\ storage' = storage \/ storage' = Nothing
      /\ storage' \in 0..Len(tokens') /\ stuck' \subseteq 0..Len(tokens')
  BY <1>4, <1>5, <1>6, StoresReplaces
<1>8. \A r \in transit' : r.answer = "new" => r.new # storage'
  BY <1>4, <1>5, <1>7 DEF Inv, NewIsFresh, Fresh, Issued, Nothing
<1>9. /\ i.load = page[w].load /\ transit' \subseteq transit
      /\ i.effects = page[w].effects /\ i.inFlight = page[w].inFlight
  BY <1>1, <1>2, <1>3, <1>4
<1> QED  BY <1>4, <1>5, <1>7, <1>8, <1>9, PageActs

-----------------------------------------------------------------------------
\* The inductive invariant: pages are told apart, what is on its way to one is stored
\* nowhere and was never presented, a page that has presented a token is not to present
\* another, and what has been heard of is not stored.
THEOREM PagesInvariant == PagesSpec => []Inv
<1>1. PagesInit => Inv
  <2> SUFFICES ASSUME PagesInit PROVE Inv
    OBVIOUS
  <2>1. tokens \in Seq(Token) /\ Len(tokens) = 0
    BY DEF PagesInit
  <2>2. NoPage \in Pg /\ NoPage.load = 0
    BY DEF NoPage, Pg
  <2>3. page \in [Windows -> Pg] /\ \A w \in Windows : page[w].load = 0
    BY <2>2 DEF PagesInit
  <2>4. PagesTypeOK
    BY <2>1, <2>3 DEF PagesInit, PagesTypeOK, Pg, Nothing
  <2>5. Numbers /\ NewIsFresh /\ NotYet /\ PageKeepsItsPromise
    BY <2>3 DEF PagesInit, Numbers, NewIsFresh, NotYet, PageKeepsItsPromise
  <2> QED  BY <2>4, <2>5 DEF Inv
<1>2. Inv /\ [PagesNext]_pageVars => Inv'
  <2> SUFFICES ASSUME Inv, [PagesNext]_pageVars PROVE Inv'
    OBVIOUS
  <2>1. CASE UNCHANGED pageVars
    BY <2>1 DEF Inv, pageVars, PagesTypeOK, Numbers, NewIsFresh, Fresh, NotYet, PageKeepsItsPromise,
                       AnswerHeard, Issued
  <2>2. CASE \E w \in Windows : LoadPage(w)
    BY <2>2, LoadPageStep
  <2>3. CASE \E w \in Windows : Refresh(w)
    BY <2>3, RefreshStep
  <2>4. CASE \E w \in Windows : SignIn(w)
    BY <2>4, SignInStep
  <2>5. CASE \E w \in Windows : Logout(w)
    BY <2>5, LogoutStep
  <2>6. CASE \E w \in Windows : FinishLogout(w)
    BY <2>6, FinishLogoutStep
  <2>7. CASE \E w \in Windows, r \in transit : HearRefresh(w, r)
    BY <2>7, HearRefreshStep
  <2>8. CASE \E r \in transit : ServeRefresh(r)
    BY <2>8, ServeRefreshStep
  <2>9. CASE \E r \in transit : LoseRefresh(r)
    BY <2>9, LoseRefreshStep
  <2>10. CASE \E t \in goodbyes : ServeLogout(t)
    BY <2>10, ServeLogoutStep
  <2>11. CASE \E w \in Windows : FindNoToken(w)
    BY <2>11, FindNoTokenStep
  <2> QED  BY <2>1, <2>2, <2>3, <2>4, <2>5, <2>6, <2>7, <2>8, <2>9, <2>10, <2>11 DEF PagesNext
<1> QED  BY <1>1, <1>2, PTL DEF PagesSpec

\* Every variable keeps its type; a token in the storage has been issued.
THEOREM PagesTypeCorrect == PagesSpec => []PagesTypeOK
<1>1. Inv => PagesTypeOK
  BY DEF Inv
<1> QED  BY <1>1, PagesInvariant, PTL

\* Whatever its effects, its answers, the other tabs and the storage do, a page presents
\* no refresh token twice, and none that was heard of is left for another page, unless a
\* write of the storage failed.
THEOREM PromiseIsKept == PagesSpec => []PageKeepsItsPromise
<1>1. Inv => PageKeepsItsPromise
  BY DEF Inv
<1> QED  BY <1>1, PagesInvariant, PTL

-----------------------------------------------------------------------------
(* The order of a list.  Every row that is listed has a place, and no two    *)
(* have the same, so the rows that come before one of them count its rank,   *)
(* every rank is taken, and the rows can be put in order.                    *)

ValuesTyped == value \in [Rows -> Values \cup {Gone}]

Precedes(r, s) == Before(value[r], r, value[s], s)

LEMMA PlacesAreOrdered ==
  ASSUME ValuesTyped
  PROVE  /\ \A r \in Rows : r \in Nat /\ value[r] \in Nat
         /\ \A r \in Rows : ~Precedes(r, r)
         /\ \A r, s \in Rows : r # s => Precedes(r, s) \/ Precedes(s, r)
         /\ \A r, s, t \in Rows : Precedes(r, s) /\ Precedes(s, t) => Precedes(r, t)
<1>1. \A r \in Rows : r \in Nat /\ value[r] \in Nat
  <2> SUFFICES ASSUME NEW r \in Rows
               PROVE  r \in Nat /\ value[r] \in Nat
    OBVIOUS
  <2>1. Rows \subseteq Nat /\ Values \subseteq Nat
    BY PagingAssumption
  <2>2. value[r] \in Values \cup {Gone}
    BY DEF ValuesTyped
  <2>3. CASE value[r] \in Values
    BY <2>1, <2>3
  <2>4. CASE value[r] = Gone
    BY <2>1, <2>4 DEF Gone
  <2> QED  BY <2>2, <2>3, <2>4
<1>2. \A r \in Rows : ~Precedes(r, r)
  BY <1>1 DEF Precedes, Before
<1>3. \A r, s \in Rows : r # s => Precedes(r, s) \/ Precedes(s, r)
  BY <1>1 DEF Precedes, Before
<1>4. ASSUME NEW r \in Rows, NEW s \in Rows, NEW t \in Rows, Precedes(r, s), Precedes(s, t)
      PROVE  Precedes(r, t)
  <2>1. /\ r \in Nat /\ s \in Nat /\ t \in Nat
        /\ value[r] \in Nat /\ value[s] \in Nat /\ value[t] \in Nat
    BY <1>1
  <2> QED  BY <2>1, <1>4 DEF Precedes, Before
<1> QED  BY <1>1, <1>2, <1>3, <1>4

Ahead(S, r) == {s \in S : Precedes(s, r)}

LEMMA AheadIsFinite ==
  ASSUME NEW S \in SUBSET Rows, NEW r \in S, ValuesTyped
  PROVE  /\ IsFiniteSet(S) /\ Cardinality(S) \in Nat
         /\ Ahead(S, r) \in SUBSET S /\ r \notin Ahead(S, r)
         /\ IsFiniteSet(Ahead(S, r)) /\ Cardinality(Ahead(S, r)) \in Nat
<1>1. IsFiniteSet(S)
  BY PagingAssumption, FS_Subset
<1>2. Ahead(S, r) \in SUBSET S /\ r \notin Ahead(S, r)
  BY PlacesAreOrdered DEF Ahead
<1>3. IsFiniteSet(Ahead(S, r))
  BY <1>1, <1>2, FS_Subset
<1> QED  BY <1>1, <1>2, <1>3, FS_CardinalityType

LEMMA RanksGrow ==
  ASSUME NEW S \in SUBSET Rows, ValuesTyped, NEW r \in S, NEW s \in S, Precedes(r, s)
  PROVE  Cardinality(Ahead(S, r)) < Cardinality(Ahead(S, s))
<1>1. Ahead(S, r) \in SUBSET Ahead(S, s)
  <2> SUFFICES ASSUME NEW t \in S, Precedes(t, r)
               PROVE  Precedes(t, s)
    BY DEF Ahead
  <2> QED  BY PlacesAreOrdered
<1>2. r \in Ahead(S, s) /\ r \notin Ahead(S, r)
  BY AheadIsFinite DEF Ahead
<1>3. /\ IsFiniteSet(Ahead(S, s)) /\ Cardinality(Ahead(S, s)) \in Nat
      /\ Cardinality(Ahead(S, r)) \in Nat
  BY AheadIsFinite
<1>4. /\ Cardinality(Ahead(S, r)) <= Cardinality(Ahead(S, s))
      /\ Cardinality(Ahead(S, r)) # Cardinality(Ahead(S, s))
  BY <1>1, <1>2, <1>3, FS_Subset
<1> QED  BY <1>3, <1>4

LEMMA RankBelow ==
  ASSUME NEW S \in SUBSET Rows, ValuesTyped, NEW r \in S
  PROVE  Cardinality(Ahead(S, r)) \in 0..(Cardinality(S) - 1)
<1>1. /\ IsFiniteSet(S) /\ Cardinality(S) \in Nat /\ Cardinality(Ahead(S, r)) \in Nat
      /\ Ahead(S, r) \in SUBSET S /\ r \notin Ahead(S, r)
  BY AheadIsFinite
<1>2. Cardinality(Ahead(S, r)) <= Cardinality(S) /\ Cardinality(Ahead(S, r)) # Cardinality(S)
  BY <1>1, FS_Subset
<1> QED  BY <1>1, <1>2

LEMMA RankTaken ==
  ASSUME NEW S \in SUBSET Rows, ValuesTyped, NEW n \in 1..Cardinality(S)
  PROVE  \E r \in S : Cardinality(Ahead(S, r)) = n - 1
<1> DEFINE N == Cardinality(S)
           T == 0..(N - 1)
           f == [r \in S |-> Cardinality(Ahead(S, r))]
<1>1. IsFiniteSet(S) /\ N \in Nat
  BY PagingAssumption, FS_Subset, FS_CardinalityType
<1>2. f \in [S -> T]
  BY RankBelow
<1>3. ASSUME NEW r \in S, NEW s \in S, f[r] = f[s]
      PROVE  r = s
  <2>1. Cardinality(Ahead(S, r)) = Cardinality(Ahead(S, s))
    BY <1>3
  <2>2. /\ Precedes(r, s) => Cardinality(Ahead(S, r)) < Cardinality(Ahead(S, s))
        /\ Precedes(s, r) => Cardinality(Ahead(S, s)) < Cardinality(Ahead(S, r))
    BY RanksGrow
  <2>3. Cardinality(Ahead(S, r)) \in Nat
    BY AheadIsFinite
  <2> QED  BY <2>1, <2>2, <2>3, PlacesAreOrdered
<1> HIDE DEF f
<1>4. f \in Injection(S, T)
  BY <1>2, <1>3 DEF Injection, IsInjective
<1>5. IsFiniteSet(T) /\ Cardinality(T) = N
  <2>1. 0 \in Int /\ N - 1 \in Int
    BY <1>1
  <2>2. IsFiniteSet(T) /\ Cardinality(T) = IF 0 > N - 1 THEN 0 ELSE (N - 1) - 0 + 1
    BY <2>1, FS_Interval
  <2> HIDE DEF N, T
  <2> QED  BY <1>1, <2>2
<1>6. f \in Surjection(S, T)
  BY <1>1, <1>4, <1>5, FS_Injection
<1>7. n - 1 \in T
  BY <1>1
<1>8. PICK r \in S : f[r] = n - 1
  BY <1>6, <1>7 DEF Surjection
<1> QED  BY <1>8 DEF f

LEMMA OrderExists ==
  ASSUME NEW S \in SUBSET Rows, ValuesTyped
  PROVE  \E rows \in SetToSeqs(S) : InPlace(rows)
<1> DEFINE N == Cardinality(S)
           ranked(n) == CHOOSE r \in S : Cardinality(Ahead(S, r)) = n - 1
           rows == [n \in 1..N |-> ranked(n)]
<1>1. N \in Nat
  BY PagingAssumption, FS_Subset, FS_CardinalityType
<1>2. \A n \in 1..N : ranked(n) \in S /\ Cardinality(Ahead(S, ranked(n))) = n - 1
  BY RankTaken
<1> HIDE DEF ranked
<1>3. rows \in [1..N -> S]
  BY <1>2
<1>4. \A n \in 1..N : rows[n] \in S /\ Cardinality(Ahead(S, rows[n])) = n - 1
  BY <1>2
<1>5. DOMAIN rows = 1..N
  OBVIOUS
<1> HIDE DEF rows
<1>6. ASSUME NEW i \in 1..N, NEW j \in 1..N, i < j
      PROVE  Precedes(rows[i], rows[j])
  <2>1. rows[i] \in S /\ rows[j] \in S
    BY <1>4
  <2>2. Cardinality(Ahead(S, rows[i])) = i - 1 /\ Cardinality(Ahead(S, rows[j])) = j - 1
    BY <1>4
  <2>3. rows[i] # rows[j]
    BY <1>1, <1>6, <2>2
  <2>4. CASE Precedes(rows[j], rows[i])
    <3>1. Cardinality(Ahead(S, rows[j])) < Cardinality(Ahead(S, rows[i]))
      BY <2>1, <2>4, RanksGrow
    <3> QED  BY <1>1, <1>6, <2>2, <3>1
  <2> QED  BY <2>1, <2>3, <2>4, PlacesAreOrdered
<1>7. InPlace(rows)
  BY <1>5, <1>6 DEF InPlace, Precedes
<1>8. \A i, j \in 1..N : i # j => rows[i] # rows[j]
  <2> SUFFICES ASSUME NEW i \in 1..N, NEW j \in 1..N, i < j, rows[i] = rows[j]
               PROVE  FALSE
    BY <1>1
  <2> QED  BY <1>4, <1>6, PlacesAreOrdered
<1>9. rows \in SetToSeqs(S)
  BY <1>3, <1>8 DEF SetToSeqs
<1> QED  BY <1>7, <1>9

\* ORDER BY: every row once, in its place.
LEMMA OrderedRows ==
  ASSUME NEW S \in SUBSET Rows, ValuesTyped
  PROVE  /\ Cardinality(S) \in Nat
         /\ Ordered(S) \in [1..Cardinality(S) -> S]
         /\ \A i, j \in 1..Cardinality(S) : i < j => Precedes(Ordered(S)[i], Ordered(S)[j])
         /\ \A r \in S : \E i \in 1..Cardinality(S) : Ordered(S)[i] = r
<1> DEFINE N == Cardinality(S)
           rows == Ordered(S)
<1>1. IsFiniteSet(S) /\ N \in Nat
  BY PagingAssumption, FS_Subset, FS_CardinalityType
<1>2. rows \in SetToSeqs(S) /\ InPlace(rows)
  BY OrderExists DEF Ordered
<1> HIDE DEF rows
<1>3. rows \in [1..N -> S] /\ \A i, j \in 1..N : i # j => rows[i] # rows[j]
  BY <1>2 DEF SetToSeqs
<1>4. \A i, j \in 1..N : i < j => Precedes(rows[i], rows[j])
  BY <1>2, <1>3 DEF InPlace, Precedes
<1>5. IsFiniteSet(1..N) /\ Cardinality(1..N) = N
  <2>1. 1 \in Int /\ N \in Int
    BY <1>1
  <2>2. IsFiniteSet(1..N) /\ Cardinality(1..N) = IF 1 > N THEN 0 ELSE N - 1 + 1
    BY <2>1, FS_Interval
  <2> HIDE DEF N
  <2> QED  BY <1>1, <2>2
<1>6. rows \in Injection(1..N, S)
  BY <1>3 DEF Injection, IsInjective
<1>7. rows \in Surjection(1..N, S)
  BY <1>1, <1>5, <1>6, FS_Injection
<1>8. \A r \in S : \E i \in 1..N : rows[i] = r
  BY <1>7 DEF Surjection
<1> QED  BY <1>1, <1>3, <1>4, <1>8 DEF rows

-----------------------------------------------------------------------------
(* What a page has.                                                        *)

\* With the values v: r comes after a cursor; a cursor comes after another.
Beyond(v, from, r) ==
  from.at = "start" \/ (from.at = "row" /\ Before(from.value, from.row, v[r], r))

Further(from, to) ==
  \/ to.at = "end"
  \/ /\ to.at = "row"
     /\ from.at = "start" \/ (from.at = "row" /\ Before(from.value, from.row, to.value, to.row))

\* The rows between two cursors, of those that keep their place: each is there, no
\* other is, and they are in order.
Covers(v, kept, listed, from, rows, to) ==
  /\ Further(from, to)
  /\ \A r \in kept : r \in ToSet(rows) <=> r \in listed /\ Beyond(v, from, r) /\ ~Beyond(v, to, r)
  /\ \A i, j \in DOMAIN rows :
       i < j /\ rows[i] \in kept /\ rows[j] \in kept => Before(v[rows[i]], rows[i], v[rows[j]], rows[j])

LEMMA PageIsRight ==
  ASSUME ValuesTyped, NEW f \in Filters, NEW after \in Cursor, after.at # "end"
  PROVE  LET got == PageOf(Resumes(f, after))
         IN  /\ got.rows \in Seq(Rows) /\ got.next \in Cursor
             /\ got.next = AtEnd \/ got.next.at = "row"
             /\ Covers(value, Rows, Listed(f), after, got.rows, got.next)
<1> DEFINE S == Resumes(f, after)
           N == Cardinality(S)
           k == IF N < PageSize THEN N ELSE PageSize
           o == Ordered(S)
           rows == SubSeq(o, 1, k)
           next == IF N > PageSize THEN Place(Last(rows)) ELSE AtEnd
<1>1. S \in SUBSET Rows /\ Listed(f) \subseteq Rows
  BY PagingAssumption DEF Resumes, Listed
<1>2. /\ N \in Nat /\ o \in [1..N -> S]
      /\ \A i, j \in 1..N : i < j => Precedes(o[i], o[j])
      /\ \A r \in S : \E i \in 1..N : o[i] = r
  BY <1>1, OrderedRows
<1>3. PageSize \in Nat \ {0}
  BY PagingAssumption
<1>4. k \in Nat /\ k <= N /\ (N > PageSize => k = PageSize /\ k # 0) /\ (~(N > PageSize) => k = N)
  BY <1>2, <1>3
<1>5. PageOf(S) = [rows |-> rows, next |-> next]
  BY DEF PageOf
<1>6. \A r \in Listed(f) : r \in S <=> Beyond(value, after, r)
  BY DEF Resumes, Beyond, Cursor
<1>7. S \subseteq Listed(f)
  BY DEF Resumes
<1> HIDE DEF S, N, k, o
<1>8. o \in Seq(S) /\ Len(o) = N
  BY <1>2
<1>9. /\ rows \in Seq(S) /\ Len(rows) = k /\ DOMAIN rows = 1..k
      /\ \A i \in 1..k : rows[i] = o[i]
  BY <1>2, <1>4, <1>8
<1> HIDE DEF rows
<1>10. rows \in Seq(Rows)
  BY <1>1, <1>9
<1>11. CASE N > PageSize
  <2>1. k \in 1..N /\ Last(rows) = o[k] /\ o[k] \in S /\ o[k] \in Rows
    BY <1>1, <1>2, <1>4, <1>9, <1>11 DEF Last
  <2>2. o[k] \in Nat /\ value[o[k]] \in Nat
    BY <2>1, PlacesAreOrdered
  <2>3. next = [at |-> "row", value |-> value[o[k]], row |-> o[k]]
    BY <1>11, <2>1 DEF Place
  <2>4. next \in Cursor /\ next.at = "row" /\ next.value = value[o[k]] /\ next.row = o[k]
    BY <2>2, <2>3 DEF Cursor
  <2> HIDE DEF next
  <2>5. \A r \in Rows : Beyond(value, next, r) <=> Precedes(o[k], r)
    BY <2>4 DEF Beyond, Precedes
  <2>6. Further(after, next)
    <3>1. Beyond(value, after, o[k])
      BY <2>1, <1>6, <1>7
    <3> QED  BY <3>1, <2>4 DEF Further, Beyond
  <2>7. ASSUME NEW r \in Rows
        PROVE  r \in ToSet(rows) <=> r \in Listed(f) /\ Beyond(value, after, r) /\ ~Beyond(value, next, r)
    <3>1. ASSUME r \in ToSet(rows)
          PROVE  r \in Listed(f) /\ Beyond(value, after, r) /\ ~Beyond(value, next, r)
      <4>1. PICK i \in 1..k : rows[i] = r
        BY <3>1, <1>9 DEF ToSet
      <4>2. o[i] = r /\ i \in 1..N /\ i <= k
        BY <4>1, <1>2, <1>4, <1>9
      <4>3. r \in S
        BY <4>2, <1>2
      <4>4. ~Precedes(o[k], r)
        <5>1. CASE i = k
          BY <5>1, <4>2, PlacesAreOrdered
        <5>2. CASE i # k
          <6>1. i < k
            BY <5>2, <4>2, <1>4
          <6>2. Precedes(r, o[k])
            BY <6>1, <4>2, <2>1, <1>2
          <6> QED  BY <6>2, <2>1, PlacesAreOrdered
        <5> QED  BY <5>1, <5>2
      <4> QED  BY <4>3, <4>4, <2>5, <1>6, <1>7
    <3>2. ASSUME r \in Listed(f), Beyond(value, after, r), ~Beyond(value, next, r)
          PROVE  r \in ToSet(rows)
      <4>1. r \in S
        BY <3>2, <1>6
      <4>2. PICK i \in 1..N : o[i] = r
        BY <4>1, <1>2
      <4>3. ~(k < i)
        BY <4>2, <3>2, <2>1, <2>5, <1>2
      <4>4. i \in 1..k
        BY <4>3, <4>2, <1>2, <1>4
      <4> QED  BY <4>2, <4>4, <1>9 DEF ToSet
    <3> QED  BY <3>1, <3>2
  <2>8. ASSUME NEW i \in DOMAIN rows, NEW j \in DOMAIN rows, i < j
        PROVE  Precedes(rows[i], rows[j])
    BY <2>8, <1>2, <1>4, <1>9
  <2>9. Covers(value, Rows, Listed(f), after, rows, next)
    BY <2>6, <2>7, <2>8 DEF Covers, Precedes
  <2> QED  BY <1>5, <1>10, <2>4, <2>9 DEF S
<1>12. CASE ~(N > PageSize)
  <2>1. next = AtEnd /\ k = N
    BY <1>12, <1>4
  <2>2. AtEnd \in Cursor /\ AtEnd.at = "end"
    BY DEF AtEnd, Cursor
  <2> HIDE DEF next
  <2>3. \A r \in Rows : ~Beyond(value, next, r)
    BY <2>1, <2>2 DEF Beyond
  <2>4. Further(after, next)
    BY <2>1, <2>2 DEF Further
  <2>5. ASSUME NEW r \in Rows
        PROVE  r \in ToSet(rows) <=> r \in Listed(f) /\ Beyond(value, after, r) /\ ~Beyond(value, next, r)
    <3>1. r \in ToSet(rows) <=> \E i \in 1..N : o[i] = r
      BY <2>1, <1>9 DEF ToSet
    <3>2. r \in ToSet(rows) <=> r \in S
      BY <3>1, <1>2
    <3> QED  BY <3>2, <2>3, <1>6, <1>7
  <2>6. ASSUME NEW i \in DOMAIN rows, NEW j \in DOMAIN rows, i < j
        PROVE  Precedes(rows[i], rows[j])
    BY <2>6, <2>1, <1>2, <1>9
  <2>7. Covers(value, Rows, Listed(f), after, rows, next)
    BY <2>4, <2>5, <2>6 DEF Covers, Precedes
  <2> QED  BY <1>5, <1>10, <2>1, <2>2, <2>7 DEF S
<1> QED  BY <1>11, <1>12

\* What a page has of the rows that keep their place stays so, whatever else changes.
LEMMA KeptStayCovered ==
  ASSUME NEW v, NEW w, NEW K, NEW J \in SUBSET K, NEW L, NEW M, NEW from, NEW to, NEW rows,
         \A r \in J : w[r] = v[r] /\ (r \in M <=> r \in L),
         Covers(v, K, L, from, rows, to)
  PROVE  Covers(w, J, M, from, rows, to)
<1>1. Further(from, to)
  BY DEF Covers
<1>2. ASSUME NEW r \in J
      PROVE  r \in ToSet(rows) <=> r \in M /\ Beyond(w, from, r) /\ ~Beyond(w, to, r)
  BY DEF Covers, Beyond
<1>3. ASSUME NEW i \in DOMAIN rows, NEW j \in DOMAIN rows, i < j, rows[i] \in J, rows[j] \in J
      PROVE  Before(w[rows[i]], rows[i], w[rows[j]], rows[j])
  <2>1. Before(v[rows[i]], rows[i], v[rows[j]], rows[j])
    BY <1>3 DEF Covers
  <2>2. w[rows[i]] = v[rows[i]] /\ w[rows[j]] = v[rows[j]]
    BY <1>3
  <2> QED  BY <2>1, <2>2
<1> QED  BY <1>1, <1>2, <1>3 DEF Covers

LEMMA BeforeIsTransitive ==
  ASSUME NEW a \in Nat, NEW b \in Nat, NEW c \in Nat, NEW d \in Nat, NEW e \in Nat, NEW f \in Nat
  PROVE  /\ Before(a, b, c, d) /\ Before(c, d, e, f) => Before(a, b, e, f)
         /\ ~Before(c, d, a, b) /\ Before(c, d, e, f) => Before(a, b, e, f)
BY DEF Before

\* A page and the one after it.
LEMMA PagesJoin ==
  ASSUME NEW v, NEW K \in SUBSET Rows, \A r \in K : v[r] \in Nat, NEW L,
         NEW from \in Cursor, NEW mid \in Cursor, NEW to \in Cursor,
         NEW a \in Seq(Rows), NEW b \in Seq(Rows), mid.at = "row",
         Covers(v, K, L, from, a, mid), Covers(v, K, L, mid, b, to)
  PROVE  Covers(v, K, L, from, a \o b, to)
<1>1. /\ from.value \in Nat /\ from.row \in Nat /\ mid.value \in Nat /\ mid.row \in Nat
      /\ to.value \in Nat /\ to.row \in Nat
  BY DEF Cursor
<1>2. \A r \in K : r \in Nat /\ v[r] \in Nat
  BY PagingAssumption
<1>3. Further(from, mid) /\ Further(mid, to)
  BY DEF Covers
<1>4. Further(from, to)
  <2>1. CASE to.at = "end"
    BY <2>1 DEF Further
  <2>2. CASE to.at # "end"
    <3>1. to.at = "row" /\ Before(mid.value, mid.row, to.value, to.row)
      BY <2>2, <1>3 DEF Further
    <3>2. CASE from.at = "start"
      BY <3>1, <3>2 DEF Further
    <3>3. CASE from.at # "start"
      <4>1. from.at = "row" /\ Before(from.value, from.row, mid.value, mid.row)
        BY <3>3, <1>3 DEF Further
      <4>2. Before(from.value, from.row, to.value, to.row)
        BY <3>1, <4>1, <1>1, BeforeIsTransitive
      <4> QED  BY <3>1, <4>1, <4>2 DEF Further
    <3> QED  BY <3>2, <3>3
  <2> QED  BY <2>1, <2>2
<1>5. ASSUME NEW r \in K
      PROVE  /\ Beyond(v, to, r) => Beyond(v, mid, r)
             /\ Beyond(v, mid, r) => Beyond(v, from, r)
  <2>1. r \in Nat /\ v[r] \in Nat
    BY <1>2
  <2>2. ASSUME Beyond(v, to, r) PROVE Beyond(v, mid, r)
    <3>1. /\ to.at = "row" /\ Before(to.value, to.row, v[r], r)
          /\ Before(mid.value, mid.row, to.value, to.row)
      BY <2>2, <1>3 DEF Beyond, Further
    <3>2. Before(mid.value, mid.row, v[r], r)
      BY <3>1, <2>1, <1>1, BeforeIsTransitive
    <3> QED  BY <3>2 DEF Beyond
  <2>3. ASSUME Beyond(v, mid, r) PROVE Beyond(v, from, r)
    <3>1. Before(mid.value, mid.row, v[r], r)
      BY <2>3 DEF Beyond
    <3>2. CASE from.at = "start"
      BY <3>2 DEF Beyond
    <3>3. CASE from.at # "start"
      <4>1. from.at = "row" /\ Before(from.value, from.row, mid.value, mid.row)
        BY <3>3, <1>3 DEF Further
      <4>2. Before(from.value, from.row, v[r], r)
        BY <3>1, <4>1, <2>1, <1>1, BeforeIsTransitive
      <4> QED  BY <4>1, <4>2 DEF Beyond
    <3> QED  BY <3>2, <3>3
  <2> QED  BY <2>2, <2>3
<1> DEFINE c == a \o b
<1>6. /\ c \in Seq(Rows) /\ Len(c) = Len(a) + Len(b) /\ DOMAIN c = 1..(Len(a) + Len(b))
      /\ DOMAIN a = 1..Len(a) /\ DOMAIN b = 1..Len(b) /\ Len(a) \in Nat /\ Len(b) \in Nat
  OBVIOUS
<1>7. ASSUME NEW i \in DOMAIN c
      PROVE  \/ i \in DOMAIN a /\ c[i] = a[i]
             \/ i > Len(a) /\ i - Len(a) \in DOMAIN b /\ c[i] = b[i - Len(a)]
  OBVIOUS
<1>8. \A r : r \in ToSet(c) <=> r \in ToSet(a) \/ r \in ToSet(b)
  <2>1. ASSUME NEW r \in ToSet(c) PROVE r \in ToSet(a) \/ r \in ToSet(b)
    <3>1. PICK i \in DOMAIN c : c[i] = r
      BY DEF ToSet
    <3> HIDE DEF c
    <3> QED  BY <3>1, <1>7 DEF ToSet
  <2>2. ASSUME NEW r \in ToSet(a) PROVE r \in ToSet(c)
    <3>1. PICK i \in DOMAIN a : a[i] = r
      BY DEF ToSet
    <3>2. i \in DOMAIN c /\ c[i] = r
      BY <3>1
    <3> QED  BY <3>2 DEF ToSet
  <2>3. ASSUME NEW r \in ToSet(b) PROVE r \in ToSet(c)
    <3>1. PICK i \in DOMAIN b : b[i] = r
      BY DEF ToSet
    <3>2. i + Len(a) \in DOMAIN c /\ c[i + Len(a)] = r
      BY <3>1
    <3> QED  BY <3>2 DEF ToSet
  <2> QED  BY <2>1, <2>2, <2>3
<1> HIDE DEF c
<1>9. ASSUME NEW r \in K
      PROVE  r \in ToSet(c) <=> r \in L /\ Beyond(v, from, r) /\ ~Beyond(v, to, r)
  <2>1. r \in ToSet(a) <=> r \in L /\ Beyond(v, from, r) /\ ~Beyond(v, mid, r)
    BY DEF Covers
  <2>2. r \in ToSet(b) <=> r \in L /\ Beyond(v, mid, r) /\ ~Beyond(v, to, r)
    BY DEF Covers
  <2> QED  BY <2>1, <2>2, <1>5, <1>8
<1>10. ASSUME NEW i \in DOMAIN c, NEW j \in DOMAIN c, i < j, c[i] \in K, c[j] \in K
       PROVE  Before(v[c[i]], c[i], v[c[j]], c[j])
  <2>1. i \in Nat /\ j \in Nat
    BY <1>6
  <2>2. CASE j \in DOMAIN a /\ c[j] = a[j]
    <3>1. i \in DOMAIN a /\ c[i] = a[i]
      BY <2>1, <2>2, <1>6, <1>7, <1>10
    <3> QED  BY <2>2, <3>1, <1>10 DEF Covers
  <2>3. CASE j > Len(a) /\ j - Len(a) \in DOMAIN b /\ c[j] = b[j - Len(a)]
    <3>1. CASE i \in DOMAIN a /\ c[i] = a[i]
      <4>1. c[i] \in ToSet(a) /\ c[j] \in ToSet(b)
        BY <2>3, <3>1 DEF ToSet
      <4>2. ~Beyond(v, mid, c[i]) /\ Beyond(v, mid, c[j])
        BY <4>1, <1>10 DEF Covers
      <4>3. /\ ~Before(mid.value, mid.row, v[c[i]], c[i])
            /\ Before(mid.value, mid.row, v[c[j]], c[j])
        BY <4>2 DEF Beyond
      <4>4. c[i] \in Nat /\ c[j] \in Nat /\ v[c[i]] \in Nat /\ v[c[j]] \in Nat
        BY <1>2, <1>10
      <4> QED  BY <4>3, <4>4, <1>1, BeforeIsTransitive
    <3>2. CASE i > Len(a) /\ i - Len(a) \in DOMAIN b /\ c[i] = b[i - Len(a)]
      <4>1. i - Len(a) < j - Len(a)
        BY <2>1, <1>6, <1>10
      <4> QED  BY <2>3, <3>2, <4>1, <1>10 DEF Covers
    <3> QED  BY <3>1, <3>2, <1>7
  <2> QED  BY <2>2, <2>3, <1>7
<1> QED  BY <1>4, <1>9, <1>10 DEF Covers, c

-----------------------------------------------------------------------------
(* The invariant.                                                          *)

ListState ==
  [kind : {"loading", "error", "ready"}, filter : Filters, walk : Nat, shown : Seq(Rows),
   next : Cursor, loadingMore : BOOLEAN]

FetchState ==
  [walk : Nat, filter : Filters, after : Cursor, answered : BOOLEAN, rows : Seq(Rows), next : Cursor]

\* A list goes on from its start or from a row, and a page ends at a row or is the last.
Goes(cursor) == cursor = AtStart \/ cursor.at = "row"
Ends(cursor) == cursor = AtEnd \/ cursor.at = "row"

\* No fetch is of a list that is yet to be begun.
FetchesOfWalks ==
  /\ Ends(list.next)
  /\ \A q \in asked :
       /\ Goes(q.after) /\ Ends(q.next)
       /\ q.walk <= list.walk
       /\ q.walk = list.walk => q.filter = list.filter

\* The fetches that the list now waits for.
Current == {q \in asked : q.walk = list.walk}

\* What is shown, or is on its way, has what keeps its place, as far as it goes.
HasKept(from, rows, to) == Covers(value, steady, Listed(list.filter), from, rows, to)

WaitsForFirst ==
  list.kind = "loading" =>
    \A q \in Current : q.after = AtStart /\ (q.answered => HasKept(AtStart, q.rows, q.next))

ShowsKept ==
  list.kind = "ready" =>
    /\ HasKept(AtStart, list.shown, list.next)
    /\ \A q \in Current :
         /\ list.loadingMore
         /\ q.after = list.next /\ q.after.at = "row"
         /\ q.answered => HasKept(q.after, q.rows, q.next)

WaitsForOne ==
  /\ \A p, q \in Current : p = q
  /\ list.kind = "error" => Current = {}

PagingInv ==
  /\ PagingTypeOK /\ FetchesOfWalks
  /\ ~disturbed => WaitsForFirst /\ ShowsKept /\ WaitsForOne

LEMMA PagingIsTyped ==
  ASSUME PagingTypeOK
  PROVE  /\ ValuesTyped /\ list \in ListState /\ asked \subseteq FetchState
         /\ steady \subseteq Rows
         /\ \A r \in Rows : r \in Nat /\ value[r] \in Nat
<1>1. ValuesTyped /\ list \in ListState /\ asked \subseteq FetchState /\ steady \subseteq Rows
  BY DEF PagingTypeOK, ValuesTyped, ListState, FetchState
<1> QED  BY <1>1, PlacesAreOrdered

LEMMA CursorsTyped ==
  /\ AtStart \in Cursor /\ AtStart.at = "start"
  /\ AtEnd \in Cursor /\ AtEnd.at = "end"
BY DEF AtStart, AtEnd, Cursor

LEMMA FetchTyped ==
  ASSUME NEW f \in Filters, NEW n \in Nat, NEW after \in Cursor
  PROVE  /\ Fetch(f, n, after) \in FetchState
         /\ Fetch(f, n, after).walk = n /\ Fetch(f, n, after).filter = f
         /\ Fetch(f, n, after).after = after /\ Fetch(f, n, after).answered = FALSE
         /\ Fetch(f, n, after).next = AtEnd
<1>1. <<>> \in Seq(Rows)
  OBVIOUS
<1> QED  BY <1>1, CursorsTyped DEF Fetch, FetchState

LEMMA BlankTyped ==
  ASSUME NEW f \in Filters, NEW n \in Nat
  PROVE  /\ Blank(f, n) \in ListState
         /\ Blank(f, n).kind = "loading" /\ Blank(f, n).walk = n /\ Blank(f, n).filter = f
         /\ Blank(f, n).next = AtEnd
<1>1. <<>> \in Seq(Rows)
  OBVIOUS
<1> QED  BY <1>1, CursorsTyped DEF Blank, ListState

LEMMA PagingStarts == PagingInit => PagingInv
<1> SUFFICES ASSUME PagingInit PROVE PagingInv
  OBVIOUS
<1>1. PICK f \in Filters : list = Blank(f, 1) /\ asked = {Fetch(f, 1, AtStart)}
  BY DEF PagingInit
<1> DEFINE q == Fetch(f, 1, AtStart)
<1>2. /\ q \in FetchState /\ q.walk = 1 /\ q.filter = f /\ q.after = AtStart /\ q.answered = FALSE
      /\ q.next = AtEnd
  <2>1. 1 \in Nat /\ AtStart \in Cursor
    BY CursorsTyped
  <2>2. q \in FetchState
    BY <2>1, FetchTyped
  <2>3. /\ q.walk = 1 /\ q.filter = f /\ q.after = AtStart /\ q.next = AtEnd
        /\ q.answered = FALSE
    BY DEF Fetch
  <2> QED  BY <2>2, <2>3
<1>3. list \in ListState /\ list.kind = "loading" /\ list.walk = 1 /\ list.filter = f /\ list.next = AtEnd
  BY <1>1, BlankTyped
<1> HIDE DEF q
<1>4. asked = {q}
  BY <1>1 DEF q
<1>5. PagingTypeOK
  BY <1>2, <1>3, <1>4 DEF PagingInit, PagingTypeOK, ListState, FetchState
<1>6. FetchesOfWalks
  BY <1>2, <1>3, <1>4 DEF FetchesOfWalks, Goes, Ends
<1>7. WaitsForFirst /\ ShowsKept /\ WaitsForOne
  BY <1>2, <1>3, <1>4 DEF WaitsForFirst, ShowsKept, WaitsForOne, Current
<1> QED  BY <1>5, <1>6, <1>7 DEF PagingInv

-----------------------------------------------------------------------------
(* The steps.                                                              *)

LEMMA ServedFetch ==
  ASSUME PagingInv, NEW q \in asked, ServePage(q)
  PROVE  \E p \in FetchState :
           /\ asked' = (asked \ {q}) \cup {p}
           /\ p.walk = q.walk /\ p.filter = q.filter /\ p.after = q.after /\ Ends(p.next)
           /\ Covers(value, Rows, Listed(q.filter), q.after, p.rows, p.next)
<1> DEFINE got == PageOf(Resumes(q.filter, q.after))
           p == [q EXCEPT !.answered = TRUE, !.rows = got.rows, !.next = got.next]
<1>1. q \in FetchState /\ ValuesTyped
  BY PagingIsTyped DEF PagingInv
<1>2. q.filter \in Filters /\ q.after \in Cursor /\ q.after.at # "end"
  BY <1>1, CursorsTyped DEF FetchState, PagingInv, FetchesOfWalks, Goes
<1>3. /\ got.rows \in Seq(Rows) /\ got.next \in Cursor
      /\ got.next = AtEnd \/ got.next.at = "row"
      /\ Covers(value, Rows, Listed(q.filter), q.after, got.rows, got.next)
  BY <1>1, <1>2, PageIsRight
<1>4. asked' = (asked \ {q}) \cup {p}
  BY DEF ServePage
<1> HIDE DEF got
<1>5. /\ p \in FetchState /\ p.walk = q.walk /\ p.filter = q.filter /\ p.after = q.after
      /\ p.rows = got.rows /\ p.next = got.next
  BY <1>1, <1>3 DEF FetchState
<1> HIDE DEF p
<1>6. Ends(p.next)
  BY <1>3, <1>5 DEF Ends
<1>7. Covers(value, Rows, Listed(q.filter), q.after, p.rows, p.next)
  BY <1>3, <1>5
<1> QED  BY <1>4, <1>5, <1>6, <1>7

LEMMA ServePageKeeps ==
  ASSUME PagingInv, NEW q \in asked, ServePage(q)
  PROVE  PagingInv'
<1>1. PICK p \in FetchState :
        /\ asked' = (asked \ {q}) \cup {p}
        /\ p.walk = q.walk /\ p.filter = q.filter /\ p.after = q.after /\ Ends(p.next)
        /\ Covers(value, Rows, Listed(q.filter), q.after, p.rows, p.next)
  BY ServedFetch
<1>2. /\ UNCHANGED <<value, list, disturbed, changes>>
      /\ steady' = IF q.walk = list.walk /\ q.after = AtStart THEN Rows ELSE steady
  BY DEF ServePage
<1>3. asked \subseteq FetchState /\ steady \subseteq Rows /\ steady' \subseteq Rows /\ PagingTypeOK
  BY <1>2, PagingIsTyped DEF PagingInv
<1>4. PagingTypeOK'
  BY <1>1, <1>2, <1>3 DEF PagingTypeOK, FetchState
<1>5. FetchesOfWalks'
  BY <1>1, <1>2 DEF PagingInv, FetchesOfWalks, Goes, Ends
<1>6. ASSUME ~disturbed
      PROVE  (WaitsForFirst /\ ShowsKept /\ WaitsForOne)'
  <2>1. WaitsForFirst /\ ShowsKept /\ WaitsForOne
    BY <1>6 DEF PagingInv
  <2>2. CASE q.walk # list.walk
    <3>1. Current' = Current /\ steady' = steady
      BY <2>2, <1>1, <1>2 DEF Current
    <3> QED
      BY <3>1, <2>1, <1>2
         DEF WaitsForFirst, ShowsKept, WaitsForOne, HasKept, Covers, Beyond, Listed
  <2>3. CASE q.walk = list.walk
    <3>1. q \in Current /\ Current = {q}
      BY <2>1, <2>3 DEF Current, WaitsForOne
    <3>2. Current' = {p}
      BY <2>3, <3>1, <1>1, <1>2 DEF Current
    <3>3. q.filter = list.filter
      BY <2>3 DEF PagingInv, FetchesOfWalks
    <3>4. Covers(value, steady', Listed(list.filter), q.after, p.rows, p.next)
      BY <1>1, <1>3, <3>3, KeptStayCovered
    <3>5. list.kind # "error"
      BY <2>1, <3>1 DEF WaitsForOne
    <3>6. HasKept(q.after, p.rows, p.next)'
      <4>1. Listed(list.filter)' = Listed(list.filter)
        BY <1>2 DEF Listed
      <4> QED  BY <3>4, <4>1, <1>2, <1>1 DEF HasKept, Covers, Beyond
    <3>7. CASE list.kind = "loading"
      <4>1. q.after = AtStart
        BY <2>1, <3>1, <3>7 DEF WaitsForFirst
      <4>2. WaitsForFirst'
        BY <3>2, <3>6, <4>1, <1>1 DEF WaitsForFirst, HasKept
      <4>3. ShowsKept' /\ WaitsForOne'
        BY <3>2, <3>7, <1>2 DEF ShowsKept, WaitsForOne
      <4> QED  BY <4>2, <4>3
    <3>8. CASE list.kind = "ready"
      <4>1. /\ HasKept(AtStart, list.shown, list.next)
            /\ list.loadingMore /\ q.after = list.next /\ q.after.at = "row"
        BY <2>1, <3>1, <3>8 DEF ShowsKept
      <4>2. steady' = steady
        BY <4>1, <1>2, CursorsTyped
      <4>3. HasKept(AtStart, list.shown, list.next)'
        BY <4>1, <4>2, <1>2 DEF HasKept, Covers, Beyond, Listed
      <4>4. ShowsKept'
        BY <3>2, <3>6, <4>1, <4>3, <1>1, <1>2 DEF ShowsKept, HasKept
      <4>5. WaitsForFirst' /\ WaitsForOne'
        BY <3>2, <3>8, <1>2 DEF WaitsForFirst, WaitsForOne
      <4> QED  BY <4>4, <4>5
    <3> QED  BY <3>5, <3>7, <3>8, <1>3 DEF PagingTypeOK
  <2> QED  BY <2>2, <2>3
<1> QED  BY <1>2, <1>4, <1>5, <1>6 DEF PagingInv

LEMMA ChangeRowKeeps ==
  ASSUME PagingInv, NEW r \in Rows, NEW v \in Values \cup {Gone}, ChangeRow(r, v)
  PROVE  PagingInv'
<1>1. /\ value' = [value EXCEPT ![r] = v] /\ steady' = steady \ {r} /\ changes' = changes + 1
      /\ UNCHANGED <<list, asked, disturbed>>
  BY DEF ChangeRow
<1>2. PagingTypeOK /\ steady \subseteq Rows /\ ValuesTyped
  BY PagingIsTyped DEF PagingInv
<1>3. PagingTypeOK'
  BY <1>1, <1>2 DEF PagingTypeOK
<1>4. FetchesOfWalks' /\ Current' = Current
  BY <1>1 DEF PagingInv, FetchesOfWalks, Goes, Ends, Current
<1> DEFINE L == Listed(list.filter)
           M == L'
<1>5. \A s \in steady' : value'[s] = value[s] /\ (s \in M <=> s \in L)
  BY <1>1, <1>2 DEF ValuesTyped, Listed
<1>6. steady' \in SUBSET steady
  BY <1>1
<1> HIDE DEF L, M
<1>7. ASSUME NEW from, NEW rows, NEW to, Covers(value, steady, L, from, rows, to)
      PROVE  Covers(value', steady', M, from, rows, to)
  BY <1>5, <1>6, <1>7, KeptStayCovered
<1>8. ASSUME ~disturbed
      PROVE  (WaitsForFirst /\ ShowsKept /\ WaitsForOne)'
  <2>1. WaitsForFirst /\ ShowsKept /\ WaitsForOne
    BY <1>8 DEF PagingInv
  <2>2. WaitsForOne'
    BY <2>1, <1>1, <1>4 DEF WaitsForOne
  <2>3. WaitsForFirst'
    <3> SUFFICES ASSUME list.kind = "loading", NEW q \in Current
                 PROVE  q.after = AtStart /\ (q.answered => Covers(value', steady', M, AtStart, q.rows, q.next))
      BY <1>1, <1>4 DEF WaitsForFirst, HasKept, L, M
    <3>1. q.after = AtStart /\ (q.answered => Covers(value, steady, L, AtStart, q.rows, q.next))
      BY <2>1 DEF WaitsForFirst, HasKept, L
    <3> QED  BY <3>1, <1>7
  <2>4. ShowsKept'
    <3> SUFFICES ASSUME list.kind = "ready"
                 PROVE  /\ Covers(value', steady', M, AtStart, list.shown, list.next)
                        /\ \A q \in Current :
                             /\ list.loadingMore
                             /\ q.after = list.next /\ q.after.at = "row"
                             /\ q.answered => Covers(value', steady', M, q.after, q.rows, q.next)
      BY <1>1, <1>4 DEF ShowsKept, HasKept, L, M
    <3>1. /\ Covers(value, steady, L, AtStart, list.shown, list.next)
          /\ \A q \in Current :
               /\ list.loadingMore
               /\ q.after = list.next /\ q.after.at = "row"
               /\ q.answered => Covers(value, steady, L, q.after, q.rows, q.next)
      BY <2>1 DEF ShowsKept, HasKept, L
    <3> QED  BY <3>1, <1>7
  <2> QED  BY <2>2, <2>3, <2>4
<1> QED  BY <1>1, <1>3, <1>4, <1>8 DEF PagingInv

LEMMA LoadKeeps ==
  ASSUME PagingInv, NEW f \in Filters, Load(f)
  PROVE  PagingInv'
<1> DEFINE n == list.walk + 1
           q == Fetch(f, n, AtStart)
           b == Blank(f, n)
<1>1. PagingTypeOK /\ list \in ListState /\ asked \subseteq FetchState
  BY PagingIsTyped DEF PagingInv
<1>2. n \in Nat /\ list.walk \in Nat /\ list.loadingMore \in BOOLEAN /\ AtStart \in Cursor
  BY <1>1, CursorsTyped DEF ListState
<1>3. /\ list' = [b EXCEPT !.loadingMore = list.loadingMore]
      /\ asked' = asked \cup {q} /\ steady' = {} /\ UNCHANGED <<value, changes>>
      /\ disturbed' = FALSE
  BY DEF Load
<1>4. n > list.walk /\ \A p \in asked : p.walk <= list.walk
  BY <1>2 DEF PagingInv, FetchesOfWalks
<1> HIDE DEF n
<1>5. /\ q \in FetchState /\ q.walk = n /\ q.filter = f /\ q.after = AtStart
      /\ q.answered = FALSE /\ q.next = AtEnd
  <2>1. q \in FetchState
    BY <1>2, FetchTyped
  <2>2. /\ q.walk = n /\ q.filter = f /\ q.after = AtStart
        /\ q.answered = FALSE /\ q.next = AtEnd
    BY DEF Fetch
  <2> QED  BY <2>1, <2>2
<1>6. b \in ListState /\ b.kind = "loading" /\ b.walk = n /\ b.filter = f /\ b.next = AtEnd
  BY <1>2, BlankTyped
<1> HIDE DEF q, b
<1>7. /\ list' \in ListState /\ list'.kind = "loading" /\ list'.walk = n /\ list'.filter = f
      /\ list'.next = AtEnd
  BY <1>2, <1>3, <1>6 DEF ListState
<1>8. PagingTypeOK'
  BY <1>1, <1>3, <1>5, <1>7 DEF PagingTypeOK, ListState, FetchState
<1>9. \A p \in asked : p.walk \in Nat /\ p.walk < n
  BY <1>1, <1>2, <1>4 DEF FetchState, n
<1>10. FetchesOfWalks'
  BY <1>2, <1>3, <1>5, <1>7, <1>9 DEF PagingInv, FetchesOfWalks, Goes, Ends
<1>11. Current' = {q}
  BY <1>2, <1>3, <1>5, <1>7, <1>9 DEF Current
<1>12. WaitsForFirst' /\ ShowsKept' /\ WaitsForOne'
  BY <1>5, <1>7, <1>11 DEF WaitsForFirst, ShowsKept, WaitsForOne
<1> QED  BY <1>8, <1>10, <1>12 DEF PagingInv

LEMMA LoadMoreKeeps ==
  ASSUME PagingInv, LoadMore
  PROVE  PagingInv'
<1> DEFINE q == Fetch(list.filter, list.walk, list.next)
<1>1. PagingTypeOK /\ list \in ListState /\ asked \subseteq FetchState
  BY PagingIsTyped DEF PagingInv
<1>2. list.filter \in Filters /\ list.walk \in Nat /\ list.next \in Cursor /\ list.next.at = "row"
  BY <1>1 DEF ListState, LoadMore, PagingInv, FetchesOfWalks, Ends
<1>3. /\ list.kind = "ready" /\ ~list.loadingMore
      /\ list' = [list EXCEPT !.loadingMore = TRUE]
      /\ asked' = asked \cup {q}
      /\ UNCHANGED <<value, steady, disturbed, changes>>
  BY DEF LoadMore
<1>4. /\ q \in FetchState /\ q.walk = list.walk /\ q.filter = list.filter /\ q.after = list.next
      /\ q.answered = FALSE /\ q.next = AtEnd
  <2>1. q \in FetchState
    BY <1>2, FetchTyped
  <2>2. /\ q.walk = list.walk /\ q.filter = list.filter /\ q.after = list.next
        /\ q.answered = FALSE /\ q.next = AtEnd
    BY DEF Fetch
  <2> QED  BY <2>1, <2>2
<1> HIDE DEF q
<1>5. /\ list' \in ListState /\ list'.kind = "ready" /\ list'.walk = list.walk
      /\ list'.filter = list.filter /\ list'.shown = list.shown /\ list'.next = list.next
      /\ list'.loadingMore = TRUE
  BY <1>1, <1>3 DEF ListState
<1>6. PagingTypeOK'
  BY <1>1, <1>3, <1>4, <1>5 DEF PagingTypeOK, ListState, FetchState
<1>7. FetchesOfWalks'
  BY <1>2, <1>3, <1>4, <1>5 DEF PagingInv, FetchesOfWalks, Goes, Ends
<1>8. ASSUME ~disturbed
      PROVE  (WaitsForFirst /\ ShowsKept /\ WaitsForOne)'
  <2>1. HasKept(AtStart, list.shown, list.next) /\ Current = {}
    BY <1>3, <1>8 DEF PagingInv, ShowsKept
  <2>2. Current' = {q}
    BY <2>1, <1>3, <1>4, <1>5 DEF Current
  <2>3. HasKept(AtStart, list.shown, list.next)'
    BY <2>1, <1>3, <1>5 DEF HasKept, Covers, Beyond, Listed
  <2>4. ShowsKept'
    BY <2>2, <2>3, <1>2, <1>4, <1>5 DEF ShowsKept
  <2>5. WaitsForFirst' /\ WaitsForOne'
    BY <2>2, <1>5 DEF WaitsForFirst, WaitsForOne
  <2> QED  BY <2>4, <2>5
<1> QED  BY <1>3, <1>6, <1>7, <1>8 DEF PagingInv

\* When an answer is heard, undisturbed, it was the one that was waited for.
LEMMA HeardWasAwaited ==
  ASSUME PagingInv, NEW q \in asked, Heard(q), ~disturbed', list'.walk = list.walk
  PROVE  /\ ~disturbed /\ q \in Current /\ Current' = {}
         /\ WaitsForFirst /\ ShowsKept /\ WaitsForOne
<1>1. ~disturbed /\ q.walk = list.walk /\ asked' = asked \ {q}
  BY DEF Heard, PagingInv, PagingTypeOK
<1>2. WaitsForFirst /\ ShowsKept /\ WaitsForOne
  BY <1>1 DEF PagingInv
<1>3. q \in Current
  BY <1>1 DEF Current
<1>4. Current' = {}
  BY <1>1, <1>2, <1>3 DEF Current, WaitsForOne
<1> QED  BY <1>1, <1>2, <1>3, <1>4

LEMMA HeardIsTyped ==
  ASSUME PagingInv, NEW q \in asked, Heard(q), list' \in ListState, list'.walk = list.walk,
         list'.filter = list.filter, Ends(list'.next), UNCHANGED <<value, steady, changes>>
  PROVE  PagingTypeOK' /\ FetchesOfWalks'
<1>1. asked' \subseteq asked /\ disturbed' \in BOOLEAN
  BY DEF Heard, PagingInv, PagingTypeOK
<1>2. PagingTypeOK'
  BY <1>1 DEF PagingInv, PagingTypeOK, ListState
<1>3. FetchesOfWalks'
  BY <1>1 DEF PagingInv, FetchesOfWalks, Ends
<1> QED  BY <1>2, <1>3

LEMMA ShowFirstKeeps ==
  ASSUME PagingInv, NEW q \in asked, HearPage(q), ShowFirst(q)
  PROVE  PagingInv'
<1>1. PagingTypeOK /\ list \in ListState /\ q \in FetchState
  BY PagingIsTyped DEF PagingInv
<1>2. /\ q.answered /\ Heard(q) /\ UNCHANGED <<value, steady, changes>>
      /\ q.after = AtStart
      /\ list' = [list EXCEPT !.kind = "ready", !.shown = q.rows, !.next = q.next]
  BY DEF HearPage, ShowFirst
<1>3. q.rows \in Seq(Rows) /\ q.next \in Cursor
  BY <1>1 DEF FetchState
<1>4. /\ list' \in ListState /\ list'.kind = "ready" /\ list'.walk = list.walk
      /\ list'.filter = list.filter /\ list'.shown = q.rows /\ list'.next = q.next
  BY <1>1, <1>2, <1>3 DEF ListState
<1>5. Ends(q.next)
  BY DEF PagingInv, FetchesOfWalks
<1>6. PagingTypeOK' /\ FetchesOfWalks'
  BY <1>2, <1>4, <1>5, HeardIsTyped
<1>7. ASSUME ~disturbed'
      PROVE  (WaitsForFirst /\ ShowsKept /\ WaitsForOne)'
  <2>1. /\ q \in Current /\ Current' = {}
        /\ WaitsForFirst /\ ShowsKept /\ WaitsForOne
    BY <1>2, <1>4, <1>7, HeardWasAwaited
  <2>2. list.kind = "loading"
    <3>1. list.kind \in {"loading", "error", "ready"}
      BY <1>1 DEF ListState
    <3>2. list.kind # "error"
      BY <2>1 DEF WaitsForOne
    <3>3. list.kind # "ready"
      BY <2>1, <1>2, CursorsTyped DEF ShowsKept
    <3> QED  BY <3>1, <3>2, <3>3
  <2>3. HasKept(AtStart, q.rows, q.next)
    BY <2>1, <2>2, <1>2 DEF WaitsForFirst
  <2>4. HasKept(AtStart, list.shown, list.next)'
    BY <2>3, <1>2, <1>4 DEF HasKept, Covers, Beyond, Listed
  <2>5. ShowsKept'
    BY <2>1, <2>4 DEF ShowsKept
  <2>6. WaitsForFirst' /\ WaitsForOne'
    BY <2>1, <1>4 DEF WaitsForFirst, WaitsForOne
  <2> QED  BY <2>5, <2>6
<1> QED  BY <1>6, <1>7 DEF PagingInv

LEMMA ShowMoreKeeps ==
  ASSUME PagingInv, NEW q \in asked, HearPage(q), ShowMore(q)
  PROVE  PagingInv'
<1>1. /\ PagingTypeOK /\ list \in ListState /\ q \in FetchState /\ steady \subseteq Rows
      /\ \A r \in Rows : value[r] \in Nat
  BY PagingIsTyped DEF PagingInv
<1>2. /\ q.answered /\ Heard(q) /\ UNCHANGED <<value, steady, changes>>
      /\ q.after # AtStart
  BY DEF HearPage, ShowMore
<1>3. /\ q.rows \in Seq(Rows) /\ q.next \in Cursor
      /\ list.shown \in Seq(Rows) /\ list.next \in Cursor
  BY <1>1 DEF FetchState, ListState
<1>4. list.shown \o q.rows \in Seq(Rows)
  BY <1>3
<1>5. Ends(q.next) /\ Ends(list.next)
  BY DEF PagingInv, FetchesOfWalks
<1>6. CASE list.kind = "ready"
  <2> DEFINE both == list.shown \o q.rows
  <2>1. list' = [list EXCEPT !.shown = both, !.next = q.next, !.loadingMore = FALSE]
    BY <1>6 DEF ShowMore
  <2>2. both \in Seq(Rows)
    BY <1>4
  <2> HIDE DEF both
  <2>3. /\ list' \in ListState /\ list'.kind = "ready" /\ list'.walk = list.walk
        /\ list'.filter = list.filter /\ list'.shown = both /\ list'.next = q.next
    BY <2>1, <2>2, <1>1, <1>3, <1>6 DEF ListState
  <2>4. PagingTypeOK' /\ FetchesOfWalks'
    BY <2>3, <1>2, <1>5, HeardIsTyped
  <2>5. ASSUME ~disturbed'
        PROVE  (WaitsForFirst /\ ShowsKept /\ WaitsForOne)'
    <3>1. /\ q \in Current /\ Current' = {} /\ ShowsKept
      BY <2>3, <2>5, <1>2, HeardWasAwaited
    <3>2. /\ HasKept(AtStart, list.shown, list.next)
          /\ q.after = list.next /\ list.next.at = "row"
          /\ HasKept(list.next, q.rows, q.next)
      BY <3>1, <1>2, <1>6 DEF ShowsKept
    <3>3. \A r \in steady : value[r] \in Nat
      BY <1>1
    <3>4. Covers(value, steady, Listed(list.filter), AtStart, both, q.next)
      BY <3>2, <3>3, <1>1, <1>3, CursorsTyped, PagesJoin DEF HasKept, both
    <3>5. HasKept(AtStart, list.shown, list.next)'
      BY <3>4, <2>3, <1>2 DEF HasKept, Covers, Beyond, Listed
    <3>6. ShowsKept'
      BY <3>1, <3>5 DEF ShowsKept
    <3>7. WaitsForFirst' /\ WaitsForOne'
      BY <3>1, <2>3 DEF WaitsForFirst, WaitsForOne
    <3> QED  BY <3>6, <3>7
  <2> QED  BY <2>4, <2>5 DEF PagingInv
<1>7. CASE list.kind # "ready"
  <2>1. list' = [list EXCEPT !.loadingMore = FALSE]
    BY <1>7 DEF ShowMore
  <2>2. /\ list' \in ListState /\ list'.kind = list.kind /\ list'.walk = list.walk
        /\ list'.filter = list.filter /\ list'.next = list.next
    BY <2>1, <1>1 DEF ListState
  <2>3. PagingTypeOK' /\ FetchesOfWalks'
    BY <2>2, <1>2, <1>5, HeardIsTyped
  <2>4. disturbed'
    <3> SUFFICES ASSUME ~disturbed' PROVE FALSE
      OBVIOUS
    <3>1. q \in Current /\ WaitsForFirst /\ WaitsForOne
      BY <2>2, <1>2, HeardWasAwaited
    <3>2. list.kind = "loading" \/ list.kind = "error"
      BY <1>1, <1>7 DEF ListState
    <3> QED  BY <3>1, <3>2, <1>2 DEF WaitsForFirst, WaitsForOne
  <2> QED  BY <2>3, <2>4 DEF PagingInv
<1> QED  BY <1>6, <1>7

LEMMA FetchPageFailsKeeps ==
  ASSUME PagingInv, NEW q \in asked, FetchPageFails(q)
  PROVE  PagingInv'
<1>1. PagingTypeOK /\ list \in ListState /\ q \in FetchState
  BY PagingIsTyped DEF PagingInv
<1>2. Heard(q) /\ UNCHANGED <<value, steady, changes>>
  BY DEF FetchPageFails
<1>3. /\ list' \in ListState /\ list'.walk = list.walk
      /\ list'.filter = list.filter /\ list'.next = list.next /\ list'.shown = list.shown
      /\ list'.kind = IF q.after = AtStart THEN "error" ELSE list.kind
  <2>1. CASE q.after = AtStart
    <3>1. list' = [list EXCEPT !.kind = "error"]
      BY <2>1 DEF FetchPageFails
    <3> QED  BY <2>1, <3>1, <1>1 DEF ListState
  <2>2. CASE q.after # AtStart
    <3>1. list' = [list EXCEPT !.loadingMore = FALSE]
      BY <2>2 DEF FetchPageFails
    <3> QED  BY <2>2, <3>1, <1>1 DEF ListState
  <2> QED  BY <2>1, <2>2
<1>4. Ends(list'.next)
  BY <1>3 DEF PagingInv, FetchesOfWalks
<1>5. PagingTypeOK' /\ FetchesOfWalks'
  BY <1>2, <1>3, <1>4, HeardIsTyped
<1>6. ASSUME ~disturbed'
      PROVE  (WaitsForFirst /\ ShowsKept /\ WaitsForOne)'
  <2>1. /\ q \in Current /\ Current' = {}
        /\ WaitsForFirst /\ ShowsKept /\ WaitsForOne
    BY <1>2, <1>3, <1>6, HeardWasAwaited
  <2>2. WaitsForFirst' /\ WaitsForOne'
    BY <2>1 DEF WaitsForFirst, WaitsForOne
  <2>3. ShowsKept'
    <3>1. CASE list'.kind = "ready"
      <4>1. list.kind = "ready"
        BY <3>1, <1>3
      <4>2. HasKept(AtStart, list.shown, list.next)
        BY <4>1, <2>1 DEF ShowsKept
      <4>3. HasKept(AtStart, list.shown, list.next)'
        BY <4>2, <1>2, <1>3 DEF HasKept, Covers, Beyond, Listed
      <4> QED  BY <4>3, <2>1 DEF ShowsKept
    <3>2. CASE list'.kind # "ready"
      BY <3>2 DEF ShowsKept
    <3> QED  BY <3>1, <3>2
  <2> QED  BY <2>2, <2>3
<1> QED  BY <1>5, <1>6 DEF PagingInv

LEMMA PagingSteps == PagingInv /\ [PagingNext]_pagingVars => PagingInv'
<1> SUFFICES ASSUME PagingInv, [PagingNext]_pagingVars
             PROVE  PagingInv'
  OBVIOUS
<1>1. ASSUME NEW f \in Filters, Load(f) PROVE PagingInv'
  BY <1>1, LoadKeeps
<1>2. CASE LoadMore
  BY <1>2, LoadMoreKeeps
<1>3. ASSUME NEW q \in asked, ServePage(q) PROVE PagingInv'
  BY <1>3, ServePageKeeps
<1>4. ASSUME NEW q \in asked, HearPage(q) PROVE PagingInv'
  BY <1>4, ShowFirstKeeps, ShowMoreKeeps DEF HearPage
<1>5. ASSUME NEW q \in asked, FetchPageFails(q) PROVE PagingInv'
  BY <1>5, FetchPageFailsKeeps
<1>6. ASSUME NEW r \in Rows, NEW v \in Values \cup {Gone}, ChangeRow(r, v) PROVE PagingInv'
  BY <1>6, ChangeRowKeeps
<1>7. CASE UNCHANGED pagingVars
  BY <1>7 DEF pagingVars, PagingInv, PagingTypeOK, FetchesOfWalks, Goes, Ends, WaitsForFirst, ShowsKept,
              WaitsForOne, Current, HasKept, Covers, Beyond, Listed
<1> QED  BY <1>1, <1>2, <1>3, <1>4, <1>5, <1>6, <1>7 DEF PagingNext

\* A list that no answer to an older one disturbed has the rows that kept their place,
\* as far as its cursor goes, and so has the page that is on its way, from there on.
THEOREM PagingInvariant == PagingSpec => []PagingInv
BY PagingStarts, PagingSteps, PTL DEF PagingSpec

\* auctionRepository.list, listProducts, listEntries: of a list that changes under its
\* reader, what keeps its place is shown once and in order.
THEOREM StandingRowsAreShownOnce == PagingSpec => []StandingRowsShownOnce
<1>1. PagingInv => StandingRowsShownOnce
  <2> SUFFICES ASSUME PagingInv, list.kind = "ready", ~disturbed
               PROVE  /\ \A r \in steady \cap Listed(list.filter) :
                           Cardinality(Shown(r)) = IF Passed(r) THEN 1 ELSE 0
                      /\ \A i, j \in 1..Len(list.shown) :
                           i < j /\ {list.shown[i], list.shown[j]} \subseteq steady =>
                             Precedes(list.shown[i], list.shown[j])
    BY DEF StandingRowsShownOnce, Precedes
  <2>1. /\ list \in ListState /\ steady \subseteq Rows /\ ValuesTyped
    BY PagingIsTyped DEF PagingInv
  <2>2. list.shown \in Seq(Rows) /\ DOMAIN list.shown = 1..Len(list.shown)
    BY <2>1 DEF ListState
  <2>3. Covers(value, steady, Listed(list.filter), AtStart, list.shown, list.next)
    BY DEF PagingInv, ShowsKept, HasKept
  <2>4. \A i, j \in 1..Len(list.shown) :
          i < j /\ list.shown[i] \in steady /\ list.shown[j] \in steady =>
            Precedes(list.shown[i], list.shown[j])
    BY <2>2, <2>3 DEF Covers, Precedes
  <2>5. Ends(list.next)
    BY DEF PagingInv, FetchesOfWalks
  <2>6. ASSUME NEW r \in steady \cap Listed(list.filter)
        PROVE  Cardinality(Shown(r)) = IF Passed(r) THEN 1 ELSE 0
    <3>1. Passed(r) <=> ~Beyond(value, list.next, r)
      BY <2>5, CursorsTyped DEF Passed, Beyond, Ends
    <3>2. r \in ToSet(list.shown) <=> Passed(r)
      BY <3>1, <2>3, CursorsTyped DEF Covers, Beyond
    <3>3. CASE Passed(r)
      <4>1. PICK i \in 1..Len(list.shown) : list.shown[i] = r
        BY <3>2, <3>3, <2>2 DEF ToSet
      <4>2. ASSUME NEW j \in 1..Len(list.shown), list.shown[j] = r
            PROVE  j = i
        <5>1. ~Precedes(r, r)
          BY <2>1, PlacesAreOrdered
        <5>2. ~(i < j) /\ ~(j < i)
          BY <5>1, <4>1, <4>2, <2>4
        <5> QED  BY <5>2
      <4>3. Shown(r) = {i}
        BY <4>1, <4>2 DEF Shown
      <4>4. Cardinality({i}) = 1
        BY FS_Singleton
      <4> QED  BY <3>3, <4>3, <4>4
    <3>4. CASE ~Passed(r)
      <4>1. Shown(r) = {}
        BY <3>2, <3>4, <2>2 DEF Shown, ToSet
      <4> QED  BY <3>4, <4>1, FS_EmptySet
    <3> QED  BY <3>3, <3>4
  <2> QED  BY <2>4, <2>6
<1> QED  BY <1>1, PagingInvariant, PTL
=============================================================================
