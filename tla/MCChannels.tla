----------------------------- MODULE MCChannels -----------------------------
(***************************************************************************)
(* What the channels do on their own, in three stories: one user's bids,   *)
(* with two updates handled at a time and a page open, and a batch of two  *)
(* amounts or one of them typed again; the sign-in of two tabs; a list of  *)
(* three rows, two of which pass the second filter.                        *)
(***************************************************************************)
EXTENDS Channels, Pages, Paging

CONSTANTS k1, k2, k3, h1, h2, t1, w1, w2

MCUnder == [f \in Filters |-> IF f = 1 THEN Rows ELSE {1, 3}]

StoriesInit == ChInit /\ PagesInit /\ PagingInit

NoList == PagingInit /\ list.filter = 1 /\ value = [r \in Rows |-> Gone]

\* The bounds: the stories share nothing, so while one is told the others have not
\* begun; and tabs are alike, so w1 is the first to be opened.
StoriesNext ==
  \/ PagesInit /\ NoList /\ ChNext /\ UNCHANGED <<pageVars, pagingVars>>
  \/ ChInit /\ NoList /\ PagesNext /\ (loads = 0 => page'[w2] = NoPage)
     /\ UNCHANGED <<chVars, pagingVars>>
  \/ ChInit /\ PagesInit /\ PagingNext /\ UNCHANGED <<chVars, pageVars>>

StoriesSpec == StoriesInit /\ [][StoriesNext]_<<chVars, pageVars, pagingVars>>

Symmetry == Permutations(Keys) \cup Permutations(Handlers)
=============================================================================
