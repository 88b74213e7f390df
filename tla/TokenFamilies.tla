--------------------------- MODULE TokenFamilies ---------------------------
(***************************************************************************)
(* What a refresh token promises (docs/authentication.md).  Every login    *)
(* founds a family, named by its first session.  At any time a family has  *)
(* one current token or none; the current token can be exchanged, once,    *)
(* for the next one; and a family that has ended stays ended.              *)
(***************************************************************************)
CONSTANTS Ids, None

VARIABLES
  issued,    \* the sessions there have been
  current    \* by family: the session whose token counts

families == <<issued, current>>

FInit == issued = {} /\ current = [f \in Ids |-> None]

Found(f) ==
  /\ f \notin issued
  /\ issued' = issued \cup {f}
  /\ current' = [current EXCEPT ![f] = f]

Exchange(f, s) ==
  /\ current[f] # None
  /\ s \notin issued
  /\ issued' = issued \cup {s}
  /\ current' = [current EXCEPT ![f] = s]

End(F) ==
  /\ current' = [f \in Ids |-> IF f \in F THEN None ELSE current[f]]
  /\ UNCHANGED issued

FNext ==
  \/ \E f \in Ids : Found(f) \/ \E s \in Ids : Exchange(f, s)
  \/ \E F \in SUBSET Ids : End(F)

FSpec == FInit /\ [][FNext]_families
=============================================================================
