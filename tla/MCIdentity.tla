----------------------------- MODULE MCIdentity -----------------------------
(***************************************************************************)
(* The codes and the links, which share nothing, in one run: a behaviour   *)
(* is a story of the codes, or one of the links.                           *)
(***************************************************************************)
EXTENDS Codes, Links, TLC

CONSTANTS c1, c2, l1, l2, u1, u2, g1, g2

IInit == CInit /\ LInit

\* The bound: while one story is told, the other has not begun.
INext ==
  \/ LInit /\ CNext /\ UNCHANGED lVars
  \/ CInit /\ LNext /\ UNCHANGED cVars

ISpec == IInit /\ [][INext]_<<cVars, lVars>>

Symmetry == Permutations(Callers) \cup Permutations(Linkers)
=============================================================================
