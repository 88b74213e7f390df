----------------------------- MODULE MCCatalog -----------------------------
(***************************************************************************)
(* The catalog in three stories: one product and two auctions of it, one   *)
(* of which may open, close or be cancelled while a seller's session is    *)
(* between two of its statements; three categories and two members of the  *)
(* staff; a product that may show three images, and two editors.           *)
(***************************************************************************)
EXTENDS Catalog, Listing

CONSTANTS a1, a2, p1, s1, i1, i2, i3, e1, e2

MCProductOf == [a \in Auctions |-> p1]

ShopInit == CInit /\ LInit

\* The bound: the stories share no row, so while one is told the others have not begun.
ShopNext ==
  \/ LInit /\ CNext /\ UNCHANGED <<treeVars, galleryVars>>
  \/ CInit /\ GalleryInit /\ TreeNext /\ UNCHANGED <<cvars, galleryVars>>
  \/ CInit /\ TreeInit /\ GalleryNext /\ UNCHANGED <<cvars, treeVars>>

ShopSpec == ShopInit /\ [][ShopNext]_<<cvars, treeVars, galleryVars>>

Symmetry == Permutations(Images) \cup Permutations(Editors)
=============================================================================
