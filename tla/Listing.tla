------------------------------ MODULE Listing ------------------------------
(***************************************************************************)
(* What the catalog shows beside the products themselves: the categories   *)
(* and the images.  They share no row, and their requests interleave.      *)
(***************************************************************************)
EXTENDS Categories, Gallery

LInit == TreeInit /\ GalleryInit

LNext ==
  \/ TreeNext /\ UNCHANGED galleryVars
  \/ GalleryNext /\ UNCHANGED treeVars

LSpec == LInit /\ [][LNext]_<<treeVars, galleryVars>>
=============================================================================
