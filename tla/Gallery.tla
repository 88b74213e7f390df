------------------------------ MODULE Gallery ------------------------------
(***************************************************************************)
(* The images of one product (catalogService.ts) and the bucket that holds *)
(* their bytes (storage/s3.ts).  Galleries share nothing: every statement  *)
(* names the product.                                                      *)
(*                                                                         *)
(* An image is a row with a position, and an object that the browser       *)
(* writes to the bucket itself, with a URL that is good for a while.       *)
(* Nothing locks the product.  Adding counts the rows and inserts one at   *)
(* that position; removing deletes a row, lists the others and writes      *)
(* their positions again; reordering lists and writes.  Other requests     *)
(* commit in between, and a unique index is the only thing that stops      *)
(* them.                                                                   *)
(*                                                                         *)
(* Every request is of the seller who owns the product: the others are     *)
(* refused by getOwnedProduct before they change anything.                 *)
(***************************************************************************)
EXTENDS Integers, FiniteSets, SequencesExt

CONSTANTS
  Images,       \* fresh ids, each used once; an image's key is its id
  Editors,      \* concurrent requests of the seller
  MaxImages,    \* MAX_PRODUCT_IMAGES
  Offset        \* REORDER_OFFSET

ASSUME GalleryAssumption == MaxImages \in Nat \ {0} /\ Offset \in Nat /\ Offset > MaxImages

VARIABLES
  row,          \* the table product_images
  issued,       \* the ids that were used
  slot,         \* the keys for which an upload URL is still good
  bucket,       \* the keys that have an object
  archived,     \* products.status = 'archived'
  editor        \* what each request is doing, and what it has read

galleryVars == <<row, issued, slot, bucket, archived, editor>>

NoRow == [position |-> -1, primary |-> FALSE]
Shown == {i \in Images : row[i] # NoRow}

\* An image of no row stands for "none".
Resting == [at |-> "idle", image |-> {}, count |-> 0, list |-> <<>>]

GalleryTypeOK ==
  /\ row \in [Images -> [position : Int, primary : BOOLEAN]]
  /\ issued \subseteq Images /\ slot \subseteq issued /\ bucket \subseteq issued
  /\ archived \in BOOLEAN
  /\ \A s \in Editors :
       /\ editor[s].at \in {"idle", "insert", "delete", "list", "order", "object"}
       /\ editor[s].image \subseteq Images
       /\ editor[s].count \in Nat
       /\ ToSet(editor[s].list) \subseteq Images

GalleryInit ==
  /\ row = [i \in Images |-> NoRow]
  /\ issued = {} /\ slot = {} /\ bucket = {}
  /\ archived = FALSE
  /\ editor = [s \in Editors |-> Resting]

-----------------------------------------------------------------------------
\* listImages: by position.
InOrder(S) ==
  [n \in 1..Cardinality(S) |->
     CHOOSE i \in S : Cardinality({j \in S : row[j].position < row[i].position}) = n - 1]

Position(list, i) == (CHOOSE n \in DOMAIN list : list[n] = i) - 1

\* Mutant of Reordered: what is parked stays the primary image.
BugReordered(i, list) ==
  IF i \in ToSet(list)
  THEN [position |-> Position(list, i), primary |-> Position(list, i) = 0]
  ELSE [row[i] EXCEPT !.position = @ + Offset]

\* applyImageOrder, of one row: all are parked beyond the end, then those on the
\* list are written back.
Reordered(i, list) ==
  IF i \in ToSet(list)
  THEN [position |-> Position(list, i), primary |-> Position(list, i) = 0]
  ELSE [position |-> row[i].position + Offset, primary |-> FALSE]

Turn(s, next) == editor' = [editor EXCEPT ![s] = next]
StoreStays == UNCHANGED <<issued, slot, bucket, archived>>

-----------------------------------------------------------------------------
\* createImageUploadSlot, up to the count.
CountImages(s) ==
  /\ editor[s] = Resting
  /\ ~archived
  /\ Cardinality(Shown) < MaxImages
  /\ Turn(s, [Resting EXCEPT !.at = "insert", !.count = Cardinality(Shown)])
  /\ UNCHANGED row /\ StoreStays

\* The unique index on the positions.
Apart(rows) ==
  \A i, j \in Images :
    i # j /\ rows[i] # NoRow /\ rows[j] # NoRow => rows[i].position # rows[j].position

\* insertImage: the first image a product has is the primary one.
NewRow(n) == [position |-> n, primary |-> n = 0]

\* The INSERT, which the unique indexes may refuse, the commit, and the URL.
InsertImage(s, i) ==
  LET n == editor[s].count IN
  /\ editor[s].at = "insert"
  /\ i \notin issued
  /\ \A j \in Shown : row[j].position # n /\ ~(row[j].primary /\ NewRow(n).primary)
  /\ row' = [row EXCEPT ![i] = NewRow(n)]
  /\ issued' = issued \cup {i}
  /\ slot' = slot \cup {i}
  /\ Turn(s, Resting)
  /\ UNCHANGED <<bucket, archived>>

\* deleteProductImage, up to findImageById.
FindImage(s, i) ==
  /\ editor[s] = Resting
  /\ i \in Shown
  /\ Turn(s, [Resting EXCEPT !.at = "delete", !.image = {i}])
  /\ UNCHANGED row /\ StoreStays

\* The rows that an uncommitted DELETE of another request keeps locked.
LockedForOthers(s) ==
  UNION {editor[t].image : t \in {u \in Editors \ {s} : editor[u].at \in {"list", "order"}}} \cap Shown

\* Mutant of DeleteImage: the object goes first.
BugDeleteImage(s) ==
  /\ editor[s].at = "delete"
  /\ editor[s].image \cap LockedForOthers(s) = {}
  /\ Turn(s, [editor[s] EXCEPT !.at = "list"])
  /\ bucket' = bucket \ editor[s].image
  /\ UNCHANGED <<row, issued, slot, archived>>

\* The DELETE, not committed yet; that it may have found nothing is not looked at.
DeleteImage(s) ==
  /\ editor[s].at = "delete"
  /\ editor[s].image \cap LockedForOthers(s) = {}
  /\ Turn(s, [editor[s] EXCEPT !.at = "list"])
  /\ UNCHANGED row /\ StoreStays

\* The rows that remain.
ListImages(s) ==
  /\ editor[s].at = "list"
  /\ Turn(s, [editor[s] EXCEPT !.at = "order", !.list = InOrder(Shown \ editor[s].image)])
  /\ UNCHANGED row /\ StoreStays

\* reorderProductImages, up to its checks: every image, and each once.
RequestOrder(s) ==
  /\ editor[s] = Resting
  /\ \E list \in SetToSeqs(Shown) : Turn(s, [Resting EXCEPT !.at = "order", !.list = list])
  /\ UNCHANGED row /\ StoreStays

\* Mutant of After: the gap is not closed.
BugAfter(i, s) == IF i \in editor[s].image \/ i \notin Shown THEN NoRow ELSE row[i]

\* What the rows are when a removal or a reordering has committed.
After(i, s) ==
  IF i \in editor[s].image \/ i \notin Shown THEN NoRow
  ELSE IF editor[s].list = <<>> THEN row[i] ELSE Reordered(i, editor[s].list)

\* The two UPDATEs and the commit.  They wait for the rows that others have locked;
\* two requests that wait for each other are a deadlock, which the database ends
\* (see GiveUp), as it does when a position is taken.
OrderImages(s) ==
  LET written == [i \in Images |-> After(i, s)] IN
  /\ editor[s].at = "order"
  /\ editor[s].list # <<>> => LockedForOthers(s) = {}
  /\ Apart(written)
  /\ row' = written
  /\ Turn(s, IF editor[s].image = {} THEN Resting ELSE [Resting EXCEPT !.at = "object", !.image = editor[s].image])
  /\ StoreStays

\* deleteObject of the store, which reports a failure and does not throw it.
Removed(keys) == {bucket \ keys, bucket}

\* After the commit.
DeleteObject(s) ==
  /\ editor[s].at = "object"
  /\ bucket' \in Removed(editor[s].image)
  /\ Turn(s, Resting)
  /\ UNCHANGED <<row, issued, slot, archived>>

\* An error, a deadlock or a crash ends the request: its transaction is rolled back,
\* and what would follow the commit is not done.
GiveUp(s) ==
  /\ editor[s] # Resting
  /\ Turn(s, Resting)
  /\ UNCHANGED row /\ StoreStays

\* The browser writes the object, once or again, also if its row is gone by now.
Upload(i) ==
  /\ i \in slot
  /\ bucket' = bucket \cup {i}
  /\ UNCHANGED <<row, issued, slot, archived, editor>>

\* The URL is 15 minutes old.
Expire(i) ==
  /\ i \in slot
  /\ slot' = slot \ {i}
  /\ UNCHANGED <<row, issued, bucket, archived, editor>>

\* archiveProduct (module Catalog).
ArchiveProduct ==
  /\ ~archived
  /\ archived' = TRUE
  /\ UNCHANGED <<row, issued, slot, bucket, editor>>

GalleryNext ==
  \/ \E s \in Editors :
       \/ CountImages(s) \/ DeleteImage(s) \/ ListImages(s) \/ OrderImages(s)
       \/ DeleteObject(s) \/ GiveUp(s) \/ RequestOrder(s)
       \/ \E i \in Images : InsertImage(s, i) \/ FindImage(s, i)
  \/ \E i \in Images : Upload(i) \/ Expire(i)
  \/ ArchiveProduct

GallerySpec == GalleryInit /\ [][GalleryNext]_galleryVars

-----------------------------------------------------------------------------
\* Whatever overlaps, the primary image is the one shown first, and there is one at
\* most: a row parked by a request that did not know it is not primary.
PrimaryIsFirst ==
  \A i \in Shown : row[i].primary =>
    \A j \in Shown \ {i} : row[i].position < row[j].position /\ ~row[j].primary

\* Positions without a gap, and a primary image in front.
Whole ==
  /\ {row[i].position : i \in Shown} = 0..(Cardinality(Shown) - 1)
  /\ \A i \in Shown : row[i].position = 0 => row[i].primary

\* What a request has read, and is about to write by, is what is there.
UpToDate(s) ==
  /\ editor[s].at = "insert" => editor[s].count = Cardinality(Shown)
  /\ editor[s].at = "order"  => ToSet(editor[s].list) = Shown \ editor[s].image

\* A gallery is whole after every request that nobody interfered with, if it was
\* before: added to, taken from down to nothing, and filled again.
StaysWhole ==
  [][(/\ Whole
      /\ \A s \in Editors : editor'[s] # editor[s] => UpToDate(s))
     => Whole']_galleryVars

\* As long as an image is shown, the object behind it is not deleted: not by a
\* removal that is rolled back, nor by one that overlaps another.
ShownKeepTheirObjects == [][bucket \ bucket' \subseteq Images \ Shown]_galleryVars

\* docs/catalog.md, of a reorder that lists every image: none is left without a position.
\* TLC refutes it: a row that is added while another request reorders stays parked.
NoneIsStranded == \A i \in Shown : row[i].position < MaxImages
=============================================================================
