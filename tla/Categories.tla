----------------------------- MODULE Categories -----------------------------
(***************************************************************************)
(* The tree of categories (createCategory and updateCategory of            *)
(* catalogService.ts).  A move is checked by climbing from the new parent, *)
(* and written in a later statement of the same READ COMMITTED             *)
(* transaction; nothing locks the categories climbed through, so another   *)
(* member of staff may move one of them in between.                        *)
(*                                                                         *)
(* A category is its slug; names, descriptions and positions are left out. *)
(***************************************************************************)
EXTENDS Naturals, FiniteSets

CONSTANTS
  Categories,
  Staff,      \* concurrent requests of staff
  MaxDepth,   \* how far the climb goes: 32 rows
  Top,        \* no parent: parent_id is NULL
  Absent      \* not created yet

ASSUME CategoriesAssumption ==
  /\ IsFiniteSet(Categories)
  /\ MaxDepth \in Nat \ {0}
  /\ Top \notin Categories /\ Absent \notin Categories /\ Top # Absent

VARIABLES
  parent,     \* categories.parent_id
  active,     \* categories.is_active
  mover       \* what each request has read: the move it may write

treeVars == <<parent, active, mover>>

Move == [category : Categories, to : Categories, above : SUBSET Categories]
NoMove == Absent

TreeTypeOK ==
  /\ parent \in [Categories -> Categories \cup {Top, Absent}]
  /\ active \in [Categories -> BOOLEAN]
  /\ mover \in [Staff -> Move \cup {NoMove}]

EmptyTree ==
  /\ parent = [c \in Categories |-> Absent]
  /\ active = [c \in Categories |-> TRUE]

TreeInit == EmptyTree /\ mover = [s \in Staff |-> NoMove]

-----------------------------------------------------------------------------
Exists(c) == parent[c] # Absent

Parents(S) == {parent[c] : c \in S} \cap Categories

\* listAncestorIds: the recursive query, row by row up to its depth.
Ancestors(c) ==
  LET climbed[d \in 1..MaxDepth] ==
        IF d = 1 THEN {c} ELSE climbed[d - 1] \cup Parents(climbed[d - 1])
  IN  climbed[MaxDepth] \ {c}

\* Mutant of MayMove: the database's own CHECK is thought to be enough.
BugMayMove(c, p) == p # c

\* assertParentAcceptable.
MayMove(c, p) == p # c /\ c \notin Ancestors(p)

\* createCategory: a new category is nobody's ancestor, so its parent need only exist.
CreateCategory(c, p) ==
  /\ ~Exists(c)
  /\ p \in Categories => Exists(p)
  /\ parent' = [parent EXCEPT ![c] = p]
  /\ UNCHANGED <<active, mover>>

\* updateCategory with a new parent, up to the check.
CheckMove(s, c, p) ==
  /\ mover[s] = NoMove
  /\ Exists(c) /\ Exists(p)
  /\ MayMove(c, p)
  /\ mover' = [mover EXCEPT ![s] = [category |-> c, to |-> p, above |-> Ancestors(p)]]
  /\ UNCHANGED <<parent, active>>

\* Its UPDATE, and the commit.
WriteMove(s) ==
  /\ mover[s] # NoMove
  /\ parent' = [parent EXCEPT ![mover[s].category] = mover[s].to]
  /\ mover' = [mover EXCEPT ![s] = NoMove]
  /\ UNCHANGED active

\* The transaction fails, and is rolled back.
DropMove(s) ==
  /\ mover[s] # NoMove
  /\ mover' = [mover EXCEPT ![s] = NoMove]
  /\ UNCHANGED <<parent, active>>

\* updateCategory with no parent: there is nothing to check.
MoveToTop(c) ==
  /\ Exists(c)
  /\ parent' = [parent EXCEPT ![c] = Top]
  /\ UNCHANGED <<active, mover>>

\* updateCategory of the flag.
SetActive(c, on) ==
  /\ Exists(c)
  /\ active' = [active EXCEPT ![c] = on]
  /\ UNCHANGED <<parent, mover>>

TreeNext ==
  \/ \E c \in Categories :
       \/ \E p \in Categories \cup {Top} : CreateCategory(c, p)
       \/ MoveToTop(c)
       \/ \E on \in BOOLEAN : SetActive(c, on)
  \/ \E s \in Staff :
       \/ \E c, p \in Categories : CheckMove(s, c, p)
       \/ WriteMove(s) \/ DropMove(s)

TreeSpec == TreeInit /\ [][TreeNext]_treeVars

-----------------------------------------------------------------------------
\* Every category above c, however far.
Above(c) ==
  LET up[d \in 0..Cardinality(Categories)] ==
        IF d = 0 THEN {} ELSE up[d - 1] \cup Parents({c} \cup up[d - 1])
  IN  up[Cardinality(Categories)]

Acyclic == \A c \in Categories : c \notin Above(c)

\* The comment on assertParentAcceptable: a category may not be its own ancestor,
\* and what the database's CHECK does not catch is checked there.  TLC refutes it with two
\* moves at once, each checked before the other is written.
NoCategoryAboveItself == Acyclic

\* What the request of s read above the new parent is still what a climb would find.
ReadStillHolds(s) == mover[s].above = Ancestors(mover[s].to)

\* There is no more above the new parent than the climb has rows for: nothing limits the depth
\* of the tree, but the query stops after 32 rows.
InReach(s) == Cardinality(Above(mover[s].to)) < MaxDepth

\* The check is right as long as nobody else writes what it read: a move of which the readings
\* still hold when it is written, under a parent that is not too deep to be climbed from,
\* leaves a tree a tree, whatever the other requests have read.
MovesAreChecked ==
  [][(/\ Acyclic
      /\ \A s \in Staff : mover[s] # NoMove /\ mover'[s] # mover[s]
                           => ReadStillHolds(s) /\ InReach(s))
     => Acyclic']_treeVars
=============================================================================
