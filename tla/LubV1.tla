------------------------------- MODULE LubV1 -------------------------------
(***************************************************************************)
(* The rule that decides an auction, LUB_V1 of lubCalculator.ts: the       *)
(* lowest amount that exactly one bid was placed at wins.  Every operator  *)
(* is about the set B of the bids of one auction, [user, amount, ...]; the *)
(* unique index on (user, amount) makes it a set.  No code marks a bid as  *)
(* anything but valid, so all of B takes part.                             *)
(***************************************************************************)
EXTENDS Integers, FiniteSets

At(B, m)   == {b \in B : b.amount = m}
Amounts(B) == {b.amount : b \in B}
Bidders(B) == {b.user : b \in B}

\* Mutant of UniqueAmounts: every amount somebody chose takes part.
BugUniqueAmounts(B) == {m \in Amounts(B) : Cardinality(At(B, m)) >= 1}

\* GROUP BY amount_minor HAVING count(*) = 1.
UniqueAmounts(B) == {m \in Amounts(B) : Cardinality(At(B, m)) = 1}

\* ORDER BY amount_minor ASC LIMIT 1: no amount, or the lowest.
LowestUnique(B) == {m \in UniqueAmounts(B) : \A n \in UniqueAmounts(B) : m <= n}

\* The rows of LUB_V1_QUERY, of which calculateLubV1 takes the first: none, or
\* the winning bid.
Winner(B) == {b \in B : b.amount \in LowestUnique(B)}

\* countFrozenBids.
Statistics(B) == [bids         |-> Cardinality(B),
                  participants |-> Cardinality(Bidders(B)),
                  unique       |-> Cardinality(UniqueAmounts(B))]
=============================================================================
