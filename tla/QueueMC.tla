------------------------------- MODULE QueueMC -------------------------------
(***************************************************************************)
(* Small instances of the queue for TLC.                                   *)
(***************************************************************************)
EXTENDS QueueInvariants, QueueClaims, QueueRefinement, TLC

CONSTANTS a, b, c,          \* items
          p1, p2,           \* providers
          w1, w2            \* wikis

Ingest == [i \in Items |-> "ingestion"]
Extract == [i \in Items |-> "extraction"]
OneWiki == [i \in Items |-> w1]
TwoWikis == [i \in Items |-> IF i = c THEN w2 ELSE w1]
AnyProvider == [i \in Items |-> Providers]
OneBlocked == [i \in Items |-> IF i = a THEN {NoProvider} ELSE Providers]
LimitOne == [lane \in Lanes |-> [x \in Providers |-> 1]]
LimitTwo == [lane \in Lanes |-> [x \in Providers |-> IF lane = "extraction" THEN 2 ELSE 1]]
LimitBoth == [lane \in Lanes |-> [x \in Providers |-> 2]]

\* Sound where the items of the instance have the same lane, wiki and routes.
Symmetry == Permutations(Items) \cup Permutations(Scans) \cup Permutations(Waiters)

\* Sound where the routes and limits do not tell the providers apart.
ProviderSymmetry == Permutations(Providers) \cup Permutations(Scans)
===============================================================================
