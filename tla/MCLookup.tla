------------------------------ MODULE MCLookup ------------------------------
(***************************************************************************)
(* Lookups by a node at distance 3 from the target: among flaky peers that *)
(* answer anything, and among peers that answer truthfully.                *)
(***************************************************************************)
EXTENDS IterativeLookup

MCPeers == 1..7
Local == {3}
Others == MCPeers \ Local

AnySeeds == {S \in SUBSET Others : Cardinality(S) \in 1..2}
AnyAnswers == [p \in MCPeers |-> {A \in SUBSET MCPeers : Cardinality(A) = 2} \cup {{}}]

\* Two peers nearer the target are named by everyone who knows them: the
\* answer of a peer holds one that is closer than itself, the answer of the
\* closest one holds the closest group.
CloseGroup == {p \in MCPeers : Cardinality({q \in MCPeers : q < p}) < Count}
HonestAnswers ==
    [p \in MCPeers |-> {A \in SUBSET (MCPeers \ {p}) :
        /\ Cardinality(A) <= 3
        /\ p = 1 => CloseGroup \ {p} \subseteq A
        /\ p # 1 => \E q \in A : q < p /\ q \notin Local}]
=============================================================================
