----------------------------- MODULE MCAdmission -----------------------------
(***************************************************************************)
(* RoutingTable with peers that keep the address they connect under: seven *)
(* peers contend for a bucket of four.  Three of them have different IPs   *)
(* of one subnet, the dual-stack 8 has a rival for each of its IPs, and    *)
(* the dual-stack 4 of a nearer bucket has rivals in both buckets.         *)
(***************************************************************************)
EXTENDS RoutingTable, TLC

MCPeers == {4, 5, 8, 9, 10, 11, 12, 13, 14}

MCIps == {"a1", "a2", "a3", "b1", "c1", "six"}
MCFamilyOf == [ip \in MCIps |-> IF ip = "six" THEN "v6" ELSE "v4"]
MCSubnetOf == [a1 |-> "a", a2 |-> "a", a3 |-> "a", b1 |-> "b", c1 |-> "c", six |-> "s"]

\* One address per IP, named like it.
MCIpOf == [a \in MCIps |-> a]

Only(a) == {<< <<a, "Unverified">> >>}

Both(a, b) == {<< <<a, "Unverified">>, <<b, "Unverified">> >>}

MCConnectLists ==
    (4 :> Both("a2", "six")) @@ (5 :> Only("a2")) @@ (8 :> Both("a1", "six"))
      @@ (9 :> Only("a1")) @@ (10 :> Only("a2")) @@ (11 :> Only("six"))
      @@ (12 :> Only("c1")) @@ (13 :> Only("a3")) @@ (14 :> Only("b1"))

\* All neutral, or two peers equally far below the swap threshold and a third
\* above the protection threshold.
MCTrustFns ==
    {[p \in MCPeers |-> 50],
     [p \in MCPeers |-> IF p \in {11, 12} THEN 20 ELSE IF p = 9 THEN 80 ELSE 50]}

------------------------------------------------------------------------------
(* Five peers of two buckets, each bucket within its limits; the fifth     *)
(* closest is the third of one subnet.                                     *)

CloseGroupPeers == {4, 5, 6, 8, 13}

CloseGroupLists ==
    (4 :> Only("a1")) @@ (5 :> Only("b1")) @@ (6 :> Only("c1"))
      @@ (8 :> Only("a2")) @@ (13 :> Only("a3"))

CloseGroupTrust == {[p \in CloseGroupPeers |-> 50]}
=============================================================================
