--------------------------- MODULE MCRevalidation ---------------------------
(***************************************************************************)
(* Revalidation of full buckets.  First one bucket, whose candidates 11    *)
(* and 12 have one IP address, of which a bucket may hold one peer.        *)
(***************************************************************************)
EXTENDS StaleRevalidation, TLC

MCPeers == 8..13
MCNames == {"a", "b", "c", "d", "e"}
MCIpOf == [n \in MCNames |-> n]
MCFamilyOf == [n \in MCNames |-> "v4"]
Name == (8 :> "a") @@ (9 :> "b") @@ (10 :> "c") @@ (13 :> "d") @@ (11 :> "e") @@ (12 :> "e")
Record(p) == <<Name[p], "Unverified">>
MCConnectLists == [p \in MCPeers |-> IF p \in {11, 12} THEN {<<Record(p)>>} ELSE {}]
MCTrustFns == {[p \in MCPeers |-> 50]}

\* The bucket filled by 8, 9, 10 and 13 in this order, 8 long before the others.
Filled ==
    /\ members = {8, 9, 10, 13}
    /\ older = {<<p, q>> \in members \X members : p < q}
    /\ age = [p \in Peers |-> IF p = 8 THEN 1 ELSE 0]
    /\ addrs = [p \in Peers |-> IF p \in members THEN {Record(p)} ELSE {}]
    /\ pubSeq = [p \in Peers |-> 0]
    /\ v2Seq = [p \in Peers |-> 0]
    /\ announced = members
    /\ closeView = members
    /\ RevalidationInit

FilledSpec == Filled /\ [][RevalidationNext]_allVars /\ RevalidationFairness

------------------------------------------------------------------------------
(* Two full buckets: 11 is a candidate for the nearer one, 20 for the      *)
(* other, whose members left long ago.  The two candidates have one IP, of *)
(* which the close group may hold one peer.                                *)

TwoBucketPeers == 8..11 \cup {13} \cup 16..20
Candidates == {11, 20}

TwoBucketNames == MCNames \cup {"f", "g", "h", "i"}
TwoBucketIpOf == [n \in TwoBucketNames |-> n]
TwoBucketFamilyOf == [n \in TwoBucketNames |-> "v4"]
FarName == (16 :> "f") @@ (17 :> "g") @@ (18 :> "h") @@ (19 :> "i") @@ (20 :> "e")
TwoBucketRecord(p) == <<(Name @@ FarName)[p], "Unverified">>
TwoBucketLists ==
    [p \in TwoBucketPeers |-> IF p \in Candidates THEN {<<TwoBucketRecord(p)>>} ELSE {}]
TwoBucketTrust == {[p \in TwoBucketPeers |-> 50]}

Revalidation(st, p, stale) ==
    [st |-> st, cand |-> p, list |-> <<TwoBucketRecord(p)>>, stale |-> stale]

\* 20 and 11 have connected: the revalidation for 20 holds a permit and its
\* bucket and pings, the one for 11 has been spawned.
BothFilled ==
    /\ members = TwoBucketPeers \ Candidates
    /\ older = {<<p, q>> \in members \X members : p < q /\ bucketIndex[p] = bucketIndex[q]}
    /\ age = [p \in Peers |-> IF p = 8 \/ p \in 16..19 THEN 1 ELSE 0]
    /\ addrs = [p \in Peers |-> IF p \in members THEN {TwoBucketRecord(p)} ELSE {}]
    /\ pubSeq = [p \in Peers |-> 0]
    /\ v2Seq = [p \in Peers |-> 0]
    /\ announced = members
    /\ closeView = KClosest(members)
    /\ task = ("t1" :> Revalidation("pinging", 20, 16..19))
                @@ ("t2" :> Revalidation("spawned", 11, {8}))
                @@ [t \in Tasks |-> NoTask]
    /\ permits = MaxRevalidations - 1
    /\ bucketActive = {bucketIndex[20]}
    /\ sweep = NoSweep
    /\ outbox = [a \in Actors |-> NoEvents]
    /\ mirror = members

TwoBucketSpec == BothFilled /\ [][RevalidationNext]_allVars /\ RevalidationFairness
=============================================================================
