-------------------------- MODULE RoutingTableProofs --------------------------
(***************************************************************************)
(* Proofs about RoutingTable for every set of peers, every K and every     *)
(* limit, trust assignment and address list.                               *)
(***************************************************************************)
EXTENDS RoutingTable, FiniteSetTheorems, TLAPS

\* The bounds the proofs compute with.
LEMMA Sizes == K \in Nat /\ K > 0 /\ LiveThreshold \in Nat /\ MaxSeq \in Nat
BY TableConstants

\* Only finitely many peers exist.
LEMMA PeersFinite == IsFiniteSet(Peers)
BY TableConstants

\* Distances are positive: no peer is the local node or a marker of the
\* swap search.
LEMMA PeersNat == Peers \subseteq Nat /\ 0 \notin Peers /\ -1 \notin Peers
<1>1. Peers \subseteq 1..(2^IdBits - 1)
  BY TableConstants
<1>2. QED
  BY <1>1

------------------------------------------------------------------------------
(* Address records *)

\* Correcting a type to Lan gives an address type.
LEMMA ForAdvertisedAddressType ==
    ASSUME NEW a, NEW ty \in AddressType
    PROVE  ForAdvertisedAddress(a, ty) \in AddressType
BY DEF ForAdvertisedAddress, AddressType

\* What add_node and a publication store is a set of typed addresses.
LEMMA StorableType ==
    ASSUME NEW list, \A i \in DOMAIN list : list[i] \in TypedAddrs
    PROVE  /\ AdmittedRecord(list) \in SUBSET TypedAddrs
           /\ PublishedRecord(list) \in SUBSET TypedAddrs
           /\ \A i \in DOMAIN Storable(list) : Storable(list)[i] \in TypedAddrs
<1>1. \A i \in DOMAIN Storable(list) : Storable(list)[i] \in TypedAddrs
  BY ForAdvertisedAddressType DEF Storable, TypedAddrs
<1>2. AdmittedRecord(list) \in SUBSET TypedAddrs
  BY <1>1 DEF AdmittedRecord, Truncated, Capped
<1>3. PublishedRecord(list) \in SUBSET TypedAddrs
  BY <1>1 DEF PublishedRecord, BestTruncated, Capped
<1>4. QED
  BY <1>1, <1>2, <1>3

\* Gossip merges (merge_typed_address_upgrade_only) keep the record typed.
LEMMA MergeType ==
    ASSUME NEW record \in SUBSET TypedAddrs, NEW x \in TypedAddrs
    PROVE  MergeUpgradeOnly(record, x[1], x[2]) \in SUBSET TypedAddrs
<1>1. <<x[1], ForAdvertisedAddress(x[1], x[2])>> \in TypedAddrs
  BY ForAdvertisedAddressType DEF TypedAddrs
<1>2. QED
  BY <1>1 DEF MergeUpgradeOnly, MergeTyped

\* So do the merges of touch_node for a list of addresses.
LEMMA MergeAllType ==
    ASSUME NEW record, NEW list
    PROVE  MergeAllObserved(record, list) \in SUBSET TypedAddrs
BY DEF MergeAllObserved

------------------------------------------------------------------------------
(* Buckets *)

\* Buckets are finite, so they can be counted.
LEMMA BucketFinite ==
    ASSUME NEW S \in SUBSET Peers, NEW p
    PROVE  /\ IsFiniteSet(S)
           /\ IsFiniteSet(BucketOf(S, p))
           /\ Cardinality(BucketOf(S, p)) \in Nat
<1>1. IsFiniteSet(S)
  BY FS_Subset, PeersFinite
<1>2. BucketOf(S, p) \subseteq S
  BY DEF BucketOf
<1>3. QED
  BY <1>1, <1>2, FS_Subset, FS_CardinalityType

\* A bucket of a smaller table is not larger.
LEMMA BucketShrinks ==
    ASSUME NEW S \in SUBSET Peers, NEW T \in SUBSET S, NEW p
    PROVE  Cardinality(BucketOf(T, p)) <= Cardinality(BucketOf(S, p))
<1>1. BucketOf(T, p) \subseteq BucketOf(S, p)
  BY DEF BucketOf
<1>2. IsFiniteSet(BucketOf(S, p))
  BY BucketFinite
<1>3. QED
  BY <1>1, <1>2, FS_Subset

\* Removing one of its peers makes room in a bucket.
LEMMA BucketLosesOne ==
    ASSUME NEW S \in SUBSET Peers, NEW gone, NEW p,
           NEW q \in gone, q \in BucketOf(S, p)
    PROVE  Cardinality(BucketOf(S \ gone, p)) < Cardinality(BucketOf(S, p))
<1>1. IsFiniteSet(BucketOf(S, p)) /\ Cardinality(BucketOf(S, p)) \in Nat
  BY BucketFinite
<1>2. BucketOf(S \ gone, p) \subseteq BucketOf(S, p) \ {q}
  BY DEF BucketOf
<1>3. /\ IsFiniteSet(BucketOf(S, p) \ {q})
      /\ Cardinality(BucketOf(S, p) \ {q}) = Cardinality(BucketOf(S, p)) - 1
  BY <1>1, FS_RemoveElement
<1>4. Cardinality(BucketOf(S \ gone, p)) <= Cardinality(BucketOf(S, p) \ {q})
  BY <1>2, <1>3, FS_Subset
<1>5. Cardinality(BucketOf(S \ gone, p)) \in Nat
  BY BucketFinite
<1>6. QED
  BY <1>1, <1>3, <1>4, <1>5

\* Inserting into a bucket with room keeps every bucket within K.
LEMMA BucketGainsOne ==
    ASSUME NEW S \in SUBSET Peers, NEW p \in Peers, NEW r \in Peers,
           BucketCapacity, S \subseteq members, members \subseteq Peers,
           Cardinality(BucketOf(S, p)) < K
    PROVE  Cardinality(BucketOf(S \cup {p}, r)) <= K
<1>1. CASE bucketIndex[p] = bucketIndex[r]
  <2>1. BucketOf(S \cup {p}, r) = BucketOf(S, p) \cup {p}
    BY <1>1 DEF BucketOf
  <2>2. IsFiniteSet(BucketOf(S, p)) /\ Cardinality(BucketOf(S, p)) \in Nat
    BY BucketFinite
  <2>3. \/ Cardinality(BucketOf(S, p) \cup {p}) = Cardinality(BucketOf(S, p))
        \/ Cardinality(BucketOf(S, p) \cup {p}) = Cardinality(BucketOf(S, p)) + 1
    BY <2>2, FS_AddElement, Zenon
  <2>4. QED
    BY <2>1, <2>2, <2>3, Sizes
<1>2. CASE bucketIndex[p] # bucketIndex[r]
  <2>1. BucketOf(S \cup {p}, r) = BucketOf(S, r)
    BY <1>2 DEF BucketOf
  <2>2. Cardinality(BucketOf(S, r)) <= Cardinality(BucketOf(members, r))
    BY BucketShrinks
  <2>3. Cardinality(BucketOf(members, r)) <= K
    BY DEF BucketCapacity
  <2>4. Cardinality(BucketOf(S, r)) \in Nat /\ Cardinality(BucketOf(members, r)) \in Nat
    BY BucketFinite
  <2>5. QED
    BY <2>1, <2>2, <2>3, <2>4, Sizes
<1>3. QED
  BY <1>1, <1>2

------------------------------------------------------------------------------
(* Swap plans *)

\* Every swap frees a slot in its scope, held by a farther peer that is not
\* both trusted and live.
LEMMA SwapSetFacts ==
    ASSUME NEW scope \in SUBSET Peers, NEW p, NEW ips, NEW trust,
           NEW swaps \in SwapSets(scope, p, ips, trust), NEW q \in swaps
    PROVE  /\ q \in scope
           /\ p < q
           /\ trust[q] < TrustProtection \/ IsStale(q)
<1>1. PICK f \in [DOMAIN ips ->
                    {r \in scope : \E i \in DOMAIN ips : SharesSubnet(r, ips[i])} \cup {NoSwap}] :
        /\ \A i \in DOMAIN ips :
              f[i] = IpSwap(scope \ {f[j] : j \in 1..(i-1)}, p, ips[i], trust)
        /\ swaps = {f[i] : i \in DOMAIN ips} \ {NoSwap}
  BY Zenon DEF SwapSets
<1>2. PICK i \in DOMAIN ips : q = f[i] /\ q # NoSwap
  BY <1>1
<1>3. q \in scope
  BY <1>1, <1>2
<1>4. q # Refused
  BY <1>3, PeersNat DEF Refused
<1>5. PICK rivals : q = Displace(rivals, p, trust)
  BY <1>1, <1>2, Zenon DEF IpSwap
<1>6. QED
  BY <1>3, <1>4, <1>5 DEF Displace

\* The swaps add_with_diversity plans: bucket swaps come from the candidate's
\* bucket, all of them from the table, and the candidate is not among them.
LEMMA PlanFacts ==
    ASSUME NEW T \in SUBSET Peers, NEW p \in Peers, NEW ips, NEW trust,
           NEW plan \in DiversityPlans(T, p, ips, trust)
    PROVE  /\ plan.bucket \subseteq BucketOf(T, p)
           /\ plan.close \subseteq T
           /\ \A q \in plan.bucket \cup plan.close :
                 q # p /\ (trust[q] < TrustProtection \/ IsStale(q))
<1>1. PICK B \in SwapSets(BucketOf(T, p), p, ips, trust) :
        \E C \in CloseSwaps(T, p, B, ips, trust) : plan = [bucket |-> B, close |-> C]
  BY Zenon DEF DiversityPlans
<1>2. PICK C \in CloseSwaps(T, p, B, ips, trust) : plan = [bucket |-> B, close |-> C]
  BY <1>1
<1>3. plan.bucket = B /\ plan.close = C
  BY <1>2
<1>4. BucketOf(T, p) \in SUBSET Peers
  BY DEF BucketOf
<1>5. \A q \in B : /\ q \in BucketOf(T, p)
                   /\ p < q
                   /\ trust[q] < TrustProtection \/ IsStale(q)
  BY <1>1, <1>4, SwapSetFacts
<1>6. HypotheticalClose(T, p, B) \in SUBSET (T \cup {p})
  BY DEF HypotheticalClose, KClosest
<1>7. \A q \in C : /\ q \in T \cup {p}
                   /\ p < q
                   /\ trust[q] < TrustProtection \/ IsStale(q)
  <2>1. CASE InClose(T, p, B)
    BY <1>2, <1>6, <2>1, SwapSetFacts DEF CloseSwaps
  <2>2. CASE ~InClose(T, p, B)
    BY <1>2, <2>2 DEF CloseSwaps
  <2>3. QED
    BY <2>1, <2>2
<1>8. ~(p < p)
  BY PeersNat
<1>9. QED
  BY <1>3, <1>5, <1>7, <1>8

\* What an admission evicts is in the table and leaves room for the candidate.
LEMMA MakesRoom ==
    ASSUME NEW T \in SUBSET Peers, NEW p \in Peers, NEW ips, NEW trust,
           NEW plan \in DiversityPlans(T, p, ips, trust),
           Cardinality(BucketOf(T, p)) <= K,
           CanInsert(T, p, plan, trust)
    PROVE  /\ Evictions(T, p, plan, trust) \in SUBSET T
           /\ Cardinality(BucketOf(T \ Evictions(T, p, plan, trust), p)) < K
<1> DEFINE gone == Evictions(T, p, plan, trust)
<1>1. TrustSwap(T, p, trust) \subseteq BucketOf(T, p)
  BY DEF TrustSwap
<1>2. BucketOf(T, p) \subseteq T
  BY DEF BucketOf
<1>3. gone \in SUBSET T
  BY <1>1, <1>2, PlanFacts DEF Evictions
<1>4. /\ Cardinality(BucketOf(T, p)) \in Nat
      /\ T \ gone \in SUBSET T
      /\ Cardinality(BucketOf(T \ gone, p)) \in Nat
  BY BucketFinite
<1>5. CASE Cardinality(BucketOf(T, p)) < K
  <2>1. Cardinality(BucketOf(T \ gone, p)) <= Cardinality(BucketOf(T, p))
    BY <1>4, BucketShrinks
  <2>2. QED
    BY <1>3, <1>4, <1>5, <2>1, Sizes
<1>6. CASE \E q \in gone : q \in BucketOf(T, p)
  <2>1. PICK q \in gone : q \in BucketOf(T, p)
    BY <1>6
  <2>2. Cardinality(BucketOf(T \ gone, p)) < Cardinality(BucketOf(T, p))
    BY <2>1, BucketLosesOne
  <2>3. QED
    BY <1>3, <1>4, <2>2, Sizes
<1>7. Cardinality(BucketOf(T, p)) < K \/ \E q \in gone : q \in BucketOf(T, p)
  <2>1. CASE plan.bucket # {}
    BY <2>1, PlanFacts DEF Evictions
  <2>2. CASE \E q \in plan.close : bucketIndex[q] = bucketIndex[p]
    BY <2>2, PlanFacts DEF Evictions, BucketOf
  <2>3. CASE ~SlotFree(T, p, plan)
    BY <1>1, <2>3 DEF CanInsert, Evictions
  <2>4. QED
    BY <2>1, <2>2, <2>3 DEF SlotFree, HasRoom
<1>8. QED
  BY <1>5, <1>6, <1>7

------------------------------------------------------------------------------
(* Table mutations *)

\* Forgetting removed peers keeps a map of peers typed.
LEMMA ForgetType ==
    ASSUME NEW S, NEW f \in [Peers -> S], NEW gone, NEW default \in S
    PROVE  Forget(f, gone, default) \in [Peers -> S]
BY DEF Forget

\* The close group consists of peers.
LEMMA KClosestType ==
    ASSUME NEW S \in SUBSET Peers
    PROVE  KClosest(S) \in SUBSET Peers
BY DEF KClosest

\* The numeric parts of TypeOK once the peers of `gone` are forgotten.
LEMMA ForgetAll ==
    ASSUME TypeOK, NEW gone
    PROVE  /\ Forget(age, gone, 0) \in [Peers -> 0..(LiveThreshold + 1)]
           /\ Forget(addrs, gone, {}) \in [Peers -> SUBSET TypedAddrs]
           /\ Forget(pubSeq, gone, 0) \in [Peers -> 0..MaxSeq]
           /\ Forget(v2Seq, gone, 0) \in [Peers -> 0..MaxSeq]
<1>1. 0 \in 0..(LiveThreshold + 1) /\ 0 \in 0..MaxSeq
  BY Sizes
<1>2. QED
  BY <1>1, ForgetType DEF TypeOK

\* remove_node_by_id keeps the invariant.
LEMMA RemoveNodesKeepsInv ==
    ASSUME TableInv, NEW gone, RemoveNodes(gone)
    PROVE  TableInv'
<1> USE DEF TableInv, RemoveNodes
<1>1. members' \in SUBSET members /\ members' \in SUBSET Peers
  BY DEF TypeOK
<1>2. TypeOK'
  <2>1. older' \subseteq members' \X members'
    BY DEF TypeOK, Without
  <2>2. announced' \subseteq Peers /\ closeView' \subseteq Peers
    BY <1>1, KClosestType DEF TypeOK, Emit
  <2>3. QED
    BY <1>1, <2>1, <2>2, ForgetAll DEF TypeOK
<1>3. BucketCapacity'
  <2>1. SUFFICES ASSUME NEW r \in Peers
                 PROVE  Cardinality(BucketOf(members', r)) <= K
    BY DEF BucketCapacity, BucketOf
  <2>2. Cardinality(BucketOf(members', r)) <= Cardinality(BucketOf(members, r))
    BY <1>1, BucketShrinks DEF TypeOK
  <2>3. Cardinality(BucketOf(members', r)) \in Nat /\ Cardinality(BucketOf(members, r)) \in Nat
    BY <1>1, BucketFinite DEF TypeOK
  <2>4. QED
    BY <2>2, <2>3, Sizes DEF BucketCapacity
<1>4. PublicationsOfMembers'
  BY DEF PublicationsOfMembers, Published, Forget
<1>5. EventsTellMembership'
  BY DEF EventsTellMembership, Emit, KClosest
<1>6. QED
  BY <1>2, <1>3, <1>4, <1>5

\* An insertion that found room keeps the invariant.
LEMMA InsertKeepsInv ==
    ASSUME TableInv, NEW p \in Peers, p \notin members, NEW list,
           \A i \in DOMAIN list : list[i] \in TypedAddrs,
           NEW gone \in SUBSET members,
           Cardinality(BucketOf(members \ gone, p)) < K,
           Insert(p, list, gone)
    PROVE  TableInv'
<1> DEFINE kept == members \ gone
<1>1. ~Published(p)
  BY DEF TableInv, PublicationsOfMembers
<1>2. /\ members' = kept \cup {p}
      /\ older' = Without(gone) \cup BucketOf(kept, p) \X {p}
      /\ age' = Forget(age, gone, 0)
      /\ addrs' = [Forget(addrs, gone, {}) EXCEPT ![p] = AdmittedRecord(list)]
      /\ pubSeq' = Forget(pubSeq, gone, 0)
      /\ v2Seq' = Forget(v2Seq, gone, 0)
      /\ Emit(gone, {p}, kept \cup {p})
  BY <1>1, Zenon DEF Insert, HasRoom
<1>3. kept \in SUBSET Peers /\ members' \in SUBSET Peers
  BY <1>2 DEF TableInv, TypeOK
<1>4. TypeOK'
  <2>1. older' \subseteq members' \X members'
    BY <1>2 DEF TableInv, TypeOK, Without, BucketOf
  <2>2. announced' \subseteq Peers /\ closeView' \subseteq Peers
    BY <1>2, <1>3, KClosestType DEF TableInv, TypeOK, Emit
  <2>3. addrs' \in [Peers -> SUBSET TypedAddrs]
    BY <1>2, ForgetAll, StorableType DEF TableInv
  <2>4. QED
    BY <1>2, <1>3, <2>1, <2>2, <2>3, ForgetAll DEF TableInv, TypeOK
<1>5. BucketCapacity'
  <2>1. SUFFICES ASSUME NEW r \in Peers
                 PROVE  Cardinality(BucketOf(kept \cup {p}, r)) <= K
    BY <1>2 DEF BucketCapacity, BucketOf
  <2>2. kept \subseteq members /\ members \subseteq Peers
    BY DEF TableInv, TypeOK
  <2>3. QED
    BY <1>3, <2>2, BucketGainsOne DEF TableInv
<1>6. PublicationsOfMembers'
  BY <1>2 DEF TableInv, PublicationsOfMembers, Published, Forget
<1>7. EventsTellMembership'
  BY <1>2 DEF TableInv, EventsTellMembership, Emit, KClosest
<1>8. QED
  BY <1>4, <1>5, <1>6, <1>7 DEF TableInv

\* Updating a peer that holds a slot keeps the invariant.
LEMMA UpdateMemberKeepsInv ==
    ASSUME TableInv, NEW p \in Peers, NEW list, NEW gone,
           p \in members, p \notin gone,
           UpdateMember(p, list, gone)
    PROVE  TableInv'
<1> DEFINE kept == members \ gone
<1>1. /\ members' = kept
      /\ older' = Without(gone \cup {p}) \cup (BucketOf(kept, p) \ {p}) \X {p}
      /\ age' = [Forget(age, gone, 0) EXCEPT ![p] = 0]
      /\ addrs' = IF Published(p) THEN Forget(addrs, gone, {})
                  ELSE [Forget(addrs, gone, {}) EXCEPT
                          ![p] = MergeAllObserved(addrs[p], list)]
      /\ pubSeq' = Forget(pubSeq, gone, 0)
      /\ v2Seq' = Forget(v2Seq, gone, 0)
      /\ Emit(gone, {}, kept)
  BY Zenon DEF UpdateMember
<1>2. kept \in SUBSET members /\ kept \in SUBSET Peers
  BY DEF TableInv, TypeOK
<1>3. TypeOK'
  <2>1. older' \subseteq members' \X members'
    BY <1>1 DEF TableInv, TypeOK, Without, BucketOf
  <2>2. announced' \subseteq Peers /\ closeView' \subseteq Peers
    BY <1>1, <1>2, KClosestType DEF TableInv, TypeOK, Emit
  <2>3. addrs' \in [Peers -> SUBSET TypedAddrs]
    BY <1>1, ForgetAll, MergeAllType DEF TableInv
  <2>4. age' \in [Peers -> 0..(LiveThreshold + 1)]
    BY <1>1, ForgetAll, Sizes DEF TableInv
  <2>5. QED
    BY <1>1, <1>2, <2>1, <2>2, <2>3, <2>4, ForgetAll DEF TableInv, TypeOK
<1>4. BucketCapacity'
  <2>1. SUFFICES ASSUME NEW r \in Peers
                 PROVE  Cardinality(BucketOf(kept, r)) <= K
    BY <1>1 DEF BucketCapacity, BucketOf
  <2>2. Cardinality(BucketOf(kept, r)) <= Cardinality(BucketOf(members, r))
    BY <1>2, BucketShrinks DEF TableInv, TypeOK
  <2>3. Cardinality(BucketOf(kept, r)) \in Nat /\ Cardinality(BucketOf(members, r)) \in Nat
    BY <1>2, BucketFinite DEF TableInv, TypeOK
  <2>4. QED
    BY <2>2, <2>3, Sizes DEF TableInv, BucketCapacity
<1>5. PublicationsOfMembers'
  BY <1>1 DEF TableInv, PublicationsOfMembers, Published, Forget
<1>6. EventsTellMembership'
  BY <1>1 DEF TableInv, EventsTellMembership, Emit, KClosest
<1>7. QED
  BY <1>3, <1>4, <1>5, <1>6 DEF TableInv

\* Steps that leave the membership and its events alone.
LEMMA SameMembersKeepInv ==
    ASSUME TableInv, TypeOK', UNCHANGED <<members, announced, closeView>>,
           PublicationsOfMembers'
    PROVE  TableInv'
BY DEF TableInv, BucketCapacity, BucketOf, EventsTellMembership, KClosest

\* try_touch_last_seen keeps the invariant.
LEMMA TouchFastKeepsInv ==
    ASSUME TableInv, NEW p \in Peers, NEW noop, TouchFast(p, noop)
    PROVE  TableInv'
<1>1. TypeOK'
  BY Sizes DEF TableInv, TypeOK, TouchFast
<1>2. PublicationsOfMembers'
  BY DEF TableInv, PublicationsOfMembers, Published, TouchFast
<1>3. QED
  BY <1>1, <1>2, SameMembersKeepInv DEF TouchFast

\* Storing a member's publication keeps the invariant.
LEMMA ReplaceKeepsInv ==
    ASSUME TableInv, NEW p \in Peers, p \in members, NEW list, NEW refreshes,
           \A i \in DOMAIN list : list[i] \in TypedAddrs,
           Replace(p, list, refreshes),
           pubSeq' \in [Peers -> 0..MaxSeq], v2Seq' \in [Peers -> 0..MaxSeq],
           \A q \in Peers \ {p} : pubSeq'[q] = pubSeq[q] /\ v2Seq'[q] = v2Seq[q]
    PROVE  TableInv'
<1>1. addrs' \in [Peers -> SUBSET TypedAddrs]
  BY StorableType DEF Replace, TableInv, TypeOK
<1>2. age' \in [Peers -> 0..(LiveThreshold + 1)] /\ older' \subseteq members \X members
  BY Sizes DEF Replace, Refresh, Without, BucketOf, TableInv, TypeOK
<1>3. TypeOK'
  BY <1>1, <1>2 DEF Replace, TableInv, TypeOK
<1>4. PublicationsOfMembers'
  BY DEF Replace, TableInv, PublicationsOfMembers, Published
<1>5. QED
  BY <1>3, <1>4, SameMembersKeepInv DEF Replace

\* V1 and V2 publications keep the invariant.
LEMMA PublishKeepsInv ==
    ASSUME TableInv, NEW p \in Peers, Publish(p)
    PROVE  TableInv'
<1>1. PICK sent \in PublishLists, seq \in 0..MaxSeq, refreshes \in BOOLEAN :
        \/ PublishV1(p, sent, seq, refreshes)
        \/ StoreTransportAddressSet(p, sent, seq, refreshes)
  BY DEF Publish
<1>2. \A i \in DOMAIN sent : sent[i] \in TypedAddrs
  BY TableConstants
<1>3. CASE PublishV1(p, sent, seq, refreshes)
  <2> DEFINE list == IF AllowLoopback THEN sent ELSE NotLoopback(sent)
  <2>1. \A i \in DOMAIN list : list[i] \in TypedAddrs
    BY <1>2 DEF NotLoopback
  <2>2. /\ Replace(p, list, refreshes)
        /\ p \in members
        /\ pubSeq' = [pubSeq EXCEPT ![p] = seq]
        /\ v2Seq' = v2Seq
    BY <1>3 DEF PublishV1, ReplaceApplies
  <2>3. /\ pubSeq' \in [Peers -> 0..MaxSeq] /\ v2Seq' \in [Peers -> 0..MaxSeq]
        /\ \A q \in Peers \ {p} : pubSeq'[q] = pubSeq[q] /\ v2Seq'[q] = v2Seq[q]
    BY <2>2 DEF TableInv, TypeOK
  <2> HIDE DEF list
  <2>4. QED
    BY <2>1, <2>2, <2>3, ReplaceKeepsInv
<1>4. CASE StoreTransportAddressSet(p, sent, seq, refreshes)
  <2>1. /\ Replace(p, sent, refreshes)
        /\ p \in members
        /\ pubSeq' = [pubSeq EXCEPT ![p] = seq]
        /\ v2Seq' = [v2Seq EXCEPT ![p] = seq]
    BY <1>4 DEF StoreTransportAddressSet, ReplaceApplies
  <2>2. /\ pubSeq' \in [Peers -> 0..MaxSeq] /\ v2Seq' \in [Peers -> 0..MaxSeq]
        /\ \A q \in Peers \ {p} : pubSeq'[q] = pubSeq[q] /\ v2Seq'[q] = v2Seq[q]
    BY <2>1 DEF TableInv, TypeOK
  <2>3. QED
    BY <1>2, <2>1, <2>2, ReplaceKeepsInv
<1>5. QED
  BY <1>1, <1>3, <1>4

\* Every way through add_node keeps the invariant: an admission inserts only
\* after MakesRoom.
LEMMA AddNodeKeepsInv ==
    ASSUME TableInv, NEW p \in Peers, AddNode(p)
    PROVE  TableInv'
<1>1. PICK list \in ConnectLists[p] :
        AddKnown(p, list) \/ AddBypassing(p, list) \/ AddWithDiversity(p, list)
  BY DEF AddNode
<1>2. \A i \in DOMAIN list : list[i] \in TypedAddrs
  BY TableConstants
<1>3. CASE AddKnown(p, list)
  <2>1. p \in members /\ p \notin {} /\ UpdateMember(p, list, {})
    BY <1>3 DEF AddKnown
  <2>2. QED
    BY <2>1, UpdateMemberKeepsInv
<1>4. CASE AddBypassing(p, list)
  <2>1. p \notin members /\ Insert(p, list, {})
    BY <1>4 DEF AddBypassing, HasRoom
  <2>2. ~Published(p)
    BY <2>1 DEF TableInv, PublicationsOfMembers
  <2>3. Cardinality(BucketOf(members \ {}, p)) < K
    BY <1>4, <2>2 DEF AddBypassing, BucketOf, HasRoom
  <2>4. {} \in SUBSET members
    OBVIOUS
  <2>5. QED
    BY <1>2, <2>1, <2>3, <2>4, InsertKeepsInv
<1>5. CASE AddWithDiversity(p, list)
  <2>1. p \notin members
    BY <1>5 DEF AddWithDiversity
  <2>2. PICK trust \in TrustFns, ips \in Orders(ListIps(Storable(list))) :
          \E plan \in DiversityPlans(members, p, ips, trust) :
             /\ CanInsert(members, p, plan, trust)
             /\ Insert(p, list, Evictions(members, p, plan, trust))
    BY <1>5 DEF AddWithDiversity
  <2>3. PICK plan \in DiversityPlans(members, p, ips, trust) :
             /\ CanInsert(members, p, plan, trust)
             /\ Insert(p, list, Evictions(members, p, plan, trust))
    BY <2>2
  <2>4. members \in SUBSET Peers /\ Cardinality(BucketOf(members, p)) <= K
    BY DEF TableInv, TypeOK, BucketCapacity
  <2>5. /\ Evictions(members, p, plan, trust) \in SUBSET members
        /\ Cardinality(BucketOf(members \ Evictions(members, p, plan, trust), p)) < K
    BY <2>3, <2>4, MakesRoom
  <2>6. QED
    BY <1>2, <2>1, <2>3, <2>5, InsertKeepsInv
<1>6. QED
  BY <1>1, <1>3, <1>4, <1>5

\* An empty table satisfies the invariant.
LEMMA InitEstablishesInv == Init => TableInv
<1> SUFFICES ASSUME Init PROVE TableInv
  OBVIOUS
<1>1. TypeOK
  BY Sizes DEF Init, TypeOK
<1>2. BucketCapacity
  <2>1. \A p \in Peers : BucketOf(members, p) = {}
    BY DEF Init, BucketOf
  <2>2. QED
    BY <2>1, FS_EmptySet, Sizes DEF BucketCapacity
<1>3. PublicationsOfMembers
  BY DEF Init, PublicationsOfMembers, Published
<1>4. EventsTellMembership
  BY DEF Init, EventsTellMembership, KClosest
<1>5. QED
  BY <1>1, <1>2, <1>3, <1>4 DEF TableInv

\* Every operation on the table keeps the invariant.
LEMMA NextKeepsInv == TableInv /\ [Next]_vars => TableInv'
<1> SUFFICES ASSUME TableInv, [Next]_vars PROVE TableInv'
  OBVIOUS
<1>1. ASSUME NEW p \in Peers, AddNode(p) PROVE TableInv'
  BY <1>1, AddNodeKeepsInv
<1>2. ASSUME NEW p \in Peers, RemoveNodeById(p) PROVE TableInv'
  BY <1>2, RemoveNodesKeepsInv DEF RemoveNodeById
<1>3. ASSUME NEW p \in Peers, NEW x, TouchSlow(p, x) PROVE TableInv'
  <2>1. p \in members /\ p \notin {} /\ UpdateMember(p, <<x>>, {})
    BY <1>3 DEF TouchSlow
  <2>2. QED
    BY <2>1, UpdateMemberKeepsInv
<1>4. ASSUME NEW p \in Peers, TouchNode(p) PROVE TableInv'
  BY <1>3, <1>4, TouchFastKeepsInv DEF TouchNode
<1>5. ASSUME NEW p \in Peers, Publish(p) PROVE TableInv'
  BY <1>5, PublishKeepsInv
<1>6. ASSUME NEW p \in Peers, NEW x \in ObservedAddrs, MergeGossip(p, x) PROVE TableInv'
  <2>1. x \in TypedAddrs
    BY TableConstants
  <2>2. addrs[p] \in SUBSET TypedAddrs
    BY DEF TableInv, TypeOK
  <2>3. TypeOK'
    BY <1>6, <2>1, <2>2, MergeType DEF MergeGossip, TableInv, TypeOK
  <2>4. PublicationsOfMembers'
    BY <1>6 DEF MergeGossip, TableInv, PublicationsOfMembers, Published
  <2>5. QED
    BY <1>6, <2>3, <2>4, SameMembersKeepInv DEF MergeGossip
<1>7. ASSUME NEW p \in Peers, NEW a, TouchLegacyRelayHint(p, a) PROVE TableInv'
  BY <1>3, <1>7 DEF TouchLegacyRelayHint
<1>8. CASE Tick
  <2>1. \A q \in Peers : ~IsStale(q) => age[q] + 1 \in 0..(LiveThreshold + 1)
    BY Sizes DEF IsStale, TableInv, TypeOK
  <2>2. TypeOK'
    BY <1>8, <2>1 DEF Tick, TableInv, TypeOK
  <2>3. PublicationsOfMembers'
    BY <1>8 DEF Tick, TableInv, PublicationsOfMembers, Published
  <2>4. QED
    BY <1>8, <2>2, <2>3, SameMembersKeepInv DEF Tick
<1>9. CASE UNCHANGED vars
  BY <1>9 DEF vars, TableInv, TypeOK, BucketCapacity, BucketOf, PublicationsOfMembers,
              Published, EventsTellMembership, KClosest
<1>10. QED
  BY <1>1, <1>2, <1>4, <1>5, <1>6, <1>7, <1>8, <1>9 DEF Next

\* In every behaviour of the routing table the inductive invariant holds.
THEOREM TableInvariant == Spec => []TableInv
BY InitEstablishesInv, NextKeepsInv, PTL DEF Spec

\* Type correctness of the routing table.
THEOREM TypeCorrectness == Spec => []TypeOK
<1>1. TableInv => TypeOK
  BY DEF TableInv
<1>2. QED
  BY <1>1, TableInvariant, PTL

\* KBucket::add_node never pushes a bucket past K peers, whatever swaps the
\* two diversity scopes and the trust rule planned.
THEOREM Capacity == Spec => []BucketCapacity
<1>1. TableInv => BucketCapacity
  BY DEF TableInv
<1>2. QED
  BY <1>1, TableInvariant, PTL

\* address_publications has no entry for a peer that holds no slot.
THEOREM NoOrphanPublications == Spec => []PublicationsOfMembers
<1>1. TableInv => PublicationsOfMembers
  BY DEF TableInv
<1>2. QED
  BY <1>1, TableInvariant, PTL

\* The events returned by the engine add up to the table.
THEOREM EventsComplete == Spec => []EventsTellMembership
<1>1. TableInv => EventsTellMembership
  BY DEF TableInv
<1>2. QED
  BY <1>1, TableInvariant, PTL

------------------------------------------------------------------------------
(* Protection of live, trusted peers; stability of owner publications *)

\* No swap an admission plans costs a live, well-trusted peer its slot.
LEMMA EvictedPeersReplaceable ==
    ASSUME TypeOK, NEW p \in Peers \ members, NEW trust \in TrustFns, NEW ips,
           NEW plan \in DiversityPlans(members, p, ips, trust),
           NEW q \in Evictions(members, p, plan, trust)
    PROVE  trust[q] < TrustProtection \/ IsStale(q)
<1>1. members \in SUBSET Peers
  BY DEF TypeOK
<1>2. CASE q \in plan.bucket \cup plan.close
  BY <1>1, <1>2, PlanFacts
<1>3. CASE q \in TrustSwap(members, p, trust)
  <2>1. q \in Peers /\ trust[q] < SwapThreshold
    BY <1>1, <1>3 DEF TrustSwap, BucketOf
  <2>2. trust[q] \in 0..100
    <3>1. trust \in [Peers -> 0..100]
      BY TableConstants, Zenon
    <3>2. QED
      BY <2>1, <3>1, Zenon
  <2>3. SwapThreshold \in 0..99 /\ TrustProtection \in 0..100 /\ SwapThreshold <= TrustProtection
    BY TableConstants
  <2>4. QED
    BY <2>1, <2>2, <2>3
<1>4. QED
  BY <1>2, <1>3 DEF Evictions

\* find_ip_swap_in_scope and find_trust_swap never give away the slot of a
\* peer that is live and at or above TRUST_PROTECTION_THRESHOLD.
THEOREM TrustProtected == Spec => []LiveTrustedPeersKeepSlots
<1>1. TypeOK => LiveTrustedPeersKeepSlots
  BY EvictedPeersReplaceable DEF LiveTrustedPeersKeepSlots
<1>2. QED
  BY <1>1, TypeCorrectness, PTL

\* An insertion leaves the addresses of other members alone.
LEMMA InsertKeepsOthers ==
    ASSUME NEW r \in Peers, r \notin members, NEW list, NEW gone, Insert(r, list, gone),
           NEW p \in members \cap members', p \in Peers, TypeOK
    PROVE  addrs'[p] = addrs[p]
<1>1. p # r /\ p \notin gone
  BY DEF Insert, HasRoom
<1>2. Forget(addrs, gone, {})[p] = addrs[p]
  BY <1>1 DEF Forget
<1>3. Forget(addrs, gone, {}) \in [Peers -> SUBSET TypedAddrs]
  BY ForgetAll
<1>4. \/ addrs' = Forget(addrs, gone, {})
      \/ addrs' = [Forget(addrs, gone, {}) EXCEPT ![r] = AdmittedRecord(list)]
  BY Zenon DEF Insert, HasRoom
<1>5. QED
  BY <1>1, <1>2, <1>3, <1>4

\* touch_node and add_node leave published addresses alone.
LEMMA UpdateKeepsPublished ==
    ASSUME NEW r \in Peers, NEW list, NEW gone, UpdateMember(r, list, gone),
           NEW p \in members \cap members', p \in Peers, TypeOK, Published(p)
    PROVE  addrs'[p] = addrs[p]
<1>1. p \notin gone
  BY DEF UpdateMember
<1>2. Forget(addrs, gone, {})[p] = addrs[p]
  BY <1>1 DEF Forget
<1>3. Forget(addrs, gone, {}) \in [Peers -> SUBSET TypedAddrs]
  BY ForgetAll
<1>4. \/ addrs' = Forget(addrs, gone, {})
      \/ /\ ~Published(r)
         /\ addrs' = [Forget(addrs, gone, {}) EXCEPT ![r] = MergeAllObserved(addrs[r], list)]
  BY Zenon DEF UpdateMember
<1>5. QED
  BY <1>2, <1>3, <1>4

\* A publication replaces a published record only by a newer one.
LEMMA PublishKeepsSnapshot ==
    ASSUME TypeOK, NEW r \in Peers, Publish(r)
    PROVE  SnapshotKept
<1>1. PICK sent \in PublishLists, seq \in 0..MaxSeq, refreshes \in BOOLEAN :
        \/ PublishV1(r, sent, seq, refreshes)
        \/ StoreTransportAddressSet(r, sent, seq, refreshes)
  BY DEF Publish
<1>2. CASE PublishV1(r, sent, seq, refreshes)
  BY <1>2, Sizes DEF PublishV1, Replace, SnapshotKept, TypeOK
<1>3. CASE StoreTransportAddressSet(r, sent, seq, refreshes)
  BY <1>3, Sizes DEF StoreTransportAddressSet, Replace, SnapshotKept, TypeOK
<1>4. QED
  BY <1>1, <1>2, <1>3

\* Every operation respects published records.
LEMMA NextKeepsSnapshots == TypeOK /\ [Next]_vars => [SnapshotKept]_vars
<1> SUFFICES ASSUME TypeOK, Next PROVE SnapshotKept
  BY DEF SnapshotKept
<1>1. members \subseteq Peers
  BY DEF TypeOK
<1>2. ASSUME NEW r \in Peers, NEW list, NEW gone, UpdateMember(r, list, gone)
      PROVE  SnapshotKept
  BY <1>1, <1>2, UpdateKeepsPublished DEF SnapshotKept
<1>3. ASSUME NEW r \in Peers, AddNode(r) PROVE SnapshotKept
  <2>1. PICK list \in ConnectLists[r] :
          AddKnown(r, list) \/ AddBypassing(r, list) \/ AddWithDiversity(r, list)
    BY <1>3 DEF AddNode
  <2>2. CASE AddKnown(r, list)
    BY <1>2, <2>2 DEF AddKnown
  <2>3. ASSUME r \notin members, NEW gone, Insert(r, list, gone) PROVE SnapshotKept
    BY <1>1, <2>3, InsertKeepsOthers DEF SnapshotKept
  <2>4. CASE AddBypassing(r, list)
    BY <2>3, <2>4 DEF AddBypassing, HasRoom
  <2>5. CASE AddWithDiversity(r, list)
    BY <2>3, <2>5 DEF AddWithDiversity
  <2>6. QED
    BY <2>1, <2>2, <2>4, <2>5
<1>4. ASSUME NEW r \in Peers, RemoveNodeById(r) PROVE SnapshotKept
  BY <1>1, <1>4 DEF RemoveNodeById, RemoveNodes, Forget, SnapshotKept
<1>5. ASSUME NEW r \in Peers, TouchNode(r) PROVE SnapshotKept
  BY <1>2, <1>5 DEF TouchNode, TouchSlow, TouchFast, SnapshotKept
<1>6. ASSUME NEW r \in Peers, NEW x, MergeGossip(r, x) PROVE SnapshotKept
  BY <1>1, <1>6 DEF MergeGossip, SnapshotKept, TypeOK
<1>7. ASSUME NEW r \in Peers, NEW a, TouchLegacyRelayHint(r, a) PROVE SnapshotKept
  BY <1>2, <1>7 DEF TouchLegacyRelayHint, TouchSlow
<1>8. CASE Tick
  BY <1>8 DEF Tick, SnapshotKept
<1>9. QED
  BY <1>3, <1>4, <1>5, <1>6, <1>7, <1>8, PublishKeepsSnapshot DEF Next

\* Observations never overwrite what a peer published about itself.
THEOREM SnapshotsStable == Spec => PublishedSnapshotStable
<1>1. Spec => []TypeOK
  BY TypeCorrectness
<1>2. QED
  BY <1>1, NextKeepsSnapshots, PTL DEF Spec, PublishedSnapshotStable
=============================================================================
