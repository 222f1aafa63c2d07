----------------------------- MODULE RoutingTable -----------------------------
(***************************************************************************)
(* The Kademlia routing table of one node (dht/core_engine.rs): admission  *)
(* with IP diversity, swap-closer and trust-based eviction, liveness,      *)
(* owner publications, and the events handed to consumers.                 *)
(*                                                                         *)
(* A peer is its XOR distance from the local node, which is 0.  Every      *)
(* operation runs under the routing table's write lock (touches of a       *)
(* record that need no merge: under the read lock with an atomic store),   *)
(* so each is one action.  An admission that is refused changes nothing    *)
(* and is no step.                                                         *)
(***************************************************************************)
EXTENDS NodeAddresses, Integers

CONSTANTS
    Peers,             \* XOR distances of the peers that exist
    MulticastIps,      \* IPs that are never a peer's endpoint
    IdBits,            \* width of an identifier; the code's is 256
    K,                 \* k_value: bucket size and close-group size
    LimitIp,           \* nodes per exact IP in one scope
    LimitSubnet,       \* nodes per subnet in one scope
    AllowLoopback,
    SwapThreshold,     \* trust below which a peer may be swapped out, in %
    TrustProtection,   \* TRUST_PROTECTION_THRESHOLD, in %
    LiveThreshold,     \* ticks without contact before a peer is stale
    MaxSeq,            \* bound on publication sequence numbers
    ConnectLists,      \* peer -> typed address lists it may connect under
    TrustFns,          \* trust assignments (peer -> %) the engine may report
    ObservedAddrs,     \* typed addresses that touches, hints and gossip carry
    PublishLists       \* typed address lists a publication may carry

ASSUME TableConstants ==
    /\ Peers \subseteq 1..(2^IdBits - 1) /\ IsFiniteSet(Peers)
    /\ IdBits \in Nat \ {0}
    /\ MulticastIps \subseteq Ips
    /\ K \in Nat /\ K >= 4
    /\ LimitIp \in Nat /\ LimitSubnet \in Nat
    /\ AllowLoopback \in BOOLEAN
    /\ SwapThreshold \in 0..99
    /\ TrustProtection \in 0..100 /\ SwapThreshold <= TrustProtection
    /\ LiveThreshold \in Nat /\ MaxSeq \in Nat
    /\ \A p \in Peers : ConnectLists[p] \subseteq Seq(TypedAddrs)
    /\ TrustFns \subseteq [Peers -> 0..100]
    /\ ObservedAddrs \subseteq TypedAddrs
    /\ PublishLists \subseteq Seq(TypedAddrs)

VARIABLES
    members,    \* peers present in some bucket
    older,      \* <<q, p>>: q and p share a bucket, q is nearer its head
    age,        \* ticks since last_seen, capped just above LiveThreshold
    addrs,      \* peer -> its typed address record
    pubSeq,     \* peer -> AddressPublication::seq, 0 when none
    v2Seq,      \* peer -> sequence of the stored V2 publication, 0 when none
    announced,  \* the membership the emitted events add up to
    closeView   \* the K closest peers the emitted events add up to

vars == <<members, older, age, addrs, pubSeq, v2Seq, announced, closeView>>

\* Type invariant: the order of the buckets relates members only, and ages and
\* sequence numbers stay in their ranges (KBucket, AddressPublication).
TypeOK ==
    /\ members \subseteq Peers
    /\ older \subseteq members \X members
    /\ age \in [Peers -> 0..(LiveThreshold + 1)]
    /\ addrs \in [Peers -> SUBSET TypedAddrs]
    /\ pubSeq \in [Peers -> 0..MaxSeq]
    /\ v2Seq \in [Peers -> 0..MaxSeq]
    /\ announced \subseteq Peers
    /\ closeView \subseteq Peers

------------------------------------------------------------------------------
(* Geometry *)

\* The first bit in which a peer's identifier differs from ours.
bucketIndex ==
    [p \in Peers |->
       CHOOSE i \in 0..(IdBits-1) : 2^(IdBits-1-i) <= p /\ p < 2^(IdBits-i)]

BucketOf(S, p) == {q \in S : bucketIndex[q] = bucketIndex[p]}

\* Faulty variant: a full bucket takes one more.
HasRoomForOneMore(S, p) == Cardinality(BucketOf(S, p)) <= K

\* nodes.len() < max_size
HasRoom(S, p) == Cardinality(BucketOf(S, p)) < K

\* find_closest_nodes(self, K): bucket boundaries play no part.
KClosest(S) == {p \in S : Cardinality({q \in S : q < p}) < K}

Farthest(S) == CHOOSE q \in S : \A r \in S : r <= q

IsStale(p) == age[p] > LiveThreshold

\* has_address_publication
Published(p) == pubSeq[p] # 0 \/ v2Seq[p] # 0

------------------------------------------------------------------------------
(* Admission decisions: pure functions of the table T, the candidate and   *)
(* the trust scores read while the lock is held.                           *)

NoSwap == 0
Refused == -1

SharesIp(q, ip) == ip \in AllIps(addrs[q]) \ LoopbackIps
SharesSubnet(q, ip) ==
    \E other \in AllIps(addrs[q]) \ LoopbackIps : SubnetOf[other] = SubnetOf[ip]

\* Faulty variant: trust protects nobody.
DisplaceAnyone(rivals, p, trust) ==
    IF rivals # {} /\ p < Farthest(rivals) THEN Farthest(rivals) ELSE Refused

\* The farthest violator yields to a closer candidate unless it is both
\* well trusted and live.
Displace(rivals, p, trust) ==
    IF /\ rivals # {}
       /\ p < Farthest(rivals)
       /\ trust[Farthest(rivals)] < TrustProtection \/ IsStale(Farthest(rivals))
    THEN Farthest(rivals)
    ELSE Refused

\* Faulty variant: the subnet limit is tested off by one.
IpSwapOverLimit(scope, p, ip, trust) ==
    LET sameIp  == {q \in scope \ {p} : SharesIp(q, ip)}
        sameNet == {q \in scope \ {p} : SharesSubnet(q, ip)}
    IN  IF ip \in LoopbackIps THEN NoSwap
        ELSE IF Cardinality(sameIp) >= LimitIp THEN Displace(sameIp, p, trust)
        ELSE IF Cardinality(sameNet) > LimitSubnet THEN Displace(sameNet, p, trust)
        ELSE NoSwap

\* find_ip_swap_in_scope; addrs of the candidate itself are never counted.
IpSwap(scope, p, ip, trust) ==
    LET sameIp  == {q \in scope \ {p} : SharesIp(q, ip)}
        sameNet == {q \in scope \ {p} : SharesSubnet(q, ip)}
    IN  IF ip \in LoopbackIps THEN NoSwap
        ELSE IF Cardinality(sameIp) >= LimitIp THEN Displace(sameIp, p, trust)
        ELSE IF Cardinality(sameNet) >= LimitSubnet THEN Displace(sameNet, p, trust)
        ELSE NoSwap

\* The candidate's IPs are checked one after another, in the order a hash
\* set yields them, each against the scope without the earlier swaps.  Only
\* a peer of one of its subnets can be swapped, and no set is planned when
\* some IP is refused.
SwapSets(scope, p, ips, trust) ==
    LET rivals == {q \in scope : \E i \in DOMAIN ips : SharesSubnet(q, ips[i])}
        plans  == {f \in [DOMAIN ips -> rivals \cup {NoSwap}] :
                     \A i \in DOMAIN ips :
                       f[i] = IpSwap(scope \ {f[j] : j \in 1..(i-1)}, p, ips[i], trust)}
    IN  {{f[i] : i \in DOMAIN ips} \ {NoSwap} : f \in plans}

\* The candidate would enter the close group once `swaps` are gone.
InClose(T, p, swaps) ==
    LET rest == KClosest(T) \ swaps
    IN  Cardinality(rest) < K \/ p < Farthest(rest)

HypotheticalClose(T, p, swaps) == KClosest((KClosest(T) \ swaps) \cup {p})

CloseSwaps(T, p, swaps, ips, trust) ==
    IF InClose(T, p, swaps)
    THEN SwapSets(HypotheticalClose(T, p, swaps), p, ips, trust)
    ELSE {{}}

\* Bucket swaps, then the close-group swaps they lead to.
DiversityPlans(T, p, ips, trust) ==
    UNION {{[bucket |-> B, close |-> C] : C \in CloseSwaps(T, p, B, ips, trust)}
             : B \in SwapSets(BucketOf(T, p), p, ips, trust)}

\* The head-most of the least trusted peers of the bucket, when the
\* candidate is at the swap threshold and that peer below it.
TrustSwap(T, p, trust) ==
    LET low == {q \in BucketOf(T, p) : trust[q] < SwapThreshold}
    IN  IF SwapThreshold > 0 /\ trust[p] >= SwapThreshold
        THEN {q \in low : \A r \in low \ {q} :
                 \/ trust[q] < trust[r]
                 \/ trust[q] = trust[r] /\ <<q, r>> \in older}
        ELSE {}

SlotFree(T, p, plan) ==
    \/ HasRoom(T, p)
    \/ plan.bucket # {}
    \/ \E q \in plan.close : bucketIndex[q] = bucketIndex[p]

Evictions(T, p, plan, trust) ==
    plan.bucket \cup plan.close
      \cup (IF SlotFree(T, p, plan) THEN {} ELSE TrustSwap(T, p, trust))

CanInsert(T, p, plan, trust) == SlotFree(T, p, plan) \/ TrustSwap(T, p, trust) # {}

\* The peers StaleRevalidationNeeded names when nothing else frees a slot.
StalePeers(T, p, plan) ==
    {q \in BucketOf(T, p) \cup plan.close : IsStale(q)}

\* Orders in which a set of IPs can be checked.
Orders(S) == {s \in [1..Cardinality(S) -> S] :
                \A i, j \in DOMAIN s : i # j => s[i] # s[j]}

------------------------------------------------------------------------------
(* Table mutations *)

\* Faulty variant: removed peers keep their place in the bucket order.
WithoutNobody(gone) == older

\* Bucket order once the peers of `gone` left.
Without(gone) == {e \in older : e[1] \notin gone /\ e[2] \notin gone}

\* KademliaRoutingTable::remove_node drops the entry and its publication.
Forget(f, gone, default) == [q \in Peers |-> IF q \in gone THEN default ELSE f[q]]

\* Faulty variant: swapped-out peers are removed without an event.
EmitAdditions(gone, new, after) ==
    /\ announced' = announced \cup new
    /\ closeView' = IF KClosest(members) # KClosest(after)
                    THEN KClosest(after) ELSE closeView

\* The consumer's view after the events of a mutation that took the table
\* to `after`: PeerRemoved for each of `gone`, PeerAdded for each of `new`,
\* KClosestPeersChanged when the close group differs.
Emit(gone, new, after) ==
    /\ announced' = (announced \ gone) \cup new
    /\ closeView' = IF KClosest(members) # KClosest(after)
                    THEN KClosest(after) ELSE closeView

\* Refresh of last_seen with the move to the tail of the bucket.
Refresh(p) ==
    /\ age' = [age EXCEPT ![p] = 0]
    /\ older' = Without({p}) \cup (BucketOf(members, p) \ {p}) \X {p}

\* The peers of `gone` are removed and p is inserted under `list`.  A peer
\* that still has a publication is only touched by
\* KademliaRoutingTable::add_node, and a bucket without room refuses p after
\* the removals: the error then discards their events.
Insert(p, list, gone) ==
    LET kept   == members \ gone
        fits   == HasRoom(kept, p)
        adds   == fits /\ ~Published(p)
        after  == IF adds THEN kept \cup {p} ELSE kept
    IN  /\ members' = after
        /\ older' = IF adds THEN Without(gone) \cup BucketOf(kept, p) \X {p}
                    ELSE Without(gone)
        /\ age' = Forget(age, gone, 0)
        /\ addrs' = IF adds
                    THEN [Forget(addrs, gone, {}) EXCEPT ![p] = AdmittedRecord(list)]
                    ELSE Forget(addrs, gone, {})
        /\ pubSeq' = Forget(pubSeq, gone, 0)
        /\ v2Seq' = Forget(v2Seq, gone, 0)
        /\ IF fits \/ Published(p) THEN Emit(gone, {p}, after)
           ELSE UNCHANGED <<announced, closeView>>

\* Faulty variant: the publications of removed peers stay behind.
RemoveNodesOnly(gone) ==
    /\ members' = members \ gone
    /\ older' = Without(gone)
    /\ age' = Forget(age, gone, 0)
    /\ addrs' = Forget(addrs, gone, {})
    /\ Emit(gone, {}, members \ gone)
    /\ UNCHANGED <<pubSeq, v2Seq>>

\* remove_node_by_id for each of `gone`
RemoveNodes(gone) ==
    /\ members' = members \ gone
    /\ older' = Without(gone)
    /\ age' = Forget(age, gone, 0)
    /\ addrs' = Forget(addrs, gone, {})
    /\ pubSeq' = Forget(pubSeq, gone, 0)
    /\ v2Seq' = Forget(v2Seq, gone, 0)
    /\ Emit(gone, {}, members \ gone)

\* add_node for a peer that holds a slot, once the peers of `gone` are
\* removed: liveness, and its addresses unless the owner published them.
UpdateMember(p, list, gone) ==
    LET kept == members \ gone
    IN  /\ members' = kept
        /\ older' = Without(gone \cup {p}) \cup (BucketOf(kept, p) \ {p}) \X {p}
        /\ age' = [Forget(age, gone, 0) EXCEPT ![p] = 0]
        /\ addrs' = IF Published(p) THEN Forget(addrs, gone, {})
                    ELSE [Forget(addrs, gone, {}) EXCEPT
                            ![p] = MergeAllObserved(addrs[p], list)]
        /\ pubSeq' = Forget(pubSeq, gone, 0)
        /\ v2Seq' = Forget(v2Seq, gone, 0)
        /\ Emit(gone, {}, kept)

\* What add_node tests before any diversity rule.
Acceptable(list) ==
    /\ DOMAIN Storable(list) # {}
    /\ ListIps(Storable(list)) \cap MulticastIps = {}
    /\ ListIps(Storable(list)) \cap LoopbackIps # {} => AllowLoopback

\* Candidates that no diversity rule applies to.
Bypasses(list) == ListIps(Storable(list)) \subseteq LoopbackIps

------------------------------------------------------------------------------
(* Operations *)

\* add_node, the peer is already in its bucket.
AddKnown(p, list) ==
    /\ Acceptable(list)
    /\ p \in members
    /\ UpdateMember(p, list, {})

\* add_node for a candidate with loopback or non-IP addresses only.
AddBypassing(p, list) ==
    /\ Acceptable(list)
    /\ Bypasses(list)
    /\ p \notin members
    /\ Published(p) \/ HasRoom(members, p)
    /\ Insert(p, list, {})

\* add_with_diversity reaching Admitted.
AddWithDiversity(p, list) ==
    /\ Acceptable(list)
    /\ ~Bypasses(list)
    /\ p \notin members
    /\ \E trust \in TrustFns, ips \in Orders(ListIps(Storable(list))) :
          \E plan \in DiversityPlans(members, p, ips, trust) :
             /\ CanInsert(members, p, plan, trust)
             /\ Insert(p, list, Evictions(members, p, plan, trust))

AddNode(p) ==
    \E list \in ConnectLists[p] :
       AddKnown(p, list) \/ AddBypassing(p, list) \/ AddWithDiversity(p, list)

RemoveNodeById(p) ==
    /\ p \in members
    /\ RemoveNodes({p})

\* try_touch_last_seen: nothing to merge, so last_seen is stored under the
\* read lock and the bucket is left as it is.
TouchFast(p, noop) ==
    /\ p \in members
    /\ noop
    /\ age' = [age EXCEPT ![p] = 0]
    /\ UNCHANGED <<members, older, addrs, pubSeq, v2Seq, announced, closeView>>

TouchIsNoop(p, x) ==
    LET y == <<x[1], ForAdvertisedAddress(x[1], x[2])>>
    IN  \/ Published(p)
        \/ y \in addrs[p]
        \/ /\ \A z \in addrs[p] : z[1] # x[1]
           /\ LoopbackSkipped(addrs[p], x[1])

\* touch_node under the write lock.  The fast path may have given up on a
\* record that changed before the write lock was taken, so that the merge
\* needed nothing is no guard here.
TouchSlow(p, x) ==
    /\ p \in members
    /\ UpdateMember(p, <<x>>, {})

TouchNode(p) ==
    \/ TouchFast(p, TRUE)                     \* no address to merge
    \/ \E x \in ObservedAddrs :
          \/ TouchFast(p, TouchIsNoop(p, x))
          \/ TouchSlow(p, x)

\* touch_legacy_relay_hint_if_unsequenced
TouchLegacyRelayHint(p, a) ==
    /\ ~Published(p)
    /\ TouchSlow(p, <<a, "Relay">>)

\* Whether a publication applies at all: a list of nothing but wildcards is
\* refused, one of nothing but loopback (when loopback is not allowed) leaves
\* the peer without addresses.
ReplaceApplies(p, list) ==
    p \in members /\ (DOMAIN list # {} => DOMAIN Storable(list) # {})

Replace(p, list, refreshes) ==
    /\ addrs' = [addrs EXCEPT ![p] = PublishedRecord(list)]
    /\ IF refreshes THEN Refresh(p) ELSE UNCHANGED <<age, older>>
    /\ UNCHANGED <<members, announced, closeView>>

\* Faulty variant: V1 competes with V2 by sequence number.
PublishV1OverV2(p, sent, seq, refreshes) ==
    LET list == IF AllowLoopback THEN sent ELSE NotLoopback(sent)
    IN  /\ sent # <<>>
        /\ seq > pubSeq[p]
        /\ ReplaceApplies(p, list)
        /\ Replace(p, list, refreshes)
        /\ pubSeq' = [pubSeq EXCEPT ![p] = seq]
        /\ UNCHANGED v2Seq

\* replace_node_addresses and replace_node_addresses_from_gossip: V1 is
\* ordered by its own sequence and yields to any stored V2 publication.
PublishV1(p, sent, seq, refreshes) ==
    LET list == IF AllowLoopback THEN sent ELSE NotLoopback(sent)
    IN  /\ sent # <<>>
        /\ seq # 0
        /\ v2Seq[p] = 0
        /\ seq > pubSeq[p]
        /\ ReplaceApplies(p, list)
        /\ Replace(p, list, refreshes)
        /\ pubSeq' = [pubSeq EXCEPT ![p] = seq]
        /\ UNCHANGED v2Seq

\* store_transport_address_set: V2 is ordered by V2 sequences only.
StoreTransportAddressSet(p, list, seq, refreshes) ==
    /\ seq # 0
    /\ seq > v2Seq[p]
    /\ ReplaceApplies(p, list)
    /\ Replace(p, list, refreshes)
    /\ pubSeq' = [pubSeq EXCEPT ![p] = seq]
    /\ v2Seq' = [v2Seq EXCEPT ![p] = seq]

Publish(p) ==
    \E list \in PublishLists, seq \in 0..MaxSeq, refreshes \in BOOLEAN :
       \/ PublishV1(p, list, seq, refreshes)
       \/ StoreTransportAddressSet(p, list, seq, refreshes)

\* merge_typed_address_upgrade_only: gossip widens an unpublished record and
\* is no evidence of liveness.
MergeGossip(p, x) ==
    /\ p \in members
    /\ ~Published(p)
    /\ ~LoopbackSkipped(addrs[p], x[1])
    /\ ~UpgradeIsNoop(addrs[p], x[1], x[2])
    /\ addrs' = [addrs EXCEPT ![p] = MergeUpgradeOnly(addrs[p], x[1], x[2])]
    /\ UNCHANGED <<members, older, age, pubSeq, v2Seq, announced, closeView>>

\* Time passes for every entry at once.
Tick ==
    /\ \E p \in members : ~IsStale(p)
    /\ age' = [p \in Peers |-> IF p \in members /\ ~IsStale(p) THEN age[p] + 1
                                ELSE age[p]]
    /\ UNCHANGED <<members, older, addrs, pubSeq, v2Seq, announced, closeView>>

Init ==
    /\ members = {}
    /\ older = {}
    /\ age = [p \in Peers |-> 0]
    /\ addrs = [p \in Peers |-> {}]
    /\ pubSeq = [p \in Peers |-> 0]
    /\ v2Seq = [p \in Peers |-> 0]
    /\ announced = {}
    /\ closeView = {}

Next ==
    \/ \E p \in Peers :
         \/ AddNode(p)
         \/ RemoveNodeById(p)
         \/ TouchNode(p)
         \/ Publish(p)
         \/ \E x \in ObservedAddrs : MergeGossip(p, x) \/ TouchLegacyRelayHint(p, x[1])
    \/ Tick

Spec == Init /\ [][Next]_vars

------------------------------------------------------------------------------
(* Properties *)

\* Capacity (`KBucket::max_size`): no bucket holds more than K peers, although
\* an admission decides on swaps in two scopes before it inserts.
BucketCapacity == \A p \in Peers : Cardinality(BucketOf(members, p)) <= K

\* `address_publications` holds no entry for a peer without a slot: such an
\* entry would make `KademliaRoutingTable::add_node` report success without
\* inserting the peer.
PublicationsOfMembers == \A p \in Peers : Published(p) => p \in members

\* The events of `add_node` and `remove_node_by_id`, replayed in order, give
\* the membership of the table and its K closest peers: no eviction is
\* silent and nothing is announced that did not happen.
EventsTellMembership == announced = members /\ closeView = KClosest(members)

\* The three together with TypeOK are inductive: capacity needs the bucket
\* bound, and an insertion that finds a publication inserts nobody.
TableInv == TypeOK /\ BucketCapacity /\ PublicationsOfMembers /\ EventsTellMembership

\* The per-bucket diversity rule of `add_with_diversity` is kept by every
\* sequence of admissions, swaps and removals as long as peers keep the
\* addresses they were admitted under.
BucketDiversity ==
    \A p \in members, ip \in Ips \ LoopbackIps :
       LET bucket == BucketOf(members, p)
       IN  /\ Cardinality({q \in bucket : SharesIp(q, ip)}) <= LimitIp
           /\ Cardinality({q \in bucket : SharesSubnet(q, ip)}) <= LimitSubnet

\* docs/ROUTING_TABLE_DESIGN.md section 5 rule 6: the same limits hold in the
\* routing neighbourhood, the K closest peers to self.
CloseGroupDiversity ==
    \A ip \in Ips \ LoopbackIps :
       /\ Cardinality({q \in KClosest(members) : SharesIp(q, ip)}) <= LimitIp
       /\ Cardinality({q \in KClosest(members) : SharesSubnet(q, ip)}) <= LimitSubnet

\* A live peer at or above TRUST_PROTECTION_THRESHOLD keeps its slot against
\* every candidate, whichever of the three swap rules an admission uses.
LiveTrustedPeersKeepSlots ==
    \A p \in Peers \ members, trust \in TrustFns :
       \A list \in ConnectLists[p] :
          \A ips \in Orders(ListIps(Storable(list))) :
             \A plan \in DiversityPlans(members, p, ips, trust) :
                \A q \in Evictions(members, p, plan, trust) :
                   trust[q] < TrustProtection \/ IsStale(q)

\* A step leaves the addresses of a published record alone unless it stores a
\* newer publication of the same kind or the first of V2.
SnapshotKept ==
    \A p \in members \cap members' :
       Published(p) /\ addrs'[p] # addrs[p] =>
          v2Seq'[p] > v2Seq[p] \/ (v2Seq'[p] = 0 /\ pubSeq'[p] > pubSeq[p])

\* Once an owner's publication is stored, only a newer one changes the
\* recorded addresses: not connections, touches, relay hints, gossip, or a
\* V1 publication after a V2 one.
PublishedSnapshotStable == [][SnapshotKept]_vars
=============================================================================
