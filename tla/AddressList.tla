----------------------------- MODULE AddressList -----------------------------
(***************************************************************************)
(* The address record as dht/core_engine.rs keeps it: `addresses` and      *)
(* `address_types`, two vectors of one length, here one sequence of typed  *)
(* addresses. Recency is encoded in positions, which merge_typed_address   *)
(* chooses and enforce_per_ip_family_cap reads. The set of its entries     *)
(* implements AddressRecord.                                               *)
(***************************************************************************)
EXTENDS NodeAddresses, SequencesExt

CONSTANTS AdmissionLists, Observations, PublishedLists

VARIABLES list, published

vars == <<list, published>>

FirstOf(S) == {i \in S : \A j \in S : i <= j}
LastOf(S) == {i \in S : \A j \in S : j <= i}

\* The entries at the given positions, arranged by the relation `before`.
Arranged(l, positions, before) ==
    [n \in 1..Cardinality(positions) |->
       l[CHOOSE i \in positions : Cardinality({j \in positions : <<j, i>> \in before}) = n - 1]]

\* The entries at the given positions, in order.
Pick(l, positions) ==
    Arranged(l, positions, {<<i, j>> \in positions \X positions : i < j})

Truncate(l) == SubSeq(l, 1, IF Len(l) < MaxAddresses THEN Len(l) ELSE MaxAddresses)

\* Faulty variant: the WAN tiers are not ranked, one of each is kept.
KeptPerTier(l, family) ==
    LET of(type) == {i \in DOMAIN l : /\ IpOf[l[i][1]] # NoIp
                                      /\ FamilyOf[IpOf[l[i][1]]] = family
                                      /\ l[i][2] = type}
    IN  UNION {FirstOf(of(type)) : type \in {"Relay", "Direct", "Unverified"}}
          \cup LastOf(of("Lan"))

\* The positions one IP family keeps: the first relay, the first of the best
\* WAN tier, the last LAN address.
KeptInFamily(l, family) ==
    LET of(type) == {i \in DOMAIN l : /\ IpOf[l[i][1]] # NoIp
                                      /\ FamilyOf[IpOf[l[i][1]]] = family
                                      /\ l[i][2] = type}
    IN  FirstOf(of("Relay"))
          \cup FirstOf(IF of("Direct") # {} THEN of("Direct") ELSE of("Unverified"))
          \cup LastOf(of("Lan"))

EnforcePerIpFamilyCap(l) ==
    Pick(l, {i \in DOMAIN l : IpOf[l[i][1]] = NoIp}
              \cup KeptInFamily(l, "v4") \cup KeptInFamily(l, "v6"))

\* Types that stay in front of a newly inserted Direct or Unverified entry.
Ahead(type) == IF type = "Direct" THEN {"Relay"} ELSE {"Relay", "Direct"}

\* Faulty variant: every entry is appended, so the oldest comes first.
AppendPosition(l, type) == Len(l) + 1

InsertPosition(l, type) ==
    LET first == SelectInSeq(l, LAMBDA x : x[2] \notin Ahead(type))
    IN  CASE type = "Relay"               -> 1
          [] type = "Lan" \/ first = 0    -> Len(l) + 1
          [] OTHER                        -> first

MergeTypedAddress(l, a, ty) ==
    LET x    == <<a, ForAdvertisedAddress(a, ty)>>
        old  == SelectInSeq(l, LAMBDA y : y[1] = a)
        rest == IF old = 0 THEN l ELSE RemoveAt(l, old)
    IN  IF a \in UnstorableAddrs THEN l
        ELSE Truncate(EnforcePerIpFamilyCap(
                        InsertAt(rest, InsertPosition(rest, x[2]), x)))

MergeTypedAddressUpgradeOnly(l, a, ty) ==
    LET old == SelectInSeq(l, LAMBDA y : y[1] = a)
    IN  IF old # 0 /\ priority[l[old][2]] <= priority[ForAdvertisedAddress(a, ty)]
        THEN l
        ELSE MergeTypedAddress(l, a, ty)

\* A list as it is received: unstorable entries dropped, types corrected.
Received(l) ==
    Pick([i \in DOMAIN l |-> <<l[i][1], ForAdvertisedAddress(l[i][1], l[i][2])>>],
         {i \in DOMAIN l : l[i][1] \notin UnstorableAddrs})

\* typed.sort_by_key: a stable sort by priority.
SortedByPriority(l) ==
    Arranged(l, DOMAIN l, {<<i, j>> \in (DOMAIN l) \X (DOMAIN l) : SortsBefore(l, i, j)})

HasRoutableIp(l) == \E i \in DOMAIN l : IpOf[l[i][1]] \in Ips \ LoopbackIps

------------------------------------------------------------------------------
\* KBucket::add_node, first insertion
Init ==
    /\ \E l \in AdmissionLists :
          list = EnforcePerIpFamilyCap(Truncate(Received(l)))
    /\ published = FALSE

\* Faulty variant: loopback addresses are merged like any other.
TouchWithAnyAddress(x) ==
    /\ ~published
    /\ list' = MergeTypedAddress(list, x[1], x[2])
    /\ UNCHANGED published

\* touch_node_typed, also for each address of a peer that connects again
TouchNodeTyped(x) ==
    /\ ~published
    /\ ~(IsLoopback(x[1]) /\ HasRoutableIp(list))
    /\ list' = MergeTypedAddress(list, x[1], x[2])
    /\ UNCHANGED published

\* KBucket::merge_typed_address_upgrade_only
MergeGossiped(x) ==
    /\ ~published
    /\ ~(IsLoopback(x[1]) /\ HasRoutableIp(list))
    /\ list' = MergeTypedAddressUpgradeOnly(list, x[1], x[2])
    /\ UNCHANGED published

\* Faulty variant: the list is truncated before it is sorted.
TruncateBeforeSort(l) ==
    /\ Received(l) = <<>> => l = <<>>
    /\ list' = EnforcePerIpFamilyCap(SortedByPriority(Truncate(Received(l))))
    /\ published' = TRUE

\* replace_node_addresses_with_mode
ReplaceNodeAddresses(l) ==
    /\ Received(l) = <<>> => l = <<>>
    /\ list' = EnforcePerIpFamilyCap(Truncate(SortedByPriority(Received(l))))
    /\ published' = TRUE

Next ==
    \/ \E x \in Observations : TouchNodeTyped(x) \/ MergeGossiped(x)
    \/ \E l \in PublishedLists : ReplaceNodeAddresses(l)

Spec == Init /\ [][Next]_vars

------------------------------------------------------------------------------
Record == INSTANCE AddressRecord WITH record <- ToSet(list)

\* The vectors of NodeInfo implement the record of sets: whatever the order of
\* observations, gossip and publications, the positions always encode which
\* entry of a slot is the newest, so the cap keeps the right one.
ImplementsRecord == Record!Spec

\* The limits of enforce_per_ip_family_cap hold however the record came about:
\* per IP family one relay, one WAN and one LAN address, and no Unverified
\* address beside a Direct one.
FamilyCap ==
    \A i, j \in DOMAIN list :
       i # j /\ IpOf[list[i][1]] # NoIp => Slot(list[i]) # Slot(list[j])

\* A peer with a routable address never acquires a loopback one by being
\* observed or gossiped about, and a record is never emptied by a merge.
NoLoopbackInjection ==
    [][~published' =>
         /\ list # <<>> => list' # <<>>
         /\ HasRoutableIp(list) =>
               {x \in ToSet(list') : IsLoopback(x[1])} \subseteq ToSet(list)]_vars
==============================================================================
