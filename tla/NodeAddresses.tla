---------------------------- MODULE NodeAddresses ----------------------------
(***************************************************************************)
(* The typed address record of a routing-table entry (`NodeInfo` in        *)
(* dht/core_engine.rs), seen as what it holds rather than how it is laid   *)
(* out: a set of typed addresses <<address, type>> in which every IP       *)
(* family has one slot for a relay, one for a WAN address and one for a    *)
(* LAN address.  AddressList models the two parallel vectors of the code   *)
(* and is checked to implement these operators.                            *)
(***************************************************************************)
EXTENDS Naturals, Sequences, FiniteSets

CONSTANTS
    Addrs,            \* addresses a peer can be recorded under
    Ips,              \* canonical IP addresses
    NoIp,             \* the IP of an address of a transport that has none
    IpOf,             \* address -> its IP, or NoIp
    FamilyOf,         \* IP -> "v4" or "v6"
    SubnetOf,         \* IP -> its /24 or /48
    LanIps,           \* local-scope IPs (private, link-local, loopback)
    LoopbackIps,      \* 127/8 and ::1
    UnstorableAddrs,  \* wildcard and port-zero addresses
    MaxAddresses      \* MAX_ADDRESSES_PER_NODE

ASSUME AddressConstants ==
    /\ NoIp \notin Ips
    /\ IpOf \in [Addrs -> Ips \cup {NoIp}]
    /\ FamilyOf \in [Ips -> {"v4", "v6"}]
    /\ DOMAIN SubnetOf = Ips
    /\ LoopbackIps \subseteq LanIps
    /\ LanIps \subseteq Ips
    /\ UnstorableAddrs \subseteq Addrs
    /\ MaxAddresses \in Nat \ {0}

AddressType == {"Relay", "Direct", "Unverified", "Lan"}

TypedAddrs == Addrs \X AddressType

priority == [Relay |-> 0, Direct |-> 1, Unverified |-> 2, Lan |-> 3]

\* A local-scope IP is always Lan, whatever its publisher claims.
ForAdvertisedAddress(a, ty) == IF IpOf[a] \in LanIps THEN "Lan" ELSE ty

IsLoopback(a) == IpOf[a] \in LoopbackIps

\* The addresses of a record that has an IP slot competing for it share Slot.
\* A transport without an IP is outside the per-family cap.
Slot(x) ==
    IF IpOf[x[1]] = NoIp THEN <<"any", x[1]>>
    ELSE <<FamilyOf[IpOf[x[1]]],
           IF x[2] \in {"Direct", "Unverified"} THEN "Wan" ELSE x[2]>>

\* A record whose slots are all taken is no longer than MaxAddresses: merges
\* truncate after the cap, which then removes nothing.  The code has six IP
\* slots and room for eight, so this is two addresses without an IP.
ASSUME RoomForEverySlot ==
    LET storable == (Addrs \ UnstorableAddrs) \X AddressType
    IN  Cardinality({Slot(<<x[1], ForAdvertisedAddress(x[1], x[2])>>) : x \in storable})
          <= MaxAddresses

AllIps(record) == {IpOf[x[1]] : x \in record} \ {NoIp}

\* merge_typed_address: the newest entry takes its slot, except that an
\* Unverified address never displaces a Direct one of the same family.
MergeTyped(record, a, ty) ==
    LET x    == <<a, ForAdvertisedAddress(a, ty)>>
        rest == {y \in record : y[1] # a}
        outranked == /\ x[2] = "Unverified"
                     /\ IpOf[a] # NoIp
                     /\ \E y \in rest : Slot(y) = Slot(x) /\ y[2] = "Direct"
    IN  IF a \in UnstorableAddrs THEN record
        ELSE IF outranked THEN rest
        ELSE {y \in rest : Slot(y) # Slot(x)} \cup {x}

\* merge_typed_address_upgrade_only changes nothing when the address is
\* recorded with a tag at least as good.
UpgradeIsNoop(record, a, ty) ==
    \/ a \in UnstorableAddrs
    \/ \E y \in record :
          y[1] = a /\ priority[y[2]] <= priority[ForAdvertisedAddress(a, ty)]

MergeUpgradeOnly(record, a, ty) ==
    IF UpgradeIsNoop(record, a, ty) THEN record ELSE MergeTyped(record, a, ty)

\* The loopback-injection rule: a peer with a routable address never
\* acquires a loopback one.
LoopbackSkipped(record, a) ==
    IsLoopback(a) /\ \E y \in record : IpOf[y[1]] \in Ips \ LoopbackIps

\* touch_node_typed merges the address unless the loopback rule skips it.
MergeObserved(record, a, ty) ==
    IF LoopbackSkipped(record, a) THEN record ELSE MergeTyped(record, a, ty)

\* A list of typed addresses merged from left to right.
MergeAllObserved(record, list) ==
    LET acc[i \in 0..Len(list)] ==
            IF i = 0 THEN record
            ELSE MergeObserved(acc[i-1], list[i][1], list[i][2])
    IN  {x \in TypedAddrs : x \in acc[Len(list)]}

\* enforce_per_ip_family_cap on a list of typed addresses: the first Relay,
\* the first Direct or else the first Unverified, and the last Lan of each
\* family survive.
CapKeeps(list, i) ==
    LET x == list[i]
        Rivals == {j \in DOMAIN list : j # i /\ Slot(list[j]) = Slot(x)}
    IN  \/ IpOf[x[1]] = NoIp
        \/ \A j \in Rivals :
              CASE x[2] = "Lan"                                   -> j < i
                [] x[2] = "Direct" /\ list[j][2] = "Unverified"   -> TRUE
                [] x[2] = "Unverified" /\ list[j][2] = "Direct"   -> FALSE
                [] OTHER                                          -> i < j

Capped(list) == {list[i] : i \in {j \in DOMAIN list : CapKeeps(list, j)}}

\* The entries of a list that may be stored, under the type the receiver
\* gives them.  A filtered list keeps the positions of its entries.
Storable(list) ==
    [i \in {j \in DOMAIN list : list[j][1] \notin UnstorableAddrs} |->
        <<list[i][1], ForAdvertisedAddress(list[i][1], list[i][2])>>]

\* The first MaxAddresses entries of a list, as an admission takes them.
Truncated(list) ==
    [i \in {j \in DOMAIN list : Cardinality({k \in DOMAIN list : k < j}) < MaxAddresses} |->
        list[i]]

\* The order of a publication: by type priority, equal types as they came.
SortsBefore(list, k, j) ==
    \/ priority[list[k][2]] < priority[list[j][2]]
    \/ priority[list[k][2]] = priority[list[j][2]] /\ k < j

\* The MaxAddresses entries of a publication that sort first.
BestTruncated(list) ==
    [i \in {j \in DOMAIN list :
              Cardinality({k \in DOMAIN list : SortsBefore(list, k, j)}) < MaxAddresses} |->
        list[i]]

\* The record a peer is admitted with: filter, truncate, cap.
AdmittedRecord(list) == Capped(Truncated(Storable(list)))

\* The record a publication leaves: filter, sort, truncate, cap.  The cap
\* compares positions within one type, where the sort is stable.
PublishedRecord(list) == Capped(BestTruncated(Storable(list)))

NotLoopback(list) ==
    [i \in {j \in DOMAIN list : ~IsLoopback(list[j][1])} |-> list[i]]

ListIps(list) == AllIps({list[i] : i \in DOMAIN list})
=============================================================================
