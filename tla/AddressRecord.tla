---------------------------- MODULE AddressRecord ----------------------------
(***************************************************************************)
(* What a routing-table entry promises about its addresses, as a state     *)
(* machine over the set of typed addresses: the newest observation takes   *)
(* its slot, and once the owner has published, observations change nothing.*)
(***************************************************************************)
EXTENDS NodeAddresses

CONSTANTS
    AdmissionLists,   \* typed address lists a peer may be admitted under
    Observations,     \* typed addresses that touches, hints and gossip carry
    PublishedLists    \* typed address lists of an owner's publication

VARIABLES record,     \* the set of typed addresses
          published   \* whether the owner's publication is stored

Init ==
    /\ \E list \in AdmissionLists : record = AdmittedRecord(list)
    /\ published = FALSE

Observe(x) ==
    /\ ~published
    /\ record' = MergeObserved(record, x[1], x[2])
    /\ UNCHANGED published

Gossip(x) ==
    /\ ~published
    /\ ~LoopbackSkipped(record, x[1])
    /\ record' = MergeUpgradeOnly(record, x[1], x[2])
    /\ UNCHANGED published

Publish(list) ==
    /\ DOMAIN list # {} => DOMAIN Storable(list) # {}
    /\ record' = PublishedRecord(list)
    /\ published' = TRUE

Next ==
    \/ \E x \in Observations : Observe(x) \/ Gossip(x)
    \/ \E list \in PublishedLists : Publish(list)

Spec == Init /\ [][Next]_<<record, published>>
==============================================================================
