# saorsa-core: TLA+ models, model checking and proofs

saorsa-core is the peer-to-peer layer of a decentralised network: every node
keeps a Kademlia routing table of authenticated peers, looks keys up
iteratively, dials peers through direct addresses or relays, and publishes its
own addresses. This directory models the parts of it whose correctness depends
on orders of events that tests hardly reach. Modules are written from the Rust
sources under `src/src/`; `PROJECT.json` names the lines of every definition.

## 1. Inventory

| Component | State | Operations | What makes it hard | Properties |
|---|---|---|---|---|
| Routing table (`dht/core_engine.rs`) | buckets, `last_seen`, publications | admit, remove, touch, publish, gossip | swaps planned in two scopes before one insertion; two lock paths for a touch; V1 and V2 publications in any order | capacity, diversity, complete events, trust protection, stable publications |
| Address record (`NodeInfo`) | two parallel vectors | merge, cap, replace | recency encoded in positions | implements a record of sets; family cap |
| Revalidation (`dht_network_manager.rs`) | semaphore, bucket guards, tasks, events under way | connect, ping, evict and retry, sweep, broadcast | pings run without the lock; events leave after it | bounded work, slots come back, consumers know the table |
| Iterative lookup (`dht_lookup.rs`) | queue, peer states, in flight, results | rounds, outcomes, deadline | any answers, ineligible peers, cancellation | limits, agreement, convergence, termination |
| Requests and dials (`dht_network_manager.rs`) | `active_operations`, `pending_peer_dials`, identity-failure cache | request, join, dial, identity, answer, cancel, sweep | cancellation at every await; late and duplicate answers | one dial, one penalty, nobody waits for ever |
| Channel registry, lifecycle (`transport_handle.rs`) | `peer_to_channel`, `channel_to_peers` | register, lose, disconnect | maps updated one after the other; events after locks | *planned* |
| Transport requests (`transport_handle.rs`, `network.rs`) | active requests, reconnect locks | send, answer, reconnect | stale channel snapshots | *planned* |
| Relay driver, canaries (`reachability/`) | relay held, last publication, backoff | acquire, verify, publish, hold, lose | buffered losses, lost publications | *planned* |
| Address publication (`dht_network_manager.rs`, `self_address.rs`) | sequence, targets | publish, record outcome | clock, partial failure | *planned* (the receiver is in `RoutingTable`) |
| Dial-failure cache | address and IP tiers | record, suppress, exempt | expiry against exemption | *planned* |
| External addresses (`transport/`) | pins, observations, proofs | observe, prove, pin | either order, on two tasks | *planned* |
| Bootstrap, caches, background tasks | cooldowns, files | save, load, re-bootstrap | crash between steps | *planned* |
| Trust engine (`adaptive/`) | scores | record, decay, import | real-valued decay | input of `RoutingTable` |
| Rate limiter, client routing | token buckets, snapshots | consume, route | window boundaries | *planned* |
| Identity, cryptography, validation, geography, errors | none | pure functions | — | not modelled |

The parts interact through three things: the routing table's lock, the event
broadcast, and the transport's view of who is connected.

## 2. Plan

Modules are built in the order in which others rest on them.

1. **Core, done**: `NodeAddresses`, `RoutingTable`, `AddressRecord` and
   `AddressList`, `StaleRevalidation`, `IterativeLookup`, `PeerDial`, with the
   proofs listed in section 6.
2. **Transport**: the channel registry (registration, loss and events as
   separate steps), then requests with reconnects. Composition: `PeerDial`
   over the registry in place of `ConnectionChanges`, and over
   `StaleRevalidation` for pings that join a dial of someone else.
3. **Reachability**: relay driver with canary verdict and acquisition, the
   publication sender over `RoutingTable`'s receiver, external addresses.
4. **Surroundings**: the lookup adapter, the dial-failure cache, bootstrap and
   caches over restarts, client routing, the rate limiter, bucket refresh.
5. **Proofs to add**: `RevalidationsBounded` and `MembersAnnounced`,
   `BucketDiversity` for peers with fixed addresses, the step simulation behind
   `ImplementsRecord`, the registry's invariant.

## 3. Modules and the code

**NodeAddresses** gives the typed addresses of a peer as a set of
`<<address, type>>`. Every IP family has a slot for a relay, a WAN and a LAN
address, which is what `enforce_per_ip_family_cap` leaves. Its operators are
the merges, the cap, the filters and the truncations of `NodeInfo` and
`KBucket`: `AdmittedRecord` filters, truncates and caps the list of an
admission, `PublishedRecord` filters, sorts by type, truncates and caps that of
a publication, so that a list longer than `MAX_ADDRESSES_PER_NODE` keeps the
entries the code keeps. A merge is not truncated: by `RoomForEverySlot` the
record after its cap has room for all slots (in the code six for IP addresses
and two non-IP addresses, within eight).

**RoutingTable** is one node's table. A peer is its XOR distance from the node,
so its bucket and the close group follow from the number. Each operation of
`DhtCoreEngine` holds the table's lock and is one action: `AddNode` (split into
`AddKnown`, `AddBypassing`, `AddWithDiversity`), `RemoveNodeById`, `TouchNode`
(the read-lock path `TouchFast` and the write-lock path `TouchSlow`),
`TouchLegacyRelayHint`, `Publish` (`PublishV1`, `StoreTransportAddressSet`),
`MergeGossip`; `Tick` lets time pass. The order inside a bucket is the relation
`older`, time is an age capped just above the liveness threshold, and trust
scores are an input read during the admission. The events an operation returns
are folded into `announced` and `closeView`, the view of somebody who replays
them. A refused admission changes nothing and is no step; a request for
revalidation is a step of `StaleRevalidation`.

**AddressRecord** says what an address record promises; **AddressList** keeps
the vectors of the code, with positions, and implements it under the mapping
`record <- ToSet(list)`.

**StaleRevalidation** composes the table with the tasks that share it: the
event handler, spawned revalidations, the sweep after a self lookup, requests
that drop a peer. Each actor keeps the events of its mutation in `outbox` until
it broadcasts them; `mirror` is what a consumer has been told. A revalidation
takes its permit (`TakePermit`, or `NoPermit` ends it) and then its bucket
(`TakeBucket`, or `BucketBusy` ends it and gives the permit back); other tasks
may run between the two. `Tasks` bounds the number of revalidations and
`MaxSweeps` that of sweeps, `Responsive` are the peers that may answer and
`Rejected` those a request may drop, whether they are still there or not.
`PromptBroadcast` selects the schedules in which nobody mutates between a
mutation and its broadcast. Pings that run side by side end in one step; an
answer that came sooner is an `InboundMessage` before it. Shutdown is not modelled: it drops the tasks and the table with them.

**IterativeLookup** is the state machine of `dht_lookup.rs` and its runner. A
peer is its distance from the target. The adapter is the environment: it
chooses who is eligible, who answers what, when the deadline strikes and when
it fails.

**PeerDial** has concurrent calls of `send_dht_request_inner` to one peer;
coordination is per peer, so one is enough. Steps end where the code awaits or
where another thread can interleave on a shared map. `CancelRequest` is the
drop of the future; it is allowed before every step except the broadcast, which
follows the vacated slot without an await. That also admits a drop between a
confirmed identity and the vacated slot, which the code does not have: the
invariants hold with it. Which addresses a dial tries, and in which order, is
abstracted to whether one of them opens. `ConnectionChanges` stands for the
transport.

`*Proofs` modules hold the theorems, `MC*` modules the instances. Definitions
marked *Faulty variant* stand beside the definition they distort; they show
that each property can be violated by a plausible bug and are used by no
specification.

## 4. Runs

| Run | Result | Distinct states | What it shows |
|---|---|---|---|
| `MCAdmission` | holds | 14,051 | capacity, diversity per bucket, complete events, trust protection |
| `MCPublication` | holds | 2,373 | only a newer publication changes a published record; no orphan publications |
| `MCAddressList` | holds | 2,557 | the vectors implement the record of sets |
| `MCRevalidation` | holds | 44,851 | slots accounted for and always given back; admissions never hidden |
| `MCLookup` | holds | 994,502 | limits, agreement, convergence, no second query, termination |
| `MCLookupHonest` | holds | 182,513 | a converged lookup found the closest peers |
| `MCPeerDial` | holds | 17,736 | one dial, one penalty, no leaked entry, every request returns |
| `MCCloseGroup` | violated | | the close group exceeds its subnet limit after a removal |
| `MCDroppedEvents` | violated | | a refused retry loses the events of its evictions |
| `MCEventOrder` | violated | | events of two tasks arrive in the opposite order |
| `MCFailedDial` | violated | | a peer that connected meanwhile counts as a failed dial |
| `MCSweptRequest` | violated | | a running request is swept from the correlation table |

The five violated runs each state a sentence of the design document or of a
comment; `PROJECT.json` quotes it beside the line that departs from it.

### Bounds

- `MCAdmission`: identifiers of 4 bits, K = 4 (the smallest the code
  accepts), one peer per IP and two per subnet. Seven peers compete for one
  bucket, so it fills, overflows, and swaps for diversity and for trust; two in
  a nearer bucket share IPs with them, so that the close group differs from the
  bucket and swaps on its own. Two peers are dual-stack, so an admission checks
  several IPs. Admissions with two swaps in the bucket, with two in the close
  group, with one in each, with a swap for the subnet alone and with a swap for
  trust all occur. One tick makes a peer stale. Peers keep their addresses, as
  `BucketDiversity` requires.
- `MCPublication`: two peers, sequences 0 to 2 (none, older, newer), lists with
  a routable, a wildcard and a loopback address, records of at most four and one
  list of five.
- `MCAddressList`: nine addresses cover every type, both families, a transport
  without an IP and a wildcard. Records hold at most seven addresses, the number
  of slots of the instance; lists of eight storable entries are truncated on
  admission and, after the sort, on publication. A non-IP address, which the cap
  never drops, occurs once in a list.
- `MCRevalidation`: two full buckets. The run starts when a candidate of each
  has connected: the revalidation of the far bucket, whose members left
  silently, holds a permit and pings; that of the near one, whose first peer is
  stale, has been spawned. A third may follow for either candidate. With two
  permits, a revalidation fails for want of a permit or, holding one, because
  its bucket is busy, and two run side by side on different buckets. The
  candidates share an IP, of which the close group may hold one peer, so
  admitting one can refuse the retry of the other. One near peer may answer, so
  pings succeed, fail and fail in part; the far candidate may be dropped once
  admitted; one sweep. The runs that end in a violation have one bucket and need
  one revalidation or none.
- `MCCloseGroup`: five peers in two buckets, no bucket above its limits. Three
  share a subnet; the removal of a near peer moves the third of them into the
  close group.
- `MCLookup*`: seven distances, two or three results, alpha 2, at most 3 or 6
  rounds, queue of 3 or 2: rounds run out, queues overflow, and results are
  both short and full.
- `MCPeerDial`: two requests are an owner and its subscriber, or an owner that
  still broadcasts and the owner of the next dial. The theorems of section 6
  cover any number of requests.

Deadlock is checked except for the lookups, which really end.

### Fairness

- `RevalidationFairness`: every task that is ready runs, every ping ends within
  `STALE_REVALIDATION_BUDGET` (`tokio::time::timeout`), and a task that waits for
  the table's lock gets it, because tokio's `RwLock` is first-in first-out
  (strong fairness: other mutators disable the step again and again). Nothing is
  assumed of peers, which may never answer, or of connections.
- `IterativeLookup`: weak fairness of the walk. The adapter's batches are
  bounded by timeouts; deadlines and failures are not assumed to happen.
- `PeerDial`: weak fairness of a request's own steps: dial, identity exchange
  and wait for an answer all have timeouts. Answers, cancellations and
  connections are not fair.

## 5. What the violations mean

They are disagreements between text and code, found while modelling; each is
the smallest run that exhibits it. Consumers that recompute from the table, as
the design document allows them to, are not misled by lost or reordered events.
The swept request needs a dial plan that outlasts twice the request timeout,
which several addresses tried one after another can.

## 6. Proofs

`tlapm` checks three proof modules, for every value of the constants that
satisfies the named assumptions (`AddressConstants`, `TableConstants`,
`LookupConstants`, `DialConstants`). No proof uses `RoomForEverySlot`; it is what
makes the records of sets the code's.

- **RoutingTableProofs**. `TableInv` is inductive: type, capacity, publications
  of members only, events complete. They need one another: an insertion that
  finds a publication inserts nobody but announces the peer, so complete events
  need `PublicationsOfMembers`; an insertion announces its victims only if it
  fits, so they need that a planned eviction in the candidate's bucket frees a
  slot of a bucket within capacity. The theorems `Capacity`,
  `NoOrphanPublications`, `EventsComplete`, `TypeCorrectness` follow.
  `TrustProtected` shows by cases on the three swap rules that nobody both live
  and trusted is evicted, and `SnapshotsStable` is the action property from the
  same invariant, one case per action.
- **LookupProofs**. `LookupInv` adds to the checked invariants that a stopped
  lookup has a reason to be stopped and that the requests in flight are counted
  in the queries of the round (`QueriesCounted`), which a round caps at alpha: the
  bound on the requests in flight follows from the count, not from a guard on
  them. It is inductive, and `CollectionsAgree`,
  `LimitsHold`, `ConvergenceSound` and the action property `NoRequery` follow.
- **PeerDialProofs**. `DialInv` adds that the requests in an owning step hold the
  slot, and the accounts of every request: what it has been charged at each
  step, and which outcomes it can have learnt there. `SingleDial`,
  `SinglePenalty`, `WaitersServed` and `NoLeakedOperation` follow, for any
  number of requests.

Only model-checked: liveness (`SlotsComeBack`, `LookupEnds`, `RequestsEnd`),
which the prover does not reach; the refinement `ImplementsRecord`, whose
sequences are cut, sorted and extended position by position; `FindsClosest`,
which depends on the honest network of its instance; `BucketDiversity`,
`RevalidationsBounded` and `MembersAnnounced`, which are planned.

## 7. Not modelled

The planned components of section 1. Cryptography, hashing, parsing and
formatting, logging, metrics, static geography tables and configuration
builders have no state to check. QUIC itself is an external library and appears
as nondeterministic connection changes.
