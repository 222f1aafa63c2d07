-------------------------- MODULE StaleRevalidation --------------------------
(***************************************************************************)
(* The tasks of DhtNetworkManager that share the routing table: the        *)
(* handler of PeerConnected events, the spawned stale-peer revalidations,  *)
(* the sweep over stale K-closest peers that follows a self-lookup, and    *)
(* requests that drop a peer.  Pings run without the lock, so the table    *)
(* changes between the decision to ping and the eviction; events are       *)
(* broadcast after the lock is released.                                   *)
(***************************************************************************)
EXTENDS RoutingTable

CONSTANTS
    Tasks,              \* the revalidations that may be spawned, once each
    MaxRevalidations,   \* MAX_CONCURRENT_REVALIDATIONS
    Responsive,         \* peers that may answer or send (the rest left silently)
    Rejected,           \* peers that a request may drop, gone silent or not
    MaxSweeps,          \* bound on the sweeps that self-lookups run
    PromptBroadcast     \* TRUE: only schedules in which an actor broadcasts
                        \* its events before another one changes the table

ASSUME RevalidationConstants ==
    /\ MaxRevalidations \in Nat \ {0}
    /\ Responsive \subseteq Peers /\ Rejected \subseteq Peers
    /\ MaxSweeps \in Nat /\ PromptBroadcast \in BOOLEAN
    /\ Tasks \cap {"events", "requests", "sweep"} = {}

VARIABLES
    task,           \* spawned revalidations
    permits,        \* free permits of revalidation_semaphore
    bucketActive,   \* bucket_revalidation_active
    sweep,          \* revalidate_stale_k_closest, one at a time
    outbox,         \* actor -> events returned by the engine, not broadcast yet
    mirror          \* membership according to the events a consumer received

taskVars == <<task, permits, bucketActive>>
allVars == <<vars, taskVars, sweep, outbox, mirror>>

Actors == Tasks \cup {"events", "requests", "sweep"}

NoTask == [st |-> "idle", cand |-> 0, list |-> <<>>, stale |-> {}]
EndedTask == [NoTask EXCEPT !.st = "ended"]
NoSweep == [st |-> "idle", stale |-> {}, left |-> MaxSweeps]
NoEvents == [gone |-> {}, new |-> {}]

\* Type invariant of the tasks around the table (revalidation_semaphore,
\* bucket_revalidation_active, the pending events of each actor).
RevalidationTypeOK ==
    /\ TypeOK
    /\ \A t \in Tasks : /\ task[t].st \in {"idle", "spawned", "permitted",
                                           "pinging", "pinged", "ended"}
                        /\ task[t].cand \in Peers \cup {0}
                        /\ task[t].stale \subseteq Peers
    /\ permits \in 0..MaxRevalidations
    /\ bucketActive \subseteq 0..(IdBits-1)
    /\ sweep.st \in {"idle", "pinging", "pinged"}
    /\ sweep.stale \subseteq Peers /\ sweep.left \in 0..MaxSweeps
    /\ \A a \in Actors : outbox[a].gone \cup outbox[a].new \subseteq Peers
    /\ mirror \subseteq Peers

------------------------------------------------------------------------------
(* An actor keeps the events of its mutation until it has broadcast them. *)

MayMutate(actor) ==
    /\ outbox[actor] = NoEvents
    /\ PromptBroadcast => \A a \in Actors : outbox[a] = NoEvents

Keep(actor) ==
    outbox' = [outbox EXCEPT ![actor] = [gone |-> announced \ announced',
                                         new  |-> announced' \ announced]]

Broadcast(actor) ==
    /\ outbox[actor] # NoEvents
    /\ mirror' = (mirror \ outbox[actor].gone) \cup outbox[actor].new
    /\ outbox' = [outbox EXCEPT ![actor] = NoEvents]
    /\ UNCHANGED <<vars, taskVars, sweep>>

------------------------------------------------------------------------------
(* handle_peer_connected, run by the one transport event processor *)

\* Task identities are interchangeable, so any unused one may be taken.
FreeTasks == {t \in Tasks : task[t].st = "idle"}

\* add_node asks for revalidation: a task is spawned, the table is unchanged.
Deferred(p, list) ==
    /\ Acceptable(list)
    /\ ~Bypasses(list)
    /\ p \notin members
    /\ \E trust \in TrustFns, ips \in Orders(ListIps(Storable(list))) :
          \E plan \in DiversityPlans(members, p, ips, trust) :
             /\ ~CanInsert(members, p, plan, trust)
             /\ StalePeers(members, p, plan) # {}
             /\ FreeTasks # {}
             /\ task' = [task EXCEPT ![CHOOSE t \in FreeTasks : TRUE] =
                   [st |-> "spawned", cand |-> p, list |-> list,
                    stale |-> StalePeers(members, p, plan)]]
    /\ UNCHANGED <<vars, permits, bucketActive, sweep, outbox, mirror>>

HandlePeerConnected(p) ==
    /\ MayMutate("events")
    /\ \/ /\ AddNode(p)
          /\ Keep("events")
          /\ UNCHANGED <<taskVars, sweep, mirror>>
       \/ \E list \in ConnectLists[p] : Deferred(p, list)

------------------------------------------------------------------------------
(* revalidate_and_retry_admission *)

BucketIdx(t) == bucketIndex[task[t].cand]

\* try_acquire_owned on revalidation_semaphore
TakePermit(t) ==
    /\ task[t].st = "spawned"
    /\ permits > 0
    /\ task' = [task EXCEPT ![t].st = "permitted"]
    /\ permits' = permits - 1
    /\ UNCHANGED <<vars, bucketActive, sweep, outbox, mirror>>

\* Nobody queues for a permit: the attempt fails when there is none.
NoPermit(t) ==
    /\ task[t].st = "spawned"
    /\ permits = 0
    /\ task' = [task EXCEPT ![t] = EndedTask]
    /\ UNCHANGED <<vars, permits, bucketActive, sweep, outbox, mirror>>

\* Faulty variant: the bucket is marked active without a look at who marked it.
TakeBucketUnchecked(t) ==
    /\ task[t].st = "permitted"
    /\ task' = [task EXCEPT ![t].st = "pinging"]
    /\ bucketActive' = bucketActive \cup {BucketIdx(t)}
    /\ UNCHANGED <<vars, permits, sweep, outbox, mirror>>

\* The candidate's bucket is marked in bucket_revalidation_active.
TakeBucket(t) ==
    /\ task[t].st = "permitted"
    /\ BucketIdx(t) \notin bucketActive
    /\ task' = [task EXCEPT ![t].st = "pinging"]
    /\ bucketActive' = bucketActive \cup {BucketIdx(t)}
    /\ UNCHANGED <<vars, permits, sweep, outbox, mirror>>

\* Another task holds the bucket: the error drops the permit, not the guard.
BucketBusy(t) ==
    /\ task[t].st = "permitted"
    /\ BucketIdx(t) \in bucketActive
    /\ task' = [task EXCEPT ![t] = EndedTask]
    /\ permits' = permits + 1
    /\ UNCHANGED <<vars, bucketActive, sweep, outbox, mirror>>

\* The pings run side by side; an answer touches its peer before the ping
\* returns.  One step stands for the end of the last ping: an answer that came
\* sooner is an InboundMessage before it.
PingsReturn(pinged, failed) ==
    /\ pinged \ Responsive \subseteq failed
    /\ age' = [q \in Peers |-> IF q \in members \cap (pinged \ failed) THEN 0 ELSE age[q]]
    /\ UNCHANGED <<members, older, addrs, pubSeq, v2Seq, announced, closeView>>

\* Faulty variant: pings without a time budget; a silent peer is awaited for ever.
PingStalePeersUntimed(t) ==
    /\ task[t].st = "pinging"
    /\ task[t].stale \subseteq Responsive
    /\ PingsReturn(task[t].stale, {})
    /\ task' = [task EXCEPT ![t].st = "pinged", ![t].stale = {}]
    /\ UNCHANGED <<permits, bucketActive, sweep, outbox, mirror>>

PingStalePeers(t) ==
    /\ task[t].st = "pinging"
    /\ \E failed \in SUBSET task[t].stale :
          /\ task' = [task EXCEPT ![t].st = "pinged", ![t].stale = failed]
          /\ PingsReturn(task[t].stale, failed)
    /\ UNCHANGED <<permits, bucketActive, sweep, outbox, mirror>>

\* The permit and the bucket guard are dropped on every way out.
Release(t) ==
    /\ task' = [task EXCEPT ![t] = EndedTask]
    /\ permits' = permits + 1
    /\ bucketActive' = bucketActive \ {BucketIdx(t)}

\* re_evaluate_admission on the table without the peers of `gone`.
RetryAdmits(t, gone) ==
    LET p == task[t].cand
        T == members \ gone
    IN  \/ /\ p \in T
           /\ UpdateMember(p, task[t].list, gone)
        \/ /\ p \notin T
           /\ \E trust \in TrustFns, ips \in Orders(ListIps(Storable(task[t].list))) :
                \E plan \in DiversityPlans(T, p, ips, trust) :
                   /\ CanInsert(T, p, plan, trust)
                   /\ Insert(p, task[t].list, gone \cup Evictions(T, p, plan, trust))

RetryRefused(t, gone) ==
    LET p == task[t].cand
        T == members \ gone
    IN  /\ p \notin T
        /\ \E trust \in TrustFns, ips \in Orders(ListIps(Storable(task[t].list))) :
             \A plan \in DiversityPlans(T, p, ips, trust) : ~CanInsert(T, p, plan, trust)

\* Faulty variant: the events of a successful retry are not broadcast either.
EvictAndRetrySilently(t) ==
    LET gone == task[t].stale \cap members
    IN  /\ task[t].st = "pinged" /\ task[t].stale # {}
        /\ MayMutate(t)
        /\ \/ RetryAdmits(t, gone)
           \/ RetryRefused(t, gone) /\ RemoveNodes(gone)
        /\ Release(t)
        /\ UNCHANGED <<sweep, outbox, mirror>>

\* Every peer that failed its ping is evicted, whatever happened to it since;
\* a refused retry returns the error and drops the events of the evictions.
EvictAndRetry(t) ==
    LET gone == task[t].stale \cap members
    IN  /\ task[t].st = "pinged" /\ task[t].stale # {}
        /\ MayMutate(t)
        /\ Release(t)
        /\ \/ RetryAdmits(t, gone) /\ Keep(t)
           \/ RetryRefused(t, gone) /\ RemoveNodes(gone) /\ UNCHANGED outbox
        /\ UNCHANGED <<sweep, mirror>>

AllAnswered(t) ==
    /\ task[t].st = "pinged" /\ task[t].stale = {}
    /\ Release(t)
    /\ UNCHANGED <<vars, sweep, outbox, mirror>>

------------------------------------------------------------------------------
(* revalidate_stale_k_closest: no semaphore and no bucket guard *)

SweepStart ==
    LET stale == {q \in KClosest(members) : IsStale(q)}
    IN  /\ sweep.left > 0
        /\ sweep.st = "idle" /\ outbox["sweep"] = NoEvents
        /\ stale # {}
        /\ sweep' = [st |-> "pinging", stale |-> stale, left |-> sweep.left - 1]
        /\ UNCHANGED <<vars, taskVars, outbox, mirror>>

SweepPing ==
    /\ sweep.st = "pinging"
    /\ \E failed \in SUBSET sweep.stale :
          /\ PingsReturn(sweep.stale, failed)
          /\ sweep' = [sweep EXCEPT !.st = "pinged", !.stale = failed]
    /\ UNCHANGED <<taskVars, outbox, mirror>>

SweepEvict ==
    /\ sweep.st = "pinged"
    /\ MayMutate("sweep")
    /\ RemoveNodes(sweep.stale \cap members)
    /\ Keep("sweep")
    /\ sweep' = [sweep EXCEPT !.st = "idle", !.stale = {}]
    /\ UNCHANGED <<taskVars, mirror>>

------------------------------------------------------------------------------
(* Requests: forget_rejecting_peer, and ensure_peer_channel on an identity *)
(* mismatch; inbound messages touch their sender.                          *)

RejectPeer(p) ==
    /\ p \in Rejected
    /\ MayMutate("requests")
    /\ RemoveNodeById(p)
    /\ Keep("requests")
    /\ UNCHANGED <<taskVars, sweep, mirror>>

InboundMessage(p) ==
    /\ p \in Responsive
    /\ TouchFast(p, TRUE)
    /\ UNCHANGED <<taskVars, sweep, outbox, mirror>>

TimePasses == Tick /\ UNCHANGED <<taskVars, sweep, outbox, mirror>>

RevalidationInit ==
    /\ task = [t \in Tasks |-> NoTask]
    /\ permits = MaxRevalidations
    /\ bucketActive = {}
    /\ sweep = NoSweep
    /\ outbox = [a \in Actors |-> NoEvents]
    /\ mirror = members

TaskStep(t) ==
    \/ TakePermit(t) \/ NoPermit(t)
    \/ TakeBucket(t) \/ BucketBusy(t)
    \/ PingStalePeers(t)
    \/ EvictAndRetry(t)
    \/ AllAnswered(t)

SweepStep == SweepPing \/ SweepEvict

RevalidationNext ==
    \/ \E p \in Peers : HandlePeerConnected(p) \/ RejectPeer(p) \/ InboundMessage(p)
    \/ \E t \in Tasks : TaskStep(t)
    \/ SweepStart
    \/ SweepStep
    \/ \E a \in Actors : Broadcast(a)
    \/ TimePasses

\* Every ping ends within STALE_REVALIDATION_BUDGET, the runtime runs every
\* task that is ready, and the table's lock (tokio's RwLock) is granted in the
\* order of the requests for it, so that nobody waits for it for ever.
RevalidationFairness ==
    /\ \A t \in Tasks : SF_allVars(TaskStep(t))
    /\ SF_allVars(SweepStep)
    /\ \A a \in Actors : WF_allVars(Broadcast(a))

RevalidationSpec ==
    /\ Init /\ RevalidationInit
    /\ [][RevalidationNext]_allVars
    /\ RevalidationFairness

------------------------------------------------------------------------------
(* Properties *)

Revalidating == {t \in Tasks : task[t].st \in {"pinging", "pinged"}}

PermitHolders == {t \in Tasks : task[t].st = "permitted"} \cup Revalidating

\* MAX_CONCURRENT_REVALIDATIONS and `bucket_revalidation_active`, which are
\* taken one after the other: the tasks past the semaphore hold exactly the
\* permits that are out, the active buckets are those of the tasks past the
\* guard, and no two of these work on one bucket.
RevalidationsBounded ==
    /\ Cardinality(PermitHolders) + permits = MaxRevalidations
    /\ bucketActive = {BucketIdx(t) : t \in Revalidating}
    /\ \A t, u \in Revalidating : t # u => BucketIdx(t) # BucketIdx(u)

\* A revalidation gives its slots back whatever the pings and the retry
\* return: no bucket is closed to revalidation for ever.
SlotsComeBack ==
    \A b \in {bucketIndex[p] : p \in Peers} :
       (b \in bucketActive) ~> (b \notin bucketActive)

\* docs/ROUTING_TABLE_DESIGN.md section 9.4: events are emitted for every
\* routing table mutation.  Once all events are broadcast, a consumer that
\* replays PeerAdded and PeerRemoved knows the table.
ConsumersKnowTable ==
    (\A a \in Actors : outbox[a] = NoEvents) => mirror = members

\* A member that consumers have not been told of is in events that are still
\* on their way (when broadcasts follow their mutation promptly): a refused
\* retry may hide a removal but never an admission.
MembersAnnounced ==
    \A p \in members : p \in mirror \/ \E a \in Actors : p \in outbox[a].new
=============================================================================
