------------------------------ MODULE PeerDial ------------------------------
(***************************************************************************)
(* Concurrent DHT requests to one peer: the correlation table              *)
(* (`active_operations`), the dial coordinator (`pending_peer_dials`), the *)
(* identity-failure cache and the trust penalties of dht_network_manager.rs*)
(*                                                                         *)
(* Coordination is per peer, so one peer is enough; each element of        *)
(* Requests is one call of send_dht_request_inner with a message id of its *)
(* own. Every `.await` at which another task may run, or at which the      *)
(* caller may drop the future, separates two steps.                        *)
(***************************************************************************)
EXTENDS Naturals, FiniteSets

CONSTANTS Requests,     \* the requests to the peer, one message id each
          NoOwner       \* the value of a vacant coordinator slot

ASSUME DialConstants == NoOwner \notin Requests

VARIABLES connected,    \* transport.is_peer_connected(peer)
          member,       \* the peer is in the routing table
          suppressed,   \* a live entry of identity_failure_cache
          slot,         \* owner of the peer's entry in pending_peer_dials
          pc,           \* where each request stands
          leader,       \* whose broadcast a request waits for; itself when it owns
          outcome,      \* PendingDialOutcome a request has learnt
          op,           \* its entry in active_operations
          overdue,      \* entries older than twice the request timeout
          answering,    \* responses claimed and still being normalised
          charged       \* trust penalties recorded by each request

dialVars == <<connected, member, suppressed, slot, leader, outcome>>
opVars == <<op, overdue, answering>>
vars == <<dialVars, opVars, pc, charged>>

Owning == {"owner", "dialing", "identity", "forget", "publish"}

Steps == {"idle", "ensure", "claim", "joined", "notify", "send", "await", "done"}
           \cup Owning

\* What the owner broadcasts; "Dropped" is the RecvError of a dropped sender.
DialFailures == {"DialFailed", "IdentityFailed", "IdentityMismatch"}
Outcomes == DialFailures \cup {"none", "Connected", "Dropped"}

\* OperationStates: no entry; an entry holding response_tx; response_tx taken.
OperationStates == {"absent", "open", "claimed"}

Goto(c, step) == pc' = [pc EXCEPT ![c] = step]

Penalise(c) == charged' = [charged EXCEPT ![c] = @ + 1]

\* DhtOperationGuard::drop: leaving the request removes its entry.
Unregister(c) == /\ op' = [op EXCEPT ![c] = "absent"]
                 /\ overdue' = overdue \ {c}
                 /\ UNCHANGED answering

\* The request returns to its caller.
Return(c) == Goto(c, "done") /\ Unregister(c)

-----------------------------------------------------------------------------
(* send_dht_request_inner up to ensure_peer_channel *)

\* Sweep the expired entries, then register this request.
StartRequest(c) ==
    /\ pc[c] = "idle"
    /\ op' = [d \in Requests |->
                CASE d = c          -> "open"
                  [] d \in overdue  -> "absent"
                  [] OTHER          -> op[d]]
    /\ overdue' = {}
    /\ Goto(c, "ensure")
    /\ UNCHANGED <<dialVars, answering, charged>>

\* A dial that tries several addresses can outlast twice the request timeout.
OperationExpires(c) ==
    /\ pc[c] \in {"joined", "dialing"}
    /\ op[c] # "absent"
    /\ overdue' = overdue \cup {c}
    /\ UNCHANGED <<dialVars, op, answering, pc, charged>>

-----------------------------------------------------------------------------
(* ensure_peer_channel *)

\* Fast path, or on to the coordinator when no channel is authenticated.
EnsurePeerChannel(c) ==
    /\ pc[c] = "ensure"
    /\ Goto(c, IF connected THEN "send" ELSE "claim")
    /\ UNCHANGED <<dialVars, opVars, charged>>

\* Occupied: subscribe to the dial in flight.
JoinDial(c) ==
    /\ pc[c] = "claim" /\ slot # NoOwner
    /\ leader' = [leader EXCEPT ![c] = slot]
    /\ Goto(c, "joined")
    /\ UNCHANGED <<connected, member, suppressed, slot, outcome, opVars, charged>>

\* Vacant, but the peer recently failed the identity exchange.
Suppressed(c) ==
    /\ pc[c] = "claim" /\ slot = NoOwner /\ suppressed
    /\ Return(c)
    /\ UNCHANGED <<dialVars, charged>>

\* Faulty variant: check and insertion are not one operation on the map.
OwnDialUnchecked(c) ==
    /\ pc[c] = "claim" /\ ~suppressed
    /\ slot' = c
    /\ leader' = [leader EXCEPT ![c] = c]
    /\ Goto(c, "owner")
    /\ UNCHANGED <<connected, member, suppressed, outcome, opVars, charged>>

\* Vacant: insert the broadcast sender and own the dial.
OwnDial(c) ==
    /\ pc[c] = "claim" /\ slot = NoOwner /\ ~suppressed
    /\ slot' = c
    /\ leader' = [leader EXCEPT ![c] = c]
    /\ Goto(c, "owner")
    /\ UNCHANGED <<connected, member, suppressed, outcome, opVars, charged>>

-----------------------------------------------------------------------------
(* run_owned_dial *)

Resolve(c, result, step) ==
    /\ outcome' = [outcome EXCEPT ![c] = result]
    /\ Goto(c, step)

\* dial_addresses returns None at once when the peer has connected meanwhile,
\* and run_owned_dial takes None for a failed dial.
DialAddresses(c) ==
    /\ pc[c] = "owner"
    /\ IF connected
         THEN Resolve(c, "DialFailed", "publish") /\ Penalise(c)
         ELSE Goto(c, "dialing") /\ UNCHANGED <<outcome, charged>>
    /\ UNCHANGED <<connected, member, suppressed, slot, leader, opVars>>

\* No address of the plan could be dialled.
DialFails(c) ==
    /\ pc[c] = "dialing"
    /\ Resolve(c, "DialFailed", "publish")
    /\ Penalise(c)
    /\ UNCHANGED <<connected, member, suppressed, slot, leader, opVars>>

\* One address answered; wait_for_peer_identity on its channel.
DialOpens(c) ==
    /\ pc[c] = "dialing"
    /\ Goto(c, "identity")
    /\ UNCHANGED <<dialVars, opVars, charged>>

IdentityConfirmed(c) ==
    /\ pc[c] = "identity"
    /\ connected' = TRUE
    /\ suppressed' = FALSE
    /\ Resolve(c, "Connected", "publish")
    /\ UNCHANGED <<member, slot, leader, opVars, charged>>

\* Another peer lives there: suppress the expected one, then drop it from the
\* routing table once the table's lock is acquired.
IdentityMismatch(c) ==
    /\ pc[c] = "identity"
    /\ suppressed' = TRUE
    /\ Resolve(c, "IdentityMismatch", "forget")
    /\ UNCHANGED <<connected, member, slot, leader, opVars, charged>>

ForgetMismatched(c) ==
    /\ pc[c] = "forget"
    /\ member' = FALSE
    /\ Goto(c, "publish")
    /\ UNCHANGED <<connected, suppressed, slot, leader, outcome, opVars, charged>>

\* No identity in time: the channel of this dial is closed.
IdentityFails(c) ==
    /\ pc[c] = "identity"
    /\ suppressed' = TRUE
    /\ Resolve(c, "IdentityFailed", "publish")
    /\ Penalise(c)
    /\ UNCHANGED <<connected, member, slot, leader, opVars>>

-----------------------------------------------------------------------------
(* The end of a dial: vacate the slot, then broadcast the outcome *)

VacateSlot(c) ==
    /\ pc[c] = "publish"
    /\ slot' = NoOwner
    /\ Goto(c, "notify")
    /\ UNCHANGED <<connected, member, suppressed, leader, outcome, opVars, charged>>

\* Requests subscribed to c's broadcast that have not received anything yet.
Waiting(c) == {d \in Requests \ {c} : leader[d] = c /\ pc[d] = "joined"
                                        /\ outcome[d] = "none"}

Tell(waiting, result) ==
    outcome' = [d \in Requests |-> IF d \in waiting THEN result ELSE outcome[d]]

\* tx.send, and the owner's own into_result.
NotifySubscribers(c) ==
    /\ pc[c] = "notify"
    /\ Tell(Waiting(c), outcome[c])
    /\ IF outcome[c] = "Connected" THEN Goto(c, "send") /\ UNCHANGED opVars
                                   ELSE Return(c)
    /\ UNCHANGED <<connected, member, suppressed, slot, leader, charged>>

\* Faulty variant: a subscriber charges the peer for the shared failure too.
SubscriberCharges(c) ==
    /\ pc[c] = "joined" /\ outcome[c] # "none"
    /\ IF outcome[c] = "Connected" THEN Goto(c, "send") /\ UNCHANGED <<opVars, charged>>
                                   ELSE Return(c) /\ Penalise(c)
    /\ UNCHANGED dialVars

\* A subscriber wakes with the shared outcome and repeats none of its effects.
SubscriberWakes(c) ==
    /\ pc[c] = "joined" /\ outcome[c] # "none"
    /\ IF outcome[c] = "Connected" THEN Goto(c, "send") /\ UNCHANGED opVars
                                   ELSE Return(c)
    /\ UNCHANGED <<dialVars, charged>>

-----------------------------------------------------------------------------
(* The request itself *)

\* send_message: fails when the channel has gone in the meantime.
SendMessage(c) ==
    /\ pc[c] = "send"
    /\ IF connected
         THEN Goto(c, "await") /\ UNCHANGED <<opVars, charged>>
         ELSE Return(c) /\ Penalise(c)
    /\ UNCHANGED dialVars

\* handle_dht_response: an answer of the peer claims the entry's sender. An
\* answer without an entry, or to a claimed entry, is dropped.
ClaimResponse(c) ==
    /\ pc[c] = "await" /\ connected
    /\ op[c] = "open"
    /\ op' = [op EXCEPT ![c] = "claimed"]
    /\ answering' = answering \cup {c}
    /\ UNCHANGED <<dialVars, overdue, pc, charged>>

\* Faulty variant: a delivered entry is marked, not removed.
DeliverAndMark(c) ==
    /\ c \in answering
    /\ answering' = answering \ {c}
    /\ op' = [op EXCEPT ![c] = "delivered"]
    /\ IF pc[c] = "await" THEN Goto(c, "done") ELSE UNCHANGED pc
    /\ UNCHANGED <<dialVars, overdue, charged>>

\* Normalisation is over: the answer reaches the request if it still waits.
DeliverResponse(c) ==
    /\ c \in answering
    /\ answering' = answering \ {c}
    /\ IF pc[c] = "await"
         THEN /\ Goto(c, "done")
              /\ op' = [op EXCEPT ![c] = "absent"]
              /\ overdue' = overdue \ {c}
         ELSE UNCHANGED <<pc, op, overdue>>
    /\ UNCHANGED <<dialVars, charged>>

\* Faulty variant: no timeout, only a dropped sender ends the wait.
NoResponseUntimed(c) ==
    /\ pc[c] = "await" /\ op[c] = "absent"
    /\ Return(c)
    /\ Penalise(c)
    /\ UNCHANGED dialVars

\* wait_for_response: timeout, or the sender was dropped with the entry.
NoResponse(c) ==
    /\ pc[c] = "await"
    /\ Return(c)
    /\ Penalise(c)
    /\ UNCHANGED dialVars

-----------------------------------------------------------------------------
(* What happens around the requests *)

\* Faulty variant: no operation guard; a dropped request leaves its entry.
CancelKeepsEntry(c) ==
    /\ pc[c] \notin {"idle", "done", "notify"}
    /\ slot' = IF slot = c THEN NoOwner ELSE slot
    /\ Tell(Waiting(c), "Dropped")
    /\ Goto(c, "done")
    /\ UNCHANGED <<connected, member, suppressed, leader, opVars, charged>>

\* Faulty variant: the slot is vacated but subscribers learn nothing.
CancelSilently(c) ==
    /\ pc[c] \notin {"idle", "done", "notify"}
    /\ slot' = IF slot = c THEN NoOwner ELSE slot
    /\ Return(c)
    /\ UNCHANGED <<connected, member, suppressed, leader, outcome, charged>>

\* The caller drops the future (a lookup round ends, a budget runs out):
\* DialGuard vacates the slot and the broadcast sender goes with it.
CancelRequest(c) ==
    /\ pc[c] \notin {"idle", "done"}
    /\ pc[c] # "notify"
    /\ slot' = IF slot = c THEN NoOwner ELSE slot
    /\ Tell(Waiting(c), "Dropped")
    /\ Return(c)
    /\ UNCHANGED <<connected, member, suppressed, leader, charged>>

\* The peer connects by itself, or its connection goes away.
ConnectionChanges ==
    /\ connected' = ~connected
    /\ UNCHANGED <<member, suppressed, slot, leader, outcome, opVars, pc, charged>>

SuppressionExpires ==
    /\ suppressed
    /\ suppressed' = FALSE
    /\ UNCHANGED <<connected, member, slot, leader, outcome, opVars, pc, charged>>

\* The routing table admits the peer (again).
PeerAdmitted ==
    /\ ~member
    /\ member' = TRUE
    /\ UNCHANGED <<connected, suppressed, slot, leader, outcome, opVars, pc, charged>>

-----------------------------------------------------------------------------
Init ==
    /\ connected \in BOOLEAN
    /\ member \in BOOLEAN
    /\ suppressed = FALSE
    /\ slot = NoOwner
    /\ pc = [c \in Requests |-> "idle"]
    /\ leader = [c \in Requests |-> NoOwner]
    /\ outcome = [c \in Requests |-> "none"]
    /\ op = [c \in Requests |-> "absent"]
    /\ overdue = {}
    /\ answering = {}
    /\ charged = [c \in Requests |-> 0]

\* The steps a running request takes by itself. Dials, the identity exchange
\* and the wait for a response are all bounded by timeouts.
RequestStep(c) ==
    \/ EnsurePeerChannel(c) \/ JoinDial(c) \/ Suppressed(c) \/ OwnDial(c)
    \/ DialAddresses(c) \/ DialFails(c) \/ DialOpens(c)
    \/ IdentityConfirmed(c) \/ IdentityMismatch(c) \/ IdentityFails(c)
    \/ ForgetMismatched(c) \/ VacateSlot(c) \/ NotifySubscribers(c)
    \/ SubscriberWakes(c) \/ SendMessage(c) \/ NoResponse(c)

Surroundings == ConnectionChanges \/ SuppressionExpires \/ PeerAdmitted

Next ==
    \/ \E c \in Requests : \/ StartRequest(c) \/ RequestStep(c)
                           \/ ClaimResponse(c) \/ DeliverResponse(c)
                           \/ OperationExpires(c) \/ CancelRequest(c)
    \/ Surroundings

Fairness == \A c \in Requests : WF_vars(RequestStep(c))

Spec == Init /\ [][Next]_vars /\ Fairness

-----------------------------------------------------------------------------
\* Type invariant: the values ensure_peer_channel and send_dht_request_inner
\* can leave in the coordinator, the correlation table and the requests.
DialTypeOK ==
    /\ connected \in BOOLEAN /\ member \in BOOLEAN /\ suppressed \in BOOLEAN
    /\ slot \in Requests \cup {NoOwner}
    /\ pc \in [Requests -> Steps]
    /\ leader \in [Requests -> Requests \cup {NoOwner}]
    /\ outcome \in [Requests -> Outcomes]
    /\ op \in [Requests -> OperationStates]
    /\ overdue \subseteq Requests /\ answering \subseteq Requests
    /\ charged \in [Requests -> Nat]

\* ensure_peer_channel collapses concurrent calls onto one dial: the requests
\* between claiming and vacating the slot are exactly its recorded owner, in
\* every interleaving of claims, cancellations and late broadcasts. An entry
\* that outlived its owner would make every later request wait for nobody.
OneDialAtATime ==
    {c \in Requests : pc[c] \in Owning} = {slot} \cap Requests

\* A failed dial is charged once, by its owner, and a failed request is charged
\* once: joining, being told of a failure and failing afterwards never add up.
ChargedOnce ==
    \A c \in Requests :
        /\ charged[c] <= 1
        /\ charged[c] = 1 /\ outcome[c] \in DialFailures => leader[c] = c

\* A subscriber still waiting has a dial whose owner will tell it something:
\* either the owner holds the slot or it is about to broadcast.
WaitersHaveOwner ==
    \A c \in Requests : pc[c] = "joined" /\ outcome[c] = "none" =>
        LET o == leader[c] IN o \in Requests /\ pc[o] \in Owning \cup {"notify"}

\* The correlation table holds entries of running requests only: every exit,
\* cancellation included, removes the entry (DhtOperationGuard).
OperationsReleased ==
    \A c \in Requests : op[c] # "absent" => pc[c] \notin {"idle", "done"}

\* Every request returns: no subscriber is left on a dead broadcast.
RequestsEnd ==
    \A c \in Requests : (pc[c] = "ensure") ~> (pc[c] = "done")

\* What sweep_expired_operations says of itself: it removes "orphaned entries
\* from dropped futures", so a running request keeps its entry.
RunningRequestsTracked ==
    \A c \in Requests : pc[c] \notin {"idle", "done"} => op[c] # "absent"

\* What PendingDialOutcome::DialFailed says: "Every candidate address failed to
\* dial". A dial reported as failed has gone through its dial plan.
FailedDialsTried ==
    [][\A c \in Requests :
          slot = c /\ outcome[c] = "none" /\ outcome'[c] = "DialFailed"
            => pc[c] = "dialing"]_vars
=============================================================================
