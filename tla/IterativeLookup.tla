--------------------------- MODULE IterativeLookup ---------------------------
(***************************************************************************)
(* The transport-independent Kademlia lookup of dht_lookup.rs: the state   *)
(* machine IterativeLookup and the runner run_iterative_lookup that drives *)
(* it through an adapter.  A peer is its XOR distance from the target, so  *)
(* the order of the candidate queue and of the results is <.  The adapter  *)
(* chooses who is eligible, who answers, and with which candidates.        *)
(***************************************************************************)
EXTENDS Naturals, FiniteSets

CONSTANTS
    Peers,           \* distances from the target of the peers that exist
    Known,           \* results that are never queried: the local node
    Count,           \* LookupConfig::count
    Alpha,           \* LookupConfig::alpha
    MaxIterations,   \* LookupConfig::max_iterations
    MaxCandidates,   \* LookupConfig::max_candidates
    Seeds,           \* candidate sets a lookup may start from
    Answers,         \* peer -> candidate sets it may answer with
    Flaky            \* peers that may fail, or be ineligible for a while

ASSUME LookupConstants ==
    /\ Peers \subseteq Nat /\ IsFiniteSet(Peers)
    /\ Known \subseteq Peers
    /\ Count \in Nat
    /\ Alpha \in Nat \ {0}
    /\ MaxIterations \in Nat \ {0}
    /\ MaxCandidates \in Nat \ {0}
    /\ \A S \in Seeds : S \subseteq Peers \ Known /\ Cardinality(S) <= MaxCandidates
    /\ \A p \in Peers : Answers[p] \subseteq SUBSET Peers
    /\ Flaky \subseteq Peers

VARIABLES
    candidates,    \* the queue
    peerState,     \* peer_states, "New" for a peer without an entry
    inFlight,      \* in_flight
    successful,    \* successful
    previousTopK,  \* previous_top_k
    iterations,
    roundActive,
    roundQueries,
    termination,   \* "None" while the lookup runs
    pc,            \* where run_lookup_rounds is
    offered        \* candidates of a response, still to be admitted

vars == <<candidates, peerState, inFlight, successful, previousTopK, iterations,
          roundActive, roundQueries, termination, pc, offered>>

PeerStates == {"New", "Waiting", "Succeeded", "Failed", "Unresponsive"}
Terminations == {"None", "Converged", "Exhausted", "IterationLimit", "TimedOut"}

\* Type invariant of IterativeLookup: the round counters stay within
\* max_iterations and alpha.
LookupTypeOK ==
    /\ candidates \subseteq Peers
    /\ peerState \in [Peers -> PeerStates]
    /\ inFlight \subseteq Peers
    /\ successful \subseteq Peers
    /\ previousTopK \subseteq Peers
    /\ iterations \in 0..MaxIterations
    /\ roundActive \in BOOLEAN
    /\ roundQueries \in 0..Alpha
    /\ termination \in Terminations
    /\ pc \in {"begin", "select", "query", "admit", "done", "error"}
    /\ offered \subseteq Peers

------------------------------------------------------------------------------
(* The state machine *)

Contactable(p) == peerState[p] = "New"

\* discard_contacted_candidates
Uncontacted == {c \in candidates : Contactable(c)}

IsClosest(c, S) == c \in S /\ \A d \in S : c <= d
IsFarthest(c, S) == c \in S /\ \A d \in S : d <= c

\* results: the Count closest peers that answered
Results == {p \in successful : Cardinality({q \in successful : q < p}) < Count}

\* Faulty variant: a candidate must beat the best result, not the worst.
HasBetterCandidate ==
    IF Results = {} THEN candidates # {}
    ELSE \E c \in candidates : \A r \in Results : c < r

\* has_promising_candidate: one closer than the worst result
HasPromisingCandidate ==
    IF Results = {} THEN candidates # {}
    ELSE \E c \in candidates, r \in Results : c < r

\* Faulty variant: the queue limit is tested off by one.
AddCandidateOverLimit(c) ==
    LET isNew == Contactable(c) /\ c \notin candidates
    IN  \/ ~isNew /\ UNCHANGED candidates
        \/ /\ isNew /\ Cardinality(candidates) <= MaxCandidates
           /\ candidates' = candidates \cup {c}
        \/ /\ isNew /\ Cardinality(candidates) > MaxCandidates
           /\ UNCHANGED candidates

\* Faulty variant: a full queue refuses closer candidates too.
AddCandidateIfRoom(c) ==
    IF Contactable(c) /\ Cardinality(candidates) < MaxCandidates
    THEN candidates' = candidates \cup {c}
    ELSE UNCHANGED candidates

\* add_candidate: a full queue gives up its farthest entry for a closer one
AddCandidate(c) ==
    LET isNew == Contactable(c) /\ c \notin candidates
    IN  \/ ~isNew /\ UNCHANGED candidates
        \/ /\ isNew /\ Cardinality(candidates) < MaxCandidates
           /\ candidates' = candidates \cup {c}
        \/ /\ isNew /\ Cardinality(candidates) >= MaxCandidates
           /\ \E far \in candidates :
                 /\ IsFarthest(far, candidates)
                 /\ candidates' = IF c < far THEN (candidates \ {far}) \cup {c}
                                  ELSE candidates

\* Faulty variant: the reason is not recorded and the loop goes on.
FinishUnrecorded(reason) ==
    /\ termination' = "None"
    /\ roundActive' = FALSE
    /\ pc' = "begin"

Finish(reason) ==
    /\ termination' = reason
    /\ roundActive' = FALSE
    /\ pc' = "done"

\* complete_round, then the runner's return or next turn of its loop
CompleteRound ==
    LET stable == Results = previousTopK
        short  == Cardinality(Results) < Count /\ candidates # {}
    IN  /\ previousTopK' = Results
        /\ \/ /\ stable /\ short
              /\ roundActive' = FALSE
              /\ pc' = "begin"
              /\ UNCHANGED <<termination, candidates>>
           \/ /\ stable /\ ~short /\ ~HasPromisingCandidate
              /\ Finish("Converged")
              /\ UNCHANGED candidates
           \/ /\ ~stable \/ (~short /\ HasPromisingCandidate)
              /\ \/ /\ iterations >= MaxIterations
                    /\ Finish("IterationLimit")
                    /\ UNCHANGED candidates
                 \/ /\ iterations < MaxIterations
                    /\ candidates' = Uncontacted
                    /\ \/ /\ Uncontacted = {}
                          /\ Finish("Exhausted")
                       \/ /\ Uncontacted # {}
                          /\ roundActive' = FALSE
                          /\ pc' = "begin"
                          /\ UNCHANGED termination

------------------------------------------------------------------------------
(* The runner *)

\* new, add_known_result for the local node, add_candidate for local knowledge
Init ==
    /\ candidates \in Seeds
    /\ peerState = [p \in Peers |-> IF p \in Known THEN "Succeeded" ELSE "New"]
    /\ inFlight = {}
    /\ successful = Known
    /\ previousTopK = {}
    /\ iterations = 0
    /\ roundActive = FALSE
    /\ roundQueries = 0
    /\ termination = IF Count = 0 THEN "Converged" ELSE "None"
    /\ pc = "begin"
    /\ offered = {}

BeginRound ==
    /\ pc = "begin"
    /\ \/ /\ termination # "None"
          /\ pc' = "done"
          /\ UNCHANGED <<candidates, iterations, roundActive, roundQueries, termination>>
       \/ /\ termination = "None" /\ iterations >= MaxIterations
          /\ Finish("IterationLimit")
          /\ UNCHANGED <<candidates, iterations, roundQueries>>
       \/ /\ termination = "None" /\ iterations < MaxIterations
          /\ candidates' = Uncontacted
          /\ \/ /\ Uncontacted = {}
                /\ Finish("Exhausted")
                /\ UNCHANGED <<iterations, roundQueries>>
             \/ /\ Uncontacted # {}
                /\ iterations' = iterations + 1
                /\ roundQueries' = 0
                /\ roundActive' = TRUE
                /\ pc' = "select"
                /\ UNCHANGED termination
    /\ UNCHANGED <<peerState, inFlight, successful, previousTopK, offered>>

\* Faulty variant: the round takes one candidate more than alpha.
SelectOneMore ==
    /\ pc = "select" /\ roundQueries <= Alpha
    /\ \E c \in Uncontacted :
          /\ IsClosest(c, Uncontacted)
          /\ candidates' = Uncontacted \ {c}
          /\ peerState' = [peerState EXCEPT ![c] = "Waiting"]
          /\ inFlight' = inFlight \cup {c}
          /\ roundQueries' = roundQueries + 1
    /\ UNCHANGED <<successful, previousTopK, iterations, roundActive,
                   termination, pc, offered>>

\* Faulty variant: queries are started without being counted.
SelectUncounted ==
    /\ pc = "select" /\ roundQueries < Alpha
    /\ \E c \in Uncontacted :
          /\ IsClosest(c, Uncontacted)
          /\ candidates' = Uncontacted \ {c}
          /\ peerState' = [peerState EXCEPT ![c] = "Waiting"]
          /\ inFlight' = inFlight \cup {c}
    /\ UNCHANGED <<successful, previousTopK, iterations, roundActive, roundQueries,
                   termination, pc, offered>>

\* take_next_candidate, is_candidate_eligible and mark_waiting; a candidate
\* that is not eligible now is dropped without a state.
SelectCandidate ==
    /\ pc = "select" /\ roundQueries < Alpha
    /\ \E c \in Uncontacted :
          /\ IsClosest(c, Uncontacted)
          /\ candidates' = Uncontacted \ {c}
          /\ \/ /\ peerState' = [peerState EXCEPT ![c] = "Waiting"]
                /\ inFlight' = inFlight \cup {c}
                /\ roundQueries' = roundQueries + 1
             \/ /\ c \in Flaky
                /\ UNCHANGED <<peerState, inFlight, roundQueries>>
    /\ UNCHANGED <<successful, previousTopK, iterations, roundActive,
                   termination, pc, offered>>

CloseBatch ==
    /\ pc = "select" /\ (roundQueries >= Alpha \/ Uncontacted = {})
    /\ \/ /\ inFlight # {}
          /\ pc' = "query"
          /\ UNCHANGED <<candidates, previousTopK, roundActive, termination>>
       \/ /\ inFlight = {}
          /\ CompleteRound
    /\ UNCHANGED <<peerState, inFlight, successful, iterations, roundQueries, offered>>

\* record_success; the response's candidates are admitted one by one.
Succeeded(p) ==
    /\ pc = "query" /\ p \in inFlight
    /\ peerState' = [peerState EXCEPT ![p] = "Succeeded"]
    /\ inFlight' = inFlight \ {p}
    /\ successful' = successful \cup {p}
    /\ offered' \in Answers[p]
    /\ pc' = "admit"
    /\ UNCHANGED <<candidates, previousTopK, iterations, roundActive,
                   roundQueries, termination>>

\* record_failure and record_unresponsive
NotSucceeded(p) ==
    /\ pc = "query" /\ p \in inFlight \cap Flaky
    /\ \E s \in {"Failed", "Unresponsive"} : peerState' = [peerState EXCEPT ![p] = s]
    /\ inFlight' = inFlight \ {p}
    /\ UNCHANGED <<candidates, successful, previousTopK, iterations, roundActive,
                   roundQueries, termination, pc, offered>>

AdmitCandidate ==
    /\ pc = "admit"
    /\ \/ \E c \in offered :
             /\ \/ AddCandidate(c)
                \/ c \in Flaky /\ UNCHANGED candidates
             /\ offered' = offered \ {c}
             /\ UNCHANGED pc
       \/ /\ offered = {}
          /\ pc' = "query"
          /\ UNCHANGED <<candidates, offered>>
    /\ UNCHANGED <<peerState, inFlight, successful, previousTopK, iterations,
                   roundActive, roundQueries, termination>>

\* Faulty variant: abandoned peers lose their state and can be asked again.
AbandonedForgotten == [p \in Peers |-> IF p \in inFlight THEN "New" ELSE peerState[p]]

Abandoned == [p \in Peers |-> IF p \in inFlight THEN "Unresponsive" ELSE peerState[p]]

\* Peers without an outcome are recorded as unresponsive.
EndBatch ==
    /\ pc = "query"
    /\ inFlight \subseteq Flaky
    /\ peerState' = Abandoned
    /\ inFlight' = {}
    /\ CompleteRound
    /\ UNCHANGED <<successful, iterations, roundQueries, offered>>

\* Faulty variant: the deadline leaves the unanswered queries waiting.
DeadlineOnly ==
    /\ pc \in {"select", "query", "admit"}
    /\ Finish("TimedOut")
    /\ UNCHANGED <<candidates, peerState, inFlight, successful, previousTopK,
                   iterations, roundQueries, offered>>

\* The deadline drops the walk at an await of the adapter.
Deadline ==
    /\ pc \in {"select", "query", "admit"}
    /\ peerState' = Abandoned
    /\ inFlight' = {}
    /\ Finish("TimedOut")
    /\ UNCHANGED <<candidates, successful, previousTopK, iterations, roundQueries, offered>>

\* The adapter fails the lookup, or reports a peer outside the batch.
AdapterFails ==
    /\ Flaky # {}
    /\ pc \in {"select", "query", "admit"}
    /\ pc' = "error"
    /\ UNCHANGED <<candidates, peerState, inFlight, successful, previousTopK,
                   iterations, roundActive, roundQueries, termination, offered>>

WalkStep ==
    \/ BeginRound
    \/ SelectCandidate
    \/ CloseBatch
    \/ \E p \in Peers : Succeeded(p) \/ NotSucceeded(p)
    \/ AdmitCandidate
    \/ EndBatch

Next == WalkStep \/ Deadline \/ AdapterFails

Spec == Init /\ [][Next]_vars /\ WF_vars(WalkStep)

------------------------------------------------------------------------------
(* Properties *)

\* `candidates`, `peer_states`, `in_flight` and `successful` agree: no
\* contacted peer is queued, the waiting peers are the ones in flight, and
\* whichever way a lookup stops except by an adapter error nobody waits.
StatesAgree ==
    /\ \A c \in candidates : Contactable(c)
    /\ inFlight = {p \in Peers : peerState[p] = "Waiting"}
    /\ successful = {p \in Peers : peerState[p] = "Succeeded"}
    /\ pc \in {"begin", "done"} => inFlight = {}

\* The limits of LookupConfig: at most alpha queries in flight, and the queue
\* fed by responses stays within max_candidates.
WithinLimits ==
    /\ Cardinality(inFlight) <= Alpha
    /\ Cardinality(candidates) <= MaxCandidates

\* LookupTermination::Converged: no queued peer could improve the result, and
\* a result smaller than asked for means that nobody was left to ask.
ConvergedIsFinal ==
    termination = "Converged" =>
       /\ \A c \in candidates, r \in Results : r < c
       /\ Cardinality(Results) < Count => candidates = {}

\* A peer is queried at most once, and a deadline or a later round never
\* takes back an answer (`query_order` has no duplicates).
StatesAdvance ==
    \A p \in Peers : peerState'[p] # peerState[p] =>
       \/ peerState[p] = "New" /\ peerState'[p] = "Waiting"
       \/ peerState[p] = "Waiting" /\ peerState'[p] # "New"

QueriedOnce == [][StatesAdvance]_vars

\* The lookup ends as long as batches return, whatever they return: refills
\* of the queue by ineligible or unhelpful peers are cut by max_iterations.
LookupEnds == <>(pc \in {"done", "error"})

\* If every peer answers and knows the peers around it, a lookup that stops by
\* itself returns the Count closest peers of the network.
FindsClosest ==
    termination \in {"Converged", "Exhausted"} /\ pc = "done" =>
       Results = {p \in Peers : Cardinality({q \in Peers : q < p}) < Count}
=============================================================================
