----------------------------- MODULE LookupProofs -----------------------------
(***************************************************************************)
(* Proofs about IterativeLookup for every network, configuration, adapter  *)
(* and deadline.                                                           *)
(***************************************************************************)
EXTENDS IterativeLookup, FiniteSetTheorems, TLAPS

\* A lookup that has a termination makes no further query.
Stopped == termination # "None" => pc \in {"begin", "done"}

\* The round's counter, which mark_waiting tests, covers the queries in flight,
\* and the queue is within its limit.
QueriesCounted ==
    /\ Cardinality(inFlight) <= roundQueries
    /\ Cardinality(candidates) <= MaxCandidates

LookupInv ==
    LookupTypeOK /\ StatesAgree /\ QueriesCounted /\ ConvergedIsFinal /\ Stopped

\* The limits of LookupConfig::validate.
LEMMA Limits ==
    /\ Count \in Nat /\ Alpha \in Nat /\ Alpha > 0
    /\ MaxIterations \in Nat /\ MaxCandidates \in Nat /\ MaxCandidates > 0
BY LookupConstants

\* Sets of peers are finite, so they can be counted.
LEMMA FiniteCandidates ==
    ASSUME NEW S \in SUBSET Peers
    PROVE  IsFiniteSet(S) /\ Cardinality(S) \in Nat
BY FS_Subset, FS_CardinalityType, LookupConstants

\* Removing candidates keeps the queue within max_candidates.
LEMMA SmallerQueue ==
    ASSUME NEW S \in SUBSET Peers, NEW T \in SUBSET S, Cardinality(S) <= MaxCandidates
    PROVE  Cardinality(T) <= MaxCandidates
<1>1. IsFiniteSet(S) /\ Cardinality(S) \in Nat /\ Cardinality(T) \in Nat
  BY FiniteCandidates
<1>2. Cardinality(T) <= Cardinality(S)
  BY <1>1, FS_Subset
<1>3. QED
  BY <1>1, <1>2, Limits

\* So does adding one to a queue with room.
LEMMA GrownQueue ==
    ASSUME NEW S \in SUBSET Peers, NEW c \in Peers, Cardinality(S) < MaxCandidates
    PROVE  Cardinality(S \cup {c}) <= MaxCandidates
<1>1. IsFiniteSet(S) /\ Cardinality(S) \in Nat
  BY FiniteCandidates
<1>2. \/ Cardinality(S \cup {c}) = Cardinality(S)
      \/ Cardinality(S \cup {c}) = Cardinality(S) + 1
  BY <1>1, FS_AddElement, Zenon
<1>3. QED
  BY <1>1, <1>2, Limits

\* add_candidate leaves a queue of uncontacted peers within its limit.
LEMMA AddCandidateFacts ==
    ASSUME LookupTypeOK, StatesAgree, QueriesCounted, NEW c \in Peers, AddCandidate(c)
    PROVE  /\ candidates' \subseteq Peers
           /\ \A d \in candidates' : Contactable(d)
           /\ Cardinality(candidates') <= MaxCandidates
<1>1. candidates \in SUBSET Peers /\ Cardinality(candidates) <= MaxCandidates
  BY DEF LookupTypeOK, QueriesCounted
<1>2. \A d \in candidates : Contactable(d)
  BY DEF StatesAgree
<1>3. CASE UNCHANGED candidates
  BY <1>1, <1>2, <1>3
<1>4. CASE Contactable(c) /\ Cardinality(candidates) < MaxCandidates
           /\ candidates' = candidates \cup {c}
  BY <1>1, <1>2, <1>4, GrownQueue
<1>5. ASSUME NEW far \in candidates, Contactable(c),
             candidates' = (candidates \ {far}) \cup {c}
      PROVE  /\ candidates' \subseteq Peers
             /\ \A d \in candidates' : Contactable(d)
             /\ Cardinality(candidates') <= MaxCandidates
  <2>1. IsFiniteSet(candidates) /\ Cardinality(candidates) \in Nat
    BY <1>1, FiniteCandidates
  <2>2. Cardinality(candidates \ {far}) = Cardinality(candidates) - 1
    BY <2>1, <1>5, FS_RemoveElement
  <2>3. Cardinality(candidates \ {far}) < MaxCandidates
    BY <1>1, <2>1, <2>2, Limits
  <2>4. candidates \ {far} \in SUBSET Peers
    BY <1>1
  <2>5. QED
    BY <1>1, <1>2, <1>5, <2>3, <2>4, GrownQueue
<1>6. QED
  BY <1>3, <1>4, <1>5 DEF AddCandidate

\* What complete_round leaves, whichever way it goes.
LEMMA CompleteRoundFacts ==
    ASSUME LookupInv, termination = "None", CompleteRound, UNCHANGED successful
    PROVE  /\ candidates' \subseteq candidates
           /\ previousTopK' \subseteq Peers
           /\ roundActive' = FALSE
           /\ pc' \in {"begin", "done"}
           /\ termination' \in Terminations
           /\ ConvergedIsFinal'
<1>1. candidates' \subseteq candidates
  BY DEF CompleteRound, Uncontacted
<1>2. previousTopK' \subseteq Peers
  BY DEF CompleteRound, Results, LookupInv, LookupTypeOK
<1>3. /\ roundActive' = FALSE
      /\ pc' \in {"begin", "done"}
      /\ termination' \in Terminations
  BY DEF CompleteRound, Finish, Terminations
<1>4. ConvergedIsFinal'
  <2>1. SUFFICES ASSUME termination' = "Converged"
                 PROVE  ConvergedIsFinal'
    BY DEF ConvergedIsFinal
  <2>2. /\ ~(Cardinality(Results) < Count /\ candidates # {})
        /\ ~HasPromisingCandidate
        /\ candidates' = candidates
    BY <2>1 DEF CompleteRound, Finish
  <2>3. Results' = Results
    BY DEF Results
  <2>4. ASSUME NEW c \in candidates, NEW r \in Results
        PROVE  r < c
    <3>1. c \in Nat /\ r \in Nat
      BY LookupConstants DEF LookupInv, LookupTypeOK, Results
    <3>2. c # r
      BY DEF LookupInv, StatesAgree, Contactable, Results, LookupTypeOK
    <3>3. ~(c < r)
      BY <2>2 DEF HasPromisingCandidate
    <3>4. QED
      BY <3>1, <3>2, <3>3
  <2>5. QED
    BY <2>2, <2>3, <2>4 DEF ConvergedIsFinal
<1>5. QED
  BY <1>1, <1>2, <1>3, <1>4

\* A new lookup satisfies the invariant.
LEMMA InitLookup == Init => LookupInv
<1> SUFFICES ASSUME Init PROVE LookupInv
  OBVIOUS
<1>1. candidates \subseteq Peers \ Known /\ Cardinality(candidates) <= MaxCandidates
  BY LookupConstants DEF Init
<1>2. LookupTypeOK
  <2>1. Known \subseteq Peers
    BY LookupConstants
  <2>2. peerState \in [Peers -> PeerStates]
    BY DEF Init, PeerStates
  <2>3. termination \in Terminations
    BY DEF Init, Terminations
  <2>4. iterations \in 0..MaxIterations /\ roundQueries \in 0..Alpha
    BY Limits DEF Init
  <2>5. QED
    BY <1>1, <2>1, <2>2, <2>3, <2>4 DEF Init, LookupTypeOK
<1>3. StatesAgree
  BY <1>1, LookupConstants DEF Init, StatesAgree, Contactable
<1>4. QueriesCounted
  BY <1>1, FS_EmptySet DEF Init, QueriesCounted
<1>5. ConvergedIsFinal
  <2>1. SUFFICES ASSUME Count = 0 PROVE ConvergedIsFinal
    BY DEF Init, ConvergedIsFinal
  <2>2. Cardinality({}) = 0
    BY FS_EmptySet
  <2>3. \A S \in SUBSET Peers : ~(Cardinality(S) < 0)
    BY FiniteCandidates
  <2>4. successful \in SUBSET Peers
    BY LookupConstants DEF Init
  <2>5. Results = {}
    BY <2>1, <2>3, <2>4 DEF Results
  <2>6. QED
    BY <2>1, <2>2, <2>5 DEF ConvergedIsFinal
<1>6. Stopped
  BY DEF Init, Stopped
<1>7. QED
  BY <1>2, <1>3, <1>4, <1>5, <1>6 DEF LookupInv

\* Steps that change neither the queue's limits nor the peers' states.
LEMMA BeginRoundKeepsInv ==
    ASSUME LookupInv, BeginRound
    PROVE  LookupInv'
<1>1. candidates' \subseteq candidates
  BY DEF BeginRound, Uncontacted, Finish
<1>2. inFlight = {} /\ Cardinality({}) = 0
  BY FS_EmptySet DEF BeginRound, LookupInv, StatesAgree
<1>3. LookupTypeOK'
  <2>1. iterations' \in 0..MaxIterations /\ roundQueries' \in 0..Alpha
    BY Limits DEF BeginRound, LookupInv, LookupTypeOK
  <2>2. /\ roundActive' \in BOOLEAN /\ termination' \in Terminations
        /\ pc' \in {"select", "done"}
    BY DEF BeginRound, LookupInv, LookupTypeOK, Finish, Terminations
  <2>3. QED
    BY <1>1, <2>1, <2>2 DEF BeginRound, LookupInv, LookupTypeOK
<1>4. StatesAgree'
  BY <1>1, <1>2 DEF BeginRound, LookupInv, StatesAgree, Contactable
<1>5. QueriesCounted'
  <2>1. Cardinality(candidates') <= MaxCandidates
    BY <1>1, SmallerQueue DEF LookupInv, LookupTypeOK, QueriesCounted
  <2>2. roundQueries' \in Nat
    BY <1>3, Limits DEF LookupTypeOK
  <2>3. QED
    BY <1>2, <2>1, <2>2 DEF BeginRound, QueriesCounted
<1>6. ConvergedIsFinal' /\ Stopped'
  <2>1. CASE termination # "None"
    BY <2>1 DEF BeginRound, LookupInv, ConvergedIsFinal, Stopped, Results
  <2>2. CASE termination = "None"
    BY <2>2 DEF BeginRound, Finish, ConvergedIsFinal, Stopped
  <2>3. QED
    BY <2>1, <2>2
<1>7. QED
  BY <1>3, <1>4, <1>5, <1>6 DEF LookupInv

\* take_next_candidate and mark_waiting keep the invariant.
LEMMA SelectCandidateKeepsInv ==
    ASSUME LookupInv, SelectCandidate
    PROVE  LookupInv'
<1>1. PICK c \in Uncontacted :
        /\ candidates' = Uncontacted \ {c}
        /\ \/ /\ peerState' = [peerState EXCEPT ![c] = "Waiting"]
              /\ inFlight' = inFlight \cup {c}
              /\ roundQueries' = roundQueries + 1
           \/ UNCHANGED <<peerState, inFlight, roundQueries>>
  BY DEF SelectCandidate
<1>2. /\ pc = "select" /\ roundQueries < Alpha
      /\ UNCHANGED <<successful, previousTopK, iterations, roundActive,
                     termination, pc, offered>>
  BY DEF SelectCandidate
<1>3. c \in Peers /\ peerState[c] = "New" /\ candidates' \subseteq candidates \ {c}
  BY <1>1 DEF Uncontacted, Contactable, LookupInv, LookupTypeOK
<1>4. LookupTypeOK'
  BY <1>1, <1>2, <1>3, Limits DEF LookupInv, LookupTypeOK, PeerStates
<1>5. StatesAgree'
  BY <1>1, <1>2, <1>3 DEF LookupInv, LookupTypeOK, StatesAgree, Contactable
<1>6. QueriesCounted'
  <2>1. Cardinality(candidates') <= MaxCandidates
    BY <1>3, SmallerQueue DEF LookupInv, LookupTypeOK, QueriesCounted
  <2>2. inFlight \in SUBSET Peers /\ roundQueries \in Nat
    BY Limits DEF LookupInv, LookupTypeOK
  <2>3. IsFiniteSet(inFlight) /\ Cardinality(inFlight) \in Nat
    BY <2>2, FiniteCandidates
  <2>4. \/ Cardinality(inFlight \cup {c}) = Cardinality(inFlight)
        \/ Cardinality(inFlight \cup {c}) = Cardinality(inFlight) + 1
    BY <2>3, FS_AddElement, Zenon
  <2>5. Cardinality(inFlight) <= roundQueries
    BY DEF LookupInv, QueriesCounted
  <2>6. Cardinality(inFlight') <= roundQueries'
    <3>1. CASE inFlight' = inFlight \cup {c} /\ roundQueries' = roundQueries + 1
      BY <2>2, <2>3, <2>4, <2>5, <3>1
    <3>2. CASE inFlight' = inFlight /\ roundQueries' = roundQueries
      BY <2>5, <3>2
    <3>3. QED
      BY <1>1, <3>1, <3>2
  <2>7. QED
    BY <2>1, <2>6 DEF QueriesCounted
<1>7. ConvergedIsFinal' /\ Stopped'
  BY <1>2 DEF LookupInv, ConvergedIsFinal, Stopped
<1>8. QED
  BY <1>4, <1>5, <1>6, <1>7 DEF LookupInv

\* Closing the batch, with or without queries, keeps the invariant.
LEMMA CloseBatchKeepsInv ==
    ASSUME LookupInv, CloseBatch
    PROVE  LookupInv'
<1>1. /\ pc = "select" /\ termination = "None"
      /\ UNCHANGED <<peerState, inFlight, successful, iterations, roundQueries, offered>>
  BY DEF CloseBatch, LookupInv, Stopped
<1>2. CASE pc' = "query" /\ UNCHANGED <<candidates, previousTopK, roundActive, termination>>
  BY <1>1, <1>2 DEF LookupInv, LookupTypeOK, StatesAgree, Contactable, QueriesCounted,
                    ConvergedIsFinal, Stopped
<1>3. CASE inFlight = {} /\ CompleteRound
  <2>1. /\ candidates' \subseteq candidates
        /\ previousTopK' \subseteq Peers
        /\ roundActive' = FALSE
        /\ pc' \in {"begin", "done"}
        /\ termination' \in Terminations
        /\ ConvergedIsFinal'
    BY <1>1, <1>3, CompleteRoundFacts
  <2>2. Cardinality(candidates') <= MaxCandidates
    BY <2>1, SmallerQueue DEF LookupInv, LookupTypeOK, QueriesCounted
  <2>3. LookupTypeOK'
    BY <1>1, <2>1 DEF LookupInv, LookupTypeOK
  <2>4. StatesAgree' /\ QueriesCounted' /\ Stopped'
    BY <1>1, <1>3, <2>1, <2>2 DEF LookupInv, StatesAgree, Contactable, QueriesCounted, Stopped
  <2>5. QED
    BY <2>1, <2>3, <2>4 DEF LookupInv
<1>4. QED
  BY <1>2, <1>3 DEF CloseBatch

\* An outcome takes its peer out of flight.
LEMMA FewerInFlight ==
    ASSUME LookupInv, NEW S \in SUBSET inFlight
    PROVE  Cardinality(S) <= roundQueries
<1>1. /\ inFlight \in SUBSET Peers /\ roundQueries \in Nat
      /\ Cardinality(inFlight) <= roundQueries
  BY Limits DEF LookupInv, LookupTypeOK, QueriesCounted
<1>2. IsFiniteSet(inFlight) /\ Cardinality(inFlight) \in Nat /\ Cardinality(S) \in Nat
  BY <1>1, FiniteCandidates
<1>3. Cardinality(S) <= Cardinality(inFlight)
  BY <1>2, FS_Subset
<1>4. QED
  BY <1>1, <1>2, <1>3

\* Recording an outcome keeps the invariant.
LEMMA OutcomeKeepsInv ==
    ASSUME LookupInv, NEW p \in Peers, Succeeded(p) \/ NotSucceeded(p)
    PROVE  LookupInv'
<1>1. /\ pc = "query" /\ p \in inFlight /\ inFlight' = inFlight \ {p}
      /\ UNCHANGED <<candidates, previousTopK, iterations, roundActive,
                     roundQueries, termination>>
      /\ termination = "None"
  BY DEF Succeeded, NotSucceeded, LookupInv, Stopped
<1>2. peerState[p] = "Waiting"
  BY <1>1 DEF LookupInv, StatesAgree
<1>3. Cardinality(inFlight') <= roundQueries
  BY <1>1, FewerInFlight
<1>4. QueriesCounted' /\ ConvergedIsFinal'
  BY <1>1, <1>3 DEF LookupInv, QueriesCounted, ConvergedIsFinal
<1>5. CASE Succeeded(p)
  <2>1. offered' \subseteq Peers
    BY <1>5, LookupConstants DEF Succeeded
  <2>2. LookupTypeOK'
    BY <1>1, <1>5, <2>1 DEF Succeeded, LookupInv, LookupTypeOK, PeerStates
  <2>3. StatesAgree' /\ Stopped'
    BY <1>1, <1>2, <1>5 DEF Succeeded, LookupInv, LookupTypeOK, StatesAgree,
                            Contactable, Stopped
  <2>4. QED
    BY <1>4, <2>2, <2>3 DEF LookupInv
<1>6. CASE NotSucceeded(p)
  <2>1. LookupTypeOK'
    BY <1>1, <1>6 DEF NotSucceeded, LookupInv, LookupTypeOK, PeerStates
  <2>2. StatesAgree' /\ Stopped'
    BY <1>1, <1>2, <1>6 DEF NotSucceeded, LookupInv, LookupTypeOK, StatesAgree,
                            Contactable, Stopped
  <2>3. QED
    BY <1>4, <2>1, <2>2 DEF LookupInv
<1>7. QED
  BY <1>5, <1>6

\* Admitting a candidate of a response keeps the invariant.
LEMMA AdmitCandidateKeepsInv ==
    ASSUME LookupInv, AdmitCandidate
    PROVE  LookupInv'
<1>1. /\ pc = "admit" /\ termination = "None"
      /\ UNCHANGED <<peerState, inFlight, successful, previousTopK, iterations,
                     roundActive, roundQueries, termination>>
      /\ pc' \in {"admit", "query"} /\ offered' \subseteq offered
  BY DEF AdmitCandidate, LookupInv, Stopped
<1>2. /\ candidates' \subseteq Peers
      /\ \A d \in candidates' : Contactable(d)
      /\ Cardinality(candidates') <= MaxCandidates
  <2>1. ASSUME NEW c \in offered, AddCandidate(c) 
        PROVE  /\ candidates' \subseteq Peers
               /\ \A d \in candidates' : Contactable(d)
               /\ Cardinality(candidates') <= MaxCandidates
    <3>1. c \in Peers
      BY <2>1 DEF LookupInv, LookupTypeOK
    <3>2. QED
      BY <2>1, <3>1, AddCandidateFacts DEF LookupInv
  <2>2. CASE UNCHANGED candidates
    BY <2>2 DEF LookupInv, LookupTypeOK, StatesAgree, QueriesCounted
  <2>3. QED
    BY <2>1, <2>2 DEF AdmitCandidate
<1>3. LookupTypeOK'
  BY <1>1, <1>2 DEF LookupInv, LookupTypeOK
<1>4. StatesAgree' /\ QueriesCounted' /\ ConvergedIsFinal' /\ Stopped'
  BY <1>1, <1>2 DEF LookupInv, StatesAgree, Contactable, QueriesCounted,
                    ConvergedIsFinal, Stopped
<1>5. QED
  BY <1>3, <1>4 DEF LookupInv

\* Peers abandoned by a batch or by the deadline are no longer waiting.
LEMMA AbandonFacts ==
    ASSUME LookupInv, peerState' = Abandoned, inFlight' = {},
           UNCHANGED <<successful, roundQueries>>,
           candidates' \subseteq candidates
    PROVE  /\ peerState' \in [Peers -> PeerStates]
           /\ StatesAgree'
           /\ QueriesCounted'
<1>1. peerState' \in [Peers -> PeerStates]
  BY DEF Abandoned, LookupInv, LookupTypeOK, PeerStates
<1>2. \A p \in Peers : peerState'[p] = IF p \in inFlight THEN "Unresponsive" ELSE peerState[p]
  BY DEF Abandoned
<1>3. \A c \in candidates' : c \in Peers /\ c \notin inFlight /\ peerState[c] = "New"
  BY DEF LookupInv, LookupTypeOK, StatesAgree, Contactable
<1>4. StatesAgree'
  BY <1>2, <1>3 DEF LookupInv, LookupTypeOK, StatesAgree, Contactable
<1>5. {} \in SUBSET inFlight
  OBVIOUS
<1>6. Cardinality(inFlight') <= roundQueries'
  BY <1>5, FewerInFlight
<1>7. Cardinality(candidates') <= MaxCandidates
  BY SmallerQueue DEF LookupInv, LookupTypeOK, QueriesCounted
<1>8. QED
  BY <1>1, <1>4, <1>6, <1>7 DEF QueriesCounted

\* The end of a batch, with its abandoned peers, keeps the invariant.
LEMMA EndBatchKeepsInv ==
    ASSUME LookupInv, EndBatch
    PROVE  LookupInv'
<1>1. /\ pc = "query" /\ termination = "None" /\ CompleteRound
      /\ peerState' = Abandoned /\ inFlight' = {}
      /\ UNCHANGED <<successful, iterations, roundQueries, offered>>
  BY DEF EndBatch, LookupInv, Stopped
<1>2. /\ candidates' \subseteq candidates
      /\ previousTopK' \subseteq Peers
      /\ roundActive' = FALSE
      /\ pc' \in {"begin", "done"}
      /\ termination' \in Terminations
      /\ ConvergedIsFinal'
  BY <1>1, CompleteRoundFacts
<1>3. peerState' \in [Peers -> PeerStates] /\ StatesAgree' /\ QueriesCounted'
  BY <1>1, <1>2, AbandonFacts
<1>4. LookupTypeOK' /\ Stopped'
  BY <1>1, <1>2, <1>3 DEF LookupInv, LookupTypeOK, Stopped
<1>5. QED
  BY <1>2, <1>3, <1>4 DEF LookupInv

\* A deadline keeps the invariant wherever it strikes.
LEMMA DeadlineKeepsInv ==
    ASSUME LookupInv, Deadline
    PROVE  LookupInv'
<1>1. /\ peerState' = Abandoned /\ inFlight' = {} /\ Finish("TimedOut")
      /\ UNCHANGED <<candidates, successful, previousTopK, iterations, roundQueries, offered>>
  BY DEF Deadline
<1>2. peerState' \in [Peers -> PeerStates] /\ StatesAgree' /\ QueriesCounted'
  BY <1>1, AbandonFacts
<1>3. LookupTypeOK' /\ ConvergedIsFinal' /\ Stopped'
  BY <1>1, <1>2 DEF Finish, LookupInv, LookupTypeOK, ConvergedIsFinal, Stopped, Terminations
<1>4. QED
  BY <1>2, <1>3 DEF LookupInv

\* An adapter error keeps the invariant.
LEMMA AdapterFailsKeepsInv ==
    ASSUME LookupInv, AdapterFails
    PROVE  LookupInv'
BY DEF AdapterFails, LookupInv, LookupTypeOK, StatesAgree, Contactable, QueriesCounted,
       ConvergedIsFinal, Stopped

\* Every step of the lookup keeps the invariant.
LEMMA NextKeepsLookupInv == LookupInv /\ [Next]_vars => LookupInv'
<1> SUFFICES ASSUME LookupInv, [Next]_vars PROVE LookupInv'
  OBVIOUS
<1>1. CASE UNCHANGED vars
  BY <1>1 DEF vars, LookupInv, LookupTypeOK, StatesAgree, Contactable, QueriesCounted,
              ConvergedIsFinal, Stopped, Results
<1>2. QED
  BY <1>1, BeginRoundKeepsInv, SelectCandidateKeepsInv, CloseBatchKeepsInv,
     OutcomeKeepsInv, AdmitCandidateKeepsInv, EndBatchKeepsInv, DeadlineKeepsInv,
     AdapterFailsKeepsInv
     DEF Next, WalkStep

\* The inductive invariant of every lookup.
THEOREM LookupInvariant == Spec => []LookupInv
BY InitLookup, NextKeepsLookupInv, PTL DEF Spec

\* The four collections of IterativeLookup agree, and a lookup that returns
\* leaves nobody waiting.
THEOREM CollectionsAgree == Spec => []StatesAgree
<1>1. LookupInv => StatesAgree
  BY DEF LookupInv
<1>2. QED
  BY <1>1, LookupInvariant, PTL

\* alpha and max_candidates bound a lookup whatever peers answer.
THEOREM LimitsHold == Spec => []WithinLimits
<1>1. ASSUME LookupInv PROVE WithinLimits
  <2>1. Cardinality(inFlight) <= roundQueries /\ Cardinality(candidates) <= MaxCandidates
    BY <1>1 DEF LookupInv, QueriesCounted
  <2>2. inFlight \in SUBSET Peers /\ roundQueries \in 0..Alpha
    BY <1>1 DEF LookupInv, LookupTypeOK
  <2>3. Cardinality(inFlight) \in Nat
    BY <2>2, FiniteCandidates
  <2>4. QED
    BY <2>1, <2>2, <2>3, Limits DEF WithinLimits
<1>2. QED
  BY <1>1, LookupInvariant, PTL

\* Converged means what its documentation says.
THEOREM ConvergenceSound == Spec => []ConvergedIsFinal
<1>1. LookupInv => ConvergedIsFinal
  BY DEF LookupInv
<1>2. QED
  BY <1>1, LookupInvariant, PTL

\* Every step moves peer states forward only.
LEMMA NextAdvancesStates == LookupInv /\ [Next]_vars => [StatesAdvance]_vars
<1> SUFFICES ASSUME LookupInv, Next PROVE StatesAdvance
  BY DEF StatesAdvance
<1>1. inFlight = {p \in Peers : peerState[p] = "Waiting"} /\ peerState \in [Peers -> PeerStates]
  BY DEF LookupInv, StatesAgree, LookupTypeOK
<1>2. CASE UNCHANGED peerState
  BY <1>2 DEF StatesAdvance
<1>3. ASSUME peerState' = Abandoned PROVE StatesAdvance
  BY <1>1, <1>3 DEF Abandoned, StatesAdvance
<1>4. CASE SelectCandidate
  BY <1>1, <1>4 DEF SelectCandidate, Uncontacted, Contactable, StatesAdvance
<1>5. ASSUME NEW p \in Peers, Succeeded(p) \/ NotSucceeded(p) PROVE StatesAdvance
  BY <1>1, <1>5 DEF Succeeded, NotSucceeded, StatesAdvance
<1>6. QED
  BY <1>2, <1>3, <1>4, <1>5
     DEF Next, WalkStep, BeginRound, CloseBatch, AdmitCandidate, EndBatch, Deadline,
         AdapterFails

\* No peer is queried twice, and no answer is taken back.
THEOREM NoRequery == Spec => QueriedOnce
BY LookupInvariant, NextAdvancesStates, PTL DEF Spec, QueriedOnce
=============================================================================
