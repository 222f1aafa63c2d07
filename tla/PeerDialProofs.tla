--------------------------- MODULE PeerDialProofs ---------------------------
(***************************************************************************)
(* Safety of the dial coordinator for any number of concurrent requests.   *)
(***************************************************************************)
EXTENDS PeerDial, TLAPS

\* Exactly the slot's holder is between claiming and vacating it.
OwnerHoldsSlot == \A c \in Requests : pc[c] \in Owning <=> slot = c

\* What makes the waiters' and the penalties' properties inductive: an owner
\* listens to itself, has an outcome before it vacates, and is charged only on
\* its way out; a request that may still be charged has not been charged.
Accounts(c) ==
    /\ charged[c] \in {0, 1}
    /\ charged[c] = 1 => pc[c] \in {"publish", "notify", "done"}
    /\ charged[c] = 1 /\ outcome[c] \in DialFailures => leader[c] = c
    /\ pc[c] \in Owning \cup {"notify"} => leader[c] = c
    /\ pc[c] \in {"publish", "notify"} /\ outcome[c] = "Connected" => charged[c] = 0
    /\ pc[c] \in {"forget", "publish", "notify"} => outcome[c] # "none"
    /\ pc[c] \in {"idle", "ensure", "claim"} => outcome[c] = "none"
    /\ pc[c] \in {"send", "await"} => outcome[c] \in {"none", "Connected"}

DialInv ==
    /\ DialTypeOK
    /\ OwnerHoldsSlot
    /\ WaitersHaveOwner
    /\ OperationsReleased
    /\ \A c \in Requests : Accounts(c)

\* The initial state, before any request runs, satisfies the invariant.
LEMMA DialInit == Init => DialInv
<1> SUFFICES ASSUME Init PROVE DialInv
  OBVIOUS
<1>1. DialTypeOK
  BY DEF Init, DialTypeOK, Steps, Outcomes, OperationStates
<1>2. OwnerHoldsSlot /\ WaitersHaveOwner /\ OperationsReleased
  BY DialConstants DEF Init, OwnerHoldsSlot, WaitersHaveOwner, OperationsReleased, Owning
<1>3. \A c \in Requests : Accounts(c)
  BY DEF Init, Accounts, Owning, DialFailures
<1> QED BY <1>1, <1>2, <1>3 DEF DialInv

\* Every step of a request, of a response handler and of the surroundings
\* keeps the types.
LEMMA DialTypes == DialTypeOK /\ [Next]_vars => DialTypeOK'
<1> USE DEF DialTypeOK, Owning, Steps, Outcomes, OperationStates, DialFailures,
        Goto, Penalise, Unregister, Return, Resolve, Tell, dialVars, opVars
<1> SUFFICES ASSUME DialTypeOK, [Next]_vars PROVE DialTypeOK'
  OBVIOUS
<1>1. ASSUME NEW c \in Requests, StartRequest(c) PROVE DialTypeOK'
  BY <1>1 DEF StartRequest
<1>2. ASSUME NEW c \in Requests, RequestStep(c) PROVE DialTypeOK'
  <2>1. CASE EnsurePeerChannel(c) BY <2>1 DEF EnsurePeerChannel
  <2>2. CASE JoinDial(c) BY <2>2 DEF JoinDial
  <2>3. CASE Suppressed(c) BY <2>3 DEF Suppressed
  <2>4. CASE OwnDial(c) BY <2>4 DEF OwnDial
  <2>5. CASE DialAddresses(c) BY <2>5 DEF DialAddresses
  <2>6. CASE DialFails(c) BY <2>6 DEF DialFails
  <2>7. CASE DialOpens(c) BY <2>7 DEF DialOpens
  <2>8. CASE IdentityConfirmed(c) BY <2>8 DEF IdentityConfirmed
  <2>9. CASE IdentityMismatch(c) BY <2>9 DEF IdentityMismatch
  <2>10. CASE IdentityFails(c) BY <2>10 DEF IdentityFails
  <2>11. CASE ForgetMismatched(c) BY <2>11 DEF ForgetMismatched
  <2>12. CASE VacateSlot(c) BY <2>12 DEF VacateSlot
  <2>13. CASE NotifySubscribers(c) BY <2>13 DEF NotifySubscribers
  <2>14. CASE SubscriberWakes(c) BY <2>14 DEF SubscriberWakes
  <2>15. CASE SendMessage(c) BY <2>15 DEF SendMessage
  <2>16. CASE NoResponse(c) BY <2>16 DEF NoResponse
  <2> QED BY <1>2, <2>1, <2>2, <2>3, <2>4, <2>5, <2>6, <2>7, <2>8, <2>9, <2>10,
             <2>11, <2>12, <2>13, <2>14, <2>15, <2>16 DEF RequestStep
<1>3. ASSUME NEW c \in Requests,
             ClaimResponse(c) \/ DeliverResponse(c) \/ OperationExpires(c) \/ CancelRequest(c)
      PROVE  DialTypeOK'
  BY <1>3 DEF ClaimResponse, DeliverResponse, OperationExpires, CancelRequest
<1>4. CASE Surroundings
  BY <1>4 DEF Surroundings, ConnectionChanges, SuppressionExpires, PeerAdmitted
<1>5. CASE UNCHANGED vars
  BY <1>5 DEF vars
<1> QED BY <1>1, <1>2, <1>3, <1>4, <1>5 DEF Next

\* Every step keeps slot and owner together, each waiter's owner running, and
\* the accounts straight.
LEMMA DialStep == DialInv /\ [Next]_vars => DialInv'
<1> SUFFICES ASSUME DialInv, [Next]_vars PROVE DialInv'
  OBVIOUS
<1>t. DialTypeOK /\ DialTypeOK'
  BY DialTypes DEF DialInv
<1> DEFINE Rest == OwnerHoldsSlot /\ WaitersHaveOwner /\ OperationsReleased
                     /\ \A c \in Requests : Accounts(c)
<1>r. Rest
  BY DEF DialInv
<1>s. Rest'
  <2> USE <1>t, <1>r, DialConstants
      DEF OwnerHoldsSlot, WaitersHaveOwner, OperationsReleased, Accounts,
          DialTypeOK, Owning, Steps, Outcomes, OperationStates, DialFailures,
          Goto, Penalise, Unregister, Return, Resolve, Tell, Waiting, dialVars, opVars
  <2>1. ASSUME NEW c \in Requests, StartRequest(c) PROVE Rest'
    BY <2>1 DEF StartRequest
  <2>2. ASSUME NEW c \in Requests, RequestStep(c) PROVE Rest'
    <3>1. CASE EnsurePeerChannel(c) BY <3>1 DEF EnsurePeerChannel
    <3>2. CASE JoinDial(c) BY <3>2 DEF JoinDial
    <3>3. CASE Suppressed(c) BY <3>3 DEF Suppressed
    <3>4. CASE OwnDial(c) BY <3>4 DEF OwnDial
    <3>5. CASE DialAddresses(c) BY <3>5 DEF DialAddresses
    <3>6. CASE DialFails(c) BY <3>6 DEF DialFails
    <3>7. CASE DialOpens(c) BY <3>7 DEF DialOpens
    <3>8. CASE IdentityConfirmed(c) BY <3>8 DEF IdentityConfirmed
    <3>9. CASE IdentityMismatch(c) BY <3>9 DEF IdentityMismatch
    <3>10. CASE IdentityFails(c) BY <3>10 DEF IdentityFails
    <3>11. CASE ForgetMismatched(c) BY <3>11 DEF ForgetMismatched
    <3>12. CASE VacateSlot(c) BY <3>12 DEF VacateSlot
    <3>13. CASE NotifySubscribers(c)
      <4>1. CASE outcome[c] = "Connected" BY <3>13, <4>1 DEF NotifySubscribers
      <4>2. CASE outcome[c] # "Connected" BY <3>13, <4>2 DEF NotifySubscribers
      <4> QED BY <4>1, <4>2
    <3>14. CASE SubscriberWakes(c)
      <4>1. CASE outcome[c] = "Connected" BY <3>14, <4>1 DEF SubscriberWakes
      <4>2. CASE outcome[c] # "Connected" BY <3>14, <4>2 DEF SubscriberWakes
      <4> QED BY <4>1, <4>2
    <3>15. CASE SendMessage(c) BY <3>15 DEF SendMessage
    <3>16. CASE NoResponse(c) BY <3>16 DEF NoResponse
    <3> QED BY <2>2, <3>1, <3>2, <3>3, <3>4, <3>5, <3>6, <3>7, <3>8, <3>9, <3>10,
               <3>11, <3>12, <3>13, <3>14, <3>15, <3>16 DEF RequestStep
  <2>3. ASSUME NEW c \in Requests, ClaimResponse(c) \/ OperationExpires(c) PROVE Rest'
    BY <2>3 DEF ClaimResponse, OperationExpires
  <2>4. ASSUME NEW c \in Requests, DeliverResponse(c) PROVE Rest'
    BY <2>4 DEF DeliverResponse
  <2>5. ASSUME NEW c \in Requests, CancelRequest(c) PROVE Rest'
    BY <2>5 DEF CancelRequest
  <2>6. CASE Surroundings
    BY <2>6 DEF Surroundings, ConnectionChanges, SuppressionExpires, PeerAdmitted
  <2>7. CASE UNCHANGED vars
    BY <2>7 DEF vars
  <2> QED BY <2>1, <2>2, <2>3, <2>4, <2>5, <2>6, <2>7 DEF Next
<1> QED BY <1>t, <1>s DEF DialInv

\* The inductive invariant of the coordinator, for any set of requests.
THEOREM DialInvariant == Spec => []DialInv
  BY DialInit, DialStep, PTL DEF Spec

\* ensure_peer_channel runs one dial at a time, and its coordinator entry is
\* held by the request that runs it, cancelled or not.
THEOREM SingleDial == Spec => []OneDialAtATime
<1>1. DialInv => OneDialAtATime
  BY DialConstants DEF DialInv, DialTypeOK, OwnerHoldsSlot, OneDialAtATime
<1> QED BY <1>1, DialInvariant, PTL

\* Penalties of run_owned_dial and send_dht_request_inner never add up.
THEOREM SinglePenalty == Spec => []ChargedOnce
<1>1. DialInv => ChargedOnce
  BY DEF DialInv, Accounts, ChargedOnce
<1> QED BY <1>1, DialInvariant, PTL

\* A subscriber of ensure_peer_channel never waits on a dead broadcast.
THEOREM WaitersServed == Spec => []WaitersHaveOwner
<1>1. DialInv => WaitersHaveOwner
  BY DEF DialInv
<1> QED BY <1>1, DialInvariant, PTL

\* DhtOperationGuard leaves no entry of active_operations behind.
THEOREM NoLeakedOperation == Spec => []OperationsReleased
<1>1. DialInv => OperationsReleased
  BY DEF DialInv
<1> QED BY <1>1, DialInvariant, PTL
=============================================================================
