------------------------- MODULE Aggregator_proofs --------------------------
(* Proofs about Aggregator, for every manifest, set of assertions, set of   *)
(* advertised tools and lifetime.                                           *)
EXTENDS Aggregator, TLAPS

-----------------------------------------------------------------------------
(* The inductive invariant: what ties the live state to the history.        *)

\* An elevation in force is the one its assertion was applied for.
ElevationTraced ==
  \A s \in Server : elevation[s].mode # "none" =>
    \E g \in grants : /\ g.by = grantedBy[s]
                      /\ g.server = s
                      /\ g.elevation = elevation[s]

\* An outstanding confirmation was approved and not spent, an assertion
\* approves once, and a spent approval was an approval.
ConfirmationTraced ==
  /\ confirmations \subseteq approvals
  /\ \A a, b \in approvals : a.by = b.by => a = b
  /\ \A c \in confirmations : \A i \in DOMAIN calls : calls[i].approval # c.by
  /\ \A i \in DOMAIN calls : calls[i].approval = NoAssertion
                              \/ calls[i].approval \in {a.by : a \in approvals}

IInv == /\ TypeOK
        /\ ElevationTraced
        /\ ConfirmationTraced
        /\ GatedCallsAreElevated
        /\ ConfirmedOncePerCall

-----------------------------------------------------------------------------
(* What the constructors of the policy core return.                         *)

LEMMA ElevationTypes ==
  ASSUME NEW now \in Nat, NEW ttl \in Nat
  PROVE  /\ ForDuration(now, ttl) \in Elevation
         /\ UntilRevoked(now) \in Elevation
         /\ NoElevation \in Elevation
  BY TimestampAssumption
  DEF ForDuration, UntilRevoked, NoElevation, Elevation, SaturatingAdd

\* A gated tool is exposed only under an elevation that is in force.
LEMMA ExposureIsGated ==
  ASSUME TypeOK, NEW s \in Server, NEW now \in Nat, NEW t \in Exposed(s, now),
         RequiresElevation(Classify(s, t))
  PROVE  /\ elevation[s].mode # "none"
         /\ \/ elevation[s].mode = "until_revoked"
            \/ now < elevation[s].expires_at
  BY DEF Exposed, ResolveExposure, RequiresElevation, IsActive

LEMMA TakeConfirmationTypes ==
  ASSUME TypeOK, NEW s \in Server, NEW t \in Tool, NEW now \in Nat, NEW by,
         TakeConfirmation(s, t, now, by)
  PROVE  /\ by \in Assertion \union {NoAssertion}
         /\ confirmations' \subseteq confirmations
  BY DEF TakeConfirmation, Usable, TypeOK, Confirmation

-----------------------------------------------------------------------------
LEMMA TypeInit == Init => TypeOK
  <1> SUFFICES ASSUME Init PROVE TypeOK
    OBVIOUS
  <1>1. NoElevation \in Elevation
    BY DEF NoElevation, Elevation
  <1> QED
    BY <1>1, AggregatorAssumption DEF Init, TypeOK, ServerState, ChildState

LEMMA TypeStep == TypeOK /\ [Next]_vars => TypeOK'
  <1> USE AggregatorAssumption
  <1> SUFFICES ASSUME TypeOK, [Next]_vars PROVE TypeOK'
    OBVIOUS
  <1>0. NoElevation \in Elevation
    BY DEF NoElevation, Elevation
  <1>1. ASSUME NEW s \in Server, NEW e \in Elevation, NEW by \in Assertion, Elevate(s, e, by)
        PROVE  TypeOK'
    BY <1>1 DEF Elevate, TypeOK, Grant
  <1>2. ASSUME NEW s \in Server, NEW now \in 0..clock, NEW by \in Assertion,
               \/ \E ttl \in Ttl : Elevate(s, ForDuration(now, ttl), by)
               \/ Elevate(s, UntilRevoked(now), by)
        PROVE  TypeOK'
    <2>1. now \in Nat
      BY DEF TypeOK
    <2>2. UntilRevoked(now) \in Elevation
      BY <2>1 DEF UntilRevoked, Elevation
    <2>3. \A ttl \in Ttl : ForDuration(now, ttl) \in Elevation
      BY <2>1, ElevationTypes
    <2> QED
      BY <1>1, <1>2, <2>2, <2>3
  <1>3. ASSUME NEW s \in ServerId, NEW t \in Tool, NEW now \in 0..clock,
               NEW by \in Assertion, ApproveAction(s, t, now, by)
        PROVE  TypeOK'
    BY <1>3 DEF ApproveAction, slots, TypeOK, Confirmation
  <1>4. ASSUME NEW s \in Server, Revoke(s) PROVE TypeOK'
    BY <1>0, <1>4 DEF Revoke, history, TypeOK
  <1>5. ASSUME NEW s \in Server, Pause(s) \/ Resume(s) \/ StartKeepsChild(s) PROVE TypeOK'
    BY <1>5 DEF Pause, Resume, StartKeepsChild, SetState, history, TypeOK, ServerState
  <1>6. ASSUME NEW s \in Server, Stop(s) PROVE TypeOK'
    BY <1>6 DEF Stop, SetState, history, TypeOK, ServerState, ChildState
  <1>7. ASSUME NEW s \in Server, NEW advertised \in AdvertisedSets, StartSpawn(s, advertised)
        PROVE  TypeOK'
    BY <1>7 DEF StartSpawn, SetState, history, TypeOK, ServerState, ChildState
  <1>8. ASSUME NEW s \in Server, CallAnswered(s) PROVE TypeOK'
    BY <1>8 DEF CallAnswered, slots, history, TypeOK
  <1>9. ASSUME NEW s \in Server, CallFault(s) PROVE TypeOK'
    BY <1>0, <1>9 DEF CallFault, history, TypeOK, ServerState
  <1>10. ASSUME NEW s \in Server, ChildExit(s) PROVE TypeOK'
    BY <1>10 DEF ChildExit, slots, history, TypeOK, ChildState
  <1>11. ASSUME NEW s \in Server, NEW t \in Tool, NEW now \in 0..clock,
                NEW by \in Assertion \union {NoAssertion}, CallDispatch(s, t, now, by)
         PROVE  TypeOK'
    <2> DEFINE c == [server |-> s, tool |-> t, now |-> now,
                     by |-> grantedBy[s], approval |-> by]
    <2>1. now \in Nat
      BY DEF TypeOK
    <2>2. c \in Call
      BY <2>1 DEF TypeOK, Call
    <2>3. calls' \in Seq(Call)
      BY <1>11, <2>2 DEF CallDispatch, TypeOK
    <2>4. confirmations' \subseteq confirmations
      BY <1>11, <2>1, TakeConfirmationTypes DEF CallDispatch
    <2> QED
      BY <1>11, <2>3, <2>4 DEF CallDispatch, slots, TypeOK
  <1>12. ASSUME NEW s \in Server, NEW t \in Tool, NEW now \in 0..clock,
                NEW by \in Assertion \union {NoAssertion}, CallNoChild(s, t, now, by)
         PROVE  TypeOK'
    <2>1. now \in Nat
      BY DEF TypeOK
    <2>2. confirmations' \subseteq confirmations
      BY <1>12, <2>1, TakeConfirmationTypes DEF CallNoChild
    <2> QED
      BY <1>12, <2>2 DEF CallNoChild, slots, history, TypeOK
  <1>13. CASE Tick
    BY <1>13 DEF Tick, slots, history, TypeOK
  <1>14. ASSUME NEW up \in SUBSET Server, NEW advertised \in [Server -> AdvertisedSets],
                Restart(up, advertised)
         PROVE  TypeOK'
    BY <1>0, <1>14 DEF Restart, Built, history, TypeOK, ServerState, ChildState
  <1>15. CASE ReapExitedChildren
    BY <1>0, <1>15 DEF ReapExitedChildren, history, TypeOK, ServerState
  <1>16. CASE UNCHANGED vars
    BY <1>16 DEF vars, slots, history, TypeOK
  <1> QED
    BY <1>2, <1>3, <1>4, <1>5, <1>6, <1>7, <1>8, <1>9, <1>10, <1>11, <1>12, <1>13,
       <1>14, <1>15, <1>16 DEF Next

\* The calls only grow, and a step that leaves one in progress found it so or made it.
LEMMA CallsGrow ==
  ASSUME TypeOK, [Next]_vars
  PROVE  /\ \/ calls' = calls
            \/ \E c \in Call : calls' = Append(calls, c)
         /\ serving' # {} => serving # {} \/ calls' # calls
  <1>1. ASSUME NEW s \in Server, NEW t \in Tool, NEW now \in 0..clock,
               NEW by \in Assertion \union {NoAssertion}, CallDispatch(s, t, now, by)
        PROVE  \E c \in Call : calls' = Append(calls, c) /\ calls' # calls
    <2> DEFINE c == [server |-> s, tool |-> t, now |-> now,
                     by |-> grantedBy[s], approval |-> by]
    <2>1. c \in Call
      BY DEF TypeOK, Call
    <2>2. calls' = Append(calls, c)
      BY <1>1 DEF CallDispatch
    <2> HIDE DEF c
    <2> QED
      BY <2>1, <2>2 DEF TypeOK
  <1>2. ASSUME [Next]_vars,
               ~ \E s \in Server, t \in Tool, now \in 0..clock,
                   by \in Assertion \union {NoAssertion} : CallDispatch(s, t, now, by)
        PROVE  calls' = calls /\ (serving' # {} => serving # {})
    BY <1>2 DEF Next, vars, slots, history, Elevate, ApproveAction, Revoke, SetState, Pause,
         Resume, Stop, StartSpawn, StartKeepsChild, CallAnswered, CallFault, ChildExit,
         CallNoChild, ReapExitedChildren, Tick, Restart, Built
  <1> QED
    BY <1>1, <1>2

\* Every operation under the aggregator's mutex keeps every variable in its type.
THEOREM TypeCorrect == Spec => []TypeOK
  BY TypeInit, TypeStep, PTL DEF Spec

-----------------------------------------------------------------------------
(* The inductive step.  Most operations leave the history alone and at most *)
(* drop an elevation; the three that write history have a lemma each.       *)

LEMMA ElevateStep ==
  ASSUME IInv, NEW s \in Server, NEW e \in Elevation, NEW by \in Assertion,
         Elevate(s, e, by)
  PROVE  ElevationTraced' /\ ConfirmationTraced' /\ GatedCallsAreElevated'
           /\ ConfirmedOncePerCall'
  <1> DEFINE g == [server |-> s, elevation |-> e, by |-> by]
  <1>1. /\ elevation' = [elevation EXCEPT ![s] = e]
        /\ grantedBy' = [grantedBy EXCEPT ![s] = by]
        /\ grants' = grants \union {g}
        /\ UNCHANGED <<confirmations, approvals, calls>>
    BY DEF Elevate
  <1>2. ElevationTraced'
    <2> SUFFICES ASSUME NEW x \in Server, elevation'[x].mode # "none"
                 PROVE  \E h \in grants' : /\ h.by = grantedBy'[x]
                                           /\ h.server = x
                                           /\ h.elevation = elevation'[x]
      BY DEF ElevationTraced
    <2>1. CASE x = s
      <3>1. g \in grants' /\ g.by = by /\ g.server = s /\ g.elevation = e
        BY <1>1
      <3>2. grantedBy'[x] = by /\ elevation'[x] = e
        BY <1>1, <2>1 DEF IInv, TypeOK
      <3> QED
        BY <3>1, <3>2, <2>1
    <2>2. CASE x # s
      BY <1>1, <2>2 DEF IInv, TypeOK, ElevationTraced
    <2> QED
      BY <2>1, <2>2
  <1>3. ConfirmationTraced' /\ ConfirmedOncePerCall'
    BY <1>1 DEF IInv, ConfirmationTraced, ConfirmedOncePerCall, CallClass, ConfirmationExpired
  <1>4. GatedCallsAreElevated'
    BY <1>1 DEF IInv, GatedCallsAreElevated, CallClass
  <1> QED
    BY <1>2, <1>3, <1>4

LEMMA ApproveStep ==
  ASSUME IInv, NEW s \in ServerId, NEW t \in Tool, NEW now \in Nat,
         NEW by \in Assertion \ Applied, ApproveAction(s, t, now, by)
  PROVE  ElevationTraced' /\ ConfirmationTraced' /\ GatedCallsAreElevated'
           /\ ConfirmedOncePerCall'
  <1> DEFINE a == [server |-> s, tool |-> t, approved_at |-> now, by |-> by]
  <1> USE AggregatorAssumption
  <1>1. /\ confirmations' \subseteq confirmations \union {a}
        /\ approvals' = approvals \union {a}
        /\ UNCHANGED <<elevation, grantedBy, grants, calls>>
        /\ a \in confirmations'
    BY DEF ApproveAction, slots
  <1>2. a.by = by /\ by # NoAssertion
    OBVIOUS
  <1>3. \A b \in approvals : b.by # by
    BY DEF Applied
  <1>4. \A i \in DOMAIN calls : calls[i].approval # by
    BY <1>2, <1>3 DEF IInv, ConfirmationTraced
  <1>5. ConfirmationTraced'
    <2>1. confirmations' \subseteq approvals'
      BY <1>1 DEF IInv, ConfirmationTraced
    <2>2. \A b, c \in approvals' : b.by = c.by => b = c
      BY <1>1, <1>2, <1>3 DEF IInv, ConfirmationTraced
    <2>3. \A c \in confirmations' : \A i \in DOMAIN calls : calls[i].approval # c.by
      BY <1>1, <1>2, <1>4 DEF IInv, ConfirmationTraced
    <2>4. {b.by : b \in approvals} \subseteq {b.by : b \in approvals'}
      BY <1>1
    <2> QED
      BY <1>1, <2>1, <2>2, <2>3, <2>4 DEF IInv, ConfirmationTraced
  <1>6. ConfirmedOncePerCall'
    <2>1. approvals \subseteq approvals' /\ calls' = calls
      BY <1>1
    <2> QED
      BY <2>1 DEF IInv, ConfirmedOncePerCall, CallClass, ConfirmationExpired
  <1>7. ElevationTraced' /\ GatedCallsAreElevated'
    BY <1>1 DEF IInv, ElevationTraced, GatedCallsAreElevated, CallClass
  <1> QED
    BY <1>5, <1>6, <1>7

LEMMA DispatchStep ==
  ASSUME IInv, TypeOK', NEW s \in Server, NEW t \in Tool, NEW now \in Nat,
         NEW by \in Assertion \union {NoAssertion}, CallDispatch(s, t, now, by)
  PROVE  ElevationTraced' /\ ConfirmationTraced' /\ GatedCallsAreElevated'
           /\ ConfirmedOncePerCall'
  <1> DEFINE c == [server |-> s, tool |-> t, now |-> now,
                   by |-> grantedBy[s], approval |-> by]
             n == Len(calls) + 1
  <1> USE AggregatorAssumption
  <1>1. /\ calls' = Append(calls, c)
        /\ t \in Exposed(s, now)
        /\ TakeConfirmation(s, t, now, by)
        /\ UNCHANGED <<elevation, grantedBy, grants, approvals>>
    BY DEF CallDispatch, slots
  <1>2. /\ c.server = s /\ c.tool = t /\ c.now = now
        /\ c.by = grantedBy[s] /\ c.approval = by
    OBVIOUS
  <1>3. c \in Call /\ calls \in Seq(Call)
    BY DEF IInv, TypeOK, Call
  <1> HIDE DEF c
  <1>4. /\ n \in DOMAIN calls' /\ n \notin DOMAIN calls
        /\ calls'[n] = c
        /\ \A i \in DOMAIN calls' : i # n => i \in DOMAIN calls /\ calls'[i] = calls[i]
    BY <1>1, <1>3
  <1>5. TypeOK
    BY DEF IInv
  <1>6. ElevationTraced'
    BY <1>1 DEF IInv, ElevationTraced
  <1>7. GatedCallsAreElevated'
    <2>1. ASSUME RequiresElevation(Classify(s, t))
          PROVE  \E g \in grants : /\ g.by = grantedBy[s]
                                   /\ g.server = s
                                   /\ \/ g.elevation.mode = "until_revoked"
                                      \/ now < g.elevation.expires_at
      BY <1>1, <1>5, <2>1, ExposureIsGated DEF IInv, ElevationTraced
    <2> SUFFICES ASSUME NEW i \in DOMAIN calls', RequiresElevation(CallClass(i)')
                 PROVE  \E g \in grants' : /\ g.by = calls'[i].by
                                           /\ g.server = calls'[i].server
                                           /\ \/ g.elevation.mode = "until_revoked"
                                              \/ calls'[i].now < g.elevation.expires_at
      BY DEF GatedCallsAreElevated
    <2>2. CASE i = n
      BY <1>1, <1>2, <1>4, <2>1, <2>2 DEF CallClass
    <2>3. CASE i # n
      BY <1>1, <1>4, <2>3 DEF IInv, GatedCallsAreElevated, CallClass
    <2> QED
      BY <2>2, <2>3
  <1>8. CASE NeedsConfirmation(s, t)
    <2>1. PICK k \in Usable(s, t, now) : by = k.by /\ confirmations' = confirmations \ {k}
      BY <1>1, <1>8 DEF TakeConfirmation
    <2>2. /\ k \in confirmations /\ k \in approvals
          /\ k.server = s /\ k.tool = t /\ ~ConfirmationExpired(k, now)
          /\ k.by \in Assertion
      BY <2>1 DEF Usable, IInv, TypeOK, Confirmation, ConfirmationTraced
    <2>3. \A i \in DOMAIN calls : calls[i].approval # by
      BY <2>1, <2>2 DEF IInv, ConfirmationTraced
    <2>4. \A d \in confirmations' : d \in confirmations /\ d.by # by
      BY <2>1, <2>2 DEF IInv, ConfirmationTraced
    <2>5. ConfirmationTraced'
      <3>1. \A d \in confirmations' : \A i \in DOMAIN calls' : calls'[i].approval # d.by
        BY <1>2, <1>4, <2>4 DEF IInv, ConfirmationTraced
      <3>2. \A i \in DOMAIN calls' : calls'[i].approval = NoAssertion
                                   \/ calls'[i].approval \in {a.by : a \in approvals}
        BY <1>2, <1>4, <2>1, <2>2 DEF IInv, ConfirmationTraced
      <3> QED
        BY <1>1, <2>4, <3>1, <3>2 DEF IInv, ConfirmationTraced
    <2>6. ConfirmedOncePerCall'
      <3> SUFFICES ASSUME NEW i \in DOMAIN calls', RequiresPerActionPresence(CallClass(i)')
                   PROVE  /\ \E a \in approvals' : /\ a.by = calls'[i].approval
                                                   /\ a.server = calls'[i].server
                                                   /\ a.tool = calls'[i].tool
                                                   /\ ~ConfirmationExpired(a, calls'[i].now)
                          /\ \A j \in DOMAIN calls' \ {i} :
                               calls'[j].approval # calls'[i].approval
        BY DEF ConfirmedOncePerCall, ConfirmationExpired
      <3>1. CASE i = n
        BY <1>1, <1>2, <1>4, <2>1, <2>2, <2>3, <3>1
      <3>2. CASE i # n
        <4>1. i \in DOMAIN calls /\ calls'[i] = calls[i]
              /\ RequiresPerActionPresence(CallClass(i))
          BY <1>4, <3>2 DEF CallClass
        <4>2. calls'[n].approval # calls[i].approval
          BY <1>2, <1>4, <2>3, <4>1
        <4> QED
          BY <1>1, <1>4, <4>1, <4>2 DEF IInv, ConfirmedOncePerCall
      <3> QED
        BY <3>1, <3>2
    <2> QED
      BY <1>6, <1>7, <2>5, <2>6
  <1>9. CASE ~NeedsConfirmation(s, t)
    <2>1. by = NoAssertion /\ confirmations' = confirmations
      BY <1>1, <1>9 DEF TakeConfirmation
    <2>2. \A d \in confirmations : d.by # NoAssertion
      BY DEF IInv, TypeOK, Confirmation
    <2>3. ConfirmationTraced'
      <3>1. \A d \in confirmations' : \A i \in DOMAIN calls' : calls'[i].approval # d.by
        BY <1>2, <1>4, <2>1, <2>2 DEF IInv, ConfirmationTraced
      <3>2. \A i \in DOMAIN calls' : calls'[i].approval = NoAssertion
                                   \/ calls'[i].approval \in {a.by : a \in approvals}
        BY <1>2, <1>4, <2>1 DEF IInv, ConfirmationTraced
      <3> QED
        BY <1>1, <2>1, <3>1, <3>2 DEF IInv, ConfirmationTraced
    <2>4. ConfirmedOncePerCall'
      <3> SUFFICES ASSUME NEW i \in DOMAIN calls', RequiresPerActionPresence(CallClass(i)')
                   PROVE  /\ \E a \in approvals' : /\ a.by = calls'[i].approval
                                                   /\ a.server = calls'[i].server
                                                   /\ a.tool = calls'[i].tool
                                                   /\ ~ConfirmationExpired(a, calls'[i].now)
                          /\ \A j \in DOMAIN calls' \ {i} :
                               calls'[j].approval # calls'[i].approval
        BY DEF ConfirmedOncePerCall, ConfirmationExpired
      <3>1. i # n
        BY <1>2, <1>4, <1>9 DEF CallClass, NeedsConfirmation
      <3>2. i \in DOMAIN calls /\ calls'[i] = calls[i]
            /\ RequiresPerActionPresence(CallClass(i))
        BY <1>4, <3>1 DEF CallClass
      <3>3. PICK a \in approvals : /\ a.by = calls[i].approval
                                   /\ a.server = calls[i].server
                                   /\ a.tool = calls[i].tool
                                   /\ ~ConfirmationExpired(a, calls[i].now)
        BY <3>2 DEF IInv, ConfirmedOncePerCall
      <3>4. calls[i].approval # NoAssertion
        BY <3>3 DEF IInv, TypeOK, Confirmation
      <3>5. \A j \in DOMAIN calls' \ {i} : calls'[j].approval # calls'[i].approval
        BY <1>2, <1>4, <2>1, <3>2, <3>4 DEF IInv, ConfirmedOncePerCall
      <3> QED
        BY <1>1, <3>2, <3>3, <3>5
    <2> QED
      BY <1>6, <1>7, <2>3, <2>4
  <1> QED
    BY <1>8, <1>9

\* Any step that writes no history, invents no confirmation and at most drops
\* elevations.
LEMMA NarrowingStep ==
  ASSUME IInv, UNCHANGED history, confirmations' \subseteq confirmations,
         \A s \in Server : \/ elevation'[s] = NoElevation
                           \/ elevation'[s] = elevation[s] /\ grantedBy'[s] = grantedBy[s]
  PROVE  ElevationTraced' /\ ConfirmationTraced' /\ GatedCallsAreElevated'
           /\ ConfirmedOncePerCall'
  <1>1. grants' = grants /\ approvals' = approvals /\ calls' = calls
    BY DEF history
  <1>2. ElevationTraced'
    BY <1>1 DEF IInv, ElevationTraced, NoElevation
  <1>3. ConfirmationTraced'
    BY <1>1 DEF IInv, ConfirmationTraced
  <1>4. GatedCallsAreElevated' /\ ConfirmedOncePerCall'
    BY <1>1 DEF IInv, GatedCallsAreElevated, ConfirmedOncePerCall, CallClass, ConfirmationExpired
  <1> QED
    BY <1>2, <1>3, <1>4

LEMMA Inductive == Spec => []IInv
  <1>1. Init => IInv
    <2> SUFFICES ASSUME Init PROVE IInv
      OBVIOUS
    <2>1. TypeOK
      BY AggregatorAssumption
      DEF Init, TypeOK, ServerState, ChildState, NoElevation, Elevation
    <2>2. ElevationTraced
      BY DEF Init, ElevationTraced, NoElevation
    <2>3. ConfirmationTraced /\ GatedCallsAreElevated /\ ConfirmedOncePerCall
      BY DEF Init, ConfirmationTraced, GatedCallsAreElevated, ConfirmedOncePerCall
    <2> QED
      BY <2>1, <2>2, <2>3 DEF IInv
  <1>2. IInv /\ TypeOK' /\ [Next]_vars => IInv'
    <2> SUFFICES ASSUME IInv, TypeOK', [Next]_vars
                 PROVE  ElevationTraced' /\ ConfirmationTraced' /\ GatedCallsAreElevated'
                          /\ ConfirmedOncePerCall'
      BY DEF IInv
    <2> USE AggregatorAssumption
    <2>0. \A now \in 0..clock : now \in Nat
      BY DEF IInv, TypeOK
    <2>1. ASSUME NEW s \in Server, NEW now \in 0..clock, NEW by \in Assertion,
                 \/ \E ttl \in Ttl : Elevate(s, ForDuration(now, ttl), by)
                 \/ Elevate(s, UntilRevoked(now), by)
          PROVE  ElevationTraced' /\ ConfirmationTraced' /\ GatedCallsAreElevated'
                   /\ ConfirmedOncePerCall'
      <3>1. UntilRevoked(now) \in Elevation
        BY <2>0 DEF UntilRevoked, Elevation
      <3>2. \A ttl \in Ttl : ForDuration(now, ttl) \in Elevation
        BY <2>0, ElevationTypes
      <3> QED
        BY <2>1, <3>1, <3>2, ElevateStep
    <2>2. ASSUME NEW s \in Server,
                 \/ Revoke(s) \/ Pause(s) \/ Resume(s) \/ Stop(s)
                 \/ \E advertised \in AdvertisedSets : StartSpawn(s, advertised)
                 \/ StartKeepsChild(s) \/ CallAnswered(s) \/ CallFault(s) \/ ChildExit(s)
          PROVE  ElevationTraced' /\ ConfirmationTraced' /\ GatedCallsAreElevated'
                   /\ ConfirmedOncePerCall'
      <3>1. UNCHANGED history /\ confirmations' = confirmations
        BY <2>2 DEF Revoke, Pause, Resume, Stop, StartSpawn, StartKeepsChild, CallAnswered,
                    CallFault, ChildExit, SetState, history
      <3>2. \/ UNCHANGED <<elevation, grantedBy>>
            \/ /\ elevation' = [elevation EXCEPT ![s] = NoElevation]
               /\ grantedBy' = [grantedBy EXCEPT ![s] = NoAssertion]
        BY <2>2 DEF Revoke, Pause, Resume, Stop, StartSpawn, StartKeepsChild, CallAnswered,
                    CallFault, ChildExit, SetState, slots
      <3>3. \A x \in Server : \/ elevation'[x] = NoElevation
                              \/ elevation'[x] = elevation[x] /\ grantedBy'[x] = grantedBy[x]
        BY <3>2 DEF IInv, TypeOK
      <3> QED
        BY <3>1, <3>3, NarrowingStep
    <2>3. ASSUME NEW s \in Server, NEW t \in Tool, NEW now \in 0..clock,
                 NEW by \in Assertion \union {NoAssertion}, CallNoChild(s, t, now, by)
          PROVE  ElevationTraced' /\ ConfirmationTraced' /\ GatedCallsAreElevated'
                   /\ ConfirmedOncePerCall'
      <3>1. confirmations' \subseteq confirmations
        BY <2>0, <2>3, TakeConfirmationTypes DEF CallNoChild, IInv
      <3> QED
        BY <2>3, <3>1, NarrowingStep DEF CallNoChild, slots
    <2>4. CASE Tick
      BY <2>4, NarrowingStep DEF Tick, slots
    <2>5. ASSUME NEW up \in SUBSET Server, NEW advertised \in [Server -> AdvertisedSets],
                 Restart(up, advertised)
          PROVE  ElevationTraced' /\ ConfirmationTraced' /\ GatedCallsAreElevated'
                   /\ ConfirmedOncePerCall'
      BY <2>5, NarrowingStep DEF Restart, Built
    <2>6. CASE ReapExitedChildren
      BY <2>6, NarrowingStep DEF ReapExitedChildren
    <2>7. CASE UNCHANGED vars
      BY <2>7, NarrowingStep DEF vars, slots
    <2> QED
      BY <2>0, <2>1, <2>2, <2>3, <2>4, <2>5, <2>6, <2>7, ApproveStep, DispatchStep DEF Next
  <1> QED
    BY <1>1, <1>2, TypeCorrect, PTL DEF Spec

-----------------------------------------------------------------------------
\* No gated tool's call ever reaches a child but under an elevation of that
\* server that a presence assertion authorised and that was active at the
\* time the caller's thread had read.
THEOREM GateHolds == Spec => []GatedCallsAreElevated
  <1>1. IInv => GatedCallsAreElevated
    BY DEF IInv
  <1> QED
    BY <1>1, Inductive, PTL

\* Every confirm-class call that reaches a child has an approval of its own,
\* for that server and tool.
THEOREM ConfirmationsAreSingleUse == Spec => []ConfirmedOncePerCall
  <1>1. IInv => ConfirmedOncePerCall
    BY DEF IInv
  <1> QED
    BY <1>1, Inductive, PTL

-----------------------------------------------------------------------------
\* Once expired, an approval stays expired.
LEMMA ExpiryIsFinal ==
  ASSUME NEW c \in Confirmation, NEW now \in Nat, NEW later \in Nat, now <= later,
         ConfirmationExpired(c, now)
  PROVE  ConfirmationExpired(c, later)
  BY AggregatorAssumption DEF ConfirmationExpired, SaturatingSub, Confirmation

\* An approval leaves the list only when a call spends it, or is lost for want of
\* a child, when its lifetime is over, or in a restart: approving, revoking,
\* stopping and reaping do not discard one that is still good.
THEOREM ApprovalsAreKept == Spec => ApprovalKeptUntilSpent
  <1> DEFINE Keeps == \A c \in confirmations \ confirmations' :
               \/ ConfirmationExpired(c, clock)
               \/ Len(calls') > Len(calls) /\ calls'[Len(calls')].approval = c.by
               \/ c.server \in Server /\ child[c.server] = "none"
               \/ \E up \in SUBSET Server, advertised \in [Server -> AdvertisedSets] :
                    Restart(up, advertised)
  <1>1. TypeOK /\ [Next]_vars => [Keeps]_vars
    <2> SUFFICES ASSUME TypeOK, Next PROVE Keeps
      OBVIOUS
    <2> SUFFICES ASSUME NEW c \in confirmations, c \notin confirmations'
                 PROVE  \/ ConfirmationExpired(c, clock)
                        \/ Len(calls') > Len(calls) /\ calls'[Len(calls')].approval = c.by
                        \/ c.server \in Server /\ child[c.server] = "none"
                        \/ \E up \in SUBSET Server, advertised \in [Server -> AdvertisedSets] :
                             Restart(up, advertised)
      OBVIOUS
    <2>0. c \in Confirmation /\ clock \in Nat
      BY DEF TypeOK
    <2>1. ASSUME NEW s \in ServerId, NEW t \in Tool, NEW now \in 0..clock,
                 NEW by \in Assertion, ApproveAction(s, t, now, by)
          PROVE  ConfirmationExpired(c, clock)
      <3>1. ConfirmationExpired(c, now)
        BY <2>1 DEF ApproveAction
      <3> QED
        BY <2>0, <3>1, ExpiryIsFinal
    <2>2. ASSUME NEW s \in Server, NEW t \in Tool, NEW now \in 0..clock,
                 NEW by \in Assertion \union {NoAssertion}, CallDispatch(s, t, now, by)
          PROVE  Len(calls') > Len(calls) /\ calls'[Len(calls')].approval = c.by
      <3> DEFINE call == [server |-> s, tool |-> t, now |-> now,
                          by |-> grantedBy[s], approval |-> by]
      <3>1. by = c.by
        BY <2>2 DEF CallDispatch, TakeConfirmation
      <3>2. calls' = Append(calls, call) /\ call.approval = by
        BY <2>2 DEF CallDispatch
      <3>3. call \in Call
        BY <2>0 DEF TypeOK, Call
      <3> HIDE DEF call
      <3>4. Len(calls') = Len(calls) + 1 /\ calls'[Len(calls')] = call /\ Len(calls) \in Nat
        BY <3>2, <3>3 DEF TypeOK
      <3> QED
        BY <3>1, <3>2, <3>4
    <2>3. ASSUME NEW s \in Server, NEW t \in Tool, NEW now \in 0..clock,
                 NEW by \in Assertion \union {NoAssertion}, CallNoChild(s, t, now, by)
          PROVE  c.server \in Server /\ child[c.server] = "none"
      BY <2>3 DEF CallNoChild, TakeConfirmation, Usable
    <2>4. ASSUME NEW s \in Server, NEW now \in 0..clock, NEW by \in Assertion,
                 \/ \E ttl \in Ttl : Elevate(s, ForDuration(now, ttl), by)
                 \/ Elevate(s, UntilRevoked(now), by)
          PROVE  FALSE
      BY <2>4 DEF Elevate
    <2>5. ASSUME NEW s \in Server,
                 \/ Revoke(s) \/ Pause(s) \/ Resume(s) \/ Stop(s)
                 \/ \E advertised \in AdvertisedSets : StartSpawn(s, advertised)
                 \/ StartKeepsChild(s) \/ CallAnswered(s) \/ CallFault(s) \/ ChildExit(s)
          PROVE  FALSE
      BY <2>5 DEF Revoke, Pause, Resume, Stop, StartSpawn, StartKeepsChild, CallAnswered,
                  CallFault, ChildExit
    <2>6. CASE Tick \/ ReapExitedChildren
      BY <2>6 DEF Tick, ReapExitedChildren
    <2> QED
      BY <2>1, <2>2, <2>3, <2>4, <2>5, <2>6 DEF Next
  <1> QED
    BY <1>1, TypeCorrect, PTL DEF Spec, ApprovalKeptUntilSpent
=============================================================================
