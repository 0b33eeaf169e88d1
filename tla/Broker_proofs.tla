---------------------------- MODULE Broker_proofs ----------------------------
(* Proofs about Broker, for every number of threads and every workload.  The *)
(* theorems about the challenge store and the aggregator are those of their  *)
(* own proof modules, cited through an instance: what has to be shown here   *)
(* is that the broker uses both as their specifications allow.               *)
EXTENDS Broker, FiniteSetTheorems, SequenceTheorems, TLAPS

NP == INSTANCE NonceStore_proofs
AP == INSTANCE Aggregator_proofs
        WITH Assertion <- Nonce, NoAssertion <- NoNonce, MaxCalls <- MaxRequests

-----------------------------------------------------------------------------
(* N and A are NonceStore and Aggregator; NP and AP add their theorems.     *)

LEMMA SameStore ==
  /\ NP!Init <=> N!Init
  /\ NP!Next <=> N!Next
  /\ UNCHANGED NP!vars <=> UNCHANGED N!vars
  BY DEF NP!Init, N!Init, NP!Next, N!Next, NP!vars, N!vars, NP!Issue, N!Issue,
         NP!IssueRefused, N!IssueRefused, NP!VerifyAndConsume, N!VerifyAndConsume,
         NP!Sign, N!Sign, NP!Tick, N!Tick, NP!Restart, N!Restart, NP!Pruned, N!Pruned,
         NP!SinceIssue, N!SinceIssue, NP!Expired, N!Expired, NP!FreshNonces, N!FreshNonces,
         NP!ChallengeOf, N!ChallengeOf, NP!ChallengeMessage, N!ChallengeMessage,
         NP!Verdict, N!Verdict, NP!Cardinality, N!Cardinality, NP!IsFiniteSet, N!IsFiniteSet

LEMMA SameServers ==
  /\ AP!Init <=> A!Init
  /\ AP!Next <=> A!Next
  /\ UNCHANGED AP!vars <=> UNCHANGED A!vars
  BY DEF AP!Init, A!Init, AP!Next, A!Next, AP!vars, A!vars, AP!slots, A!slots,
         AP!history, A!history, AP!Applied, A!Applied, AP!Elevate, A!Elevate,
         AP!ForDuration, A!ForDuration, AP!UntilRevoked, A!UntilRevoked,
         AP!SaturatingAdd, A!SaturatingAdd, AP!SaturatingSub, A!SaturatingSub,
         AP!ApproveAction, A!ApproveAction, AP!ConfirmationExpired, A!ConfirmationExpired,
         AP!Revoke, A!Revoke, AP!SetState, A!SetState, AP!Pause, A!Pause, AP!Resume, A!Resume,
         AP!Stop, A!Stop, AP!StartSpawn, A!StartSpawn, AP!StartKeepsChild, A!StartKeepsChild,
         AP!CallAnswered, A!CallAnswered, AP!CallFault, A!CallFault, AP!ChildExit, A!ChildExit,
         AP!CallDispatch, A!CallDispatch, AP!CallNoChild, A!CallNoChild,
         AP!TakeConfirmation, A!TakeConfirmation, AP!Usable, A!Usable,
         AP!NeedsConfirmation, A!NeedsConfirmation, AP!Classify, A!Classify,
         AP!RequiresPerActionPresence, A!RequiresPerActionPresence, AP!Exposed, A!Exposed,
         AP!ResolveExposure, A!ResolveExposure, AP!IsRead, A!IsRead, AP!IsActive, A!IsActive,
         AP!NoElevation, A!NoElevation, AP!MutexFree, A!MutexFree,
         AP!ReapExitedChildren, A!ReapExitedChildren, AP!Tick, A!Tick,
         AP!Restart, A!Restart, AP!Built, A!Built

LEMMA Assumptions ==
  /\ NP!KeysAssumption /\ NP!LimitsAssumption
  /\ AP!ManifestAssumption /\ AP!TimestampAssumption /\ AP!AggregatorAssumption
  BY StoreAssumption, ServersAssumption
  DEF N!KeysAssumption, NP!KeysAssumption, N!LimitsAssumption, NP!LimitsAssumption,
      A!ManifestAssumption, AP!ManifestAssumption, A!ToolClass, AP!ToolClass,
      A!TimestampAssumption, AP!TimestampAssumption,
      A!AggregatorAssumption, AP!AggregatorAssumption

-----------------------------------------------------------------------------
(* The threads: what a step of one leaves of the others, and what a thread  *)
(* may hold at each place.                                                  *)

ThreadInv ==
  /\ clock \in Nat /\ requests \in Nat /\ restarts \in Nat
  /\ workload \in Workloads /\ requests <= workload.requests
  /\ pc \in [Thread -> {"idle", "entered", "calling", "apply", "notify", "audit"}]
  /\ DOMAIN at = Thread /\ DOMAIN req = Thread /\ DOMAIN event = Thread
  /\ \A t \in Thread :
       /\ at[t] \in 0..clock
       /\ (pc[t] = "idle") <=> (req[t] = NoRequest)
       /\ pc[t] = "entered" => req[t] \in Requests
       /\ pc[t] = "calling" => req[t].op = "call" /\ req[t].server \in Server
       /\ pc[t] = "apply" => req[t].op = "apply"

\* The three ways a step of a handler may move its thread.
Returns(t) ==
  /\ pc' = [pc EXCEPT ![t] = "idle"]
  /\ at' = [at EXCEPT ![t] = 0]
  /\ req' = [req EXCEPT ![t] = NoRequest]

GoesOn(t) ==
  /\ \/ \E next \in {"notify", "audit"} : pc' = [pc EXCEPT ![t] = next]
     \/ /\ pc' = [pc EXCEPT ![t] = "calling"]
        /\ req[t].op = "call" /\ req[t].server \in Server
  /\ UNCHANGED <<at, req>>

Verifies(t) ==
  /\ Submit(t)
  /\ pc' = [pc EXCEPT ![t] = "apply"]
  /\ req' = [req EXCEPT ![t] = req'[t]] /\ req'[t].op = "apply"
  /\ UNCHANGED at

Moves(t) ==
  /\ pc[t] # "idle"
  /\ UNCHANGED <<clock, requests, restarts, workload>>
  /\ DOMAIN event' = Thread /\ \A u \in Thread \ {t} : event'[u] = event[u]
  /\ Returns(t) \/ GoesOn(t) \/ Verifies(t)

LEMMA FollowMoves ==
  ASSUME ThreadInv, NEW t \in Thread, NEW changed \in BOOLEAN, NEW e, Follow(t, changed, e)
  PROVE  /\ DOMAIN event' = Thread /\ \A u \in Thread \ {t} : event'[u] = event[u]
         /\ Returns(t) \/ GoesOn(t)
  BY DEF Follow, Done, ThreadInv, Returns, GoesOn

LEMMA DoneMoves ==
  ASSUME ThreadInv, NEW t \in Thread, Done(t)
  PROVE  /\ DOMAIN event' = Thread /\ \A u \in Thread \ {t} : event'[u] = event[u]
         /\ Returns(t)
  BY DEF Done, ThreadInv, Returns

LEMMA ServeMoves ==
  ASSUME ThreadInv, NEW t \in Thread, Serve(t) \/ ChildAnswers(t)
  PROVE  Moves(t)
  <1> USE FollowMoves, DoneMoves DEF boundVars, Serves
  <1>1. CASE List(t)
    BY <1>1 DEF List, Moves
  <1>2. CASE CallRefused(t)
    BY <1>2 DEF CallRefused, Moves
  <1>3. CASE CallChild(t)
    <2>1. PICK by \in Nonce \union {NoNonce} :
            \/ /\ A!CallDispatch(req[t].server, req[t].tool, at[t], by)
               /\ pc' = [pc EXCEPT ![t] = "calling"]
               /\ UNCHANGED <<at, req, event>>
            \/ A!CallNoChild(req[t].server, req[t].tool, at[t], by) /\ Done(t)
      BY <1>3 DEF CallChild
    <2>2. CASE A!CallDispatch(req[t].server, req[t].tool, at[t], by)
      BY <1>3, <2>1, <2>2 DEF CallChild, Moves, GoesOn, ThreadInv, A!CallDispatch, A!CallNoChild
    <2>3. CASE Done(t)
      BY <1>3, <2>1, <2>3 DEF CallChild, Moves, A!CallDispatch, A!CallNoChild
    <2> QED
      BY <2>1, <2>2, <2>3
  <1>4. CASE CallFails(t)
    BY <1>4 DEF CallFails, Moves, A!CallFault
  <1>5. CASE UnknownServer(t) \/ StartFails(t)
    BY <1>5 DEF UnknownServer, StartFails, Moves
  <1>6. CASE Lifecycle(t)
    BY <1>6 DEF Lifecycle, Moves, A!Pause, A!Resume, A!Stop, A!StartKeepsChild, A!StartSpawn,
                Changed
  <1>7. CASE Revoke(t)
    BY <1>7 DEF Revoke, Moves, A!Revoke, Changed
  <1>8. CASE Issue(t)
    BY <1>8 DEF Issue, Moves, N!Issue, N!IssueRefused
  <1>9. CASE Submit(t)
    <2>1. PICK p \in Entry(req[t].client, req[t].nonce) :
            /\ N!VerifyAndConsume(p, req[t].signature, at[t])
            /\ IF N!Verdict(p, req[t].signature, at[t]) = "Ok"
                 THEN /\ pc' = [pc EXCEPT ![t] = "apply"]
                      /\ req' = [req EXCEPT ![t] = [op |-> "apply", client |-> req[t].client,
                                      nonce |-> req[t].nonce, purpose |-> p.purpose]]
                      /\ UNCHANGED <<at, event>>
                 ELSE Follow(t, FALSE, Denied(req[t].client))
      BY <1>9 DEF Submit
    <2>2. UNCHANGED <<clock, requests, restarts, workload>> /\ pc[t] # "idle"
      BY <1>9, <2>1 DEF Submit, N!VerifyAndConsume
    <2>3. CASE N!Verdict(p, req[t].signature, at[t]) = "Ok"
      BY <1>9, <2>1, <2>2, <2>3 DEF Moves, Verifies, ThreadInv
    <2>4. CASE N!Verdict(p, req[t].signature, at[t]) # "Ok"
      BY <2>1, <2>2, <2>4 DEF Moves
    <2> QED
      BY <2>3, <2>4
  <1>10. CASE SubmitUnknown(t)
    BY <1>10 DEF SubmitUnknown, Moves
  <1>11. CASE ApplyElevation(t)
    BY <1>11 DEF ApplyElevation, Moves, A!Elevate, Changed
  <1>12. CASE ApplyConfirm(t)
    BY <1>12 DEF ApplyConfirm, Moves, A!ApproveAction
  <1>13. CASE Notify(t)
    BY <1>13 DEF Notify, Moves, GoesOn, ThreadInv
  <1>14. CASE Record(t)
    BY <1>14 DEF Record, Moves, Returns, ThreadInv
  <1>15. CASE CallResult(t)
    BY <1>15 DEF CallResult, Moves, A!CallAnswered
  <1>16. CASE CallError(t)
    BY <1>16 DEF CallError, Moves, A!CallAnswered
  <1> QED
    BY <1>1, <1>2, <1>3, <1>4, <1>5, <1>6, <1>7, <1>8, <1>9, <1>10, <1>11, <1>12, <1>13,
       <1>14, <1>15, <1>16 DEF Serve, ChildAnswers

\* What arrives is a request of the instance's clients, well formed.
LEMMA RequestTypes ==
  ASSUME NEW r \in Requests
  PROVE  /\ r.op \in {"call", "list", "start", "stop", "pause", "resume", "revoke", "issue",
                      "submit"}
         /\ r.op = "call" => r.server \in ServerId /\ r.tool \in Tool
         /\ r.op \in LifecycleOps \union {"revoke"} => r.server \in ServerId
         /\ r.op = "issue" => r.client \in Client /\ r.purpose \in Purpose
                                /\ r.purpose \in workload.purposes
         /\ r.op = "submit" => r.client \in Client
                                 /\ r.signature \in signatures \union {Malformed}
  BY DEF Requests, LifecycleOps

\* The composition does to the store only what NonceStore allows: requests are
\* served at times that the clock has shown, for the parties that it knows.
LEMMA StoreStep ==
  ASSUME ThreadInv, [Next]_vars
  PROVE  [NP!Next]_(NP!vars)
  <1> SUFFICES [N!Next]_(N!vars)
    BY SameStore
  <1>1. ASSUME NEW t \in Thread, Issue(t) PROVE N!Next
    <2>1. req[t].client \in Client /\ req[t].purpose \in Purpose /\ at[t] \in 0..clock
      BY <1>1, RequestTypes DEF Issue, Serves, ThreadInv
    <2> QED
      BY <1>1, <2>1 DEF Issue, N!Next
  <1>2. ASSUME NEW t \in Thread, Submit(t) PROVE N!Next
    <2>1. req[t].signature \in signatures \union {Malformed} /\ at[t] \in 0..clock
      BY <1>2, RequestTypes DEF Submit, Serves, ThreadInv
    <2> QED
      BY <1>2, <2>1 DEF Submit, Entry, N!Next
  <1>3. ASSUME NEW t \in Thread, Serve(t) \/ ChildAnswers(t), ~Issue(t), ~Submit(t)
        PROVE  UNCHANGED N!vars
    <2>1. clock' = clock
      BY <1>3, ServeMoves DEF Moves
    <2>2. UNCHANGED storeVars
      BY <1>3 DEF Serve, ChildAnswers, List, CallRefused, CallChild, CallFails, UnknownServer,
                  Lifecycle, StartFails, Revoke, SubmitUnknown, ApplyElevation, ApplyConfirm,
                  Notify, Record, CallResult, CallError
    <2> QED
      BY <2>1, <2>2 DEF storeVars, N!vars
  <1>4. ASSUME NEW t \in Thread, Enter(t) PROVE UNCHANGED N!vars
    BY <1>4 DEF Enter, storeVars, N!vars
  <1>5. CASE ClientSigns
    <2>1. workload.purposes \subseteq Purpose
      BY WorkloadAssumption DEF ThreadInv
    <2> QED
      BY <1>5, <2>1 DEF ClientSigns, N!Next
  <1>6. CASE ChildExits
    BY <1>6 DEF ChildExits, A!ChildExit, storeVars, N!vars
  <1>7. CASE Tick
    BY <1>7 DEF Tick, N!Next
  <1>8. CASE Restart
    BY <1>8 DEF Restart, N!Next
  <1>9. CASE UNCHANGED vars
    BY <1>9 DEF vars, storeVars, N!vars
  <1>10. CASE Quiet
    BY <1>10 DEF Quiet, vars, storeVars, N!vars
  <1> QED
    BY <1>1, <1>2, <1>3, <1>4, <1>5, <1>6, <1>7, <1>8, <1>9, <1>10 DEF Next, Serve

LEMMA RequestsGrow ==
  ASSUME ThreadInv, [Next]_vars, workload' = workload
  PROVE  Requests \subseteq Requests'
  <1>1. challenges \subseteq challenges' /\ signatures \subseteq signatures'
    BY StoreStep, NP!HistoryGrows, Assumptions
  <1> QED
    BY <1>1 DEF Requests

LEMMA ThreadStep ==
  ASSUME ThreadInv, [Next]_vars
  PROVE  ThreadInv'
  <1>0. MaxClock \in Nat /\ MaxRequests \in Nat /\ workload.requests \in 0..MaxRequests
    BY Assumptions, WorkloadAssumption DEF ThreadInv, NP!LimitsAssumption, AP!AggregatorAssumption
  <1>1. ASSUME NEW t \in Thread, Enter(t) PROVE ThreadInv'
    <2>1. Requests \subseteq Requests'
      BY <1>1, RequestsGrow DEF Enter, Next
    <2>2. PICK r \in Requests : req' = [req EXCEPT ![t] = r]
      BY <1>1 DEF Enter
    <2>3. r # NoRequest
      BY RequestTypes DEF NoRequest
    <2> QED
      BY <1>0, <1>1, <2>1, <2>2, <2>3 DEF Enter, ThreadInv
  <1>2. ASSUME NEW t \in Thread, Moves(t) PROVE ThreadInv'
    <2>1. Requests \subseteq Requests'
      BY <1>2, RequestsGrow DEF Moves
    <2>2. CASE Returns(t)
      BY <1>0, <1>2, <2>1, <2>2 DEF Moves, Returns, ThreadInv
    <2>3. CASE GoesOn(t)
      BY <1>0, <1>2, <2>1, <2>3 DEF Moves, GoesOn, ThreadInv
    <2>4. CASE Verifies(t)
      <3>1. req'[t] # NoRequest
        BY <2>4 DEF Verifies, NoRequest
      <3> QED
        BY <1>0, <1>2, <2>1, <2>4, <3>1 DEF Moves, Verifies, ThreadInv
    <2> QED
      BY <1>2, <2>2, <2>3, <2>4 DEF Moves
  <1>3. ASSUME UNCHANGED <<threadVars, requests, restarts, workload>>,
               clock' = clock \/ clock' = clock + 1
        PROVE  ThreadInv'
    <2>1. Requests \subseteq Requests'
      BY <1>3, RequestsGrow
    <2> QED
      BY <1>0, <1>3, <2>1 DEF ThreadInv, threadVars
  <1>4. CASE ClientSigns \/ ChildExits \/ Tick \/ UNCHANGED vars \/ Quiet
    BY <1>3, <1>4 DEF ClientSigns, ChildExits, Tick, Quiet, vars, boundVars, N!Sign, N!Tick,
                      A!ChildExit
  <1>5. CASE Restart
    BY <1>0, <1>5 DEF Restart, N!Restart, ThreadInv
  <1> QED
    BY <1>1, <1>2, <1>4, <1>5, ServeMoves DEF Next

LEMMA ThreadsInductive == Spec => []ThreadInv
  <1>1. Init => ThreadInv
    <2> SUFFICES ASSUME Init PROVE ThreadInv
      OBVIOUS
    <2>1. workload.requests \in Nat
      BY WorkloadAssumption, Assumptions DEF Init, AP!AggregatorAssumption
    <2> QED
      BY <2>1 DEF Init, N!Init, ThreadInv
  <1> QED
    BY <1>1, ThreadStep, PTL DEF Spec

\* What the broker does to the challenge store, its threads' stale times and its
\* restarts included, is a behaviour of NonceStore: what is proved of the store
\* holds within the broker.
THEOREM StoreRefined == Spec => N!Spec
  <1>1. Init => N!Init
    BY DEF Init
  <1>2. ThreadInv /\ [Next]_vars => [N!Next]_(N!vars)
    BY StoreStep, SameStore
  <1> QED
    BY <1>1, <1>2, ThreadsInductive, PTL DEF Spec, N!Spec

LEMMA StoreInvariant == Spec => []NP!IInv
  <1>1. [N!Next]_(N!vars) => [NP!Next]_(NP!vars)
    BY SameStore
  <1> QED
    BY <1>1, SameStore, StoreRefined, NP!Inductive, Assumptions, PTL DEF N!Spec, NP!Spec

-----------------------------------------------------------------------------
(* The aggregator's assumption, that an assertion is applied once, holds:   *)
(* this is about threads between the two mutexes of a submit.               *)

\* A thread about to apply an assertion is alone in holding it, and nobody has
\* applied it before; whatever was applied had been verified, for that purpose.
AssertionsHeld ==
  /\ \A t \in Thread : pc[t] = "apply" =>
       /\ \E a \in accepted : a.nonce = req[t].nonce /\ a.purpose = req[t].purpose
       /\ req[t].nonce \notin A!Applied
  /\ \A t, u \in Thread :
       pc[t] = "apply" /\ pc[u] = "apply" /\ req[t].nonce = req[u].nonce => t = u

AssertionsApplied ==
  /\ \A g \in grants : \E a \in accepted :
       a.nonce = g.by /\ a.purpose.kind # "confirm" /\ a.purpose.server = g.server
  /\ \A c \in approvals : \E a \in accepted :
       /\ a.nonce = c.by /\ a.purpose.kind = "confirm"
       /\ a.purpose.server = c.server /\ a.purpose.tool = c.tool

Entered == {t \in Thread : pc[t] = "entered"}

\* A request makes at most one call, so the calls keep to the bound on requests.
CallsCounted == IsFiniteSet(Entered) /\ Len(calls) + Cardinality(Entered) <= requests

ServersInv == AP!TypeOK /\ AssertionsHeld /\ AssertionsApplied /\ CallsCounted

\* An assertion that is held was verified, for a purpose that is well formed.
LEMMA HeldTypes ==
  ASSUME NP!TypeOK, AssertionsHeld, NEW t \in Thread, pc[t] = "apply"
  PROVE  req[t].nonce \in Nonce \ A!Applied /\ req[t].purpose \in Purpose
  BY DEF NP!TypeOK, NP!Accepted, AssertionsHeld

LEMMA PurposeTypes ==
  ASSUME NEW purpose \in Purpose
  PROVE  /\ purpose.kind \in {"elevate", "elevate_until_revoked", "confirm"}
         /\ purpose.server \in ServerId
         /\ purpose.kind = "elevate" => purpose.ttl \in Ttl
         /\ purpose.kind = "confirm" => purpose.tool \in Tool
  BY DEF Purpose

LEMMA CallsBounded ==
  ASSUME ThreadInv, ServersInv
  PROVE  /\ Len(calls) \in Nat /\ Len(calls) <= MaxRequests
         /\ \A t \in Thread : pc[t] = "entered" => Len(calls) < MaxRequests
  <1>1. MaxRequests \in Nat /\ workload.requests \in 0..MaxRequests
    BY Assumptions, WorkloadAssumption DEF ThreadInv, AP!AggregatorAssumption
  <1>2. Len(calls) \in Nat
    BY DEF ServersInv, AP!TypeOK
  <1>3. Cardinality(Entered) \in Nat /\ (Cardinality(Entered) = 0 <=> Entered = {})
    BY FS_CardinalityType, FS_EmptySet DEF ServersInv, CallsCounted
  <1>4. \A t \in Thread : pc[t] = "entered" => Entered # {}
    BY DEF Entered
  <1> QED
    BY <1>1, <1>2, <1>3, <1>4 DEF ThreadInv, ServersInv, CallsCounted

\* The composition does to the servers only what Aggregator allows.
LEMMA ServerStep ==
  ASSUME ThreadInv, NP!TypeOK, ServersInv, [Next]_vars
  PROVE  [AP!Next]_(AP!vars)
  <1> SUFFICES [A!Next]_(A!vars)
    BY SameServers
  <1>0. \A t \in Thread : at[t] \in 0..clock
    BY DEF ThreadInv
  <1>1. ASSUME NEW t \in Thread, CallChild(t) PROVE A!Next
    <2>1. req[t].server \in Server /\ req[t].tool \in Tool /\ Len(calls) < MaxRequests
      BY <1>1, RequestTypes, CallsBounded DEF CallChild, Serves, ThreadInv
    <2> QED
      BY <1>0, <1>1, <2>1 DEF CallChild, A!Next
  <1>2. ASSUME NEW t \in Thread, CallResult(t) \/ CallError(t) \/ CallFails(t) PROVE A!Next
    <2>1. req[t].server \in Server
      BY <1>2 DEF CallResult, CallError, CallFails, ThreadInv
    <2> QED
      BY <1>2, <2>1 DEF CallResult, CallError, CallFails, A!Next
  <1>3. ASSUME NEW t \in Thread, Lifecycle(t) PROVE A!Next
    BY <1>3 DEF Lifecycle, A!Next
  <1>4. ASSUME NEW t \in Thread, Revoke(t) PROVE A!Next
    BY <1>4 DEF Revoke, A!Next
  <1>5. ASSUME NEW t \in Thread, ApplyElevation(t) PROVE [A!Next]_(A!vars)
    <2> DEFINE purpose == req[t].purpose
    <2>1. req[t].nonce \in Nonce \ A!Applied /\ purpose \in Purpose
      BY <1>5, HeldTypes DEF ApplyElevation, ServersInv
    <2>2. purpose.kind = "elevate" => purpose.ttl \in Ttl
      BY <2>1, PurposeTypes
    <2>3. CASE purpose.server \in Server
      <3>1. A!Elevate(purpose.server, ElevationFor(purpose, at[t]), req[t].nonce)
        BY <1>5, <2>3 DEF ApplyElevation
      <3>2. CASE purpose.kind = "elevate"
        <4>1. A!Elevate(purpose.server, A!ForDuration(at[t], purpose.ttl), req[t].nonce)
          BY <3>1, <3>2 DEF ElevationFor
        <4> QED
          BY <1>0, <2>1, <2>2, <2>3, <3>2, <4>1 DEF A!Next
      <3>3. CASE purpose.kind # "elevate"
        <4>1. A!Elevate(purpose.server, A!UntilRevoked(at[t]), req[t].nonce)
          BY <3>1, <3>3 DEF ElevationFor
        <4> QED
          BY <1>0, <2>1, <2>3, <4>1 DEF A!Next
      <3> QED
        BY <3>2, <3>3
    <2>4. CASE purpose.server \notin Server
      BY <1>5, <2>4 DEF ApplyElevation, A!vars, A!slots, A!history, serverVars
    <2> QED
      BY <2>3, <2>4
  <1>6. ASSUME NEW t \in Thread, ApplyConfirm(t) PROVE A!Next
    <2>1. req[t].nonce \in Nonce \ A!Applied /\ req[t].purpose \in Purpose
      BY <1>6, HeldTypes DEF ApplyConfirm, ServersInv
    <2>2. req[t].purpose.server \in ServerId /\ req[t].purpose.tool \in Tool
      BY <1>6, <2>1, PurposeTypes DEF ApplyConfirm
    <2> QED
      BY <1>0, <1>6, <2>1, <2>2 DEF ApplyConfirm, A!Next
  <1>7. ASSUME NEW t \in Thread,
               \/ List(t) \/ CallRefused(t) \/ UnknownServer(t) \/ StartFails(t) \/ Issue(t)
               \/ Submit(t) \/ SubmitUnknown(t) \/ Notify(t) \/ Record(t)
        PROVE  UNCHANGED A!vars
    <2>1. clock' = clock
      BY <1>7, ServeMoves DEF Moves, Serve
    <2>2. UNCHANGED serverVars
      BY <1>7 DEF List, CallRefused, UnknownServer, StartFails, Issue, Submit, SubmitUnknown,
                  Notify, Record
    <2> QED
      BY <2>1, <2>2 DEF serverVars, A!vars, A!slots, A!history
  <1>8. ASSUME NEW t \in Thread, Enter(t) PROVE UNCHANGED A!vars
    BY <1>8 DEF Enter, serverVars, A!vars, A!slots, A!history
  <1>9. CASE ClientSigns
    BY <1>9 DEF ClientSigns, N!Sign, serverVars, A!vars, A!slots, A!history
  <1>10. CASE ChildExits
    BY <1>10 DEF ChildExits, A!Next
  <1>11. CASE Tick
    BY <1>11 DEF Tick, N!Tick, serverVars, A!slots, A!history, A!Tick, A!Next
  <1>12. CASE Restart
    BY <1>12 DEF Restart, A!Next
  <1>13. CASE UNCHANGED vars \/ Quiet
    BY <1>13 DEF Quiet, vars, serverVars, A!vars, A!slots, A!history
  <1> QED
    BY <1>1, <1>2, <1>3, <1>4, <1>5, <1>6, <1>7, <1>8, <1>9, <1>10, <1>11, <1>12, <1>13
    DEF Next, Serve, ChildAnswers

\* A step that applies nothing and verifies nothing keeps the assertions.
LEMMA AssertionsKept ==
  ASSUME ServersInv, UNCHANGED <<grants, approvals>>, accepted \subseteq accepted',
         \A t \in Thread : pc'[t] = "apply" => pc[t] = "apply" /\ req'[t] = req[t]
  PROVE  AssertionsHeld' /\ AssertionsApplied'
  <1>1. A!Applied' = A!Applied
    BY DEF A!Applied
  <1>2. AssertionsHeld'
    BY <1>1 DEF ServersInv, AssertionsHeld
  <1>3. AssertionsApplied'
    BY DEF ServersInv, AssertionsApplied
  <1> QED
    BY <1>2, <1>3

\* What is verified was never verified before, so no thread holds it and it was
\* never applied.
LEMMA SubmitAssertions ==
  ASSUME ThreadInv, NP!IInv, ServersInv, NEW t \in Thread, Submit(t), Moves(t)
  PROVE  AssertionsHeld' /\ AssertionsApplied'
  <1>1. UNCHANGED <<grants, approvals>>
    BY DEF Submit, serverVars
  <1>2. PICK p \in pending :
          /\ p.nonce = req[t].nonce
          /\ N!VerifyAndConsume(p, req[t].signature, at[t])
          /\ IF N!Verdict(p, req[t].signature, at[t]) = "Ok"
               THEN /\ pc' = [pc EXCEPT ![t] = "apply"]
                    /\ req' = [req EXCEPT ![t] = [op |-> "apply", client |-> req[t].client,
                                    nonce |-> req[t].nonce, purpose |-> p.purpose]]
                    /\ UNCHANGED <<at, event>>
               ELSE Follow(t, FALSE, Denied(req[t].client))
    BY DEF Submit, Entry
  <1>3. accepted \subseteq accepted'
    BY <1>2 DEF N!VerifyAndConsume
  <1>4. CASE N!Verdict(p, req[t].signature, at[t]) = "Ok"
    <2> DEFINE a == [nonce |-> p.nonce, client |-> p.client, purpose |-> p.purpose,
                     now |-> at[t]]
    <2>1. accepted' = accepted \union {a}
      BY <1>2, <1>4 DEF N!VerifyAndConsume
    <2>2. pc'[t] = "apply" /\ req'[t].nonce = a.nonce /\ req'[t].purpose = a.purpose
      BY <1>2, <1>4 DEF ThreadInv
    <2>3. \A u \in Thread \ {t} : pc'[u] = pc[u] /\ req'[u] = req[u]
      BY <1>2, <1>4 DEF ThreadInv
    <2>4. \A b \in accepted : b.nonce # p.nonce
      <3>1. p.nonce \in Nonce /\ attempts[p.nonce] = 0
        BY DEF NP!IInv, NP!TypeOK, NP!Pending, NP!PendingUntaken
      <3> QED
        BY <3>1 DEF NP!IInv, NP!TakenOnce
    <2>5. p.nonce \notin A!Applied
      BY <2>4 DEF ServersInv, AssertionsApplied, A!Applied
    <2>6. A!Applied' = A!Applied
      BY <1>1 DEF A!Applied
    <2>7. \A u \in Thread \ {t} : pc[u] = "apply" => req[u].nonce # p.nonce
      BY <2>4 DEF ServersInv, AssertionsHeld
    <2>8. a.nonce = p.nonce
      OBVIOUS
    <2> HIDE DEF a
    <2>9. AssertionsHeld'
      <3>1. \A u \in Thread : pc'[u] = "apply" =>
              /\ \E b \in accepted' : b.nonce = req'[u].nonce /\ b.purpose = req'[u].purpose
              /\ req'[u].nonce \notin A!Applied'
        BY <1>3, <2>1, <2>2, <2>3, <2>5, <2>6, <2>8 DEF ServersInv, AssertionsHeld
      <3>2. \A u, v \in Thread :
              pc'[u] = "apply" /\ pc'[v] = "apply" /\ req'[u].nonce = req'[v].nonce => u = v
        BY <2>2, <2>3, <2>7, <2>8 DEF ServersInv, AssertionsHeld
      <3> QED
        BY <3>1, <3>2 DEF AssertionsHeld
    <2>10. AssertionsApplied'
      BY <1>1, <1>3 DEF ServersInv, AssertionsApplied
    <2> QED
      BY <2>9, <2>10
  <1>5. CASE N!Verdict(p, req[t].signature, at[t]) # "Ok"
    <2>1. Returns(t) \/ GoesOn(t)
      BY <1>2, <1>5, FollowMoves
    <2> QED
      BY <1>1, <1>3, <2>1, AssertionsKept DEF Returns, GoesOn, ThreadInv
  <1> QED
    BY <1>4, <1>5

\* An assertion that is applied leaves the thread that held it.
LEMMA ApplyAssertions ==
  ASSUME ThreadInv, ServersInv, NEW t \in Thread, ApplyElevation(t) \/ ApplyConfirm(t),
         Moves(t)
  PROVE  AssertionsHeld' /\ AssertionsApplied'
  <1>1. pc[t] = "apply" /\ accepted' = accepted
    BY DEF ApplyElevation, ApplyConfirm, storeVars
  <1>2. ~Verifies(t)
    BY <1>1 DEF Verifies, Submit, Serves
  <1>3. \A u \in Thread : pc'[u] = "apply" => u # t /\ pc[u] = "apply" /\ req'[u] = req[u]
    BY <1>2 DEF Moves, Returns, GoesOn, ThreadInv
  <1>4. PICK a \in accepted : a.nonce = req[t].nonce /\ a.purpose = req[t].purpose
    BY <1>1 DEF ServersInv, AssertionsHeld
  <1>5. A!Applied' \subseteq A!Applied \union {req[t].nonce}
    <2>1. CASE ApplyElevation(t)
      <3>1. /\ \A g \in grants' : g \in grants \/ g.by = req[t].nonce
            /\ approvals' = approvals
        BY <2>1 DEF ApplyElevation, A!Elevate, serverVars
      <3> QED
        BY <3>1 DEF A!Applied
    <2>2. CASE ApplyConfirm(t)
      <3>1. /\ \A c \in approvals' : c \in approvals \/ c.by = req[t].nonce
            /\ grants' = grants
        BY <2>2 DEF ApplyConfirm, A!ApproveAction
      <3> QED
        BY <3>1 DEF A!Applied
    <2> QED
      BY <2>1, <2>2
  <1>6. AssertionsHeld'
    BY <1>1, <1>3, <1>5 DEF ServersInv, AssertionsHeld
  <1>7. CASE ApplyElevation(t)
    <2>1. \A g \in grants' : \/ g \in grants
                             \/ /\ g.by = a.nonce /\ g.server = a.purpose.server
                                /\ a.purpose.kind # "confirm"
      BY <1>4, <1>7 DEF ApplyElevation, A!Elevate, serverVars
    <2>2. approvals' = approvals
      BY <1>7 DEF ApplyElevation, A!Elevate, serverVars
    <2> QED
      BY <1>1, <1>6, <2>1, <2>2 DEF ServersInv, AssertionsApplied
  <1>8. CASE ApplyConfirm(t)
    <2>1. \A c \in approvals' : \/ c \in approvals
                                \/ /\ c.by = a.nonce /\ c.server = a.purpose.server
                                   /\ c.tool = a.purpose.tool /\ a.purpose.kind = "confirm"
      BY <1>4, <1>8 DEF ApplyConfirm, A!ApproveAction
    <2>2. grants' = grants
      BY <1>8 DEF ApplyConfirm, A!ApproveAction
    <2> QED
      BY <1>1, <1>6, <2>1, <2>2 DEF ServersInv, AssertionsApplied
  <1> QED
    BY <1>7, <1>8

LEMMA AssertionsStep ==
  ASSUME ThreadInv, NP!IInv, ServersInv, [Next]_vars
  PROVE  AssertionsHeld' /\ AssertionsApplied'
  <1>0. accepted \subseteq accepted'
    BY StoreStep, NP!HistoryGrows, Assumptions
  <1>1. ASSUME NEW t \in Thread, Moves(t), Serve(t) \/ ChildAnswers(t),
               ~Submit(t), ~ApplyElevation(t), ~ApplyConfirm(t)
        PROVE  AssertionsHeld' /\ AssertionsApplied'
    <2>1. UNCHANGED <<grants, approvals>>
      BY <1>1 DEF Serve, ChildAnswers, List, CallRefused, CallChild, CallFails, UnknownServer,
           Lifecycle, StartFails, Revoke, Issue, SubmitUnknown, Notify, Record, CallResult,
           CallError, serverVars, A!CallDispatch, A!CallNoChild, A!CallFault, A!CallAnswered,
           A!Pause, A!Resume, A!Stop, A!StartKeepsChild, A!StartSpawn, A!Revoke, A!history
    <2>2. \A u \in Thread : pc'[u] = "apply" => pc[u] = "apply" /\ req'[u] = req[u]
      BY <1>1 DEF Moves, Returns, GoesOn, Verifies, ThreadInv
    <2> QED
      BY <1>0, <2>1, <2>2, AssertionsKept
  <1>2. ASSUME NEW t \in Thread, Enter(t) PROVE AssertionsHeld' /\ AssertionsApplied'
    BY <1>0, <1>2, AssertionsKept DEF Enter, serverVars, ThreadInv
  <1>3. CASE ClientSigns \/ ChildExits \/ Tick \/ Quiet \/ UNCHANGED vars
    BY <1>0, <1>3, AssertionsKept DEF ClientSigns, ChildExits, Tick, Quiet, vars, serverVars,
         threadVars, A!ChildExit, A!history
  <1>4. CASE Restart
    BY <1>0, <1>4, AssertionsKept DEF Restart, A!Restart, A!history
  <1> QED
    BY <1>1, <1>2, <1>3, <1>4, ServeMoves, SubmitAssertions, ApplyAssertions DEF Next

LEMMA CallsCountedStep ==
  ASSUME ThreadInv, ServersInv, [Next]_vars
  PROVE  CallsCounted'
  <1>0. /\ Len(calls) \in Nat /\ Cardinality(Entered) \in Nat /\ IsFiniteSet(Entered)
        /\ requests \in Nat /\ Len(calls) + Cardinality(Entered) <= requests
    BY CallsBounded, FS_CardinalityType DEF ThreadInv, ServersInv, CallsCounted
  <1>1. ASSUME calls' = calls, requests' = requests, Entered' \subseteq Entered
        PROVE  CallsCounted'
    <2>1. /\ IsFiniteSet(Entered') /\ Cardinality(Entered') \in Nat
          /\ Cardinality(Entered') <= Cardinality(Entered)
      BY <1>0, <1>1, FS_Subset, FS_CardinalityType
    <2> QED
      BY <1>0, <1>1, <2>1 DEF CallsCounted
  <1>2. ASSUME NEW t \in Thread, Enter(t) PROVE CallsCounted'
    <2>1. Entered' = Entered \union {t} /\ t \notin Entered
      BY <1>2 DEF Enter, Entered, ThreadInv
    <2>2. IsFiniteSet(Entered') /\ Cardinality(Entered') = Cardinality(Entered) + 1
      BY <1>0, <2>1, FS_AddElement
    <2>3. calls' = calls /\ requests' = requests + 1
      BY <1>2 DEF Enter, serverVars
    <2> QED
      BY <1>0, <2>2, <2>3 DEF CallsCounted
  <1>3. ASSUME NEW t \in Thread, Moves(t), calls' = calls PROVE CallsCounted'
    <2>1. Entered' \subseteq Entered
      BY <1>3 DEF Moves, Returns, GoesOn, Verifies, Entered, ThreadInv
    <2> QED
      BY <1>1, <1>3, <2>1 DEF Moves
  <1>4. ASSUME NEW t \in Thread, Moves(t), CallChild(t), calls' # calls PROVE CallsCounted'
    <2>1. t \in Entered /\ Entered' = Entered \ {t}
      <3>1. pc[t] = "entered" /\ req[t].op = "call"
        BY <1>4 DEF CallChild, Serves
      <3>2. ~Verifies(t)
        BY <3>1 DEF Verifies, Submit, Serves
      <3>3. pc'[t] # "entered" /\ \A u \in Thread \ {t} : pc'[u] = pc[u]
        BY <1>4, <3>2 DEF Moves, Returns, GoesOn, ThreadInv
      <3> QED
        BY <3>1, <3>3 DEF Entered
    <2>2. IsFiniteSet(Entered') /\ Cardinality(Entered') = Cardinality(Entered) - 1
      BY <1>0, <2>1, FS_RemoveElement
    <2>3. Len(calls') = Len(calls) + 1
      BY <1>4 DEF CallChild, A!CallDispatch, A!CallNoChild, A!history, ServersInv, AP!TypeOK
    <2>4. requests' = requests
      BY <1>4 DEF Moves
    <2> QED
      BY <1>0, <2>2, <2>3, <2>4 DEF CallsCounted
  <1>5. ASSUME NEW t \in Thread, Serve(t) \/ ChildAnswers(t), ~CallChild(t) PROVE calls' = calls
    BY <1>5 DEF Serve, ChildAnswers, List, CallRefused, CallFails, UnknownServer,
         Lifecycle, StartFails, Revoke, Issue, Submit, SubmitUnknown, ApplyElevation,
         ApplyConfirm, Notify, Record, CallResult, CallError, serverVars, A!CallFault,
         A!CallAnswered, A!Elevate, A!ApproveAction, A!Pause, A!Resume, A!Stop,
         A!StartKeepsChild, A!StartSpawn, A!Revoke, A!history
  <1>6. CASE ClientSigns \/ ChildExits \/ Tick \/ Quiet \/ UNCHANGED vars
    BY <1>1, <1>6 DEF ClientSigns, ChildExits, Tick, Quiet, vars, serverVars, threadVars,
         boundVars, Entered, A!ChildExit, A!history
  <1>7. CASE Restart
    <2>1. Entered' = {} /\ calls' = calls /\ requests' = requests
      BY <1>7 DEF Restart, A!Restart, A!history, Entered
    <2> QED
      BY <1>1, <2>1
  <1> QED
    BY <1>2, <1>3, <1>4, <1>5, <1>6, <1>7, ServeMoves DEF Next

LEMMA ServersInductive == Spec => []ServersInv
  <1>1. Init => ServersInv
    <2> SUFFICES ASSUME Init PROVE ServersInv
      OBVIOUS
    <2>1. AP!TypeOK
      BY SameServers, AP!TypeInit, Assumptions DEF Init
    <2>2. AssertionsHeld /\ AssertionsApplied
      BY DEF Init, A!Init, AssertionsHeld, AssertionsApplied
    <2>3. Entered = {} /\ calls = <<>> /\ requests = 0
      BY DEF Init, A!Init, Entered
    <2>4. CallsCounted
      BY <2>3, FS_EmptySet DEF CallsCounted
    <2> QED
      BY <2>1, <2>2, <2>4 DEF ServersInv
  <1>2. ThreadInv /\ NP!IInv /\ ServersInv /\ [Next]_vars => ServersInv'
    <2> SUFFICES ASSUME ThreadInv, NP!IInv, ServersInv, [Next]_vars PROVE ServersInv'
      OBVIOUS
    <2>1. [AP!Next]_(AP!vars)
      BY ServerStep DEF NP!IInv
    <2>2. AP!TypeOK'
      BY <2>1, AP!TypeStep, Assumptions DEF ServersInv
    <2> QED
      BY <2>2, AssertionsStep, CallsCountedStep DEF ServersInv
  <1> QED
    BY <1>1, <1>2, ThreadsInductive, StoreInvariant, PTL DEF Spec

\* What the broker does to its servers is a behaviour of Aggregator: threads that
\* submit the same nonce, or wait between the two mutexes of a submit while the
\* daemon restarts, never have it apply an assertion twice.
THEOREM ServersRefined == Spec => AggregatorSpec
  <1>1. Init => A!Init
    BY DEF Init
  <1>2. ThreadInv /\ NP!IInv /\ ServersInv /\ [Next]_vars => [A!Next]_(A!vars)
    BY ServerStep, SameServers DEF NP!IInv
  <1> QED
    BY <1>1, <1>2, ThreadsInductive, StoreInvariant, ServersInductive, PTL
    DEF Spec, AggregatorSpec, A!Spec

LEMMA ServersInvariant == Spec => []AP!IInv
  <1>1. [A!Next]_(A!vars) => [AP!Next]_(AP!vars)
    BY SameServers
  <1> QED
    BY <1>1, SameServers, ServersRefined, AP!Inductive, Assumptions, PTL
    DEF AggregatorSpec, A!Spec, AP!Spec

-----------------------------------------------------------------------------
(* Type correctness, with the audit events that threads owe.                *)

\* Only a thread that has done its work owes an event, and one that is to write
\* has one to write; a call that is in progress was made.
EventsInv ==
  /\ event \in [Thread -> Events]
  /\ \A t \in Thread : event[t] # NoEvent => pc[t] \in {"notify", "audit"}
  /\ \A t \in Thread : pc[t] = "audit" => event[t] # NoEvent
  /\ audit \subseteq Events \ {NoEvent}
  /\ listing \in [Server -> SUBSET Tool]
  /\ results \subseteq DOMAIN calls
  /\ serving # {} => Len(calls) > 0

LEMMA TypesFollow == ThreadInv /\ EventsInv => TypeOK
  BY DEF ThreadInv, EventsInv, TypeOK

\* The thread owes the event that its handler returned.
Owes(t, e) ==
  /\ pc[t] \notin {"notify", "audit"} /\ event[t] = NoEvent
  /\ event' = [event EXCEPT ![t] = e]
  /\ e # NoEvent => pc'[t] \in {"notify", "audit"}
  /\ pc'[t] = "audit" => e # NoEvent
  /\ UNCHANGED audit

LEMMA FollowOwes ==
  ASSUME ThreadInv, EventsInv, NEW t \in Thread, pc[t] \notin {"notify", "audit"},
         UNCHANGED audit, NEW changed \in BOOLEAN, NEW e \in Events, Follow(t, changed, e)
  PROVE  Owes(t, e)
  BY DEF Follow, Done, ThreadInv, EventsInv, Owes

LEMMA DoneOwes ==
  ASSUME ThreadInv, EventsInv, NEW t \in Thread, pc[t] \notin {"notify", "audit"},
         UNCHANGED audit, Done(t)
  PROVE  Owes(t, NoEvent)
  BY DEF Done, ThreadInv, EventsInv, Owes

LEMMA EventTypes ==
  /\ NoEvent \in Events
  /\ \A n \in Nonce : Granted(n) \in Events /\ ConfirmApproved(n) \in Events
  /\ \A i \in 1..MaxRequests : WriteToolInvoked(i) \in Events
  /\ \A s \in Server, tool \in Tool : ConfirmRejected(s, tool) \in Events
  /\ \A c \in Client : Denied(c) \in Events
  /\ \A s \in Server : Revoked(s) \in Events
  BY DEF Events, ConfirmRejected

\* Every step of a handler but the announcement and the writing itself.
LEMMA ServeOwes ==
  ASSUME ThreadInv, NP!TypeOK, ServersInv, EventsInv, NEW t \in Thread,
         Serve(t) \/ ChildAnswers(t), ~Notify(t), ~Record(t)
  PROVE  \E e \in Events : Owes(t, e)
  <1> USE EventTypes, FollowOwes, DoneOwes
  <1>1. CASE List(t)
    BY <1>1 DEF List, Serves
  <1>2. CASE CallRefused(t)
    <2>1. req[t].tool \in Tool
      BY <1>2, RequestTypes DEF CallRefused, Serves, ThreadInv
    <2>2. Offers(req[t].server, req[t].tool, at[t]) => req[t].server \in Server
      BY DEF Offers
    <2> QED
      BY <1>2, <2>1, <2>2 DEF CallRefused, Serves
  <1>3. CASE CallChild(t)
    <2>1. pc[t] = "entered" /\ audit' = audit
      BY <1>3 DEF CallChild, Serves
    <2>2. CASE Done(t)
      BY <2>1, <2>2
    <2>3. CASE pc' = [pc EXCEPT ![t] = "calling"] /\ UNCHANGED event
      BY <2>1, <2>3 DEF Owes, ThreadInv, EventsInv
    <2> QED
      BY <1>3, <2>2, <2>3 DEF CallChild
  <1>4. CASE CallFails(t) \/ CallError(t)
    BY <1>4 DEF CallFails, CallError
  <1>5. CASE UnknownServer(t) \/ StartFails(t) \/ Issue(t)
    BY <1>5 DEF UnknownServer, StartFails, Issue, Serves
  <1>6. CASE Lifecycle(t)
    BY <1>6 DEF Lifecycle, Serves, Changed
  <1>7. CASE Revoke(t)
    BY <1>7 DEF Revoke, Serves, Changed
  <1>8. CASE Submit(t)
    <2>1. req[t].client \in Client /\ pc[t] = "entered" /\ audit' = audit
      BY <1>8, RequestTypes DEF Submit, Serves, ThreadInv
    <2>2. CASE Follow(t, FALSE, Denied(req[t].client))
      BY <2>1, <2>2
    <2>3. CASE pc' = [pc EXCEPT ![t] = "apply"] /\ UNCHANGED event
      BY <2>1, <2>3 DEF Owes, ThreadInv, EventsInv
    <2> QED
      BY <1>8, <2>2, <2>3 DEF Submit
  <1>9. CASE SubmitUnknown(t)
    <2>1. req[t].client \in Client
      BY <1>9, RequestTypes DEF SubmitUnknown, Serves, ThreadInv
    <2> QED
      BY <1>9, <2>1 DEF SubmitUnknown, Serves
  <1>10. CASE ApplyElevation(t)
    <2>1. req[t].nonce \in Nonce
      BY <1>10, HeldTypes DEF ApplyElevation, ServersInv
    <2> QED
      BY <1>10, <2>1 DEF ApplyElevation, Changed
  <1>11. CASE ApplyConfirm(t)
    <2>1. req[t].nonce \in Nonce
      BY <1>11, HeldTypes DEF ApplyConfirm, ServersInv
    <2> QED
      BY <1>11, <2>1 DEF ApplyConfirm
  <1>12. CASE CallResult(t)
    <2>1. Len(calls) \in 1..MaxRequests
      BY <1>12, CallsBounded, Assumptions
      DEF CallResult, A!CallAnswered, EventsInv, AP!AggregatorAssumption
    <2> QED
      BY <1>12, <2>1 DEF CallResult
  <1> QED
    BY <1>1, <1>2, <1>3, <1>4, <1>5, <1>6, <1>7, <1>8, <1>9, <1>10, <1>11, <1>12
    DEF Serve, ChildAnswers

\* The calls only grow, and one is in progress only if it was made.
LEMMA CallsGrow ==
  ASSUME AP!TypeOK, [AP!Next]_(AP!vars)
  PROVE  /\ \/ calls' = calls
            \/ \E c \in AP!Call : calls' = Append(calls, c)
         /\ serving' # {} => serving # {} \/ calls' # calls
  BY AP!CallsGrow, Assumptions

LEMMA EventsStep ==
  ASSUME ThreadInv, NP!TypeOK, ServersInv, EventsInv, [Next]_vars
  PROVE  EventsInv'
  <1>0. AP!TypeOK /\ [AP!Next]_(AP!vars)
    BY ServerStep DEF ServersInv
  <1>1. DOMAIN calls \subseteq DOMAIN calls' /\ (serving' # {} => Len(calls') > 0)
    BY <1>0, CallsGrow DEF AP!TypeOK, EventsInv
  <1>2. ASSUME UNCHANGED <<listing, results>>
        PROVE  listing' \in [Server -> SUBSET Tool] /\ results' \subseteq DOMAIN calls'
    BY <1>1, <1>2 DEF EventsInv
  <1>3. ASSUME NEW t \in Thread, NEW e \in Events, Owes(t, e), Moves(t)
        PROVE  /\ event' \in [Thread -> Events]
               /\ \A u \in Thread : event'[u] # NoEvent => pc'[u] \in {"notify", "audit"}
               /\ \A u \in Thread : pc'[u] = "audit" => event'[u] # NoEvent
               /\ audit' \subseteq Events \ {NoEvent}
    <2>1. \A u \in Thread \ {t} : pc'[u] = pc[u]
      BY <1>3 DEF Moves, Returns, GoesOn, Verifies, ThreadInv
    <2> QED
      BY <1>3, <2>1 DEF Owes, EventsInv
  <1>4. ASSUME NEW t \in Thread, Serve(t) \/ ChildAnswers(t), ~Notify(t), ~Record(t)
        PROVE  EventsInv'
    <2>1. PICK e \in Events : Owes(t, e)
      BY <1>4, ServeOwes
    <2>2. CASE List(t)
      <3>1. listing' = A!ExposureSnapshot(at[t]) /\ results' = results
        BY <2>2 DEF List
      <3>2. listing' \in [Server -> SUBSET Tool]
        BY <3>1, <1>0 DEF A!ExposureSnapshot, A!Snapshot, A!ResolveExposure, AP!TypeOK
      <3> QED
        BY <1>1, <1>3, <1>4, <2>1, <3>1, <3>2, ServeMoves DEF EventsInv
    <2>3. CASE CallResult(t)
      <3>1. results' = results \union {Len(calls)} /\ listing' = listing
        BY <2>3 DEF CallResult, clientVars
      <3>2. Len(calls) \in DOMAIN calls
        BY <1>0, <2>3 DEF CallResult, A!CallAnswered, EventsInv, AP!TypeOK
      <3>3. results' \subseteq DOMAIN calls' /\ listing' \in [Server -> SUBSET Tool]
        BY <1>1, <3>1, <3>2 DEF EventsInv
      <3> QED
        BY <1>1, <1>3, <1>4, <2>1, <3>3, ServeMoves DEF EventsInv
    <2>4. CASE ~List(t) /\ ~CallResult(t)
      <3>1. UNCHANGED <<listing, results>>
        BY <1>4, <2>4 DEF Serve, ChildAnswers, CallRefused, CallChild, CallFails, UnknownServer,
             Lifecycle, StartFails, Revoke, Issue, Submit, SubmitUnknown, ApplyElevation,
             ApplyConfirm, CallError, clientVars
      <3> QED
        BY <1>1, <1>2, <1>3, <1>4, <2>1, <3>1, ServeMoves DEF EventsInv
    <2> QED
      BY <2>2, <2>3, <2>4
  <1>5. ASSUME NEW t \in Thread, Notify(t) PROVE EventsInv'
    <2>1. UNCHANGED <<listing, results, event, audit>>
      BY <1>5 DEF Notify, Done
    <2>2. /\ \A u \in Thread \ {t} : pc'[u] = pc[u]
          /\ pc'[t] = IF event[t] = NoEvent THEN "idle" ELSE "audit"
      BY <1>5 DEF Notify, Done, ThreadInv
    <2> QED
      BY <1>1, <1>2, <2>1, <2>2 DEF EventsInv
  <1>6. ASSUME NEW t \in Thread, Record(t) PROVE EventsInv'
    <2>1. UNCHANGED <<listing, results>> /\ audit' = audit \union {event[t]} /\ pc[t] = "audit"
      BY <1>6 DEF Record, clientVars
    <2>2. /\ event' = [event EXCEPT ![t] = NoEvent] /\ pc'[t] = "idle"
          /\ \A u \in Thread \ {t} : pc'[u] = pc[u]
      BY <1>6 DEF Record, ThreadInv
    <2> QED
      BY <1>1, <1>2, <2>1, <2>2, EventTypes DEF EventsInv
  <1>7. ASSUME NEW t \in Thread, Enter(t) PROVE EventsInv'
    <2>1. UNCHANGED <<listing, results, event, audit>> /\ pc[t] = "idle"
      BY <1>7 DEF Enter
    <2>2. pc'[t] = "entered" /\ \A u \in Thread \ {t} : pc'[u] = pc[u]
      BY <1>7 DEF Enter, ThreadInv
    <2> QED
      BY <1>1, <1>2, <2>1, <2>2 DEF EventsInv
  <1>8. CASE ClientSigns \/ ChildExits \/ Tick \/ Quiet \/ UNCHANGED vars
    <2>1. UNCHANGED <<listing, results, event, audit, pc>>
      BY <1>8 DEF ClientSigns, ChildExits, Tick, Quiet, vars, clientVars, threadVars
    <2> QED
      BY <1>1, <1>2, <2>1 DEF EventsInv
  <1>9. CASE Restart
    <2>1. UNCHANGED <<listing, results, audit>> /\ event' = [t \in Thread |-> NoEvent]
            /\ pc' = [t \in Thread |-> "idle"]
      BY <1>9 DEF Restart
    <2> QED
      BY <1>1, <1>2, <2>1, EventTypes DEF EventsInv
  <1> QED
    BY <1>4, <1>5, <1>6, <1>7, <1>8, <1>9 DEF Next

LEMMA EventsInductive == Spec => []EventsInv
  <1>1. Init => EventsInv
    <2> SUFFICES ASSUME Init PROVE EventsInv
      OBVIOUS
    <2>1. AP!TypeOK
      BY SameServers, AP!TypeInit, Assumptions DEF Init
    <2>2. listing \in [Server -> SUBSET Tool]
      BY <2>1 DEF Init, A!ExposureSnapshot, A!Snapshot, A!ResolveExposure, AP!TypeOK
    <2> QED
      BY <2>2, EventTypes DEF Init, A!Init, EventsInv
  <1>2. ThreadInv /\ NP!IInv /\ ServersInv /\ EventsInv /\ [Next]_vars => EventsInv'
    BY EventsStep DEF NP!IInv
  <1> QED
    BY <1>1, <1>2, ThreadsInductive, StoreInvariant, ServersInductive, PTL DEF Spec

\* Every interleaving of handlers keeps the threads, the tape and the client's list
\* in their types: no thread's time is ahead of the clock, an idle thread has no
\* request, and only a thread that has done its work owes the tape an event.
THEOREM TypeCorrect == Spec => []TypeOK
  BY ThreadsInductive, EventsInductive, TypesFollow, PTL
-----------------------------------------------------------------------------
(* The tape, which outlives the threads that have yet to write it.          *)

Taped(e) == e \in audit \/ \E t \in Thread : event[t] = e

\* Short of a crash, an event that is owed is not forgotten before it is written.
LEMMA TapeKept ==
  ASSUME ThreadInv, NP!TypeOK, ServersInv, EventsInv, [Next]_vars, ~Restart,
         NEW e, e # NoEvent, Taped(e)
  PROVE  Taped(e)'
  <1>1. ASSUME NEW t \in Thread, Serve(t) \/ ChildAnswers(t), ~Notify(t), ~Record(t)
        PROVE  Taped(e)'
    <2>1. PICK d \in Events : Owes(t, d)
      BY <1>1, ServeOwes
    <2> QED
      BY <2>1 DEF Owes, Taped, EventsInv
  <1>2. ASSUME NEW t \in Thread, Record(t) PROVE Taped(e)'
    BY <1>2 DEF Record, Taped, EventsInv
  <1>3. ASSUME NEW t \in Thread, Notify(t) \/ Enter(t) PROVE Taped(e)'
    BY <1>3 DEF Notify, Done, Enter, Taped
  <1>4. CASE ClientSigns \/ ChildExits \/ Tick \/ Quiet \/ UNCHANGED vars
    BY <1>4 DEF ClientSigns, ChildExits, Tick, Quiet, vars, threadVars, Taped
  <1> QED
    BY <1>1, <1>2, <1>3, <1>4 DEF Next

\* What enters the histories that the tape is held against, and by which step.
LEMMA HistoriesGrow ==
  ASSUME ThreadInv, [Next]_vars, ~Restart
  PROVE  /\ \/ grants' = grants
            \/ \E t \in Thread : ApplyElevation(t) /\ req[t].purpose.server \in Server
         /\ approvals' = approvals \/ \E t \in Thread : ApplyConfirm(t)
         /\ results' = results \/ \E t \in Thread : CallResult(t)
         /\ restarts' = restarts
  <1>1. ASSUME NEW t \in Thread, Serve(t) \/ ChildAnswers(t)
        PROVE  /\ grants' = grants \/ (ApplyElevation(t) /\ req[t].purpose.server \in Server)
               /\ approvals' = approvals \/ ApplyConfirm(t)
               /\ results' = results \/ CallResult(t)
               /\ restarts' = restarts
    <2>0. restarts' = restarts
      <3>1. Moves(t)
        BY <1>1, ServeMoves
      <3> QED
        BY <3>1 DEF Moves
    <2>1. CASE ApplyElevation(t)
      <3>1. UNCHANGED <<approvals, results>>
        BY <2>1 DEF ApplyElevation, A!Elevate, serverVars
      <3>2. grants' = grants \/ req[t].purpose.server \in Server
        BY <2>1 DEF ApplyElevation, serverVars
      <3> QED
        BY <2>0, <2>1, <3>1, <3>2
    <2>2. CASE ApplyConfirm(t)
      <3>1. UNCHANGED <<grants, results>>
        BY <2>2 DEF ApplyConfirm, A!ApproveAction
      <3> QED
        BY <2>0, <2>2, <3>1
    <2>3. CASE ~ApplyElevation(t) /\ ~ApplyConfirm(t)
      <3>1. UNCHANGED <<grants, approvals>>
        BY <1>1, <2>3 DEF Serve, ChildAnswers, List, CallRefused, CallChild, CallFails,
             UnknownServer, Lifecycle, StartFails, Revoke, Issue, Submit, SubmitUnknown, Notify,
             Record, CallResult, CallError, serverVars, A!CallDispatch, A!CallNoChild,
             A!CallFault, A!CallAnswered, A!Pause, A!Resume, A!Stop, A!StartKeepsChild,
             A!StartSpawn, A!Revoke, A!history
      <3>2. results' = results \/ CallResult(t)
        BY <1>1, <2>3 DEF Serve, ChildAnswers, List, CallRefused, CallChild, CallFails,
             UnknownServer, Lifecycle, StartFails, Revoke, Issue, Submit, SubmitUnknown, Notify,
             Record, CallError
      <3> QED
        BY <2>0, <3>1, <3>2
    <2> QED
      BY <2>1, <2>2, <2>3
  <1>2. ASSUME NEW t \in Thread, Enter(t)
        PROVE  UNCHANGED <<grants, approvals, results, restarts>>
    BY <1>2 DEF Enter, serverVars
  <1>3. CASE ClientSigns \/ ChildExits \/ Tick \/ Quiet \/ UNCHANGED vars
    BY <1>3 DEF ClientSigns, ChildExits, Tick, Quiet, vars, serverVars, boundVars,
         A!ChildExit, A!history
  <1> QED
    BY <1>1, <1>2, <1>3 DEF Next

LEMMA TapeStep ==
  ASSUME ThreadInv, NP!TypeOK, ServersInv, EventsInv, TapeIsComplete, [Next]_vars
  PROVE  TapeIsComplete'
  <1>1. CASE Restart
    <2>1. restarts' # 0
      BY <1>1 DEF Restart, ThreadInv
    <2> QED
      BY <2>1 DEF TapeIsComplete
  <1>2. CASE ~Restart /\ restarts' # 0
    BY <1>2 DEF TapeIsComplete
  <1>3. CASE ~Restart /\ restarts' = 0
    <2>0. /\ \A g \in grants : Taped(Granted(g.by))
          /\ \A a \in approvals : Taped(ConfirmApproved(a.by))
          /\ \A i \in results : A!RequiresElevation(A!CallClass(i)) => Taped(WriteToolInvoked(i))
      BY <1>3, HistoriesGrow DEF TapeIsComplete, Taped
    <2>1. ASSUME NEW g \in grants' PROVE Taped(Granted(g.by))'
      <3>1. CASE g \in grants
        <4>1. Taped(Granted(g.by)) /\ Granted(g.by) # NoEvent
          BY <2>0, <3>1 DEF Granted, NoEvent
        <4> QED
          BY <1>3, <4>1, TapeKept
      <3>2. CASE g \notin grants
        <4>1. PICK t \in Thread : ApplyElevation(t) /\ req[t].purpose.server \in Server
          BY <1>3, <2>1, <3>2, HistoriesGrow
        <4>2. g.by = req[t].nonce
          BY <2>1, <3>2, <4>1 DEF ApplyElevation, A!Elevate
        <4>3. event' = [event EXCEPT ![t] = Granted(req[t].nonce)]
          BY <4>1 DEF ApplyElevation, Follow, Granted, NoEvent
        <4> QED
          BY <4>2, <4>3 DEF Taped, EventsInv, Granted
      <3> QED
        BY <3>1, <3>2
    <2>2. ASSUME NEW a \in approvals' PROVE Taped(ConfirmApproved(a.by))'
      <3>1. CASE a \in approvals
        <4>1. Taped(ConfirmApproved(a.by)) /\ ConfirmApproved(a.by) # NoEvent
          BY <2>0, <3>1 DEF ConfirmApproved, NoEvent
        <4> QED
          BY <1>3, <4>1, TapeKept
      <3>2. CASE a \notin approvals
        <4>1. PICK t \in Thread : ApplyConfirm(t)
          BY <1>3, <2>2, <3>2, HistoriesGrow
        <4>2. a.by = req[t].nonce
          BY <2>2, <3>2, <4>1 DEF ApplyConfirm, A!ApproveAction
        <4>3. event' = [event EXCEPT ![t] = ConfirmApproved(req[t].nonce)]
          BY <4>1 DEF ApplyConfirm, Follow, ConfirmApproved, NoEvent
        <4> QED
          BY <4>2, <4>3 DEF Taped, EventsInv, ConfirmApproved
      <3> QED
        BY <3>1, <3>2
    <2>3. ASSUME NEW i \in results', A!RequiresElevation(A!CallClass(i))'
          PROVE  Taped(WriteToolInvoked(i))'
      <3>1. CASE i \in results
        <4>1. i \in DOMAIN calls /\ A!CallClass(i)' = A!CallClass(i)
          <5>1. AP!TypeOK /\ [AP!Next]_(AP!vars)
            BY ServerStep DEF ServersInv
          <5>2. i \in DOMAIN calls /\ calls \in Seq(AP!Call)
            BY <3>1, <5>1 DEF EventsInv, AP!TypeOK
          <5>3. calls' = calls \/ \E c \in AP!Call : calls' = Append(calls, c)
            BY <5>1, CallsGrow
          <5>4. calls'[i] = calls[i]
            BY <5>2, <5>3
          <5> QED
            BY <5>2, <5>4 DEF A!CallClass
        <4>2. Taped(WriteToolInvoked(i)) /\ WriteToolInvoked(i) # NoEvent
          BY <2>0, <2>3, <3>1, <4>1 DEF WriteToolInvoked, NoEvent, A!RequiresElevation
        <4> QED
          BY <1>3, <4>2, TapeKept
      <3>2. CASE i \notin results
        <4>1. PICK t \in Thread : CallResult(t)
          BY <1>3, <2>3, <3>2, HistoriesGrow
        <4>2. i = Len(calls) /\ calls' = calls
          BY <2>3, <3>2, <4>1 DEF CallResult, A!CallAnswered, A!history
        <4>3. A!RequiresElevation(A!CallClass(i))
          BY <2>3, <4>2 DEF A!CallClass, A!RequiresElevation
        <4>4. event' = [event EXCEPT ![t] = WriteToolInvoked(i)]
          BY <4>1, <4>2, <4>3 DEF CallResult, Follow, WriteToolInvoked, NoEvent
        <4> QED
          BY <4>4 DEF Taped, EventsInv, WriteToolInvoked
      <3> QED
        BY <3>1, <3>2
    <2> QED
      BY <2>1, <2>2, <2>3 DEF TapeIsComplete, Taped
  <1> QED
    BY <1>1, <1>2, <1>3

\* While the broker lives, no interleaving of its threads loses an entry of the
\* tape: every elevation and approval applied and every gated call that returned
\* a result is written, or its thread is about to write it.
THEOREM TapeCorrect == Spec => []TapeIsComplete
  <1>1. Init => TapeIsComplete
    BY DEF Init, A!Init, TapeIsComplete
  <1>2. ThreadInv /\ NP!IInv /\ ServersInv /\ EventsInv /\ TapeIsComplete /\ [Next]_vars
          => TapeIsComplete'
    BY TapeStep DEF NP!IInv
  <1> QED
    BY <1>1, <1>2, ThreadsInductive, StoreInvariant, ServersInductive, EventsInductive, PTL
    DEF Spec
-----------------------------------------------------------------------------
(* The gate, end to end: Broker implements PresenceGate.                    *)

\* The assertions that the signatures made with registered keys amount to.
LEMMA Registered ==
  ASSUME NP!TypeOK, NP!Authentic, NEW a \in accepted
  PROVE  /\ [nonce |-> a.nonce, purpose |-> a.purpose] \in RegisteredAssertions
         /\ a.purpose \in Purpose
  <1> DEFINE g == [key |-> Registry[a.client], nonce |-> a.nonce, client |-> a.client,
                   purpose |-> a.purpose]
  <1>1. g \in signatures /\ a.client \in DOMAIN Registry
    BY DEF NP!Authentic, NP!ChallengeMessage
  <1>2. a.purpose \in Purpose
    BY DEF NP!TypeOK, NP!Accepted
  <1> QED
    BY <1>1, <1>2 DEF RegisteredAssertions

\* A call as PresenceGate sees it.
Invoked(c) == [server |-> c.server, tool |-> c.tool, by |-> c.by, approval |-> c.approval]

LEMMA InvokedGrows ==
  ASSUME calls \in Seq(AP!Call), NEW c \in AP!Call, calls' = Append(calls, c)
  PROVE  InvokedCalls' = Append(InvokedCalls, Invoked(c)) /\ Invoked(c) \in G!Call
  <1>1. Invoked(c) \in G!Call
    BY DEF Invoked, AP!Call, G!Call
  <1>2. /\ DOMAIN calls = 1..Len(calls) /\ Len(calls) \in Nat
        /\ \A i \in DOMAIN calls : calls[i] \in AP!Call
    OBVIOUS
  <1>3. InvokedCalls = [i \in 1..Len(calls) |-> Invoked(calls[i])]
    BY <1>2 DEF InvokedCalls, Invoked
  <1>4. \A i \in 1..Len(calls) : Invoked(calls[i]) \in G!Call
    BY <1>2 DEF Invoked, AP!Call, G!Call
  <1>5. InvokedCalls \in Seq(G!Call) /\ Len(InvokedCalls) = Len(calls)
    BY <1>2, <1>3, <1>4
  <1>6. /\ Len(calls') = Len(calls) + 1 /\ calls'[Len(calls) + 1] = c
        /\ DOMAIN calls' = 1..(Len(calls) + 1)
        /\ \A i \in 1..Len(calls) : calls'[i] = calls[i]
    BY <1>2
  <1>7. InvokedCalls' = [i \in 1..(Len(calls) + 1) |-> Invoked(calls'[i])]
    BY <1>6 DEF InvokedCalls, Invoked
  <1>8. \A i \in 1..(Len(calls) + 1) : Invoked(calls'[i]) \in G!Call
    BY <1>1, <1>2, <1>4, <1>6
  <1>9. InvokedCalls' \in Seq(G!Call) /\ Len(InvokedCalls') = Len(calls) + 1
    BY <1>2, <1>7, <1>8
  <1> DEFINE appended == Append(InvokedCalls, Invoked(c))
  <1>10. /\ appended \in Seq(G!Call) /\ Len(appended) = Len(calls) + 1
         /\ \A i \in 1..Len(calls) : appended[i] = Invoked(calls[i])
         /\ appended[Len(calls) + 1] = Invoked(c)
    BY <1>1, <1>2, <1>3, <1>5, AppendProperties
  <1> HIDE DEF appended
  <1>11. \A i \in 1..Len(InvokedCalls') : InvokedCalls'[i] = appended[i]
    BY <1>2, <1>6, <1>7, <1>9, <1>10
  <1>12. InvokedCalls' = appended
    BY <1>9, <1>10, <1>11, SeqEqual
  <1> QED
    BY <1>1, <1>12 DEF appended

\* The steps that the gate is about: a signature made, a call sent.
LEMMA GateMoves ==
  ASSUME ThreadInv, [Next]_vars
  PROVE  /\ signatures' = signatures \/ (ClientSigns /\ calls' = calls)
         /\ \/ calls' = calls
            \/ \E s \in Server, tool \in Tool, now \in 0..clock, by \in Nonce \union {NoNonce} :
                 A!CallDispatch(s, tool, now, by) /\ signatures' = signatures
  <1>1. ASSUME NEW t \in Thread, Serve(t) \/ ChildAnswers(t)
        PROVE  /\ signatures' = signatures
               /\ \/ calls' = calls
                  \/ \E s \in Server, tool \in Tool, now \in 0..clock,
                        by \in Nonce \union {NoNonce} : A!CallDispatch(s, tool, now, by)
    <2>1. signatures' = signatures
      BY <1>1 DEF Serve, ChildAnswers, List, CallRefused, CallChild, CallFails, UnknownServer,
           Lifecycle, StartFails, Revoke, Issue, Submit, SubmitUnknown, ApplyElevation,
           ApplyConfirm, Notify, Record, CallResult, CallError, storeVars, N!Issue,
           N!IssueRefused, N!VerifyAndConsume
    <2>2. CASE CallChild(t)
      <3>1. req[t].server \in Server /\ req[t].tool \in Tool /\ at[t] \in 0..clock
        BY <2>2, RequestTypes DEF CallChild, Serves, ThreadInv
      <3>2. PICK by \in Nonce \union {NoNonce} :
              \/ A!CallDispatch(req[t].server, req[t].tool, at[t], by)
              \/ A!CallNoChild(req[t].server, req[t].tool, at[t], by)
        BY <2>2 DEF CallChild
      <3>3. A!CallNoChild(req[t].server, req[t].tool, at[t], by) => calls' = calls
        BY DEF A!CallNoChild, A!history
      <3> QED
        BY <2>1, <3>1, <3>2, <3>3
    <2>3. CASE ~CallChild(t)
      <3>1. calls' = calls
        BY <1>1, <2>3 DEF Serve, ChildAnswers, List, CallRefused, CallFails, UnknownServer,
             Lifecycle, StartFails, Revoke, Issue, Submit, SubmitUnknown, ApplyElevation,
             ApplyConfirm, Notify, Record, CallResult, CallError, serverVars, A!CallFault,
             A!CallAnswered, A!Elevate, A!ApproveAction, A!Pause, A!Resume, A!Stop,
             A!StartKeepsChild, A!StartSpawn, A!Revoke, A!history
      <3> QED
        BY <2>1, <3>1
    <2> QED
      BY <2>2, <2>3
  <1>2. ASSUME NEW t \in Thread, Enter(t) PROVE signatures' = signatures /\ calls' = calls
    BY <1>2 DEF Enter, storeVars, serverVars
  <1>3. CASE ClientSigns
    BY <1>3 DEF ClientSigns, serverVars
  <1>4. CASE ChildExits \/ Tick \/ Quiet \/ Restart \/ UNCHANGED vars
    BY <1>4 DEF ChildExits, Tick, Quiet, Restart, vars, storeVars, serverVars, A!ChildExit,
         A!Restart, A!history, N!Tick, N!Restart
  <1> QED
    BY <1>1, <1>2, <1>3, <1>4 DEF Next

LEMMA SignStep ==
  ASSUME ThreadInv, ClientSigns, calls' = calls
  PROVE  [G!Next]_(G!vars)
  <1>0. InvokedCalls' = InvokedCalls
    BY DEF InvokedCalls
  <1>1. PICK c \in Client, n \in Nonce, purpose \in workload.purposes : N!Sign(c, n, purpose)
    BY DEF ClientSigns
  <1> DEFINE g == [key |-> Holds[c], nonce |-> n, client |-> c, purpose |-> purpose]
             a == [nonce |-> n, purpose |-> purpose]
  <1>2. signatures' = signatures \union {g}
    BY <1>1 DEF N!Sign, N!ChallengeMessage
  <1>3. purpose \in Purpose /\ a \in G!Assertion
    BY WorkloadAssumption DEF ThreadInv, G!Assertion
  <1>4. CASE c \in DOMAIN Registry /\ Holds[c] = Registry[c]
    <2> DEFINE Known == {h \in signatures : /\ h.client \in DOMAIN Registry
                                            /\ h.key = Registry[h.client]}
    <2>1. g.client = c /\ g.key = Holds[c] /\ g.nonce = n /\ g.purpose = purpose
      OBVIOUS
    <2> HIDE DEF g
    <2>2. Known' = Known \union {g}
      BY <1>2, <1>4, <2>1
    <2>3. /\ RegisteredAssertions = {[nonce |-> h.nonce, purpose |-> h.purpose] : h \in Known}
          /\ RegisteredAssertions' = {[nonce |-> h.nonce, purpose |-> h.purpose] : h \in Known'}
      BY DEF RegisteredAssertions
    <2> HIDE DEF Known
    <2>4. RegisteredAssertions' = RegisteredAssertions \union {a}
      BY <2>1, <2>2, <2>3
    <2> QED
      BY <1>0, <1>3, <2>4 DEF G!Next, G!Sign
  <1>5. CASE ~(c \in DOMAIN Registry /\ Holds[c] = Registry[c])
    <2>1. RegisteredAssertions' = RegisteredAssertions
      BY <1>2, <1>5 DEF RegisteredAssertions
    <2> QED
      BY <1>0, <2>1 DEF G!vars
  <1> QED
    BY <1>4, <1>5

LEMMA InvokeStep ==
  ASSUME NP!IInv, ServersInv, AP!IInv', NEW s \in Server, NEW tool \in Tool,
         NEW now \in 0..clock, NEW by \in Nonce \union {NoNonce},
         A!CallDispatch(s, tool, now, by), signatures' = signatures
  PROVE  G!Next
  <1> DEFINE c == [server |-> s, tool |-> tool, now |-> now,
                   by |-> grantedBy[s], approval |-> by]
             last == Len(calls) + 1
  <1>1. calls' = Append(calls, c) /\ UNCHANGED <<grants, approvals>>
    BY DEF A!CallDispatch
  <1>2. calls \in Seq(AP!Call) /\ c \in AP!Call
    BY DEF ServersInv, AP!TypeOK, AP!Call, NP!IInv, NP!TypeOK
  <1>3. InvokedCalls' = Append(InvokedCalls, Invoked(c)) /\ Invoked(c) \in G!Call
    BY <1>1, <1>2, InvokedGrows
  <1>4. /\ last \in DOMAIN calls' /\ calls'[last] = c
        /\ \A i \in DOMAIN calls : i \in DOMAIN calls' \ {last} /\ calls'[i] = calls[i]
    BY <1>1, <1>2
  <1>5. RegisteredAssertions' = RegisteredAssertions
    BY DEF RegisteredAssertions
  <1>6. /\ c.server = s /\ c.tool = tool /\ c.by = grantedBy[s] /\ c.approval = by
        /\ Invoked(c).server = s /\ Invoked(c).tool = tool
        /\ Invoked(c).by = grantedBy[s] /\ Invoked(c).approval = by
    BY DEF Invoked
  <1> HIDE DEF c
  <1>7. ASSUME G!RequiresElevation(G!Classify(s, tool))
        PROVE  G!Elevates(grantedBy[s], s)
    <2>1. PICK g \in grants : g.by = grantedBy[s] /\ g.server = s
      BY <1>1, <1>4, <1>6, <1>7
      DEF AP!IInv, AP!GatedCallsAreElevated, AP!CallClass, AP!Classify, G!Classify,
          AP!RequiresElevation, G!RequiresElevation, AP!IsRead, G!IsRead
    <2>2. PICK a \in accepted :
            a.nonce = g.by /\ a.purpose.kind # "confirm" /\ a.purpose.server = g.server
      BY <2>1 DEF ServersInv, AssertionsApplied
    <2> QED
      BY <2>1, <2>2, Registered, PurposeTypes DEF G!Elevates, NP!IInv
  <1>8. ASSUME G!RequiresPerActionPresence(G!Classify(s, tool))
        PROVE  G!Confirms(by, s, tool) /\ G!Unspent(by)
    <2>1. AP!RequiresPerActionPresence(AP!Classify(calls'[last].server, calls'[last].tool))
      BY <1>4, <1>6, <1>8
      DEF AP!Classify, G!Classify, AP!RequiresPerActionPresence, G!RequiresPerActionPresence
    <2>2. PICK b \in approvals : b.by = by /\ b.server = s /\ b.tool = tool
      BY <1>1, <1>4, <1>6, <2>1 DEF AP!IInv, AP!ConfirmedOncePerCall, AP!CallClass
    <2>3. PICK a \in accepted :
            /\ a.nonce = b.by /\ a.purpose.kind = "confirm"
            /\ a.purpose.server = b.server /\ a.purpose.tool = b.tool
      BY <2>2 DEF ServersInv, AssertionsApplied
    <2>4. G!Confirms(by, s, tool)
      BY <2>2, <2>3, Registered DEF G!Confirms, NP!IInv
    <2>5. \A i \in DOMAIN calls : calls[i].approval # by
      BY <1>4, <1>6, <2>1 DEF AP!IInv, AP!ConfirmedOncePerCall, AP!CallClass
    <2> QED
      BY <2>4, <2>5 DEF G!Unspent, InvokedCalls
  <1> QED
    BY <1>3, <1>5, <1>6, <1>7, <1>8 DEF G!Next, G!Invoke

LEMMA GateStep ==
  ASSUME ThreadInv, NP!IInv, ServersInv, AP!IInv', [Next]_vars
  PROVE  [G!Next]_(G!vars)
  <1>1. CASE ClientSigns /\ calls' = calls
    BY <1>1, SignStep
  <1>2. CASE signatures' = signatures /\ calls' = calls
    BY <1>2 DEF G!vars, RegisteredAssertions, InvokedCalls
  <1>3. ASSUME NEW s \in Server, NEW tool \in Tool, NEW now \in 0..clock,
               NEW by \in Nonce \union {NoNonce},
               A!CallDispatch(s, tool, now, by) /\ signatures' = signatures
        PROVE  G!Next
    BY <1>3, InvokeStep
  <1> QED
    BY <1>1, <1>2, <1>3, GateMoves

\* End to end, for any number of threads, restarts and requests: a gated call
\* that reaches a child was authorised by a registered key's signature for that
\* server, and a confirm call by another for that tool, which no other call spends.
THEOREM GateRefined == Spec => Gate
  <1>1. Init => G!Init
    <2> SUFFICES ASSUME Init PROVE G!Init
      OBVIOUS
    <2>1. RegisteredAssertions = {} /\ calls = <<>>
      BY DEF Init, N!Init, A!Init, RegisteredAssertions
    <2>2. InvokedCalls = <<>>
      BY <2>1 DEF InvokedCalls
    <2> QED
      BY <2>1, <2>2 DEF G!Init
  <1>2. ThreadInv /\ NP!IInv /\ ServersInv /\ AP!IInv' /\ [Next]_vars => [G!Next]_(G!vars)
    BY GateStep
  <1> QED
    BY <1>1, <1>2, ThreadsInductive, StoreInvariant, ServersInductive, ServersInvariant, PTL
    DEF Spec, Gate, G!Spec
-----------------------------------------------------------------------------
(* What the MCP client is told, where elevations have no time limit.        *)

\* No client asks for an elevation that expires.
NoTimeLimits == \A w \in Workloads : \A purpose \in w.purposes : purpose.kind # "elevate"

\* Then none is outstanding, verified or in force; and a request to list is
\* served in one step.
TimelessInv ==
  /\ \A p \in pending : p.purpose.kind # "elevate"
  /\ \A a \in accepted : a.purpose.kind # "elevate"
  /\ \A s \in Server : elevation[s].mode # "duration"
  /\ \A t \in Thread : req[t].op = "list" => pc[t] = "entered"

LEMMA TimelessStore ==
  ASSUME NoTimeLimits, ThreadInv, TimelessInv, [Next]_vars
  PROVE  /\ \A p \in pending' : p.purpose.kind # "elevate"
         /\ \A a \in accepted' : a.purpose.kind # "elevate"
  <1>1. ASSUME NEW t \in Thread, Issue(t)
        PROVE  /\ \A p \in pending' : p.purpose.kind # "elevate"
               /\ accepted' = accepted
    <2>1. req[t].purpose.kind # "elevate"
      BY <1>1, RequestTypes DEF Issue, Serves, ThreadInv, NoTimeLimits
    <2>2. CASE N!IssueRefused(at[t])
      BY <2>2 DEF N!IssueRefused, N!Pruned, TimelessInv
    <2>3. ASSUME NEW n \in Nonce, N!Issue(req[t].client, req[t].purpose, at[t], n)
          PROVE  /\ \A p \in pending' : p.purpose.kind # "elevate"
                 /\ accepted' = accepted
      BY <2>1, <2>3 DEF N!Issue, N!Pruned, TimelessInv
    <2> QED
      BY <1>1, <2>2, <2>3 DEF Issue
  <1>2. ASSUME NEW t \in Thread, Submit(t)
        PROVE  /\ \A p \in pending' : p.purpose.kind # "elevate"
               /\ \A a \in accepted' : a.purpose.kind # "elevate"
    BY <1>2 DEF Submit, Entry, N!VerifyAndConsume, TimelessInv
  <1>3. ASSUME NEW t \in Thread, Serve(t) \/ ChildAnswers(t), ~Issue(t), ~Submit(t)
        PROVE  UNCHANGED <<pending, accepted>>
    BY <1>3 DEF Serve, ChildAnswers, List, CallRefused, CallChild, CallFails, UnknownServer,
         Lifecycle, StartFails, Revoke, SubmitUnknown, ApplyElevation, ApplyConfirm, Notify,
         Record, CallResult, CallError, storeVars
  <1>4. ASSUME NEW t \in Thread, Enter(t) PROVE UNCHANGED <<pending, accepted>>
    BY <1>4 DEF Enter, storeVars
  <1>5. CASE ClientSigns \/ ChildExits \/ Tick \/ Quiet \/ UNCHANGED vars
    BY <1>5 DEF ClientSigns, ChildExits, Tick, Quiet, vars, storeVars, N!Sign, N!Tick, TimelessInv
  <1>6. CASE Restart
    BY <1>6 DEF Restart, N!Restart, TimelessInv
  <1> QED
    BY <1>1, <1>2, <1>3, <1>4, <1>5, <1>6 DEF Next, TimelessInv, Serve

\* Only these steps may widen what is exposed.
Widens(t) == Lifecycle(t) \/ Revoke(t) \/ ApplyElevation(t)

\* A server fails closed, or keeps its tools, its state and its elevation.
FailsClosed(s) ==
  \/ tools'[s] = tools[s] /\ state'[s] = state[s] /\ elevation'[s] = elevation[s]
  \/ state'[s] = "stopped" /\ elevation'[s] = A!NoElevation

LEMMA ServersKept ==
  ASSUME AP!TypeOK, ThreadInv, NEW t \in Thread, Serve(t) \/ ChildAnswers(t), ~Widens(t),
         NEW s \in Server
  PROVE  FailsClosed(s)
  <1>1. CASE CallFails(t)
    BY <1>1 DEF CallFails, A!CallFault, FailsClosed, AP!TypeOK
  <1>2. CASE ~CallFails(t)
    <2>1. UNCHANGED <<tools, state, elevation>>
      BY <1>2 DEF Widens, Serve, ChildAnswers, List, CallRefused, CallChild, UnknownServer,
           StartFails, Issue, Submit, SubmitUnknown, ApplyConfirm, Notify, Record, CallResult,
           CallError, serverVars, A!CallDispatch, A!CallNoChild, A!CallAnswered,
           A!ApproveAction, A!slots
    <2> QED
      BY <2>1 DEF FailsClosed
  <1> QED
    BY <1>1, <1>2

LEMMA TimelessServers ==
  ASSUME AP!TypeOK, ThreadInv, ServersInv, TimelessInv, [Next]_vars
  PROVE  \A s \in Server : elevation'[s].mode # "duration"
  <1>0. A!NoElevation.mode = "none"
    BY DEF A!NoElevation
  <1>1. ASSUME NEW t \in Thread, Serve(t) \/ ChildAnswers(t), ~Widens(t), NEW s \in Server
        PROVE  elevation'[s].mode # "duration"
    BY <1>0, <1>1, ServersKept DEF FailsClosed, TimelessInv
  <1>2. ASSUME NEW t \in Thread, Lifecycle(t) PROVE UNCHANGED elevation
    BY <1>2 DEF Lifecycle, A!Pause, A!Resume, A!Stop, A!StartKeepsChild, A!StartSpawn
  <1>3. ASSUME NEW t \in Thread, Revoke(t), NEW s \in Server
        PROVE  elevation'[s].mode # "duration"
    BY <1>0, <1>3 DEF Revoke, A!Revoke, AP!TypeOK, TimelessInv
  <1>4. ASSUME NEW t \in Thread, ApplyElevation(t), NEW s \in Server
        PROVE  elevation'[s].mode # "duration"
    <2>1. req[t].purpose.kind # "elevate"
      BY <1>4 DEF ApplyElevation, ServersInv, AssertionsHeld, TimelessInv
    <2>2. ElevationFor(req[t].purpose, at[t]).mode = "until_revoked"
      BY <2>1 DEF ElevationFor, A!UntilRevoked
    <2>3. \/ elevation' = elevation
          \/ elevation' = [elevation EXCEPT ![req[t].purpose.server] =
                             ElevationFor(req[t].purpose, at[t])]
      BY <1>4 DEF ApplyElevation, A!Elevate, serverVars
    <2> QED
      BY <2>2, <2>3 DEF AP!TypeOK, TimelessInv
  <1>5. ASSUME NEW t \in Thread, Enter(t) PROVE UNCHANGED elevation
    BY <1>5 DEF Enter, serverVars
  <1>6. CASE ClientSigns \/ ChildExits \/ Tick \/ Quiet \/ UNCHANGED vars
    BY <1>6 DEF ClientSigns, ChildExits, Tick, Quiet, vars, serverVars, TimelessInv,
         A!ChildExit, A!slots
  <1>7. CASE Restart
    BY <1>0, <1>7 DEF Restart, A!Restart, A!Built
  <1> QED
    BY <1>1, <1>2, <1>3, <1>4, <1>5, <1>6, <1>7 DEF Next, TimelessInv, Widens

\* What a thread that takes a step of its handler is not: announcing or listing.
LEMMA NotTelling ==
  ASSUME ThreadInv, TimelessInv, NEW t \in Thread, Serve(t) \/ ChildAnswers(t), ~List(t),
         ~Notify(t)
  PROVE  pc[t] # "notify" /\ req[t].op # "list" /\ listChanged' = listChanged
  <1>1. pc[t] # "notify" /\ listChanged' = listChanged
    BY DEF Serve, ChildAnswers, CallRefused, CallChild, CallFails, UnknownServer, Lifecycle,
         StartFails, Revoke, Issue, Submit, SubmitUnknown, ApplyElevation, ApplyConfirm,
         Record, CallResult, CallError, clientVars, Serves
  <1>2. pc[t] = "entered" => req[t].op # "list"
    BY DEF Serve, ChildAnswers, CallRefused, CallChild, CallFails, UnknownServer, Lifecycle,
         StartFails, Revoke, Issue, Submit, SubmitUnknown, ApplyElevation, ApplyConfirm,
         Record, CallResult, CallError, Serves, LifecycleOps
  <1> QED
    BY <1>1, <1>2 DEF TimelessInv

LEMMA TimelessRequests ==
  ASSUME ThreadInv, TimelessInv, [Next]_vars
  PROVE  \A t \in Thread : req'[t].op = "list" => pc'[t] = "entered"
  <1>0. NoRequest.op # "list"
    BY DEF NoRequest
  <1>1. ASSUME NEW t \in Thread, Serve(t) \/ ChildAnswers(t), NEW u \in Thread,
               req'[u].op = "list"
        PROVE  pc'[u] = "entered"
    <2>1. Moves(t)
      BY <1>1, ServeMoves
    <2>2. CASE u # t
      BY <1>1, <2>1, <2>2 DEF Moves, Returns, GoesOn, Verifies, ThreadInv, TimelessInv
    <2>3. CASE u = t
      <3>1. CASE Returns(t)
        BY <1>0, <1>1, <2>3, <3>1 DEF Returns, ThreadInv
      <3>2. CASE Verifies(t)
        BY <1>1, <2>3, <3>2 DEF Verifies
      <3>3. CASE GoesOn(t)
        <4>1. req[t].op = "list" /\ pc[t] = "entered"
          BY <1>1, <2>3, <3>3 DEF GoesOn, TimelessInv
        <4>2. ~List(t)
          BY <1>0, <1>1, <2>3, <3>3, <4>1 DEF List, Done, GoesOn, ThreadInv
        <4>3. ~Notify(t)
          BY <4>1 DEF Notify
        <4> QED
          BY <1>1, <4>1, <4>2, <4>3, NotTelling
      <3> QED
        BY <2>1, <3>1, <3>2, <3>3 DEF Moves
    <2> QED
      BY <2>2, <2>3
  <1>2. ASSUME NEW t \in Thread, Enter(t)
        PROVE  \A u \in Thread : req'[u].op = "list" => pc'[u] = "entered"
    BY <1>2 DEF Enter, ThreadInv, TimelessInv
  <1>3. CASE ClientSigns \/ ChildExits \/ Tick \/ Quiet \/ UNCHANGED vars
    BY <1>3 DEF ClientSigns, ChildExits, Tick, Quiet, vars, threadVars, TimelessInv
  <1>4. CASE Restart
    BY <1>0, <1>4 DEF Restart
  <1> QED
    BY <1>1, <1>2, <1>3, <1>4 DEF Next

LEMMA TimelessInductive == NoTimeLimits => (Spec => []TimelessInv)
  <1> SUFFICES ASSUME NoTimeLimits PROVE Spec => []TimelessInv
    OBVIOUS
  <1>1. Init => TimelessInv
    BY DEF Init, N!Init, A!Init, A!NoElevation, NoRequest, TimelessInv
  <1>2. ThreadInv /\ ServersInv /\ TimelessInv /\ [Next]_vars => TimelessInv'
    BY TimelessStore, TimelessServers, TimelessRequests DEF TimelessInv, ServersInv
  <1> QED
    BY <1>1, <1>2, ThreadsInductive, ServersInductive, PTL DEF Spec
\* Without time limits the time does not matter.
LEMMA TimelessExposure ==
  ASSUME \A s \in Server : elevation[s].mode # "duration", NEW s \in Server, NEW n, NEW m
  PROVE  A!Exposed(s, n) = A!Exposed(s, m)
  BY DEF A!Exposed, A!ResolveExposure, A!IsActive

LEMMA ToldKept ==
  ASSUME ThreadInv, TimelessInv, Told, NEW t \in Thread, Serve(t) \/ ChildAnswers(t), ~List(t),
         ~Notify(t)
  PROVE  Told'
  <1>1. pc[t] # "notify" /\ req[t].op # "list" /\ listChanged' = listChanged
    BY NotTelling
  <1>2. \A u \in Thread \ {t} : pc'[u] = pc[u] /\ req'[u] = req[u]
    <2>1. Moves(t)
      BY ServeMoves
    <2> QED
      BY <2>1 DEF Moves, Returns, GoesOn, Verifies, ThreadInv
  <1> QED
    BY <1>1, <1>2 DEF Told

\* A handler that changes the exposure announces it.
LEMMA ChangeIsAnnounced ==
  ASSUME ThreadInv, TimelessInv, TimelessInv', NEW t \in Thread, Widens(t)
  PROVE  \/ pc'[t] = "notify"
         \/ \A s \in Server : A!Exposed(s, clock)' = A!Exposed(s, clock)
  <1>1. clock' = clock
    BY ServeMoves DEF Moves, Serve, Widens
  <1>2. CASE Changed(t)
    <2>1. PICK e : Follow(t, TRUE, e) \/ UNCHANGED <<tools, state, elevation>>
      BY <1>2 DEF Widens, Lifecycle, Revoke, ApplyElevation, Changed, serverVars
    <2>2. CASE Follow(t, TRUE, e)
      BY <2>2 DEF Follow, ThreadInv
    <2>3. CASE UNCHANGED <<tools, state, elevation>>
      BY <1>1, <2>3 DEF A!Exposed
    <2> QED
      BY <2>1, <2>2, <2>3
  <1>3. CASE ~Changed(t)
    <2>1. ASSUME NEW s \in Server PROVE A!Exposed(s, clock)' = A!Exposed(s, clock)
      <3>1. A!ResolveExposure(s, tools'[s], state'[s], elevation'[s], at[t])
              = A!ResolveExposure(s, tools[s], state[s], elevation[s], at[t])
        BY <1>3 DEF Changed, A!Snapshot, A!ExposureSnapshot
      <3> QED
        BY <1>1, <3>1 DEF A!Exposed, A!ResolveExposure, A!IsActive, TimelessInv
    <2> QED
      BY <2>1
  <1> QED
    BY <1>2, <1>3

LEMMA AnnouncedStep ==
  ASSUME ThreadInv, ServersInv, TimelessInv, TimelessInv', WideningIsAnnounced, [Next]_vars
  PROVE  WideningIsAnnounced'
  <1> SUFFICES ASSUME NEW s \in Server, ~(A!Exposed(s, clock)' \subseteq listing'[s])
               PROVE  Told'
    BY DEF WideningIsAnnounced
  <1>0. AP!TypeOK
    BY DEF ServersInv
  \* Unless what is offered grew, or the client's list changed, it was told before.
  <1>1. ASSUME listing' = listing, A!Exposed(s, clock)' \subseteq A!Exposed(s, clock)
        PROVE  Told
    BY <1>1 DEF WideningIsAnnounced
  <1>2. ASSUME NEW t \in Thread, List(t) PROVE Told'
    <2>1. listing' = A!ExposureSnapshot(at[t]) /\ UNCHANGED <<tools, state, elevation>>
      BY <1>2 DEF List, serverVars
    <2>2. A!Exposed(s, clock)' = listing'[s]
      BY <2>1 DEF A!Exposed, A!ExposureSnapshot, A!Snapshot, A!ResolveExposure, A!IsActive,
                  TimelessInv
    <2> QED
      BY <2>2
  <1>3. ASSUME NEW t \in Thread, Notify(t) PROVE Told'
    BY <1>3 DEF Notify, Told
  <1>4. ASSUME NEW t \in Thread, Widens(t) PROVE Told'
    <2>1. (Serve(t) \/ ChildAnswers(t)) /\ ~List(t) /\ ~Notify(t) /\ listing' = listing
      BY <1>4 DEF Widens, Serve, Lifecycle, Revoke, ApplyElevation, List, Notify, Serves,
                  clientVars, LifecycleOps
    <2>2. CASE pc'[t] = "notify"
      BY <2>2 DEF Told
    <2>3. CASE A!Exposed(s, clock)' = A!Exposed(s, clock)
      BY <1>1, <2>1, <2>3, ToldKept
    <2> QED
      BY <1>4, <2>2, <2>3, ChangeIsAnnounced
  <1>5. ASSUME NEW t \in Thread, Serve(t) \/ ChildAnswers(t), ~List(t), ~Notify(t), ~Widens(t)
        PROVE  Told'
    <2>1. listing' = listing
      BY <1>5 DEF Widens, Serve, ChildAnswers, CallRefused, CallChild, CallFails, UnknownServer,
           StartFails, Issue, Submit, SubmitUnknown, ApplyConfirm, Record, CallResult, CallError,
           clientVars
    <2>2. clock' = clock
      BY <1>5, ServeMoves DEF Moves
    <2>3. FailsClosed(s)
      BY <1>0, <1>5, ServersKept
    <2>4. A!Exposed(s, clock)' \subseteq A!Exposed(s, clock)
      BY <2>2, <2>3 DEF FailsClosed, A!Exposed, A!ResolveExposure
    <2> QED
      BY <1>1, <1>5, <2>1, <2>4, ToldKept
  <1>6. ASSUME NEW t \in Thread, Enter(t) PROVE Told'
    <2>1. UNCHANGED <<listing, clock, tools, state, elevation>> /\ pc[t] = "idle"
      BY <1>6 DEF Enter, serverVars
    <2>2. Told
      BY <1>1, <2>1 DEF A!Exposed
    <2>3. req[t].op # "list"
      BY <2>1 DEF ThreadInv, NoRequest
    <2> QED
      BY <1>6, <2>1, <2>2, <2>3 DEF Enter, Told, ThreadInv
  <1>7. CASE ClientSigns \/ ChildExits \/ Tick \/ Quiet \/ UNCHANGED vars
    <2>1. UNCHANGED <<listing, listChanged, tools, state, elevation, pc, req>>
      BY <1>7 DEF ClientSigns, ChildExits, Tick, Quiet, vars, serverVars, clientVars, threadVars,
           A!ChildExit, A!slots
    <2>2. A!Exposed(s, clock)' = A!Exposed(s, clock)
      BY <2>1 DEF A!Exposed, A!ResolveExposure, A!IsActive, TimelessInv
    <2>3. Told
      BY <1>1, <2>1, <2>2
    <2> QED
      BY <2>1, <2>3 DEF Told
  <1>8. CASE Restart
    BY <1>8 DEF Restart, Told
  <1> QED
    BY <1>2, <1>3, <1>4, <1>5, <1>6, <1>7, <1>8 DEF Next

\* Where no elevation has a time limit, no tool becomes callable behind the client's
\* back, however handlers interleave: the change is announced, or about to be, or the
\* client is listing.  (A window that is granted anew, for a time read before the old
\* one closed, is the exception that the hypothesis leaves out: GrantIsAnnounced.)
THEOREM WideningAnnounced == NoTimeLimits => (Spec => []WideningIsAnnounced)
  <1> SUFFICES ASSUME NoTimeLimits PROVE Spec => []WideningIsAnnounced
    OBVIOUS
  <1>1. Init => WideningIsAnnounced
    BY DEF Init, A!Init, A!NoElevation, A!Exposed, A!ExposureSnapshot, A!Snapshot,
           A!ResolveExposure, A!IsActive, WideningIsAnnounced
  <1>2. ThreadInv /\ ServersInv /\ TimelessInv /\ TimelessInv' /\ WideningIsAnnounced
          /\ [Next]_vars => WideningIsAnnounced'
    BY AnnouncedStep
  <1> QED
    BY <1>1, <1>2, ThreadsInductive, ServersInductive, TimelessInductive, PTL DEF Spec
=============================================================================
