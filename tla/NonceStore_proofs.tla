------------------------- MODULE NonceStore_proofs --------------------------
(* Proofs about NonceStore, for every set of nonces, clients and purposes   *)
(* and every lifetime and cap.                                              *)
EXTENDS NonceStore, FiniteSetTheorems, TLAPS

-----------------------------------------------------------------------------
(* The inductive invariant: what ties the store to the history.             *)

\* An outstanding challenge is one that was issued and never taken, and a
\* nonce has one entry.
PendingUntaken ==
  /\ \A p \in pending : ChallengeOf(p) \in challenges /\ attempts[p.nonce] = 0
  /\ \A p, q \in pending : p.nonce = q.nonce => p = q

\* Only an issued nonce was ever taken, and taken once; what was accepted was
\* taken.
TakenOnce ==
  /\ \A n \in Nonce : attempts[n] # 0 => attempts[n] = 1 /\ n \notin FreshNonces
  /\ \A a \in accepted : attempts[a.nonce] = 1
  /\ \A a, b \in accepted : a.nonce = b.nonce => a = b

IInv == TypeOK /\ PendingUntaken /\ TakenOnce /\ Authentic /\ Capped

-----------------------------------------------------------------------------
LEMMA PrunedFacts ==
  ASSUME TypeOK, NEW now \in Nat
  PROVE  /\ Pruned(now) \subseteq pending
         /\ IsFiniteSet(Pruned(now))
         /\ Cardinality(Pruned(now)) <= Cardinality(pending)
         /\ Cardinality(Pruned(now)) \in Nat
  <1>1. Pruned(now) \subseteq pending
    BY DEF Pruned
  <1>2. IsFiniteSet(pending)
    BY DEF TypeOK
  <1> QED
    BY <1>1, <1>2, FS_Subset, FS_CardinalityType

\* The store's mutex-protected operations, the signers and the clock all keep
\* every variable in its type.
THEOREM TypeCorrect == Spec => []TypeOK
  <1>1. Init => TypeOK
    BY FS_EmptySet DEF Init, TypeOK
  <1>2. TypeOK /\ [Next]_vars => TypeOK'
    <2> SUFFICES ASSUME TypeOK, [Next]_vars PROVE TypeOK'
      OBVIOUS
    <2> USE LimitsAssumption, KeysAssumption
    <2>1. ASSUME NEW c \in Client, NEW purpose \in Purpose, NEW now \in 0..clock,
                 NEW n \in Nonce, Issue(c, purpose, now, n)
          PROVE  TypeOK'
      <3> DEFINE p == [nonce |-> n, client |-> c, purpose |-> purpose, issued_at |-> now]
      <3>0. now \in Nat
        BY DEF TypeOK
      <3>1. p \in Pending /\ ChallengeOf(p) \in Challenge
        BY <3>0 DEF Pending, ChallengeOf, Challenge
      <3>2. Pruned(now) \subseteq pending /\ IsFiniteSet(Pruned(now))
        BY <3>0, PrunedFacts
      <3>3. IsFiniteSet(Pruned(now) \union {p})
        BY <3>2, FS_AddElement
      <3> QED
        BY <2>1, <3>1, <3>2, <3>3 DEF Issue, TypeOK
    <2>2. ASSUME NEW now \in 0..clock, IssueRefused(now) PROVE TypeOK'
      <3>1. now \in Nat
        BY DEF TypeOK
      <3> QED
        BY <2>2, <3>1, PrunedFacts DEF IssueRefused, TypeOK
    <2>3. ASSUME NEW p \in pending, NEW sig \in signatures \union {Malformed},
                 NEW now \in 0..clock, VerifyAndConsume(p, sig, now)
          PROVE  TypeOK'
      <3>1. p \in Pending /\ now \in Nat
        BY DEF TypeOK
      <3>2. IsFiniteSet(pending \ {p})
        BY FS_RemoveElement DEF TypeOK
      <3>3. [nonce |-> p.nonce, client |-> p.client, purpose |-> p.purpose,
             now |-> now] \in Accepted
        BY <3>1 DEF Pending, Accepted
      <3>4. accepted' \subseteq Accepted
        BY <2>3, <3>3 DEF VerifyAndConsume, TypeOK
      <3>5. attempts' \in [Nonce -> Nat]
        BY <2>3, <3>1 DEF VerifyAndConsume, TypeOK, Pending
      <3> QED
        BY <2>3, <3>2, <3>4, <3>5 DEF VerifyAndConsume, TypeOK
    <2>4. ASSUME NEW c \in Client, NEW n \in Nonce, NEW purpose \in Purpose,
                 Sign(c, n, purpose)
          PROVE  TypeOK'
      BY <2>4 DEF Sign, TypeOK, ChallengeMessage, Signature
    <2>5. CASE Tick
      BY <2>5 DEF Tick, TypeOK
    <2>6. CASE Restart
      BY <2>6, FS_EmptySet DEF Restart, TypeOK
    <2>7. CASE UNCHANGED vars
      BY <2>7 DEF vars, TypeOK
    <2> QED
      BY <2>1, <2>2, <2>3, <2>4, <2>5, <2>6, <2>7 DEF Next
  <1> QED
    BY <1>1, <1>2, PTL DEF Spec

\* Nothing is ever taken out of the history, by a restart neither.
LEMMA HistoryGrows ==
  ASSUME [Next]_vars
  PROVE  challenges \subseteq challenges' /\ signatures \subseteq signatures'
           /\ accepted \subseteq accepted'
  BY DEF Next, vars, Issue, IssueRefused, VerifyAndConsume, Sign, Tick, Restart

-----------------------------------------------------------------------------
(* The inductive step of IInv, one lemma per operation that touches the     *)
(* store; signing, ticks and restarts follow.                               *)

LEMMA IssueStep ==
  ASSUME IInv, TypeOK', NEW c \in Client, NEW purpose \in Purpose,
         NEW now \in 0..clock, NEW n \in Nonce, Issue(c, purpose, now, n)
  PROVE  IInv'
  <1> DEFINE p == [nonce |-> n, client |-> c, purpose |-> purpose, issued_at |-> now]
  <1> USE LimitsAssumption
  <1>0. now \in Nat /\ TypeOK
    BY DEF IInv, TypeOK
  <1>1. /\ Pruned(now) \subseteq pending
        /\ IsFiniteSet(Pruned(now))
        /\ Cardinality(Pruned(now)) \in Nat
    BY <1>0, PrunedFacts
  <1>2. /\ pending' = Pruned(now) \union {p}
        /\ challenges' = challenges \union {ChallengeOf(p)}
        /\ UNCHANGED <<clock, signatures, attempts, accepted>>
        /\ n \in FreshNonces
        /\ Cardinality(Pruned(now)) < MaxPendingNonces
    BY DEF Issue
  <1>3. ChallengeOf(p).nonce = n /\ p.nonce = n
    BY DEF ChallengeOf
  <1>4. attempts[n] = 0
    BY <1>2 DEF IInv, TakenOnce
  <1>5. \A q \in pending : q.nonce # n
    <2> SUFFICES ASSUME NEW q \in pending PROVE q.nonce # n
      OBVIOUS
    <2>1. ChallengeOf(q) \in challenges /\ ChallengeOf(q).nonce = q.nonce
      BY DEF IInv, PendingUntaken, ChallengeOf
    <2> QED
      BY <1>2, <2>1 DEF FreshNonces
  <1>6. PendingUntaken'
    <2>1. \A q \in pending' : /\ ChallengeOf(q) \in challenges'
                              /\ attempts'[q.nonce] = 0
      BY <1>1, <1>2, <1>3, <1>4 DEF IInv, PendingUntaken
    <2>2. \A q, r \in pending' : q.nonce = r.nonce => q = r
      BY <1>1, <1>2, <1>3, <1>5 DEF IInv, PendingUntaken
    <2> QED
      BY <2>1, <2>2 DEF PendingUntaken, ChallengeOf
  <1>7. TakenOnce'
    <2>1. \A m \in Nonce : m \notin FreshNonces => m \notin FreshNonces'
      BY <1>2 DEF FreshNonces
    <2> QED
      BY <1>2, <2>1 DEF IInv, TakenOnce
  <1>8. Authentic'
    BY <1>2 DEF IInv, Authentic, ChallengeMessage
  <1>9. Capped'
    <2>0. \A x : /\ Cardinality(Pruned(now) \union {x}) <= Cardinality(Pruned(now)) + 1
                 /\ Cardinality(Pruned(now) \union {x}) \in Nat
      <3> TAKE x
      <3>1. /\ IsFiniteSet(Pruned(now) \union {x})
            /\ \/ Cardinality(Pruned(now) \union {x}) = Cardinality(Pruned(now))
               \/ Cardinality(Pruned(now) \union {x}) = Cardinality(Pruned(now)) + 1
        BY <1>1, FS_AddElement
      <3> QED
        BY <1>1, <3>1
    <2>1. Cardinality(pending') <= Cardinality(Pruned(now)) + 1
      BY <1>2, <2>0
    <2>2. Cardinality(pending') \in Nat
      BY <1>2, <2>0
    <2> QED
      BY <1>1, <1>2, <2>1, <2>2 DEF Capped
  <1> QED
    BY <1>6, <1>7, <1>8, <1>9 DEF IInv

LEMMA VerifyStep ==
  ASSUME IInv, TypeOK', NEW p \in pending, NEW sig \in signatures \union {Malformed},
         NEW now \in 0..clock, VerifyAndConsume(p, sig, now)
  PROVE  IInv'
  <1> DEFINE a == [nonce |-> p.nonce, client |-> p.client, purpose |-> p.purpose,
                   now |-> now]
  <1> USE LimitsAssumption, KeysAssumption
  <1>1. /\ pending' = pending \ {p}
        /\ attempts' = [attempts EXCEPT ![p.nonce] = @ + 1]
        /\ accepted' = IF Verdict(p, sig, now) = "Ok" THEN accepted \union {a} ELSE accepted
        /\ UNCHANGED <<clock, challenges, signatures>>
    BY DEF VerifyAndConsume
  <1>2. p \in Pending /\ p.nonce \in Nonce /\ now \in Nat
    BY DEF IInv, TypeOK, Pending
  <1>3. attempts[p.nonce] = 0 /\ ChallengeOf(p) \in challenges
    BY DEF IInv, PendingUntaken
  <1>4. /\ attempts'[p.nonce] = 1
        /\ \A n \in Nonce : n # p.nonce => attempts'[n] = attempts[n]
    BY <1>1, <1>2, <1>3 DEF IInv, TypeOK
  <1>5. \A b \in accepted : b.nonce \in Nonce /\ b.nonce # p.nonce
    BY <1>3 DEF IInv, TakenOnce, TypeOK, Accepted
  <1>6. PendingUntaken'
    <2>1. \A q \in pending' : q \in pending /\ q.nonce # p.nonce /\ q.nonce \in Nonce
      BY <1>1 DEF IInv, PendingUntaken, TypeOK, Pending
    <2> QED
      BY <1>1, <1>4, <2>1 DEF IInv, PendingUntaken, ChallengeOf
  <1>7. TakenOnce'
    <2>1. p.nonce \notin FreshNonces
      BY <1>3 DEF FreshNonces, ChallengeOf
    <2>2. FreshNonces' = FreshNonces
      BY <1>1 DEF FreshNonces
    <2>3. \A n \in Nonce : attempts'[n] # 0 => attempts'[n] = 1 /\ n \notin FreshNonces'
      BY <1>4, <2>1, <2>2 DEF IInv, TakenOnce
    <2>4. \A b \in accepted' : b \in accepted \/ b = a
      BY <1>1
    <2>5. a.nonce = p.nonce
      OBVIOUS
    <2>6. \A b \in accepted' : attempts'[b.nonce] = 1
      BY <1>4, <1>5, <2>4, <2>5 DEF IInv, TakenOnce
    <2>7. \A b, d \in accepted' : b.nonce = d.nonce => b = d
      BY <1>5, <2>4, <2>5 DEF IInv, TakenOnce
    <2> QED
      BY <2>3, <2>6, <2>7 DEF TakenOnce
  <1>8. Authentic'
    <2>1. CASE Verdict(p, sig, now) = "Ok"
      <3>1. /\ p.client \in DOMAIN Registry
            /\ sig # Malformed
            /\ sig = ChallengeMessage(p.nonce, p.client, p.purpose, Registry[p.client])
        BY <2>1 DEF Verdict
      <3>2. ChallengeMessage(p.nonce, p.client, p.purpose, Registry[p.client])
              \in signatures
        BY <3>1
      <3>3. accepted' = accepted \union {a}
        BY <1>1, <2>1
      <3>4. [nonce |-> a.nonce, client |-> a.client, purpose |-> a.purpose] \in challenges
        BY <1>3 DEF ChallengeOf
      <3>5. ASSUME NEW b \in accepted'
            PROVE  /\ [nonce |-> b.nonce, client |-> b.client, purpose |-> b.purpose]
                        \in challenges
                   /\ b.client \in DOMAIN Registry
                   /\ ChallengeMessage(b.nonce, b.client, b.purpose, Registry[b.client])
                        \in signatures
        <4>1. CASE b \in accepted
          BY <4>1 DEF IInv, Authentic
        <4>2. CASE b = a
          BY <3>1, <3>2, <3>4, <4>2
        <4> QED
          BY <3>3, <4>1, <4>2
      <3> QED
        BY <1>1, <3>5 DEF Authentic, ChallengeMessage
    <2>2. CASE Verdict(p, sig, now) # "Ok"
      BY <1>1, <2>2 DEF IInv, Authentic, ChallengeMessage
    <2> QED
      BY <2>1, <2>2
  <1>9. Capped'
    BY <1>1, FS_RemoveElement, FS_CardinalityType DEF IInv, TypeOK, Capped
  <1> QED
    BY <1>6, <1>7, <1>8, <1>9 DEF IInv

LEMMA Inductive == Spec => []IInv
  <1>1. Init => IInv
    <2> SUFFICES ASSUME Init PROVE IInv
      OBVIOUS
    <2>1. TypeOK
      BY FS_EmptySet DEF Init, TypeOK
    <2> QED
      BY <2>1, FS_EmptySet, LimitsAssumption
      DEF Init, IInv, PendingUntaken, TakenOnce, Authentic, Capped
  <1>2. IInv /\ TypeOK' /\ [Next]_vars => IInv'
    <2> SUFFICES ASSUME IInv, TypeOK', [Next]_vars PROVE IInv'
      OBVIOUS
    <2> USE LimitsAssumption
    <2>1. ASSUME NEW now \in 0..clock, IssueRefused(now) PROVE IInv'
      <3>1. now \in Nat /\ TypeOK
        BY DEF IInv, TypeOK
      <3>2. /\ pending' \subseteq pending
            /\ Cardinality(pending') <= Cardinality(pending)
            /\ Cardinality(pending') \in Nat
            /\ UNCHANGED <<clock, challenges, signatures, attempts, accepted>>
        BY <2>1, <3>1, PrunedFacts DEF IssueRefused
      <3>3. Cardinality(pending) \in Nat
        BY <3>1, FS_CardinalityType DEF TypeOK
      <3>4. Capped'
        BY <3>2, <3>3 DEF IInv, Capped
      <3>5. PendingUntaken' /\ TakenOnce' /\ Authentic'
        BY <3>2 DEF IInv, PendingUntaken, TakenOnce, Authentic, ChallengeOf,
                    FreshNonces, ChallengeMessage
      <3> QED
        BY <3>4, <3>5 DEF IInv
    <2>2. ASSUME NEW c \in Client, NEW n \in Nonce, NEW purpose \in Purpose,
                 Sign(c, n, purpose)
          PROVE  IInv'
      BY <2>2 DEF Sign, IInv, PendingUntaken, TakenOnce, Authentic, Capped,
                  ChallengeOf, FreshNonces
    <2>3. CASE Tick
      BY <2>3 DEF Tick, IInv, PendingUntaken, TakenOnce, Authentic, Capped,
                  ChallengeOf, FreshNonces
    <2>4. CASE Restart
      BY <2>4, FS_EmptySet DEF Restart, IInv, PendingUntaken, TakenOnce, Authentic, Capped,
                  ChallengeOf, FreshNonces
    <2>5. CASE UNCHANGED vars
      BY <2>5 DEF vars, IInv, PendingUntaken, TakenOnce, Authentic, Capped,
                  ChallengeOf, FreshNonces
    <2> QED
      BY <2>1, <2>2, <2>3, <2>4, <2>5, IssueStep, VerifyStep DEF Next
  <1> QED
    BY <1>1, <1>2, TypeCorrect, PTL DEF Spec

-----------------------------------------------------------------------------
(* What follows from the invariant.                                         *)

\* No nonce's entry is ever taken twice, whether or not the first attempt
\* verified (verify_and_consume removes the entry before it checks anything).
THEOREM NoSecondAttempt == Spec => []OneAttempt
  <1>1. IInv => OneAttempt
    BY DEF IInv, TypeOK, TakenOnce, OneAttempt
  <1> QED
    BY <1>1, Inductive, PTL

\* A challenge authorises at most one thing, across restarts too.
THEOREM ChallengeSingleUse == Spec => []SingleUse
  <1>1. IInv => SingleUse
    <2> SUFFICES ASSUME IInv PROVE SingleUse
      OBVIOUS
    <2>1. \A a \in accepted, p \in pending : a.nonce # p.nonce
      BY DEF IInv, TypeOK, Accepted, TakenOnce, PendingUntaken
    <2> QED
      BY <2>1 DEF IInv, TakenOnce, SingleUse
  <1> QED
    BY <1>1, Inductive, PTL

\* Whatever is accepted was issued to that client for that purpose and signed,
\* nonce, client and purpose alike, by the key registered for that client.
THEOREM AcceptedIsAuthentic == Spec => []Authentic
  <1>1. IInv => Authentic
    BY DEF IInv
  <1> QED
    BY <1>1, Inductive, PTL

\* The store never holds more than MAX_PENDING_NONCES entries.
THEOREM StoreIsCapped == Spec => []Capped
  <1>1. IInv => Capped
    BY DEF IInv
  <1> QED
    BY <1>1, Inductive, PTL

\* No operation drops an entry that some thread reading the clock now would
\* still find usable, except the verification that takes it and a restart.
THEOREM UsableChallengeKept == Spec => UsableUntilTaken
  <1>1. IInv /\ [Next]_vars =>
          [\A p \in pending \ pending' :
             \/ attempts'[p.nonce] > attempts[p.nonce]
             \/ Expired(p, clock)
             \/ Restart]_vars
    <2> SUFFICES ASSUME IInv, Next, NEW p \in pending \ pending'
                 PROVE  \/ attempts'[p.nonce] > attempts[p.nonce]
                        \/ Expired(p, clock)
                        \/ Restart
      OBVIOUS
    <2> USE LimitsAssumption
    <2>1. /\ clock \in Nat
          /\ p.nonce \in Nonce /\ p.issued_at \in Nat
          /\ attempts \in [Nonce -> Nat]
      BY DEF IInv, TypeOK, Pending
    <2>2. ASSUME NEW now \in 0..clock, p \notin Pruned(now) PROVE Expired(p, clock)
      BY <2>1, <2>2 DEF Pruned, Expired, SinceIssue
    <2>3. ASSUME NEW c \in Client, NEW purpose \in Purpose, NEW now \in 0..clock,
                 NEW n \in Nonce, Issue(c, purpose, now, n)
          PROVE  Expired(p, clock)
      BY <2>2, <2>3 DEF Issue
    <2>4. ASSUME NEW now \in 0..clock, IssueRefused(now) PROVE Expired(p, clock)
      BY <2>2, <2>4 DEF IssueRefused
    <2>5. ASSUME NEW q \in pending, NEW sig \in signatures \union {Malformed},
                 NEW now \in 0..clock, VerifyAndConsume(q, sig, now)
          PROVE  attempts'[p.nonce] > attempts[p.nonce]
      BY <2>1, <2>5 DEF VerifyAndConsume
    <2>6. ASSUME NEW c \in Client, NEW n \in Nonce, NEW purpose \in Purpose,
                 Sign(c, n, purpose)
          PROVE  FALSE
      BY <2>6 DEF Sign
    <2>7. ~Tick
      BY DEF Tick
    <2> QED
      BY <2>3, <2>4, <2>5, <2>6, <2>7 DEF Next
  <1> QED
    BY <1>1, Inductive, PTL DEF Spec, UsableUntilTaken
=============================================================================
