----------------------------- MODULE NonceStore -----------------------------
(***************************************************************************)
(* The challenge store behind elevation and per-action confirmation        *)
(* (crates/core/src/elevation.rs): nonces are issued for a client and a    *)
(* purpose, a client signs the challenge, and a signed assertion consumes  *)
(* the nonce.  Every operation runs under the control handler's mutex on   *)
(* the store, with a time the calling thread read BEFORE it took the       *)
(* mutex: `now` is any value the clock has shown since the broker started. *)
(*                                                                         *)
(* Signatures are unforgeable: the only valid ones are those in            *)
(* `signatures`, made by the holder of a key.  Nonces are 256 random bits: *)
(* an issued nonce was never issued before, in any run of the broker.      *)
(***************************************************************************)
EXTENDS Naturals, FiniteSets

CONSTANTS
  Nonce,             \* values of the generator
  Client,            \* client ids
  Key,               \* signing keys
  Holds,             \* the key each client signs with
  Registry,          \* the registered key of each registered client
  Purpose,           \* what a challenge may authorise
  NonceTTL,          \* NONCE_TTL_SECS
  MaxPendingNonces,  \* MAX_PENDING_NONCES
  Malformed,         \* a signature of the wrong length
  MaxClock           \* model bound: the clock stops here

ASSUME KeysAssumption ==
  /\ Holds \in [Client -> Key]
  /\ DOMAIN Registry \subseteq Client
  /\ \A c \in DOMAIN Registry : Registry[c] \in Key

ASSUME LimitsAssumption ==
  /\ NonceTTL \in Nat
  /\ MaxPendingNonces \in Nat
  /\ MaxClock \in Nat

VARIABLES
  clock,       \* seconds since the broker started
  pending,     \* the outstanding challenges
  challenges,  \* history: every challenge issued, in any run
  signatures,  \* every signature made so far, wherever it is kept
  attempts,    \* history: how often each nonce's entry was taken for verification
  accepted     \* history: every assertion verified

vars == <<clock, pending, challenges, signatures, attempts, accepted>>

Challenge == [nonce : Nonce, client : Client, purpose : Purpose]
Pending   == [nonce : Nonce, client : Client, purpose : Purpose, issued_at : Nat]
Signature == [key : Key, nonce : Nonce, client : Client, purpose : Purpose]
Accepted  == [nonce : Nonce, client : Client, purpose : Purpose, now : Nat]

TypeOK ==
  /\ clock \in Nat
  /\ pending \subseteq Pending
  /\ IsFiniteSet(pending)
  /\ challenges \subseteq Challenge
  /\ signatures \subseteq Signature
  /\ attempts \in [Nonce -> Nat]
  /\ accepted \subseteq Accepted

Init ==
  /\ clock = 0
  /\ pending = {}
  /\ challenges = {}
  /\ signatures = {}
  /\ attempts = [n \in Nonce |-> 0]
  /\ accepted = {}

-----------------------------------------------------------------------------
SinceIssue(p, now) == IF now >= p.issued_at THEN now - p.issued_at ELSE 0

Expired(p, now) == SinceIssue(p, now) > NonceTTL

PrunedAtBoundary(now) == {p \in pending : SinceIssue(p, now) < NonceTTL}  \* mutant

Pruned(now) == {p \in pending : SinceIssue(p, now) <= NonceTTL}

ChallengeOf(p) == [nonce |-> p.nonce, client |-> p.client, purpose |-> p.purpose]

\* The bytes a client signs name the nonce, the client and the whole purpose.
ChallengeMessage(n, c, purpose, key) ==
  [key |-> key, nonce |-> n, client |-> c, purpose |-> purpose]

FreshNonces == {n \in Nonce : \A ch \in challenges : ch.nonce # n}

-----------------------------------------------------------------------------
(* NonceStore::issue prunes first, whatever follows: a full store or a     *)
(* failing random generator refuses, and the expired entries are gone.     *)

IssueOneTooMany(c, purpose, now, n) ==   \* mutant: > in place of >=
  LET p == [nonce |-> n, client |-> c, purpose |-> purpose, issued_at |-> now]
  IN  /\ Cardinality(Pruned(now)) <= MaxPendingNonces
      /\ n \in FreshNonces
      /\ pending' = Pruned(now) \union {p}
      /\ challenges' = challenges \union {ChallengeOf(p)}
      /\ UNCHANGED <<clock, signatures, attempts, accepted>>

IssueBackdated(c, purpose, now, n) ==    \* mutant: the deadline, wrapped below 0
  LET p == [nonce |-> n, client |-> c, purpose |-> purpose,
            issued_at |-> now - NonceTTL]
  IN  /\ Cardinality(Pruned(now)) < MaxPendingNonces
      /\ n \in FreshNonces
      /\ pending' = Pruned(now) \union {p}
      /\ challenges' = challenges \union {ChallengeOf(p)}
      /\ UNCHANGED <<clock, signatures, attempts, accepted>>

Issue(c, purpose, now, n) ==
  LET p == [nonce |-> n, client |-> c, purpose |-> purpose, issued_at |-> now]
  IN  /\ Cardinality(Pruned(now)) < MaxPendingNonces
      /\ n \in FreshNonces
      /\ pending' = Pruned(now) \union {p}
      /\ challenges' = challenges \union {ChallengeOf(p)}
      /\ UNCHANGED <<clock, signatures, attempts, accepted>>

IssueRefused(now) ==   \* TooManyPending, or Rng
  /\ pending' = Pruned(now)
  /\ UNCHANGED <<clock, challenges, signatures, attempts, accepted>>

-----------------------------------------------------------------------------
(* NonceStore::verify_and_consume takes the entry out before any check.     *)

VerdictAnyPurpose(p, sig, now) ==   \* mutant: the purpose is not in the message
  CASE Expired(p, now)                   -> "NonceExpired"
    [] p.client \notin DOMAIN Registry   -> "UnknownClient"
    [] sig = Malformed                   -> "Malformed"
    [] \A purpose \in Purpose :
         sig # ChallengeMessage(p.nonce, p.client, purpose, Registry[p.client])
                                         -> "BadSignature"
    [] OTHER                             -> "Ok"

Verdict(p, sig, now) ==
  CASE Expired(p, now)                   -> "NonceExpired"
    [] p.client \notin DOMAIN Registry   -> "UnknownClient"
    [] sig = Malformed                   -> "Malformed"
    [] sig # ChallengeMessage(p.nonce, p.client, p.purpose, Registry[p.client])
                                         -> "BadSignature"
    [] OTHER                             -> "Ok"

ConsumeOnSuccess(p, sig, now) ==   \* mutant: a failed check leaves the entry
  /\ p \in pending
  /\ pending' = IF Verdict(p, sig, now) = "Ok" THEN pending \ {p} ELSE pending
  /\ attempts' = [attempts EXCEPT ![p.nonce] = @ + 1]
  /\ accepted' = IF Verdict(p, sig, now) = "Ok"
                   THEN accepted \union {[nonce |-> p.nonce, client |-> p.client,
                                          purpose |-> p.purpose, now |-> now]}
                   ELSE accepted
  /\ UNCHANGED <<clock, challenges, signatures>>

VerifyWithoutConsuming(p, sig, now) ==   \* mutant: the entry is only read
  /\ p \in pending
  /\ attempts' = [attempts EXCEPT ![p.nonce] = @ + 1]
  /\ accepted' = IF Verdict(p, sig, now) = "Ok"
                   THEN accepted \union {[nonce |-> p.nonce, client |-> p.client,
                                          purpose |-> p.purpose, now |-> now]}
                   ELSE accepted
  /\ UNCHANGED <<clock, pending, challenges, signatures>>

VerifyAndConsume(p, sig, now) ==
  /\ p \in pending
  /\ pending' = pending \ {p}
  /\ attempts' = [attempts EXCEPT ![p.nonce] = @ + 1]
  /\ accepted' = IF Verdict(p, sig, now) = "Ok"
                   THEN accepted \union {[nonce |-> p.nonce, client |-> p.client,
                                          purpose |-> p.purpose, now |-> now]}
                   ELSE accepted
  /\ UNCHANGED <<clock, challenges, signatures>>

-----------------------------------------------------------------------------
(* The environment: clients sign, time passes, the broker restarts.         *)

\* A client signs for the purpose it means to authorise, which need not be the
\* one the nonce was issued for.  Bound: one signature per key and nonce, as
\* one run of the CLI makes.
Sign(c, n, purpose) ==
  /\ \E ch \in challenges : ch.nonce = n
  /\ \A g \in signatures : ~(g.nonce = n /\ g.key = Holds[c])
  /\ signatures' = signatures \union {ChallengeMessage(n, c, purpose, Holds[c])}
  /\ UNCHANGED <<clock, pending, challenges, attempts, accepted>>

Tick ==
  /\ clock < MaxClock
  /\ clock' = clock + 1
  /\ UNCHANGED <<pending, challenges, signatures, attempts, accepted>>

\* Nothing is persisted: the store starts empty and the clock's epoch is new.
Restart ==
  /\ clock' = 0
  /\ pending' = {}
  /\ UNCHANGED <<challenges, signatures, attempts, accepted>>

-----------------------------------------------------------------------------
Next ==
  \/ \E c \in Client, purpose \in Purpose, now \in 0..clock, n \in Nonce :
       Issue(c, purpose, now, n)
  \/ \E now \in 0..clock : IssueRefused(now)
  \/ \E p \in pending, sig \in signatures \union {Malformed}, now \in 0..clock :
       VerifyAndConsume(p, sig, now)
  \/ \E c \in Client, n \in Nonce, purpose \in Purpose : Sign(c, n, purpose)
  \/ Tick
  \/ Restart

Spec == Init /\ [][Next]_vars

-----------------------------------------------------------------------------
(* Properties.                                                              *)

\* A nonce's entry is taken for verification at most once, whatever the
\* outcome of that verification: no replay, and no second guess at a signature.
OneAttempt == \A n \in Nonce : attempts[n] <= 1

\* One challenge authorises at most one thing: two accepted assertions never
\* carry the same nonce, and an accepted nonce is no longer outstanding.
SingleUse ==
  /\ \A a, b \in accepted : a.nonce = b.nonce => a = b
  /\ \A a \in accepted, p \in pending : a.nonce # p.nonce

\* What is accepted is exactly what the broker issued to that client and what
\* the registered key of that client signed: same nonce, client and purpose.
Authentic ==
  \A a \in accepted :
    /\ [nonce |-> a.nonce, client |-> a.client, purpose |-> a.purpose] \in challenges
    /\ a.client \in DOMAIN Registry
    /\ ChallengeMessage(a.nonce, a.client, a.purpose, Registry[a.client]) \in signatures

\* A flood of issue calls cannot grow the store past its cap.
Capped == Cardinality(pending) <= MaxPendingNonces

\* Issuing to one client never drops a challenge another could still use: an
\* entry leaves the store by a verification, a restart, or after its lifetime.
UsableUntilTaken ==
  [][\A p \in pending \ pending' :
       \/ attempts'[p.nonce] > attempts[p.nonce]
       \/ Expired(p, clock)
       \/ Restart]_vars
=============================================================================
