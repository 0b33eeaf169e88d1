----------------------- MODULE ControlChannel_proofs -----------------------
(***************************************************************************)
(* What mcp-lock reports is what happened, the issuer decides, and a       *)
(* daemon keeps its socket, for any number of daemons and client runs.     *)
(*                                                                         *)
(* The inductive invariant adds to TypeOK, for every run of the client,    *)
(* where its request stands: what a daemon remembers of it is what was     *)
(* parsed (Agreed), a nonce is on its way from the daemon that issued it   *)
(* or was received from there (Nonces), and a request that was carried out *)
(* was carried out once and is answered, ended, or cut off (Progress).     *)
(*                                                                         *)
(* That what was parsed is what the line says (FlagsUnderstood) is an      *)
(* induction over the flags.                                               *)
(***************************************************************************)
EXTENDS ControlChannel, FiniteSetTheorems, WellFoundedInduction, TLAPS

\* A run that has not come to wait for an answer has none, and none has been lost.
Started ==
  \A r \in Run :
    /\ step[r] = "typed" => request[r] = Unread
    /\ step[r] \in {"nonce", "request", "waiting"} => request[r] = Parse(line[r])
    /\ step[r] \in {"nonce", "request", "waiting"} => request[r] \notin {Help, Usage}
    /\ reply[r] # "none" => step[r] = "waiting"
    /\ outcome[r] # "none" => step[r] = "ended"

Agreed ==
  /\ \A d \in Daemon : \A c \in issued[d] : c.purpose = request[c.run]
  /\ \A a \in applied : a.what = request[a.run] /\ request[a.run] = Parse(line[a.run])
  /\ \A r \in Run : reply[r] # "mismatch" /\ outcome[r] # "mismatch"

Nonces ==
  /\ \A r \in Run : reply[r] = "nonce" => nonceOf[r] = NoDaemon
  /\ \A d \in Daemon : \A c \in issued[d] :
       \/ nonceOf[c.run] = d
       \/ nonceOf[c.run] = NoDaemon /\ reply[c.run] = "nonce" /\ peer[c.run] = d

\* A run whose request was carried out has its answer, or will have none.
Answered(r) ==
  \/ reply[r] = "done"
  \/ step[r] = "waiting" /\ reply[r] = "none" /\ phase[peer[r]] = "down"
  \/ step[r] = "ended" /\ outcome[r] \in {"done", "closed"}

Progress ==
  /\ \A a, b \in applied : a.run = b.run => a = b
  /\ \A a \in applied : Answered(a.run) /\ request[a.run] \notin {Unread, Help, Usage}
  /\ \A r \in Run : reply[r] = "done" \/ outcome[r] = "done" => AppliedBy(r) # {}

Inv == TypeOK /\ Started /\ Agreed /\ Nonces /\ Progress /\ IssuerDecides

USE ControlAssumption

-----------------------------------------------------------------------------
(* What the client and the daemon make of a request.                        *)

\* The window a client asks for is the window the daemon reads.
LEMMA AskedIsMeant ==
  ASSUME NEW l, IsSigned(Parse(l)), NEW p \in AskedOf(Parse(l))
  PROVE  p = Parse(l) /\ IsSigned(p)
  <1>. DEFINE flags == SubSeq(l, 3, Len(l))
  <1>1. \A m \in ParseMode(flags) : m = UntilRevoked \/ \E t : m = Duration(t)
    BY DEF ParseMode
  <1>2. CASE Parse(l).cmd = "confirm"
    BY <1>2 DEF AskedOf, IsSigned
  <1>3. CASE Parse(l).cmd = "elevate"
    <2>1. /\ ParseMode(flags) # {}
          /\ Parse(l) = [cmd |-> "elevate", server |-> l[2],
                         mode |-> CHOOSE m \in ParseMode(flags) : TRUE]
      BY <1>3 DEF Parse, Help, Usage, OnServer, OnEvery
    <2>2. Parse(l).mode \in ParseMode(flags)
      BY <2>1
    <2>3. CASE Parse(l).mode = UntilRevoked
      BY <2>1, <2>3 DEF AskedOf, ElevationRequest, RequestedMode, UntilRevoked, IsSigned
    <2>4. CASE \E t : Parse(l).mode = Duration(t)
      BY <2>1, <2>4 DEF AskedOf, ElevationRequest, RequestedMode, Duration, IsSigned
    <2>. QED BY <1>1, <2>2, <2>3, <2>4
  <1>. QED BY <1>2, <1>3 DEF IsSigned

-----------------------------------------------------------------------------
(* The invariant.                                                           *)

LEMMA InitInv == Init => Inv
  <1>. SUFFICES ASSUME Init PROVE Inv
    OBVIOUS
  <1>1. \A r \in Run : line[r] \in Lines[r]
    BY DEF Init
  <1>2. TypeOK
    BY <1>1 DEF Init, TypeOK, Phases, Outcomes
  <1>3. Started /\ Agreed /\ Nonces /\ Progress /\ IssuerDecides
    BY DEF Init, Started, Agreed, Nonces, Progress, IssuerDecides
  <1>. QED BY <1>2, <1>3 DEF Inv

\* A daemon that is coming up disturbs no run of the client: one that is down
\* stays down.
LEMMA ComingUp ==
  ASSUME Inv, TypeOK', UNCHANGED <<issued, clientVars, applied>>,
         \A e \in Daemon : phase[e] = "down" => phase'[e] = "down"
  PROVE  Inv'
  <1>. USE DEF clientVars
  <1>1. Started' /\ Agreed' /\ Nonces' /\ IssuerDecides'
    BY DEF Inv, Started, Agreed, Nonces, IssuerDecides
  <1>2. \A r \in Run : Answered(r) => Answered(r)'
    BY DEF Inv, TypeOK, Answered
  <1>3. Progress'
    BY <1>2 DEF Inv, TypeOK, Progress, AppliedBy
  <1>. QED BY <1>1, <1>3 DEF Inv

LEMMA StepServe ==
  ASSUME Inv, NEW d \in Daemon,
         Load(d) \/ Build(d) \/ BindEndpoint(d) \/ RemoveFile(d) \/ BindSocket(d)
           \/ SetPermissions(d)
  PROVE  Inv'
  <1>. USE DEF Advance, clientVars, Phases
  <1>1. UNCHANGED <<issued, clientVars, applied>>
    BY DEF Load, Build, BindEndpoint, RemoveFile, BindSocket, SetPermissions
  <1>2. \A e \in Daemon : phase[e] = "down" => phase'[e] = "down"
    BY DEF Inv, TypeOK, Load, Build, BindEndpoint, RemoveFile, BindSocket, SetPermissions
  <1>3. TypeOK'
    <2>1. CASE Load(d)
      <3>1. phase' \in [Daemon -> Phases]
        BY <2>1 DEF Inv, TypeOK, Load
      <3>2. listener' \subseteq {e \in Daemon : phase'[e] \in {"named", "serving"}}
        BY <2>1 DEF Inv, TypeOK, Load
      <3>3. UNCHANGED <<endpoint, file, listener>>
        BY <2>1 DEF Load
      <3>. QED BY <1>1, <3>1, <3>2, <3>3 DEF Inv, TypeOK
    <2>2. CASE Build(d)
      <3>1. phase' \in [Daemon -> Phases]
        BY <2>2 DEF Inv, TypeOK, Build
      <3>2. listener' \subseteq {e \in Daemon : phase'[e] \in {"named", "serving"}}
        BY <2>2 DEF Inv, TypeOK, Build
      <3>3. UNCHANGED <<endpoint, file, listener>>
        BY <2>2 DEF Build
      <3>. QED BY <1>1, <3>1, <3>2, <3>3 DEF Inv, TypeOK
    <2>3. CASE BindEndpoint(d)
      <3>1. endpoint' \in [Address -> Daemon \union {NoDaemon}]
        BY <2>3 DEF Inv, TypeOK, BindEndpoint
      <3>2. phase' \in [Daemon -> Phases]
        BY <2>3 DEF Inv, TypeOK, BindEndpoint
      <3>3. listener' \subseteq {e \in Daemon : phase'[e] \in {"named", "serving"}}
        BY <2>3 DEF Inv, TypeOK, BindEndpoint
      <3>4. UNCHANGED <<file, listener>>
        BY <2>3 DEF BindEndpoint
      <3>. QED BY <1>1, <3>1, <3>2, <3>3, <3>4 DEF Inv, TypeOK
    <2>4. CASE RemoveFile(d)
      BY <1>1, <2>4 DEF Inv, TypeOK, RemoveFile
    <2>5. CASE BindSocket(d)
      BY <1>1, <2>5 DEF Inv, TypeOK, BindSocket
    <2>6. CASE SetPermissions(d)
      BY <1>1, <2>6 DEF Inv, TypeOK, SetPermissions
    <2>. QED BY <2>1, <2>2, <2>3, <2>4, <2>5, <2>6
  <1>. QED BY <1>1, <1>2, <1>3, ComingUp

\* A daemon that dies forgets its nonces, and may take answers with it.
LEMMA StepCrash ==
  ASSUME Inv, NEW d \in Daemon, Crash(d)
  PROVE  Inv'
  <1>. USE DEF Crash
  <1>1. PICK unsent \in SUBSET {r \in Run : peer[r] = d} :
          reply' = [r \in Run |-> IF r \in unsent THEN "none" ELSE reply[r]]
    OBVIOUS
  <1>2. TypeOK'
    <2>1. /\ phase' \in [Daemon -> Phases]
          /\ listener' \subseteq {e \in Daemon : phase'[e] \in {"named", "serving"}}
          /\ endpoint' \in [Address -> Daemon \union {NoDaemon}]
      BY DEF Inv, TypeOK, Phases
    <2>2. reply' \in [Run -> {"none", "nonce", "done", "error", "mismatch"}]
      BY <1>1 DEF Inv, TypeOK
    <2>3. DOMAIN issued' = Daemon /\ \A e \in Daemon : issued'[e] \subseteq issued[e]
      BY DEF Inv, TypeOK
    <2>. QED BY <2>1, <2>2, <2>3 DEF Inv, TypeOK
  <1>3. Started' /\ IssuerDecides'
    BY <1>1 DEF Inv, TypeOK, Started, IssuerDecides
  <1>4. Agreed'
    BY <1>1 DEF Inv, TypeOK, Agreed
  <1>5. Nonces'
    BY <1>1 DEF Inv, TypeOK, Nonces
  <1>6. \A r \in Run : Answered(r) => Answered(r)'
    BY <1>1 DEF Inv, TypeOK, Answered, Started
  <1>7. Progress'
    BY <1>1, <1>6 DEF Inv, TypeOK, Progress, AppliedBy
  <1>. QED BY <1>2, <1>3, <1>4, <1>5, <1>7 DEF Inv

-----------------------------------------------------------------------------
(* A daemon serves a request.                                               *)

\* While a request waits to be served nothing has been carried out for it, it is
\* what was parsed, and none of its nonces is on the way.
LEMMA WhenAccepted ==
  ASSUME Inv, NEW d \in Daemon, NEW r \in Run, Accepted(d, r)
  PROVE  /\ step[r] = "waiting" /\ outcome[r] = "none"
         /\ request[r] = Parse(line[r]) /\ request[r] \notin {Unread, Help, Usage}
         /\ \A a \in applied : a.run # r
         /\ \A e \in Daemon : \A c \in issued[e] : c.run = r => nonceOf[r] = e
  <1>1. step[r] = "waiting"
    BY DEF Inv, TypeOK, Accepted
  <1>2. outcome[r] = "none"
    BY <1>1 DEF Inv, Started
  <1>3. request[r] = Parse(line[r]) /\ request[r] \notin {Help, Usage}
    BY <1>1 DEF Inv, Started
  <1>4. request[r] # Unread
    BY <1>3 DEF Unread, Parse, Help, Usage, OnServer, OnEvery
  <1>5. ~Answered(r)
    BY <1>1 DEF Accepted, Answered
  <1>6. \A a \in applied : a.run # r
    BY <1>5 DEF Inv, Progress
  <1>7. \A e \in Daemon : \A c \in issued[e] : c.run = r => nonceOf[r] = e
    BY DEF Inv, Nonces, Accepted
  <1>. QED BY <1>1, <1>2, <1>3, <1>4, <1>6, <1>7

\* An answer other than success.
LEMMA Declined ==
  ASSUME Inv, NEW d \in Daemon, NEW r \in Run, Accepted(d, r),
         NEW what \in {"nonce", "error"}, Answer(r, what),
         what = "nonce" => nonceOf[r] = NoDaemon,
         TypeOK',
         UNCHANGED <<phase, applied, line, request, step, peer, nonceOf, outcome>>,
         \A e \in Daemon : \A c \in issued'[e] :
           c \in issued[e] \/ (e = d /\ c.run = r /\ c.purpose = request[r] /\ what = "nonce")
  PROVE  Inv'
  <1>. USE WhenAccepted DEF Answer
  <1>1. reply' = [reply EXCEPT ![r] = what] /\ reply \in [Run -> {"none", "nonce", "done", "error", "mismatch"}]
    BY DEF Inv, TypeOK
  <1>2. Started' /\ IssuerDecides'
    BY <1>1 DEF Inv, Started, IssuerDecides
  <1>3. Agreed'
    BY <1>1 DEF Inv, TypeOK, Agreed
  <1>4. Nonces'
    BY <1>1 DEF Inv, TypeOK, Nonces, Accepted
  <1>5. \A q \in Run : q # r /\ Answered(q) => Answered(q)'
    BY <1>1 DEF Inv, TypeOK, Answered
  <1>6. Progress'
    BY <1>1, <1>5 DEF Inv, TypeOK, Progress, AppliedBy
  <1>. QED BY <1>2, <1>3, <1>4, <1>6 DEF Inv

\* A request that is carried out: one that is signed, by the issuer of its nonce.
LEMMA CarriedOut ==
  ASSUME Inv, NEW d \in Daemon, NEW r \in Run, Accepted(d, r), CarryOut(d, r, request[r]),
         Signed(r) => nonceOf[r] = d,
         DOMAIN issued' = Daemon, \A e \in Daemon : issued'[e] \subseteq issued[e],
         UNCHANGED <<phase, endpoint, file, listener, line, request, step, peer, nonceOf, outcome>>
  PROVE  Inv'
  <1>. USE WhenAccepted DEF Answer, CarryOut
  <1>. DEFINE new == [daemon |-> d, run |-> r, what |-> request[r]]
  <1>1. /\ reply' = [reply EXCEPT ![r] = "done"]
        /\ reply \in [Run -> {"none", "nonce", "done", "error", "mismatch"}]
        /\ reply' \in [Run -> {"none", "nonce", "done", "error", "mismatch"}]
    BY DEF Inv, TypeOK
  <1>2. applied' = applied \union {new} /\ new.daemon = d /\ new.run = r /\ new.what = request[r]
    OBVIOUS
  <1>3. TypeOK'
    <2>1. \A a \in applied' : a.daemon \in Daemon /\ a.run \in Run
      BY <1>2 DEF Inv, TypeOK
    <2>2. \A e \in Daemon : \A c \in issued'[e] : c.run \in Run /\ IsSigned(c.purpose)
      BY DEF Inv, TypeOK
    <2>. QED BY <1>1, <2>1, <2>2 DEF Inv, TypeOK
  <1>4. Started'
    BY <1>1 DEF Inv, Started
  <1>5. Agreed'
    BY <1>1, <1>2 DEF Inv, TypeOK, Agreed
  <1>6. Nonces'
    BY <1>1 DEF Inv, TypeOK, Nonces, Accepted
  <1>7. \A q \in Run : q # r /\ Answered(q) => Answered(q)'
    BY <1>1 DEF Inv, TypeOK, Answered
  <1>8. Answered(r)'
    BY <1>1 DEF Answered
  <1>9. \A q \in Run : q # r => AppliedBy(q) \subseteq AppliedBy(q)'
    BY <1>2 DEF AppliedBy
  <1>10. AppliedBy(r)' # {}
    <2>1. new \in {b \in applied' : b.run = r}
      BY <1>2
    <2>. HIDE DEF new
    <2>2. new.daemon \in {a.daemon : a \in {b \in applied' : b.run = r}}
      BY <2>1
    <2>. QED BY <2>2 DEF AppliedBy
  <1>11. Progress'
    <2>1. \A a, b \in applied' : a.run = b.run => a = b
      BY <1>2 DEF Inv, Progress
    <2>2. \A a \in applied' : Answered(a.run)' /\ request'[a.run] \notin {Unread, Help, Usage}
      BY <1>2, <1>7, <1>8 DEF Inv, TypeOK, Progress
    <2>3. \A q \in Run : reply'[q] = "done" \/ outcome'[q] = "done" => AppliedBy(q)' # {}
      BY <1>1, <1>9, <1>10 DEF Inv, Progress
    <2>. QED BY <2>1, <2>2, <2>3 DEF Progress
  <1>12. IssuerDecides'
    BY <1>2 DEF Inv, IssuerDecides, Signed
  <1>. QED BY <1>3, <1>4, <1>5, <1>6, <1>11, <1>12 DEF Inv

LEMMA StepServeChallenge ==
  ASSUME Inv, NEW d \in Daemon, NEW r \in Run, ServeChallenge(d, r)
  PROVE  Inv'
  <1>1. Accepted(d, r) /\ AwaitsNonce(r)
    BY DEF ServeChallenge
  <1>2. request[r] = Parse(line[r]) /\ IsSigned(request[r]) /\ nonceOf[r] = NoDaemon
    BY <1>1, WhenAccepted DEF AwaitsNonce, Signed
  <1>3. UNCHANGED <<phase, endpoint, file, listener, line, request, step, peer, nonceOf, outcome, applied>>
    BY DEF ServeChallenge
  <1>4. CASE Answer(r, "error") /\ UNCHANGED issued
    <2>1. TypeOK'
      BY <1>3, <1>4 DEF Inv, TypeOK, Answer
    <2>. QED BY <1>1, <1>3, <1>4, <2>1, Declined
  <1>5. CASE \E p \in AskedOf(request[r]) :
               /\ Answer(r, "nonce")
               /\ issued' = [issued EXCEPT ![d] = @ \union {[run |-> r, purpose |-> p]}]
    <2>1. PICK p \in AskedOf(request[r]) :
            /\ Answer(r, "nonce")
            /\ issued' = [issued EXCEPT ![d] = @ \union {[run |-> r, purpose |-> p]}]
      BY <1>5
    <2>2. p = request[r] /\ IsSigned(p)
      BY <1>2, AskedIsMeant
    <2>3. \A e \in Daemon : \A c \in issued'[e] :
            c \in issued[e] \/ (e = d /\ c.run = r /\ c.purpose = request[r])
      BY <2>1, <2>2 DEF Inv, TypeOK
    <2>4. TypeOK'
      BY <1>3, <2>1, <2>2, <2>3 DEF Inv, TypeOK, Answer
    <2>. QED BY <1>1, <1>2, <1>3, <2>1, <2>3, <2>4, Declined
  <1>. QED BY <1>4, <1>5 DEF ServeChallenge

LEMMA StepServeAssertion ==
  ASSUME Inv, NEW d \in Daemon, NEW r \in Run, ServeAssertion(d, r)
  PROVE  Inv'
  <1>. DEFINE mine   == {c \in issued[d] : c.run = r}
              agreed == {c \in mine : ChallengeMessage(c.purpose) = ChallengeMessage(request[r])}
  <1>1. /\ Accepted(d, r) /\ Signed(r)
        /\ issued' = [issued EXCEPT ![d] = @ \ mine]
        /\ UNCHANGED <<phase, endpoint, file, listener, line, request, step, peer, nonceOf, outcome>>
    BY DEF ServeAssertion
  <1>2. mine = agreed /\ \A c \in mine : c.purpose = request[r]
    BY DEF Inv, Agreed
  <1>3. DOMAIN issued' = Daemon /\ \A e \in Daemon : issued'[e] \subseteq issued[e]
    BY <1>1 DEF Inv, TypeOK
  <1>4. CASE \E c \in agreed : CarryOut(d, r, c.purpose)
    <2>1. CarryOut(d, r, request[r]) /\ nonceOf[r] = d
      BY <1>1, <1>2, <1>4, WhenAccepted
    <2>. QED BY <1>1, <1>3, <2>1, CarriedOut
  <1>5. CASE Answer(r, "error") /\ UNCHANGED applied
    <2>1. \A e \in Daemon : \A c \in issued'[e] : c \in issued[e]
      BY <1>3
    <2>2. TypeOK'
      BY <1>1, <1>3, <1>5, <2>1 DEF Inv, TypeOK, Answer
    <2>. QED BY <1>1, <1>5, <2>1, <2>2, Declined
  <1>. QED BY <1>2, <1>4, <1>5 DEF ServeAssertion

LEMMA StepServeSimple ==
  ASSUME Inv, NEW d \in Daemon, NEW r \in Run, ServeSimple(d, r)
  PROVE  Inv'
  <1>1. /\ Accepted(d, r) /\ ~Signed(r)
        /\ UNCHANGED <<daemonVars, line, request, step, peer, nonceOf, outcome>>
    BY DEF ServeSimple
  <1>2. CASE CarryOut(d, r, request[r])
    <2>1. DOMAIN issued' = Daemon /\ \A e \in Daemon : issued'[e] \subseteq issued[e]
      BY <1>1 DEF daemonVars, Inv, TypeOK
    <2>. QED BY <1>1, <1>2, <2>1, CarriedOut DEF daemonVars
  <1>3. CASE Answer(r, "error") /\ UNCHANGED applied
    <2>1. TypeOK'
      BY <1>1, <1>3 DEF Inv, TypeOK, Answer, daemonVars
    <2>. QED BY <1>1, <1>3, <2>1, Declined DEF daemonVars
  <1>. QED BY <1>2, <1>3 DEF ServeSimple

-----------------------------------------------------------------------------
(* The client.                                                              *)

\* What is known of a run that does nothing but move itself.
LEMMA OthersStay ==
  ASSUME Inv, NEW r \in Run, UNCHANGED <<phase, applied>>,
         \A q \in Run : q # r =>
           UNCHANGED <<request[q], step[q], peer[q], reply[q], outcome[q]>>
  PROVE  \A q \in Run : q # r /\ Answered(q) => Answered(q)'
  BY DEF Answered

\* Before it waits, nothing is known of a run anywhere.
LEMMA WhenIdle ==
  ASSUME Inv, NEW r \in Run, step[r] \in {"typed", "nonce", "request"}
  PROVE  /\ reply[r] = "none" /\ outcome[r] = "none" /\ peer[r] = NoDaemon
         /\ \A a \in applied : a.run # r
         /\ \A d \in Daemon : \A c \in issued[d] : c.run = r => nonceOf[r] = d
  <1>1. reply[r] = "none" /\ outcome[r] = "none" /\ peer[r] = NoDaemon
    BY DEF Inv, TypeOK, Started
  <1>2. \A a \in applied : a.run # r
    BY <1>1 DEF Inv, Progress, Answered
  <1>3. \A d \in Daemon : \A c \in issued[d] : c.run = r => nonceOf[r] = d
    BY <1>1 DEF Inv, Nonces
  <1>. QED BY <1>1, <1>2, <1>3

LEMMA StepReadLine ==
  ASSUME Inv, NEW r \in Run, ReadLine(r)
  PROVE  Inv'
  <1>. DEFINE parsed == Parse(line[r])
  <1>1. /\ step[r] = "typed"
        /\ request' = [request EXCEPT ![r] = parsed]
        /\ UNCHANGED <<daemonVars, line, peer, nonceOf, reply, applied>>
    BY DEF ReadLine
  <1>2. \/ step' = [step EXCEPT ![r] = "ended"] /\ outcome' = [outcome EXCEPT ![r] = "help"]
        \/ step' = [step EXCEPT ![r] = "ended"] /\ outcome' = [outcome EXCEPT ![r] = "usage"]
        \/ /\ parsed \notin {Help, Usage}
           /\ step' = [step EXCEPT ![r] = "nonce"] \/ step' = [step EXCEPT ![r] = "request"]
           /\ UNCHANGED outcome
    BY DEF ReadLine, Ends, Help, Usage
  <1>. HIDE DEF parsed
  <1>3. parsed = Parse(line[r])
    BY DEF parsed
  <1>4. request[r] = Unread
    BY <1>1 DEF Inv, Started
  <1>5. /\ step' \in [Run -> {"typed", "nonce", "request", "waiting", "ended"}]
        /\ outcome' \in [Run -> Outcomes]
        /\ DOMAIN request' = Run
    BY <1>1, <1>2 DEF Inv, TypeOK, Outcomes
  <1>6. \A q \in Run : step'[q] = "waiting" <=> step[q] = "waiting"
    BY <1>1, <1>2 DEF Inv, TypeOK
  <1>7. TypeOK'
    BY <1>1, <1>3, <1>5, <1>6 DEF Inv, TypeOK, daemonVars
  <1>8. Started'
    BY <1>1, <1>2, <1>3, WhenIdle DEF Inv, TypeOK, Started
  <1>9. \A d \in Daemon : \A c \in issued[d] : c.run # r
    <2>1. ~IsSigned(Unread)
      BY DEF Unread, IsSigned
    <2>. QED BY <1>4, <2>1 DEF Inv, TypeOK, Agreed
  <1>10. Agreed'
    <2>1. \A a \in applied : a.run \in Run /\ a.run # r
      BY <1>1, WhenIdle DEF Inv, TypeOK
    <2>2. \A q \in Run : outcome'[q] # "mismatch"
      BY <1>2 DEF Inv, TypeOK, Agreed
    <2>. QED BY <1>1, <1>9, <2>1, <2>2 DEF Inv, TypeOK, Agreed, daemonVars
  <1>11. Nonces' /\ IssuerDecides'
    BY <1>1 DEF Inv, Nonces, IssuerDecides, daemonVars
  <1>12. \A q \in Run : q # r /\ Answered(q) => Answered(q)'
    BY <1>1, <1>2 DEF Inv, TypeOK, Answered, daemonVars
  <1>13. Progress'
    BY <1>1, <1>2, <1>12, WhenIdle DEF Inv, TypeOK, Progress, AppliedBy
  <1>. QED BY <1>7, <1>8, <1>10, <1>11, <1>13 DEF Inv

LEMMA StepConnect ==
  ASSUME Inv, NEW r \in Run, Connect(r)
  PROVE  Inv'
  <1>1. /\ step[r] \in {"nonce", "request"}
        /\ UNCHANGED <<daemonVars, line, request, nonceOf, reply, applied>>
    BY DEF Connect
  <1>2. \/ /\ file \in Daemon
           /\ peer' = [peer EXCEPT ![r] = file]
           /\ step' = [step EXCEPT ![r] = "waiting"]
           /\ UNCHANGED outcome
        \/ /\ step' = [step EXCEPT ![r] = "ended"]
           /\ outcome' = [outcome EXCEPT ![r] = "unreachable"]
           /\ UNCHANGED peer
    BY DEF Connect, Ends, Inv, TypeOK
  <1>3. TypeOK'
    <2>1. peer[r] = NoDaemon
      BY <1>1, WhenIdle
    <2>2. /\ step' \in [Run -> {"typed", "nonce", "request", "waiting", "ended"}]
          /\ peer' \in [Run -> Daemon \union {NoDaemon}]
          /\ outcome' \in [Run -> Outcomes]
      <3>1. CASE /\ file \in Daemon
                 /\ peer' = [peer EXCEPT ![r] = file]
                 /\ step' = [step EXCEPT ![r] = "waiting"]
                 /\ UNCHANGED outcome
        BY <3>1 DEF Inv, TypeOK
      <3>2. CASE /\ step' = [step EXCEPT ![r] = "ended"]
                 /\ outcome' = [outcome EXCEPT ![r] = "unreachable"]
                 /\ UNCHANGED peer
        <4>1. "unreachable" \in Outcomes
          BY DEF Outcomes
        <4>. QED BY <3>2, <4>1 DEF Inv, TypeOK
      <3>. QED BY <1>2, <3>1, <3>2
    <2>3. \A q \in Run : step'[q] = "waiting" <=> peer'[q] # NoDaemon
      BY <1>2, <2>1 DEF Inv, TypeOK
    <2>. QED BY <1>1, <2>2, <2>3 DEF Inv, TypeOK, daemonVars
  <1>4. Started'
    BY <1>1, <1>2, WhenIdle DEF Inv, TypeOK, Started
  <1>5. Agreed' /\ IssuerDecides'
    BY <1>1, <1>2 DEF Inv, TypeOK, Agreed, IssuerDecides, daemonVars
  <1>6. Nonces'
    BY <1>1, <1>2, WhenIdle DEF Inv, TypeOK, Nonces, daemonVars
  <1>7. \A q \in Run : q # r /\ Answered(q) => Answered(q)'
    BY <1>1, <1>2 DEF Inv, TypeOK, Answered, daemonVars
  <1>8. Progress'
    BY <1>1, <1>2, <1>7, WhenIdle DEF Inv, TypeOK, Progress, AppliedBy
  <1>. QED BY <1>3, <1>4, <1>5, <1>6, <1>8 DEF Inv

\* The answer is a nonce: the run goes on to its second half.
LEMMA StepReceiveNonce ==
  ASSUME Inv, NEW r \in Run, Receive(r), reply[r] = "nonce"
  PROVE  Inv'
  <1>1. /\ nonceOf' = [nonceOf EXCEPT ![r] = peer[r]]
        /\ step' = [step EXCEPT ![r] = "request"]
        /\ reply' = [reply EXCEPT ![r] = "none"]
        /\ peer' = [peer EXCEPT ![r] = NoDaemon]
        /\ UNCHANGED <<daemonVars, line, request, outcome, applied>>
    BY DEF Receive
  <1>2. step[r] = "waiting" /\ outcome[r] = "none" /\ nonceOf[r] = NoDaemon
    BY DEF Inv, TypeOK, Started, Nonces
  <1>3. \A a \in applied : a.run # r
    BY <1>2 DEF Inv, Progress, Answered
  <1>4. TypeOK'
    BY <1>1 DEF Inv, TypeOK, daemonVars
  <1>5. Started' /\ Agreed'
    BY <1>1, <1>2 DEF Inv, TypeOK, Started, Agreed, daemonVars
  <1>6. Nonces'
    BY <1>1, <1>2 DEF Inv, TypeOK, Nonces, daemonVars
  <1>7. IssuerDecides'
    BY <1>1, <1>3 DEF Inv, TypeOK, IssuerDecides
  <1>8. \A q \in Run : q # r /\ Answered(q) => Answered(q)'
    BY <1>1 DEF Inv, TypeOK, Answered, daemonVars
  <1>9. Progress'
    BY <1>1, <1>2, <1>3, <1>8 DEF Inv, TypeOK, Progress, AppliedBy
  <1>. QED BY <1>4, <1>5, <1>6, <1>7, <1>9 DEF Inv

\* The run ends: with its answer, or when the connection is closed.
LEMMA StepEnds ==
  ASSUME Inv, NEW r \in Run,
         (Receive(r) /\ reply[r] # "nonce") \/ ReadEof(r)
  PROVE  Inv'
  <1>1. PICK how \in {"done", "refused", "closed"} :
          /\ step' = [step EXCEPT ![r] = "ended"]
          /\ outcome' = [outcome EXCEPT ![r] = how]
          /\ how = "done" <=> reply[r] = "done"
          /\ how = "closed" <=> reply[r] = "none"
    BY DEF Receive, ReadEof, Ends, Inv, TypeOK, Agreed
  <1>2. /\ reply' = [reply EXCEPT ![r] = "none"]
        /\ peer' = [peer EXCEPT ![r] = NoDaemon]
        /\ UNCHANGED <<daemonVars, line, request, nonceOf, applied>>
    <2>1. CASE Receive(r) /\ reply[r] # "nonce"
      BY <2>1 DEF Receive
    <2>2. CASE ReadEof(r)
      <3>1. reply[r] = "none" /\ UNCHANGED reply
        BY <2>2 DEF ReadEof
      <3>2. reply' = [reply EXCEPT ![r] = "none"]
        BY <3>1 DEF Inv, TypeOK
      <3>. QED BY <2>2, <3>2 DEF ReadEof
    <2>. QED BY <2>1, <2>2
  <1>3. step[r] = "waiting" /\ outcome[r] = "none" /\ reply[r] # "nonce"
    BY DEF Receive, ReadEof, Inv, TypeOK, Started
  <1>4. TypeOK'
    BY <1>1, <1>2 DEF Inv, TypeOK, daemonVars, Outcomes
  <1>5. Started' /\ IssuerDecides'
    BY <1>1, <1>2, <1>3 DEF Inv, TypeOK, Started, IssuerDecides
  <1>6. Agreed'
    BY <1>1, <1>2 DEF Inv, TypeOK, Agreed, daemonVars
  <1>7. Nonces'
    BY <1>1, <1>2, <1>3 DEF Inv, TypeOK, Nonces, daemonVars
  <1>8. \A q \in Run : q # r /\ Answered(q) => Answered(q)'
    BY <1>1, <1>2 DEF Inv, TypeOK, Answered, daemonVars
  <1>9. Answered(r) => Answered(r)'
    BY <1>1, <1>2, <1>3 DEF Inv, TypeOK, Answered
  <1>10. Progress'
    BY <1>1, <1>2, <1>8, <1>9 DEF Inv, TypeOK, Progress, AppliedBy
  <1>. QED BY <1>4, <1>5, <1>6, <1>7, <1>10 DEF Inv

LEMMA Inductive ==
  ASSUME Inv, [Next]_vars
  PROVE  Inv'
  <1>1. CASE \E d \in Daemon : \/ Load(d) \/ Build(d) \/ BindEndpoint(d) \/ RemoveFile(d)
                             \/ BindSocket(d) \/ SetPermissions(d)
    BY <1>1, StepServe
  <1>2. CASE \E d \in Daemon : Crash(d)
    BY <1>2, StepCrash
  <1>3. CASE \E d \in Daemon : \E r \in Run : Serve(d, r)
    BY <1>3, StepServeChallenge, StepServeAssertion, StepServeSimple DEF Serve
  <1>4. CASE \E r \in Run : Client(r)
    BY <1>4, StepReadLine, StepConnect, StepReceiveNonce, StepEnds DEF Client
  <1>5. CASE UNCHANGED vars
    BY <1>5 DEF vars, daemonVars, clientVars, Inv, TypeOK, Started, Agreed, Nonces, Progress,
                Answered, AppliedBy, IssuerDecides
  <1>. QED BY <1>1, <1>2, <1>3, <1>4, <1>5 DEF Next

THEOREM Invariant == Spec => []Inv
  BY InitInv, Inductive, PTL DEF Spec

-----------------------------------------------------------------------------
(* The theorems.                                                            *)

\* The state keeps its types.
THEOREM TypeCorrect == Spec => []TypeOK
  <1>1. Inv => TypeOK
    BY DEF Inv
  <1>. QED BY <1>1, Invariant, PTL

\* An assertion is carried out by the daemon that issued its nonce and by no
\* other, however daemons die and start between the two connections.
THEOREM OnlyTheIssuer == Spec => []IssuerDecides
  <1>1. Inv => IssuerDecides
    BY DEF Inv
  <1>. QED BY <1>1, Invariant, PTL

-----------------------------------------------------------------------------
(* parse_mode reads what the flags mean.  An induction over the words, as   *)
(* the absence of a shortest prefix of which it is false.                   *)

NatOrder == {ss \in Nat \X Nat : ss[1] < ss[2]}

LEMMA NatOrderWellFounded == IsWellFoundedOn(NatOrder, Nat)
  BY NatLessThanWellFounded DEF OpToRel, NatOrder

LEMMA Shortest ==
  ASSUME NEW T, T \subseteq Nat, T # {}
  PROVE  \E n \in T : \A m \in T : n <= m
  <1>0. \E n \in T : \A m \in T : ~(<<m, n>> \in NatOrder)
    BY NatOrderWellFounded, WFMin, Zenon
  <1>1. PICK n \in T : \A m \in T : ~(<<m, n>> \in NatOrder)
    BY <1>0, Zenon
  <1>2. \A m \in T : m \in Nat /\ n \in Nat /\ ~(m < n)
    BY <1>1 DEF NatOrder
  <1>. QED BY <1>2

\* What one word makes of what was read before it.
Reading(reads, word) == {ReadFlag(r, word) : r \in {r \in reads : Acceptable(r, word)}}

\* The fold over the first n words: g has its values for all sets of places.
Folded(flags, n, g) ==
  [s \in SUBSET (1..n) |->
     IF s = {} THEN {NothingRead} ELSE Reading(g[s \ {Max(s)}], flags[Max(s)])]

LEMMA Largest ==
  ASSUME NEW n \in Nat, NEW s \in SUBSET (1..n), s # {}
  PROVE  Max(s) \in s /\ \A i \in s : i <= Max(s)
  <1>1. \E m \in s : \A i \in s : i <= m
    <2>. DEFINE T == {n - i : i \in s}
    <2>1. T \subseteq Nat /\ T # {}
      <3>1. \A i \in s : i \in 1..n /\ n - i \in Nat
        OBVIOUS
      <3>. QED BY <3>1
    <2>2. PICK m \in T : \A k \in T : m <= k
      BY <2>1, Shortest
    <2>3. PICK j \in s : m = n - j
      BY <2>2
    <2>4. \A i \in s : n - i \in T
      OBVIOUS
    <2>. HIDE DEF T
    <2>. QED BY <2>2, <2>3, <2>4
  <1>. QED BY <1>1 DEF Max

LEMMA FoldExists ==
  ASSUME NEW flags
  PROVE  \A n \in Nat : \E g : g = Folded(flags, n, g)
  <1>. DEFINE Bad == {n \in Nat : ~ \E g : g = Folded(flags, n, g)}
  <1>. SUFFICES ASSUME Bad # {} PROVE FALSE
    OBVIOUS
  <1>1. PICK n \in Bad : \A m \in Bad : n <= m
    BY Shortest
  <1>2. n # 0
    <2>. DEFINE g == [s \in SUBSET (1..0) |-> {NothingRead}]
    <2>1. g = Folded(flags, 0, g)
      BY DEF Folded
    <2>. QED BY <2>1, <1>1
  <1>3. n - 1 \in Nat /\ n \in Nat /\ n - 1 \notin Bad
    BY <1>1, <1>2
  <1>4. PICK g : g = Folded(flags, n - 1, g)
    BY <1>3
  <1>. DEFINE h == [s \in SUBSET (1..n) |->
                      IF n \in s THEN Reading(g[s \ {n}], flags[n]) ELSE g[s]]
  <1>5. ASSUME NEW s \in SUBSET (1..n)
        PROVE  h[s] = IF s = {} THEN {NothingRead}
                                ELSE Reading(h[s \ {Max(s)}], flags[Max(s)])
    <2>1. CASE n \in s
      <3>1. Max(s) = n
        <4>1. Max(s) \in 1..n /\ n <= Max(s)
          BY <2>1, <1>3, Largest
        <4>. QED BY <4>1, <1>3
      <3>2. s \ {n} \in SUBSET (1..n) /\ n \notin s \ {n}
        OBVIOUS
      <3>. QED BY <2>1, <3>1, <3>2
    <2>2. CASE n \notin s /\ s # {}
      <3>1. s \in SUBSET (1..n - 1)
        BY <2>2, <1>3
      <3>2. Max(s) \in s
        BY <2>2, <1>3, Largest
      <3>3. s \ {Max(s)} \in SUBSET (1..n) /\ n \notin s \ {Max(s)}
        BY <2>2
      <3>4. g[s] = Reading(g[s \ {Max(s)}], flags[Max(s)])
        BY <1>4, <2>2, <3>1 DEF Folded
      <3>. QED BY <2>2, <3>3, <3>4
    <2>3. CASE s = {}
      <3>1. g[s] = {NothingRead}
        BY <1>3, <1>4, <2>3 DEF Folded
      <3>. QED BY <2>3, <3>1
    <2>. QED BY <2>1, <2>2, <2>3
  <1>6. h = Folded(flags, n, h)
    BY <1>5 DEF Folded
  <1>. QED BY <1>1, <1>6

\* What comes of the flags, when the line ends there.
Asked(reads) == {IF r.until THEN UntilRevoked ELSE Duration(r.ttl) : r \in {r \in reads : ~r.wants}}

LEMMA ParseModeFolds ==
  ASSUME NEW flags \in Seq(STRING)
  PROVE  \E g : /\ g = Folded(flags, Len(flags), g)
                /\ ParseMode(flags) = Asked(g[1..Len(flags)])
  <1>. DEFINE g == CHOOSE g : g = Folded(flags, Len(flags), g)
  <1>1. g = Folded(flags, Len(flags), g)
    BY FoldExists
  <1>2. DOMAIN flags = 1..Len(flags)
    OBVIOUS
  <1>3. ParseMode(flags) = Asked(g[1..Len(flags)])
    BY ONLY <1>2 DEF ParseMode, FoldLeft, MapThenFoldSet, Folded, Reading, Asked
  <1>. QED BY <1>1, <1>3

ReadState == [ttl : Nat, until : BOOLEAN, wants : BOOLEAN]

\* The first n words are what flags may be; the values among them, and the last one.
Right(flags, n) ==
  \A i \in 1..n : IF IsValue(flags, i) THEN flags[i] \in DOMAIN Numeral
                  ELSE flags[i] \in {"--until-revoked", "--ttl"}
Values(flags, n) == {i \in 1..n : IsValue(flags, i)}
Secs(flags, n) == IF Values(flags, n) = {} THEN DefaultTtlSecs
                  ELSE Numeral[flags[Max(Values(flags, n))]]
UntilSeen(flags, n) == \E i \in 1..n : flags[i] = "--until-revoked"

\* This is what has been read of them.
ReadsAs(flags, n, r) ==
  /\ r \in ReadState
  /\ r.ttl = Secs(flags, n)
  /\ r.until <=> UntilSeen(flags, n)
  /\ r.wants <=> IsValue(flags, n + 1)

Reads(flags, n, reads) ==
  /\ Right(flags, n) => \E r : reads = {r} /\ ReadsAs(flags, n, r)
  /\ ~Right(flags, n) => reads = {}

LEMMA NothingReadYet == ASSUME NEW flags PROVE Reads(flags, 0, {NothingRead})
  <1>1. Right(flags, 0) /\ Values(flags, 0) = {} /\ ~UntilSeen(flags, 0)
    BY DEF Right, Values, UntilSeen
  <1>2. ReadsAs(flags, 0, NothingRead)
    BY <1>1 DEF ReadsAs, NothingRead, ReadState, Secs, DefaultTtlSecs, IsValue
  <1>. QED BY <1>1, <1>2 DEF Reads

\* One more word: a value, if one is wanted, or else a flag.
LEMMA OneMoreWord ==
  ASSUME NEW flags, NEW n \in Nat, NEW r, ReadsAs(flags, n, r), Right(flags, n + 1)
  PROVE  /\ Acceptable(r, flags[n + 1])
         /\ ReadsAs(flags, n + 1, ReadFlag(r, flags[n + 1]))
  <1>. DEFINE w == flags[n + 1]
              q == ReadFlag(r, w)
  <1>1. IF r.wants THEN w \in DOMAIN Numeral ELSE w \in {"--until-revoked", "--ttl"}
    BY DEF Right, ReadsAs
  <1>2. IsValue(flags, n + 2) <=> w = "--ttl"
    BY DEF IsValue
  <1>3. UntilSeen(flags, n + 1) <=> UntilSeen(flags, n) \/ w = "--until-revoked"
    BY DEF UntilSeen
  <1>4. CASE r.wants
    <2>1. w \in DOMAIN Numeral /\ w # "--ttl" /\ w # "--until-revoked" /\ Numeral[w] \in Nat
      BY <1>1, <1>4, NumeralAssumption
    <2>2. q = [r EXCEPT !.ttl = Numeral[w], !.wants = FALSE]
      BY <1>4 DEF ReadFlag
    <2>3. q \in ReadState /\ q.ttl = Numeral[w] /\ q.until = r.until /\ ~q.wants
      BY <2>1, <2>2 DEF ReadsAs, ReadState
    <2>4. n + 1 \in Values(flags, n + 1) /\ Values(flags, n + 1) \subseteq 1..n + 1
      BY <1>4 DEF Values, ReadsAs
    <2>5. Max(Values(flags, n + 1)) = n + 1
      <3>1. /\ Max(Values(flags, n + 1)) \in 1..n + 1
            /\ n + 1 <= Max(Values(flags, n + 1))
        <4>1. /\ Values(flags, n + 1) \in SUBSET (1..n + 1) /\ n + 1 \in Nat
              /\ Values(flags, n + 1) # {}
          BY <2>4
        <4>2. /\ Max(Values(flags, n + 1)) \in Values(flags, n + 1)
              /\ \A i \in Values(flags, n + 1) : i <= Max(Values(flags, n + 1))
          BY ONLY <4>1, Largest
        <4>. QED BY <2>4, <4>2
      <3>. QED BY <3>1
    <2>6. q.ttl = Secs(flags, n + 1)
      BY <2>3, <2>4, <2>5 DEF Secs
    <2>7. Acceptable(r, w)
      BY <1>4, <2>1 DEF Acceptable
    <2>. HIDE DEF q
    <2>. QED BY <1>2, <1>3, <2>1, <2>3, <2>6, <2>7 DEF ReadsAs, q
  <1>5. CASE ~r.wants
    <2>1. Values(flags, n + 1) = Values(flags, n)
      BY <1>5 DEF Values, ReadsAs
    <2>2. Secs(flags, n + 1) = Secs(flags, n)
      BY <2>1 DEF Secs
    <2>3. Acceptable(r, w)
      BY <1>1, <1>5 DEF Acceptable
    <2>4. CASE w = "--ttl"
      <3>1. q = [r EXCEPT !.wants = TRUE]
        BY <1>5, <2>4 DEF ReadFlag
      <3>2. q \in ReadState /\ q.ttl = r.ttl /\ q.until = r.until /\ q.wants
        BY <3>1 DEF ReadsAs, ReadState
      <3>. HIDE DEF q
      <3>. QED BY <1>2, <1>3, <2>2, <2>3, <2>4, <3>2 DEF ReadsAs, q
    <2>5. CASE w = "--until-revoked"
      <3>1. q = [r EXCEPT !.until = TRUE]
        BY <1>5, <2>5 DEF ReadFlag
      <3>2. q \in ReadState /\ q.ttl = r.ttl /\ q.until /\ q.wants = r.wants
        BY <3>1 DEF ReadsAs, ReadState
      <3>. HIDE DEF q
      <3>. QED BY <1>2, <1>3, <1>5, <2>2, <2>3, <2>5, <3>2 DEF ReadsAs, q
    <2>. QED BY <1>1, <1>5, <2>4, <2>5
  <1>. QED BY <1>4, <1>5

LEMMA ReadingStep ==
  ASSUME NEW flags, NEW n \in Nat, NEW reads, Reads(flags, n, reads)
  PROVE  Reads(flags, n + 1, Reading(reads, flags[n + 1]))
  <1>. DEFINE w == flags[n + 1]
  <1>0. Right(flags, n + 1) =>
          Right(flags, n) /\ IF IsValue(flags, n + 1) THEN w \in DOMAIN Numeral
                             ELSE w \in {"--until-revoked", "--ttl"}
    BY DEF Right
  <1>1. CASE Right(flags, n + 1)
    <2>1. PICK r : reads = {r} /\ ReadsAs(flags, n, r)
      BY <1>0, <1>1 DEF Reads
    <2>2. Acceptable(r, w) /\ ReadsAs(flags, n + 1, ReadFlag(r, w))
      BY <1>1, <2>1, OneMoreWord
    <2>3. Reading(reads, w) = {ReadFlag(r, w)}
      BY <2>1, <2>2 DEF Reading
    <2>. QED BY <1>1, <2>2, <2>3 DEF Reads
  <1>2. CASE ~Right(flags, n + 1) /\ Right(flags, n)
    <2>1. PICK r : reads = {r} /\ ReadsAs(flags, n, r)
      BY <1>2 DEF Reads
    <2>2. ~Acceptable(r, w)
      <3>1. \E i \in 1..n + 1 : ~ IF IsValue(flags, i) THEN flags[i] \in DOMAIN Numeral
                                  ELSE flags[i] \in {"--until-revoked", "--ttl"}
        BY <1>2 DEF Right
      <3>2. ~ IF IsValue(flags, n + 1) THEN w \in DOMAIN Numeral
              ELSE w \in {"--until-revoked", "--ttl"}
        BY <1>2, <3>1 DEF Right
      <3>. QED BY <2>1, <3>2 DEF Acceptable, ReadsAs
    <2>3. Reading(reads, w) = {}
      BY <2>1, <2>2 DEF Reading
    <2>. QED BY <1>2, <2>3 DEF Reads
  <1>3. CASE ~Right(flags, n + 1) /\ ~Right(flags, n)
    <2>1. Reading(reads, w) = {}
      BY <1>3 DEF Reads, Reading
    <2>. QED BY <1>3, <2>1 DEF Reads
  <1>. QED BY <1>1, <1>2, <1>3

LEMMA PrefixesRead ==
  ASSUME NEW flags, NEW len \in Nat, NEW g, g = Folded(flags, len, g)
  PROVE  \A n \in 0..len : Reads(flags, n, g[1..n])
  <1>. DEFINE Bad == {n \in 0..len : ~Reads(flags, n, g[1..n])}
  <1>. SUFFICES ASSUME Bad # {} PROVE FALSE
    OBVIOUS
  <1>0. Bad \subseteq Nat
    OBVIOUS
  <1>1. PICK n \in Bad : \A m \in Bad : n <= m
    BY <1>0, Shortest
  <1>2. n # 0
    <2>1. g[1..0] = {NothingRead}
      BY DEF Folded
    <2>. QED BY <1>1, <2>1, NothingReadYet
  <1>3. n - 1 \in 0..len /\ n - 1 \notin Bad /\ n \in 1..len
    BY <1>1, <1>2
  <1>4. Reads(flags, n - 1, g[1..n - 1])
    BY <1>3
  <1>5. g[1..n] = Reading(g[1..n - 1], flags[n])
    <2>1. Max(1..n) \in 1..n /\ n <= Max(1..n)
      <3>1. n \in Nat /\ 1..n \in SUBSET (1..n) /\ 1..n # {} /\ n \in 1..n
        BY <1>3
      <3>2. Max(1..n) \in 1..n /\ \A i \in 1..n : i <= Max(1..n)
        BY ONLY <3>1, Largest
      <3>. QED BY <3>1, <3>2
    <2>2. Max(1..n) = n /\ (1..n) \ {n} = 1..n - 1 /\ 1..n # {} /\ 1..n \in SUBSET (1..len)
      BY <1>3, <2>1
    <2>. QED BY <2>2 DEF Folded
  <1>6. Reads(flags, n, g[1..n])
    <2>1. n - 1 \in Nat /\ (n - 1) + 1 = n
      BY <1>3
    <2>. QED BY <1>4, <1>5, <2>1, ReadingStep
  <1>. QED BY <1>1, <1>6

\* parse_mode reads what the flags mean, however many there are: each --ttl takes the
\* word after it, the last one counts, and --until-revoked goes before any.
THEOREM FlagsUnderstood ==
  \A flags \in Seq(STRING) : ParseMode(flags) = ModeMeant(flags)
  <1>. SUFFICES ASSUME NEW flags \in Seq(STRING) PROVE ParseMode(flags) = ModeMeant(flags)
    OBVIOUS
  <1>. DEFINE len == Len(flags)
  <1>0. len \in Nat /\ DOMAIN flags = 1..len /\ (flags = <<>> <=> len = 0)
    OBVIOUS
  <1>1. PICK g : g = Folded(flags, len, g) /\ ParseMode(flags) = Asked(g[1..len])
    BY ParseModeFolds
  <1>2. Reads(flags, len, g[1..len])
    <2>. HIDE DEF len
    <2>1. \A n \in 0..len : Reads(flags, n, g[1..n])
      BY <1>0, <1>1, PrefixesRead
    <2>2. len \in 0..len
      BY <1>0
    <2>. QED BY <2>1, <2>2, Zenon
  <1>3. WellFormed(flags) <=> Right(flags, len) /\ ~IsValue(flags, len + 1)
    <2>1. IsValue(flags, len + 1) <=> len > 0 /\ flags[len] = "--ttl"
      BY <1>0 DEF IsValue
    <2>2. Right(flags, len) <=>
            \A i \in DOMAIN flags :
              IF IsValue(flags, i) THEN flags[i] \in DOMAIN Numeral
              ELSE flags[i] \in {"--until-revoked", "--ttl"}
      BY <1>0 DEF Right
    <2>3. (flags # <<>> => flags[Len(flags)] # "--ttl") <=> ~IsValue(flags, len + 1)
      BY <1>0, <2>1
    <2>. QED BY <2>2, <2>3 DEF WellFormed
  <1>4. Values(flags, len) = {i \in DOMAIN flags : IsValue(flags, i)}
    BY <1>0 DEF Values
  <1>5. UntilSeen(flags, len) <=> "--until-revoked" \in {flags[i] : i \in DOMAIN flags}
    BY <1>0 DEF UntilSeen
  <1>. HIDE DEF len
  <1>6. ASSUME Values(flags, len) # {}
        PROVE  Max(Values(flags, len)) = CHOOSE i \in Values(flags, len) :
                                           \A j \in Values(flags, len) : j <= i
    <2>1. Values(flags, len) \subseteq 1..len
      BY DEF Values
    <2>2. /\ Max(Values(flags, len)) \in Values(flags, len)
          /\ \A i \in Values(flags, len) : i <= Max(Values(flags, len))
      BY <1>0, <1>6, <2>1, Largest
    <2>. QED BY <1>0, <2>1, <2>2
  <1>7. CASE ~Right(flags, len)
    <2>1. g[1..len] = {}
      BY <1>2, <1>7 DEF Reads
    <2>2. ParseMode(flags) = {}
      BY <1>1, <2>1 DEF Asked
    <2>. QED BY <1>3, <1>7, <2>2 DEF ModeMeant
  <1>8. CASE Right(flags, len)
    <2>1. PICK r : g[1..len] = {r} /\ ReadsAs(flags, len, r)
      BY <1>2, <1>8 DEF Reads
    <2>2. ParseMode(flags) = IF r.wants THEN {}
                             ELSE {IF r.until THEN UntilRevoked ELSE Duration(r.ttl)}
      BY <1>1, <2>1 DEF Asked
    <2>3. CASE r.wants
      BY <1>3, <1>8, <2>1, <2>2, <2>3 DEF ModeMeant, ReadsAs
    <2>4. CASE ~r.wants
      <3>1. WellFormed(flags)
        BY <1>3, <1>8, <2>1, <2>4 DEF ReadsAs
      <3>2. CASE r.until
        BY <1>5, <2>1, <2>2, <2>4, <3>1, <3>2 DEF ModeMeant, ReadsAs
      <3>3. CASE ~r.until
        BY <1>4, <1>5, <1>6, <2>1, <2>2, <2>4, <3>1, <3>3 DEF ModeMeant, ReadsAs, Secs
      <3>. QED BY <3>2, <3>3
    <2>. QED BY <2>3, <2>4
  <1>. QED BY <1>7, <1>8

LEMMA RequestIsAsked ==
  ASSUME NEW l \in Seq(STRING), Parse(l) \notin {Help, Usage}
  PROVE  Asks(l, Parse(l))
  <1>. DEFINE flags == SubSeq(l, 3, Len(l))
              command == IF Len(l) >= 1 THEN l[1] ELSE "--help"
  <1>0. flags \in Seq(STRING)
    <2>1. CASE 3 <= Len(l)
      BY <2>1
    <2>2. CASE Len(l) < 3
      BY <2>2
    <2>. QED BY <2>1, <2>2
  <1>1. command = l[1]
    <2>1. command = "--help" => Parse(l) = Help
      BY DEF Parse, OnServer, OnEvery
    <2>. QED BY <2>1
  <1>2. CASE command = "elevate"
    <2>1. /\ ParseMode(flags) # {}
          /\ Parse(l) = [cmd |-> "elevate", server |-> l[2],
                         mode |-> CHOOSE m \in ParseMode(flags) : TRUE]
      BY <1>2 DEF Parse, OnServer, OnEvery
    <2>2. Parse(l).mode \in ModeMeant(flags)
      <3>1. Parse(l).mode \in ParseMode(flags)
        BY <2>1
      <3>2. ParseMode(flags) = ModeMeant(flags)
        BY <1>0, FlagsUnderstood
      <3>. QED BY <3>1, <3>2
    <2>3. \A m, n \in ModeMeant(flags) : m = n
      BY DEF ModeMeant
    <2>4. ModeMeant(flags) = {Parse(l).mode}
      BY <2>2, <2>3
    <2>. QED BY <1>1, <1>2, <2>1, <2>4 DEF Asks
  <1>3. CASE command = "confirm"
    BY <1>1, <1>3 DEF Parse, Asks, OnServer, OnEvery
  <1>4. CASE command \in OnServer
    BY <1>1, <1>4 DEF Parse, Asks, OnServer, OnEvery
  <1>5. CASE command \in OnEvery
    BY <1>1, <1>5 DEF Parse, Asks, OnServer, OnEvery
  <1>6. CASE command = "logs"
    BY <1>1, <1>6 DEF Parse, Asks, OnServer, OnEvery
  <1>. QED BY <1>2, <1>3, <1>4, <1>5, <1>6 DEF Parse

\* A set that holds one element at most.
LEMMA AtMostOne ==
  ASSUME NEW S, \A a, b \in S : a = b
  PROVE  Cardinality(S) <= 1
  <1>1. CASE S = {}
    <2>1. Cardinality(S) = 0
      BY <1>1, FS_EmptySet
    <2>. QED BY <2>1
  <1>2. CASE \E x : S = {x}
    <2>1. Cardinality(S) = 1
      BY <1>2, FS_Singleton
    <2>. QED BY <2>1
  <1>. QED BY <1>1, <1>2

\* What mcp-lock reports is what happened: a success was carried out, once and as
\* typed; a refusal was not; the two halves of a signed run agree.
THEOREM ReportsAreTrue == Spec => []ReportIsTrue
  <1>1. Inv => ReportIsTrue
    <2>. SUFFICES ASSUME Inv, NEW r \in Run
                  PROVE  /\ Cardinality({a \in applied : a.run = r}) <= 1
                         /\ \A a \in applied : a.run = r => Asks(line[r], a.what)
                         /\ outcome[r] = "done" => AppliedBy(r) # {}
                         /\ outcome[r] \in {"help", "usage", "refused", "unreachable"}
                              => AppliedBy(r) = {}
                         /\ outcome[r] # "mismatch"
      BY DEF ReportIsTrue
    <2>1. Cardinality({a \in applied : a.run = r}) <= 1
      BY AtMostOne DEF Inv, Progress
    <2>2. ASSUME NEW a \in applied, a.run = r
          PROVE  Asks(line[r], a.what)
      <3>1. /\ a.what = Parse(line[r]) /\ Parse(line[r]) \notin {Help, Usage}
            /\ line[r] \in Seq(STRING)
        BY <2>2 DEF Inv, TypeOK, Agreed, Progress
      <3>. QED BY <3>1, RequestIsAsked
    <2>3. outcome[r] = "done" => AppliedBy(r) # {}
      BY DEF Inv, Progress
    <2>4. ASSUME NEW a \in applied, a.run = r
          PROVE  outcome[r] \in {"none", "done", "closed"}
      BY <2>4 DEF Inv, TypeOK, Started, Progress, Answered, Outcomes
    <2>5. outcome[r] # "mismatch"
      BY DEF Inv, Agreed
    <2>. QED BY <2>1, <2>2, <2>3, <2>4, <2>5 DEF AppliedBy
  <1>. QED BY <1>1, Invariant, PTL

-----------------------------------------------------------------------------
(* The socket.  The address is the lock: a daemon that got as far as to     *)
(* bind it has it to itself for as long as it lives, and the socket file    *)
(* is touched by no other.                                                  *)

SameAddress == \A d, e \in Daemon : Listen[d] = Listen[e]

HasAddress ==
  \A d \in Daemon :
    phase[d] \in {"bound", "removed", "named", "serving"} => endpoint[Listen[d]] = d

HasFile == \A d \in listener : file = d

KeptInv == TypeOK /\ HasAddress /\ HasFile

LEMMA KeptInductive ==
  ASSUME SameAddress, KeptInv, TypeOK', [Next]_vars
  PROVE  KeptInv'
  <1>. USE DEF KeptInv, HasAddress, HasFile, Advance, Phases
  <1>1. ASSUME NEW d \in Daemon, Load(d) \/ Build(d)
        PROVE  KeptInv'
    BY <1>1 DEF TypeOK, Load, Build
  <1>2. ASSUME NEW d \in Daemon, BindEndpoint(d)
        PROVE  KeptInv'
    <2>1. CASE endpoint[Listen[d]] = NoDaemon
      BY <1>2, <2>1 DEF TypeOK, BindEndpoint, SameAddress
    <2>2. CASE endpoint[Listen[d]] # NoDaemon
      BY <1>2, <2>2 DEF TypeOK, BindEndpoint
    <2>. QED BY <2>1, <2>2
  <1>3. ASSUME NEW d \in Daemon, RemoveFile(d) \/ BindSocket(d) \/ SetPermissions(d)
        PROVE  KeptInv'
    <2>1. \A e \in listener : e = d
      BY <1>3 DEF TypeOK, SameAddress, RemoveFile, BindSocket, SetPermissions
    <2>2. HasAddress'
      BY <1>3 DEF TypeOK, RemoveFile, BindSocket, SetPermissions
    <2>3. HasFile'
      BY <1>3, <2>1 DEF TypeOK, RemoveFile, BindSocket, SetPermissions
    <2>. QED BY <2>2, <2>3
  <1>4. ASSUME NEW d \in Daemon, Crash(d)
        PROVE  KeptInv'
    BY <1>4 DEF TypeOK, Crash
  <1>5. ASSUME UNCHANGED <<phase, endpoint, file, listener>>
        PROVE  KeptInv'
    BY <1>5
  <1>6. ASSUME NEW d \in Daemon, NEW r \in Run, Serve(d, r)
        PROVE  UNCHANGED <<phase, endpoint, file, listener>>
    BY <1>6 DEF Serve, ServeChallenge, ServeAssertion, ServeSimple, daemonVars
  <1>7. ASSUME NEW r \in Run, Client(r)
        PROVE  UNCHANGED <<phase, endpoint, file, listener>>
    BY <1>7 DEF Client, ReadLine, Connect, Receive, ReadEof, daemonVars
  <1>. HIDE DEF KeptInv
  <1>8. CASE UNCHANGED vars
    BY <1>5, <1>8 DEF vars, daemonVars
  <1>. QED BY <1>1, <1>2, <1>3, <1>4, <1>5, <1>6, <1>7, <1>8 DEF Next

\* No daemon that starts takes the socket from one that serves on it, if all of
\* them are configured with one address.
THEOREM SocketIsKept == ASSUME SameAddress PROVE Spec => []ControlKept
  <1>1. Init => KeptInv
    <2>1. Init => TypeOK
      BY InitInv DEF Inv
    <2>. QED BY <2>1 DEF Init, KeptInv, HasAddress, HasFile
  <1>2. KeptInv /\ TypeOK' /\ [Next]_vars => KeptInv'
    BY KeptInductive
  <1>3. KeptInv => ControlKept
    BY DEF KeptInv, HasFile, ControlKept
  <1>. QED BY <1>1, <1>2, <1>3, TypeCorrect, PTL DEF Spec
=============================================================================
