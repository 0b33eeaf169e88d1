------------------------------- MODULE Broker -------------------------------
(***************************************************************************)
(* The broker daemon: request threads over the challenge store and the     *)
(* aggregator (crates/broker/src/control_handler.rs and handler.rs, with   *)
(* clock.rs and core's audit.rs).  Control and MCP requests each run on a  *)
(* thread of their own.  A handler reads the clock first, then takes one   *)
(* mutex, does its work, releases it, and only then notifies the MCP       *)
(* client of a changed tool list and writes the audit tape.  A submit      *)
(* takes the store's mutex and then, separately, the aggregator's.  The    *)
(* steps between which other threads may run are the actions below.        *)
(***************************************************************************)
EXTENDS Naturals, Sequences, FiniteSets

CONSTANTS
  Server, Tool, Manifest, MaxTimestamp,                       \* Policy
  ServerId, Ttl, AdvertisedSets, ConfirmationTTL,             \* Aggregator
  Nonce, Client, Key, Holds, Registry, NonceTTL,              \* NonceStore
  MaxPendingNonces, Malformed,
  NoNonce,
  Thread,       \* request threads: how many requests may be in progress
  Workloads,    \* model bounds: what the clients of a behaviour may do
  MaxClock,     \* model bound: the clock stops here
  MaxRequests,  \* model bound: requests made
  MaxRestarts   \* model bound: crashes of the broker

\* What a challenge may authorise: RequestedMode is folded into the kind.
Purpose ==
  [kind : {"elevate"}, server : ServerId, ttl : Ttl]
    \union [kind : {"elevate_until_revoked"}, server : ServerId]
    \union [kind : {"confirm"}, server : ServerId, tool : Tool]

\* The operations used, those also tried with an id that the manifest lacks, what
\* is signed and called, and how far nonces, clock and requests go.
WorkloadFields == {"ops", "unknown", "purposes", "tools", "nonces", "clock", "requests"}

ASSUME WorkloadAssumption ==
  \A w \in Workloads : /\ DOMAIN w = WorkloadFields
                       /\ w.purposes \subseteq Purpose
                       /\ w.clock \in 0..MaxClock /\ w.requests \in 0..MaxRequests

VARIABLES
  clock,
  pending, challenges, signatures, attempts, accepted,        \* NonceStore
  state, tools, elevation, child, confirmations, serving,     \* Aggregator
  grantedBy, grants, approvals, calls,
  pc,           \* where each thread is
  at,           \* the time it read on entry
  req,          \* the request it serves
  event,        \* the audit event it has yet to write
  audit,        \* the tape: a file, it outlives the broker
  listing,      \* the tools the MCP client last listed
  listChanged,  \* a tools/list_changed the client has yet to act on
  results,      \* history: the calls whose child returned a result
  requests,     \* requests made so far
  restarts,     \* crashes so far
  workload      \* what the clients do, chosen at the start

N == INSTANCE NonceStore
A == INSTANCE Aggregator
       WITH Assertion <- Nonce, NoAssertion <- NoNonce, MaxCalls <- MaxRequests

ASSUME StoreAssumption == N!KeysAssumption /\ N!LimitsAssumption

ASSUME ServersAssumption ==
  A!ManifestAssumption /\ A!TimestampAssumption /\ A!AggregatorAssumption

storeVars  == <<pending, challenges, signatures, attempts, accepted>>
serverVars == <<state, tools, elevation, child, confirmations, serving,
                grantedBy, grants, approvals, calls>>
threadVars == <<pc, at, req, event>>
clientVars == <<listing, listChanged>>
boundVars  == <<requests, restarts, workload>>
vars == <<clock, storeVars, serverVars, threadVars, clientVars, audit, results, boundVars>>

-----------------------------------------------------------------------------
(* Requests and audit events.                                               *)

LifecycleOps == {"start", "stop", "pause", "resume"}

NoRequest == [op |-> "none"]
NoEvent   == [kind |-> "none"]

ServersNamed(r) ==
  CASE r.op = "issue"             -> {r.purpose.server}
    [] r.op \in {"list", "submit"} -> {}
    [] OTHER                      -> {r.server}

\* A client presents a nonce it was given and a signature someone made.
Requests ==
  {r \in [op : {"call"}, server : ServerId, tool : Tool]
           \union [op : {"list"}]
           \union [op : LifecycleOps \union {"revoke"}, server : ServerId]
           \union [op : {"issue"}, client : Client, purpose : Purpose]
           \union [op : {"submit"}, client : Client,
                   nonce : {ch.nonce : ch \in challenges},
                   signature : signatures \union {Malformed}] :
     /\ r.op \in workload.ops
     /\ ServersNamed(r) \subseteq Server \/ r.op \in workload.unknown
     /\ r.op = "issue" => r.purpose \in workload.purposes
     /\ r.op = "call" => r.tool \in workload.tools}

Granted(nonce)       == [kind |-> "elevation_granted", nonce |-> nonce]
ConfirmApproved(nonce) == [kind |-> "confirm_approved", nonce |-> nonce]
WriteToolInvoked(i)  == [kind |-> "write_tool_invoked", call |-> i]
ConfirmRejected(s, t) == [kind |-> "confirm_rejected", server |-> s, tool |-> t]
Denied(c)            == [kind |-> "elevation_denied", client |-> c]
Revoked(s)           == [kind |-> "elevation_revoked", server |-> s]

-----------------------------------------------------------------------------
Init ==
  /\ N!Init
  /\ A!Init
  /\ pc = [t \in Thread |-> "idle"]
  /\ at = [t \in Thread |-> 0]
  /\ req = [t \in Thread |-> NoRequest]
  /\ event = [t \in Thread |-> NoEvent]
  /\ audit = {}
  /\ listing = A!ExposureSnapshot(0)
  /\ listChanged = FALSE
  /\ results = {}
  /\ requests = 0
  /\ restarts = 0
  /\ workload \in Workloads

-----------------------------------------------------------------------------
(* Thread control.                                                          *)

\* A request arrives; its handler reads the clock before it takes any mutex.
\* The client lists the tools again when it is told they changed.
Enter(t) ==
  /\ pc[t] = "idle"
  /\ requests < workload.requests
  /\ \E r \in Requests :
       /\ req' = [req EXCEPT ![t] = r]
       /\ listChanged' = (listChanged /\ r.op # "list")
  /\ pc' = [pc EXCEPT ![t] = "entered"]
  /\ at' = [at EXCEPT ![t] = clock]
  /\ requests' = requests + 1
  /\ UNCHANGED <<clock, storeVars, serverVars, event, listing, audit, results, restarts, workload>>

Serves(t, ops) == pc[t] = "entered" /\ req[t].op \in ops

\* The handler returns: nothing to announce, nothing to record.
Done(t) ==
  /\ pc' = [pc EXCEPT ![t] = "idle"]
  /\ at' = [at EXCEPT ![t] = 0]
  /\ req' = [req EXCEPT ![t] = NoRequest]
  /\ UNCHANGED event

FollowRecordOnly(t, changed, e) ==   \* mutant: an audited change is not announced
  IF ~changed /\ e = NoEvent
    THEN Done(t)
    ELSE /\ pc' = [pc EXCEPT ![t] = IF e = NoEvent THEN "notify" ELSE "audit"]
         /\ event' = [event EXCEPT ![t] = e]
         /\ UNCHANGED <<at, req>>

\* What is left to do after the mutex is released: announce, then record.
Follow(t, changed, e) ==
  IF ~changed /\ e = NoEvent
    THEN Done(t)
    ELSE /\ pc' = [pc EXCEPT ![t] = IF changed THEN "notify" ELSE "audit"]
         /\ event' = [event EXCEPT ![t] = e]
         /\ UNCHANGED <<at, req>>

NotifyAndReturn(t) ==   \* mutant: the handler returns once it has announced
  /\ pc[t] = "notify"
  /\ listChanged' = TRUE
  /\ pc' = [pc EXCEPT ![t] = "idle"]
  /\ at' = [at EXCEPT ![t] = 0]
  /\ req' = [req EXCEPT ![t] = NoRequest]
  /\ event' = [event EXCEPT ![t] = NoEvent]
  /\ UNCHANGED <<clock, storeVars, serverVars, listing, audit, results, boundVars>>

Notify(t) ==
  /\ pc[t] = "notify"
  /\ listChanged' = TRUE
  /\ IF event[t] = NoEvent
       THEN Done(t)
       ELSE pc' = [pc EXCEPT ![t] = "audit"] /\ UNCHANGED <<at, req, event>>
  /\ UNCHANGED <<clock, storeVars, serverVars, listing, audit, results, boundVars>>

RecordKeepingEvent(t) ==   \* mutant: the event is cloned, not taken
  /\ pc[t] = "audit"
  /\ audit' = audit \union {event[t]}
  /\ Done(t)
  /\ UNCHANGED <<clock, storeVars, serverVars, clientVars, results, boundVars>>

Record(t) ==
  /\ pc[t] = "audit"
  /\ audit' = audit \union {event[t]}
  /\ pc' = [pc EXCEPT ![t] = "idle"]
  /\ at' = [at EXCEPT ![t] = 0]
  /\ req' = [req EXCEPT ![t] = NoRequest]
  /\ event' = [event EXCEPT ![t] = NoEvent]
  /\ UNCHANGED <<clock, storeVars, serverVars, clientVars, results, boundVars>>

\* Did this step change what is exposed, as of the time the thread read?
Changed(t) ==
  A!Snapshot(tools', state', elevation', at[t]) # A!ExposureSnapshot(at[t])

-----------------------------------------------------------------------------
(* The MCP handler (handler.rs).                                            *)

List(t) ==
  /\ Serves(t, {"list"})
  /\ A!MutexFree
  /\ listing' = A!ExposureSnapshot(at[t])
  /\ Done(t)
  /\ UNCHANGED <<clock, storeVars, serverVars, listChanged, audit, results, boundVars>>

Offers(s, tool, now) == s \in Server /\ tool \in A!Exposed(s, now)

\* UnknownTool for a server the manifest lacks, NotExposed, or NotConfirmed: the
\* last is recorded.
CallRefused(t) ==
  LET s == req[t].server
      tool == req[t].tool
  IN  /\ Serves(t, {"call"})
      /\ A!MutexFree
      /\ \/ ~Offers(s, tool, at[t]) /\ Done(t)
         \/ /\ Offers(s, tool, at[t])
            /\ A!NeedsConfirmation(s, tool) /\ A!Usable(s, tool, at[t]) = {}
            /\ Follow(t, FALSE, ConfirmRejected(s, tool))
      /\ UNCHANGED <<clock, storeVars, serverVars, clientVars, audit, results, boundVars>>

CallChild(t) ==
  LET s == req[t].server
      tool == req[t].tool
  IN  /\ Serves(t, {"call"})
      /\ s \in Server
      /\ \E by \in Nonce \union {NoNonce} :
           \/ /\ A!CallDispatch(s, tool, at[t], by)
              /\ pc' = [pc EXCEPT ![t] = "calling"]
              /\ UNCHANGED <<at, req, event>>
           \/ A!CallNoChild(s, tool, at[t], by) /\ Done(t)
      /\ UNCHANGED <<storeVars, clientVars, audit, results, boundVars>>

\* The child returns a result: a gated tool's call is recorded.
CallResult(t) ==
  LET i == Len(calls)
  IN  /\ pc[t] = "calling"
      /\ A!CallAnswered(req[t].server)
      /\ results' = results \union {i}
      /\ Follow(t, FALSE, IF A!RequiresElevation(A!CallClass(i))
                            THEN WriteToolInvoked(i) ELSE NoEvent)
      /\ UNCHANGED <<storeVars, clientVars, audit, boundVars>>

\* The child answers with an error.
CallError(t) ==
  /\ pc[t] = "calling"
  /\ A!CallAnswered(req[t].server)
  /\ Done(t)
  /\ UNCHANGED <<storeVars, clientVars, audit, results, boundVars>>

\* The child is gone, or has not answered in time.
CallFails(t) ==
  /\ pc[t] = "calling"
  /\ A!CallFault(req[t].server)
  /\ Done(t)
  /\ UNCHANGED <<storeVars, clientVars, audit, results, boundVars>>

-----------------------------------------------------------------------------
(* The control handler (control_handler.rs): lifecycle and revocation.      *)

UnknownServer(t) ==
  /\ Serves(t, LifecycleOps \union {"revoke"})
  /\ req[t].server \notin Server
  /\ A!MutexFree
  /\ Done(t)
  /\ UNCHANGED <<clock, storeVars, serverVars, clientVars, audit, results, boundVars>>

Lifecycle(t) ==
  LET s == req[t].server
  IN  /\ Serves(t, LifecycleOps)
      /\ s \in Server
      /\ \/ req[t].op = "pause" /\ A!Pause(s)
         \/ req[t].op = "resume" /\ A!Resume(s)
         \/ req[t].op = "stop" /\ A!Stop(s)
         \/ /\ req[t].op = "start"
            /\ A!StartKeepsChild(s)
                 \/ \E advertised \in AdvertisedSets : A!StartSpawn(s, advertised)
      /\ Follow(t, Changed(t), NoEvent)
      /\ UNCHANGED <<storeVars, clientVars, audit, results, boundVars>>

\* Aggregator::start cannot spawn a child, or the child cannot list its tools.
StartFails(t) ==
  /\ Serves(t, {"start"})
  /\ req[t].server \in Server
  /\ A!MutexFree
  /\ child[req[t].server] = "none"
  /\ Done(t)
  /\ UNCHANGED <<clock, storeVars, serverVars, clientVars, audit, results, boundVars>>

\* Recorded whether or not there was an elevation to revoke.
Revoke(t) ==
  LET s == req[t].server
  IN  /\ Serves(t, {"revoke"})
      /\ s \in Server
      /\ A!Revoke(s)
      /\ Follow(t, Changed(t), Revoked(s))
      /\ UNCHANGED <<storeVars, clientVars, audit, results, boundVars>>

-----------------------------------------------------------------------------
(* The control handler: elevation and confirmation.                         *)

Issue(t) ==
  /\ Serves(t, {"issue"})
  /\ \/ /\ Cardinality(challenges) < workload.nonces
        /\ \E n \in Nonce : N!Issue(req[t].client, req[t].purpose, at[t], n)
     \/ N!IssueRefused(at[t])
  /\ Done(t)
  /\ UNCHANGED <<serverVars, clientVars, audit, results, boundVars>>

Entry(client, nonce) == {p \in pending : p.nonce = nonce /\ p.client = client}

SubmitUnverified(t) ==   \* mutant: only an expired nonce is turned away
  LET r == req[t]
  IN  /\ Serves(t, {"submit"})
      /\ \E p \in Entry(r.client, r.nonce) :
           /\ N!VerifyAndConsume(p, r.signature, at[t])
           /\ IF N!Verdict(p, r.signature, at[t]) # "NonceExpired"
                THEN /\ pc' = [pc EXCEPT ![t] = "apply"]
                     /\ req' = [req EXCEPT ![t] = [op |-> "apply", client |-> r.client,
                                                   nonce |-> r.nonce, purpose |-> p.purpose]]
                     /\ UNCHANGED <<at, event>>
                ELSE Follow(t, FALSE, Denied(r.client))
      /\ UNCHANGED <<serverVars, clientVars, audit, results, boundVars>>

\* BrokerControlHandler::submit, under the store's mutex.  What was verified is
\* applied later, under the aggregator's.
Submit(t) ==
  LET r == req[t]
  IN  /\ Serves(t, {"submit"})
      /\ \E p \in Entry(r.client, r.nonce) :
           /\ N!VerifyAndConsume(p, r.signature, at[t])
           /\ IF N!Verdict(p, r.signature, at[t]) = "Ok"
                THEN /\ pc' = [pc EXCEPT ![t] = "apply"]
                     /\ req' = [req EXCEPT ![t] = [op |-> "apply", client |-> r.client,
                                                   nonce |-> r.nonce, purpose |-> p.purpose]]
                     /\ UNCHANGED <<at, event>>
                ELSE Follow(t, FALSE, Denied(r.client))
      /\ UNCHANGED <<serverVars, clientVars, audit, results, boundVars>>

SubmitUnknown(t) ==   \* UnknownOrUsedNonce
  /\ Serves(t, {"submit"})
  /\ Entry(req[t].client, req[t].nonce) = {}
  /\ Follow(t, FALSE, Denied(req[t].client))
  /\ UNCHANGED <<clock, storeVars, serverVars, clientVars, audit, results, boundVars>>

ElevationFor(purpose, now) ==
  IF purpose.kind = "elevate" THEN A!ForDuration(now, purpose.ttl) ELSE A!UntilRevoked(now)

\* A verified elevation of a server the manifest lacks is not recorded.
ApplyElevation(t) ==
  LET purpose == req[t].purpose
  IN  /\ pc[t] = "apply"
      /\ purpose.kind # "confirm"
      /\ \/ /\ purpose.server \in Server
            /\ A!Elevate(purpose.server, ElevationFor(purpose, at[t]), req[t].nonce)
            /\ Follow(t, Changed(t), Granted(req[t].nonce))
         \/ /\ purpose.server \notin Server
            /\ A!MutexFree
            /\ Done(t)
            /\ UNCHANGED <<clock, serverVars>>
      /\ UNCHANGED <<storeVars, clientVars, audit, results, boundVars>>

ApplyConfirm(t) ==
  LET purpose == req[t].purpose
  IN  /\ pc[t] = "apply"
      /\ purpose.kind = "confirm"
      /\ A!ApproveAction(purpose.server, purpose.tool, at[t], req[t].nonce)
      /\ Follow(t, FALSE, ConfirmApproved(req[t].nonce))
      /\ UNCHANGED <<storeVars, clientVars, audit, results, boundVars>>

\* The elevated flag of a status response: an elevation is stored.
StatusElevated(s) == elevation[s] # A!NoElevation

-----------------------------------------------------------------------------
(* The environment.                                                         *)

ClientSigns ==
  /\ \E c \in Client, n \in Nonce, purpose \in workload.purposes : N!Sign(c, n, purpose)
  /\ UNCHANGED <<serverVars, threadVars, clientVars, audit, results, boundVars>>

ChildExits ==
  /\ \E s \in Server : A!ChildExit(s)
  /\ UNCHANGED <<storeVars, threadVars, clientVars, audit, results, boundVars>>

Tick ==
  /\ clock < workload.clock
  /\ N!Tick
  /\ UNCHANGED <<serverVars, threadVars, clientVars, audit, results, boundVars>>

\* The daemon dies, with every thread, and is started again.  The MCP client
\* connects and lists anew.
Restart ==
  /\ restarts < MaxRestarts
  /\ restarts' = restarts + 1
  /\ N!Restart
  /\ \E up \in SUBSET Server, advertised \in [Server -> AdvertisedSets] :
       A!Restart(up, advertised)
  /\ pc' = [t \in Thread |-> "idle"]
  /\ at' = [t \in Thread |-> 0]
  /\ req' = [t \in Thread |-> NoRequest]
  /\ event' = [t \in Thread |-> NoEvent]
  /\ listChanged' = TRUE
  /\ UNCHANGED <<listing, audit, results, requests, workload>>

\* The clients have made all the requests of this instance.
Quiet ==
  /\ requests = workload.requests
  /\ \A t \in Thread : pc[t] = "idle"
  /\ UNCHANGED vars

-----------------------------------------------------------------------------
\* What the broker itself does for a request that has arrived.
Serve(t) ==
  \/ List(t) \/ CallRefused(t) \/ CallChild(t) \/ CallFails(t)
  \/ UnknownServer(t) \/ Lifecycle(t) \/ StartFails(t) \/ Revoke(t)
  \/ Issue(t) \/ Submit(t) \/ SubmitUnknown(t) \/ ApplyElevation(t) \/ ApplyConfirm(t)
  \/ Notify(t) \/ Record(t)

\* What a child may do for it, in its own time or never.
ChildAnswers(t) == CallResult(t) \/ CallError(t)

Next ==
  \/ \E t \in Thread : Enter(t) \/ Serve(t) \/ ChildAnswers(t)
  \/ ClientSigns
  \/ ChildExits
  \/ Tick
  \/ Restart
  \/ Quiet

Spec == Init /\ [][Next]_vars

\* The scheduler runs every thread that can go on.  A child need not answer:
\* the broker's child client gives up on it, which is CallFails.
FairSpec == Spec /\ \A t \in Thread : WF_vars(Serve(t))

-----------------------------------------------------------------------------
(* Properties.                                                              *)

Events ==
  {NoEvent}
    \union {Granted(n) : n \in Nonce} \union {ConfirmApproved(n) : n \in Nonce}
    \union {WriteToolInvoked(i) : i \in 1..MaxRequests}
    \union [kind : {"confirm_rejected"}, server : Server, tool : Tool]
    \union {Denied(c) : c \in Client} \union {Revoked(s) : s \in Server}

\* Thread state: an idle thread has no request and owes no audit event, an event
\* is owed only after the handler's work is done, and no thread's time is later
\* than the clock.
TypeOK ==
  /\ pc \in [Thread -> {"idle", "entered", "calling", "apply", "notify", "audit"}]
  /\ event \in [Thread -> Events]
  /\ \A t \in Thread :
       /\ at[t] \in 0..clock
       /\ (pc[t] = "idle") <=> (req[t] = NoRequest)
       /\ event[t] # NoEvent => pc[t] \in {"notify", "audit"}
  /\ audit \subseteq Events \ {NoEvent}
  /\ listing \in [Server -> SUBSET Tool]
  /\ results \subseteq DOMAIN calls

\* A request that changes or uses the aggregator does what Aggregator allows,
\* under Aggregator's assumption that an assertion is applied once.  That the
\* assumption holds is the nonce store's doing, across the gap between the two
\* mutexes, with several threads submitting the same nonce.
AggregatorSpec == A!Spec

\* The assertions made with registered keys, as PresenceGate sees them.
RegisteredAssertions ==
  {[nonce |-> g.nonce, purpose |-> g.purpose] :
     g \in {g \in signatures : /\ g.client \in DOMAIN Registry
                               /\ g.key = Registry[g.client]}}

InvokedCalls ==
  [i \in DOMAIN calls |-> [server |-> calls[i].server, tool |-> calls[i].tool,
                           by |-> calls[i].by, approval |-> calls[i].approval]]

G == INSTANCE PresenceGate WITH signed <- RegisteredAssertions, invoked <- InvokedCalls

\* End to end, whatever the interleaving of requests, revocations, crashes and
\* restarts: a gated call that reaches a child was authorised by a registered
\* key's signature for that server, a confirm call by a second one for that
\* tool, which no other call spends, before a restart or after.
Gate == G!Spec

\* As long as the broker does not crash, the tape is complete once the threads
\* are done: every elevation and approval applied, and every gated call that
\* returned a result, is on it or is about to be written by its thread.
TapeIsComplete ==
  LET OnTape(e) == e \in audit \/ \E t \in Thread : event[t] = e
  IN  restarts = 0 =>
        /\ \A g \in grants : OnTape(Granted(g.by))
        /\ \A a \in approvals : OnTape(ConfirmApproved(a.by))
        /\ \A i \in results : A!RequiresElevation(A!CallClass(i)) => OnTape(WriteToolInvoked(i))

\* The client has been told to list again, is being told, or is listing.
Told ==
  \/ listChanged
  \/ \E t \in Thread : pc[t] = "notify" \/ req[t].op = "list"

\* A tool is never exposed behind the client's back: if the client's last list
\* lacks a tool it could now call, it has been told to list again, is about to
\* be, or is listing.  (Elevations without a time limit: see README on expiry.)
WideningIsAnnounced ==
  (\E s \in Server : ~ A!Exposed(s, clock) \subseteq listing[s]) => Told

\* Every request is answered: no handler waits for ever on a mutex, on a child
\* that has stopped answering, or on another handler.
RequestsComplete == \A t \in Thread : (pc[t] # "idle") ~> (pc[t] = "idle")
=============================================================================
