----------------------------- MODULE Aggregator -----------------------------
(***************************************************************************)
(* The broker's supervised servers (crates/broker/src/aggregator.rs over   *)
(* crates/core/src/broker.rs): each server's lifecycle state, its tools,   *)
(* its elevation and its child process, and the per-action confirmations.  *)
(*                                                                         *)
(* Every operation runs under the one mutex on the aggregator.  A tool     *)
(* call holds it from the gate until the child has answered or failed, so  *)
(* it is two actions and `serving` says for which server the mutex is      *)
(* held.  The time an operation uses was read before the mutex was taken:  *)
(* `now` is any value the clock has shown since the broker started.        *)
(*                                                                         *)
(* An elevation or a confirmation is applied for a verified presence       *)
(* assertion, named by its nonce.  The code keeps no such name: it is      *)
(* history, to trace what a child was asked to do back to its authority.   *)
(***************************************************************************)
EXTENDS Policy, Sequences

CONSTANTS
  ServerId,         \* the server ids a request may carry
  Assertion,        \* verified presence assertions
  NoAssertion,
  Ttl,              \* the ttl_secs a request may ask for
  AdvertisedSets,   \* the tool sets a child may advertise when it is spawned
  ConfirmationTTL,  \* CONFIRMATION_TTL_SECS
  MaxClock,         \* model bound: the clock stops here
  MaxCalls          \* model bound: calls sent to children

ASSUME AggregatorAssumption ==
  /\ Server \subseteq ServerId
  /\ NoAssertion \notin Assertion
  /\ Ttl \subseteq Nat
  /\ AdvertisedSets \subseteq SUBSET Tool
  /\ ConfirmationTTL \in Nat
  /\ MaxClock \in Nat
  /\ MaxCalls \in Nat

VARIABLES
  clock,          \* seconds since the broker started
  state,          \* lifecycle state of each server
  tools,          \* the tools each server's child advertised
  elevation,      \* the elevation of each server
  child,          \* "none": no handle in the map; else the process behind it
  confirmations,  \* outstanding per-action approvals
  serving,        \* the server whose child is being called, if any
  grantedBy,      \* history: the assertion behind each server's elevation
  grants,         \* history: every elevation applied
  approvals,      \* history: every confirmation approved
  calls           \* history: every call sent to a child

slots   == <<state, tools, elevation, grantedBy>>
history == <<grants, approvals, calls>>
vars    == <<clock, slots, child, confirmations, serving, history>>

ChildState   == {"none", "alive", "dead"}
Confirmation == [server : ServerId, tool : Tool, approved_at : Nat, by : Assertion]
Grant        == [server : Server, elevation : Elevation, by : Assertion]
Call         == [server : Server, tool : Tool, now : Nat,
                 by : Assertion \union {NoAssertion},
                 approval : Assertion \union {NoAssertion}]

TypeOK ==
  /\ clock \in Nat
  /\ state \in [Server -> ServerState]
  /\ tools \in [Server -> SUBSET Tool]
  /\ elevation \in [Server -> Elevation]
  /\ child \in [Server -> ChildState]
  /\ confirmations \subseteq Confirmation
  /\ serving \subseteq Server
  /\ grantedBy \in [Server -> Assertion \union {NoAssertion}]
  /\ grants \subseteq Grant
  /\ approvals \subseteq Confirmation
  /\ calls \in Seq(Call)

-----------------------------------------------------------------------------
MutexFree == serving = {}

Exposed(s, now) == ResolveExposure(s, tools[s], state[s], elevation[s], now)

\* The snapshots a handler compares to see whether it changed the exposure.
Snapshot(advertised, st, elev, now) ==
  [s \in Server |-> ResolveExposure(s, advertised[s], st[s], elev[s], now)]

ExposureSnapshot(now) == Snapshot(tools, state, elevation, now)

ConfirmationExpired(c, now) ==
  SaturatingSub(now, c.approved_at) > ConfirmationTTL

\* The assertions already applied.
Applied == {g.by : g \in grants} \union {a.by : a \in approvals}

\* Aggregator::build: a server whose child cannot be spawned, or cannot list
\* its tools, comes up stopped, with no tools and no child.
Built(up, advertised) ==
  /\ clock' = 0
  /\ state' = [s \in Server |-> IF s \in up THEN "running" ELSE "stopped"]
  /\ tools' = [s \in Server |-> IF s \in up THEN advertised[s] ELSE {}]
  /\ elevation' = [s \in Server |-> NoElevation]
  /\ grantedBy' = [s \in Server |-> NoAssertion]
  /\ child' = [s \in Server |-> IF s \in up THEN "alive" ELSE "none"]
  /\ confirmations' = {}
  /\ serving' = {}

Init ==
  \E up \in SUBSET Server, advertised \in [Server -> AdvertisedSets] :
    /\ clock = 0
    /\ state = [s \in Server |-> IF s \in up THEN "running" ELSE "stopped"]
    /\ tools = [s \in Server |-> IF s \in up THEN advertised[s] ELSE {}]
    /\ elevation = [s \in Server |-> NoElevation]
    /\ grantedBy = [s \in Server |-> NoAssertion]
    /\ child = [s \in Server |-> IF s \in up THEN "alive" ELSE "none"]
    /\ confirmations = {}
    /\ serving = {}
    /\ grants = {}
    /\ approvals = {}
    /\ calls = <<>>

-----------------------------------------------------------------------------
(* Elevation and confirmation, by the control handler.                      *)

Elevate(s, e, by) ==
  /\ MutexFree
  /\ elevation' = [elevation EXCEPT ![s] = e]
  /\ grantedBy' = [grantedBy EXCEPT ![s] = by]
  /\ grants' = grants \union {[server |-> s, elevation |-> e, by |-> by]}
  /\ UNCHANGED <<clock, state, tools, child, confirmations, serving, approvals, calls>>

Revoke(s) ==
  /\ MutexFree
  /\ elevation' = [elevation EXCEPT ![s] = NoElevation]
  /\ grantedBy' = [grantedBy EXCEPT ![s] = NoAssertion]
  /\ UNCHANGED <<clock, state, tools, child, confirmations, serving, history>>

\* Neither the server nor the tool is looked up: any pair is recorded.
ApproveReplacing(s, t, now, by) ==   \* mutant: the list is assigned, not pushed to
  LET approval == [server |-> s, tool |-> t, approved_at |-> now, by |-> by]
  IN  /\ MutexFree
      /\ confirmations' = {approval}
      /\ approvals' = approvals \union {approval}
      /\ UNCHANGED <<clock, slots, child, serving, grants, calls>>

ApproveAction(s, t, now, by) ==
  LET approval == [server |-> s, tool |-> t, approved_at |-> now, by |-> by]
  IN  /\ MutexFree
      /\ confirmations' = {c \in confirmations : ~ConfirmationExpired(c, now)}
                            \union {approval}
      /\ approvals' = approvals \union {approval}
      /\ UNCHANGED <<clock, slots, child, serving, grants, calls>>

-----------------------------------------------------------------------------
(* Lifecycle.  None of these touches the elevation.                         *)

SetState(s, st) ==
  /\ MutexFree
  /\ state' = [state EXCEPT ![s] = st]

Pause(s) ==
  /\ SetState(s, "paused")
  /\ UNCHANGED <<clock, tools, elevation, grantedBy, child, confirmations, serving, history>>

\* From whatever state the server is in, a stopped one included.
Resume(s) ==
  /\ SetState(s, "running")
  /\ UNCHANGED <<clock, tools, elevation, grantedBy, child, confirmations, serving, history>>

StopRemovingSlot(s) ==   \* mutant: the slot is dropped along with the child
  /\ MutexFree
  /\ state' = [x \in DOMAIN state \ {s} |-> state[x]]
  /\ child' = [child EXCEPT ![s] = "none"]
  /\ UNCHANGED <<clock, tools, elevation, grantedBy, confirmations, serving, history>>

\* The child's handle is dropped, which kills the process.
Stop(s) ==
  /\ SetState(s, "stopped")
  /\ child' = [child EXCEPT ![s] = "none"]
  /\ UNCHANGED <<clock, tools, elevation, grantedBy, confirmations, serving, history>>

\* With no handle in the map a child is spawned and its tools are classified
\* anew; a handle in the map is kept, whatever became of its process.
StartSpawn(s, advertised) ==
  /\ child[s] = "none"
  /\ SetState(s, "running")
  /\ child' = [child EXCEPT ![s] = "alive"]
  /\ tools' = [tools EXCEPT ![s] = advertised]
  /\ UNCHANGED <<clock, elevation, grantedBy, confirmations, serving, history>>

StartKeepsChild(s) ==
  /\ child[s] # "none"
  /\ SetState(s, "running")
  /\ UNCHANGED <<clock, tools, elevation, grantedBy, child, confirmations, serving, history>>

-----------------------------------------------------------------------------
(* Tool calls.                                                              *)

Usable(s, t, now) ==
  {c \in confirmations : c.server = s /\ c.tool = t /\ ~ConfirmationExpired(c, now)}

NeedsConfirmation(s, t) == RequiresPerActionPresence(Classify(s, t))

LookUpConfirmation(s, t, now, by) ==   \* mutant: found, but left in the list
  IF NeedsConfirmation(s, t)
    THEN (\E c \in Usable(s, t, now) : by = c.by) /\ UNCHANGED confirmations
    ELSE by = NoAssertion /\ UNCHANGED confirmations

\* The confirm gate: a usable confirmation is taken out before the child is
\* looked up.  Which one, of several, depends on the order of a vector that
\* swap_remove permutes: any of them.
TakeConfirmation(s, t, now, by) ==
  IF NeedsConfirmation(s, t)
    THEN \E c \in Usable(s, t, now) : /\ by = c.by
                                      /\ confirmations' = confirmations \ {c}
    ELSE by = NoAssertion /\ UNCHANGED confirmations

CallDispatch(s, t, now, by) ==
  /\ MutexFree
  /\ t \in Exposed(s, now)
  /\ TakeConfirmation(s, t, now, by)
  /\ child[s] # "none"
  /\ serving' = {s}
  /\ calls' = Append(calls, [server |-> s, tool |-> t, now |-> now,
                             by |-> grantedBy[s], approval |-> by])
  /\ UNCHANGED <<clock, slots, child, grants, approvals>>

\* Exposed and confirmed, with no child to send it to: UnknownTool.
CallNoChild(s, t, now, by) ==
  /\ MutexFree
  /\ t \in Exposed(s, now)
  /\ TakeConfirmation(s, t, now, by)
  /\ child[s] = "none"
  /\ UNCHANGED <<clock, slots, child, serving, history>>

\* A result, or an Rpc or Protocol error: the child is up.
CallAnswered(s) ==
  /\ s \in serving
  /\ child[s] = "alive"
  /\ serving' = {}
  /\ UNCHANGED <<clock, slots, child, confirmations, history>>

CallFaultOnExit(s) ==   \* mutant: no timeout on the child's answer
  /\ s \in serving
  /\ child[s] = "dead"
  /\ serving' = {}
  /\ state' = [state EXCEPT ![s] = "stopped"]
  /\ elevation' = [elevation EXCEPT ![s] = NoElevation]
  /\ grantedBy' = [grantedBy EXCEPT ![s] = NoAssertion]
  /\ UNCHANGED <<clock, tools, child, confirmations, history>>

\* Exited, Io or Timeout: the server fails closed.  The handle stays.
CallFault(s) ==
  /\ s \in serving
  /\ serving' = {}
  /\ state' = [state EXCEPT ![s] = "stopped"]
  /\ elevation' = [elevation EXCEPT ![s] = NoElevation]
  /\ grantedBy' = [grantedBy EXCEPT ![s] = NoAssertion]
  /\ UNCHANGED <<clock, tools, child, confirmations, history>>

\* Every child that has died fails closed.  The daemon itself never calls this;
\* the tests do, as a supervisor would.
ReapExitedChildren ==
  LET dead == {s \in Server : child[s] = "dead"}
  IN  /\ MutexFree
      /\ state' = [s \in Server |-> IF s \in dead THEN "stopped" ELSE state[s]]
      /\ elevation' = [s \in Server |-> IF s \in dead THEN NoElevation ELSE elevation[s]]
      /\ grantedBy' = [s \in Server |-> IF s \in dead THEN NoAssertion ELSE grantedBy[s]]
      /\ UNCHANGED <<clock, tools, child, confirmations, serving, history>>

-----------------------------------------------------------------------------
(* The environment.                                                         *)

ChildExit(s) ==
  /\ child[s] = "alive"
  /\ child' = [child EXCEPT ![s] = "dead"]
  /\ UNCHANGED <<clock, slots, confirmations, serving, history>>

Tick ==
  /\ clock < MaxClock
  /\ clock' = clock + 1
  /\ UNCHANGED <<slots, child, confirmations, serving, history>>

\* The broker dies, perhaps in the middle of a call, and is started again.
Restart(up, advertised) ==
  /\ Built(up, advertised)
  /\ UNCHANGED history

-----------------------------------------------------------------------------
\* What the aggregator relies on: an assertion is verified, hence applied, once.
\* NonceStore promises it and Broker composes the two.
Next ==
  \/ \E s \in Server, now \in 0..clock, by \in Assertion \ Applied :
       \/ \E ttl \in Ttl : Elevate(s, ForDuration(now, ttl), by)
       \/ Elevate(s, UntilRevoked(now), by)
  \/ \E s \in ServerId, t \in Tool, now \in 0..clock, by \in Assertion \ Applied :
       ApproveAction(s, t, now, by)
  \/ \E s \in Server :
       \/ Revoke(s)
       \/ Pause(s)
       \/ Resume(s)
       \/ Stop(s)
       \/ \E advertised \in AdvertisedSets : StartSpawn(s, advertised)
       \/ StartKeepsChild(s)
       \/ CallAnswered(s)
       \/ CallFault(s)
       \/ ChildExit(s)
  \/ \E s \in Server, t \in Tool, now \in 0..clock, by \in Assertion \union {NoAssertion} :
       \/ Len(calls) < MaxCalls /\ CallDispatch(s, t, now, by)
       \/ CallNoChild(s, t, now, by)
  \/ ReapExitedChildren
  \/ Tick
  \/ \E up \in SUBSET Server, advertised \in [Server -> AdvertisedSets] :
       Restart(up, advertised)

Spec == Init /\ [][Next]_vars

-----------------------------------------------------------------------------
(* Properties.                                                              *)

CallClass(i) == Classify(calls[i].server, calls[i].tool)

\* Every call of a gated tool that reached a child was made at a time at which
\* an elevation granted to that server, by a presence assertion, was active:
\* not limited in time, or strictly before its expiry.
GatedCallsAreElevated ==
  \A i \in DOMAIN calls :
    RequiresElevation(CallClass(i)) =>
      \E g \in grants : /\ g.by = calls[i].by
                        /\ g.server = calls[i].server
                        /\ \/ g.elevation.mode = "until_revoked"
                           \/ calls[i].now < g.elevation.expires_at

\* Every call of a confirm tool that reached a child spent an approval of that
\* very server and tool, not older than its lifetime, that no other call spent.
ConfirmedOncePerCall ==
  \A i \in DOMAIN calls :
    RequiresPerActionPresence(CallClass(i)) =>
      /\ \E a \in approvals : /\ a.by = calls[i].approval
                              /\ a.server = calls[i].server
                              /\ a.tool = calls[i].tool
                              /\ ~ConfirmationExpired(a, calls[i].now)
      /\ \A j \in DOMAIN calls \ {i} : calls[j].approval # calls[i].approval

\* Approving one action never discards another approval that is still usable:
\* a confirmation leaves the list when it is spent, or lost to a call that finds
\* no child, or has outlived its lifetime, or in a restart.
ApprovalKeptUntilSpent ==
  [][\A c \in confirmations \ confirmations' :
       \/ ConfirmationExpired(c, clock)
       \/ Len(calls') > Len(calls) /\ calls'[Len(calls')].approval = c.by
       \/ c.server \in Server /\ child[c.server] = "none"
       \/ \E up \in SUBSET Server, advertised \in [Server -> AdvertisedSets] :
            Restart(up, advertised)]_vars
=============================================================================
