------------------------------ MODULE MCBroker ------------------------------
(* Small instances of Broker.  c1 is registered; c2, where it is present,   *)
(* has a key the broker does not know.  The manifest lists a read and a     *)
(* confirm tool; save, where it is present, was never classified.           *)
EXTENDS Broker, TLC

CONSTANTS c1, c2, k1, k2, search, send, save

MCManifest   == [s \in Server |-> (search :> "read") @@ (send :> "confirm")]
MCAdvertised == {Tool}
MCHolds      == [c \in Client |-> IF c = c1 THEN k1 ELSE k2]
MCRegistry   == c1 :> k1

PurposesOf(kinds, servers) == {p \in Purpose : p.kind \in kinds /\ p.server \in servers}

\* Every operation.
Everything ==
  {[ops |-> {"list", "start", "stop", "pause", "resume", "issue", "submit", "revoke", "call"},
    unknown |-> {"revoke"}, tools |-> Tool,
    purposes |-> PurposesOf({"elevate_until_revoked", "confirm"}, Server),
    nonces |-> 1, clock |-> 0, requests |-> 4]}

\* A write call, and what it takes to be allowed one.
Writing ==
  {[ops |-> {"issue", "submit", "call"}, unknown |-> {}, tools |-> {save},
    purposes |-> PurposesOf({"elevate_until_revoked"}, Server),
    nonces |-> 1, clock |-> 0, requests |-> 3]}

\* Presence end to end, in three exchanges: a write window that expires, raced for
\* and revoked; elevation and approval from two assertions, with two calls racing
\* for one approval; assertions for a server that the manifest lacks.
Presence ==
  LET exchange(purposes, called, nonces, time, count) ==
        [ops |-> {"issue", "submit", "call", "revoke"}, unknown |-> {"issue"},
         purposes |-> purposes, tools |-> called,
         nonces |-> nonces, clock |-> time, requests |-> count]
      window  == PurposesOf({"elevate", "elevate_until_revoked"}, Server)
      approval(servers) == {p \in PurposesOf({"confirm"}, servers) : p.tool = send}
      unknown == ServerId \ Server
      stray   == PurposesOf({"elevate", "elevate_until_revoked"}, unknown) \union approval(unknown)
  IN  {exchange(window, {save}, 1, 1, 5),
       exchange(PurposesOf({"elevate_until_revoked"}, Server) \union approval(Server), {send}, 2, 0, 6),
       exchange(stray, {send}, 1, 1, 3)}

ThreadSymmetry == Permutations(Thread)
Symmetry       == ThreadSymmetry \union Permutations(Nonce)

-----------------------------------------------------------------------------
(* Claims of the repository's text that the code does not meet.             *)

\* "On any change (elevation grant/expiry, pause, stop) the broker ... fires MCP
\* tools/list_changed" (DESIGN): whenever the client's list is not what is
\* exposed, the client is told, or lists, or the exposure changes back.
AnyChangeIsAnnounced ==
  \A s \in Server :
    (listing[s] # A!Exposed(s, clock)) ~> (Told \/ listing[s] = A!Exposed(s, clock))

\* The same of a grant alone, elevations with a time limit included: a tool the
\* client can call and did not see in its last list has been announced.
GrantIsAnnounced == (\E s \in Server : ~ A!Exposed(s, clock) \subseteq listing[s]) => Told

\* "Every elevation, revoke, confirm, and write-tool invocation is written to the
\* audit log" (README): a gated call sent to a child is on the tape, about to be
\* written there, or still running.
EveryGatedCallIsRecorded ==
  \A i \in DOMAIN calls :
    A!RequiresElevation(A!CallClass(i)) =>
      \/ WriteToolInvoked(i) \in audit
      \/ \E t \in Thread : event[t] = WriteToolInvoked(i)
      \/ i = Len(calls) /\ \E t \in Thread : pc[t] = "calling"

\* "At or after expiry it is inactive (fail-closed at the boundary)"
\* (Elevation::is_active): no gated call is sent to a child once the clock has
\* reached the expiry of its server's elevation.
NothingSentAfterExpiry ==
  [][Len(calls') > Len(calls) =>
       LET call == calls'[Len(calls')]
       IN  A!RequiresElevation(A!Classify(call.server, call.tool))
             => A!IsActive(elevation[call.server], clock)]_vars

\* "Start (or restart) a server: spawn it if no child is running"
\* (Aggregator::start): a start that succeeds leaves a running child.
StartLeavesARunningChild ==
  [][\A t \in Thread : req[t].op = "start" /\ Lifecycle(t)
                         => child'[req[t].server] = "alive"]_vars

\* "A child that crashed between calls has its tools dropped"
\* (Aggregator::reap_exited_children): a listing offers no tool of a dead child.
DeadChildIsNotListed ==
  [][\A t \in Thread : List(t)
       => \A s \in Server : child[s] = "dead" => listing'[s] = {}]_vars

\* "Whether the server has an active elevation" (ServerStatus::elevated).
StatusReportsActive ==
  \A s \in Server : StatusElevated(s) => A!IsActive(elevation[s], clock)
=============================================================================
