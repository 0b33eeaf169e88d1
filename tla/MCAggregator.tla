---------------------------- MODULE MCAggregator ----------------------------
(* Small instances of Aggregator.  The manifest lists a read and a confirm  *)
(* tool; the child also advertises a tool the operator never classified.    *)
EXTENDS Aggregator, TLC

CONSTANTS search, send, unlisted

MCManifest   == [s \in Server |-> (search :> "read") @@ (send :> "confirm")]
MCAdvertised == {{search, send, unlisted}}

AssertionSymmetry == Permutations(Assertion)

-----------------------------------------------------------------------------
(* Claims of the repository's text that the code does not meet.             *)

\* "Brings a server up read-only -- never elevated" (Aggregator::start): the
\* step that spawns a child leaves its server without an elevation.
StartComesUpReadOnly ==
  [][\A s \in Server : child[s] = "none" /\ child'[s] = "alive"
                         => elevation'[s] = NoElevation]_vars

\* "Spawned and routing" (ServerState::Running): a running server has a child.
RunningIsSpawned == \A s \in Server : state[s] = "running" => child[s] # "none"
=============================================================================
