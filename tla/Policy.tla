------------------------------- MODULE Policy -------------------------------
(***************************************************************************)
(* The pure policy core: how a tool is classified, when an elevation is    *)
(* active, and which tools a server exposes (crates/core/src/policy.rs and *)
(* the classes of crates/core/src/manifest.rs).  Nothing here has state:   *)
(* the modules that do pass the time in, as the code does.                 *)
(***************************************************************************)
EXTENDS Naturals

CONSTANTS
  Server,       \* the ids of the manifest's servers
  Tool,         \* tool names
  Manifest,     \* the operator's classification: per server, a function from
                \* the tools the manifest lists to their class
  MaxTimestamp  \* u64::MAX, where additions saturate

ToolClass == {"read", "write", "confirm"}

ASSUME ManifestAssumption ==
  /\ DOMAIN Manifest = Server
  /\ \A s \in Server : \A t \in DOMAIN Manifest[s] : Manifest[s][t] \in ToolClass

ASSUME TimestampAssumption == MaxTimestamp \in Nat

-----------------------------------------------------------------------------
(* Classification.  A tool the operator never listed is a write tool: the  *)
(* child cannot widen the default surface by advertising a new name.       *)

Classify(s, t) ==
  IF t \in DOMAIN Manifest[s] THEN Manifest[s][t] ELSE "write"

IsRead(class)                    == class = "read"
RequiresElevation(class)         == ~IsRead(class)
RequiresPerActionPresence(class) == class = "confirm"

-----------------------------------------------------------------------------
(* Elevations.  Mode "none" stands for Option::None; expires_at is read in  *)
(* mode "duration" only.                                                    *)

SaturatingAdd(a, b) == IF a + b <= MaxTimestamp THEN a + b ELSE MaxTimestamp
SaturatingSub(a, b) == IF a >= b THEN a - b ELSE 0

Elevation == [mode : {"none", "duration", "until_revoked"},
              granted_at : Nat, expires_at : Nat]

NoElevation == [mode |-> "none", granted_at |-> 0, expires_at |-> 0]

ForDuration(now, ttl) ==
  [mode |-> "duration", granted_at |-> now, expires_at |-> SaturatingAdd(now, ttl)]

UntilRevoked(now) ==
  [mode |-> "until_revoked", granted_at |-> now, expires_at |-> 0]

ActiveAtExpiry(e, now) ==   \* mutant: the boundary second counts as active
  \/ e.mode = "until_revoked"
  \/ e.mode = "duration" /\ now <= e.expires_at

IsActive(e, now) ==
  \/ e.mode = "until_revoked"
  \/ e.mode = "duration" /\ now < e.expires_at

-----------------------------------------------------------------------------
(* Exposure: what a server offers at a time, given the tools its child     *)
(* advertised, its lifecycle state and its elevation.                      *)

ServerState == {"running", "paused", "stopped"}

ResolveExposure(s, advertised, st, e, now) ==
  {t \in advertised : /\ st = "running"
                      /\ IsRead(Classify(s, t)) \/ IsActive(e, now)}
=============================================================================
