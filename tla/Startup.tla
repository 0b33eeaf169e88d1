------------------------------ MODULE Startup -------------------------------
(***************************************************************************)
(* From the manifest file to a serving daemon (crates/broker/src/main.rs:  *)
(* serve and check_manifest, with manifest loading from core's manifest.rs *)
(* and Aggregator::build): read and validate the file, spawn the children  *)
(* one after another, classify what they advertise, bind, and serve.  The  *)
(* operator may edit the file, and check it, at any time; a child may fail *)
(* to spawn or to answer, and exit at any time.                            *)
(*                                                                         *)
(* Text is a sequence of characters where the code looks into it: the id   *)
(* of a server holds no separator, the name of a tool may.  Text that is   *)
(* only measured is its length, and an environment key is what             *)
(* validate_env_key sees in it.                                            *)
(***************************************************************************)
EXTENDS Naturals, Sequences, FiniteSets

CONSTANTS
  Char, Sep, Blank,   \* characters, among them NAMESPACE_SEP and white space
  MaxManifestBytes, MaxServers, MaxIdLen, MaxCommandLen, MaxArgs, MaxValueLen,
  MaxToolsPerServer, MaxNameLen, MaxEnvPerServer,
  ServerManifest,     \* the server entries that may stand in a manifest
  Texts,              \* the files an operator may put at the manifest path
  Unreadable,         \* no file there that can be read
  Advertisements,     \* the sets of tool names a child may answer with
  ClientFiles,        \* registration files: for each client, what its key is
  MaxReviews          \* model bound: runs of --check-manifest

Name      == Seq(Char)
ToolClass == {"read", "write", "confirm"}

\* What an environment key is to validate_env_key; only "plain" passes.
KeyForm == {"plain", "empty", "too_long", "malformed", "loader"}

\* What a registered key is: not 64 hex digits, not a point, or a key.
KeyText == {"not_hex", "not_a_point", "key"}

\* Of a file that does not parse only the size matters.
Text == [bytes : Nat, parses : BOOLEAN, servers : Seq(ServerManifest)]

ASSUME StartupAssumption ==
  /\ Sep \in Char
  /\ \A s \in ServerManifest :
       /\ s.id \in Name
       /\ s.command \in Name
       /\ s.args \in Seq(Nat)
       /\ \A t \in DOMAIN s.tools : t \in Name /\ s.tools[t] \in ToolClass
       /\ s.env \subseteq [key : KeyForm, value : Nat]
  /\ Texts \subseteq Text
  /\ Unreadable \notin Texts
  /\ \A names \in Advertisements : names \subseteq Name
  /\ \A f \in ClientFiles : \A c \in DOMAIN f : f[c] \in KeyText

VARIABLES
  file,      \* what is at the manifest path
  phase,     \* where serve is
  logged,    \* the text whose integrity hash serve has logged
  servers,   \* the servers of the manifest it has parsed
  next,      \* the server that the loop of validate, or of build, is at
  seen,      \* validate: the ids of the servers before it
  slots,     \* build: what has become of the servers before it
  handles,   \* the children map: server id -> process
  running,   \* the child processes, each named by the place of its server
  registry,  \* the clients registered
  reviewed   \* history: the texts --check-manifest was run on, and what it printed

daemonVars == <<phase, logged, servers, next, seen, slots, handles, running, registry>>
vars       == <<file, daemonVars, reviewed>>

-----------------------------------------------------------------------------
(* Manifest validation (manifest.rs).                                       *)

IsBlank(text) == \A k \in DOMAIN text : text[k] = Blank   \* trim().is_empty()

WellFormed(s) ==
  /\ ~IsBlank(s.id) /\ Len(s.id) <= MaxIdLen
  /\ ~IsBlank(s.command) /\ Len(s.command) <= MaxCommandLen
  /\ Len(s.args) <= MaxArgs
  /\ \A k \in DOMAIN s.args : s.args[k] <= MaxValueLen
  /\ Cardinality(DOMAIN s.tools) <= MaxToolsPerServer
  /\ \A t \in DOMAIN s.tools : Len(t) <= MaxNameLen
  /\ Cardinality(s.env) <= MaxEnvPerServer
  /\ \A e \in s.env : e.key = "plain" /\ e.value <= MaxValueLen

\* What load_from_bytes finds before it looks at any server.
Parses(text) ==
  /\ text.bytes <= MaxManifestBytes
  /\ text.parses
  /\ Len(text.servers) <= MaxServers

\* What validate is to establish of a list of servers, said without its loop.
Valid(list) ==
  /\ \A k \in DOMAIN list : WellFormed(list[k])
  /\ \A j, k \in DOMAIN list : list[j].id = list[k].id => j = k

-----------------------------------------------------------------------------
(* Names and exposure at a cold start: running, no elevation.               *)

\* Default-deny: what the operator did not list is a write tool.
Classify(s, name) == IF name \in DOMAIN s.tools THEN s.tools[name] ELSE "write"

Classified(s, names) == {[name |-> n, class |-> Classify(s, n)] : n \in names}

RunningSlot(s, names) == [id |-> s.id, state |-> "running", tools |-> Classified(s, names)]
StoppedSlot(s)        == [id |-> s.id, state |-> "stopped", tools |-> {}]

Exposed(slot) ==
  {t.name : t \in {t \in slot.tools : slot.state = "running" /\ t.class = "read"}}

\* The name under which a server's tool is offered, "{server_id}.{tool}".
Join(id, tool) == id \o <<Sep>> \o tool

\* The places at which a name holds the separator.
SepsIn(name) == {k \in DOMAIN name : name[k] = Sep}

SplitLast(name) ==   \* mutant: rsplit_once
  LET k == CHOOSE k \in SepsIn(name) : \A j \in SepsIn(name) : j <= k
  IN  [id |-> SubSeq(name, 1, k - 1), tool |-> SubSeq(name, k + 1, Len(name))]

\* split_once, of a name that holds the separator: at its first place.
SplitOnce(name) ==
  LET k == CHOOSE k \in SepsIn(name) : \A j \in SepsIn(name) : k <= j
  IN  [id |-> SubSeq(name, 1, k - 1), tool |-> SubSeq(name, k + 1, Len(name))]

\* The slot that BrokerState::server finds: the first with that id.
SlotsOf(id) == {k \in DOMAIN slots : slots[k].id = id}
SlotOf(id)  == CHOOSE k \in SlotsOf(id) : \A j \in SlotsOf(id) : k <= j

NoRoute == [child |-> 0, tool |-> <<>>]

\* Aggregator::call at a cold start: the process a name reaches, and the tool
\* asked of it.
Route(name) ==
  LET to == SplitOnce(name)
  IN  IF /\ SepsIn(name) # {}
         /\ SlotsOf(to.id) # {}
         /\ to.tool \in Exposed(slots[SlotOf(to.id)])
         /\ to.id \in DOMAIN handles
        THEN [child |-> handles[to.id], tool |-> to.tool]
        ELSE NoRoute

-----------------------------------------------------------------------------
Init ==
  /\ file \in Texts \union {Unreadable}
  /\ phase = "load"
  /\ logged = Unreadable
  /\ servers = <<>>
  /\ next = 1
  /\ seen = {}
  /\ slots = <<>>
  /\ handles = <<>>
  /\ running = {}
  /\ registry = {}
  /\ reviewed = {}

Goto(p) == phase' = p

Held == {handles[id] : id \in DOMAIN handles}

\* serve returns: what it owns is dropped, and a dropped handle kills its child.
Exit ==
  /\ Goto("exited")
  /\ handles' = <<>>
  /\ running' = running \ Held

-----------------------------------------------------------------------------
(* Loading.                                                                 *)

LoadReadingTwice ==   \* mutant: the file is read once to hash, once to parse
  /\ phase = "load"
  /\ file \in Texts
  /\ Parses(file)
  /\ logged' = file
  /\ \E text \in Texts : Parses(text) /\ servers' = text.servers
  /\ Goto("validate")
  /\ UNCHANGED <<file, next, seen, slots, handles, running, registry, reviewed>>

\* One read: the bytes that are hashed are the bytes that are parsed.
Load ==
  /\ phase = "load"
  /\ file \in Texts
  /\ Parses(file)
  /\ logged' = file
  /\ servers' = file.servers
  /\ Goto("validate")
  /\ UNCHANGED <<file, next, seen, slots, handles, running, registry, reviewed>>

LoadFails ==
  /\ phase = "load"
  /\ file \in Texts => ~Parses(file)
  /\ Exit
  /\ UNCHANGED <<file, logged, servers, next, seen, slots, registry, reviewed>>

Accepted(s) == WellFormed(s) /\ s.id \notin seen

ValidateServer ==
  /\ phase = "validate"
  /\ next <= Len(servers)
  /\ Accepted(servers[next])
  /\ seen' = seen \union {servers[next].id}
  /\ next' = next + 1
  /\ UNCHANGED <<file, phase, logged, servers, slots, handles, running, registry, reviewed>>

Invalid ==
  /\ phase = "validate"
  /\ next <= Len(servers)
  /\ ~Accepted(servers[next])
  /\ Exit
  /\ UNCHANGED <<file, logged, servers, next, seen, slots, registry, reviewed>>

\* The manifest is good; the bearer token may still be unset or empty.
Validated ==
  /\ phase = "validate"
  /\ next > Len(servers)
  /\ \/ Goto("build") /\ next' = 1 /\ UNCHANGED <<handles, running>>
     \/ Exit /\ UNCHANGED next
  /\ UNCHANGED <<file, logged, servers, seen, slots, registry, reviewed>>

-----------------------------------------------------------------------------
(* Aggregator::build.                                                       *)

BuildsNext == phase = "build" /\ next <= Len(servers)

\* A manifest defect, found only when the servers before it have been spawned.
InvalidServerId ==
  /\ BuildsNext
  /\ SepsIn(servers[next].id) # {}
  /\ Exit
  /\ UNCHANGED <<file, logged, servers, next, seen, slots, registry, reviewed>>

Spawn ==
  /\ BuildsNext
  /\ SepsIn(servers[next].id) = {}
  /\ running' = running \union {next}
  /\ Goto("handshake")
  /\ UNCHANGED <<file, logged, servers, next, seen, slots, handles, registry, reviewed>>

SpawnFails ==
  /\ BuildsNext
  /\ SepsIn(servers[next].id) = {}
  /\ slots' = Append(slots, StoppedSlot(servers[next]))
  /\ next' = next + 1
  /\ UNCHANGED <<file, phase, logged, servers, seen, handles, running, registry, reviewed>>

\* The child has answered initialize and tools/list.  A handle that stood under
\* the same id would be dropped with its child.
Listed ==
  /\ phase = "handshake"
  /\ next \in running
  /\ \E names \in Advertisements :
       slots' = Append(slots, RunningSlot(servers[next], names))
  /\ LET id == servers[next].id
     IN  /\ handles' = [x \in DOMAIN handles \union {id} |-> IF x = id THEN next ELSE handles[x]]
         /\ running' = running \ {handles[x] : x \in DOMAIN handles \intersect {id}}
  /\ next' = next + 1
  /\ Goto("build")
  /\ UNCHANGED <<file, logged, servers, seen, registry, reviewed>>

ListFailsSkipping ==   \* mutant: a server that cannot list its tools has no slot
  /\ phase = "handshake"
  /\ running' = running \ {next}
  /\ next' = next + 1
  /\ Goto("build")
  /\ UNCHANGED <<file, logged, servers, seen, slots, handles, registry, reviewed>>

ListFailsLeaking ==   \* mutant: the child is not killed when its handle is dropped
  /\ phase = "handshake"
  /\ slots' = Append(slots, StoppedSlot(servers[next]))
  /\ next' = next + 1
  /\ Goto("build")
  /\ UNCHANGED <<file, logged, servers, seen, handles, running, registry, reviewed>>

\* It has not, or not in time: its handle is dropped before it gets into the map.
ListFails ==
  /\ phase = "handshake"
  /\ running' = running \ {next}
  /\ slots' = Append(slots, StoppedSlot(servers[next]))
  /\ next' = next + 1
  /\ Goto("build")
  /\ UNCHANGED <<file, logged, servers, seen, handles, registry, reviewed>>

Built ==
  /\ phase = "build"
  /\ next > Len(servers)
  /\ Goto("clients")
  /\ UNCHANGED <<file, logged, servers, next, seen, slots, handles, running, registry, reviewed>>

-----------------------------------------------------------------------------
(* Clients, audit log (never refused: in memory if need be) and endpoint.   *)

\* A file that is missing or is not JSON registers nobody; a bad key is skipped.
LoadRegistry ==
  /\ phase = "clients"
  /\ \/ UNCHANGED registry
     \/ \E entries \in ClientFiles :
          registry' = {c \in DOMAIN entries : entries[c] = "key"}
  /\ Goto("bind")
  /\ UNCHANGED <<file, logged, servers, next, seen, slots, handles, running, reviewed>>

BindEndpoint ==
  /\ phase = "bind"
  /\ \/ Goto("serving") /\ UNCHANGED <<handles, running>>
     \/ Exit
  /\ UNCHANGED <<file, logged, servers, next, seen, slots, registry, reviewed>>

-----------------------------------------------------------------------------
(* The operator and the children.                                           *)

\* What --check-manifest prints: the declared tools, taken for advertised.
ColdStart(list) ==
  UNION {{<<list[k].id, t>> : t \in Exposed(RunningSlot(list[k], DOMAIN list[k].tools))} :
           k \in DOMAIN list}

Review ==
  /\ Cardinality(reviewed) < MaxReviews
  /\ file \in Texts
  /\ Parses(file) /\ Valid(file.servers)
  /\ reviewed' = reviewed \union {[text |-> file, printed |-> ColdStart(file.servers)]}
  /\ UNCHANGED <<file, daemonVars>>

Edit ==
  /\ file' \in Texts \union {Unreadable}
  /\ UNCHANGED <<daemonVars, reviewed>>

ChildExits ==
  /\ \E p \in running : running' = running \ {p}
  /\ UNCHANGED <<file, phase, logged, servers, next, seen, slots, handles, registry, reviewed>>

-----------------------------------------------------------------------------
Next ==
  \/ Load \/ LoadFails
  \/ ValidateServer \/ Invalid \/ Validated
  \/ InvalidServerId \/ Spawn \/ SpawnFails \/ Listed \/ ListFails \/ Built
  \/ LoadRegistry \/ BindEndpoint
  \/ Review \/ Edit \/ ChildExits

Spec == Init /\ [][Next]_vars

-----------------------------------------------------------------------------
(* Properties.                                                              *)

Phases == {"load", "validate", "build", "handshake", "clients", "bind", "serving", "exited"}

\* While servers are built there is one slot for each server passed, in the
\* manifest's order: running with a handle, or stopped without one.
TypeOK ==
  /\ file \in Texts \union {Unreadable}
  /\ phase \in Phases
  /\ logged \in Texts \union {Unreadable}
  /\ servers \in Seq(ServerManifest)
  /\ next \in 1..Len(servers) + 1
  /\ slots \in Seq([id : Name, state : {"running", "stopped"},
                    tools : SUBSET [name : Name, class : ToolClass]])
  /\ running \subseteq DOMAIN servers
  /\ phase \in {"build", "handshake"} => Len(slots) = next - 1
  /\ phase \in {"clients", "bind", "serving"} => Len(slots) = Len(servers)
  /\ phase \notin {"load", "validate", "exited"} =>
       \A k \in DOMAIN slots :
         /\ slots[k].id = servers[k].id
         /\ (slots[k].state = "running") <=> (slots[k].id \in DOMAIN handles)

\* A name the daemon offers at its start leads back to the child that offered
\* it, and asks it for the very tool: no two servers' names collide, although
\* tools may have the separator in their names.  (aggregator.rs: "renamed to
\* {server_id}.{tool} so names never collide".)
OfferedRoutesBack ==
  phase = "serving" =>
    \A k \in DOMAIN slots : \A t \in Exposed(slots[k]) :
      Route(Join(slots[k].id, t)) = [child |-> k, tool |-> t]

\* Without an elevation, the daemon offers nothing that --check-manifest did
\* not print for a manifest with the hash that serve logged, however the file
\* is edited in the meantime and whatever the children advertise.
OfferedWasReviewed ==
  phase = "serving" =>
    \A r \in reviewed : r.text = logged =>
      \A k \in DOMAIN slots : \A t \in Exposed(slots[k]) :
        <<slots[k].id, t>> \in r.printed

\* A start that is given up half-way leaves no child process behind, and a
\* daemon that serves has a handle for every child that runs: whichever of the
\* children before could not be spawned, did not answer, or exited.
NoChildLeftBehind ==
  /\ phase = "exited" => running = {}
  /\ phase = "serving" => running \subseteq Held
=============================================================================
