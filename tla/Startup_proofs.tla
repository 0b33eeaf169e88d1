--------------------------- MODULE Startup_proofs ----------------------------
(***************************************************************************)
(* What a start of the daemon promises, for every manifest, whatever its   *)
(* limits, and however the file is edited and the children behave: names   *)
(* lead back to where they were offered, nothing is offered that was not   *)
(* reviewed, and no child is left behind.  The invariant carries from the  *)
(* loop of validate to the end of build that ids are distinct and hold no  *)
(* separator; that names split where they were joined is a lemma.          *)
(***************************************************************************)
EXTENDS Startup, SequenceTheorems, TLAPS

\* Distinct ids among the first n of a list of servers.
DistinctUpTo(list, n) == \A j, k \in 1..n : list[j].id = list[k].id => j = k

BeforeBuild == {"load", "validate"}
FromBuild   == {"build", "handshake", "clients", "bind", "serving"}

\* validate has passed the servers before `next`, or all of them.
Checked ==
  /\ Len(servers) \in Nat
  /\ phase = "validate" =>
       /\ seen = {servers[k].id : k \in 1..(next - 1)}
       /\ \A k \in 1..(next - 1) : WellFormed(servers[k])
       /\ DistinctUpTo(servers, next - 1)
  /\ phase \in FromBuild =>
       /\ \A k \in 1..Len(servers) : WellFormed(servers[k])
       /\ DistinctUpTo(servers, Len(servers))

\* One read: what is validated and served is what was hashed.
Logged == phase # "load" /\ phase # "exited" => logged \in Texts /\ servers = logged.servers

Reviewed == \A r \in reviewed : r.text \in Texts /\ r.printed = ColdStart(r.text.servers)

\* The slots and the children map, as far as the loop of build has come.
BuiltSoFar ==
  /\ phase \in BeforeBuild => handles = <<>> /\ slots = <<>> /\ running = {}
  /\ phase = "exited" => handles = <<>>
  /\ phase = "load" => next = 1 /\ seen = {}
  /\ phase = "handshake" => next <= Len(servers) /\ SepsIn(servers[next].id) = {}
  /\ phase \in FromBuild =>
       /\ \A k \in 1..Len(slots) :
            /\ SepsIn(servers[k].id) = {}
            /\ \A t \in slots[k].tools : t.class = Classify(servers[k], t.name)
       /\ \A id \in DOMAIN handles :
            \E k \in 1..Len(slots) : servers[k].id = id /\ handles[id] = k

\* A process that runs has a handle in the map, or is the one being set up.
AllHeld == running \subseteq Held \union (IF phase = "handshake" THEN {next} ELSE {})

Inv ==
  /\ TypeOK
  /\ Checked
  /\ Logged
  /\ Reviewed
  /\ BuiltSoFar
  /\ AllHeld

USE StartupAssumption

-----------------------------------------------------------------------------
(* Names.                                                                   *)

\* Joined at a separator and split at the first one, an id that holds none and
\* a tool come out as they went in.
LEMMA SplitOfJoin ==
  ASSUME NEW id \in Name, NEW tool \in Name, SepsIn(id) = {}
  PROVE  /\ SepsIn(Join(id, tool)) # {}
         /\ SplitOnce(Join(id, tool)) = [id |-> id, tool |-> tool]
  <1> DEFINE name == Join(id, tool)
             at   == Len(id) + 1
  <1>1. /\ name \in Seq(Char)
        /\ Len(name) = Len(id) + 1 + Len(tool)
        /\ \A k \in 1..Len(id) : name[k] = id[k]
        /\ name[at] = Sep
        /\ \A k \in 1..Len(tool) : name[at + k] = tool[k]
    <2>1. <<Sep>> \in Seq(Char) /\ Len(<<Sep>>) = 1 /\ <<Sep>>[1] = Sep
      OBVIOUS
    <2>2. /\ id \o <<Sep>> \in Seq(Char)
          /\ Len(id \o <<Sep>>) = Len(id) + 1
          /\ \A k \in 1..Len(id) + 1 :
               (id \o <<Sep>>)[k] = IF k <= Len(id) THEN id[k] ELSE <<Sep>>[k - Len(id)]
      BY <2>1, ConcatProperties DEF Name
    <2>3. /\ name \in Seq(Char)
          /\ Len(name) = Len(id) + 1 + Len(tool)
          /\ \A k \in 1..Len(id) + 1 + Len(tool) :
               name[k] = IF k <= Len(id) + 1 THEN (id \o <<Sep>>)[k] ELSE tool[k - (Len(id) + 1)]
      BY <2>2, ConcatProperties DEF Name, Join
    <2>4. Len(id) \in Nat /\ Len(tool) \in Nat
      BY DEF Name
    <2>5. \A k \in 1..Len(id) : name[k] = id[k]
      BY <2>2, <2>3, <2>4
    <2>6. name[at] = Sep
      BY <2>1, <2>2, <2>3, <2>4
    <2>7. \A k \in 1..Len(tool) : name[at + k] = tool[k]
      BY <2>3, <2>4
    <2>. QED
      BY <2>3, <2>5, <2>6, <2>7
  <1>2. at \in SepsIn(name) /\ \A j \in SepsIn(name) : at <= j
    <2>1. at \in DOMAIN name /\ DOMAIN name = 1..Len(name) /\ Len(id) \in Nat
      BY <1>1, LenProperties DEF Name
    <2>2. \A j \in 1..Len(id) : id[j] # Sep
      BY LenProperties DEF SepsIn, Name
    <2>. QED
      BY <1>1, <2>1, <2>2 DEF SepsIn
  <1>3. at = CHOOSE k \in SepsIn(name) : \A j \in SepsIn(name) : k <= j
    <2>1. \A k \in SepsIn(name) : k \in Nat
      BY <1>1, LenProperties DEF SepsIn
    <2>. QED
      BY <1>2, <2>1
  <1>4. SubSeq(name, 1, at - 1) = id
    <2>. Len(id) \in Nat
      BY DEF Name
    <2>. QED
      BY <1>1, SubSeqProperties, SeqEqual DEF Name
  <1>5. SubSeq(name, at + 1, Len(name)) = tool
    <2>. Len(id) \in Nat /\ Len(tool) \in Nat
      BY DEF Name
    <2>. QED
      BY <1>1, SubSeqProperties, SeqEqual DEF Name
  <1>. QED
    BY <1>2, <1>3, <1>4, <1>5 DEF SplitOnce

-----------------------------------------------------------------------------
(* Slots.                                                                   *)

SlotType == [id : Name, state : {"running", "stopped"}, tools : SUBSET [name : Name, class : ToolClass]]

LEMMA ClassifyType ==
  ASSUME NEW s \in ServerManifest, NEW name
  PROVE  Classify(s, name) \in ToolClass
  BY DEF Classify, ToolClass

LEMMA SlotTyped ==
  ASSUME NEW s \in ServerManifest
  PROVE  /\ StoppedSlot(s) \in SlotType
         /\ \A names \in Advertisements : RunningSlot(s, names) \in SlotType
  <1>1. s.id \in Name
    OBVIOUS
  <1>2. \A names \in Advertisements : Classified(s, names) \subseteq [name : Name, class : ToolClass]
    BY ClassifyType DEF Classified
  <1>. QED
    BY <1>1, <1>2 DEF SlotType, StoppedSlot, RunningSlot

LEMMA Appended ==
  ASSUME NEW S, NEW list \in Seq(S), NEW x \in S
  PROVE  /\ Append(list, x) \in Seq(S)
         /\ Len(list) \in Nat
         /\ Len(Append(list, x)) = Len(list) + 1
         /\ DOMAIN Append(list, x) = 1..Len(list) + 1
         /\ \A k \in 1..Len(list) : Append(list, x)[k] = list[k]
         /\ Append(list, x)[Len(list) + 1] = x
  OBVIOUS

-----------------------------------------------------------------------------
(* The invariant.                                                           *)

LEMMA InitInv == Init => Inv
  <1>. SUFFICES ASSUME Init PROVE Inv
    OBVIOUS
  <1>1. TypeOK
    BY DEF Init, TypeOK, Phases
  <1>2. Checked /\ Logged /\ Reviewed /\ BuiltSoFar /\ AllHeld
    BY DEF Init, Checked, Logged, Reviewed, BuiltSoFar, AllHeld, FromBuild, BeforeBuild
  <1>. QED
    BY <1>1, <1>2 DEF Inv

\* Facts about a state in which the invariant holds and build or validate runs.
LEMMA NextServer ==
  ASSUME Inv, next <= Len(servers)
  PROVE  /\ next \in 1..Len(servers)
         /\ servers[next] \in ServerManifest
         /\ servers[next].id \in Name
         /\ Len(servers) \in Nat /\ DOMAIN servers = 1..Len(servers)
  BY DEF Inv, TypeOK

\* The server that build is at has an id that none before it has.
LEMMA LastIdIsNew ==
  ASSUME Inv, next <= Len(servers), phase \in {"build", "handshake"}
  PROVE  /\ Len(slots) = next - 1
         /\ \A k \in DOMAIN slots : slots[k].id # servers[next].id
         /\ servers[next].id \notin DOMAIN handles
  <1>1. next \in 1..Len(servers) /\ Len(servers) \in Nat
    BY NextServer
  <1>2. Len(slots) = next - 1 /\ DOMAIN slots = 1..(next - 1)
    BY <1>1 DEF Inv, TypeOK
  <1>3. \A k \in 1..(next - 1) : servers[k].id # servers[next].id
    BY <1>1 DEF Inv, Checked, DistinctUpTo, FromBuild
  <1>4. \A k \in DOMAIN slots : slots[k].id = servers[k].id
    BY DEF Inv, TypeOK
  <1>5. \A id \in DOMAIN handles : \E k \in 1..(next - 1) : servers[k].id = id
    BY <1>2 DEF Inv, BuiltSoFar, FromBuild
  <1>. QED
    BY <1>2, <1>3, <1>4, <1>5

LEMMA StepTypeOK == Inv /\ [Next]_vars => TypeOK'
  <1>. SUFFICES ASSUME Inv, [Next]_vars PROVE TypeOK'
    OBVIOUS
  <1>. USE DEF Inv, Goto, Exit
  <1>1. CASE Load
    <2>1. file.servers \in Seq(ServerManifest)
      BY <1>1 DEF Load, Text
    <2>2. slots = <<>> /\ running = {} /\ next = 1
      BY <1>1 DEF Load, BuiltSoFar, BeforeBuild
    <2>. QED
      BY <1>1, <2>1, <2>2 DEF Load, TypeOK, Phases
  <1>2. CASE LoadFails
    BY <1>2 DEF LoadFails, TypeOK, Phases
  <1>3. CASE ValidateServer
    BY <1>3 DEF ValidateServer, TypeOK, Phases
  <1>4. CASE Invalid
    BY <1>4 DEF Invalid, TypeOK, Phases
  <1>5. CASE Validated
    BY <1>5 DEF Validated, TypeOK, Phases, BuiltSoFar, BeforeBuild
  <1>6. CASE InvalidServerId
    BY <1>6 DEF InvalidServerId, BuildsNext, TypeOK, Phases
  <1>7. CASE Spawn
    BY <1>7 DEF Spawn, BuildsNext, TypeOK, Phases
  <1>8. CASE SpawnFails
    <2>1. next <= Len(servers) /\ phase = "build"
      BY <1>8 DEF SpawnFails, BuildsNext
    <2>2. StoppedSlot(servers[next]) \in SlotType
      BY <2>1, NextServer, SlotTyped
    <2>3. servers[next].id \notin DOMAIN handles
      BY <2>1, NextServer, LastIdIsNew
    <2>. QED
      BY <1>8, <2>1, <2>2, <2>3, NextServer, Appended
         DEF SpawnFails, TypeOK, Phases, SlotType, StoppedSlot
  <1>9. CASE Listed
    <2>1. next <= Len(servers) /\ phase = "handshake"
      BY <1>9 DEF Listed, BuiltSoFar
    <2>2. PICK names \in Advertisements : slots' = Append(slots, RunningSlot(servers[next], names))
      BY <1>9 DEF Listed
    <2>3. RunningSlot(servers[next], names) \in SlotType
      BY <2>1, NextServer, SlotTyped
    <2>4. /\ DOMAIN handles' = DOMAIN handles \union {servers[next].id}
          /\ servers' = servers /\ next' = next + 1 /\ phase' = "build"
          /\ running' \subseteq running /\ file' = file /\ logged' = logged
      BY <1>9 DEF Listed
    <2>5. \A k \in DOMAIN slots : slots[k].id # servers[next].id
      BY <2>1, NextServer, LastIdIsNew
    <2>. QED
      BY <2>1, <2>2, <2>3, <2>4, <2>5, NextServer, Appended
         DEF TypeOK, Phases, SlotType, RunningSlot
  <1>10. CASE ListFails
    <2>1. next <= Len(servers) /\ phase = "handshake"
      BY <1>10 DEF ListFails, BuiltSoFar
    <2>2. StoppedSlot(servers[next]) \in SlotType
      BY <2>1, NextServer, SlotTyped
    <2>3. servers[next].id \notin DOMAIN handles
      BY <2>1, NextServer, LastIdIsNew
    <2>. QED
      BY <1>10, <2>1, <2>2, <2>3, NextServer, Appended
         DEF ListFails, TypeOK, Phases, SlotType, StoppedSlot
  <1>11. CASE Built
    BY <1>11 DEF Built, TypeOK, Phases
  <1>12. CASE LoadRegistry
    BY <1>12 DEF LoadRegistry, TypeOK, Phases
  <1>13. CASE BindEndpoint
    BY <1>13 DEF BindEndpoint, TypeOK, Phases
  <1>14. CASE Review
    BY <1>14 DEF Review, daemonVars, TypeOK
  <1>15. CASE Edit
    BY <1>15 DEF Edit, daemonVars, TypeOK
  <1>16. CASE ChildExits
    BY <1>16 DEF ChildExits, TypeOK
  <1>17. CASE UNCHANGED vars
    BY <1>17 DEF vars, daemonVars, TypeOK
  <1>. QED
    BY <1>1, <1>2, <1>3, <1>4, <1>5, <1>6, <1>7, <1>8, <1>9, <1>10, <1>11, <1>12, <1>13, <1>14, <1>15, <1>16, <1>17 DEF Next

LEMMA StepChecked == Inv /\ [Next]_vars => Checked'
  <1>. SUFFICES ASSUME Inv, [Next]_vars PROVE Checked'
    OBVIOUS
  <1>. USE DEF Inv, Goto, Exit, Checked, FromBuild
  <1>1. CASE Load
    <2>1. Len(file.servers) \in Nat
      BY <1>1 DEF Load, Text
    <2>2. next = 1 /\ seen = {}
      BY <1>1 DEF Load, BuiltSoFar
    <2>. QED
      BY <1>1, <2>1, <2>2 DEF Load, DistinctUpTo
  <1>2. CASE LoadFails
    BY <1>2 DEF LoadFails
  <1>3. CASE ValidateServer
    <2>1. next \in 1..Len(servers) /\ Len(servers) \in Nat
      BY <1>3, NextServer DEF ValidateServer
    <2>2. WellFormed(servers[next]) /\ servers[next].id \notin seen
      BY <1>3 DEF ValidateServer, Accepted
    <2>3. /\ servers' = servers /\ phase' = "validate" /\ phase = "validate"
          /\ next' - 1 = next
          /\ seen' = seen \union {servers[next].id}
      BY <1>3, <2>1 DEF ValidateServer
    <2>4. seen' = {servers[k].id : k \in 1..next}
      BY <2>1, <2>3
    <2>5. \A k \in 1..next : WellFormed(servers[k])
      BY <2>1, <2>2, <2>3
    <2>6. DistinctUpTo(servers, next)
      BY <2>1, <2>2, <2>3 DEF DistinctUpTo
    <2>. QED
      BY <2>1, <2>3, <2>4, <2>5, <2>6 DEF DistinctUpTo
  <1>4. CASE Invalid
    BY <1>4 DEF Invalid
  <1>5. CASE Validated
    <2>1. next - 1 = Len(servers)
      BY <1>5 DEF Validated, TypeOK
    <2>. QED
      BY <1>5, <2>1 DEF Validated, DistinctUpTo
  <1>6. CASE InvalidServerId
    BY <1>6 DEF InvalidServerId, BuildsNext
  <1>7. CASE Spawn
    BY <1>7 DEF Spawn, BuildsNext
  <1>8. CASE SpawnFails
    BY <1>8 DEF SpawnFails, BuildsNext
  <1>9. CASE Listed
    BY <1>9 DEF Listed
  <1>10. CASE ListFails
    BY <1>10 DEF ListFails
  <1>11. CASE Built
    BY <1>11 DEF Built
  <1>12. CASE LoadRegistry
    BY <1>12 DEF LoadRegistry
  <1>13. CASE BindEndpoint
    BY <1>13 DEF BindEndpoint
  <1>14. CASE Review
    BY <1>14 DEF Review, daemonVars
  <1>15. CASE Edit
    BY <1>15 DEF Edit, daemonVars
  <1>16. CASE ChildExits
    BY <1>16 DEF ChildExits
  <1>17. CASE UNCHANGED vars
    BY <1>17 DEF vars, daemonVars
  <1>. QED
    BY <1>1, <1>2, <1>3, <1>4, <1>5, <1>6, <1>7, <1>8, <1>9, <1>10, <1>11, <1>12, <1>13, <1>14, <1>15, <1>16, <1>17 DEF Next

\* One more slot, for the server that build is at, keeps what is known of the
\* slots and of the handles before it.
LEMMA OneMoreSlot ==
  ASSUME Inv, phase \in {"build", "handshake"}, next <= Len(servers),
         SepsIn(servers[next].id) = {},
         NEW slot \in SlotType,
         \A t \in slot.tools : t.class = Classify(servers[next], t.name)
  PROVE  /\ Len(Append(slots, slot)) = next
         /\ \A k \in 1..next :
              /\ SepsIn(servers[k].id) = {}
              /\ \A t \in Append(slots, slot)[k].tools : t.class = Classify(servers[k], t.name)
         /\ \A id \in DOMAIN handles : \E k \in 1..next : servers[k].id = id /\ handles[id] = k
  <1>1. Len(slots) = next - 1 /\ next \in 1..Len(servers) /\ Len(servers) \in Nat
    BY NextServer, LastIdIsNew
  <1>2. slots \in Seq(SlotType)
    BY DEF Inv, TypeOK, SlotType
  <1>3. /\ Len(Append(slots, slot)) = next
        /\ \A k \in 1..(next - 1) : Append(slots, slot)[k] = slots[k]
        /\ Append(slots, slot)[next] = slot
    BY <1>1, <1>2, Appended
  <1>4. /\ \A k \in 1..(next - 1) :
             /\ SepsIn(servers[k].id) = {}
             /\ \A t \in slots[k].tools : t.class = Classify(servers[k], t.name)
        /\ \A id \in DOMAIN handles : \E k \in 1..(next - 1) : servers[k].id = id /\ handles[id] = k
    BY <1>1 DEF Inv, BuiltSoFar, FromBuild
  <1>5. ASSUME NEW k \in 1..next
        PROVE  /\ SepsIn(servers[k].id) = {}
               /\ \A t \in Append(slots, slot)[k].tools : t.class = Classify(servers[k], t.name)
    <2>1. CASE k = next
      BY <1>3, <2>1
    <2>2. CASE k \in 1..(next - 1)
      BY <1>3, <1>4, <2>2
    <2>. QED
      BY <1>1, <2>1, <2>2
  <1>6. 1..(next - 1) \subseteq 1..next
    BY <1>1
  <1>. QED
    BY <1>3, <1>4, <1>5, <1>6

LEMMA StepLogged == Inv /\ [Next]_vars => Logged'
  <1>. SUFFICES ASSUME Inv, [Next]_vars PROVE Logged'
    OBVIOUS
  <1>. USE DEF Inv, Goto, Exit, Logged
  <1>1. CASE Load
    BY <1>1 DEF Load
  <1>2. CASE LoadFails
    BY <1>2 DEF LoadFails
  <1>3. CASE ValidateServer
    BY <1>3 DEF ValidateServer
  <1>4. CASE Invalid
    BY <1>4 DEF Invalid
  <1>5. CASE Validated
    BY <1>5 DEF Validated
  <1>6. CASE InvalidServerId
    BY <1>6 DEF InvalidServerId, BuildsNext
  <1>7. CASE Spawn
    BY <1>7 DEF Spawn, BuildsNext
  <1>8. CASE SpawnFails
    BY <1>8 DEF SpawnFails, BuildsNext
  <1>9. CASE Listed
    BY <1>9 DEF Listed
  <1>10. CASE ListFails
    BY <1>10 DEF ListFails
  <1>11. CASE Built
    BY <1>11 DEF Built
  <1>12. CASE LoadRegistry
    BY <1>12 DEF LoadRegistry
  <1>13. CASE BindEndpoint
    BY <1>13 DEF BindEndpoint
  <1>14. CASE Review
    BY <1>14 DEF Review, daemonVars
  <1>15. CASE Edit
    BY <1>15 DEF Edit, daemonVars
  <1>16. CASE ChildExits
    BY <1>16 DEF ChildExits
  <1>17. CASE UNCHANGED vars
    BY <1>17 DEF vars, daemonVars
  <1>. QED
    BY <1>1, <1>2, <1>3, <1>4, <1>5, <1>6, <1>7, <1>8, <1>9, <1>10, <1>11, <1>12, <1>13, <1>14, <1>15, <1>16, <1>17 DEF Next

LEMMA StepReviewed == Inv /\ [Next]_vars => Reviewed'
  <1>. SUFFICES ASSUME Inv, [Next]_vars PROVE Reviewed'
    OBVIOUS
  <1>. USE DEF Inv, Goto, Exit, Reviewed
  <1>1. CASE Load
    BY <1>1 DEF Load
  <1>2. CASE LoadFails
    BY <1>2 DEF LoadFails
  <1>3. CASE ValidateServer
    BY <1>3 DEF ValidateServer
  <1>4. CASE Invalid
    BY <1>4 DEF Invalid
  <1>5. CASE Validated
    BY <1>5 DEF Validated
  <1>6. CASE InvalidServerId
    BY <1>6 DEF InvalidServerId, BuildsNext
  <1>7. CASE Spawn
    BY <1>7 DEF Spawn, BuildsNext
  <1>8. CASE SpawnFails
    BY <1>8 DEF SpawnFails, BuildsNext
  <1>9. CASE Listed
    BY <1>9 DEF Listed
  <1>10. CASE ListFails
    BY <1>10 DEF ListFails
  <1>11. CASE Built
    BY <1>11 DEF Built
  <1>12. CASE LoadRegistry
    BY <1>12 DEF LoadRegistry
  <1>13. CASE BindEndpoint
    BY <1>13 DEF BindEndpoint
  <1>14. CASE Review
    BY <1>14 DEF Review, daemonVars
  <1>15. CASE Edit
    BY <1>15 DEF Edit, daemonVars
  <1>16. CASE ChildExits
    BY <1>16 DEF ChildExits
  <1>17. CASE UNCHANGED vars
    BY <1>17 DEF vars, daemonVars
  <1>. QED
    BY <1>1, <1>2, <1>3, <1>4, <1>5, <1>6, <1>7, <1>8, <1>9, <1>10, <1>11, <1>12, <1>13, <1>14, <1>15, <1>16, <1>17 DEF Next

\* A step that leaves the slots and the handles alone, and starts no process.
LEMMA BuiltStays ==
  ASSUME BuiltSoFar, UNCHANGED <<phase, servers, next, seen, slots, handles>>,
         running' \subseteq running
  PROVE  BuiltSoFar'
  <1>1. /\ (phase \in BeforeBuild)' => (handles = <<>> /\ slots = <<>>)' /\ running' = {}
        /\ (phase = "exited")' => (handles = <<>>)'
        /\ (phase = "load")' => (next = 1 /\ seen = {})'
        /\ (phase = "handshake")' => (next <= Len(servers) /\ SepsIn(servers[next].id) = {})'
    BY DEF BuiltSoFar, BeforeBuild
  <1>2. ASSUME (phase \in FromBuild)'
        PROVE  /\ \A k \in 1..Len(slots') :
                    /\ SepsIn(servers'[k].id) = {}
                    /\ \A t \in slots'[k].tools : t.class = Classify(servers'[k], t.name)
               /\ \A id \in DOMAIN handles' :
                    \E k \in 1..Len(slots') : servers'[k].id = id /\ handles'[id] = k
    BY <1>2 DEF BuiltSoFar, FromBuild
  <1>. QED BY <1>1, <1>2 DEF BuiltSoFar

LEMMA StepBuiltSoFar == Inv /\ [Next]_vars => BuiltSoFar'
  <1>. SUFFICES ASSUME Inv, [Next]_vars PROVE BuiltSoFar'
    OBVIOUS
  <1>. USE DEF Goto, Exit, BuiltSoFar, BeforeBuild, FromBuild
  <1>0. TypeOK /\ BuiltSoFar
    BY DEF Inv
  <1>1. CASE Load
    BY <1>0, <1>1 DEF Load
  <1>2. CASE LoadFails
    BY <1>0, <1>2 DEF LoadFails
  <1>3. CASE ValidateServer
    BY <1>0, <1>3 DEF ValidateServer
  <1>4. CASE Invalid
    BY <1>0, <1>4 DEF Invalid
  <1>5. CASE Validated
    BY <1>0, <1>5 DEF Validated
  <1>6. CASE InvalidServerId
    BY <1>0, <1>6 DEF InvalidServerId, BuildsNext
  <1>7. CASE Spawn
    BY <1>0, <1>7 DEF Spawn, BuildsNext
  <1>8. CASE SpawnFails
    <2>. HIDE DEF BuiltSoFar, BeforeBuild, FromBuild
    <2>1. next <= Len(servers) /\ phase = "build" /\ SepsIn(servers[next].id) = {}
      BY <1>8 DEF SpawnFails, BuildsNext
    <2>2. StoppedSlot(servers[next]) \in SlotType /\ StoppedSlot(servers[next]).tools = {}
      BY <2>1, NextServer, SlotTyped DEF StoppedSlot
    <2>3. /\ slots' = Append(slots, StoppedSlot(servers[next]))
          /\ phase' = "build" /\ servers' = servers /\ handles' = handles
      BY <1>8, <2>1 DEF SpawnFails
    <2>4. /\ Len(slots') = next
          /\ \A k \in 1..next :
               /\ SepsIn(servers[k].id) = {}
               /\ \A t \in slots'[k].tools : t.class = Classify(servers[k], t.name)
          /\ \A id \in DOMAIN handles : \E k \in 1..next : servers[k].id = id /\ handles[id] = k
      BY <2>1, <2>2, <2>3, OneMoreSlot
    <2>. QED
      BY <2>3, <2>4 DEF BuiltSoFar, BeforeBuild, FromBuild
  <1>9. CASE Listed
    <2>. HIDE DEF BuiltSoFar, BeforeBuild, FromBuild
    <2>1. next <= Len(servers) /\ phase = "handshake" /\ SepsIn(servers[next].id) = {}
      BY <1>0, <1>9 DEF Listed, BuiltSoFar
    <2>2. PICK names \in Advertisements : slots' = Append(slots, RunningSlot(servers[next], names))
      BY <1>9 DEF Listed
    <2>3. /\ RunningSlot(servers[next], names) \in SlotType
          /\ \A t \in RunningSlot(servers[next], names).tools :
               t.class = Classify(servers[next], t.name)
      BY <2>1, NextServer, SlotTyped DEF RunningSlot, Classified
    <2>4. /\ phase' = "build" /\ servers' = servers
          /\ DOMAIN handles' = DOMAIN handles \union {servers[next].id}
          /\ \A id \in DOMAIN handles' :
               handles'[id] = IF id = servers[next].id THEN next ELSE handles[id]
      BY <1>9 DEF Listed
    <2>5. next \in 1..next
      BY <2>1, NextServer
    <2>6. /\ Len(slots') = next
          /\ \A k \in 1..next :
               /\ SepsIn(servers[k].id) = {}
               /\ \A t \in slots'[k].tools : t.class = Classify(servers[k], t.name)
          /\ \A id \in DOMAIN handles : \E k \in 1..next : servers[k].id = id /\ handles[id] = k
      BY <2>1, <2>2, <2>3, OneMoreSlot
    <2>. QED
      BY <2>4, <2>5, <2>6 DEF BuiltSoFar, BeforeBuild, FromBuild
  <1>10. CASE ListFails
    <2>. HIDE DEF BuiltSoFar, BeforeBuild, FromBuild
    <2>1. next <= Len(servers) /\ phase = "handshake" /\ SepsIn(servers[next].id) = {}
      BY <1>0, <1>10 DEF ListFails, BuiltSoFar
    <2>2. StoppedSlot(servers[next]) \in SlotType /\ StoppedSlot(servers[next]).tools = {}
      BY <2>1, NextServer, SlotTyped DEF StoppedSlot
    <2>3. /\ slots' = Append(slots, StoppedSlot(servers[next]))
          /\ phase' = "build" /\ servers' = servers /\ handles' = handles
      BY <1>10, <2>1 DEF ListFails
    <2>4. /\ Len(slots') = next
          /\ \A k \in 1..next :
               /\ SepsIn(servers[k].id) = {}
               /\ \A t \in slots'[k].tools : t.class = Classify(servers[k], t.name)
          /\ \A id \in DOMAIN handles : \E k \in 1..next : servers[k].id = id /\ handles[id] = k
      BY <2>1, <2>2, <2>3, OneMoreSlot
    <2>. QED
      BY <2>3, <2>4 DEF BuiltSoFar, BeforeBuild, FromBuild
  <1>11. CASE Built
    BY <1>0, <1>11 DEF Built
  <1>12. CASE LoadRegistry
    BY SMTT(30), <1>0, <1>12 DEF LoadRegistry
  <1>13. CASE BindEndpoint
    <2>1. CASE phase' = "serving"
      <3>1. UNCHANGED <<servers, next, seen, slots, handles>>
        BY <1>13, <2>1 DEF BindEndpoint
      <3>. QED
        BY <1>0, <1>13, <2>1, <3>1 DEF BindEndpoint
    <2>2. CASE phase' = "exited"
      <3>1. handles' = <<>>
        BY <1>13, <2>2 DEF BindEndpoint
      <3>. QED
        BY <2>2, <3>1
    <2>. QED
      BY <1>13, <2>1, <2>2 DEF BindEndpoint
  <1>14. CASE Review
    <2>. HIDE DEF BuiltSoFar, BeforeBuild, FromBuild
    <2>1. UNCHANGED <<phase, servers, next, seen, slots, handles>> /\ running' \subseteq running
      BY <1>14 DEF Review, daemonVars
    <2>. QED
      BY <1>0, <2>1, BuiltStays
  <1>15. CASE Edit
    <2>. HIDE DEF BuiltSoFar, BeforeBuild, FromBuild
    <2>1. UNCHANGED <<phase, servers, next, seen, slots, handles>> /\ running' \subseteq running
      BY <1>15 DEF Edit, daemonVars
    <2>. QED
      BY <1>0, <2>1, BuiltStays
  <1>16. CASE ChildExits
    <2>. HIDE DEF BuiltSoFar, BeforeBuild, FromBuild
    <2>1. UNCHANGED <<phase, servers, next, seen, slots, handles>> /\ running' \subseteq running
      BY <1>16 DEF ChildExits
    <2>. QED
      BY <1>0, <2>1, BuiltStays
  <1>17. CASE UNCHANGED vars
    <2>. HIDE DEF BuiltSoFar, BeforeBuild, FromBuild
    <2>1. UNCHANGED <<phase, servers, next, seen, slots, handles>> /\ running' \subseteq running
      BY <1>17 DEF vars, daemonVars
    <2>. QED
      BY <1>0, <2>1, BuiltStays
  <1>. QED
    BY <1>1, <1>2, <1>3, <1>4, <1>5, <1>6, <1>7, <1>8, <1>9, <1>10, <1>11, <1>12, <1>13, <1>14, <1>15, <1>16, <1>17 DEF Next

LEMMA StepAllHeld == Inv /\ [Next]_vars => AllHeld'
  <1>. SUFFICES ASSUME Inv, [Next]_vars PROVE AllHeld'
    OBVIOUS
  <1>. USE DEF Inv, Goto, Exit, AllHeld, Held
  <1>1. CASE Load
    BY <1>1 DEF Load, BuiltSoFar, BeforeBuild
  <1>2. CASE LoadFails
    BY <1>2 DEF LoadFails
  <1>3. CASE ValidateServer
    BY <1>3 DEF ValidateServer, BuiltSoFar, BeforeBuild
  <1>4. CASE Invalid
    BY <1>4 DEF Invalid
  <1>5. CASE Validated
    BY <1>5 DEF Validated, BuiltSoFar, BeforeBuild
  <1>6. CASE InvalidServerId
    BY <1>6 DEF InvalidServerId, BuildsNext
  <1>7. CASE Spawn
    BY <1>7 DEF Spawn, BuildsNext
  <1>8. CASE SpawnFails
    BY <1>8 DEF SpawnFails, BuildsNext
  <1>9. CASE Listed
    <2>1. next <= Len(servers) /\ phase = "handshake" /\ servers[next].id \notin DOMAIN handles
      BY <1>9, LastIdIsNew DEF Listed, BuiltSoFar
    <2>2. /\ DOMAIN handles' = DOMAIN handles \union {servers[next].id}
          /\ \A id \in DOMAIN handles : handles'[id] = handles[id]
          /\ handles'[servers[next].id] = next
          /\ running' \subseteq running
      BY <1>9, <2>1 DEF Listed
    <2>. QED
      BY <2>1, <2>2
  <1>10. CASE ListFails
    BY <1>10 DEF ListFails
  <1>11. CASE Built
    BY <1>11 DEF Built
  <1>12. CASE LoadRegistry
    BY <1>12 DEF LoadRegistry
  <1>13. CASE BindEndpoint
    BY <1>13 DEF BindEndpoint
  <1>14. CASE Review
    BY <1>14 DEF Review, daemonVars
  <1>15. CASE Edit
    BY <1>15 DEF Edit, daemonVars
  <1>16. CASE ChildExits
    BY <1>16 DEF ChildExits
  <1>17. CASE UNCHANGED vars
    BY <1>17 DEF vars, daemonVars
  <1>. QED
    BY <1>1, <1>2, <1>3, <1>4, <1>5, <1>6, <1>7, <1>8, <1>9, <1>10, <1>11, <1>12, <1>13, <1>14, <1>15, <1>16, <1>17 DEF Next

\* What a start keeps, step by step.
THEOREM Invariant == Spec => []Inv
  <1>1. Inv /\ [Next]_vars => Inv'
    BY StepTypeOK, StepChecked, StepLogged, StepReviewed, StepBuiltSoFar, StepAllHeld DEF Inv
  <1>. QED
    BY <1>1, InitInv, PTL DEF Spec

-----------------------------------------------------------------------------
(* The theorems.                                                            *)

\* The slots correspond to the manifest's servers and a server runs exactly if
\* it has a handle, in every reachable state of a start.
THEOREM TypeCorrect == Spec => []TypeOK
  <1>1. Inv => TypeOK
    BY DEF Inv
  <1>. QED
    BY <1>1, Invariant, PTL

\* Of a daemon that serves, every slot with a tool to offer belongs to a child
\* that its id, and no other, leads to.
LEMMA ServingSlot ==
  ASSUME Inv, phase = "serving", NEW k \in DOMAIN slots, NEW t \in Exposed(slots[k])
  PROVE  /\ k \in 1..Len(servers)
         /\ slots[k].id = servers[k].id
         /\ slots[k].id \in Name /\ SepsIn(slots[k].id) = {}
         /\ t \in Name
         /\ Classify(servers[k], t) = "read"
         /\ SlotsOf(slots[k].id) = {k}
         /\ slots[k].id \in DOMAIN handles /\ handles[slots[k].id] = k
  <1>1. /\ Len(slots) = Len(servers) /\ Len(servers) \in Nat
        /\ DOMAIN slots = 1..Len(servers)
        /\ slots[k] \in SlotType
        /\ \A j \in DOMAIN slots : slots[j].id = servers[j].id
        /\ slots[k].state = "running" => slots[k].id \in DOMAIN handles
    <2>1. slots \in Seq(SlotType) /\ servers \in Seq(ServerManifest) /\ Len(slots) = Len(servers)
      BY DEF Inv, TypeOK, SlotType
    <2>2. \A j \in DOMAIN slots :
            /\ slots[j].id = servers[j].id
            /\ (slots[j].state = "running") <=> (slots[j].id \in DOMAIN handles)
      BY DEF Inv, TypeOK
    <2>. QED
      BY <2>1, <2>2
  <1>2. DistinctUpTo(servers, Len(servers))
    BY DEF Inv, Checked, FromBuild
  <1>3. /\ SepsIn(servers[k].id) = {}
        /\ \A x \in slots[k].tools : x.class = Classify(servers[k], x.name)
        /\ \A id \in DOMAIN handles : \E j \in 1..Len(slots) : servers[j].id = id /\ handles[id] = j
    BY <1>1 DEF Inv, BuiltSoFar, FromBuild
  <1>4. PICK x \in slots[k].tools : x.name = t /\ slots[k].state = "running" /\ x.class = "read"
    BY DEF Exposed
  <1>5. t \in Name
    BY <1>1, <1>4 DEF SlotType
  <1>6. SlotsOf(slots[k].id) = {k}
    BY <1>1, <1>2 DEF SlotsOf, DistinctUpTo
  <1>7. handles[slots[k].id] = k
    BY <1>1, <1>2, <1>3, <1>4 DEF DistinctUpTo
  <1>. QED
    BY <1>1, <1>3, <1>4, <1>5, <1>6, <1>7 DEF SlotType

\* A name that the daemon offers once it serves leads back to the child that
\* offered it, whatever separators the names of tools hold.
THEOREM NamesLeadBack == Spec => []OfferedRoutesBack
  <1>1. ASSUME Inv, phase = "serving", NEW k \in DOMAIN slots, NEW t \in Exposed(slots[k])
        PROVE  Route(Join(slots[k].id, t)) = [child |-> k, tool |-> t]
    <2> DEFINE name == Join(slots[k].id, t)
    <2>1. /\ SlotsOf(slots[k].id) = {k}
          /\ slots[k].id \in DOMAIN handles /\ handles[slots[k].id] = k
          /\ k \in Nat
      BY <1>1, ServingSlot
    <2>2. SepsIn(name) # {} /\ SplitOnce(name) = [id |-> slots[k].id, tool |-> t]
      BY <1>1, ServingSlot, SplitOfJoin
    <2>3. SlotOf(slots[k].id) = k
      BY <2>1 DEF SlotOf
    <2>. HIDE DEF name
    <2>4. SplitOnce(name).id = slots[k].id /\ SplitOnce(name).tool = t
      BY <2>2
    <2>5. /\ SlotsOf(SplitOnce(name).id) # {}
          /\ SplitOnce(name).tool \in Exposed(slots[SlotOf(SplitOnce(name).id)])
          /\ SplitOnce(name).id \in DOMAIN handles
          /\ handles[SplitOnce(name).id] = k
      BY <1>1, <2>1, <2>3, <2>4
    <2>6. Route(name) = [child |-> k, tool |-> t]
      BY <2>2, <2>4, <2>5 DEF Route
    <2>. QED
      BY <2>6 DEF name
  <1>2. Inv => OfferedRoutesBack
    BY <1>1 DEF OfferedRoutesBack
  <1>. QED
    BY <1>2, Invariant, PTL

\* What a serving daemon offers without an elevation was printed by every
\* --check-manifest of a manifest with the hash that was logged.
THEOREM OfferedIsReviewed == Spec => []OfferedWasReviewed
  <1>1. ASSUME Inv, phase = "serving", NEW r \in reviewed, r.text = logged,
               NEW k \in DOMAIN slots, NEW t \in Exposed(slots[k])
        PROVE  <<slots[k].id, t>> \in r.printed
    <2>1. k \in DOMAIN servers /\ slots[k].id = servers[k].id /\ Classify(servers[k], t) = "read"
      BY <1>1, ServingSlot DEF Inv, TypeOK
    <2>2. r.printed = ColdStart(servers)
      BY <1>1 DEF Inv, Logged, Reviewed
    <2>3. t \in DOMAIN servers[k].tools
      BY <2>1 DEF Classify
    <2>4. [name |-> t, class |-> "read"] \in RunningSlot(servers[k], DOMAIN servers[k].tools).tools
      BY <2>1, <2>3 DEF RunningSlot, Classified
    <2>5. t \in Exposed(RunningSlot(servers[k], DOMAIN servers[k].tools))
      BY <2>4 DEF Exposed, RunningSlot
    <2>. QED
      BY <2>1, <2>2, <2>5 DEF ColdStart
  <1>2. Inv => OfferedWasReviewed
    BY <1>1 DEF OfferedWasReviewed
  <1>. QED
    BY <1>2, Invariant, PTL

\* A start that is given up, wherever, leaves no child process behind, and a
\* daemon that serves holds the handle of every child that runs.
THEOREM NothingLeftBehind == Spec => []NoChildLeftBehind
  <1>1. Inv => NoChildLeftBehind
    BY DEF Inv, AllHeld, BuiltSoFar, Held, NoChildLeftBehind
  <1>. QED
    BY <1>1, Invariant, PTL
=============================================================================
