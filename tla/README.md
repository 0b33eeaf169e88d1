# A formal model of MCP-Lock

MCP-Lock keeps the write tools of MCP servers locked until a person proves to be
present. A broker (`mcp-lockd`) runs the servers as child processes and offers
their tools, read-only, at one HTTP endpoint; a command-line client (`mcp-lock`)
signs a challenge to open a write window, or to let one call of a particularly
dangerous tool through. This directory holds TLA+ modules of the broker, its
client and the mail server that comes with it, the TLC configurations that check
them, and proofs for TLAPS.

Paths below are relative to `crates/` of the repository.

## The system

| Component | State | Operations | Who calls it | What is hard |
|---|---|---|---|---|
| **Policy core** `core/src/policy.rs`, `manifest.rs`, `broker.rs` | per server: lifecycle state, advertised tools, at most one elevation | classify a tool, build an elevation, is it active, what is exposed | everything else | an elevation ends at a second, and the second is inactive; sums saturate |
| **Challenge store** `core/src/elevation.rs` | outstanding nonces with client, purpose and time | issue (prune, cap), verify and consume | the control handler, under a mutex of its own | a nonce must be good for one thing once, whatever is tried with it; times may be stale |
| **Aggregator** `broker/src/aggregator.rs` | slots, child handles, outstanding confirmations | build, start, stop, pause, resume, elevate, revoke, approve, list, call, reap | start-up; both handlers, under one mutex, which is held while a child is called | a child fails in the middle of a call; one confirmation, two calls; elevations outlive stop and start |
| **Control handler** `broker/src/control_handler.rs` | none of its own | one per control request | a thread per connection | a submit takes two mutexes one after the other; the clock is read before both; announcing and recording come after |
| **MCP handler** `broker/src/handler.rs` | none | tools/list, tools/call | a thread per HTTP request | the clock is read before a wait that may last a child's timeout |
| **Child client** `broker/src/mcp_client.rs` | next id, channel from the reader thread, deadline | handshake, request, drop | the aggregator | late answers, garbage, two pipes that can both be full, a thread nobody joins |
| **Audit log** `core/src/audit.rs` | a file, a ring of recent lines | record | every handler, concurrently | a line and its newline are two writes; crashes and failing writes between them |
| **HTTP endpoint, Notifier** `transport/src/endpoint.rs` | subscribers, one queue per event stream | list/call, open a stream, broadcast, keep-alive | the MCP client; the control handler broadcasts | streams are lost and reopened while the list changes |
| **Bearer credential** `core/src/auth.rs` | the token | validate | the endpoint, before anything else of a request | a header may be missing, of another scheme, empty, a prefix or an extension of the token |
| **Control channel** `transport/src/control.rs` | the socket file, a listener | bind, one request per connection | `cli/src/main.rs` | taking over the path from another daemon; the daemon dies before it replies, or between the two halves of a signed request |
| **Command-line client** `cli/src/main.rs` | – | parse a line, one exchange or two, report | the operator | flags in any order; what is signed is made from one reading of the line, what is checked from another; a response that never comes |
| **Manifest** `core/src/manifest.rs` | – | read, hash, parse, validate | start-up; `--check-manifest` | the file changes between a review and a start; a dozen limits, one at a time |
| **Start-up** `broker/src/main.rs`, `Aggregator::build` | the children spawned so far | load, validate, spawn one after another, register clients, bind, serve | the operator | every step may fail with children of earlier ones running, and later ones undo what another daemon did |
| **Mail server** `mail/src/` | configuration; an IMAP session per tool call | read a line, reply | the broker, as a child | the mailbox changes between SEARCH and FETCH; no timeouts; lines that are owed no reply |
| Platform and execution seams `core/src/platform/`, `exec.rs` | – | traits and stubs | – | – |

The handlers share the aggregator, the Notifier, the audit log and the clock; the
store belongs to the control handler. Nothing but the audit file survives a
restart.

### What makes each component correct

* **Store**: a nonce is tried once and authorises once; what is accepted was issued
  to that client, for that purpose, and signed by its registered key; the store
  keeps to its cap without dropping a challenge that could still be used.
* **Aggregator**: no gated tool's call reaches a child without an elevation in force;
  every confirm call spends an approval of its own; approvals are not lost.
* **Broker as a whole**: every gated call goes back to a signature by a registered
  key, through any interleaving, crash and restart; the tape names every grant,
  approval and successful write; the client hears of every tool that becomes
  callable; every request is answered.
* **Child client**: a request returns its own answer or an error, and returns.
* **Audit log**: what can be lost to a reader is bounded by crashes and failed writes.
* **Endpoint and credential**: no connected client misses a change, and nobody without
  the token is one.
* **Control channel and client**: what `mcp-lock` reports is what happened, and what its
  line says; client and daemon sign and check one message; every run ends.
* **Manifest and start-up**: a name leads back to the child that offered it; what is
  offered without an elevation was printed by a review of a manifest with the logged
  hash; no child outlives a start that is given up, or serves without a handle.
* **Mail server**: one reply per request, in order, under its id, as the child client
  takes for granted; a listing is the newest messages, though the mailbox changes.

## The modules

| Module | Models | Notes |
|---|---|---|
| `Policy` | policy core | operators only; `ResolveExposure`, `IsActive`, `ForDuration` as in the source |
| `NonceStore` | challenge store, signing | one action per outcome class of `issue` and `verify_and_consume`; the time passed in is any up to the clock, as the callers' is |
| `Aggregator` | aggregator and slots | atomic under the mutex, except `call`, which is a dispatch and an outcome with `serving` set between them; `calls`, `grants`, `approvals` are histories; `ReapExitedChildren` is a step though only tests call it, and `Broker` never takes it |
| `PresenceGate` | the abstract specification | what the broker promises about presence, with no clock, mutex, store or elevation |
| `Broker` | both handlers, over the two above | see below |
| `ChildClient` | child client and reader thread | the child is the environment: slow, hung, dead, chatty, printing garbage or over-long lines |
| `AuditLog` | audit log | a line is whole or torn; text and newline are separate writes |
| `Endpoint` | endpoint, Notifier, bearer credential | the handler behind it is a version number of the tool list; a token is a sequence of bytes |
| `Startup` | manifest, `Aggregator::build`, start-up, `--check-manifest` | ids and names are sequences of characters, because they are joined and split; other text is its length; the operator edits and reviews the file at any time |
| `CommandLine` | parsing of a line, the request and the signed message | operators only; a line is a sequence of words |
| `ControlChannel` | taking the socket, control channel, command-line client | extends `CommandLine`; daemons that start once each; a daemon keeps the purpose it read from the wire, and checks a signature over the message made from that; what a request does to the broker is `Broker`'s |
| `WellMeaningChild` | an abstract specification | what the child client takes for granted of a child: a request is answered after it is read, and at most once |
| `MailServer` | mail server | the loop, its arguments, both stores, one IMAP round trip per step; its names are its own (`MailSpec`, `MailNext`, `step`), so that one module can extend it and `ChildClient` |
| `MC*` | – | constants of the runs; in `MCBroker` the workloads; and, in a section of their own, claims of the repository's text that do not hold |
| `*_proofs` | – | theorems about the module they are named for; `Broker_proofs` cites those of the store and the aggregator through instances; `Child_proofs` is about the two ends of a child's pipes, `ChildClient` and `MailServer` |

**Broker** instantiates `NonceStore` and `Aggregator` and adds the threads. A
request thread is at one of `idle`, `entered` (it has read the clock and holds no
mutex), `calling` (its tool call is with the child, and the mutex is held), `apply`
(an assertion is verified, and the aggregator's mutex not yet taken), `notify` and
`audit`. Every place where the handler holds no mutex is a step boundary, so other
threads run between reading the clock and taking a mutex, between verifying an
assertion and applying it, and between a change, its announcement and its record.
SubmitElevation and SubmitConfirm are one request, as they are one function in the
source: the purpose comes from the store's entry.

Two refinements are checked as properties: `AggregatorSpec` (the composition does
to the aggregator only what `Aggregator` allows, where an assertion is applied at
most once — an assumption there, which the store discharges) and `Gate` (it
implements `PresenceGate`, with the signatures of registered keys for `signed` and
the calls sent to children for `invoked`). A third, `WellMeaning`, is a theorem and not
part of a run: the mail server implements `WellMeaningChild`, with the requests among
the lines it has read for `received`, and for `answers` how many of its replies carry
the id of each. The
child that `ChildClient` has at the other end of its pipes takes the steps of that
specification (`ChildReads`, `ChildAnswers`), next to others that answer nothing, so
`AnswersAreOurs` holds of the client when its child is the mail server. (TLC agrees when
`WellMeaning` is made a property of the run `MailServer`, and refutes it if a reply may
be written twice.)

**Data left out.** A nonce is a model value, never drawn twice; a signature is the
record of what was signed and with which key, and cannot be made otherwise.
Tool results, messages and the wording of errors are left out. Outside `Startup` a
tool is a server and a tool, and not a name with a prefix; `OfferedRoutesBack` is
what justifies that. A clock is a counter of seconds that every thread reads for itself.

## The runs

The bounds are those of the configurations; every run ends by exhausting its states.

| Run | Instance | Shows |
|---|---|---|
| `NonceStore` | 2 clients (1 registered), 3 nonces, 2 purposes, lifetime 1, cap 2, clock to 2, any number of restarts | who may redeem a challenge, the cap, the lifetime |
| `AggregatorCalls` | 1 server; a read, a confirm and an unclassified tool; 3 assertions, 2 calls | the elevation gate at its boundary and the confirm gate |
| `BrokerPresence` | 2 threads, 1 restart, one of three exchanges: a write window (1 nonce, clock to 1, 5 requests), a confirm tool (2 nonces, 6 requests), assertions for a server the manifest lacks (1 nonce, clock to 1, 3 requests) | presence end to end: a window raced for, revoked, expiring; elevation plus approval, two calls for one approval |
| `BrokerRequests` | 2 threads, 4 requests, every operation | announcements; liveness |
| `ChildClient` | 3 requests, 2 sizes of message, 2 lines of chatter, deadline 1 | answers, deadlines, the reader thread |
| `AuditLog` | 3 threads, 4 events, 2 crashes, writes of 1 event failing, ring of 2 | what is lost |
| `Endpoint` | 7 clients (1 with the token), 3 streams, 2 changes, queues of 2 | who is let in; reconnects during changes |
| `ControlChannel` | 3 daemons with one address; a run with any of 6 lines, of which 4 are to be signed, and a run with either of 2 plain lines | reports, what is signed, nonces across daemons, the socket path |
| `Startup` | manifests of up to 3 servers, each limit met by one and exceeded by another, every kind of bad entry; any edits, 2 reviews, 3 answers of a child | names, review, children |
| `MailServer` | 2 lines of every kind, 3 messages, lists of 2 | replies and listings |
| `AggregatorStart` | as `AggregatorCalls` | **violated**: see below |
| `BrokerFailedWrite` | 1 server, 2 threads, 3 requests, no clock or restart | **violated**: see below |

**Why these bounds.** Every hazard here is about a small number of parties: two
threads between the two mutexes, two calls for one approval, one event torn and one
behind it, two lines of which the first is not answered. Two threads with as many
requests as a whole exchange needs (issue, submit, call, and one or two that
interfere; six for a confirm call and its rival) contain them all. The clock needs a
time before, at and after a lifetime of 1: lifetimes are compared, never counted. A
cap of 2 with three nonces fills the store. Three daemons let one crash, one serve
and one fail to bind. Manifests of three servers let one fail between two that do
not, and names of three characters have the separator at every place. The mailbox of
three messages with lists of two has a message that is cut off, one that is expunged
and one that arrives. Where the constants are unlimited and the property is safety,
the theorems below take over.

What the clients of `Broker` do is a workload, chosen in the initial state: the
operations they use, those they also try with the id of a server that the manifest
lacks, what they sign and call, and how far nonces, clock and requests go. The three
exchanges of `BrokerPresence` are workloads, so that each is explored as far as its
own requests go. `MCControlChannel` also has TLC evaluate `FlagsAreUnderstood`: on
every list of up to five flags over five words, right and wrong, `parse_mode` reads
what the flags mean, where the meaning is said without reading from left to right
(`FlagsUnderstood` is the theorem for any number of any words).

`Inputs` of `MailServer` chooses the lines; between them the runs take every action.
The bounds `Workloads`, `MaxRequests`, `MaxRestarts`, `MaxClock`, `MaxCalls`, `MaxEvents`,
`MaxCrashes`, `MaxFailed`, `MaxChannel`, `MaxChatter`, `MaxQueue`, `MaxVersion`,
`MaxUid`, `MaxLines` and `MaxReviews` stand in guards. Symmetry is used only in runs without
liveness properties. Deadlock is checked where the system cannot stop of itself or
has an explicit final step (`Quiet`, `Finished`); `ChildClient`, `Endpoint`,
`ControlChannel` and `MailServer` may stop: the client is dropped, clients are
gone, all daemons are down, the process has exited.

**Fairness.** All of it is weak, and of threads that are never blocked for good:
* `Broker!FairSpec`: a request's handler goes on when it can. A `std::sync::Mutex`
  is not fair, but a run makes finitely many requests, so none is overtaken for
  ever. A child need not answer; that `CallFails` is among the fair steps is what
  `ChildClient` shows (`RequestReturns`), for children whose chatter ends and
  messages that fit the pipe.
* `ChildClient`: both threads run and time passes. Nothing is assumed of the child.
* `Endpoint`: the server's threads run; a client that is to list the tools does.
* `ControlChannel`: a daemon that has its socket goes on serving, as does a client;
  no daemon has to start, and any may crash.
* `MailServer`: the loop runs. Nothing is assumed of the IMAP server: the property
  itself says "as long as the server goes on answering".

## What is proved

For all values of the constants, by TLAPS:

* `NonceStore_proofs`: `TypeCorrect`, `NoSecondAttempt`, `ChallengeSingleUse`,
  `AcceptedIsAuthentic`, `StoreIsCapped`, and the action property
  `UsableChallengeKept`. The invariant adds `PendingUntaken` (an outstanding
  challenge has never been tried, and no two share a nonce) and `TakenOnce` (an
  accepted nonce has been tried) to the type invariant: "at most one attempt"
  alone says nothing about what a pending entry may still become. Freshness of
  nonces is the assumption that carries it.
* `Aggregator_proofs`: `TypeCorrect`, `GateHolds`, `ConfirmationsAreSingleUse`, and the
  action property `ApprovalsAreKept` (an expiry decided with a stale time is final:
  `ExpiryIsFinal`). The
  gates are about calls already made and approvals already spent, so the invariant
  ties live state to history: `ElevationTraced` (an elevation in force is one an
  assertion was applied for) and `ConfirmationTraced` (an outstanding confirmation
  was approved, by an assertion that approves nothing else, and no call has spent
  it). `ExposureIsGated` is the lemma on the policy core that the gate rests on.
* `Child_proofs`, of the client: `TypeCorrect`, `AnswersAreOurs`, for any timeouts, sizes
  of pipes and channel, and any chatter, a flood included. The invariant says where
  answers can be: every answer in a pipe or the channel carries an id already
  given out, and was given by the child to that id.
* `Child_proofs`, of the mail server: `MailTypeCorrect`, `RepliesCorrect`,
  `ListingCorrect`, `MissingCorrect` and `MailIsWellMeaning`, for any input, limits and
  mailbox.
  * The invariant says of every intermediate result what the properties say of the reply:
    the UIDs found, while they wait to be fetched, and the reply, while the session is
    being closed, are the newest of their kind (`NewestOf`), although messages arrive and
    are expunged meanwhile (`NewestStays`: what is reported may have been there at any time
    of the request, and what is missed must have been there all along). `KeptIsNewest` and
    `FetchedIsNewest` are the two cuts, the one to the limit and the one to what is still
    there; both rest on `TruncateKeepsNewest`.
  * That there is a descending sequence of a set of UIDs at all (`SortExists`, and so
    `DescendingSorts`) is an induction over the bound of the set, in the form that needs
    no induction rule: there would be a least bound for which there is none.
  * For the replies, `InOrder` counts: the line that is owed the k-th reply is the one
    with k owed lines up to and including it (`Rank`), and another owed line moves none of
    the earlier ones (`RankOfNext`).
  * `MailIsWellMeaning` (`WellMeaning`) maps every step: reading a request is reading it in
    the abstract, writing a reply under an id is answering it, a reply to a line that
    cannot be parsed and everything else stutters. It needs one invariant more,
    `Numbered`: replies carry ids of lines that were served before, so the id of the line
    in hand is not among them.
* `AuditLog_proofs`: `TypeCorrect`, `RingIsRecent`, `LossCorrect`. The invariant adds that threads
  inside `record` have events of their own (`Own`), that a thread past its first write
  has put its event in the file or failed to (`Written`), and how full the ring is
  (`Full`). `AppendAndTrim` is the lemma about the ring itself. For `LossCorrect` a second
  invariant says what the file looks like (`LossInv`): an event has one place in it
  (`OnePlace`), a line whose newline is outstanding is the last piece (`InHand`), what
  was recorded without a failure is whole and ended (`KeptWhole`), and at most as many
  lines lack a newline as there were crashes (`Torn`). A returned event that cannot be
  read is then one that failed, or has such a piece, or a failed one, right before it
  (`Blame`); places differ, so events map one to one to what is to blame, and counting
  gives the bound.
* `Endpoint_proofs`: `TypeCorrect`, which includes that only the token opens a stream
  (`ComparisonIsEquality`), and `ChangesAreNoticed`. A list response may be out of date
  when it arrives, so the invariant says of a response under way what
  `NoChangeIsMissed` says of one that was seen (`UpToDate`), and that a client's stream
  is its own and served (`Connected`, `Attached`).
* `Startup_proofs`: `TypeCorrect`, `NamesLeadBack`, `OfferedIsReviewed`,
  `NothingLeftBehind`. The invariant carries what the loop of `validate` has
  established to the end of `build` (`Checked`), with what was hashed (`Logged`),
  printed (`Reviewed`), built (`BuiltSoFar`) and held (`AllHeld`). `SplitOfJoin` is the
  lemma that a name splits where it was joined, if the id holds no separator.
* `ControlChannel_proofs`: `TypeCorrect`, `OnlyTheIssuer`, `FlagsUnderstood`,
  `ReportsAreTrue`, `SocketIsKept`. The invariant follows a request through both
  connections: what a run has made of its line (`Started`), that a daemon remembers the
  same (`Agreed`), where its nonce is (`Nonces`), and that what was carried out once is
  answered, reported or cut off (`Progress`). `ReportsAreTrue` rests on `FlagsUnderstood`,
  that `parse_mode` reads what the flags mean, for flags of any length. It is a fold over
  the words, so the proof is an induction, in the form that needs no induction rule: a set
  of naturals has a least element (`Shortest`, from the well-foundedness of their order),
  so there would be a shortest prefix for which it is false. That a fold is defined at all
  (`FoldExists`) is shown in the same way. `SocketIsKept` has the hypothesis that daemons
  share an address, without which it is false (below).

* `Broker_proofs`, about the whole of the store, the aggregator and the threads, for any
  number of threads, restarts and requests, and any workload:
  * `StoreRefined` and `ServersRefined` (which states `AggregatorSpec`): the broker does
    to each part what the part's own module allows. The theorems about the parts
    then hold of the broker, and the proofs below use them rather than repeat them.
    The store needs only that a thread's time is not ahead of the clock
    (`ThreadInv`). The aggregator assumes that an assertion is applied once. In the
    broker that has to survive the gap between the two mutexes: an assertion held by a
    thread at `apply` was accepted by the store, no other thread holds it, and it is not
    applied yet (`AssertionsHeld`); whatever was applied was accepted, for that purpose
    (`AssertionsApplied`). The store's invariant, that no nonce is accepted twice, keeps
    a second thread from bringing the same one. `CallsCounted` bounds the aggregator's
    calls by the requests.
  * `TypeCorrect` and `TapeCorrect` (`TapeIsComplete`). `EventsInv` says that only a
    thread that has done its work owes the tape an event, and that one at `audit` has
    one to write. Every step of a handler then either adds no grant, approval or result,
    or leaves its thread owing that very event (`Owes`), and the only steps that clear
    an event write it, or end in a restart.
  * `GateRefined` (`Gate`): the broker implements `PresenceGate`, step by step. A
    signature made with a registered key is the abstract signature, a dispatch the
    abstract call, and everything else stutters. What justifies a dispatch is the aggregator's
    invariant (an elevation in force, a confirmation spent once) joined to
    `AssertionsApplied` and the store's (what is accepted is signed by a registered key).
  * `WideningAnnounced` (`WideningIsAnnounced`), for clients that ask for no window with a
    time limit (`NoTimeLimits`), which is the workload of the run that checks it. With time
    limits the property is false, as `GrantIsAnnounced` shows below: the hypothesis is
    the property's own scope, and not a convenience of the proof.

The assumptions are otherwise the named ASSUMEs of the modules (bounds are naturals, the
registry maps clients to keys, and so on), which TLC evaluates on every run. `Broker` states those of its two parts
again for its own constants (`StoreAssumption`, `ServersAssumption`). The inductive
invariants were checked by TLC, on the runs' instances, before they were proved.

**Only model-checked.** All liveness (`RequestsComplete`, `RequestReturns`,
`LinesAreServed` and so on): fairness is out of the prover's reach. Every safety
property that a passing run checks is the subject of a theorem.

## Where the code and its text disagree

Two runs show a disagreement by a counterexample:

* `AggregatorStart`: a server that is stopped and started within its write window
  comes up with its write tools exposed. `Aggregator::start`: "Brings a server up
  read-only — never elevated" (`broker/src/aggregator.rs:225`).
* `BrokerFailedWrite`: a write call whose child fails, or answers with an error, is
  not on the tape, though it reached the child. `README.md:212`: "Every elevation,
  revoke, confirm, and write-tool invocation is written to the audit log".

The following are stated as definitions in the MC modules, and TLC refutes each on
an instance of the module's usual size when it is made the property of a
configuration. They are listed so that nobody reads the passing runs as claiming
their opposite.

| Definition | The code | The text |
|---|---|---|
| `MCAggregator!RunningIsSpawned` | `resume` sets Running from any state: a stopped server is then Running without a child, and lists tools (`aggregator.rs:212`) | "Spawned and routing" (`core/src/policy.rs:137`), "Resume a paused server" (`control.rs:71`) |
| `MCBroker!AnyChangeIsAnnounced` | nothing runs when an elevation expires, or a fault revokes one, and nobody is told (`control_handler.rs:274`) | "On any change (elevation grant/expiry, pause, stop)" (`docs/DESIGN.md:96`) |
| `MCBroker!GrantIsAnnounced` | a grant compares exposures at a time read before two waits: one that re-opens a window that closed meanwhile is not announced (`control_handler.rs:272`) | the same |
| `MCBroker!NothingSentAfterExpiry` | a call that waited for the mutex is gated at the time it arrived and sent after its window closed (`handler.rs:74`) | "At or after expiry it is inactive" (`core/src/policy.rs:122`) |
| `MCBroker!StartLeavesARunningChild` | `start` keeps the handle of a child that has died (`aggregator.rs:236`) | "spawn it if no child is running" (`aggregator.rs:225`) |
| `MCBroker!DeadChildIsNotListed` | only tests call `reap_exited_children` (`handler.rs:55`) | "A supervising handler calls this before computing the exposed listing" (`aggregator.rs:355`) |
| `MCBroker!StatusReportsActive` | `status` reports any stored elevation, expired or not (`control_handler.rs:98`) | "Whether the server has an active elevation" (`control.rs:131`) |
| `MCChildClient!WaitReturns` (with `Floods`) | past the deadline a line that is queued is still taken, so a child that always has one queued holds the request (`mcp_client.rs:239`) | "must not be able to reset the clock forever" (`mcp_client.rs:232`) |
| `MCChildClient!WriteReturns` (message larger than the pipe) | the write has no deadline (`mcp_client.rs:230`) | "cannot deadlock the broker" (`mcp_client.rs:12`) |
| `MCAuditLog!OnlyInFlightLost` | after a torn line the next run's first line is joined to it (`core/src/audit.rs:120`) | "a crash loses at most the in-flight line" (`core/src/audit.rs:6`) |
| `ControlChannel!ControlKept` (two addresses) | a daemon that starts on another address removes the socket of one that serves (`control.rs:232`) | "Remove a stale socket from a previous run" (`control.rs:231`) |

Also seen while modelling, with no definition of their own:

* `--check-manifest` accepts a manifest with a separator in a server's id, and prints
  names for it; `serve` refuses it, and only after the servers before it have been
  spawned (`aggregator.rs:143`; `broker/src/main.rs:4`: "exposure the broker would
  offer"). In `Startup` it is `Review` against `InvalidServerId`.
* `ServerSlot::set_state`: "the worst a lifecycle change can do is reduce exposure"
  (`core/src/broker.rs:94`). `resume` and `start` widen it (`aggregator.rs:211`);
  `WideningIsAnnounced` covers them.
* `mcp-lock` prints "cannot reach broker" also when the broker closed the connection
  after carrying out the request (`cli/src/main.rs:245`); in `ControlChannel` that end
  is `closed`, and kept apart from `unreachable`.
* The request for log lines says "most recent first" (`control.rs:51`); they come oldest
  first (`control_handler.rs:117`).
* Expiry and fault revocation are not audited, though `docs/DESIGN.md:166` lists expiry.
* The header of `control.rs` says the channel never carries elevation, which it does.

## What is not modelled

* A poisoned mutex: no panic is reachable in the handlers modelled.
* The diagnostic log ring, control `list` and `logs`, `initialize` and `ping` of the
  broker: they change nothing that another request depends on.
* The in-memory audit log used when the file cannot be opened: it keeps the ring only.
* Buffering inside `tiny_http`: `Endpoint` takes a frame to be on its way once it is read.
* The text of a manifest (a record of what the checks look at stands for it), the hash
  function (equal hashes are equal texts), and a tool declared or advertised twice.
* What becomes of the children of a daemon that is killed, and the environment they inherit.
* Parsing and rendering: HTTP, JSON, how digits make a number, addresses, quoting of
  search text.
* How long the comparison of the token takes, and its scrubbing; the platform seams,
  which are stubs.
* FETCH responses an IMAP server volunteers for messages nobody asked for.

## Plan

Done: the inventory; every component above at the level described; theorems for the
store, the aggregator, the two together in the broker, both ends of a child's pipes, the
audit log, the endpoint, start-up and the control channel.

Next, in this order:
1. The broker with its real child: `Broker`'s `calling` step refined by `ChildClient`.
2. The diagnostic log ring and the in-memory audit log.
