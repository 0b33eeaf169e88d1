--------------------------- MODULE ControlChannel ---------------------------
(***************************************************************************)
(* The local control channel: how a daemon comes up and takes the socket   *)
(* (serve of crates/broker/src/main.rs, ControlServer of                   *)
(* crates/transport/src/control.rs), and how a run of the command-line     *)
(* client talks to whichever daemon is behind the path                     *)
(* (crates/cli/src/main.rs).                                               *)
(*                                                                         *)
(* What a request does to the broker is Broker's; here a daemon remembers  *)
(* the nonces it has issued and what for, and a request it carries out is  *)
(* applied.  A run of the client parses its line (CommandLine), and is one *)
(* exchange, or two for a signed request: a new connection each, perhaps   *)
(* to another daemon.                                                      *)
(***************************************************************************)
EXTENDS Naturals, FiniteSets, CommandLine

CONSTANTS
  Daemon,    \* runs of mcp-lockd, each started at most once
  Address,   \* the addresses they listen on
  Listen,    \* the address each is configured with
  NoDaemon,
  Run,       \* runs of mcp-lock
  Lines      \* the lines that each may be given

ASSUME ControlAssumption ==
  /\ Listen \in [Daemon -> Address]
  /\ NoDaemon \notin Daemon
  /\ \A r \in Run : Lines[r] \subseteq Seq(STRING)

VARIABLES
  phase,     \* how far each daemon is in serve
  endpoint,  \* the daemon that listens on each address
  file,      \* the daemon whose listener the socket file belongs to
  listener,  \* the daemons whose control listener is open
  issued,    \* the nonces each daemon has outstanding: the client's run, the purpose
  line,      \* what each client run was given
  request,   \* and what it has made of it
  step,      \* what each client run is doing
  peer,      \* the daemon it is connected to
  nonceOf,   \* the daemon that issued it a nonce
  reply,     \* what that daemon has answered, until it is read
  outcome,   \* how the run ended
  applied    \* history: the requests carried out

daemonVars == <<phase, endpoint, file, listener, issued>>
clientVars == <<line, request, step, peer, nonceOf, reply, outcome>>
vars == <<daemonVars, clientVars, applied>>

Phases   == {"off", "loaded", "built", "bound", "removed", "named", "serving", "down"}
Outcomes == {"none", "help", "usage", "done", "refused", "mismatch", "unreachable", "closed"}

Unread    == [cmd |-> "unread"]
Signed(r) == IsSigned(request[r])

TypeOK ==
  /\ phase \in [Daemon -> Phases]
  /\ endpoint \in [Address -> Daemon \union {NoDaemon}]
  /\ file \in Daemon \union {NoDaemon}
  /\ listener \subseteq {d \in Daemon : phase[d] \in {"named", "serving"}}
  /\ DOMAIN issued = Daemon /\ DOMAIN request = Run
  /\ \A d \in Daemon : \A c \in issued[d] : c.run \in Run /\ IsSigned(c.purpose)
  /\ \A r \in Run : line[r] \in Lines[r] /\ request[r] \in {Unread, Parse(line[r])}
  /\ step \in [Run -> {"typed", "nonce", "request", "waiting", "ended"}]
  /\ peer \in [Run -> Daemon \union {NoDaemon}]
  /\ nonceOf \in [Run -> Daemon \union {NoDaemon}]
  /\ reply \in [Run -> {"none", "nonce", "done", "error", "mismatch"}]
  /\ outcome \in [Run -> Outcomes]
  /\ \A a \in applied : a.daemon \in Daemon /\ a.run \in Run
  /\ \A r \in Run : (step[r] = "waiting") <=> (peer[r] # NoDaemon)

Init ==
  /\ phase = [d \in Daemon |-> "off"]
  /\ endpoint = [a \in Address |-> NoDaemon]
  /\ file = NoDaemon
  /\ listener = {}
  /\ issued = [d \in Daemon |-> {}]
  /\ line \in {f \in [Run -> UNION {Lines[r] : r \in Run}] : \A r \in Run : f[r] \in Lines[r]}
  /\ request = [r \in Run |-> Unread]
  /\ step = [r \in Run |-> "typed"]
  /\ peer = [r \in Run |-> NoDaemon]
  /\ nonceOf = [r \in Run |-> NoDaemon]
  /\ reply = [r \in Run |-> "none"]
  /\ outcome = [r \in Run |-> "none"]
  /\ applied = {}

-----------------------------------------------------------------------------
(* serve, step by step.                                                     *)

Advance(d, from, to) ==
  /\ phase[d] = from
  /\ phase' = [phase EXCEPT ![d] = to]

\* The manifest is read and the token is set; or the daemon refuses to start.
Load(d) ==
  /\ Advance(d, "off", "loaded") \/ Advance(d, "off", "down")
  /\ UNCHANGED <<endpoint, file, listener, issued, clientVars, applied>>

\* The children are spawned; or a server id in the manifest is not usable.
Build(d) ==
  /\ Advance(d, "loaded", "built") \/ Advance(d, "loaded", "down")
  /\ UNCHANGED <<endpoint, file, listener, issued, clientVars, applied>>

BindAnyway(d) ==   \* mutant: a failure to bind is a warning
  /\ Advance(d, "built", "bound")
  /\ endpoint' = [endpoint EXCEPT ![Listen[d]] = d]
  /\ UNCHANGED <<file, listener, issued, clientVars, applied>>

\* HttpEndpoint::bind: an address that is taken ends the daemon.
BindEndpoint(d) ==
  /\ \/ /\ endpoint[Listen[d]] = NoDaemon
        /\ Advance(d, "built", "bound")
        /\ endpoint' = [endpoint EXCEPT ![Listen[d]] = d]
     \/ /\ endpoint[Listen[d]] # NoDaemon
        /\ Advance(d, "built", "down")
        /\ UNCHANGED endpoint
  /\ UNCHANGED <<file, listener, issued, clientVars, applied>>

\* ControlServer::bind: whatever is at the path is removed; or the directory
\* cannot be made, and the daemon serves without a control channel.
RemoveFile(d) ==
  /\ \/ Advance(d, "bound", "removed") /\ file' = NoDaemon
     \/ Advance(d, "bound", "serving") /\ UNCHANGED file
  /\ UNCHANGED <<endpoint, listener, issued, clientVars, applied>>

BindSocket(d) ==
  /\ \/ /\ file = NoDaemon
        /\ Advance(d, "removed", "named")
        /\ file' = d
        /\ listener' = listener \union {d}
     \/ /\ Advance(d, "removed", "serving")
        /\ UNCHANGED <<file, listener>>
  /\ UNCHANGED <<endpoint, issued, clientVars, applied>>

\* set_permissions goes by the path.  If there is nothing there it fails, and the
\* listener is dropped.
SetPermissions(d) ==
  /\ Advance(d, "named", "serving")
  /\ listener' = IF file = NoDaemon THEN listener \ {d} ELSE listener
  /\ UNCHANGED <<endpoint, file, issued, clientVars, applied>>

\* The daemon is killed, or dies.  The socket file stays; the address and the
\* connections do not, and nothing it remembered does.  Of the answers it had,
\* those already written can still be read.
Crash(d) ==
  /\ phase[d] \notin {"off", "down"}
  /\ phase' = [phase EXCEPT ![d] = "down"]
  /\ endpoint' = [a \in Address |-> IF endpoint[a] = d THEN NoDaemon ELSE endpoint[a]]
  /\ listener' = listener \ {d}
  /\ issued' = [issued EXCEPT ![d] = {}]
  /\ \E unsent \in SUBSET {r \in Run : peer[r] = d} :
       reply' = [r \in Run |-> IF r \in unsent THEN "none" ELSE reply[r]]
  /\ UNCHANGED <<file, line, request, step, peer, nonceOf, outcome, applied>>

-----------------------------------------------------------------------------
(* serve_connection, on a thread of its own: one request, one response.     *)

AwaitsNonce(r) == Signed(r) /\ nonceOf[r] = NoDaemon

Accepted(d, r) ==
  /\ phase[d] = "serving"
  /\ d \in listener
  /\ peer[r] = d
  /\ reply[r] = "none"

Answer(r, what) == reply' = [reply EXCEPT ![r] = what]

CarryOut(d, r, what) ==
  /\ Answer(r, "done")
  /\ applied' = applied \union {[daemon |-> d, run |-> r, what |-> what]}

\* The first half of an elevation or a confirmation; or the store is full.
ServeChallenge(d, r) ==
  /\ Accepted(d, r)
  /\ AwaitsNonce(r)
  /\ \/ \E p \in AskedOf(request[r]) :
          /\ Answer(r, "nonce")
          /\ issued' = [issued EXCEPT ![d] = @ \union {[run |-> r, purpose |-> p]}]
     \/ /\ Answer(r, "error")
        /\ UNCHANGED issued
  /\ UNCHANGED <<phase, endpoint, file, listener, line, request, step, peer, nonceOf, outcome, applied>>

ServeAnyAssertion(d, r) ==   \* mutant: a nonce need not be this daemon's
  /\ Accepted(d, r)
  /\ Signed(r) /\ ~AwaitsNonce(r)
  /\ CarryOut(d, r, request[r])
  /\ UNCHANGED <<daemonVars, line, request, step, peer, nonceOf, outcome>>

\* The second half: the nonce is used up whether or not it is good for anything.
\* The signature is checked against the message made from the daemon's purpose;
\* the key, the time and the server may be found wanting as well.
ServeAssertion(d, r) ==
  LET mine   == {c \in issued[d] : c.run = r}
      agreed == {c \in mine : ChallengeMessage(c.purpose) = ChallengeMessage(request[r])}
  IN
  /\ Accepted(d, r)
  /\ Signed(r) /\ ~AwaitsNonce(r)
  /\ \/ \E c \in agreed : CarryOut(d, r, c.purpose)
     \/ /\ Answer(r, IF mine # agreed THEN "mismatch" ELSE "error")
        /\ UNCHANGED applied
  /\ issued' = [issued EXCEPT ![d] = @ \ mine]
  /\ UNCHANGED <<phase, endpoint, file, listener, line, request, step, peer, nonceOf, outcome>>

\* Everything else; or the server is unknown, or cannot be started.
ServeSimple(d, r) ==
  /\ Accepted(d, r)
  /\ ~Signed(r)
  /\ \/ CarryOut(d, r, request[r])
     \/ Answer(r, "error") /\ UNCHANGED applied
  /\ UNCHANGED <<daemonVars, line, request, step, peer, nonceOf, outcome>>

-----------------------------------------------------------------------------
(* The client: send, which is ControlClient::request.                       *)

Ends(r, how) ==
  /\ step' = [step EXCEPT ![r] = "ended"]
  /\ outcome' = [outcome EXCEPT ![r] = how]

\* main: the line is read first.  A signed request needs the client's key too, and
\* it may not be set.
ReadLine(r) ==
  /\ step[r] = "typed"
  /\ LET parsed == Parse(line[r]) IN
     /\ request' = [request EXCEPT ![r] = parsed]
     /\ \/ /\ parsed \in {Help, Usage}
           /\ Ends(r, parsed.cmd)
        \/ /\ IsSigned(parsed)
           /\ Ends(r, "usage")
        \/ /\ parsed \notin {Help, Usage}
           /\ step' = [step EXCEPT ![r] = IF IsSigned(parsed) THEN "nonce" ELSE "request"]
           /\ UNCHANGED outcome
  /\ UNCHANGED <<daemonVars, line, peer, nonceOf, reply, applied>>

\* A connection is made, and the request written, if the file's listener is
\* open: the daemon need not have come to accept it.
Connect(r) ==
  /\ step[r] \in {"nonce", "request"}
  /\ IF file \in listener
       THEN /\ peer' = [peer EXCEPT ![r] = file]
            /\ step' = [step EXCEPT ![r] = "waiting"]
            /\ UNCHANGED outcome
       ELSE Ends(r, "unreachable") /\ UNCHANGED peer
  /\ UNCHANGED <<daemonVars, line, request, nonceOf, reply, applied>>

ReceiveKeepingConnection(r) ==   \* mutant: the second half reuses the connection
  /\ reply[r] = "nonce"
  /\ nonceOf' = [nonceOf EXCEPT ![r] = peer[r]]
  /\ step' = [step EXCEPT ![r] = "request"]
  /\ reply' = [reply EXCEPT ![r] = "none"]
  /\ UNCHANGED <<daemonVars, line, request, peer, outcome, applied>>

\* The response is read.  A nonce is signed and submitted over a new connection.
Receive(r) ==
  /\ reply[r] # "none"
  /\ IF reply[r] = "nonce"
       THEN /\ nonceOf' = [nonceOf EXCEPT ![r] = peer[r]]
            /\ step' = [step EXCEPT ![r] = "request"]
            /\ UNCHANGED outcome
       ELSE /\ Ends(r, IF reply[r] = "error" THEN "refused" ELSE reply[r])
            /\ UNCHANGED nonceOf
  /\ reply' = [reply EXCEPT ![r] = "none"]
  /\ peer' = [peer EXCEPT ![r] = NoDaemon]
  /\ UNCHANGED <<daemonVars, line, request, applied>>

SendAgain(r) ==   \* mutant: a connection that closes early is retried
  /\ step[r] = "waiting"
  /\ phase[peer[r]] = "down"
  /\ step' = [step EXCEPT ![r] = IF AwaitsNonce(r) THEN "nonce" ELSE "request"]
  /\ peer' = [peer EXCEPT ![r] = NoDaemon]
  /\ UNCHANGED <<daemonVars, line, request, nonceOf, reply, outcome, applied>>

WaitForMore(r) ==   \* mutant: an empty read is not taken for the end
  /\ step[r] = "waiting"
  /\ phase[peer[r]] = "down"
  /\ UNCHANGED vars

\* End of file: the connection was closed without a response.
ReadEof(r) ==
  /\ step[r] = "waiting"
  /\ phase[peer[r]] = "down" \/ peer[r] \notin listener
  /\ reply[r] = "none"
  /\ Ends(r, "closed")
  /\ peer' = [peer EXCEPT ![r] = NoDaemon]
  /\ UNCHANGED <<daemonVars, line, request, nonceOf, reply, applied>>

-----------------------------------------------------------------------------

Serve(d, r) == ServeChallenge(d, r) \/ ServeAssertion(d, r) \/ ServeSimple(d, r)
Client(r)   == ReadLine(r) \/ Connect(r) \/ Receive(r) \/ ReadEof(r)

Next ==
  \/ \E d \in Daemon : \/ Load(d) \/ Build(d) \/ BindEndpoint(d) \/ RemoveFile(d)
                       \/ BindSocket(d) \/ SetPermissions(d) \/ Crash(d)
                       \/ \E r \in Run : Serve(d, r)
  \/ \E r \in Run : Client(r)

\* The threads of a daemon that has its socket go on, and so does a client.
\* Nothing makes a daemon start, or stop.
Fairness ==
  /\ \A d \in Daemon : WF_vars(SetPermissions(d)) /\ \A r \in Run : WF_vars(Serve(d, r))
  /\ \A r \in Run : WF_vars(Client(r))

Spec     == Init /\ [][Next]_vars
FairSpec == Spec /\ Fairness

-----------------------------------------------------------------------------

AppliedBy(r) == {a.daemon : a \in {b \in applied : b.run = r}}

\* What a run of mcp-lock reports is what happened: success means that what the
\* line says was carried out, once; a line that is wrong, a refusal, or no broker
\* to talk to, that nothing was.  Only a connection that closes early leaves it
\* open, and then too nothing is carried out twice, whichever daemons answer the
\* two halves.  The client and the daemon that issued the nonce never disagree on
\* what is being signed, though each makes it from a reading of its own
\* (ControlClient::request, submit_signed, parse_mode, request_elevation).
ReportIsTrue ==
  \A r \in Run :
    /\ Cardinality({a \in applied : a.run = r}) <= 1
    /\ \A a \in applied : a.run = r => Asks(line[r], a.what)
    /\ outcome[r] = "done" => AppliedBy(r) # {}
    /\ outcome[r] \in {"help", "usage", "refused", "unreachable"} => AppliedBy(r) = {}
    /\ outcome[r] # "mismatch"

\* An assertion is carried out by no other daemon than the one that issued its
\* nonce, although the two connections may reach different ones (submit_signed).
IssuerDecides ==
  \A a \in applied : IsSigned(a.what) => a.daemon = nonceOf[a.run]

\* A daemon that serves its control socket can be reached by it: no daemon that
\* starts takes the path from it.  This is due to the order in serve, where the
\* address is bound before the socket file is removed, and holds only for daemons
\* configured with one address.
ControlKept == \A d \in listener : phase[d] = "serving" => file = d

\* Every run of mcp-lock ends, whenever daemons crash: there is no timeout on the
\* control socket.
CliReturns == \A r \in Run : <>(step[r] = "ended")
=============================================================================
