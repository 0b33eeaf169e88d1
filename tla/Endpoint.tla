------------------------------ MODULE Endpoint ------------------------------
(***************************************************************************)
(* The upward endpoint (crates/transport/src/endpoint.rs): authenticated   *)
(* requests, the event streams of the connected clients, and the Notifier  *)
(* that broadcasts a change of the tool list to them.                      *)
(*                                                                         *)
(* The handler behind the endpoint is Broker; here it is a version number  *)
(* of the exposure.  A handler thread changes the exposure, then notifies. *)
(* A stream is a subscriber's sender at the Notifier, a receiver held by   *)
(* the stream's reader, and a socket.  A client lists on opening a stream  *)
(* and whenever it is told to.                                             *)
(***************************************************************************)
EXTENDS Naturals, Sequences

CONSTANTS
  Client,
  Credential,  \* the Authorization header that each presents: its scheme, its token
  Expected,    \* the token that is configured
  Stream,      \* event streams; a client that reconnects opens another
  NoStream,
  MaxVersion,  \* model bound: changes of the exposure
  MaxQueue     \* model bound: messages queued for a stream (unbounded in the code)

ASSUME EndpointAssumption ==
  /\ Expected # <<>>
  /\ Expected \in Seq(0..255)
  /\ \A c \in Client : \A h \in Credential[c] : h.token \in Seq(0..255)
  /\ NoStream \notin Stream
  /\ {MaxVersion, MaxQueue} \subseteq Nat

VARIABLES
  version,      \* of the exposure
  owed,         \* changes that are not yet notified
  subscribers,  \* the streams whose senders the Notifier holds
  receiver,     \* the server's end of each stream
  socket,       \* the state of each stream's connection
  queue,        \* messages sent to each stream and not yet read
  stream,       \* the stream each client listens to
  told,         \* the clients that are to list
  response,     \* the list response under way to each client: a version, or 0
  seen          \* the version each client last saw

streamVars == <<subscribers, receiver, socket, queue>>
clientVars == <<stream, told, response, seen>>
vars == <<version, owed, streamVars, clientVars>>

Versions == 1..(MaxVersion + 1)

TypeOK ==
  /\ version \in Versions
  /\ owed \in 0..MaxVersion
  /\ subscribers \subseteq Stream
  /\ receiver \in [Stream -> {"none", "held", "dropped"}]
  /\ socket \in [Stream -> {"none", "up", "closed", "reset"}]
  /\ queue \in [Stream -> 0..MaxQueue]
  /\ stream \in [Client -> Stream \union {NoStream}]
  /\ told \subseteq Client
  /\ response \in [Client -> Versions \union {0}]
  /\ seen \in [Client -> Versions \union {0}]
  /\ \A c \in Client : 
       stream[c] # NoStream => \E h \in Credential[c] : h.token = Expected

Init ==
  /\ version = 1
  /\ owed = 0
  /\ subscribers = {}
  /\ receiver = [s \in Stream |-> "none"]
  /\ socket = [s \in Stream |-> "none"]
  /\ queue = [s \in Stream |-> 0]
  /\ stream = [c \in Client |-> NoStream]
  /\ told = {}
  /\ response = [c \in Client |-> 0]
  /\ seen = [c \in Client |-> 0]

-----------------------------------------------------------------------------
(* Requests.  Every request is authenticated before anything else is done;  *)
(* one that is not changes nothing.  A token is a sequence of bytes.        *)

\* bearer_token: there may be no header, and its scheme may be another.
BearerToken(c) ==
  {h.token : h \in {h \in Credential[c] : h.scheme \in {"Bearer", "bearer"}}}

EqualSoFar(a, b) ==   \* mutant: the lengths are not compared, zip stops at the shorter
  \A i \in DOMAIN a \intersect DOMAIN b : a[i] = b[i]

\* constant_time_eq: how long it takes is left out.
ConstantTimeEq(a, b) ==
  /\ Len(a) = Len(b)
  /\ \A i \in DOMAIN a : a[i] = b[i]

\* StaticBearerValidator::validate.  new refuses an empty token to be configured.
Authenticated(c) ==
  \E token \in BearerToken(c) : token # <<>> /\ ConstantTimeEq(token, Expected)

\* handle_sse.
Open(c, s) ==
  /\ Authenticated(c)
  /\ stream[c] = NoStream /\ receiver[s] = "none"
  /\ subscribers' = subscribers \union {s}
  /\ receiver' = [receiver EXCEPT ![s] = "held"]
  /\ socket' = [socket EXCEPT ![s] = "up"]
  /\ stream' = [stream EXCEPT ![c] = s]
  /\ told' = told \union {c}
  /\ UNCHANGED <<version, owed, queue, response, seen>>

\* handle_post of tools/list, served on a thread of its own.
ServeList(c) ==
  /\ Authenticated(c)
  /\ c \in told /\ response[c] = 0
  /\ told' = told \ {c}
  /\ response' = [response EXCEPT ![c] = version]
  /\ UNCHANGED <<version, owed, streamVars, stream, seen>>

ReceiveList(c) ==
  /\ response[c] # 0
  /\ seen' = [seen EXCEPT ![c] = response[c]]
  /\ response' = [response EXCEPT ![c] = 0]
  /\ UNCHANGED <<version, owed, streamVars, stream, told>>

\* The client goes away, or its connection is lost: the server is not told.
Leave(c) ==
  /\ stream[c] # NoStream
  /\ socket' = [socket EXCEPT ![stream[c]] = "closed"]
  /\ stream' = [stream EXCEPT ![c] = NoStream]
  /\ told' = told \ {c}
  /\ response' = [response EXCEPT ![c] = 0]
  /\ UNCHANGED <<version, owed, subscribers, receiver, queue, seen>>

-----------------------------------------------------------------------------
(* The Notifier.                                                            *)

Change ==
  /\ version <= MaxVersion
  /\ version' = version + 1
  /\ owed' = owed + 1
  /\ UNCHANGED <<streamVars, clientVars>>

Live(s) == receiver[s] = "held"

NotifyUntilFailure ==   \* mutant: the broadcast stops at a dead subscriber
  /\ owed > 0
  /\ owed' = owed - 1
  /\ \A s \in subscribers : Live(s) => queue[s] < MaxQueue
  /\ queue' = [s \in Stream |-> IF s \in subscribers /\ \A x \in subscribers : Live(x)
                                  THEN queue[s] + 1 ELSE queue[s]]
  /\ subscribers' = {s \in subscribers : Live(s)}
  /\ UNCHANGED <<version, receiver, socket, clientVars>>

\* Every live subscriber is sent the message, and the others are dropped.
Notify ==
  /\ owed > 0
  /\ owed' = owed - 1
  /\ \A s \in subscribers : Live(s) => queue[s] < MaxQueue
  /\ queue' = [s \in Stream |-> IF s \in subscribers /\ Live(s) THEN queue[s] + 1 ELSE queue[s]]
  /\ subscribers' = {s \in subscribers : Live(s)}
  /\ UNCHANGED <<version, receiver, socket, clientVars>>

-----------------------------------------------------------------------------
(* The reader of a stream: what it has read is written to the socket.  The  *)
(* first write to a closed connection is lost and has it reset; the next    *)
(* fails, and the response is dropped with the receiver.                    *)

WriteFrame(s) ==
  CASE socket[s] = "up"     -> UNCHANGED <<socket, receiver>>
    [] socket[s] = "closed" -> socket' = [socket EXCEPT ![s] = "reset"] /\ UNCHANGED receiver
    [] socket[s] = "reset"  -> receiver' = [receiver EXCEPT ![s] = "dropped"] /\ UNCHANGED socket

Listeners(s) == {c \in Client : stream[c] = s}

SendMessage(s) ==
  /\ Live(s)
  /\ queue[s] > 0
  /\ queue' = [queue EXCEPT ![s] = @ - 1]
  /\ WriteFrame(s)
  /\ told' = told \union Listeners(s)
  /\ UNCHANGED <<version, owed, subscribers, stream, response, seen>>

KeepaliveUnsent(s) ==   \* mutant: an idle stream writes nothing
  /\ Live(s)
  /\ queue[s] = 0
  /\ UNCHANGED <<version, owed, streamVars, clientVars>>

\* An idle stream writes a comment, which is how a lost client is noticed.
Keepalive(s) ==
  /\ Live(s)
  /\ queue[s] = 0
  /\ WriteFrame(s)
  /\ UNCHANGED <<version, owed, subscribers, queue, clientVars>>

-----------------------------------------------------------------------------
Next ==
  \/ Change
  \/ Notify
  \/ \E c \in Client :
       \/ \E s \in Stream : Open(c, s)
       \/ ServeList(c)
       \/ ReceiveList(c)
       \/ Leave(c)
  \/ \E s \in Stream : SendMessage(s) \/ Keepalive(s)

\* The server's threads run; a client that is told to list does, in the end.
Spec ==
  /\ Init /\ [][Next]_vars
  /\ WF_vars(Notify)
  /\ \A s \in Stream : WF_vars(SendMessage(s)) /\ WF_vars(Keepalive(s))
  /\ \A c \in Client : WF_vars(ServeList(c)) /\ WF_vars(ReceiveList(c))

-----------------------------------------------------------------------------
(* Properties.                                                              *)

\* No change passes a connected client by: if what it last saw is not what is
\* exposed, it is to list again, or a message is on its way to its stream, or
\* the notification is still owed, or the current list is on its way to it.
NoChangeIsMissed ==
  \A c \in Client :
    stream[c] # NoStream /\ seen[c] # version =>
      \/ c \in told
      \/ queue[stream[c]] > 0
      \/ owed > 0
      \/ response[c] = version

\* The server lets go of the stream of a client that is gone, whether or not
\* anything ever changes again.
LostClientIsNoticed ==
  \A s \in Stream : (socket[s] = "closed") ~> (receiver[s] = "dropped")
=============================================================================
