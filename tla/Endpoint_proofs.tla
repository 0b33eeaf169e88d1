--------------------------- MODULE Endpoint_proofs ---------------------------
(***************************************************************************)
(* No connected client misses a change of the tool list, for any number of *)
(* clients, streams and changes, and only a client with the token is       *)
(* connected.                                                              *)
(*                                                                         *)
(* NoChangeIsMissed is not inductive: a list response that is on its way   *)
(* may be out of date by the time it arrives.  UpToDate says of it what    *)
(* NoChangeIsMissed says of the last one that was seen; Connected says     *)
(* that a client's stream is its own, and still served.                    *)
(***************************************************************************)
EXTENDS Endpoint, SequenceTheorems, TLAPS

Connected ==
  /\ \A c \in Client : stream[c] # NoStream =>
       /\ stream[c] \in subscribers
       /\ receiver[stream[c]] = "held"
       /\ socket[stream[c]] = "up"
  /\ \A c, d \in Client : stream[c] = stream[d] /\ stream[c] # NoStream => c = d

\* Each stream that is served has a connection, if only one that is lost.
Attached ==
  /\ \A s \in Stream : receiver[s] = "held" => socket[s] # "none"
  /\ \A s \in Stream : receiver[s] = "none" => s \notin subscribers

WillList(c) == c \in told \/ queue[stream[c]] > 0 \/ owed > 0

UpToDate ==
  \A c \in Client :
    stream[c] # NoStream /\ ~WillList(c) =>
      IF response[c] # 0 THEN response[c] = version ELSE seen[c] = version

Inv == TypeOK /\ owed < version /\ Connected /\ Attached /\ UpToDate

USE EndpointAssumption

\* The comparison of tokens is that of their bytes.
LEMMA ComparisonIsEquality ==
  ASSUME NEW a \in Seq(0..255), NEW b \in Seq(0..255), ConstantTimeEq(a, b)
  PROVE  a = b
  BY SeqEqual DEF ConstantTimeEq

LEMMA OnlyTheToken ==
  ASSUME NEW c \in Client, Authenticated(c)
  PROVE  \E h \in Credential[c] : h.token = Expected
  <1>1. PICK h \in Credential[c] : ConstantTimeEq(h.token, Expected)
    BY DEF Authenticated, BearerToken
  <1>2. h.token = Expected
    BY <1>1, ComparisonIsEquality
  <1>. QED BY <1>2

LEMMA InitInv == Init => Inv
  BY DEF Init, Inv, TypeOK, Connected, Attached, UpToDate, Versions

LEMMA Inductive ==
  ASSUME Inv, [Next]_vars
  PROVE  Inv'
  <1>. USE DEF Inv, streamVars, clientVars, Versions
  <1>1. CASE Change
    <2>1. TypeOK'
      BY <1>1 DEF TypeOK, Change
    <2>2. Connected' /\ Attached'
      BY <1>1 DEF Connected, Attached, Change
    <2>3. UpToDate'
      BY <1>1 DEF TypeOK, UpToDate, WillList, Change
    <2>4. owed' < version'
      BY <1>1 DEF TypeOK, Change
    <2>. QED BY <2>1, <2>2, <2>3, <2>4
  <1>2. CASE Notify
    <2>1. TypeOK'
      BY <1>2 DEF TypeOK, Notify, Live
    <2>2. Connected' /\ Attached'
      BY <1>2 DEF TypeOK, Connected, Attached, Notify, Live
    <2>3. UpToDate'
      BY <1>2 DEF TypeOK, Connected, UpToDate, WillList, Notify, Live
    <2>4. owed' < version'
      BY <1>2 DEF TypeOK, Notify
    <2>. QED BY <2>1, <2>2, <2>3, <2>4
  <1>3. ASSUME NEW c \in Client, NEW s \in Stream, Open(c, s)
        PROVE  Inv'
    <2>1. TypeOK'
      <3>1. \A d \in Client : stream'[d] # NoStream => \E h \in Credential[d] : h.token = Expected
        BY <1>3, OnlyTheToken DEF TypeOK, Open
      <3>. QED BY <1>3, <3>1 DEF TypeOK, Open
    <2>2. Connected'
      BY <1>3 DEF TypeOK, Connected, Open
    <2>3. Attached'
      BY <1>3 DEF TypeOK, Attached, Open
    <2>4. UpToDate'
      BY <1>3 DEF TypeOK, UpToDate, WillList, Open
    <2>5. owed' < version'
      BY <1>3 DEF TypeOK, Open
    <2>. QED BY <2>1, <2>2, <2>3, <2>4, <2>5
  <1>4. ASSUME NEW c \in Client, ServeList(c)
        PROVE  Inv'
    <2>1. TypeOK'
      BY <1>4 DEF TypeOK, ServeList
    <2>2. Connected' /\ Attached'
      BY <1>4 DEF Connected, Attached, ServeList
    <2>3. UpToDate'
      BY <1>4 DEF TypeOK, UpToDate, WillList, ServeList
    <2>4. owed' < version'
      BY <1>4 DEF TypeOK, ServeList
    <2>. QED BY <2>1, <2>2, <2>3, <2>4
  <1>5. ASSUME NEW c \in Client, ReceiveList(c)
        PROVE  Inv'
    <2>1. TypeOK'
      BY <1>5 DEF TypeOK, ReceiveList
    <2>2. Connected' /\ Attached'
      BY <1>5 DEF Connected, Attached, ReceiveList
    <2>3. UpToDate'
      BY <1>5 DEF TypeOK, UpToDate, WillList, ReceiveList
    <2>4. owed' < version'
      BY <1>5 DEF TypeOK, ReceiveList
    <2>. QED BY <2>1, <2>2, <2>3, <2>4
  <1>6. ASSUME NEW c \in Client, Leave(c)
        PROVE  Inv'
    <2>1. TypeOK'
      BY <1>6 DEF TypeOK, Leave
    <2>2. Connected' /\ Attached'
      BY <1>6 DEF TypeOK, Connected, Attached, Leave
    <2>3. UpToDate'
      BY <1>6 DEF TypeOK, UpToDate, WillList, Leave
    <2>4. owed' < version'
      BY <1>6 DEF TypeOK, Leave
    <2>. QED BY <2>1, <2>2, <2>3, <2>4
  <1>7. ASSUME NEW s \in Stream, SendMessage(s) \/ Keepalive(s)
        PROVE  Inv'
    <2>1. receiver[s] = "held" /\ socket[s] \in {"up", "closed", "reset"}
      BY <1>7 DEF TypeOK, Attached, SendMessage, Keepalive, Live
    <2>2. \/ socket[s] = "up" /\ UNCHANGED <<socket, receiver>>
          \/ socket[s] # "up" /\ socket' = [socket EXCEPT ![s] = "reset"] /\ UNCHANGED receiver
          \/ socket[s] # "up" /\ receiver' = [receiver EXCEPT ![s] = "dropped"] /\ UNCHANGED socket
      <3>1. WriteFrame(s)
        BY <1>7 DEF SendMessage, Keepalive
      <3>2. CASE socket[s] = "up"
        BY <3>1, <3>2 DEF WriteFrame
      <3>3. CASE socket[s] = "closed"
        BY <3>1, <3>3 DEF WriteFrame
      <3>4. CASE socket[s] = "reset"
        BY <3>1, <3>4 DEF WriteFrame
      <3>. QED BY <2>1, <3>2, <3>3, <3>4
    <2>3. /\ queue' \in [Stream -> 0..MaxQueue] /\ told' \subseteq Client
          /\ UNCHANGED <<version, owed, subscribers, stream, response, seen>>
      <3>1. CASE SendMessage(s)
        <4>1. queue[s] - 1 \in 0..MaxQueue
          BY <3>1 DEF TypeOK, SendMessage
        <4>. QED BY <3>1, <4>1 DEF TypeOK, SendMessage, Listeners
      <3>2. CASE Keepalive(s)
        BY <3>2 DEF TypeOK, Keepalive
      <3>. QED BY <1>7, <3>1, <3>2
    <2>4. TypeOK'
      BY <2>2, <2>3 DEF TypeOK
    <2>5. Attached' /\ owed' < version'
      BY <2>1, <2>2, <2>3 DEF TypeOK, Attached
    <2>6. Connected'
      BY <2>2, <2>3 DEF TypeOK, Connected
    <2>7. UpToDate'
      BY <1>7 DEF TypeOK, UpToDate, WillList, SendMessage, Keepalive, Listeners
    <2>. QED BY <2>4, <2>5, <2>6, <2>7
  <1>8. CASE UNCHANGED vars
    BY <1>8 DEF vars, TypeOK, Connected, Attached, UpToDate, WillList
  <1>. QED BY <1>1, <1>2, <1>3, <1>4, <1>5, <1>6, <1>7, <1>8 DEF Next

THEOREM Invariant == Spec => []Inv
  BY InitInv, Inductive, PTL DEF Spec

\* The state keeps its types; in particular only a client that presents the
\* configured token has an event stream.
THEOREM TypeCorrect == Spec => []TypeOK
  <1>1. Inv => TypeOK
    BY DEF Inv
  <1>. QED BY <1>1, Invariant, PTL

\* No change of the tool list passes a connected client by.
THEOREM ChangesAreNoticed == Spec => []NoChangeIsMissed
  <1>1. Inv => NoChangeIsMissed
    BY DEF Inv, TypeOK, UpToDate, WillList, NoChangeIsMissed, Versions
  <1>. QED BY <1>1, Invariant, PTL
=============================================================================
