---------------------------- MODULE ChildClient ----------------------------
(***************************************************************************)
(* The broker's client for one child server                                *)
(* (crates/broker/src/mcp_client.rs): the thread that makes requests, one  *)
(* at a time, the reader thread that moves the child's output lines to a   *)
(* channel, and the child at the other end of two pipes.                   *)
(*                                                                         *)
(* The child is a well-meaning server: it answers a request at most once   *)
(* and only after it has read it (WellMeaningChild).  It may be slow,      *)
(* hang, stop reading, print lines that are not answers, or exit.          *)
(***************************************************************************)
EXTENDS Naturals, Sequences

CONSTANTS
  Timeout,         \* the request timeout, in ticks
  MaxSize,         \* the largest message, in chunks
  StdinCapacity,   \* what the child's stdin pipe holds, in chunks
  StdoutCapacity,  \* what its stdout pipe holds, in lines
  ChatterKinds,    \* lines it may print that answer nothing
  Floods,          \* TRUE: it may print them for ever
  MaxChatter,      \* model bound: how many, otherwise
  MaxChannel,      \* model bound: lines in the channel (unbounded in the code)
  MaxRequests      \* model bound: requests made

ASSUME ChildClientAssumption ==
  /\ Timeout \in Nat
  /\ {MaxSize, StdinCapacity, StdoutCapacity, MaxChannel} \subseteq Nat \ {0}
  /\ {MaxChatter, MaxRequests} \subseteq Nat
  /\ ChatterKinds \subseteq {"notification", "blank", "garbage", "overlong"}
  /\ Floods \in BOOLEAN

VARIABLES
  phase,     \* how far the client is: handshake, or serving calls
  client,    \* what its thread is doing
  next_id,
  unsent,    \* chunks of the message being written
  budget,    \* ticks left until the deadline of the request in progress
  child,
  stdin, stdout, channel,
  reader,    \* the reader thread
  received,  \* requests the child has read in full
  answered,  \* requests the child has answered
  chatter,   \* other lines it has printed
  results    \* history: what each finished request returned, and whose answer

requester == <<phase, client, next_id, unsent, budget, results>>
server    == <<received, answered, chatter>>
vars      == <<requester, child, stdin, stdout, channel, reader, server>>

Ids      == 1..MaxRequests
NoId     == 0
Chunk    == [id : Ids \union {NoId}, last : BOOLEAN]
Line     == [kind : {"answer", "error"}, id : Ids]
              \union [kind : ChatterKinds, id : {NoId}]
Outcomes == {"Ok", "Rpc", "Protocol", "Io", "Exited", "Timeout"}

TypeOK ==
  /\ phase \in {"initialize", "initialized", "serving"}
  /\ client \in {"idle", "writing", "waiting", "dropped"}
  /\ next_id \in 1..(MaxRequests + 1)
  /\ unsent \in 0..MaxSize
  /\ budget \in 0..Timeout
  /\ child \in {"running", "exited"}
  /\ stdin \in Seq(Chunk) /\ Len(stdin) <= StdinCapacity
  /\ stdout \in Seq(Line) /\ Len(stdout) <= StdoutCapacity
  /\ channel \in Seq(Line) /\ Len(channel) <= MaxChannel
  /\ reader \in {"running", "ended"}
  /\ answered \subseteq received /\ received \subseteq Ids
  /\ chatter \in 0..MaxChatter
  /\ results \subseteq [id : Ids, outcome : Outcomes, of : Ids \union {NoId}]

\* spawn_with_timeout: the process and the reader thread run, the handshake is
\* about to be made.
Init ==
  /\ phase = "initialize"
  /\ client = "idle"
  /\ next_id = 1
  /\ unsent = 0
  /\ budget = 0
  /\ child = "running"
  /\ stdin = <<>> /\ stdout = <<>> /\ channel = <<>>
  /\ reader = "running"
  /\ received = {} /\ answered = {} /\ chatter = 0
  /\ results = {}

-----------------------------------------------------------------------------
(* The requesting thread.                                                   *)

Current == next_id - 1   \* the id of the request in progress

RequestSameId(size) ==   \* mutant: the id is read, and not advanced
  /\ client = "idle"
  /\ phase \in {"initialize", "serving"}
  /\ next_id <= MaxRequests
  /\ client' = "writing"
  /\ unsent' = size
  /\ UNCHANGED <<phase, next_id, budget, results, child, stdin, stdout, channel, reader, server>>

Request(size) ==
  /\ client = "idle"
  /\ phase \in {"initialize", "serving"}
  /\ next_id <= MaxRequests
  /\ next_id' = next_id + 1
  /\ client' = "writing"
  /\ unsent' = size
  /\ UNCHANGED <<phase, budget, results, child, stdin, stdout, channel, reader, server>>

\* write_line blocks while the pipe is full: there is no deadline yet.  The
\* handshake's notification expects no answer.
Write ==
  LET id == IF phase = "initialized" THEN NoId ELSE Current
  IN  /\ client = "writing"
      /\ child = "running"
      /\ Len(stdin) < StdinCapacity
      /\ stdin' = Append(stdin, [id |-> id, last |-> unsent = 1])
      /\ unsent' = unsent - 1
      /\ IF unsent > 1 THEN UNCHANGED <<client, phase, budget>>
         ELSE IF phase = "initialized"
           THEN client' = "idle" /\ phase' = "serving" /\ UNCHANGED budget
           ELSE client' = "waiting" /\ budget' = Timeout /\ UNCHANGED phase
      /\ UNCHANGED <<next_id, results, child, stdout, channel, reader, server>>

\* The request returns.  A failed handshake drops the client, which kills the
\* child; a successful one is followed by the notification.
Return(outcome, of) ==
  /\ results' = results \union {[id |-> Current, outcome |-> outcome, of |-> of]}
  /\ budget' = 0
  /\ CASE phase = "serving" ->
            client' = "idle" /\ unsent' = 0 /\ UNCHANGED <<phase, child>>
       [] phase # "serving" /\ outcome = "Ok" ->
            phase' = "initialized" /\ client' = "writing" /\ unsent' = 1 /\ UNCHANGED child
       [] OTHER ->
            client' = "dropped" /\ unsent' = 0 /\ child' = "exited" /\ UNCHANGED phase
  /\ UNCHANGED next_id

WriteFails ==   \* a broken pipe
  /\ client = "writing"
  /\ child = "exited"
  /\ Return("Io", NoId)
  /\ UNCHANGED <<stdin, stdout, channel, reader, server>>

ReceiveAny ==   \* mutant: the next answer is taken for ours, whatever its id
  /\ client = "waiting"
  /\ channel # <<>>
  /\ channel' = Tail(channel)
  /\ LET line == Head(channel)
     IN  \/ line.kind = "overlong" /\ Return("Io", NoId)
         \/ line.kind = "garbage" /\ Return("Protocol", NoId)
         \/ line.kind = "answer" /\ Return("Ok", line.id)
         \/ line.kind = "error" /\ Return("Rpc", line.id)
         \/ line.kind \in {"blank", "notification"} /\ UNCHANGED <<requester, child>>
  /\ UNCHANGED <<stdin, stdout, reader, server>>

\* A line is taken if there is one, deadline or no deadline.  Blank lines and
\* messages with another id, or none, are skipped.
Receive ==
  /\ client = "waiting"
  /\ channel # <<>>
  /\ channel' = Tail(channel)
  /\ LET line == Head(channel)
     IN  \/ line.kind = "overlong" /\ Return("Io", NoId)
         \/ line.kind = "garbage" /\ Return("Protocol", NoId)
         \/ line.kind = "answer" /\ line.id = Current /\ Return("Ok", line.id)
         \/ line.kind = "error" /\ line.id = Current /\ Return("Rpc", line.id)
         \/ line.kind \in {"blank", "notification"} /\ UNCHANGED <<requester, child>>
         \/ /\ line.kind \in {"answer", "error"} /\ line.id # Current
            /\ UNCHANGED <<requester, child>>
  /\ UNCHANGED <<stdin, stdout, reader, server>>

TimesOutIfDead ==   \* mutant: a child that is alive is waited for
  /\ client = "waiting"
  /\ channel = <<>> /\ reader = "running"
  /\ budget = 0
  /\ child = "exited"
  /\ Return("Timeout", NoId)
  /\ UNCHANGED <<stdin, stdout, channel, reader, server>>

TimesOut ==
  /\ client = "waiting"
  /\ channel = <<>> /\ reader = "running"
  /\ budget = 0
  /\ Return("Timeout", NoId)
  /\ UNCHANGED <<stdin, stdout, channel, reader, server>>

Disconnected ==
  /\ client = "waiting"
  /\ channel = <<>> /\ reader = "ended"
  /\ Return("Exited", NoId)
  /\ UNCHANGED <<stdin, stdout, channel, reader, server>>

DropWithoutKill ==   \* mutant: the process is left to notice by itself
  /\ client = "idle" /\ phase = "serving"
  /\ client' = "dropped"
  /\ UNCHANGED <<phase, next_id, unsent, budget, results, child>>
  /\ UNCHANGED <<stdin, stdout, channel, reader, server>>

\* Aggregator::stop drops the handle between calls: the process is killed and
\* reaped, the receiver is gone, the reader thread is left to itself.
Drop ==
  /\ client = "idle" /\ phase = "serving"
  /\ client' = "dropped"
  /\ child' = "exited"
  /\ UNCHANGED <<phase, next_id, unsent, budget, results>>
  /\ UNCHANGED <<stdin, stdout, channel, reader, server>>

Tick ==
  /\ client = "waiting"
  /\ budget > 0
  /\ budget' = budget - 1
  /\ UNCHANGED <<phase, client, next_id, unsent, results>>
  /\ UNCHANGED <<child, stdin, stdout, channel, reader, server>>

-----------------------------------------------------------------------------
(* The reader thread, read_lines.                                           *)

\* An over-long line is sent as an error and ends the thread; so does a send to
\* a receiver that is gone.
ReadLine ==
  /\ reader = "running"
  /\ stdout # <<>>
  /\ stdout' = Tail(stdout)
  /\ IF client = "dropped"
       THEN reader' = "ended" /\ UNCHANGED channel
       ELSE /\ Len(channel) < MaxChannel
            /\ channel' = Append(channel, Head(stdout))
            /\ reader' = IF Head(stdout).kind = "overlong" THEN "ended" ELSE "running"
  /\ UNCHANGED <<requester, child, stdin, server>>

ReadEof ==
  /\ reader = "running"
  /\ stdout = <<>>
  /\ child = "exited"
  /\ reader' = "ended"
  /\ UNCHANGED <<requester, child, stdin, stdout, channel, server>>

-----------------------------------------------------------------------------
(* The child process: the environment.                                      *)

ChildReads ==
  /\ child = "running"
  /\ stdin # <<>>
  /\ stdin' = Tail(stdin)
  /\ received' = IF Head(stdin).last /\ Head(stdin).id # NoId
                   THEN received \union {Head(stdin).id} ELSE received
  /\ UNCHANGED <<requester, child, stdout, channel, reader, answered, chatter>>

ChildPrints(line) ==
  /\ child = "running"
  /\ Len(stdout) < StdoutCapacity
  /\ stdout' = Append(stdout, line)
  /\ UNCHANGED <<requester, child, stdin, channel, reader, received>>

ChildAnswers ==
  \E id \in received \ answered, kind \in {"answer", "error"} :
    /\ ChildPrints([kind |-> kind, id |-> id])
    /\ answered' = answered \union {id}
    /\ UNCHANGED chatter

ChildChatters ==
  /\ Floods \/ chatter < MaxChatter
  /\ \E kind \in ChatterKinds : ChildPrints([kind |-> kind, id |-> NoId])
  /\ chatter' = IF Floods THEN chatter ELSE chatter + 1
  /\ UNCHANGED answered

ChildExits ==
  /\ child = "running"
  /\ child' = "exited"
  /\ UNCHANGED <<requester, stdin, stdout, channel, reader, server>>

-----------------------------------------------------------------------------
\* The steps of the requesting thread that are due without the child's help.
Requesting == Write \/ WriteFails \/ Receive \/ TimesOut \/ Disconnected
Reading    == ReadLine \/ ReadEof

Next ==
  \/ \E size \in 1..MaxSize : Request(size)
  \/ Requesting
  \/ Drop
  \/ Tick
  \/ Reading
  \/ ChildReads \/ ChildAnswers \/ ChildChatters \/ ChildExits

\* Both threads are scheduled and time passes.  Nothing is assumed of the child.
Spec == Init /\ [][Next]_vars /\ WF_vars(Requesting) /\ WF_vars(Reading) /\ WF_vars(Tick)

-----------------------------------------------------------------------------
(* Properties.                                                              *)

\* A request returns the answer the child gave to that very request: never the
\* late answer to one that timed out or was abandoned on a garbled line, even
\* when the client is used again.
AnswerIsOurs ==
  \A r \in results :
    r.outcome \in {"Ok", "Rpc"} => r.of = r.id /\ r.id \in answered

\* A child that hangs cannot hold the requesting thread, and with it the
\* aggregator's mutex, for ever.
RequestReturns ==
  (client \in {"writing", "waiting"}) ~> (client \in {"idle", "dropped"})

\* The reader thread of a dropped client does not linger, though nobody joins it.
ReaderEnds == (client = "dropped") ~> (reader = "ended")
=============================================================================
