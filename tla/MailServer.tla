----------------------------- MODULE MailServer -----------------------------
(***************************************************************************)
(* The mail server (crates/mail): a process the broker runs as a child.    *)
(* One loop reads a line, carries out what it asks for and writes one      *)
(* line back.  A tool call on the IMAP backend is a session of its own:    *)
(* connect, EXAMINE, SEARCH, FETCH, LOGOUT, each a round trip to a server  *)
(* whose mailbox others change meanwhile, with no time limit.  The         *)
(* in-memory store (--fake) answers at once and never changes.             *)
(*                                                                         *)
(* A message is its UID.  The id of a request is its place in the input.   *)
(* The names of this module are its own, so that it and ChildClient, which *)
(* is at the other end of its pipes, can be extended together.             *)
(***************************************************************************)
EXTENDS Naturals, Sequences, FiniteSets, SequencesExt

CONSTANTS
  MatchingUids,      \* the messages the search text of this instance matches
  DefaultListLimit,
  MaxListLimit,
  Limits,            \* the limits a client asks for
  Inputs(_),         \* the lines among these that the broker sends in this instance
  NoLimit,
  NullId,            \* the id of a reply to what could not be parsed
  MaxUid,            \* model bound: messages that ever arrive
  MaxLines           \* model bound: lines the broker sends

ASSUME MailAssumption ==
  /\ MaxUid \in Nat /\ MaxLines \in Nat
  /\ MatchingUids \subseteq 1..MaxUid
  /\ Limits \subseteq Nat \union {NoLimit} /\ NoLimit \notin Nat
  /\ NullId \notin Nat
  /\ {DefaultListLimit, MaxListLimit} \subseteq Nat
  /\ 1 <= DefaultListLimit /\ DefaultListLimit <= MaxListLimit

VARIABLES
  backend,   \* which store the process was started with
  lines,     \* what the broker has written to the child
  next,      \* the line to read next
  eof,       \* the broker has closed the child's input
  step,      \* where the loop is
  session,   \* the IMAP session
  found,     \* the UIDs to fetch
  reply,     \* what will be written
  output,    \* what has been written
  inbox,     \* the UIDs in the one mailbox
  uidNext,   \* the UID of the next message
  steady,    \* history: in the mailbox ever since the current line was read
  seen       \* history: in the mailbox at any time since then

loopVars == <<next, step, session, found, reply, output>>
mailVars == <<inbox, uidNext, steady, seen>>
mailServerVars == <<backend, lines, eof, loopVars, mailVars>>

-----------------------------------------------------------------------------
(* Lines and replies.                                                       *)

Mailboxes == {"inbox", "missing", "malformed"}   \* malformed: CR, LF or NUL inside

\* UID 0 stands for every argument that is not a positive 32-bit integer.
ToolCalls ==
  [kind : {"list_messages"}, limit : Limits, mailbox : Mailboxes]
    \union [kind : {"search"}, limit : Limits, mailbox : Mailboxes]
    \union [kind : {"fetch_message"}, uid : 0..MaxUid, mailbox : Mailboxes]

\* plain: initialize, ping and tools/list.  rejected: a wrong version, an unknown
\* method, or a tools/call without an object, a name or a required argument.
OtherLines ==
  [kind : {"blank", "notification", "not_utf8", "garbage", "plain", "rejected", "unknown_tool"}]

Lines == ToolCalls \union OtherLines

IsSilent(line) == line.kind \in {"blank", "notification"}

NoReply == [kind |-> "none"]
Plain(kind) == [kind |-> kind]
Summaries(uids) == [kind |-> "summaries", uids |-> uids]
Message(uid) == [kind |-> "message", uid |-> uid]

Replies ==
  {Plain(k) : k \in {"result", "error", "unknown_tool", "unavailable", "not_found", "backend"}}
    \union {Message(u) : u \in 1..MaxUid}
    \union {Summaries(s) : s \in UNION {[1..n -> 1..MaxUid] : n \in 0..MaxListLimit}}

\* These messages, newest first.
Descending(uids) ==
  CHOOSE s \in [1..Cardinality(uids) -> uids] : \A i, j \in DOMAIN s : i < j => s[i] > s[j]

Truncate(s, n) == IF Len(s) <= n THEN s ELSE SubSeq(s, 1, n)

-----------------------------------------------------------------------------
(* Arguments (tools.rs).                                                    *)

\* optional_limit: a limit of 0 is refused, a large one is capped.
BadArguments(line) ==
  \/ line.kind \in {"list_messages", "search"} /\ line.limit = 0
  \/ line.kind = "fetch_message" /\ line.uid = 0

DefaultLimit(line) == IF line.kind = "search" THEN MaxListLimit ELSE DefaultListLimit

Limit(line) ==
  IF line.limit = NoLimit THEN DefaultLimit(line)
  ELSE IF line.limit <= MaxListLimit THEN line.limit ELSE MaxListLimit

\* What a listing or a search is over: SEARCH ALL, or SEARCH TEXT.
Candidates(line) == IF line.kind = "search" THEN inbox \intersect MatchingUids ELSE inbox

KeptOldest(line) ==   \* mutant: the list is cut before it is reversed
  Reverse(Truncate(Reverse(Descending(Candidates(line))), Limit(line)))

\* The highest UIDs, newest first, as many as the limit lets through.
Kept(line) == Truncate(Descending(Candidates(line)), Limit(line))

\* FakeMailStore, where a malformed name is just a mailbox it does not have.
FakeReply(line) ==
  IF line.mailbox # "inbox" THEN Plain("unavailable")
  ELSE IF line.kind = "fetch_message"
    THEN IF line.uid \in inbox THEN Message(line.uid) ELSE Plain("not_found")
    ELSE Summaries(Kept(line))

-----------------------------------------------------------------------------
MailInit ==
  /\ backend \in {"imap", "fake"}
  /\ lines = <<>> /\ next = 1 /\ eof = FALSE
  /\ step = "starting"
  /\ session = "closed"
  /\ found = <<>>
  /\ reply = NoReply
  /\ output = <<>>
  /\ \E n \in 0..MaxUid : inbox = 1..n /\ uidNext = n + 1
  /\ steady = inbox /\ seen = inbox

\* main: the IMAP backend needs its configuration.
Start ==
  /\ step = "starting"
  /\ \/ step' = "reading"
     \/ backend = "imap" /\ step' = "exited"
  /\ UNCHANGED <<backend, lines, eof, next, session, found, reply, output, mailVars>>

Replying(r) == reply' = r /\ step' = "write" /\ UNCHANGED <<session, found>>

\* process_line, handle_request and handle_tools_call, up to the store.
Process(line) ==
  CASE IsSilent(line) ->
         step' = "reading" /\ UNCHANGED <<session, found, reply>>
    [] line.kind = "not_utf8" ->
         step' = "exited" /\ UNCHANGED <<session, found, reply>>
    [] line.kind \in {"garbage", "rejected"} -> Replying(Plain("error"))
    [] line.kind = "plain" -> Replying(Plain("result"))
    [] line.kind = "unknown_tool" -> Replying(Plain("unknown_tool"))
    [] line \in ToolCalls /\ BadArguments(line) -> Replying(Plain("error"))
    [] line \in ToolCalls /\ ~BadArguments(line) /\ backend = "fake" ->
         Replying(FakeReply(line))
    [] line \in ToolCalls /\ ~BadArguments(line) /\ backend = "imap" ->
         IF line.mailbox = "malformed"
           THEN Replying(Plain("unavailable"))
           ELSE step' = "connect" /\ UNCHANGED <<session, found, reply>>

ReadStrict ==   \* mutant: a line that cannot be parsed ends the loop
  /\ step = "reading"
  /\ next <= Len(lines)
  /\ IF lines[next].kind = "garbage"
       THEN step' = "exited" /\ UNCHANGED <<session, found, reply>>
       ELSE Process(lines[next])
  /\ next' = next + 1
  /\ steady' = inbox /\ seen' = inbox
  /\ UNCHANGED <<backend, lines, eof, output, inbox, uidNext>>

NextLine ==
  /\ step = "reading"
  /\ next <= Len(lines)
  /\ Process(lines[next])
  /\ next' = next + 1
  /\ steady' = inbox /\ seen' = inbox
  /\ UNCHANGED <<backend, lines, eof, output, inbox, uidNext>>

InputEnds ==
  /\ step = "reading"
  /\ next > Len(lines) /\ eof
  /\ step' = "exited"
  /\ UNCHANGED <<backend, lines, eof, next, session, found, reply, output, mailVars>>

CurrentLine == lines[next - 1]
ReplyIdByCount == Len(output) + 1   \* mutant: replies are numbered as they are written
ReplyId == IF CurrentLine.kind = "garbage" THEN NullId ELSE next - 1

\* One line, flushed; or the broker has gone.
WriteReply ==
  /\ step = "write"
  /\ reply' = NoReply
  /\ \/ /\ output' = Append(output, [id |-> ReplyId, kind |-> reply.kind])
        /\ step' = "reading"
     \/ /\ eof
        /\ step' = "exited"
        /\ UNCHANGED output
  /\ UNCHANGED <<backend, lines, eof, next, session, found, mailVars>>

-----------------------------------------------------------------------------
(* The IMAP session (imap_backend.rs): every step waits for the server.     *)

Session(from, to) ==
  /\ step = from
  /\ step' = to
  /\ UNCHANGED <<backend, lines, eof, next, output, mailVars>>

Connect ==
  \/ Session("connect", "examine") /\ session' = "open" /\ UNCHANGED <<found, reply>>
  \/ Session("connect", "write") /\ reply' = Plain("backend") /\ UNCHANGED <<session, found>>

ExamineAndReturn ==   \* mutant: a mailbox that cannot be opened skips the logout
  \/ /\ step = "examine" /\ CurrentLine.mailbox = "inbox"
     /\ Session("examine", IF CurrentLine.kind = "fetch_message" THEN "fetch" ELSE "search")
     /\ UNCHANGED <<session, found, reply>>
  \/ /\ Session("examine", "write")
     /\ reply' = Plain("unavailable")
     /\ UNCHANGED <<session, found>>

Examine ==
  \/ /\ step = "examine" /\ CurrentLine.mailbox = "inbox"
     /\ Session("examine", IF CurrentLine.kind = "fetch_message" THEN "fetch" ELSE "search")
     /\ UNCHANGED <<session, found, reply>>
  \/ /\ Session("examine", "logout")
     /\ reply' = Plain("unavailable")
     /\ UNCHANGED <<session, found>>

\* The operation is done, with this outcome; what is left is to log out.
Concludes(from, r) ==
  /\ Session(from, "logout")
  /\ reply' = r
  /\ found' = <<>>
  /\ UNCHANGED session

\* uid_search, and the cut to the limit.  Nothing is fetched if nothing is left.
Search ==
  \/ /\ step = "search" /\ Kept(CurrentLine) # <<>>
     /\ Session("search", "fetch")
     /\ found' = Kept(CurrentLine)
     /\ UNCHANGED <<session, reply>>
  \/ /\ step = "search" /\ Kept(CurrentLine) = <<>>
     /\ Concludes("search", Summaries(<<>>))
  \/ Concludes("search", Plain("backend"))

\* fetch_summaries: what is still there, in whatever order, sorted.
FetchSummaries ==
  /\ step = "fetch" /\ CurrentLine.kind # "fetch_message"
  /\ \/ Concludes("fetch", Summaries(Descending(ToSet(found) \intersect inbox)))
     \/ Concludes("fetch", Plain("backend"))

FetchBySequence ==   \* mutant: FETCH for UID FETCH, the UID taken as a position
  /\ step = "fetch" /\ CurrentLine.kind = "fetch_message"
  /\ Concludes("fetch", IF CurrentLine.uid <= Cardinality(inbox)
                          THEN Message(CurrentLine.uid) ELSE Plain("not_found"))

FetchMessage ==
  /\ step = "fetch" /\ CurrentLine.kind = "fetch_message"
  /\ \/ Concludes("fetch", IF CurrentLine.uid \in inbox THEN Message(CurrentLine.uid)
                                                   ELSE Plain("not_found"))
     \/ Concludes("fetch", Plain("backend"))

\* Whether or not the server takes leave, the connection is dropped.
Logout == Session("logout", "write") /\ session' = "closed" /\ UNCHANGED <<found, reply>>

-----------------------------------------------------------------------------
(* The environment: the broker, and whoever else uses the mailbox.          *)

Send ==
  /\ ~eof /\ Len(lines) < MaxLines
  /\ \E line \in {l \in Lines : Inputs(l)} : lines' = Append(lines, line)
  /\ UNCHANGED <<backend, eof, loopVars, mailVars>>

Close ==
  /\ ~eof
  /\ eof' = TRUE
  /\ UNCHANGED <<backend, lines, loopVars, mailVars>>

Arrive ==
  /\ backend = "imap" /\ uidNext <= MaxUid
  /\ inbox' = inbox \union {uidNext}
  /\ seen' = seen \union {uidNext}
  /\ uidNext' = uidNext + 1
  /\ UNCHANGED <<backend, lines, eof, loopVars, steady>>

Expunge ==
  /\ backend = "imap"
  /\ \E u \in inbox : inbox' = inbox \ {u} /\ steady' = steady \ {u}
  /\ UNCHANGED <<backend, lines, eof, loopVars, uidNext, seen>>

-----------------------------------------------------------------------------
AwaitsImap == step \in {"connect", "examine", "search", "fetch", "logout"}

Loop == Start \/ NextLine \/ InputEnds \/ WriteReply
Imap == Connect \/ Examine \/ Search \/ FetchSummaries \/ FetchMessage \/ Logout

MailNext == Loop \/ Imap \/ Send \/ Close \/ Arrive \/ Expunge

MailSpec == MailInit /\ [][MailNext]_mailServerVars

\* The process runs when it can.  Nothing is assumed of the IMAP server.
FairSpec == MailSpec /\ WF_mailServerVars(Loop)

-----------------------------------------------------------------------------
(* Properties.                                                              *)

\* A session is open only inside a request that is talking to the server, and a
\* reply exists only until it is written.
MailTypeOK ==
  /\ backend \in {"imap", "fake"}
  /\ lines \in Seq(Lines) /\ Len(lines) <= MaxLines
  /\ next \in 1..Len(lines) + 1
  /\ step \in {"starting", "reading", "connect", "examine", "search", "fetch",
                "logout", "write", "exited"}
  /\ (session = "open") <=> (step \in {"examine", "search", "fetch", "logout"})
  /\ found \in Seq(1..MaxUid)
  /\ reply \in Replies \union {NoReply}
  /\ step \in {"write", "logout"} <=> reply # NoReply
  /\ inbox \subseteq 1..MaxUid /\ steady \subseteq inbox /\ inbox \subseteq seen

\* The lines read, without the one being served.
Served == IF step \in {"reading", "exited", "starting"} THEN next - 1 ELSE next - 2

\* One reply for every line that is owed one, in their order, each under the id of
\* its request: what the broker's child client counts on (Server::run).  A reply
\* that cannot be written any more ends the process.
RepliesInOrder ==
  LET Owed == {i \in 1..Served : lines[i].kind \notin {"blank", "notification", "not_utf8"}}
      Rank(i) == Cardinality({j \in Owed : j <= i})
  IN  /\ \/ Len(output) = Cardinality(Owed)
         \/ step = "exited" /\ eof /\ Len(output) = Cardinality(Owed) - 1
      /\ \A i \in Owed : Rank(i) <= Len(output) =>
           output[Rank(i)].id = IF lines[i].kind = "garbage" THEN NullId ELSE i

\* The requests among the lines read, and how many replies carry the id of each.
RequestsRead ==
  {i \in 1..next - 1 : lines[i].kind \notin {"blank", "notification", "not_utf8", "garbage"}}
RepliesTo == [i \in 1..MaxLines |-> Cardinality({k \in DOMAIN output : output[k].id = i})]

Child == INSTANCE WellMeaningChild
           WITH Requests <- 1..MaxLines, received <- RequestsRead, answers <- RepliesTo

\* The server keeps to what the client at the other end takes for granted: a request
\* is answered after it is read, and once ("one response line per request").
WellMeaning == Child!Spec

\* What a listing or a search reports, of a mailbox that changes under it: messages
\* that were there, newest first, no more than the caller or the cap allows; and a
\* message that was there all along is missing only if there was a full list of
\* newer ones to report (MailStore: "up to limit ... most recent, newest first").
ListingIsNewest ==
  step = "write" /\ reply.kind = "summaries" =>
    LET uids == reply.uids
        wanted == IF CurrentLine.kind = "search" THEN MatchingUids ELSE 1..MaxUid
        most == IF CurrentLine.limit \in 1..MaxListLimit THEN CurrentLine.limit
                ELSE IF CurrentLine.limit = NoLimit /\ CurrentLine.kind = "list_messages"
                  THEN DefaultListLimit ELSE MaxListLimit
    IN  /\ Len(uids) <= most
        /\ ToSet(uids) \subseteq seen \intersect wanted
        /\ \A i \in 1..Len(uids) - 1 : uids[i] > uids[i + 1]
        /\ \A u \in (steady \intersect wanted) \ ToSet(uids) :
             Cardinality({v \in seen \intersect wanted : v > u}) >= most

\* A message is reported missing only if it was not there all along.
MissingWasMissing ==
  step = "write" /\ reply.kind = "not_found" => CurrentLine.uid \notin steady

\* Every line is served, whatever the lines before it were, as long as the IMAP
\* server goes on answering, for there is no time limit; unless the process never
\* started, or one of the lines was not text, or there is nobody left to reply to.
LinesAreServed ==
  []<>~AwaitsImap =>
    \A i \in 1..MaxLines :
      (Len(lines) >= i) ~> \/ Served >= i
                           \/ step = "exited" /\ (eof \/ next = 1)
                           \/ \E j \in 1..i : j <= Len(lines) /\ lines[j].kind = "not_utf8"
=============================================================================
