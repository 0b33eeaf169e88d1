---------------------------- MODULE MCMailServer ----------------------------
(* A mailbox of at most three messages, and lists of at most two.           *)
EXTENDS MailServer

\* Every kind of line, with one listing and one fetch of every mailbox but inbox.
MCInputs(line) ==
  line \in ToolCalls /\ line.mailbox # "inbox" =>
    \/ line.kind = "list_messages" /\ line.limit = NoLimit
    \/ line.kind = "fetch_message" /\ line.uid = 1 /\ line.mailbox = "missing"
=============================================================================
