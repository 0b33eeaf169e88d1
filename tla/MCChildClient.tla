--------------------------- MODULE MCChildClient ---------------------------
(* Small instances of ChildClient.                                          *)
EXTENDS ChildClient

-----------------------------------------------------------------------------
(* Claims of the repository's text that the code does not meet.             *)

\* "A child that drips unrelated notifications must not be able to reset the
\* clock forever" (StdioMcpClient::request): once the message is written, the
\* request returns.
WaitReturns == (client = "waiting") ~> (client # "waiting")

\* "A child that hangs (never replies) cannot deadlock the broker" (mcp_client.rs):
\* a request that is being written is eventually on its way.
WriteReturns == (client = "writing") ~> (client # "writing")
=============================================================================
