-------------------------- MODULE MCControlChannel --------------------------
(***************************************************************************)
(* Daemons that are all configured with one address, a run of mcp-lock     *)
(* that is given something to sign, and one that is given something else.  *)
(***************************************************************************)
EXTENDS ControlChannel

CONSTANTS TheAddress, r1, r2

OneAddress == [d \in Daemon |-> TheAddress]

Numbers == ("0" :> 0) @@ ("60" :> 60) @@ ("300" :> 300)

\* Windows of every kind, two lines that are wrong, and a confirmation.
SignedLines ==
  {<<"elevate", "mail", "--ttl", "60", "--ttl", "0">>,
   <<"elevate", "--until-revoked">>,
   <<"elevate", "mail", "--until-revoked", "--ttl", "60">>,
   <<"elevate", "mail", "--ttl", "--until-revoked">>,
   <<"confirm", "mail", "send">>,
   <<"confirm", "mail">>}

PlainLines == {<<"revoke", "mail">>, <<"logs", "many">>}

MCLines == (r1 :> SignedLines) @@ (r2 :> PlainLines)

\* The words flags are made of, right and wrong.
Words == {"--ttl", "--until-revoked", "0", "60", "mail"}

\* parse_mode reads what the flags mean, on every line of up to five of them.
ASSUME FlagsAreUnderstood ==
  \A n \in 0 .. 5 : \A flags \in [1 .. n -> Words] : ParseMode(flags) = ModeMeant(flags)
=============================================================================
