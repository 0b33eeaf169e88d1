---------------------------- MODULE PresenceGate ----------------------------
(***************************************************************************)
(* What the whole broker promises about presence, with no clocks, mutexes, *)
(* nonce store or elevations: a gated tool call reaches a child only on    *)
(* the strength of an assertion somebody with a registered key signed for  *)
(* that server, and a confirm tool's call also spends an assertion signed  *)
(* for that very tool.  Broker implements this module (Broker!Gate).       *)
(***************************************************************************)
EXTENDS Policy, Sequences

CONSTANTS
  Nonce,    \* what names an assertion
  Purpose,  \* what an assertion may authorise
  NoNonce

VARIABLES
  signed,   \* the assertions made: [nonce, purpose]
  invoked   \* the calls sent to children, with the assertions behind them

vars == <<signed, invoked>>

Assertion == [nonce : Nonce, purpose : Purpose]

Init ==
  /\ signed = {}
  /\ invoked = <<>>

Sign(assertion) ==
  /\ signed' = signed \union {assertion}
  /\ UNCHANGED invoked

Elevates(nonce, s) ==
  \E a \in signed : /\ a.nonce = nonce
                    /\ a.purpose.kind \in {"elevate", "elevate_until_revoked"}
                    /\ a.purpose.server = s

Confirms(nonce, s, t) ==
  \E a \in signed : /\ a.nonce = nonce
                    /\ a.purpose.kind = "confirm"
                    /\ a.purpose.server = s
                    /\ a.purpose.tool = t

Unspent(nonce) == \A i \in DOMAIN invoked : invoked[i].approval # nonce

Invoke(call) ==
  LET class == Classify(call.server, call.tool)
  IN  /\ RequiresElevation(class) => Elevates(call.by, call.server)
      /\ RequiresPerActionPresence(class) =>
           Confirms(call.approval, call.server, call.tool) /\ Unspent(call.approval)
      /\ invoked' = Append(invoked, call)
      /\ UNCHANGED signed

Call == [server : Server, tool : Tool,
         by : Nonce \union {NoNonce}, approval : Nonce \union {NoNonce}]

Next ==
  \/ \E assertion \in Assertion : Sign(assertion)
  \/ \E call \in Call : Invoke(call)

Spec == Init /\ [][Next]_vars
=============================================================================
