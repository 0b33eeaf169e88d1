----------------------------- MODULE MCEndpoint -----------------------------
(***************************************************************************)
(* One client that has the token, and others that have part of it, more    *)
(* than it, another one of its length, an empty one, the right one under   *)
(* another scheme, or no header at all.                                    *)
(***************************************************************************)
EXTENDS Endpoint, TLC

CONSTANTS c1, c2, c3, c4, c5, c6, c7

Token == <<7, 255, 0>>

With(scheme, token) == {[scheme |-> scheme, token |-> token]}

Credentials ==
  (c1 :> With("bearer", Token)) @@ (c2 :> With("Bearer", <<7, 255>>)) @@
  (c3 :> With("Bearer", Token \o <<0>>)) @@ (c4 :> With("Bearer", <<7, 255, 1>>)) @@
  (c5 :> With("Bearer", <<>>)) @@ (c6 :> With("Basic", Token)) @@ (c7 :> {})
=============================================================================
