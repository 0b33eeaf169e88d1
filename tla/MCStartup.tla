----------------------------- MODULE MCStartup ------------------------------
(* Manifests of up to three servers over the characters a and b, a separator *)
(* and a blank.  Each limit is met exactly by one manifest and exceeded by   *)
(* another, one at a time.                                                   *)
EXTENDS Startup, TLC

CONSTANTS a, b, dot, blank

Entry(id, tools) ==
  [id |-> id, command |-> <<a>>, args |-> <<>>, tools |-> tools, env |-> {}]

\* Under a server "a" this is the tool "b.a"; under a server "a.b", which must
\* not be, "a" has the same name.
Tools == (<<b, dot, a>> :> "read") @@ (<<a>> :> "read")
Gated == (<<b, dot, a>> :> "write") @@ (<<a>> :> "read")

A    == Entry(<<a>>, Tools)
AtLimits ==
  [id |-> <<b, a, b>>, command |-> <<a, b>>, args |-> <<1>>,
   tools |-> (<<>> :> "read") @@ (<<dot, a, dot>> :> "read"),
   env |-> {[key |-> "plain", value |-> 1]}]

BadEntries ==
  {Entry(<<>>, Tools), Entry(<<blank>>, Tools), Entry(<<b, a, b, a>>, Tools),
   Entry(<<b>>, Tools @@ (<<b>> :> "confirm")), Entry(<<b>>, <<a, b, a, b>> :> "read"),
   [AtLimits EXCEPT !.command = <<blank, blank>>],
   [AtLimits EXCEPT !.command = <<a, b, a>>],
   [AtLimits EXCEPT !.args = <<1, 0>>],
   [AtLimits EXCEPT !.args = <<2>>],
   [AtLimits EXCEPT !.env = @ \union {[key |-> "plain", value |-> 0]}],
   [AtLimits EXCEPT !.env = {[key |-> "plain", value |-> 2]}]}
     \union {[AtLimits EXCEPT !.env = {[key |-> form, value |-> 1]}] :
               form \in KeyForm \ {"plain"}}

Manifests ==
  {<<>>, <<A, AtLimits>>, <<A, Entry(<<a>>, Gated)>>, <<Entry(<<a>>, Gated)>>,
   <<A, Entry(<<a, dot, b>>, Tools)>>,
   <<A, Entry(<<b>>, Gated), Entry(<<a, b>>, Tools)>>}
     \union {<<A, entry>> : entry \in BadEntries}

MCTexts ==
  {[bytes |-> 1, parses |-> TRUE, servers |-> m] : m \in Manifests}
    \union {[bytes |-> 2, parses |-> TRUE, servers |-> <<A>>],
            [bytes |-> 1, parses |-> FALSE, servers |-> <<>>]}

MCServerManifest == UNION {{m[k] : k \in DOMAIN m} : m \in Manifests}

\* Nothing, what was declared, and also what was not.
MCAdvertisements == {{}, {<<a>>, <<b, dot, a>>}, {<<a>>, <<>>, <<dot, a, dot>>}}

MCClientFiles == {"c1" :> "key" @@ "c2" :> "not_a_point" @@ "c3" :> "not_hex"}
=============================================================================
