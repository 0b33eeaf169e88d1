---------------------------- MODULE CommandLine ----------------------------
(***************************************************************************)
(* What a line typed to mcp-lock asks for (crates/cli/src/main.rs), the    *)
(* form in which it is put to the daemon, and what the daemon makes of     *)
(* that (crates/broker/src/control_handler.rs).                            *)
(*                                                                         *)
(* A line is a sequence of words.  A word is read whole: it is the name of *)
(* a command or of a flag, a number, or anything else.                     *)
(***************************************************************************)
EXTENDS Naturals, Sequences, SequencesExt

CONSTANT Numeral   \* the words that are numbers, with their values

ASSUME NumeralAssumption ==
  /\ {"--ttl", "--until-revoked"} \intersect DOMAIN Numeral = {}
  /\ \A w \in DOMAIN Numeral : Numeral[w] \in Nat

DefaultTtlSecs == 300

Duration(secs) == [kind |-> "duration", secs |-> secs]
UntilRevoked   == [kind |-> "until_revoked"]

\* What a line comes to when it asks for nothing: it is wrong, or wants help.
Usage == [cmd |-> "usage"]
Help  == [cmd |-> "help"]

-----------------------------------------------------------------------------
(* parse_mode: one word after another, the last --ttl counts.  What has been *)
(* read is a set, which is empty once the flags are wrong.                  *)

NothingRead == [ttl |-> DefaultTtlSecs, until |-> FALSE, wants |-> FALSE]

Acceptable(read, word) ==
  IF read.wants THEN word \in DOMAIN Numeral ELSE word \in {"--until-revoked", "--ttl"}

ReadFlag(read, word) ==
  IF read.wants THEN [read EXCEPT !.ttl = Numeral[word], !.wants = FALSE]
  ELSE IF word = "--ttl" THEN [read EXCEPT !.wants = TRUE]
  ELSE [read EXCEPT !.until = TRUE]

\* The window asked for, if the flags are right.
ParseMode(flags) ==
  LET step(reads, word) == {ReadFlag(r, word) : r \in {r \in reads : Acceptable(r, word)}}
      end == FoldLeft(step, {NothingRead}, flags)
  IN {IF r.until THEN UntilRevoked ELSE Duration(r.ttl) : r \in {r \in end : ~r.wants}}

OnServer   == {"start", "stop", "pause", "resume", "revoke"}
OnEvery    == {"status", "list"}

\* elevate, confirm and parse_simple.  Words that are left over do not matter,
\* except to elevate.
Parse(line) ==
  LET has(n) == Len(line) >= n
      word   == IF has(1) THEN line[1] ELSE "--help"
      modes  == ParseMode(SubSeq(line, 3, Len(line)))
  IN
  CASE word \in {"--help", "-h", "--version", "-V"} -> Help
    [] word = "elevate" /\ has(2) /\ modes # {} ->
         [cmd |-> "elevate", server |-> line[2], mode |-> CHOOSE m \in modes : TRUE]
    [] word = "confirm" /\ has(3) -> [cmd |-> "confirm", server |-> line[2], tool |-> line[3]]
    [] word \in OnServer /\ has(2) -> [cmd |-> word, server |-> line[2]]
    [] word \in OnEvery -> [cmd |-> word]
    [] word = "logs" /\ ~has(2) -> [cmd |-> "logs", limit |-> {}]
    [] word = "logs" /\ has(2) /\ line[2] \in DOMAIN Numeral ->
         [cmd |-> "logs", limit |-> {Numeral[line[2]]}]
    [] OTHER -> Usage

IsSigned(request) == request.cmd \in {"elevate", "confirm"}

-----------------------------------------------------------------------------
(* What the line means, said without reading it from left to right.         *)

\* The word after a --ttl is its value.
IsValue(flags, i) == i > 1 /\ flags[i - 1] = "--ttl"

WellFormed(flags) ==
  /\ flags # <<>> => flags[Len(flags)] # "--ttl"
  /\ \A i \in DOMAIN flags :
       IF IsValue(flags, i) THEN flags[i] \in DOMAIN Numeral
       ELSE flags[i] \in {"--until-revoked", "--ttl"}

ModeMeant(flags) ==
  LET values == {i \in DOMAIN flags : IsValue(flags, i)} IN
  IF ~WellFormed(flags) THEN {}
  ELSE IF "--until-revoked" \in {flags[i] : i \in DOMAIN flags} THEN {UntilRevoked}
  ELSE IF values = {} THEN {Duration(DefaultTtlSecs)}
  ELSE {Duration(Numeral[flags[CHOOSE i \in values : \A j \in values : j <= i]])}

\* The request is what the line says.
Asks(line, request) ==
  /\ request.cmd = line[1]
  /\ request.cmd \in OnServer \union {"elevate", "confirm"} => request.server = line[2]
  /\ request.cmd = "confirm" => request.tool = line[3]
  /\ request.cmd = "elevate" => ModeMeant(SubSeq(line, 3, Len(line))) = {request.mode}

-----------------------------------------------------------------------------
(* The wire: RequestElevation has the mode as a word and the length of the  *)
(* window, if there is one, beside it.                                      *)

ElevationRequest(request) ==
  [server |-> request.server, mode |-> request.mode.kind,
   ttl |-> IF request.mode.kind = "duration" THEN {request.mode.secs} ELSE {}]

\* request_elevation: the window that the daemon reads, or none.
RequestedMode(wire) ==
  CASE wire.mode = "duration" -> {Duration(t) : t \in wire.ttl}
    [] wire.mode = "until_revoked" -> {UntilRevoked}
    [] OTHER -> {}

\* The purposes that the daemon may issue a nonce for when asked by this request.
AskedOf(request) ==
  IF request.cmd = "confirm" THEN {request}
  ELSE LET wire == ElevationRequest(request)
       IN {[cmd |-> "elevate", server |-> wire.server, mode |-> m] : m \in RequestedMode(wire)}

\* challenge_message, but for the nonce and the client: what is signed, and what
\* the signature is checked against, each made from a purpose of its own.
ChallengeMessage(purpose) ==
  IF purpose.cmd = "elevate"
    THEN [purpose |-> "elevate", server |-> purpose.server, tool |-> {},
          mode |-> {purpose.mode.kind},
          ttl |-> IF purpose.mode.kind = "duration" THEN {purpose.mode.secs} ELSE {}]
    ELSE [purpose |-> "confirm", server |-> purpose.server, tool |-> {purpose.tool},
          mode |-> {}, ttl |-> {}]
=============================================================================
