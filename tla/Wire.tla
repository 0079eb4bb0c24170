-------------------------------- MODULE Wire --------------------------------
(***************************************************************************)
(* What the wire to a provider promises of the pure operators beside       *)
(* Replay: of the size of a tool's result (Truncation) and of a reply that *)
(* is sent back (Adapters), for inputs given as constants.  It is looked   *)
(* at in the states before the first round.                                *)
(***************************************************************************)
EXTENDS Replay, Truncation

CONSTANTS
  Limits,     \* character limits of a tool
  Sizes,      \* of a list's items, and lengths of a dict's values
  Parts,      \* of a response
  MaxParts    \* bound of the model: parts of a response, a list or a dict

ASSUME WireAssumption ==
  /\ MaxParts \in Nat /\ Limits \subseteq Int /\ Sizes \subseteq Nat
  /\ \A p \in Parts : \/ p.kind = "text" /\ p = Text(p.text)
                      \/ p.kind = "call" /\ p = Call(p.id, p.name, p.args, p.signature)

AtFirst == rounds = 0

(* "The budget is measured against the JSON-serialized form" (truncation.  *)
(* py): what is left of strings about the limit, with any width of         *)
(* characters, and of lists and dicts keeps to what Bounded says.          *)
Chars(length, width) == [k \in 1..length |-> width]
TruncationBounded ==
  AtFirst =>
    \A limit \in Limits : \A n \in 0..MaxParts : \A width \in Widths :
      \A sizes \in [1..n -> Sizes], length \in {limit \div width + n, limit + n} :
        Bounded(limit, Chars(length, width), sizes, [k \in 1..n |-> Chars(sizes[k], width)])

Responses ==
  [parts : UNION {[1..n -> Parts] : n \in 0..MaxParts}, stop : {"end_turn", "max_tokens"}]

(* What a provider said is what it is told it has said (adapters/*.py:     *)
(* _parse_response and the translation of turns), for every response.      *)
RepliesEchoed ==
  AtFirst => \A provider \in {"anthropic", "openai", "gemini"} :
               \A response \in Responses : EchoedTo(provider, response)
=============================================================================
