------------------------------ MODULE Adapters ------------------------------
(***************************************************************************)
(* What the three adapters of harness/adapters/ make of a response, and of *)
(* the turns in a prompt.  A response is the sequence of its parts, texts  *)
(* and calls, and why it stopped; text is the sequence of its pieces.  The *)
(* arguments of a call are known by their shape: a "dict", "empty" for     *)
(* none, or "other".  What a request holds is a sequence of parts again.   *)
(*                                                                         *)
(* The siblings nothing uses (LastText, ...) are forms a plausible bug     *)
(* would give a definition, for checking the properties.                   *)
(***************************************************************************)
EXTENDS Naturals, Sequences, SequencesExt, FiniteSetsExt

NoSignature == "none"

Text(t) == [kind |-> "text", text |-> t]
Call(id, name, args, signature) ==
  [kind |-> "call", id |-> id, name |-> name, args |-> args, signature |-> signature]

PartsOf(kind, parts) ==
  LET kept[k \in 0..Len(parts)] ==
        IF k = 0 THEN <<>>
        ELSE IF parts[k].kind = kind THEN Append(kept[k - 1], parts[k]) ELSE kept[k - 1]
  IN kept[Len(parts)]
TextParts(parts) == PartsOf("text", parts)
CallParts(parts) == PartsOf("call", parts)

-----------------------------------------------------------------------------
(* _parse_response.  No arguments are an empty dict, and what is no dict   *)
(* is wrapped into one; only Gemini's parts carry a signature.             *)
Args(args) == IF args = "other" THEN "wrapped" ELSE "dict"
LastText(parts) == LET texts == TextParts(parts)
                   IN IF texts = <<>> THEN <<>> ELSE <<Last(texts).text>>
Joined(parts) == LET texts == TextParts(parts) IN [k \in DOMAIN texts |-> texts[k].text]

ToolCall(provider, part) ==
  Call(part.id, part.name, Args(part.args),
       IF provider = "gemini" THEN part.signature ELSE NoSignature)
ToolCalls(provider, parts) ==
  LET calls == CallParts(parts) IN [k \in DOMAIN calls |-> ToolCall(provider, calls[k])]

(* OpenAI's adapter looks at what came, the others at why it stopped too.  *)
IsFinal(provider, response) ==
  /\ Joined(response.parts) # <<>> /\ CallParts(response.parts) = <<>>
  /\ provider = "openai" \/ response.stop = "end_turn"

ModelAction(provider, response) ==
  [final |-> IsFinal(provider, response), text |-> Joined(response.parts),
   calls |-> ToolCalls(provider, response.parts)]

(* The turn the loop makes of it, and _record_tool_call.                   *)
RecordUnsigned(call) == [call EXCEPT !.signature = NoSignature]
Record(call) == call
TurnOf(action) ==
  [role |-> "assistant", content |-> action.text,
   calls |-> IF action.final THEN <<>>
             ELSE [k \in DOMAIN action.calls |-> Record(action.calls[k])]]

-----------------------------------------------------------------------------
(* _turns_to_messages, _turns_to_input, _turns_to_contents: an assistant   *)
(* turn is one message, or with OpenAI an item for its text and one for    *)
(* each call.  Gemini is sent no ids.                                      *)
Content(turn) == IF turn.content = <<>> THEN <<>> ELSE <<[kind |-> "text", text |-> turn.content]>>
Sent(provider, call) ==
  IF provider = "gemini" THEN [call EXCEPT !.id = <<>>] ELSE [call EXCEPT !.signature = NoSignature]
AssistantParts(provider, turn) ==
  IF turn.calls = <<>> THEN <<[kind |-> "text", text |-> turn.content]>>
  ELSE Content(turn) \o [k \in DOMAIN turn.calls |-> Sent(provider, turn.calls[k])]

(* _synth_id: Gemini's calls come without an id and get one of the tool's  *)
(* name and a counter of the process.                                      *)
SynthCounter(name, n) == <<"gemini", n>>
SynthId(name, n) == <<name, n>>

(* _tool_name_from_call_id: the first call of that id in the prompt.  The  *)
(* turns here only need their calls, and the calls an id and a tool.       *)
ToolNameFromCallId(id, turns) ==
  LET named(k) == {c \in DOMAIN turns[k].calls : turns[k].calls[c].id = id}
      naming == {k \in DOMAIN turns : named(k) # {}}
      first == Min(naming)
  IN IF naming = {} THEN "" ELSE turns[first].calls[Min(named(first))].tool

-----------------------------------------------------------------------------
(* A reply goes back to its provider as it came: its text in one piece,    *)
(* its calls in order, each with its name, its id or signature and, if     *)
(* they were a dict, its arguments; and it ends the round or asks for      *)
(* calls, never both.                                                      *)
Expected(provider, response) ==
  LET calls == CallParts(response.parts)
      text == [k \in DOMAIN TextParts(response.parts) |-> TextParts(response.parts)[k].text]
      said == IF text = <<>> /\ calls # <<>> THEN <<>> ELSE <<[kind |-> "text", text |-> text]>>
  IN said \o [k \in DOMAIN calls |->
       [calls[k] EXCEPT !.args = Args(@), !.id = IF provider = "gemini" THEN <<>> ELSE @,
                        !.signature = IF provider = "gemini" THEN @ ELSE NoSignature]]

EchoedTo(provider, response) ==
  LET action == ModelAction(provider, response)
  IN /\ AssistantParts(provider, TurnOf(action)) = Expected(provider, response)
     /\ ~(action.final /\ action.calls # <<>>)
=============================================================================
