----------------------------- MODULE ToolSchema -----------------------------
(***************************************************************************)
(* The JSON schema of a tool's arguments on its way to a provider:         *)
(* harness/adapters/base.py.  OpenAI's strict mode takes closed objects    *)
(* with every property required and no default, and schemas without those  *)
(* are sent as they are; Gemini's validator takes neither additional-      *)
(* Properties nor definitions.                                             *)
(*                                                                         *)
(* A JSON value is an atom, a list or a dict; the order of a dict's keys   *)
(* is left out.  A reference is known by the name of the definition it     *)
(* points to, "Item" for "#/$defs/Item".                                   *)
(*                                                                         *)
(* The siblings nothing uses (ClosableAnyhow, ...) are forms a plausible   *)
(* bug would give a definition, for checking the property.                 *)
(***************************************************************************)
EXTENDS Sequences, Functions, TLC

Atom(a) == [atom |-> a]
List(s) == [list |-> s]
Names(set) == [names |-> set]
Dict(f) == [dict |-> f]

IsDict(j) == "dict" \in DOMAIN j
IsList(j) == "list" \in DOMAIN j
KeysOf(j) == IF IsDict(j) THEN DOMAIN j.dict ELSE {}
Without(j, keys) == [k \in DOMAIN j.dict \ keys |-> j.dict[k]]
Says(j, key, a) == key \in KeysOf(j) /\ j.dict[key] = Atom(a)
Typed(j, type) == Says(j, "type", type)

-----------------------------------------------------------------------------
(* The positions of a schema that hold schemas.                            *)
SchemaKeys == {"items", "additionalItems", "not", "if", "then", "else"}
SchemaListKeys == {"anyOf", "oneOf", "allOf", "prefixItems"}
SchemaDictKeys == {"properties", "$defs", "definitions"}

Children(j) ==
  {j.dict[k] : k \in KeysOf(j) \cap SchemaKeys}
  \cup UNION {Range(j.dict[k].list) : k \in {k \in KeysOf(j) \cap SchemaListKeys : IsList(j.dict[k])}}
  \cup UNION {Range(j.dict[k].dict) : k \in {k \in KeysOf(j) \cap SchemaDictKeys : IsDict(j.dict[k])}}

(* _is_openai_strict_compatible: every leaf has a type, every object       *)
(* declares its properties, or that there are no others.                   *)
Described(j) == KeysOf(j) \cap {"type", "$ref", "anyOf", "oneOf", "allOf", "enum", "const"} # {}
ClosableAnyhow(j) == TRUE
Closable(j) ==
  Typed(j, "object") =>
    /\ ~Says(j, "additionalProperties", "true")
    /\ "properties" \in KeysOf(j) \/ Says(j, "additionalProperties", "false")

RECURSIVE StrictCompatible(_)
StrictCompatible(j) ==
  IsDict(j) => Described(j) /\ Closable(j) /\ \A child \in Children(j) : StrictCompatible(child)

(* _normalize_openai_strict walks every dict, those included that are no   *)
(* schemas.                                                                *)
Closed(j) ==
  LET props == IF "properties" \in KeysOf(j) THEN j.dict["properties"] ELSE Atom("none")
      closed == ("additionalProperties" :> Atom("false")) @@ j.dict
      all == IF IsDict(props) THEN ("required" :> Names(DOMAIN props.dict)) @@ closed ELSE closed
  IN IF "properties" \in KeysOf(j) \/ Typed(j, "object") THEN Dict(all) ELSE j

RECURSIVE Normalized(_)
Normalized(j) ==
  CASE IsDict(j) -> LET kept == Without(j, {"default"})
                    IN Closed(Dict([k \in DOMAIN kept |-> Normalized(kept[k])]))
    [] IsList(j) -> List([k \in DOMAIN j.list |-> Normalized(j.list[k])])
    [] OTHER -> j

Unsupported == {"additionalProperties", "$schema", "$defs", "definitions", "$id"}
RECURSIVE Stripped(_)
Stripped(j) ==
  CASE IsDict(j) -> LET kept == Without(j, Unsupported)
                    IN Dict([k \in DOMAIN kept |-> Stripped(kept[k])])
    [] IsList(j) -> List([k \in DOMAIN j.list |-> Stripped(j.list[k])])
    [] OTHER -> j

OpenAI(schema) ==
  [strict |-> StrictCompatible(schema),
   parameters |-> IF StrictCompatible(schema) THEN Normalized(schema) ELSE schema]
Anthropic(schema) == schema
Gemini(schema) == Stripped(schema)

-----------------------------------------------------------------------------
(* What a provider wants, and what must not get lost.                      *)

PropertyNames(j) ==
  IF "properties" \in KeysOf(j) /\ IsDict(j.dict["properties"]) THEN DOMAIN j.dict["properties"].dict ELSE {}

(* The rules of strict mode, as the comments of base.py state them.        *)
RECURSIVE StrictRules(_)
StrictRules(j) ==
  IsDict(j) =>
    /\ "default" \notin KeysOf(j) /\ Described(j)
    /\ Typed(j, "object") =>
         /\ Says(j, "additionalProperties", "false")
         /\ PropertyNames(j) # {} => j.dict["required"] = Names(PropertyNames(j))
    /\ \A child \in Children(j) : StrictRules(child)

RECURSIVE GeminiRules(_)
GeminiRules(j) ==
  IsDict(j) => KeysOf(j) \cap Unsupported = {} /\ \A child \in Children(j) : GeminiRules(child)

(* References lead to the definitions at the root; one that leads nowhere  *)
(* dangles.                                                                *)
Definitions(root) ==
  IF "$defs" \in KeysOf(root) THEN root.dict["$defs"].dict ELSE <<>>
RefOf(j) == IF "$ref" \in KeysOf(j) THEN {j.dict["$ref"].atom} ELSE {}
RECURSIVE RefsIn(_)
RefsIn(j) == RefOf(j) \cup UNION {RefsIn(child) : child \in Children(j)}
Dangling(root) == RefsIn(root) \ DOMAIN Definitions(root)

(* The names of the arguments, at every depth: paths, through as many      *)
(* references as the last parameter has it.                                *)
RECURSIVE ArgumentsIn(_, _, _)
ArgumentsIn(defs, j, hops) ==
  LET inside(c) == ArgumentsIn(defs, c, hops)
      below(at) == UNION {{<<k>> \o path : path \in inside(j.dict[k])} : k \in KeysOf(j) \cap at}
      named(n) == {<<n>>} \cup {<<n>> \o path : path \in inside(j.dict["properties"].dict[n])}
      listed(k) == UNION {inside(c) : c \in Range(j.dict[k].list)}
      followed == IF hops = 0 THEN {} ELSE RefOf(j) \cap DOMAIN defs
  IN below(SchemaKeys) \cup UNION {named(n) : n \in PropertyNames(j)}
     \cup UNION {listed(k) : k \in KeysOf(j) \cap SchemaListKeys}
     \cup UNION {ArgumentsIn(defs, defs[name], hops - 1) : name \in followed}
MaxHops == 2
Arguments(root) == ArgumentsIn(Definitions(root), root, MaxHops)
InPlace(root) == ArgumentsIn(<<>>, root, 0)

(* It takes objects of any keys somewhere.                                 *)
RECURSIVE Open(_)
Open(j) ==
  \/ /\ Typed(j, "object") /\ ~Says(j, "additionalProperties", "false")
     /\ "properties" \notin KeysOf(j) \/ "additionalProperties" \in KeysOf(j)
  \/ \E child \in Children(j) : Open(child)

(* Gemini is sent no definitions, and the references to them all the same: *)
(* what it gets to see are the arguments in place, and it is all of them   *)
(* when the schema has no references.                                      *)
Travels(schema) ==
  LET openai == OpenAI(schema)
  IN /\ openai.strict => StrictRules(openai.parameters)
     /\ Arguments(openai.parameters) = Arguments(schema) /\ Open(openai.parameters) = Open(schema)
     /\ Dangling(openai.parameters) = {}
     /\ GeminiRules(Gemini(schema)) /\ Arguments(Gemini(schema)) = InPlace(schema)
     /\ RefsIn(schema) = {} => Arguments(Gemini(schema)) = Arguments(schema)
     /\ Anthropic(schema) = schema
=============================================================================
