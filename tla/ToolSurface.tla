---------------------------- MODULE ToolSurface -----------------------------
(***************************************************************************)
(* How a session gets the tools its model is offered: the @tool decorator  *)
(* (tools/base.py) takes a function's signature or refuses it, the         *)
(* registry (tools/registry.py) takes each name once and shows a profile   *)
(* part of them, and Harness.from_config (harness/agent.py) puts both      *)
(* together with the skills of the ROLE (skills/registry.py,               *)
(* tools/skills.py).                                                       *)
(*                                                                         *)
(* A signature is a flag or two and parameters by name: a kind, a type,    *)
(* which is the JSON schema Pydantic makes of the annotation, and whether  *)
(* there is a default.                                                     *)
(***************************************************************************)
EXTENDS ToolSchema, SequencesExt

Untyped == Atom("empty")

(* _validate_signature.                                                    *)
ByKeyword == {"plain", "keyword_only"}
Valid(sig) ==
  /\ sig.async
  /\ sig.pseudo => sig.readonly
  /\ \A p \in Range(sig.params) : p.kind \in ByKeyword /\ p.type # Untyped

(* _build_args_schema, through Pydantic's create_model.                    *)
Field(p) == IF p.default THEN Dict("default" :> Atom("default") @@ p.type.dict) ELSE p.type
NoDefault(sig) == {n \in DOMAIN sig.params : ~sig.params[n].default}
ArgsSchema(sig) ==
  LET props == Dict([n \in DOMAIN sig.params |-> Field(sig.params[n])])
      open == "type" :> Atom("object") @@ "properties" :> props
  IN IF NoDefault(sig) = {} THEN Dict(open) ELSE Dict(open @@ "required" :> Names(NoDefault(sig)))

ToolSpec(name, sig) ==
  [name |-> name, readonly |-> sig.readonly, pseudo |-> sig.pseudo, func |-> sig, schema |-> ArgsSchema(sig)]

(* RunnableToolAdapter.run: func with the call's arguments as keywords,    *)
(* by Python's rules.                                                      *)
Variadic == {"var_positional", "var_keyword"}
Binds(sig, args) ==
  LET kind(n) == sig.params[n].kind
      named == {n \in DOMAIN sig.params : kind(n) \in ByKeyword}
  IN /\ \A n \in NoDefault(sig) : kind(n) \notin Variadic => n \in args \cap named
     /\ args \subseteq named \/ \E n \in DOMAIN sig.params : kind(n) = "var_keyword"

-----------------------------------------------------------------------------
(* ToolRegistry: specs in the order they were registered, which a name     *)
(* that is there already, or a function without a spec, stops.             *)
NamesOf(specs) == {s.name : s \in Range(specs)}
Registrable(specs) ==
  \A k \in DOMAIN specs : Valid(specs[k].func) /\ specs[k].name \notin NamesOf(SubSeq(specs, 1, k - 1))

EvalExcluded == {"escalate_to_oracle", "request_clarification"}
ForProfile(specs, profile) ==
  LET shown(s) ==
        CASE profile = "full" -> TRUE
          [] profile = "read_only" -> s.readonly \/ s.pseudo
          [] profile = "eval" -> (s.readonly \/ s.pseudo) /\ s.name \notin EvalExcluded
  IN SelectSeq(specs, shown)

-----------------------------------------------------------------------------
(* Skills: a name, the tools its instructions assume, and a body.          *)
Resolvable(skills) ==
  \A k \in DOMAIN skills : skills[k].name # "" /\ \A l \in 1..(k - 1) : skills[l].name # skills[k].name

LoadSkillSpec == ToolSpec("load_skill",
  [async |-> TRUE, pseudo |-> FALSE, readonly |-> TRUE,
   params |-> "name" :> [kind |-> "plain", type |-> Dict("type" :> Atom("string")), default |-> FALSE]])
BuildSkillTools(skills) == IF skills = <<>> THEN <<>> ELSE <<LoadSkillSpec>>

(* load_skill, by a dict in which the last of a name stands.               *)
LoadSkill(skills, name) ==
  LET named == {k \in DOMAIN skills : skills[k].name = name}
      last == CHOOSE k \in named : \A l \in named : l <= k
  IN IF named = {} THEN "unknown" ELSE skills[last].body

(* from_config: built-in tools, load_skill, the configured ones; every     *)
(* skill's tools must be among them.                                       *)
Registry(builtin, skills, custom) == builtin \o BuildSkillTools(skills) \o custom
Missing(skill, specs) == skill.requires \ NamesOf(specs)
CanBuild(builtin, skills, custom) ==
  LET specs == Registry(builtin, skills, custom)
  IN Resolvable(skills) /\ Registrable(specs) /\ \A skill \in Range(skills) : Missing(skill, specs) = {}

-----------------------------------------------------------------------------
(* What a call has to send by a provider's schema, and may.                *)
Required(j) == IF "required" \in KeysOf(j) THEN j.dict["required"].names ELSE {}
Sendable(j) == {args \in SUBSET PropertyNames(j) : Required(j) \subseteq args}

CallableBy(spec) ==
  \A j \in {OpenAI(spec.schema).parameters, Anthropic(spec.schema), Gemini(spec.schema)} :
    Sendable(j) # {} /\ \A args \in Sendable(j) : Binds(spec.func, args)
=============================================================================
