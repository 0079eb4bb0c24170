------------------------------ MODULE MCReplay ------------------------------
(* Values of the constants of Replay and Wire for the model checker, and   *)
(* the tools a session is offered, for bounded inputs, looked at in the    *)
(* states before the first round.                                          *)
EXTENDS Wire, ToolSurface

Asked(tool, file) == [tool |-> tool, file |-> file, signed |-> tool = "read"]
Plain(tool) == Asked(tool, "none")
SomeReplies == {
  <<Asked("read", "f"), Asked("read", "f")>>,
  <<Asked("write", "f"), Asked("read", "f")>>,
  <<Plain("save_note"), Asked("gone", "f")>>,
  <<Plain("escalate_to_oracle")>>,
  <<Asked("read", "g"), Plain("stop")>>,
  <<Plain("request_clarification"), Asked("read", "f")>> }

(* A long result is cut, and what is left of it is too long still.         *)
Cut == 100
SomeTruncate(v) == IF v = 1 THEN Cut ELSE IF v = Cut THEN Cut + 1 ELSE v

SomeLimits == 14..95
SomeParts == {Text("a"), Text("b")} \cup
  {Call(<<"x", 1>>, "x", args, s) : args \in {"dict", "empty", "other"}, s \in {"none", "s"}}

Str == Dict("type" :> Atom("string"))
Leaves == {
  Str, Dict("type" :> Atom("string") @@ "default" :> Atom("d")), Dict("title" :> Atom("Any")),
  Dict("$ref" :> Atom("Item")), Dict("type" :> Atom("object") @@ "additionalProperties" :> Atom("true")),
  Dict("type" :> Atom("object") @@ "additionalProperties" :> Str) }
Values == Leaves \cup
  {Dict("type" :> Atom("array") @@ "items" :> l) : l \in Leaves} \cup
  {Dict("anyOf" :> List(<<l, Dict("type" :> Atom("null"))>>) @@ "default" :> Atom("null")) : l \in Leaves}
Object(props, required) ==
  Dict("type" :> Atom("object") @@ "properties" :> Dict(props) @@ "required" :> Names(required))
Objects == UNION {{Object(p, r) : p \in [ns -> Values], r \in SUBSET ns} : ns \in SUBSET {"a", "b"}}
(* A nested model is a reference to its definition, which may refer to     *)
(* itself or to another one.                                               *)
Inner == {Object("b" :> l, {}) : l \in Leaves}
Models ==
  {"Item" :> Object("a" :> l, {}) : l \in Leaves} \cup
  {("Item" :> Object("a" :> Dict("$ref" :> Atom("Part")), {"a"})) @@ ("Part" :> v) : v \in Inner}
Schemas ==
  {s \in Objects \cup {Object("a" :> o, {}) : o \in Objects} : Dangling(s) = {}} \cup
  {Dict(o.dict @@ "$defs" :> Dict(m)) : o \in Objects, m \in Models}

Types == {Untyped, Str, Dict("type" :> Atom("object") @@ "additionalProperties" :> Str)}
Params == [kind : ByKeyword \cup Variadic \cup {"positional_only"}, type : Types, default : BOOLEAN]
Signatures ==
  UNION {[async : BOOLEAN, pseudo : {FALSE}, readonly : {TRUE}, params : [ns -> Params]] : ns \in SUBSET {"a", "b"}}

Flagged(name, readonly, pseudo) ==
  ToolSpec(name, [async |-> TRUE, pseudo |-> pseudo, readonly |-> readonly, params |-> [n \in {} |-> n]])
Builtin == <<Flagged("stop", TRUE, TRUE), Flagged("request_clarification", TRUE, TRUE)>>
Customs == {<<>>} \cup {<<Flagged(n, r, p)>> : n \in {"fs_write", "stop", "load_skill"}, r \in BOOLEAN, p \in BOOLEAN}
Skills == [name : {"", "s", "t"}, requires : SUBSET {"fs_write", "stop"}, body : {"x", "y"}]
Menus == UNION {[1..n -> Skills] : n \in 0..2}

(* A harness that could be built offers every name once, a writing tool    *)
(* only in the full profile, and every skill of its menu loads as itself,  *)
(* its tools among those of the full profile.                              *)
Stands(specs, menu) ==
  LET shown(profile) == ForProfile(specs, profile)
  IN /\ \A profile \in {"full", "read_only", "eval"} :
          /\ Cardinality(NamesOf(shown(profile))) = Len(shown(profile))
          /\ profile # "full" => \A spec \in Range(shown(profile)) : spec.readonly
     /\ \A skill \in Range(menu) :
          /\ LoadSkill(menu, skill.name) = skill.body
          /\ skill.requires \cup {"load_skill"} \subseteq NamesOf(shown("full"))

(* A tool the model is offered can be called as it is offered: a schema    *)
(* that goes out as strict keeps strict mode's rules at every depth, no    *)
(* provider is sent a keyword it does not take, no argument is lost on the *)
(* way, nor the freedom of an object with any keys - but to Gemini the     *)
(* arguments of a nested model, whose definition is not sent - and         *)
(* whatever a provider's schema of a function lets a model send, the       *)
(* function takes (tools/base.py, adapters/base.py); for schemas of the    *)
(* shapes Pydantic emits with two arguments, nested in place or by         *)
(* reference, none named like a keyword.                                   *)
ToolsAsOffered ==
  AtFirst =>
    /\ \A schema \in Schemas : Travels(schema)
    /\ \A sig \in Signatures : Valid(sig) => CallableBy(ToolSpec("f", sig))
    /\ \A menu \in Menus, custom \in Customs :
         CanBuild(Builtin, menu, custom) => Stands(Registry(Builtin, menu, custom), menu)
=============================================================================
