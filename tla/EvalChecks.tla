----------------------------- MODULE EvalChecks -----------------------------
(***************************************************************************)
(* The evaluation's cases and checks (eval/): a check takes a case and the *)
(* record of its run to a verdict, "pass", "fail" or "na".                 *)
(*                                                                         *)
(* A run's record is what the runner kept of it: the answer if there was   *)
(* one, the events, the session's citations, and the tokens and seconds    *)
(* spent.  Prose is the set of its phrases and of its numbers.             *)
(*                                                                         *)
(* RetrievedByArgs and ClarifiedIfSilent are also what a plausible bug     *)
(* would make of Retrieved and Clarified.                                  *)
(***************************************************************************)
EXTENDS SearchIndex

CaseFields ==
  {"id", "query", "expected_citations", "forbidden_phrases", "expected_clarification",
   "max_tokens", "max_seconds"}

(* EvalCase.from_dict.  A YAML scalar is a record of its type and number;  *)
(* a budget is a positive number that is no bool.                          *)
BudgetRefused(data, key) ==
  key \in DOMAIN data /\ (data[key].type \notin {"int", "float"} \/ data[key].n <= 0)
CaseRefused(data) ==
  \/ ~(DOMAIN data \subseteq CaseFields) \/ ~({"id", "query"} \subseteq DOMAIN data)
  \/ "expected_clarification" \in DOMAIN data
     /\ data.expected_clarification \notin {"true", "false"}
  \/ BudgetRefused(data, "max_tokens") \/ BudgetRefused(data, "max_seconds")
NoBudget == [type |-> "none", n |-> 0]
CaseFrom(data) ==
  [id |-> data.id,
   expected_citations |-> Get(data, "expected_citations", {}),
   forbidden_phrases |-> Get(data, "forbidden_phrases", {}),
   expected_clarification |-> Get(data, "expected_clarification", "none"),
   max_tokens |-> Get(data, "max_tokens", NoBudget), max_seconds |-> Get(data, "max_seconds", NoBudget)]

-----------------------------------------------------------------------------
(* The events a check looks at, and the record of a run.                   *)
CallEvent(call) == [kind |-> "call", call |-> call, reply |-> Raised, cached |-> FALSE, cite |-> {}]
ResultEvent(call, reply, cached) ==
  [kind |-> "result", call |-> call, reply |-> reply, cached |-> cached, cite |-> {}]
CiteEvent(call, cite) == [kind |-> "cite", call |-> call, reply |-> Raised, cached |-> FALSE, cite |-> {cite}]
OtherEvent(kind, call) == [kind |-> kind, call |-> call, reply |-> Raised, cached |-> FALSE, cite |-> {}]

Calls(run) == SelectSeq(run.events, LAMBDA e : e.kind = "call")
ClarifiedIfSilent(run) == ~run.answered
Clarified(run) == \E i \in DOMAIN run.events : run.events[i].kind = "clarify"

-----------------------------------------------------------------------------
(* forbidden_phrases and expected_clarification run for every case that    *)
(* sets them.                                                              *)
ForbiddenPhrases(case, run) ==
  IF ~run.answered THEN "na" ELSE IF case.forbidden_phrases \cap run.answer.phrases # {} THEN "fail" ELSE "pass"
ExpectedClarification(case, run) ==
  IF Clarified(run) = (case.expected_clarification = "true") THEN "pass" ELSE "fail"

EntityResolution(case, run) ==
  IF case.expected_clarification # "true" THEN "na" ELSE IF Clarified(run) THEN "pass" ELSE "fail"

(* Numbers: a mantissa that is no multiple of 1000 times a power of 1000,  *)
(* the powers within four of each other matching; a bare year is no claim. *)
Claims(numbers) == {n \in numbers : ~n.year}
IsCited(n, cited) ==
  \E c \in cited : c.mantissa = n.mantissa /\ n.scale - c.scale \in -4..4
Faithfulness(case, run) ==
  LET claims == Claims(run.answer.numbers)
      cited == UNION {Claims(c.value) : c \in run.citations}
  IN IF claims = {} THEN "na" ELSE IF \A n \in claims : IsCited(n, cited) THEN "pass" ELSE "fail"

(* The paths a run named in its calls or was told in a result; one covers  *)
(* a source below it, or above.                                            *)
RetrievedByArgs(run) ==
  UNION {{c.args[k] : k \in DOMAIN c.args \cap {"path", "file_path", "entity"}} :
           c \in {e.call : e \in {e \in Range(run.events) : e.kind = "call"}}} \ {<<>>}
Retrieved(run) ==
  RetrievedByArgs(run)
  \cup ({e.reply.path : e \in {e \in Range(run.events) : e.kind = "result" /\ e.reply.ok}} \ {<<>>})
Covers(path, source) == Under(path, source) \/ Under(source, path)
Coverage(case, run) ==
  LET sources == {c.source : c \in case.expected_citations}
  IN IF sources = {} THEN "na"
     ELSE IF \A s \in sources : \E p \in Retrieved(run) : Covers(p, s) THEN "pass" ELSE "fail"

RepeatedCalls(case, run) ==
  LET calls == Calls(run)
  IN IF calls = <<>> THEN "na"
     ELSE IF \E i, j \in DOMAIN calls : i # j /\ calls[i].call = calls[j].call THEN "fail" ELSE "pass"

Over(budget, spent) == budget.type # "none" /\ spent > budget.n
LatencyCost(case, run) ==
  IF Over(case.max_tokens, run.tokens) \/ Over(case.max_seconds, run.seconds) THEN "fail" ELSE "pass"

-----------------------------------------------------------------------------
(* The registry, and every verdict on a run.                               *)
Registered == {"faithfulness", "repeated_calls", "entity_resolution", "coverage", "latency_cost"}
Verdict(check, case, run) ==
  CASE check = "faithfulness" -> Faithfulness(case, run)
    [] check = "repeated_calls" -> RepeatedCalls(case, run)
    [] check = "entity_resolution" -> EntityResolution(case, run)
    [] check = "coverage" -> Coverage(case, run)
    [] check = "latency_cost" -> LatencyCost(case, run)
Intrinsic(case, run) ==
  (IF case.forbidden_phrases = {} THEN <<>> ELSE "forbidden_phrases" :> ForbiddenPhrases(case, run))
  @@ (IF case.expected_clarification = "none" THEN <<>>
      ELSE "expected_clarification" :> ExpectedClarification(case, run))
Verdicts(checks, case, run) == [c \in checks |-> Verdict(c, case, run)] @@ Intrinsic(case, run)

Passed(verdicts) == "fail" \notin Range(verdicts)
=============================================================================
