---------------------------- MODULE MCEvalSuite ----------------------------
EXTENDS EvalSuite

MCSuffixOf ==
  ("metrics.json" :> ".json") @@ ("extraction_meta.json" :> ".json") @@ ("a.md" :> ".md")
  @@ ("b.py" :> ".py") @@ ("log.md" :> ".md") @@ ("link.md" :> ".md")
  @@ ("tags.json" :> ".json") @@ ("c.bin" :> ".bin")

MCSchema ==
  [entity_path |-> <<[key |-> TRUE, name |-> "ticker"], [key |-> TRUE, name |-> "fiscal_year"]>>,
   sections |-> <<[name |-> <<"summary">>, required |-> TRUE, max_chars |-> 2],
                  [name |-> <<"sections", "*">>]>>,
   json_artifacts |-> <<[name |-> <<"metrics.json">>, fields |-> [revenue |-> "integer", note |-> "string"],
                         required_fields |-> {"revenue"}]>>]

MCIds(ticker) == [ticker |-> ticker, fiscal_year |-> <<"2024">>]
MCMetrics(payload) == <<"metrics.json">> :> Object(payload)
MCList == <<"tags.json">> :> [dict |-> FALSE, fields |-> <<>>]
MCExtraction(by, ids, sections, payload) ==
  [by |-> by, ids |-> ids, sections |-> sections, other |-> {}, json |-> MCMetrics(payload)]
MCSummary(text) == <<"summary">> :> text
(* A map-reduce answer with a section too long, one the schema does not    *)
(* know, one that is no string, and a list for JSON; then single-shot ones *)
(* that are accepted by both checks, by none, or by the extractor's alone. *)
MCExtractions ==
  {[MCExtraction("map_reduce", MCIds(<<"A">>),
                 MCSummary(<<"growth", "risk", "tail">>) @@ (<<"sections", "risks">> :> <<"growth", "tail", "risk">>)
                 @@ (<<"invented">> :> <<"loss">>) @@ (<<"sections", "table">> :> <<"loss">>), [revenue |-> "int"])
      EXCEPT !.other = {<<"sections", "table">>}, !.json = @ @@ MCList],
   MCExtraction("llm", MCIds(<<"A">>), MCSummary(<<"loss">>), [revenue |-> "bool", note |-> "NoneType"]),
   MCExtraction("llm", MCIds(<<"B">>), MCSummary(<<"loss">>) @@ (<<"summary", "x">> :> <<"risk">>),
                [revenue |-> "int"]),
   MCExtraction("llm", MCIds(<<"A", "B">>), MCSummary(<<"loss">>), [revenue |-> "int"]),
   MCExtraction("llm", MCIds(<<"A">>), MCSummary(<<"growth", "risk", "tail">>), [revenue |-> "int"]),
   [MCExtraction("llm", MCIds(<<"B">>), MCSummary(<<"risk">>), [revenue |-> "int"])
      EXCEPT !.other = {<<"summary">>}],
   MCExtraction("llm", MCIds(<<"A">>), MCSummary(<<"loss">>), [note |-> "str"])}

MCArtifactRoot == <<"library", "artifacts">>
MCSortedKeys == <<"fiscal_year", "ticker">>
MCUuids == <<"u1", "u2">>

MCFsRoots == [app |-> <<"src", "app">>, web |-> <<"src", "web">>]
MCWork ==
  [app |-> (<<"a.md">> :> Prose(<<"risk">>)) @@ (<<".git", "a.md">> :> Prose(<<"risk">>))
           @@ (<<"lib", "b.py">> :> Prose(<<"loss">>)),
   web |-> (<<"a.md">> :> Prose(<<"tail", "loss", "risk">>)) @@ (<<"c.bin">> :> Prose(<<"risk">>))
           @@ (<<"link.md">> :> Prose(<<"risk">>))]
MCOutsideLinks == {Place("web", <<"link.md">>)}

MCSection == <<"A", "2024", "sections", "risks">>
MCNumber == [mantissa |-> 31, scale |-> 3, year |-> FALSE]
MCCitation == [source |-> MCSection, value |-> {[MCNumber EXCEPT !.scale = 0]}]
MCCases ==
  <<[id |-> "risks", query |-> "q", expected_citations |-> {MCCitation}],
    [id |-> "vague", query |-> "q", expected_clarification |-> "true",
     forbidden_phrases |-> {"I think"}, max_tokens |-> [type |-> "int", n |-> 1],
     max_seconds |-> [type |-> "float", n |-> 2]]>>
MCOptions ==
  {[NoOptions EXCEPT !.cases = {"vague"}],
   [cases |-> {}, checks |-> {"coverage", "faithfulness", "entity_resolution"}, profile |-> "full"],
   [cases |-> {"unknown"}, checks |-> {}, profile |-> "eval"]}

MCToolCalls ==
  {[tool |-> "get_section", args |-> MCIds(<<"A">>) @@ [section |-> <<"sections", "risks">>]],
   [tool |-> "read_artifact_file", args |-> [path |-> <<"A", "2024", "summary">>, offset |-> 0, limit |-> 1]],
   [tool |-> "bm25_search", args |-> [query |-> {"risk"}]],
   [tool |-> "fs_write", args |-> [path |-> <<"web", "log.md">>, content |-> <<"risk">>]]}
MCCitations == {MCCitation}
MCAnswers == {[phrases |-> {"I think"}, numbers |-> {MCNumber, [mantissa |-> 2024, scale |-> 0, year |-> TRUE]}]}
=============================================================================
