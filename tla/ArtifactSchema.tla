--------------------------- MODULE ArtifactSchema ---------------------------
(***************************************************************************)
(* The schema of the compiled artifacts (artifacts/schema.py,              *)
(* conventions.py, manifest.py): how one is read from YAML, what the       *)
(* extractor and the writer each check of an extraction against it, and    *)
(* which files an entity consists of.                                      *)
(*                                                                         *)
(* A mapping is a function and an optional key one outside its domain.     *)
(* Names and identifier values are paths (FileTree), a glob's star being a *)
(* segment of its own as in every schema the project ships; a text is a    *)
(* sequence of words, each a line of its own, whose length is counted in   *)
(* words, and a JSON value is known by its Python type alone.              *)
(*                                                                         *)
(* An extraction has sections and JSON artifacts; `other` are the names of *)
(* the sections whose content is no string, a payload's `dict` tells       *)
(* whether it is a JSON object.                                            *)
(*                                                                         *)
(* The sibling nothing uses (CutPast) is a form a plausible bug would give *)
(* a definition, for checking the properties.                              *)
(***************************************************************************)
EXTENDS FileTree

Get(mapping, key, default) == IF key \in DOMAIN mapping THEN mapping[key] ELSE default

-----------------------------------------------------------------------------
(* Templates: a piece is a literal segment or a placeholder.               *)
TemplateKeys(template) ==
  FoldLeft(LAMBDA keys, p : IF p.key /\ ~Contains(keys, p.name) THEN Append(keys, p.name) ELSE keys,
           <<>>, template)
FormatTemplate(template, values) ==
  FoldLeft(LAMBDA path, p : path \o (IF p.key THEN values[p.name] ELSE <<p.name>>), <<>>, template)

IsGlob(name) == Contains(name, "*")
GlobPrefix(name) == SubSeq(name, 1, SelectInSeq(name, LAMBDA s : s = "*") - 1)

-----------------------------------------------------------------------------
(* The schema's YAML.  An entry is a bare name or a mapping.               *)
TypeNames ==
  [str |-> "str", string |-> "str", int |-> "int", integer |-> "int", float |-> "float",
   number |-> "float", bool |-> "bool", boolean |-> "bool", list |-> "list", array |-> "list",
   dict |-> "dict", object |-> "dict"]

SectionFromYaml(item) ==
  [name |-> item.name, required |-> Get(item, "required", FALSE), max_chars |-> Get(item, "max_chars", 0)]
JsonFromYaml(item) ==
  LET fields == Get(item, "fields", <<>>)
  IN [name |-> item.name, fields |-> [f \in DOMAIN fields |-> TypeNames[fields[f]]],
      required |-> Get(item, "required_fields", DOMAIN fields)]

(* What __post_init__ refuses; max_chars 0 is None here, so a schema that  *)
(* sets it to 0 is told by the key.                                        *)
SectionRefused(item) ==
  \/ item.name = <<>>
  \/ IsGlob(item.name) /\ Get(item, "required", FALSE)
  \/ "max_chars" \in DOMAIN item /\ item.max_chars <= 0
JsonRefused(item) ==
  \/ item.name = <<>> \/ Suffix(item.name) # ".json"
  \/ \E f \in DOMAIN Get(item, "fields", <<>>) : item.fields[f] \notin DOMAIN TypeNames
  \/ ~(Get(item, "required_fields", {}) \subseteq DOMAIN Get(item, "fields", <<>>))
Repeated(items) == \E i, j \in DOMAIN items : i # j /\ items[i].name = items[j].name

DefaultPath == <<[key |-> TRUE, name |-> "entity_id"], [key |-> TRUE, name |-> "version"]>>
DefaultExtensions == {".csv", ".json", ".jsonl", ".md", ".txt", ".tsv", ".yaml", ".yml"}

SchemaRefused(data) ==
  LET sections == Get(data, "sections", <<>>)
      jsons == Get(data, "json_artifacts", <<>>)
  IN \/ \E i \in DOMAIN sections : SectionRefused(sections[i])
     \/ \E i \in DOMAIN jsons : JsonRefused(jsons[i])
     \/ TemplateKeys(Get(data, "entity_path", DefaultPath)) = <<>>
     \/ Repeated(sections) \/ Repeated(jsons)

SchemaFromYaml(data) ==
  LET sections == Get(data, "sections", <<>>)
      jsons == Get(data, "json_artifacts", <<>>)
  IN [entity_path |-> Get(data, "entity_path", DefaultPath),
      sections |-> [i \in DOMAIN sections |-> SectionFromYaml(sections[i])],
      json_artifacts |-> [i \in DOMAIN jsons |-> JsonFromYaml(jsons[i])],
      extraction_meta |-> Get(data, "extraction_meta", <<"extraction_meta.json">>),
      text_extensions |-> Get(data, "text_extensions", DefaultExtensions)]

-----------------------------------------------------------------------------
EntityKeys(schema) == TemplateKeys(schema.entity_path)
RequiredSections(schema) == {s \in Range(schema.sections) : s.required /\ ~IsGlob(s.name)}

(* section: by its exact name, else the first glob whose prefix it has;    *)
(* its position among the schema's, 0 for a name the schema does not know. *)
SectionFor(schema, name) ==
  LET Named(s) == s.name = name
      Matching(s) == IsGlob(s.name) /\ StrictlyUnder(name, GlobPrefix(s.name))
      exact == SelectInSeq(schema.sections, Named)
  IN IF exact # 0 THEN exact ELSE SelectInSeq(schema.sections, Matching)
MaxChars(schema, name) ==
  LET i == SectionFor(schema, name) IN IF i = 0 THEN 0 ELSE schema.sections[i].max_chars
TooLong(schema, name, text) ==
  MaxChars(schema, name) # 0 /\ Len(text) > MaxChars(schema, name)

(* MapReduceExtractor: _collect drops what the schema does not know, what  *)
(* is no string and what is blank, and _enforce_max_chars cuts what is too *)
(* long.                                                                   *)
Collected(schema, result) ==
  LET kept == {n \in DOMAIN result.sections \ result.other :
                 SectionFor(schema, n) # 0 /\ result.sections[n] # <<>>}
  IN [result EXCEPT !.sections = Restrict(@, kept), !.other = {}]
CutPast(max, text) == IF max = 0 THEN text ELSE SubSeq(text, 1, Min({max + 1, Len(text)}))
CutTo(max, text) == IF max = 0 THEN text ELSE SubSeq(text, 1, Min({max, Len(text)}))
Enforced(schema, result) ==
  [result EXCEPT !.sections = [n \in DOMAIN @ |-> CutTo(MaxChars(schema, n), @[n])]]

-----------------------------------------------------------------------------
(* What is asked of a JSON artifact, by the extractor and by the writer.   *)
(* isinstance takes a bool for an int and no int for a float; None passes. *)
IsInstance(value, type) == value \in {type, "NoneType"} \/ (value = "bool" /\ type = "int")
FieldsHold(spec, payload) ==
  \A f \in DOMAIN spec.fields \cap DOMAIN payload : IsInstance(payload[f], spec.fields[f])
JsonHolds(spec, artifacts) ==
  IF spec.name \notin DOMAIN artifacts THEN spec.required = {}
  ELSE /\ artifacts[spec.name].dict
       /\ spec.required \subseteq DOMAIN artifacts[spec.name].fields
       /\ FieldsHold(spec, artifacts[spec.name].fields)
SectionsPresent(schema, sections) ==
  \A s \in RequiredSections(schema) : s.name \in DOMAIN sections

(* LLMExtractor._validate_against_schema looks at no section's content.    *)
ExtractionAccepted(schema, result) ==
  /\ SectionsPresent(schema, result.sections)
  /\ \A spec \in Range(schema.json_artifacts) : JsonHolds(spec, result.json)

(* ArtifactWriter._validate_identifiers, _sections, _json_artifacts: also  *)
(* that identifiers are one segment each and that sections are strings     *)
(* that fit.                                                               *)
IdentifiersHold(schema, ids) ==
  /\ DOMAIN ids = ToSet(EntityKeys(schema))
  /\ \A k \in DOMAIN ids : Len(ids[k]) = 1
SectionsHold(schema, result) ==
  /\ SectionsPresent(schema, result.sections)
  /\ \A n \in DOMAIN result.sections :
       n \notin result.other /\ ~TooLong(schema, n, result.sections[n])
WriterAccepts(schema, ids, result) ==
  /\ IdentifiersHold(schema, ids)
  /\ SectionsHold(schema, result)
  /\ \A spec \in Range(schema.json_artifacts) : JsonHolds(spec, result.json)

-----------------------------------------------------------------------------
(* The files of an entity: sections, JSON artifacts and the manifest,      *)
(* which names the files and the identifiers.  `object` tells the dump of  *)
(* a JSON object; the payload of a declared artifact is one, that of an    *)
(* undeclared one need not be.                                             *)
EntityDir(schema, ids) == FormatTemplate(schema.entity_path, ids)
File(object, text, fields, manifest) ==
  [object |-> object, text |-> text, fields |-> fields, manifest |-> manifest]
NoManifest == [identifiers |-> <<>>, files |-> {}]
ManifestOf(ids, names) == [identifiers |-> ids, files |-> names]
Prose(text) == File(FALSE, text, <<>>, NoManifest)

(* A dump of JSON has its field names in it.                               *)
Object(fields) == [dict |-> TRUE, fields |-> fields]
Dump(payload) == File(payload.dict, Listed(DOMAIN payload.fields), payload.fields, NoManifest)

EntityFiles(schema, ids, result) ==
  LET names == DOMAIN result.sections \cup DOMAIN result.json
      manifest == Dump(Object([identifiers |-> "dict", files |-> "list"]))
  IN (schema.extraction_meta :> [manifest EXCEPT !.manifest = ManifestOf(ids, names)])
     @@ [n \in names |-> IF n \in DOMAIN result.json THEN Dump(result.json[n])
                         ELSE Prose(result.sections[n])]
=============================================================================
