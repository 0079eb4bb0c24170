--------------------------- MODULE ArtifactStore ---------------------------
(***************************************************************************)
(* The read tools over the compiled artifacts (tools/artifacts): each is   *)
(* an operator from the artifact root's files to the tool's answer.        *)
(*                                                                         *)
(* An answer is a record: whether the call raised, the one path the result *)
(* names, the paths it shows, the entities, the text and whether there is  *)
(* more.  Paths are sorted in the code; here in one fixed order.  The root *)
(* holds what the writer put there, which makes no symbolic links.         *)
(*                                                                         *)
(* WalkedEverywhere is also what a plausible bug would make of Walked.     *)
(***************************************************************************)
EXTENDS ArtifactSchema

CONSTANTS
  ArtifactRoot,   \* the absolute path of library/artifacts
  MaxMatches      \* grep_artifact's _MAX_MATCHES

Answer(path, paths, ids, text, more) ==
  [ok |-> TRUE, path |-> path, paths |-> paths, ids |-> ids, text |-> text, more |-> more]
Raised == [Answer(<<>>, {}, {}, <<>>, FALSE) EXCEPT !.ok = FALSE]

IsText(schema, path) == Suffix(path) \in {""} \cup schema.text_extensions

Resolve(rel) == WithinRoot(ArtifactRoot, rel)

(* resolve_entity joins the identifiers in the order of the template's     *)
(* placeholders: its literal segments are not in it.                       *)
Joined(keys, ids) == FoldLeft(LAMBDA path, k : path \o ids[k], <<>>, keys)
ResolveEntity(schema, ids) ==
  IF IdentifiersHold(schema, ids) THEN Resolve(Joined(EntityKeys(schema), ids)) ELSE Bad

-----------------------------------------------------------------------------
ReadArtifactFile(schema, tree, path, offset, limit) ==
  LET target == Resolve(path)
      chunk == Slice(tree[target].text, offset, limit)
  IN IF offset < 0 \/ limit <= 0 \/ ~IsFile(tree, target) \/ ~IsText(schema, target) THEN Raised
     ELSE Answer(<<>>, {}, {}, chunk.found, chunk.cut)

GetJsonField(tree, path, fields) ==
  LET target == Resolve(path)
  IN IF ~IsFile(tree, target) \/ Suffix(target) # ".json" \/ ~tree[target].object THEN Raised
     ELSE Answer(<<>>, {}, {}, Listed(fields \cap DOMAIN tree[target].fields), FALSE)

(* One match for each line that holds the query, file after file.          *)
MatchesIn(tree, query, files) ==
  FoldLeft(LAMBDA found, f :
             found \o FoldLeft(LAMBDA lines, word : IF word = query THEN Append(lines, f) ELSE lines,
                               <<>>, tree[f].text),
           <<>>, files)
GrepArtifact(schema, tree, args) ==
  LET scoped == "file_path" \in DOMAIN args
      base == IF "entity" \in DOMAIN args THEN Resolve(args.entity) ELSE <<>>
      searched == IF scoped THEN {Resolve(args.file_path)} ELSE FilesUnder(tree, base)
      files == {f \in searched : IsFile(tree, f) /\ IsText(schema, f)
                                 /\ ("extensions" \in DOMAIN args => Suffix(f) \in args.extensions)}
      matches == Capped(MatchesIn(tree, args.query, Listed(files)), MaxMatches)
  IN IF Bad \in searched \/ (~scoped /\ ~Exists(tree, base)) THEN Raised
     ELSE Answer(<<>>, ToSet(matches.found), {}, <<>>, matches.cut)

(* _walk_entities: the directories as deep as the template has keys, none  *)
(* of them hidden; the segments of a path are then the keys' values.       *)
WalkedEverywhere(tree, depth) == {p \in PathsUnder(tree, <<>>) : Len(p) = depth /\ IsDir(tree, p)}
Walked(tree, depth) == {p \in WalkedEverywhere(tree, depth) : ToSet(p) \cap Dotted = {}}
IdsOf(keys, path) == [k \in ToSet(keys) |-> <<path[SelectInSeq(keys, LAMBDA x : x = k)]>>]
ListDocuments(schema, tree, filters) ==
  LET keys == EntityKeys(schema)
      listed == {IdsOf(keys, p) : p \in Walked(tree, Len(keys))}
  IN Answer(<<>>, {}, {ids \in listed : \A k \in DOMAIN filters \cap ToSet(keys) : ids[k] = filters[k]}, <<>>, FALSE)

(* The values of the last key, hidden directories not left out.            *)
ListVersions(schema, tree, ids) ==
  LET keys == Front(EntityKeys(schema))
      prefix == IF keys = <<>> THEN <<>> ELSE Resolve(Joined(keys, ids))
  IN IF \/ ~(ToSet(keys) \subseteq DOMAIN ids) \/ \E k \in ToSet(keys) : Len(ids[k]) # 1
        \/ prefix = Bad
     THEN Raised
     ELSE Answer(<<>>, {<<n>> : n \in {n \in Kids(tree, prefix) : IsDir(tree, Append(prefix, n))}}, {}, <<>>, FALSE)

GetSection(schema, tree, section, ids) ==
  LET entity == ResolveEntity(schema, ids)
      target == entity \o Normal(section)
  IN IF \/ section = <<>> \/ Head(section) = "" \/ Contains(section, "..")
        \/ entity = Bad \/ ~IsDir(tree, entity) \/ ~IsFile(tree, target)
     THEN Raised
     ELSE Answer(target, {}, {}, tree[target].text, FALSE)
=============================================================================
