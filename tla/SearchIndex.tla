---------------------------- MODULE SearchIndex ----------------------------
(***************************************************************************)
(* The BM25 sidecar (ingestion/writers/bm25.py) and the search tools over  *)
(* it (tools/search): one entry per entity, read once when the index is    *)
(* opened.                                                                 *)
(*                                                                         *)
(* An entry is hit when it shares a word with the query, which is when its *)
(* score is above zero; hits come in one fixed order, not by score.        *)
(***************************************************************************)
EXTENDS FsTools

CONSTANTS
  SortedKeys,             \* the identifiers' keys in lexicographic order
  TopKMax, TopKDefault

(* _build_entry: the id is the values in the order of the sorted keys,     *)
(* which need not be the entity's path.                                    *)
EntryOf(ids, sections) ==
  [id |-> FoldLeft(LAMBDA id, k : IF k \in DOMAIN ids THEN id \o ids[k] ELSE id, <<>>, SortedKeys),
   identifiers |-> ids, sections |-> sections]
WordsOf(entry) == UNION {ToSet(entry.sections[n]) : n \in DOMAIN entry.sections}

(* _upsert; a sidecar that is missing holds no entries.                    *)
Upserted(entries, entry) == {e \in entries : e.id # entry.id} \cup {entry}

-----------------------------------------------------------------------------
(* A filter allows some values of each key; an empty list is refused.      *)
FilterRefused(filters) == \E k \in DOMAIN filters : filters[k] = {}
Matches(ids, filters) == \A k \in DOMAIN filters : k \in DOMAIN ids /\ ids[k] \in filters[k]

ClampTopK(k) == IF k <= 0 THEN TopKDefault ELSE Min({k, TopKMax})
Top(entries, k) ==
  LET shown == ToSet(Capped(Listed(entries), ClampTopK(k)).found)
  IN Answer(<<>>, {}, {e.identifiers : e \in shown}, <<>>, Cardinality(entries) > ClampTopK(k))

(* An index without entries answers with a note before the filters are     *)
(* looked at, and an empty query raises before that.                       *)
Bm25Search(entries, query, filters, k) ==
  IF query = {} \/ (entries # {} /\ FilterRefused(filters)) THEN Raised
  ELSE Top({e \in entries : Matches(e.identifiers, filters) /\ WordsOf(e) \cap query # {}}, k)
FilteredSearch(entries, filters, k) ==
  IF entries # {} /\ FilterRefused(filters) THEN Raised
  ELSE Top({e \in entries : Matches(e.identifiers, filters)}, k)
SectionSearch(entries, query, section, k) ==
  IF query = {} THEN Raised
  ELSE Top({e \in entries : section \in DOMAIN e.sections
                            /\ ToSet(e.sections[section]) \cap query # {}}, k)

(* stats, for `reigner inspect index`.                                     *)
Stats(entries) ==
  [doc_count |-> Cardinality(entries), vocabulary |-> UNION {WordsOf(e) : e \in entries},
   sections |-> UNION {DOMAIN e.sections : e \in entries}]
=============================================================================
