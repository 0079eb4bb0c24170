----------------------------- MODULE EvalSuite -----------------------------
(***************************************************************************)
(* `reigner eval` (cli/eval.py, eval/runner.py) over a library that        *)
(* another process ingests into: the compiled artifacts and the sidecar    *)
(* change between the calls of a case, the index the harness opened does   *)
(* not.  The model answers each case after any of the calls it may make.   *)
(*                                                                         *)
(* Writing an entity is one step here (ArtifactWriter has its system       *)
(* calls); a crash leaves what the steps before it left.                   *)
(*                                                                         *)
(* The siblings no action uses (WriteEntityGoingOn, KeptSession) are forms *)
(* a plausible bug would give a definition, for checking the properties.   *)
(***************************************************************************)
EXTENDS EvalChecks

CONSTANTS
  SchemaYaml,     \* the project's schema file
  Extractions,    \* what the model may answer for a source: which
                  \* extractor asked, the identifiers, the sections and
                  \* those that are no strings, the JSON artifacts
  WorkFiles,      \* what is in the roots of the raw filesystem tools
  CaseYaml,       \* the cases file, a sequence of mappings
  Options,        \* the command lines: cases, checks and profile
  ToolCalls,      \* the calls the model may make of the tools
  Citations,      \* the citations it may register
  Queries,        \* the words it may search for
  Answers,        \* the answers it may give
  Uuids,          \* the names of staging directories, in order
  Elapsed,        \* the seconds a case may take
  MaxCalls,       \* bound of the model: calls in a suite
  MaxChunks       \* bound of the model: calls to read a file to its end

Schema == SchemaFromYaml(SchemaYaml)
ASSUME EvalAssumption == ~SchemaRefused(SchemaYaml) /\ MaxCalls \in Nat

VARIABLES
  disk,       \* the files of the artifact root
  sidecar,    \* the entries of the sidecar
  job,        \* the extraction an ingestion has accepted, or none
  written,    \* entities written so far, and given up
  work,       \* the files of the other roots
  stage,      \* "ready", "running", "ended" or "usage"
  options,    \* the command line
  loaded,     \* the entries the harness's index holds
  current,    \* the number of the case that runs
  run,        \* the record of its run
  spent,      \* calls made in the finished cases
  results     \* the verdicts on the finished cases

library == <<disk, sidecar, job, written>>
suite == <<stage, options, loaded, current, spent, results>>
vars == <<library, work, suite, run>>

NoJob == [phase |-> "none", extraction |-> <<>>]
Silent == [phrases |-> {}, numbers |-> {}]
Fresh == [events |-> <<>>, citations |-> {}, answered |-> FALSE, over |-> FALSE,
          answer |-> Silent, tokens |-> 0, seconds |-> 0]
NoOptions == [cases |-> {}, checks |-> {}, profile |-> "eval"]

Init ==
  /\ disk = <<>> /\ sidecar = {} /\ job = NoJob /\ written = 0 /\ work = WorkFiles
  /\ stage = "ready" /\ options = NoOptions /\ loaded = {} /\ current = 0
  /\ run = Fresh /\ spent = 0 /\ results = <<>>

-----------------------------------------------------------------------------
(* The ingestion of one source.  An LLMExtractor passes on what the model  *)
(* answered, a MapReduceExtractor collects and cuts the sections (its JSON *)
(* is what post_process makes of them); the result is checked, and the     *)
(* writer checks it again.                                                 *)
Extracted(e) == IF e.by = "map_reduce" THEN Enforced(Schema, Collected(Schema, e)) ELSE e
Extract(e) ==
  /\ job = NoJob /\ written < Len(Uuids)
  /\ ExtractionAccepted(Schema, Extracted(e))
  /\ job' = [phase |-> "accepted", extraction |-> Extracted(e)]
  /\ UNCHANGED <<disk, sidecar, written, work, suite, run>>

Ids == job.extraction.ids
Dir == EntityDir(Schema, Ids)
Files == EntityFiles(Schema, Ids, job.extraction)
MovedTo(at, files) == [p \in {at \o f : f \in DOMAIN files} |-> files[Relative(p, at)]]
Old == FilesUnder(disk, Dir)
StagedAt == <<".staging", Uuids[written + 1]>>
Staged == MovedTo(StagedAt, Files)
Trashed == MovedTo(<<".trash", Uuids[written + 1]>>, [f \in {Relative(p, Dir) : p \in Old} |-> disk[Dir \o f]])

(* write_entity raises, and the source is given up, when the writer        *)
(* refuses the extraction or its files cannot be laid out together.        *)
CanWrite ==
  /\ WriterAccepts(Schema, Ids, job.extraction)
  /\ Layable(DOMAIN Files)
WriteEntityGoingOn ==
  /\ job.phase = "accepted" /\ written' = written + 1
  /\ disk' = IF CanWrite THEN MovedTo(Dir, Files) @@ WithoutFiles(disk, Old) ELSE disk
  /\ job' = [job EXCEPT !.phase = "written"]
  /\ UNCHANGED <<sidecar, work, suite, run>>
WriteEntity ==
  /\ job.phase = "accepted" /\ written' = written + 1
  /\ disk' = IF CanWrite THEN MovedTo(Dir, Files) @@ WithoutFiles(disk, Old) ELSE disk
  /\ job' = IF CanWrite THEN [job EXCEPT !.phase = "written"] ELSE NoJob
  /\ UNCHANGED <<sidecar, work, suite, run>>

(* The process dies: with all but the manifest staged, between the two     *)
(* renames, or before the trash is dropped.                                *)
CrashWriting ==
  /\ job.phase = "accepted" /\ CanWrite /\ written' = written + 1
  /\ \/ disk' = WithoutFiles(Staged, {StagedAt \o Schema.extraction_meta}) @@ disk
     \/ disk' = Staged @@ Trashed @@ WithoutFiles(disk, Old)
     \/ disk' = MovedTo(Dir, Files) @@ Trashed @@ WithoutFiles(disk, Old)
  /\ job' = NoJob
  /\ UNCHANGED <<sidecar, work, suite, run>>

(* The next writer puts the entity into the sidecar, or fails to.          *)
IndexEntity ==
  /\ job.phase = "written"
  /\ sidecar' \in {Upserted(sidecar, EntryOf(Ids, job.extraction.sections)), sidecar}
  /\ job' = NoJob
  /\ UNCHANGED <<disk, written, work, suite, run>>

Ingest == (\E e \in Extractions : Extract(e)) \/ WriteEntity \/ CrashWriting \/ IndexEntity

-----------------------------------------------------------------------------
(* The command line: unknown names, no case to run or a cases file that    *)
(* does not load end it before the first case.                             *)
KnownCases == {CaseYaml[i].id : i \in DOMAIN CaseYaml}
Chosen(o) ==
  SelectSeq([i \in DOMAIN CaseYaml |-> CaseFrom(CaseYaml[i])],
            LAMBDA c : o.cases = {} \/ c.id \in o.cases)
ChecksOf(o) == IF o.checks = {} THEN Registered ELSE o.checks
UsageError(o) ==
  \/ \E i \in DOMAIN CaseYaml : CaseRefused(CaseYaml[i])
  \/ ~(o.cases \subseteq KnownCases) \/ ~(ChecksOf(o) \subseteq Registered)
  \/ Chosen(o) = <<>> \/ o.profile \notin {"full", "read_only", "eval"}
Start(o) ==
  /\ stage = "ready"
  /\ stage' = IF UsageError(o) THEN "usage" ELSE "running"
  /\ options' = o /\ loaded' = sidecar /\ current' = 1
  /\ UNCHANGED <<library, work, run, spent, results>>

Running == stage = "running" /\ ~run.over
CanCall == Running /\ spent + Len(Calls(run)) < MaxCalls

-----------------------------------------------------------------------------
(* The tools, and what a profile leaves of them.                           *)
Reply(c) ==
  LET a == c.args
  IN CASE c.tool = "read_artifact_file" -> ReadArtifactFile(Schema, disk, a.path, a.offset, a.limit)
       [] c.tool = "get_json_field" -> GetJsonField(disk, a.path, a.fields)
       [] c.tool = "grep_artifact" -> GrepArtifact(Schema, disk, a)
       [] c.tool = "list_documents" -> ListDocuments(Schema, disk, a)
       [] c.tool = "list_versions" -> ListVersions(Schema, disk, a)
       [] c.tool = "get_section" -> GetSection(Schema, disk, a.section, Restrict(a, DOMAIN a \ {"section"}))
       [] c.tool = "bm25_search" -> Bm25Search(loaded, a.query, Get(a, "filters", <<>>), Get(a, "top_k", 0))
       [] c.tool = "filtered_search" -> FilteredSearch(loaded, a.filters, Get(a, "top_k", 0))
       [] c.tool = "section_search" -> SectionSearch(loaded, a.query, a.section_name, Get(a, "top_k", 0))
       [] c.tool = "fs_ls" -> FsLs(work, a.path, FALSE)
       [] c.tool = "fs_glob" -> FsGlob(work, a.pattern, Get(a, "base", <<>>), FALSE)
       [] c.tool = "fs_grep" -> FsGrep(work, a.query, Get(a, "path", <<>>), FsExtensions, FALSE)
       [] c.tool = "fs_read" -> FsRead(work, a.path, a.offset, a.limit)
       [] c.tool = "fs_write" -> FsWrite(work, a.path, a.content)
Readonly(c) == c.tool # "fs_write"
Offered(c) == Readonly(c) \/ options.profile = "full"

(* A read of this case that succeeded is answered from the session's       *)
(* cache.                                                                  *)
Remembered(c) ==
  {e.reply : e \in {e \in Range(run.events) : e.kind = "result" /\ e.call = c /\ e.reply.ok}}
Cached(c) == Readonly(c) /\ Remembered(c) # {}

Record(events) == run' = [run EXCEPT !.events = @ \o events, !.tokens = @ + 1]
CallTool(c) ==
  /\ CanCall
  /\ LET reply == IF Cached(c) THEN CHOOSE r \in Remembered(c) : TRUE
                  ELSE IF Offered(c) THEN Reply(c) ELSE Raised
     IN Record(<<CallEvent(c), ResultEvent(c, reply, Cached(c))>>)
  /\ work' = IF c.tool = "fs_write" /\ Offered(c) THEN Written(work, c.args.path, c.args.content) ELSE work
  /\ UNCHANGED <<library, suite>>

(* add_citation keeps one of equal citations.                              *)
CiteCall(cite) == [tool |-> "register_citation", args |-> [cite |-> cite]]
Cite(cite) ==
  /\ CanCall
  /\ run' = [run EXCEPT !.events = @ \o <<CallEvent(CiteCall(cite)), CiteEvent(CiteCall(cite), cite)>>,
                        !.citations = @ \cup {cite}, !.tokens = @ + 1]
  /\ UNCHANGED <<library, work, suite>>

-----------------------------------------------------------------------------
(* How a case ends: with an answer, and its usage; with a clarification,   *)
(* which the eval profile does not offer; with an error of the loop or an  *)
(* exception, both of them an event.                                       *)
EndsWith(r) == run' = [r EXCEPT !.over = TRUE] /\ UNCHANGED <<library, work, suite>>
AnswerCase(a) ==
  /\ Running /\ \E s \in Elapsed : EndsWith([run EXCEPT !.answered = TRUE, !.answer = a, !.seconds = s])
Nowhere == [tool |-> "none", args |-> <<>>]
Unanswered(kind) ==
  \E s \in Elapsed : EndsWith([run EXCEPT !.events = Append(@, OtherEvent(kind, Nowhere)), !.seconds = s, !.tokens = 0])
Clarify == Running /\ options.profile # "eval" /\ Unanswered("clarify")
Fail == Running /\ Unanswered("error")

(* The next case gets a session of its own.                                *)
KeptSession == [Fresh EXCEPT !.citations = run.citations]
NextSession == Fresh
Case == Chosen(options)[current]
Scored == Verdicts(ChecksOf(options), Case, run)
Score ==
  /\ stage = "running" /\ run.over
  /\ current' = current + 1 /\ run' = NextSession
  /\ results' = Append(results, Scored)
  /\ spent' = spent + Len(Calls(run))
  /\ stage' = IF current = Len(Chosen(options)) THEN "ended" ELSE "running"
  /\ UNCHANGED <<library, work, options, loaded>>

(* The exit code: 0 when every case passed, 1, or 2 for a usage error.     *)
ExitCode ==
  IF stage = "usage" THEN 2 ELSE IF \A i \in DOMAIN results : Passed(results[i]) THEN 0 ELSE 1

Model ==
  \/ \E c \in ToolCalls : CallTool(c)
  \/ \E c \in Citations : Cite(c)
EndCase == (\E a \in Answers : AnswerCase(a)) \/ Clarify \/ Fail
Suite == (\E o \in Options : Start(o)) \/ Model \/ EndCase \/ Score

Next == Ingest \/ Suite
Spec == Init /\ [][Next]_vars

-----------------------------------------------------------------------------
(* What an extractor has accepted, and its run has paid for, the writer    *)
(* refuses only for its names, which no extractor looks at: identifiers    *)
(* that do not fit the schema, or a section that would be a directory of   *)
(* another.  A map-reduce extraction is never refused for what its         *)
(* sections hold, whatever the model answered; a single-shot one is, when  *)
(* a section of it is no string or too long.                               *)
AcceptedIsWritable ==
  job.phase = "accepted" /\ ~CanWrite =>
    \/ ~IdentifiersHold(Schema, Ids) \/ ~Layable(DOMAIN Files)
    \/ /\ job.extraction.by = "llm"
       /\ \E n \in DOMAIN job.extraction.sections :
            n \in job.extraction.other \/ TooLong(Schema, n, job.extraction.sections[n])

(* Every entity list_documents names has been written whole, whatever      *)
(* crash came between: its manifest carries the listed identifiers,        *)
(* get_section reads every file the manifest names and get_json_field      *)
(* those of them the schema declares (another may hold a list), and        *)
(* list_versions knows the version, too.                                   *)
ListedIsWhole ==
  \A ids \in ListDocuments(Schema, disk, <<>>).ids :
    LET dir == EntityDir(Schema, ids)
        manifest == dir \o Schema.extraction_meta
        version == Last(EntityKeys(Schema))
    IN /\ IsFile(disk, manifest) /\ disk[manifest].manifest.identifiers = ids
       /\ \A f \in disk[manifest].manifest.files :
            /\ GetSection(Schema, disk, f, ids).ok
            /\ (\E spec \in Range(Schema.json_artifacts) : spec.name = f)
               => GetJsonField(disk, dir \o f, {}).ok
       /\ ids[version] \in ListVersions(Schema, disk, Restrict(ids, DOMAIN ids \ {version})).paths

(* A reader who reads on from has_more, chunk by chunk, in up to MaxChunks *)
(* calls of Read(offset), comes to the word.                               *)
ReadsTo(word, Read(_)) ==
  \E i \in 0..(MaxChunks - 1) :
    /\ word \in ToSet(Read(i * MaxReadChars).text)
    /\ \A j \in 0..(i - 1) : Read(j * MaxReadChars).more

(* A path one tool shows another takes: what grep_artifact and fs_grep     *)
(* find in a file, however long, a reader of that path comes to by reading *)
(* on; what fs_ls names at the top it lists; and what fs_glob matches is   *)
(* there, in the root it was found in.  Only a symbolic link out of its    *)
(* root is shown by all three and refused by fs_read.                      *)
IsOutside(path) ==
  \E link \in OutsideLinks : Display(link.root, link.path) = path
ShownIsReadable ==
  /\ \A w \in Queries : \A p \in GrepArtifact(Schema, disk, [query |-> w]).paths :
       ReadsTo(w, LAMBDA at : ReadArtifactFile(Schema, disk, p, at, MaxReadChars))
  /\ \A w \in Queries : \A p \in FsGrep(work, w, <<>>, FsExtensions, FALSE).paths :
       ~IsOutside(p) => ReadsTo(w, LAMBDA at : FsRead(work, p, at, MaxReadChars + 1))
  /\ \A r \in FsLs(work, <<>>, FALSE).paths : MultiRoot => FsLs(work, r, FALSE).ok
  /\ \A p \in FsGlob(work, [deep |-> TRUE, suffix |-> "*"], <<>>, FALSE).paths :
       LET place == FsResolve(p)
       IN ~IsOutside(p) => place.path # Bad /\ Exists(At(work, place), place.path)

(* A hit leads to its document: an entry of the sidecar, or of the older   *)
(* one a harness has open, names an entity that is listed, or whose last   *)
(* version a crash between the writer's renames left in the trash; and the *)
(* search narrowed to its identifiers finds it alone.                      *)
HitsLead ==
  \A index \in {sidecar, loaded} : \A e \in index :
    /\ \/ e.identifiers \in ListDocuments(Schema, disk, <<>>).ids
       \/ \E f \in FilesUnder(disk, <<".trash">>) : disk[f].manifest.identifiers = e.identifiers
    /\ LET found == FilteredSearch(index, [k \in DOMAIN e.identifiers |-> {e.identifiers[k]}], TopKMax)
       IN found.ids = {e.identifiers} /\ ~found.more

(* The coverage check does not fail a case for a source a call of its run  *)
(* has read, by its path or as a section.                                  *)
TargetOf(c) ==
  IF c.tool = "get_section"
  THEN Joined(EntityKeys(Schema), Restrict(c.args, DOMAIN c.args \ {"section"})) \o c.args.section
  ELSE c.args.path
Readings ==
  {e.call : e \in {e \in Range(run.events) : e.kind = "result" /\ e.reply.ok
      /\ e.call.tool \in {"get_section", "read_artifact_file", "get_json_field"}}}
ReadIsCovered ==
  /\ stage = "running" /\ run.over
  /\ \A c \in Case.expected_citations : \E call \in Readings : TargetOf(call) = c.source
  => Get(Scored, "coverage", "na") # "fail"

(* A verdict is about its own case: numbers pass as cited only by what was *)
(* registered in this case, whatever the cases before it registered, and a *)
(* case that must end in a clarification passes only if this one did.      *)
VerdictsAreOwn ==
  stage = "running" /\ run.over =>
    LET cites == UNION {e.cite : e \in Range(run.events)}
        Cited(n) == \E c \in cites : \E m \in c.value : m.mantissa = n.mantissa
    IN /\ Get(Scored, "faithfulness", "na") = "pass" =>
            \A n \in Claims(run.answer.numbers) : Cited(n)
       /\ Get(Scored, "entity_resolution", "na") = "pass" =>
            ~run.answered /\ Last(run.events).kind = "clarify"
=============================================================================
