# Formal models of reigner

reigner is an asyncio harness for LLM agents: a loop that talks to a model,
runs its tool calls and yields events; sessions whose events are logged to
disk; and an ingestion pipeline that turns sources into artifacts the agent
searches. This directory holds TLA+ modules of its core logic, TLC
configurations that check them on small instances, and TLAPS proofs of their
main invariants for every instance.

`PROJECT.json` is the index: components, runs, the source lines behind each
definition (`map`), known hazards of the code, and for every checked property a
*mutant*, a plausible bug in one mapped definition that makes the property fail.
The mutated forms stand in the modules next to the originals (`BeginUnstaged`
next to `Begin`, ...) and no action uses them.

Source paths below are relative to `src/reigner/`.

## How to run

    tlc -workers 2 -config loop_faults.cfg MCAgentLoop.tla
    tlapm AgentLoopProofs.tla

| `.cfg` | Module |
|---|---|
| `loop_faults`, `loop_compaction` | `MCAgentLoop` |
| `session_writers` | `MCSessionLog` |
| `sessions` | `MCSessionCatalog` |
| `artifact_single`, `artifact_writers` | `MCArtifactWriter` |
| `ingest_reruns`, `ingest_raise` | `MCIngestionPipeline` |
| `map_reduce` | `MCMapReduce` |
| `replay` | `MCReplay` |
| `console` | `MCConsole` |
| `eval_suite` | `MCEvalSuite` |

Each run takes between a second and three minutes with two workers.

## Inventory

| Component | State | Operations | What is hard | What makes it correct |
|---|---|---|---|---|
| Agent loop (`harness/loop.py`), with compaction, nudges, oracle flag | `AgentState`: history, steering queue, error streak and G4 latch, iteration counter, oracle flag, notes, citations; locals of the generator | one query: drain steering, compact, call the model, dispatch pseudo-tools and batches of real tools, nudge, abort, end | steering and cancellation at every suspension point; a streak that lives across turns and queries; calls collected late and executed in batches; many ends | answers in call order, prompts whose calls are answered, one terminal event, one nudge per streak, no steering lost, termination |
| Tool batch (`harness/parallel.py`, `cache.py`, `truncation.py`) | the read cache, calls in flight | execute a batch side by side or one by one, cache reads, truncate | equal reads that both miss; writes among reads; sizes at the limit | nothing is overtaken; truncated results stay about the limit |
| Model adapters (`harness/adapters/`) | Gemini's counter of call ids | parse a response, translate turns back, send tool schemas | three wire formats; ids given out twice; strict mode at every depth | a reply is echoed as it was; a result is named after its call; tools can be called as offered |
| Tool surface (`tools/base.py`, `registry.py`, `skills.py`, `harness/agent.py`) | the registry | validate a signature, make its schema, register, filter by profile, wire skills | schema and function may disagree | what a schema admits the function takes |
| Session (`harness/agent.py`) and store (`sessions/store.py`) | events in memory and how many are persisted; JSONL log; meta sidecar | open, run, save, resume, fork, title, export, import | crash between and inside appends; two live sessions on one file; sidecars read and written back; forks of forks | seen events are durable, logs are ordered and stand alone, lineage is kept, what is shown agrees |
| Replay (`sessions/replay.py`) and fork tree (`sessions/tree.py`) | the state rebuilt from a log; parents in sidecars | rebuild, draw | the rebuilt history may differ from the live one; cycles | the rebuilt state is the live one; every session is drawn once |
| Artifact writer (`artifacts/writer.py`) and schema | the entity's directory, staging and trash directories | check, `write_entity` | crash between two renames; two writers between `exists`, rename and restore; rollback that fails | old version or new one; a failed write never shows; the latest version is not lost |
| Ingestion pipeline (`ingestion/pipeline.py`) and BM25 writer | manifests, index, dead letters; workers, semaphore, lock, report, event numbers | a run: skip, load, transform, write, report; re-run | threads that outlive a cancelled worker; crash between the two writers; failure inside the failure handler | a re-run completes what is missing; the report adds up; no lost index entry; every run ends |
| Extractor (`ingestion/extractor.py`) | windows in flight, the chunk cache, a tally per run | pack pages, map with retries, reduce, validate | bounded fan-out, abort, documents that share one extractor | everything or an error; paid once where a cache is set; tallies apart |
| Read tools (`tools/artifacts`, `tools/fs`, `tools/search`) | the files; the index as it was opened | list, read, grep, glob, search, `fs_write` | paths handed from one tool to another; entities replaced under an open index; what crashes leave | what is listed is whole, what is shown can be read, a hit leads somewhere |
| Console (`cli/chat.py`) | prompt, consumer task, run task, queues | read a line, steer, interrupt, leave | a line typed as the run ends; Ctrl+C racing the end or inside a drain; text Rich cannot print | Ctrl+C hits its run; steering in order, lost only with a run that broke off while draining; every line served until one cannot be printed |
| Evaluation (`eval/`, `cli/eval.py`) | the case in progress, its events, verdicts | run a case, check it, sum up | traces of other cases; checks that read events | a verdict is about its own case |
| Server, other CLI commands, plugins, loaders, configuration | little or none of their own | HTTP, terminal I/O, redaction, network input, parsing | | |

How they interact: `Session.run_stream` drives `run_loop` as an async
generator and logs each event before it yields it; the REPL, the server and the
evaluation hold Session objects and iterate the stream; other tasks call
`Session.steer`; the loop awaits an adapter, the tool batch and plugin hooks;
tools read the files the pipeline wrote; the pipeline runs its two writers in
threads and the extractor in its tasks.

## The modules

    AgentLoop <- AgentLoopProofs              the loop
    SessionLog <- SessionLogProofs            writers of one log
    SessionCatalog <- SessionViews            the sessions directory, and what is told of it
      <- SessionCatalogProofs
    AtomicEntity, ArtifactWriter <- ArtifactWriterProofs
    IngestionPipeline                         a run over several sources
      <- IngestionPipelineProofs
    MapReduce <- MapReduceProofs              the extractor
    ToolBatch, Adapters <- Replay             rounds of a session and their reconstruction
    Replay, Truncation <- Wire                truncated sizes, replies sent back
      <- ReplayProofs
    ToolSchema <- ToolSurface                 operators, checked with Replay
    Console <- ConsoleProofs                  the REPL's tasks
    FileTree <- ArtifactSchema <- ArtifactStore <- FsTools <- SearchIndex
      <- EvalChecks <- EvalSuite              an evaluation over a library in use

`A <- B` reads: B extends A. The `MC` modules give the constants their values.

### AgentLoop

`run_loop` from one suspension point to the next. `pc` is the place the
coroutine has reached; `Steer` (another task) and `Cancel` (the consumer) can
come in wherever it is suspended, `StartQuery` between two runs. Each terminal
path of the loop is an action: `NoAdapter` (a session that has none as the query
starts; the attribute is public, so a later query may find one), `AdapterFails`, `Answer`, `Stop`,
`RequestClarification`, `AbortOnErrors`, the budget in `EndIteration`, and a
failing transform hook at each of the four places one is called (`HookFails`).
Data are reduced to what the loop branches on: a reply is a sequence of tool
names, a call has an identity, a turn has a kind and the calls it asks for or
answers. The token count is not modelled: any configured tier of compaction may
apply at any iteration, which covers every count.

| Run | Question | Bounds |
|---|---|---|
| `loop_faults` | Are transcript, streak and terminal events consistent under every fault? | 2 queries of 2 iterations, 6 reply shapes with all five pseudo-tools around real calls, tool, adapter and hook failures, no adapter, cancellation; no compaction |
| `loop_compaction` | Where is each steering message after cancellation and compaction, and does every query end? | 2 queries, 2 steering messages, all 3 tiers, recent window of 2 turns; fairness |

Two iterations with a threshold of 1 are enough for nudge and abort in one
query and for a streak carried into the second; a window of 2 turns with
replies of two calls makes compaction cut between a call and its answers.
`MaxErrors`, `KeepRecent` and `NudgeInterval` are small so that each is reached;
AgentLoopProofs covers the other values.

Fairness (`loop_compaction`): weak fairness of `LoopStep`, the loop's own
steps. The code has no timeout of its own around the adapter, so this says that
the adapter and the tools answer or fail, and that the consumer keeps iterating
until it abandons the stream. No fairness is put on `Steer`, `Cancel` or
`StartQuery`. `QueryTerminates` also holds when the consumer cancels.

### SessionLog

A writer is a live `Session` object of one session id: the REPL's, or one per
request in the server. The store takes no lock, so several may be live. The
file is the sequence of the texts that appends left in it: a line, or, when an
append broke off, a part of one or one without its newline. It breaks off in a
process that dies ("torn") or in one that lives on ("disk"), in `run_stream` or in
`save()`. What is appended next runs into such a text, and no reader accepts the
line they share. `Ask`, `Step`, `Last`,
`HookFails` log an event with what `run_stream` does around it; `WriteMeta` is
its `finally`; `SaveAll` and `SaveStops` are `save()` with and without a failing
append; `Open` is `__init__` preloading the log.

| Run | Question | Bounds |
|---|---|---|
| `session_writers` | With two live sessions on one file, is what was seen durable, and ordered? | 2 writers (one auto-saving, one on `save()`), 3 events, kills, appends that raise or die with none, part or all of the text in the file (among its first 2 texts), failing hooks, abandoned streams |

Three events let each writer be behind while the other appends and let one save
stop half-way; `MaxTexts` keeps a failing `save()`, repeated, from lengthening the
file for ever. SessionLogProofs removes both bounds. Deadlock is not checked: a log
that broke off while no Session was open on it can never be loaded again.

### SessionCatalog and SessionViews

The sessions directory as several processes use it: a host has a live Session
(the REPL, `session fork`, `session replay`, a request of the server), a command
sets a title, exports or imports. Files are a log and a sidecar per id; a log
may end in a torn line. Each action is one access to the files, so that others
come between the read of a sidecar and the write that rests on it. `doubt` marks
the sessions which an accident or such an overlap has left with an old sidecar,
and `bare` those whose sidecar somebody rebuilt from the log, which knows no
parent; `origin` is the ghost of the true one.

SessionViews adds what is told of the files and changes nothing: the rows of
`session list` and of the server, `session show` with its rounds, the window of
events of `fastapi_app.py`, and the fork tree of `tree.py`, in which `Closes`
says which edges are skipped. `ViewsAgree` is about the files as the processes
leave them; `ReadersExact` is about the operators, for every small log
(`RoundsTold`) and every small directory (`DrawnOnce`), and is looked at once.

| Run | Question | Bounds |
|---|---|---|
| `sessions` | After forks, titles, exports, removals, imports, kills and resumes: does every log stand alone, does every sidecar name the right parent, do the views agree with the log and with each other, is every session drawn once? | 1 host, 1 command, 2 ids, one the beginning of the other, 3 events; the views of all logs of up to 4 events, and the trees of all parent relations of up to 4 sessions |

Two ids are a parent and its fork, and three events give two rounds, so that a
cut is proper; SessionCatalogProofs removes these bounds for all four properties.

### AtomicEntity and ArtifactWriter

`AtomicEntity` is what a caller of `write_entity` is promised: a value which
each write replaces once or leaves alone. `ArtifactWriter` is the protocol, one
system call per step: stage, look whether the directory exists, move the old
version aside, rename the new one in, drop the trash, and on an error remove the
staging directory and restore. Each `write_entity` in progress is a writer, and
any number may overlap, since the pipeline writes each source in its own thread
and two sources may name one entity. `ImplementsAtomicEntity` is the refinement:
the abstract value is the directory's version, or the one moved aside while the
directory is absent.

| Run | Question | Bounds |
|---|---|---|
| `artifact_single` | Do calls that do not overlap implement the abstract entity? | 1 writer, 8 writes, staging and rename failures |
| `artifact_writers` | When two overlap, can a write that raised show, or the latest version be deleted? | 2 writers (symmetric), 5 writes, every fault |

The refinement leaves out a failing *restoring* rename and a crash between the
two renames, after which the directory is absent; the proofs of the two
invariants include them.

### IngestionPipeline

One task per source over a semaphore, with the skip of ingested sources, the
three `on_error` policies, the BM25 lock, the report, the numbering of events,
and threads that outlive their cancelled worker (`orphans`). `write_entity` is
one step here; ArtifactWriter is its refinement for calls that do not overlap.
That one step has ArtifactWriter's outcomes (a version is promoted, or the call
raises) as long as a call is overlapped by at most one other of its entity, as in
the runs; what two others can do is under "Limits of what holds".
A crash may leave the entity without a directory. An update of the index which
cannot read it starts from an empty one, as `_read_existing` does.
The semaphore admits workers in the order of their tasks, as asyncio does for
tasks created in a row; the lock is granted in any order.

| Run | Question | Bounds |
|---|---|---|
| `ingest_reruns` | After failures, crashes and a new prompt, does a run leave every entity current, a report that adds up, an index that loses entries only to an update that could not read it, and does it end? | 3 sources (two of one entity, two with one stem), 2 at a time, 2 runs, 2 prompt versions; fairness |
| `ingest_raise` | Are events in order while no dead letter is filed, when runs raise or are abandoned and leave threads behind? | 3 sources, 2 at a time, 2 runs, 1 prompt version |

Three sources with room for two at a time is the least at which a worker waits
while two interleave; the second run sees whatever the first left.

Fairness (`ingest_reruns`): weak fairness of `RunStep`. Every awaited loader,
transform and thread returns or raises, and the consumer keeps iterating; a run
has finitely many steps, so nothing stronger is needed.

### MapReduce

`MapReduceExtractor` and `LLMExtractor`: a document's pages are packed into
windows (`Pack`, page by page), each window takes a slot of the semaphore and is found
in the chunk cache or mapped by a call, the first error makes the windows that
still wait skip theirs (`_MapChunkSkipped`), the fragments of each section are
joined or reduced by a further call, and the result is validated. The documents
of one pipeline share the extractor and its cache; `tally` is the context
variable each run bills to and `calls` the ghost it should equal. An answer is billed
before it is stored, and `map_cache_put` may raise (`PutFails`: the window fails as
if its call had) or the process die in between (`DiesUnstored`). The ghost `paid`
counts the map answers the provider gave for a text, and `lost` those of them that
were never stored or whose entry was damaged since; `PaidOnce` bounds what is left.
It speaks of an extractor with a `map_cache_dir` (`Caching`): by default there is no
cache and every re-run pays for all its windows again.

| Run | Question | Bounds |
|---|---|---|
| `map_reduce` | Is a result ever partial, an answer paid twice, a tally mixed up, and does every run end? | 2 documents, one of three windows with a blank page, one sharing a window's text; 3 runs; transient, garbled and fatal answers, failing puts, crashes before and after a put, damaged cache entries; fairness |

Concurrency 2 with three windows leaves one to be skipped. Fairness: weak
fairness of each run's own work: the adapter answers or fails, and retries are
bounded by `MaxRetries`.

### ToolBatch, Adapters and Replay

ToolBatch is `execute_batch`: a batch of read-only tools runs side by side, any
other one call after another; a call looks into the session's cache as it starts
and fills it as it ends. A tool reads or writes one file, whose content is a
version number. Adapters are the operators by which the three providers parse a
response and are sent the history back. Replay composes both with a reduced
loop: rounds of queries, replies, pseudo-tools, batches, steering, cancellation
at every yield, and `Resume`, which replaces the live state by what
`reconstruct` makes of the log (`Rebuilt`): the loop run again on the recorded
actions, with tools that serve the recorded results and an oracle that is a stub.
`exact` is false once something has happened that the log cannot tell; `replay.py`
promises no more than that. The rebuilt history is not quite the live one even
then, and `Retold` says turn by turn what becomes of it: signatures are gone, since
the event of a call has none (`replay.py:118`); a result, truncated when it was
logged, is truncated again (`loop.py:680`), which may shorten it once more; and an
oracle that was refused is armed (`replay.py:268`). `loaded` counts the turns that a
rebuild has made already, which a further one leaves as they are.

Truncation, ToolSchema and ToolSurface are operators without state: the sizes a
truncated result has, the schema of a tool on its way to each provider, and the
way from a function's signature to the tools a session offers. They are
evaluated in the same run, in its states before the first round; Wire states what
is promised of truncated sizes and of replies, for inputs given as constants.

| Run | Question | Bounds |
|---|---|---|
| `replay` | Is the rebuilt history the live one, is a write ever overtaken, is every result sent under its call's name? And for all bounded inputs: are truncated sizes bounded, replies echoed, tools callable as they are offered? | 2 rounds of 2 turns, 2 replies with calls out of 6, 2 files, one steering message, no oracle, a result that truncation changes twice, tool and adapter failures, edits from outside, cancellation; limits 14 to 95 for strings of each width of characters and up to 4 parts, responses of up to 4 parts, signatures of up to two parameters, schemas nested in place and by reference |

Two equal reads in one reply and in two, around an edit, are what makes a replay
by tool and arguments go wrong; they take two replies. ReplayProofs removes the
bounds for the three properties of Replay and the two of Wire.

### Console

The prompt, the consumer task and the run task of `chat.py` on one event loop:
an action is what the loop executes between two suspensions. `Task.cancel` of
asyncio is external: it cancels what a task waits for. A run empties the
session's queue (`Drain`) and appends the messages one by one (`Deliver`); a run
that is cancelled or fails between two of them takes the rest with it
(`Abandon`). `console.print` reads text as Rich markup and raises where it
cannot: the echo of a line (`EchoFails`, `chat.py:442`) and the report of a
failed run (`RunFails`, `chat.py:503`) then end the consumer. Which texts do is
left open.

| Run | Question | Bounds |
|---|---|---|
| `console` | Does Ctrl+C reach the run it was pressed at, what becomes of steering, is every line served? | 3 lines, 3 steering messages; fairness |

Three lines are one to cancel, one that runs meanwhile and one that waits; three
messages are drained together or apart; ConsoleProofs removes both bounds for the two invariants.
Fairness: weak fairness of the event loop's steps and of the end of a run
(`QueryTerminates`); none of any key.

### From FileTree to EvalSuite

The library as its readers see it. FileTree is a directory as a function from
paths to contents, with what pathlib does to a path; ArtifactSchema reads a
schema, has the extractor's and the writer's checks and an entity's files;
ArtifactStore, FsTools and SearchIndex are the read tools, `fs_write` and the
search, as operators from files to answers; EvalChecks the cases and checks.
EvalSuite puts them in motion: an ingestion accepts extractions, writes entities
(with the directories a crash leaves) and the sidecar, while a suite runs its
cases, each in a session of its own, whose model makes any of the calls it may
make; the index is the one the harness opened.

| Run | Question | Bounds |
|---|---|---|
| `eval_suite` | What may the writer refuse of what the extractor accepted; is what is listed whole, what is shown readable, where does a hit lead; does coverage see what was read; is a verdict about its own case? | 2 cases, 2 calls in a suite, a handful of extractions, calls, citations and answers, small caps so that each is reached |

Two cases are enough for a trace of the first to reach the second. The
extractions are one of a MapReduceExtractor, which collects and cuts, and single-shot
ones, which do not; some are accepted by the extractor's check alone. One file is
longer than a read, one is a symbolic link out of its root, and one command line
runs every check that a verdict is claimed for with a profile that can pass it.

## Limits of what holds

The models have these behaviours, or they were met while modelling; the
properties are stated so that they are true beside them.

The loop and its sessions:

- The second time the error streak is at the threshold the loop aborts, also when
  no call has failed since the nudge (a turn of pseudo-tools): `loop.py:402`. Its
  comment ("If errors keep coming after the nudge") and the walk-through in
  docs/guardrails.html, where `save_note` clears the streak, say otherwise.
- Calls behind `stop` or `request_clarification` in one reply are never answered,
  and the next query sends them to the provider (`loop.py:370`).
- Steering that was accepted may be folded into a summary before the model has
  seen it: compaction runs between the drain and the prompt (`loop.py:222`).
- A result is truncated before `after_tool_call` hooks see it, so that a pattern
  cut at the limit is not redacted (`loop.py:678`).
- A `before_tool_call` hook that rewrites arguments shows in the event, not in
  the history.
- The read cache is not invalidated by a write or an edit (`parallel.py:74`).
- A truncated list may be longer than the limit by the blanks of its separators
  and a dict by the names of the keys it lost. A string is cut by its characters
  while its JSON form is measured (`truncation.py:55`): its escapes come on top, so
  that what is left may be twelve times the limit, or longer than the string was.
- A rebuilt history has other results than the live one where truncating is not
  idempotent, no signatures, and an oracle that was refused as armed. A Gemini model
  that wants its signatures back misses them in a resumed session: `RepliesEchoed`
  is about the turns of one process.
- A transform hook that fails uses up a sequence number, and the next run gives
  one out twice (`agent.py:358`): SessionCatalog has no failing hooks.
- After an append that raised, `save()` may append an event twice
  (`agent.py:530`): `LogOrdered` is about logs without one.
- An append that breaks off, because the process dies or the disk is full, leaves
  a text without a newline, which nothing repairs (`store.py:183`). The next event
  appended, though yielded, stands on that line, and the log is unreadable: it
  cannot be resumed or imported whole, and `session show` of it ends in an
  uncaught error. The docstring (`store.py:177`) says that at most the in-flight
  event is lost; `SeenIsDurable` states what is true.
- An import of a torn log without a sidecar fails and leaves its copy, which is
  never listed and stands in the way of importing again.
- A replay after a cancelled call may serve a later round's result to it, and
  steering behind a round's first reply is placed too early (`replay.py:286`).
- `/exit` waits for a running query (`chat.py:453`), where docs/guide/usage.md
  has the prompt leave.
- Steering typed at a run that ends before its next drain is taken by the next
  query's run, where the comment at `chat.py:329` and docs/guide/usage.md:767
  say it steers the run in flight. Of messages drained together, those behind
  the point where a run is cancelled or fails are lost (`loop.py:209`).
- A line such as `see [/usr/bin]`, or a failed run whose error holds one, cannot
  be printed as Rich markup. The consumer ends: no later line is served, and the
  error is raised as the user leaves (`chat.py:442`, `chat.py:503`; the comment
  there says the REPL must survive any harness error). `LinesServed` stops there.
- The server resumes every session with the profile "full".

Tools:

- Gemini is sent a schema without `$defs` but with the `$ref`s into it
  (`adapters/base.py:270`): the arguments of a nested Pydantic model are lost, where
  the docstring there says that tools stay portable. `ToolsAsOffered` leaves these
  arguments out for Gemini.
- JSON Schema's "number" refuses an integer argument which the function would
  take, and a bool passes for an integer.
- An annotation Pydantic has no schema for raises Pydantic's own error and not
  `ToolDefinitionError` (`tools/base.py`, outside the `try`).
- A skill's `tools_required` is checked against the whole registry, while the
  profile of a session may hide the tool: the bundled ClarifyWhenAmbiguous and
  the profile "eval" do.
- `resolve_entity` and `_walk_entities` assume a template without literal
  segments. For a template of one key `list_versions` also names `.staging` and
  `.trash`, and `grep_artifact` searches them.
- The index names an entity by the values in the order of the sorted keys, which
  need not be its path. A crash between the renames leaves an entry whose entity
  is only in `.trash`.
- `fs_ls`, `fs_glob` and `fs_grep` say "truncated" when there are exactly as many
  answers as the cap. `fs_grep` with extensions of its own finds files `fs_read`
  refuses, and `.env` has no suffix to match.
- A symbolic link that leads out of its root is listed, matched and searched by
  `fs_ls`, `fs_glob` and `fs_grep`, whose walks take it for a file, while `fs_read`
  and `fs_write` refuse it (`tools/fs/store.py:195`). `ShownIsReadable` leaves those
  links out.

Ingestion and evaluation:

- Under `dead_letter` an event takes its number before its letter is filed, so
  another source's event may overtake it (`pipeline.py:320`); the docstring at
  `pipeline.py:435` ("Monotonic event sequence") has it otherwise.
- Three overlapping calls of `write_entity` can leave the newest version in
  `.trash` and an older one in the directory: A moves v1 aside, B promotes v2,
  A's promotion fails, B's next call moves v2 aside, A restores v1, and B's
  promotion fails (`writer.py:101`). `LatestKept` says no more than that v2 is
  still there. Between its two renames a reader finds no directory at all.
- An index whose update failed never catches up: the re-run skips the source by
  its manifest (`pipeline.py:234`).
- An index that cannot be read, is no JSON or no list, is taken for an empty one
  and replaced by the one entry of the update, without a word (`bm25.py:72`); the
  module's docstring has it that no entry is lost. The other sources are skipped by
  their manifests from then on.
- A thread orphaned by a cancelled run updates the index without the lock and
  may undo a later update; one of an older prompt may overwrite an entity, and
  one that files a letter replaces that of a later run. `EntitiesCurrent`,
  `ReportAccounts` and `IndexKept` are checked without such threads, and proved
  without those that do the harm in question.
- A map answer that cannot be stored fails its window, though it is billed and
  usable, and the re-run pays for it again (`extractor.py:866`); the class's
  docstring and `map_cache_put` speak of a crash in the middle of a write only.
- `LLMExtractor` accepts sections longer than the schema allows, and sections
  that are no strings (`extractor.py:443`); both are refused by the writer
  (`writer.py:150`), after the bill. Only the map-reduce extractor drops and cuts
  them. Neither looks at names: identifiers with a separator, or `summary` beside
  `summary/x`, are refused by the writer, too. `AcceptedIsWritable` says that
  there is no further reason.
- A JSON artifact the schema does not declare may hold a list, which
  `get_json_field` refuses to read (`json_field.py:50`).
- The coverage check counts failed calls as retrieval, and misses a grep without
  a scope and paths not in normal form. Two citations whose locators are 1 and
  "1" have one id.
- A case that raised and has no failing check counts as passed, and one over its
  token budget without a final answer passes that check. An exception of a check
  or of `harness.session()` ends the suite; a malformed cases file raises
  `YAMLError` uncaught.

## What is proved

For every value of the constants, from the named assumptions of the modules
(`SettingsAssumption` and `ModelAssumption`, `WritersAssumption`,
`CatalogAssumption`, `ArtifactAssumption`, `PipelineAssumption`,
`ExtractorAssumption` and `WindowsAssumption`, `ToolAssumption`,
`ReplayAssumption` and `WireAssumption`), which TLC evaluates in the runs as well. They fix types and
say what the code has by its nature: limits are positive, a batch of documents
is finite, a known tool names a file, a reply without calls is an answer
(`loop.py:283`), no answer is the absence of one. The inductive invariants were
checked with TLC on the runs before they were proved.

What a loop over data computes is proved by induction too. The library's
induction theorems take the statement as an operator, which the provers cannot
instantiate, but its theorem on well-founded relations (`WFMin`) speaks of sets:
`Least` takes from it that a set of numbers has a least element, and `UpTo` that a
set with 0 and with the successor of each member up to n has them all, which is
cited with the set of those steps a statement holds for. Loops are written as
recursive functions for this, and `Recursion` shows once that such a function
exists, from which what defines it follows.

**AgentLoopProofs.** `TypeCorrect`: types, strengthened where the code takes the
head of a sequence: a pseudo-tool is handled only while its call is at hand, a
batch executed only while it holds a call. The lemmas say what compaction, the
nudge and the notes' cap do to a sequence. `LatchCorrect`: the G4 latch is never
set without a streak at the threshold; the invariant is inductive with
`TypeOK`, because the counter and the latch are reset together. `BudgetCorrect`:
`IterationBudget` only speaks of the call, so `BudgetInv` carries the bound
through every place of a running query. `TerminalCorrect`: exactly one terminal
event at the end and none before; inductive with `TypeOK`.

`AnswersOrdered`, `PromptsAnswered`, `NudgedOnce` and `OrphansAccounted` rest on
one invariant, `LoopInv`. None of the four is inductive: the history alone does
not say which calls are still to come. `Sound` therefore speaks of a history
together with the calls left to dispatch (`Todo`, the batch and what is behind
it), an id no call has reached yet (`Front`) and the latch. What has been
answered lies below what is left (`TodoAhead`), the turn that asked for it has
nothing but tool turns behind it (`AskedLast`), a tool turn stands behind its
calls or behind a summary (`ToolsInPlace`), and between two nudges a tool has
succeeded or a call was lost (`NudgesApart`); `Owed` is that a call of the
running query is answered or left. There is a lemma for every way a history
changes: a plain turn, a nudge, a reply, an answer, a call that is dropped, and
compaction (`ShortenedTurn`, over `CompactedShape`, which says of every tier that
it keeps a suffix behind at most one summary). `SteeringKept` has an invariant of
its own: each message is in exactly one of the queue, the drained ones and the
accepted ones, or lost, and only a run that is delivering holds drained ones. With
it, `Accepted` follows the accepted ones through the history: they rise there as they
were sent, so what compaction folds into the summary (`AcceptedShortened`) is always
the oldest of them.

**SessionLogProofs.** `TypeCorrect`. `SeenCorrect`, under every fault: the file
only grows (`Extended`), every text without a newline is one whose append is known
to have broken off (`BreaksKnown`), and an event is appended in the step that
yields it (`LogDurable`, `NewOnLine`). `OrderCorrect`, appends that died included:
`LogOrdered` is not inductive, since a writer may hold events it has not
appended yet. `OrderInv` adds that these are the writer's own, newer than all the
log has of it and in order (`OwnAndNewer`), that a writer which saves as it goes
has none (`NoneBehind`), and that the log's events were made (`Bounded`).
`LinesGrown` and `TornGrown` describe every way the file can grow by one
relation, `Grown`, from which `GrownOrdered` concludes.

**SessionCatalogProofs.** `LogsSelfContained`, `ParentsKept` and `ViewsCorrect`,
for any number of processes, ids and events, with kills, torn appends and every
overlap of hosts and commands. None is inductive. `Placed` says that a live
Session is alone with its id and remembers what its log holds, and that no
bundle carries the id of a Session which has not been asked yet, so that an
import never comes under one; `NothingLeft` that an id without a log has no
sidecar either. `AllOwn` then carries the numbering through bundles and prefixes
(`AppendOwn`, `CopiedOwn`, `CutsInside`), and `AllTold` the parent through the
sidecars, the live Sessions and what pending commands have read. One proof step
per action keeps all five parts. For the views, `CountInv` adds that a sidecar
counts its log unless a run is ahead of it or the session is in doubt
(`FilesCount`), and that what a pending title or import will write counts it too,
beside which nobody asks (`HeldCount`); that a typed id stands for one session is
the injectivity of the names and the rule of the exact match.

`ReadersCorrect` is all of `ReadersExact`, for every log and every directory. The
rounds of `session show` are taken along the events: one event begins a round or
continues the last (`Begun`, `Continued`), earlier rounds stay what they were
(`RoundStays`), and a fork shows the rounds its log had by then (`RoundsCopied`).
That the fork tree shows every session once, whatever the sidecars say of
parents, is an invariant of the order in which `tree.py` attaches them: no set of
sessions is closed in itself (`Rooted`). `AttachRooted` keeps it, since an edge
that would close a cycle is skipped, and it gives each session one root and one
way up to it (`OneRoot`, `AboveChain`).

**ArtifactWriterProofs.** `IInv` is the inductive invariant for any number of
writers: versions are numbered by calls (`Numbered`, `Distinct`), what a call has
not promoted is nowhere to be seen (`Unseen`), and a call drops from the trash
only what is not the latest version (`TrashHeld`). `RaisedCorrect` and
`LatestCorrect` follow, with crashes and failing restores. `LoneWriterImplements`
proves the refinement of `AtomicEntity` for one writer: `Alone` ties the place of
the call to what the directory and the trash hold, `LoneMapping` removes the
CHOOSE from the mapping, and `LoneStep` shows that every step begins, commits or
fails one abstract write, or shows nothing.

**IngestionPipelineProofs.** For any number of sources, workers, runs and
prompts. `EventsInOrder` holds in every policy and with threads left over: the
order of the yielded numbers is not inductive, so `WaitInOrder` says that the
ended tasks the consumer has not come to stand in the order in which they took
their numbers, all above what was yielded. A thread that outlives its cancelled
worker may store the outcome of an old prompt, file a letter into a later run's
directory, or write back an index it read before others changed it, and each of
three properties is false because of one of these. So each theorem has the
premise that excludes its own: `IngestedIsCurrent` that no such thread stores for
an older prompt (`[]NoneStale`), `ReportAddsUp` that none files (`[]NoneFiling`),
`NoEntryLost` that none is at the index (`[]NoneIndexing`). What holds without any
premise is stated beside them: `SamePromptIsCurrent` where the prompt does not
change, since what is left over then stores what is current, and `ReportSumsUp`
for the counts. `NoThreadLeft` gives all premises at once for a pipeline that does
not raise, files its letters and is read to its end, crashes included;
`ingest_reruns` is one. `StoredIsCurrent` says that a worker behind its write
finds its entity current although another source may have replaced it since;
`CountsInv` that the counters are the sizes of the sets of tasks that are done or
filing, `LettersFiled` that a failure has a letter where its own belongs; and
`IndexHeld` that who has read the index holds the lock, and that his copy is the
index, or empty where the read failed. `NoEntryLost` therefore names the two ways in
which an entry changes: by an entry of its own entity that is not older, or with all
others through an update that could not read the index.

**MapReduceProofs.** `TallyCorrect`, for any documents, answers and faults: the
tally and the calls are started and billed together. `NeverPartial` is all of
`NoPartialResult`. Its windows need `Excused`, which follows the abort flag: it is
only raised with a failed window, a window is only skipped behind it, so that a
run without a failed window has all its answers when it goes on to reduce.
`GotoExcused` and `ForgetExcused` say this of a call that moves and of a run that
is given up; the actions are cases of these two. Its sections need `SectionsInv`:
no section is touched before every window is mapped, after that no fragment
changes, and a section that has its answer was made of them. Its pages need
`ChunkedWhole`, that packing is lossless whatever the limit: after each page the
windows and the buffer together hold what is not blank of the pages so far. Such
facts about a loop are proved by induction on the elements passed (see above).
`PaidCorrect`
counts: two windows of one text may both have missed the cache, so `PaidInv` adds
the answers on their way (`OnTheWay`) to those paid and not lost, and says that as
long as the cache lacks a text every answer paid for it has been lost. `FewerInHand`
is what a call that leaves does to the sum, and a lost answer changes nothing in it.

**ReplayProofs.** `NoneOvertaken`: no call of a batch sees a write of a call
behind it or misses one of a call before it, whatever mixture of tools the reply
asks for and whatever fails. The property speaks of what single calls saw; what
carries it is a sum, `VersionsAdd`: a file nobody else has changed has the
version it had as the batch began and one more for each write of the batch that
is over. The sum is the right one for a call that ends because either the batch
has readers only (`ReadsAlone`, which needs the batch to be judged by all the
real calls of a reply) or the calls before it are over and those behind it
waiting (`OneByOne`). `Shaped` says that the batch is cut out of the reply at
the position the loop has reached (`GroupIsNext`).

`ResultsNamed`: Gemini's adapter looks a result's tool up by an id which another
process may have given out before. Every id carries its tool (`SoundCalls`), and
every tool turn stands behind a call turn of its id (`AskedFirst`). `Resume` puts
a rebuilt history in the place of the live one, so that the second has to hold
of what `Rebuilt` makes of any log: it is shown of a call, of a turn's calls, of a
round's turns and of the rounds (`RebuiltCallWell` to `RebuiltWell`).

`HistoryRebuilt` is `RebuiltHistory`, which speaks of the moments between two
rounds; `LiveInv` says what the log is rebuilt to at every other. A log is
*whole* but for the calls that wait for their results if every other real call
has one, the results come in the order of their calls, turns go up in a round and
no call is behind what ended it (`Whole`; a lemma for each kind of event that is
added). In a whole log the results served so far are those of the calls passed,
so the next call is served its own, although results are found by tool and
arguments only (`ServedAnswer`, `CallsTold`). As a log grows it is rebuilt alike
up to its last round (`AddQuery`, `AddSteer`) and in there up to its last turn
(`AddTurn`). While a turn is in the works, what was logged before it is whole, its
calls are logged in the order of the reply, and the live history is a chain of
the answers so far on what the log before it is rebuilt to (`Turning`, `Owed`,
`Chain`); every announcement and every answer keeps this (`Announced`, `Answered`),
and behind the last answer the chain is what the whole log is rebuilt to
(`Closed`). A chain has the values a rebuild gives the answers
(`Again`), and what the live turns become in it is `Recalled`, which grows with the
history by what `Retold` makes of each new turn (`RecalledAdds`). `exact` has to be a
premise: a call that was announced and then cancelled leaves the log without its
result for good.

`ResultsBounded` and `ProvidersHeard` are about the operators of Truncation and
Adapters, for any limit, any result and any response. A string over the limit
keeps as many characters as the limit has room for, each of the width of the
widest at most (`Shortened`, `TotalAdds`). While a dict is cut, what is kept never outgrows the limit, whichever values fit, are cut or are dropped
(`TakeFits`, `DictFits`); a list's prefix is within it by its sum.
A response's parts are kept in order (`PartsKept`) and each call comes back as it
was (`CallEchoed`).

**ConsoleProofs.** `CtrlCHitsItsRun` and `SteeringNeverLost`, for any number of
lines and messages. The first is inductive but for leaving: `StopsBehindPrompt`
says that nothing but leaving stops the consumer. The second is not: a run that
drains the queue must be the last one started, and younger than all that took
something before, and the run a message was typed at over by the time another
takes it. `InTurn` says that the waiting lines are the last ones entered and the
current run that of the line before them, `Settled` that every line before that
has come to its end, `Numbered` and `TakenInTurn` that a message is at the place
of its number over the four queues it passes and that takers do not get older,
`Draining` that what is being drained stands behind a message the same run has
appended; `InARow` puts the queues together again.

The three `TypeCorrect`, `PipelineTypes`, `LatchCorrect`, `BudgetCorrect`,
`NoThreadLeft` and `ReportSumsUp` state nothing a run checks by that name: the
types are what the other proofs rest on, `NoThreadLeft` is the premise of three
theorems, and the rest say more for every bound than a run could.

**Only model-checked.**

- Liveness (`QueryTerminates`, `RunEnds`, `LinesServed`): a proof from fairness
  needs ENABLED, which the prover does not have.
- `ToolsAsOffered` is evaluated for bounded inputs: a schema is a tree of any
  depth, and the operators on it are recursive, which the prover takes nothing of.
- The properties of EvalSuite: what its caps, citations and checks make of a
  sequence are folds and selections of the community modules, which would have to
  be recursive functions to be proved about.

## What is not modelled

- Wording, token counts, prices, prompt assembly, scores and snippets.
- The providers' clients; the bundled plugins' own logic; loaders.
- HTTP framing, authentication and terminal output; `reigner inspect`, `init`
  and `ingest`, which print, parse and write templates; configuration.
- What plugins' hooks return, beyond failing.
- `to_json_schema` of the artifact schema, which nothing in `src/` calls, and
  the rendering of an evaluation's report.

Most of these are text or I/O without state that another component reads; a
model of them would repeat the code.

## Plan

1. Orphaned threads of a raised run together with the runs that follow, with a
   weaker promise about the index and the entities, checked and proved.
2. What hooks return: a rewritten query or result, and redaction over truncated
   text.
