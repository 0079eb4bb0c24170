------------------------- MODULE IngestionPipeline -------------------------
(***************************************************************************)
(* IngestionPipeline of ingestion/pipeline.py: one worker task per source, *)
(* a semaphore, the skip of sources already ingested, the three error      *)
(* policies, and two writers behind each other: the artifact writer, whose *)
(* manifest the skip reads, and the BM25 index of writers/bm25.py.         *)
(*                                                                         *)
(* Workers are tasks of one event loop and interleave where they await;    *)
(* what runs in a thread (storing an entity, updating the index, filing a  *)
(* dead letter) cannot be stopped: cancelling its worker leaves it running *)
(* on its own, as an orphan.  write_entity is a single step here, with the *)
(* outcomes ArtifactWriter gives a call that no two others of its entity   *)
(* overlap.                                                                *)
(*                                                                         *)
(* The siblings no action uses (LockFreely, ...) are forms a plausible bug *)
(* would give a definition, for checking the properties.                   *)
(***************************************************************************)
EXTENDS Integers, Sequences, FiniteSets

CONSTANTS
  NumSources,   \* files found under the source directory, in sorted order
  EntityOf,     \* the entity each source's identifiers name
  LetterOf,     \* the dead-letter directory of each source: source_id_fn
  Concurrency,  \* the semaphore's size
  Policies,     \* on_error: "raise", "skip" or "dead_letter"
  Faults,       \* "load", "transform", "entity", "index", "letter": that step
                \* fails; "unreadable": the index cannot be read; "abandon":
                \* the consumer stops; "crash"
  MaxRuns,      \* bound of the model: runs of the pipeline
  MaxEditions   \* bound of the model: versions of the prompt or schema

Sources == 1..NumSources
Entities == {EntityOf[s] : s \in Sources}
Letters == {LetterOf[s] : s \in Sources}

ASSUME PipelineAssumption ==
  /\ NumSources \in Nat \ {0} /\ Concurrency \in Nat \ {0}
  /\ DOMAIN EntityOf = Sources /\ DOMAIN LetterOf = Sources
  /\ Policies \subseteq {"raise", "skip", "dead_letter"}
  /\ MaxRuns \in Nat /\ MaxEditions \in Nat \ {0}

VARIABLES
  \* on disk; source 0 stands for nothing there
  entity,     \* what each entity's manifest was extracted from
  index,      \* what each entity's index entry was extracted from
  letters,    \* the source whose error.json each dead-letter directory holds
  \* one run
  run,        \* "idle", "running", or "drained" when the stream ended by itself
  runs,       \* runs so far
  policy, edition,
  worker,     \* where each source's worker is
  lock,       \* the worker that holds the index's lock, 0 if none
  copy,       \* the index as each worker's thread has read it, or none
  finished,   \* ended worker tasks whose events are not yielded yet
  orphans,    \* threads whose worker was cancelled
  \* events and report
  nextSeq, numbered, yielded,
  succeeded, skipped, failed, failures

disk == <<entity, index, letters>>
setup == <<runs, policy, edition>>
stream == <<nextSeq, numbered, yielded>>
report == <<succeeded, skipped, failed, failures>>
vars == <<entity, index, letters, run, runs, policy, edition, worker, lock, copy,
          finished, orphans, nextSeq, numbered, yielded,
          succeeded, skipped, failed, failures>>

(* A cache key: source_hash, and schema_version with prompt_hash.          *)
Key(s, e) == [source |-> s, edition |-> e]
Nothing == Key(0, 0)
Blank == [e \in Entities |-> Nothing]

(* What an update of the index starts from.                                *)
Copy(table, read) == [table |-> table, read |-> read]
NoCopy == Copy(Blank, TRUE)

-----------------------------------------------------------------------------
Init ==
  /\ entity = Blank /\ index = Blank /\ letters = [d \in Letters |-> 0]
  /\ run = "idle" /\ runs = 0 /\ policy = "skip" /\ edition = 1
  /\ worker = [s \in Sources |-> "none"] /\ lock = 0
  /\ copy = [s \in Sources |-> NoCopy] /\ finished = <<>> /\ orphans = {}
  /\ nextSeq = 0 /\ numbered = [s \in Sources |-> 0] /\ yielded = <<>>
  /\ succeeded = 0 /\ skipped = 0 /\ failed = 0 /\ failures = <<>>

(* run_stream, with the same prompt as before or a new one: the sources    *)
(* are discovered, a StatusEvent says so, and every source gets a task.    *)
StartRun(p, e) ==
  /\ run # "running" /\ runs < MaxRuns
  /\ runs' = runs + 1 /\ policy' = p /\ edition' = e
  /\ run' = "running"
  /\ worker' = [s \in Sources |-> "queued"]
  /\ nextSeq' = 1 /\ yielded' = <<0>> /\ numbered' = [s \in Sources |-> 0]
  /\ succeeded' = 0 /\ skipped' = 0 /\ failed' = 0 /\ failures' = <<>>
  /\ UNCHANGED <<disk, lock, copy, finished, orphans>>

-----------------------------------------------------------------------------
(* _process_source, from one await to the next.                            *)

Active(s) == worker[s] \notin {"none", "queued", "done", "raised"}
Goto(s, place) == worker' = [worker EXCEPT ![s] = place]
At(s, place) == run = "running" /\ worker[s] = place

(* The task ends: its events wait for the consumer.                        *)
FinishFirst(s, place) == Goto(s, place) /\ finished' = <<s>> \o finished
Finish(s, place) == Goto(s, place) /\ finished' = Append(finished, s)
Number(s) == nextSeq' = nextSeq + 1 /\ numbered' = [numbered EXCEPT ![s] = nextSeq]

(* The semaphore lets the workers in in the order of their tasks.          *)
Enter(s) ==
  /\ At(s, "queued") /\ \A t \in 1..(s - 1) : worker[t] # "queued"
  /\ Cardinality({t \in Sources : Active(t)}) < Concurrency
  /\ Goto(s, "loading")
  /\ UNCHANGED <<disk, run, setup, lock, copy, finished, orphans, stream, report>>

(* _is_already_extracted compares the manifest's key with the transform's. *)
IngestedAnyhow(s) == entity[EntityOf[s]].source = s
Ingested(s) == entity[EntityOf[s]] = Key(s, edition)

Load(s) ==
  /\ At(s, "loading")
  /\ \/ /\ Ingested(s)
        /\ skipped' = skipped + 1 /\ Number(s) /\ Finish(s, "done")
     \/ ~Ingested(s) /\ Goto(s, "transforming") /\ UNCHANGED <<skipped, finished, nextSeq, numbered>>
  /\ UNCHANGED <<disk, run, setup, lock, copy, orphans, yielded, succeeded, failed, failures>>

Transform(s) ==
  /\ At(s, "transforming") /\ Goto(s, "storing")
  /\ UNCHANGED <<disk, run, setup, lock, copy, finished, orphans, stream, report>>

(* write_entity, in a thread.                                              *)
Stored(s, e) == entity' = [entity EXCEPT ![EntityOf[s]] = Key(s, e)]
Store(s) ==
  /\ At(s, "storing") /\ Stored(s, edition) /\ Goto(s, "locking")
  /\ UNCHANGED <<index, letters, run, setup, lock, copy, finished, orphans, stream, report>>

(* Bm25IndexWriter.write: under the lock a thread reads the index, puts    *)
(* the entry in, and replaces the file at once.  An index that cannot be   *)
(* read, or is no JSON list, passes for an empty one.                      *)
LockFreely(s) == At(s, "locking") /\ lock' = s
LockIndex(s) == At(s, "locking") /\ lock = 0 /\ lock' = s

Lock(s) ==
  /\ LockIndex(s) /\ Goto(s, "reading")
  /\ UNCHANGED <<disk, run, setup, copy, finished, orphans, stream, report>>

ReadExisting == {Copy(index, TRUE)} \cup {Copy(Blank, FALSE) : f \in Faults \cap {"unreadable"}}

Read(s) ==
  /\ At(s, "reading") /\ Goto(s, "replacing")
  /\ \E c \in ReadExisting : copy' = [copy EXCEPT ![s] = c]
  /\ UNCHANGED <<disk, run, setup, lock, finished, orphans, stream, report>>

Upserted(table, s, e) == index' = [table EXCEPT ![EntityOf[s]] = Key(s, e)]
Release(s) == lock' = 0 /\ copy' = [copy EXCEPT ![s] = NoCopy]

(* The last writer is through: the source has succeeded.                   *)
Replace(s) ==
  /\ At(s, "replacing") /\ Upserted(copy[s].table, s, edition) /\ Release(s)
  /\ succeeded' = succeeded + 1 /\ Number(s) /\ Finish(s, "done")
  /\ UNCHANGED <<entity, letters, run, setup, orphans, yielded, skipped, failed, failures>>

-----------------------------------------------------------------------------
(* Failures.                                                               *)

(* What failed, by the place the worker is at.  At "reading" it is what is *)
(* not swallowed: the file is no UTF-8, or its entries are no objects.     *)
MayFail(s) ==
  \/ At(s, "loading") /\ "load" \in Faults
  \/ At(s, "transforming") /\ "transform" \in Faults
  \/ At(s, "storing") /\ "entity" \in Faults
  \/ (At(s, "reading") \/ At(s, "replacing")) /\ "index" \in Faults

LeaveLocked(s) == UNCHANGED <<lock, copy>>
Unlock(s) == IF lock = s THEN Release(s) ELSE UNCHANGED <<lock, copy>>

(* _handle_failure: the error is raised again, or becomes an ErrorEvent    *)
(* and, under dead_letter, a thread's letter before it is in the report.   *)
Raise(s) ==
  /\ MayFail(s) /\ policy = "raise"
  /\ Unlock(s) /\ Finish(s, "raised")
  /\ UNCHANGED <<disk, run, setup, orphans, stream, report>>

SkipCounting(s, count) ==
  /\ MayFail(s) /\ policy = "skip"
  /\ Unlock(s) /\ Number(s) /\ failed' = count
  /\ failures' = Append(failures, s) /\ Finish(s, "done")
  /\ UNCHANGED <<disk, run, setup, orphans, yielded, succeeded, skipped>>

SkipUncounted(s) == SkipCounting(s, failed)
Skip(s) == SkipCounting(s, failed + 1)

Divert(s) ==
  /\ MayFail(s) /\ policy = "dead_letter"
  /\ Unlock(s) /\ Number(s) /\ failed' = failed + 1
  /\ Goto(s, "filing")
  /\ UNCHANGED <<disk, run, setup, finished, orphans, yielded, succeeded, skipped, failures>>

Filed(s) == letters' = [letters EXCEPT ![LetterOf[s]] = s]
File(s) ==
  /\ At(s, "filing") /\ Filed(s)
  /\ failures' = Append(failures, s) /\ Finish(s, "done")
  /\ UNCHANGED <<entity, index, run, setup, lock, copy, orphans, stream, succeeded, skipped, failed>>

(* An error of the letter itself is not handled: it ends the run.          *)
FileFails(s) ==
  /\ At(s, "filing") /\ "letter" \in Faults /\ Finish(s, "raised")
  /\ UNCHANGED <<disk, run, setup, lock, copy, orphans, stream, report>>

-----------------------------------------------------------------------------
(* The stream.                                                             *)

(* The threads the workers are waiting for.                                *)
Jobs == {[source |-> s, edition |-> edition, doing |-> worker[s], copy |-> copy[s]] :
           s \in {t \in Sources : worker[t] \in {"storing", "reading", "replacing", "filing"}}}

Reset ==
  /\ run' = "idle" /\ worker' = [s \in Sources |-> "none"] /\ finished' = <<>>
  /\ lock' = 0 /\ copy' = [s \in Sources |-> NoCopy]

(* Every worker still at work is cancelled; its lock is released and its   *)
(* thread runs on.                                                         *)
Cancel == Reset /\ orphans' = orphans \cup Jobs

(* The next task to have ended: its events are yielded, or it raised.      *)
Collect ==
  /\ run = "running" /\ finished # <<>> /\ worker[Head(finished)] = "done"
  /\ yielded' = Append(yielded, numbered[Head(finished)])
  /\ finished' = Tail(finished)
  /\ UNCHANGED <<disk, run, setup, worker, lock, copy, orphans, nextSeq, numbered, report>>

Propagate ==
  /\ run = "running" /\ finished # <<>> /\ worker[Head(finished)] = "raised"
  /\ Cancel
  /\ UNCHANGED <<disk, setup, stream, report>>

MayDrain ==
  run = "running" /\ finished = <<>> /\ \A s \in Sources : worker[s] = "done"

Drain ==
  /\ MayDrain
  /\ run' = "drained" /\ worker' = [s \in Sources |-> "none"]
  /\ yielded' = Append(yielded, nextSeq) /\ nextSeq' = nextSeq + 1
  /\ UNCHANGED <<disk, setup, lock, copy, finished, orphans, numbered, report>>

Abandon ==
  /\ run = "running" /\ "abandon" \in Faults /\ Cancel
  /\ UNCHANGED <<disk, setup, stream, report>>

(* The process dies, and with it every thread: between the two renames of  *)
(* write_entity the entity has no directory.                               *)
Crash ==
  /\ "crash" \in Faults /\ (run = "running" \/ orphans # {})
  /\ Reset /\ orphans' = {}
  /\ \E gone \in SUBSET {EntityOf[j.source] : j \in {k \in Jobs \cup orphans : k.doing = "storing"}} :
       entity' = [e \in Entities |-> IF e \in gone THEN Nothing ELSE entity[e]]
  /\ UNCHANGED <<index, letters, setup, stream, report>>

(* A thread nobody waits for goes on: its result is dropped.               *)
OrphanEnds(o) ==
  /\ o \in orphans
  /\ \/ o.doing = "storing" /\ Stored(o.source, o.edition) /\ UNCHANGED <<index, letters>>
     \/ o.doing = "replacing" /\ Upserted(o.copy.table, o.source, o.edition) /\ UNCHANGED <<entity, letters>>
     \/ o.doing = "filing" /\ Filed(o.source) /\ UNCHANGED <<entity, index>>
  /\ orphans' = orphans \ {o}
  /\ UNCHANGED <<run, setup, worker, lock, copy, finished, stream, report>>

OrphanReads(o) ==
  /\ o \in orphans /\ o.doing = "reading"
  /\ \E c \in ReadExisting :
       orphans' = (orphans \ {o}) \cup {[o EXCEPT !.doing = "replacing", !.copy = c]}
  /\ UNCHANGED <<disk, run, setup, worker, lock, copy, finished, stream, report>>

Quiet == run # "running" /\ runs = MaxRuns /\ orphans = {} /\ UNCHANGED vars

Work(s) ==
  \/ Enter(s) \/ Load(s) \/ Transform(s) \/ Store(s) \/ Lock(s) \/ Read(s) \/ Replace(s)
  \/ Raise(s) \/ Skip(s) \/ Divert(s) \/ File(s) \/ FileFails(s)

RunStep == (\E s \in Sources : Work(s)) \/ Collect \/ Propagate \/ Drain

Next ==
  \/ RunStep \/ Abandon \/ Crash \/ Quiet
  \/ \E p \in Policies, e \in edition..MaxEditions : StartRun(p, e)
  \/ \E o \in orphans : OrphanEnds(o) \/ OrphanReads(o)

Spec == Init /\ [][Next]_vars

(* Loaders, model and threads come back, and the consumer keeps iterating. *)
FairSpec == Spec /\ WF_vars(RunStep)

-----------------------------------------------------------------------------
(* Properties.                                                             *)

Failed(s) == \E k \in DOMAIN failures : failures[k] = s

(* When a stream has ended by itself, every source the report does not     *)
(* list as failed is ingested in the current edition: its entity was       *)
(* extracted from it, or from another source of that entity, whatever      *)
(* earlier runs, crashes and cancelled runs left on the disk.              *)
EntitiesCurrent ==
  run = "drained" =>
    \A s \in Sources :
      Failed(s) \/ \E t \in Sources :
        EntityOf[t] = EntityOf[s] /\ entity[EntityOf[s]] = Key(t, edition)

(* The report of a stream that ended by itself adds up, and under          *)
(* dead_letter the directory of each failed source holds a letter of this  *)
(* run, its own or that of another source with the same directory.         *)
ReportAccounts ==
  run = "drained" =>
    /\ succeeded + skipped + failed = NumSources /\ failed = Len(failures)
    /\ policy = "dead_letter" =>
         \A s \in Sources : Failed(s) => Failed(letters[LetterOf[s]])

(* "multiple pipeline workers can update the same sidecar ... without      *)
(* losing entries" (bm25.py): an entry is only ever replaced, by one of    *)
(* its own entity that is not older - or lost with all others to an update *)
(* that could not read the index, of which nobody is told.                 *)
Superseded(e) ==
  /\ index'[e].edition >= index[e].edition
  /\ \E s \in Sources : EntityOf[s] = e /\ index'[e].source = s
LostUnread(e) ==
  /\ index'[e] = Nothing
  /\ \E s \in Sources : worker[s] = "replacing" /\ ~copy[s].read /\ EntityOf[s] # e

IndexKept ==
  [][\A e \in Entities : index'[e] # index[e] => Superseded(e) \/ LostUnread(e)]_vars

(* The events come in the order of their numbers (test_pipeline.py,        *)
(* "monotonic").                                                           *)
SeqInOrder == \A i, j \in DOMAIN yielded : i < j => yielded[i] < yielded[j]

(* They do unless a letter is filed between the number and the yield.      *)
SeqInOrderUnfiled == policy # "dead_letter" => SeqInOrder

(* Every run ends: with a report, an exception, or its consumer.           *)
RunEnds == run = "running" ~> run # "running"
=============================================================================
