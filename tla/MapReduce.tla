----------------------------- MODULE MapReduce -----------------------------
(***************************************************************************)
(* MapReduceExtractor and LLMExtractor of ingestion/extractor.py: a        *)
(* document's pages are packed into windows, each window is mapped by a    *)
(* model call or found in the chunk cache, the fragments of every section  *)
(* are reduced, and the result is validated.  The pipeline runs several    *)
(* documents at once with one extractor object.                            *)
(*                                                                         *)
(* A page is [text, chars]: two pages of one text are equal.  What a map   *)
(* call answers is the set of names it gives a non-blank content.  Tasks   *)
(* interleave where they wait for the model; the cache is read and written *)
(* without a wait, but storing an answer may fail, and the process may die *)
(* before it, when the answer is already billed.                           *)
(*                                                                         *)
(* The siblings no action uses (TallyShared, ...) are forms a plausible    *)
(* bug would give a definition, for checking the properties.               *)
(***************************************************************************)
EXTENDS Integers, Sequences, FiniteSets, SequencesExt

CONSTANTS
  Docs,         \* documents the pipeline extracts side by side
  Pages,        \* the pages of each document, blank ones of no characters
  Sections,     \* the schema's named sections
  Required,     \* those a result may not lack
  Answers,      \* what a map call may answer: sets of names, invented ones too
  ChunkChars, ReduceChars, MaxChars,
  FragmentChars,   \* length of a fragment
  Concurrency,  \* map_concurrency
  MaxRetries,
  Caching,      \* map_cache_dir is set: it is not by default
  Faults,       \* "transient", "adapter": a call raises; "garbled": its answer
                \* is no JSON object; "disk": an answer cannot be stored;
                \* "damage": a cache entry becomes unreadable; "crash"
  MaxRuns       \* bound of the model: runs of all the documents

Page == [text : STRING, chars : Nat]

ASSUME ExtractorAssumption ==
  /\ Pages \in [Docs -> Seq(Page)] /\ Required \subseteq Sections
  /\ ChunkChars \in Nat \ {0} /\ ReduceChars \in Nat /\ MaxChars \in Nat
  /\ FragmentChars \in Nat \ {0}
  /\ Caching \in BOOLEAN /\ Concurrency \in Nat \ {0} /\ MaxRetries \in Nat /\ MaxRuns \in Nat

VARIABLES
  phase,     \* "idle", "mapping", "reducing", "done" or "failed", by document
  runs,      \* runs so far
  place,     \* where each call of a document is, by window or section
  attempt,   \* attempts that call has made
  aborted,   \* the event that keeps queued windows from calling
  result,    \* what each window was mapped to
  content,   \* the fragments each reduced section was made from
  tally,     \* the run's token tally, in its context
  cache,     \* the chunk cache on disk: what a window was mapped to
  calls,     \* answered calls of the document's run, as the provider bills
  paid,      \* usable map answers the provider gave, by window text
  lost       \* those of them that were not stored, or whose entry is damaged

vars == <<phase, runs, place, attempt, aborted, result, content, tally, cache, calls, paid, lost>>

-----------------------------------------------------------------------------
(* _chunk_pages: pages are packed while the buffer's and the page's length *)
(* fit, and joined with two newlines, which are not counted.               *)

Joined(sep, lengths) ==
  LET total[k \in 0..Len(lengths)] == IF k = 0 THEN 0 ELSE total[k - 1] + lengths[k]
  IN total[Len(lengths)] + sep * (Len(lengths) - 1)
Chars(window) == Joined(2, [k \in DOMAIN window |-> window[k].chars])

Pack(packed, page) ==
  IF page.chars = 0 THEN packed
  ELSE IF packed.buf # <<>> /\ Chars(packed.buf) + page.chars > ChunkChars
  THEN [windows |-> Append(packed.windows, packed.buf), buf |-> <<page>>]
  ELSE [packed EXCEPT !.buf = Append(@, page)]

Chunked(pages) ==
  LET packed[k \in 0..Len(pages)] ==
        IF k = 0 THEN [windows |-> <<>>, buf |-> <<>>] ELSE Pack(packed[k - 1], pages[k])
      last == packed[Len(pages)]
  IN IF last.buf = <<>> THEN last.windows ELSE Append(last.windows, last.buf)

Windows == [d \in Docs |-> Chunked(Pages[d])]
Slots(d) == DOMAIN Windows[d]

(* The cache key covers the window's text; the rendered prompt and the     *)
(* schema version are the same for all here.                               *)
CacheKey(d, i) == Windows[d][i]
CacheKeys == UNION {{CacheKey(d, i) : i \in Slots(d)} : d \in Docs}
Miss == {"miss"}

(* There are only so many documents and windows, no section is called like *)
(* a window's number, and no answer looks like an entry that is not there. *)
ASSUME WindowsAssumption ==
  /\ \A d \in Docs : Sections \cap Slots(d) = {}
  /\ IsFiniteSet(Docs) /\ IsFiniteSet(UNION {Slots(d) : d \in Docs})
  /\ Miss \notin Answers

-----------------------------------------------------------------------------
NoCalls(d) == [s \in Slots(d) \cup Sections |-> "none"]
NoAttempts(d) == [s \in Slots(d) \cup Sections |-> 0]
NoResults(d) == [i \in Slots(d) |-> {}]
NoContent == [n \in Sections |-> <<>>]

Init ==
  /\ phase = [d \in Docs |-> "idle"] /\ runs = 0
  /\ place = [d \in Docs |-> NoCalls(d)]
  /\ attempt = [d \in Docs |-> NoAttempts(d)]
  /\ aborted = [d \in Docs |-> FALSE]
  /\ result = [d \in Docs |-> NoResults(d)]
  /\ content = [d \in Docs |-> NoContent]
  /\ tally = [d \in Docs |-> 0] /\ calls = [d \in Docs |-> 0]
  /\ cache = [k \in CacheKeys |-> Miss]
  /\ paid = [k \in CacheKeys |-> 0] /\ lost = [k \in CacheKeys |-> 0]

Stopped(d) == phase[d] \in {"idle", "done", "failed"}

(* run: the tally is a new object in the run's own context.                *)
TallyShared(d) == tally' = [e \in Docs |-> 0]
TallyFresh(d) == tally' = [tally EXCEPT ![d] = 0]

Run(d) ==
  /\ Stopped(d) /\ runs < MaxRuns /\ runs' = runs + 1
  /\ phase' = [phase EXCEPT ![d] = "mapping"]
  /\ place' = [place EXCEPT ![d] = [s \in DOMAIN @ |-> IF s \in Slots(d) THEN "queued" ELSE "none"]]
  /\ aborted' = [aborted EXCEPT ![d] = FALSE]
  /\ result' = [result EXCEPT ![d] = NoResults(d)]
  /\ content' = [content EXCEPT ![d] = NoContent]
  /\ TallyFresh(d) /\ calls' = [calls EXCEPT ![d] = 0]
  /\ UNCHANGED <<attempt, cache, paid, lost>>

(* The run's locals are gone: with an error, or the process.               *)
Forget(docs) ==
  /\ phase' = [d \in Docs |-> IF d \in docs THEN "failed" ELSE phase[d]]
  /\ place' = [d \in Docs |-> IF d \in docs THEN NoCalls(d) ELSE place[d]]
  /\ attempt' = [d \in Docs |-> IF d \in docs THEN NoAttempts(d) ELSE attempt[d]]
  /\ aborted' = [d \in Docs |-> d \notin docs /\ aborted[d]]
  /\ result' = [d \in Docs |-> IF d \in docs THEN NoResults(d) ELSE result[d]]
  /\ content' = [d \in Docs |-> IF d \in docs THEN NoContent ELSE content[d]]

At(d, s, where) == place[d][s] = where
Goto(d, s, where) == place' = [place EXCEPT ![d][s] = where]
Calling(d) == {s \in DOMAIN place[d] : At(d, s, "calling")}
StartCall(d, s) == Goto(d, s, "calling") /\ attempt' = [attempt EXCEPT ![d][s] = 1]
EndCall(d, s, where) == Goto(d, s, where) /\ attempt' = [attempt EXCEPT ![d][s] = 0]

-----------------------------------------------------------------------------
(* _map.  The semaphore lets the tasks in in the order of the windows; one *)
(* task at a time is what the sequential loop does.                        *)

Admitted(d, i) ==
  /\ phase[d] = "mapping" /\ At(d, i, "queued")
  /\ \A j \in 1..(i - 1) : ~At(d, j, "queued")
  /\ Cardinality(Calling(d)) < Concurrency

(* A sibling has failed: no call is made.                                  *)
SkipWindow(d, i) ==
  /\ Admitted(d, i) /\ aborted[d] /\ Goto(d, i, "skipped")
  /\ UNCHANGED <<phase, runs, attempt, aborted, result, content, tally, cache, calls, paid, lost>>

(* _cached_map_call: an entry that can be read answers at no cost.         *)
Hit(d, i) == cache[CacheKey(d, i)] # Miss

UseCached(d, i) ==
  /\ Admitted(d, i) /\ ~aborted[d] /\ Hit(d, i)
  /\ Goto(d, i, "answered") /\ result' = [result EXCEPT ![d][i] = cache[CacheKey(d, i)]]
  /\ UNCHANGED <<phase, runs, attempt, aborted, content, tally, cache, calls, paid, lost>>

CallWindow(d, i) ==
  /\ Admitted(d, i) /\ ~aborted[d] /\ ~Hit(d, i) /\ StartCall(d, i)
  /\ UNCHANGED <<phase, runs, aborted, result, content, tally, cache, calls, paid, lost>>

-----------------------------------------------------------------------------
(* call_model, for a window or for a section's reduce.                     *)

Bill(d) == calls' = [calls EXCEPT ![d] = @ + 1] /\ tally' = [tally EXCEPT ![d] = @ + 1]

Pay(d, i) == Bill(d) /\ paid' = [paid EXCEPT ![CacheKey(d, i)] = @ + 1]
Lose(d, i) == UNCHANGED cache /\ lost' = [lost EXCEPT ![CacheKey(d, i)] = @ + 1]

(* map_cache_put stores the answer of a successful call.                   *)
PutNothing(d, i, answer) == UNCHANGED cache
Put(d, i, answer) ==
  IF Caching THEN cache' = [cache EXCEPT ![CacheKey(d, i)] = answer] ELSE UNCHANGED cache

AnswerWindow(d, i, answer) ==
  /\ phase[d] = "mapping" /\ At(d, i, "calling")
  /\ Pay(d, i) /\ Put(d, i, answer)
  /\ result' = [result EXCEPT ![d][i] = answer] /\ EndCall(d, i, "answered")
  /\ UNCHANGED <<phase, runs, aborted, content, lost>>

(* A transient error is retried while attempts are left.                   *)
Retry(d, s) ==
  /\ "transient" \in Faults /\ At(d, s, "calling") /\ attempt[d][s] <= MaxRetries
  /\ attempt' = [attempt EXCEPT ![d][s] = @ + 1]
  /\ UNCHANGED <<phase, runs, place, aborted, result, content, tally, cache, calls, paid, lost>>

(* Any other error ends the call: a window's raises the abort flag and is  *)
(* raised again behind its siblings, a section's ends the run.             *)
Failing(d, s) ==
  IF s \in Sections THEN Forget({d})
  ELSE /\ EndCall(d, s, "failed") /\ aborted' = [aborted EXCEPT ![d] = TRUE]
       /\ UNCHANGED <<phase, result, content>>
CallFails(d, s) ==
  /\ At(d, s, "calling")
  /\ \/ "transient" \in Faults /\ attempt[d][s] > MaxRetries
     \/ "adapter" \in Faults
  /\ Failing(d, s)
  /\ UNCHANGED <<runs, tally, cache, calls, paid, lost>>

(* The entry's directory, its temporary file or its rename fails: the      *)
(* answer is billed and the window fails all the same.                     *)
PutFails(d, i) ==
  /\ "disk" \in Faults /\ Caching /\ phase[d] = "mapping" /\ At(d, i, "calling")
  /\ Pay(d, i) /\ Lose(d, i) /\ Failing(d, i)
  /\ UNCHANGED runs

(* The answer is billed before it turns out to be no JSON object.          *)
Garbled(d, s) ==
  /\ "garbled" \in Faults /\ At(d, s, "calling")
  /\ Bill(d) /\ Failing(d, s)
  /\ UNCHANGED <<runs, cache, paid, lost>>

-----------------------------------------------------------------------------
(* Behind the gather, and reduce.                                          *)

SettledUnskipped(d) == \A i \in Slots(d) : place[d][i] \in {"answered", "failed"}
Settled(d) == \A i \in Slots(d) : place[d][i] \in {"answered", "failed", "skipped"}
RaisedFirst(d) == Slots(d) # {} /\ At(d, 1, "failed")
Raised(d) == \E i \in Slots(d) : At(d, i, "failed")

MapEnds(d) ==
  /\ phase[d] = "mapping" /\ Settled(d)
  /\ IF Raised(d) THEN Forget({d})
     ELSE /\ phase' = [phase EXCEPT ![d] = "reducing"]
          /\ UNCHANGED <<place, attempt, aborted, result, content>>
  /\ UNCHANGED <<runs, tally, cache, calls, paid, lost>>

(* The elements of a sequence that are in a set, in their order.           *)
Among(s, S) ==
  LET kept[k \in 0..Len(s)] ==
        IF k = 0 THEN <<>> ELSE IF s[k] \in S THEN Append(kept[k - 1], s[k]) ELSE kept[k - 1]
  IN kept[Len(s)]

(* _collect, window by window: invented names are dropped.                 *)
Answered(d) == {i \in Slots(d) : At(d, i, "answered")}
Giving(d, n) == {i \in Slots(d) : n \in result[d][i]}
Fragments(d, n) == Among([i \in Slots(d) |-> i], Answered(d) \cap Giving(d, n))
Found(d) == {n \in Sections : Fragments(d, n) # <<>>}

(* What of the joined fragments begins within reduce_input_chars.          *)
Kept(frags) ==
  LET within == {k \in DOMAIN frags : (k - 1) * (FragmentChars + 7) < ReduceChars}
  IN [k \in within |-> frags[k]]

Fits(frags) ==
  Len(frags) = 1 /\ (FragmentChars <= MaxChars \/ ReduceChars <= MaxChars)

ReduceAlone(d, n) ==
  phase[d] = "reducing" /\ n \in Found(d) /\ At(d, n, "none") /\ Calling(d) = {}

(* _reduce_section: one fragment that fits is the section; otherwise the   *)
(* model merges what it is given of them.                                  *)
UseFragment(d, n) ==
  /\ ReduceAlone(d, n) /\ Fits(Fragments(d, n))
  /\ content' = [content EXCEPT ![d][n] = Kept(Fragments(d, n))] /\ Goto(d, n, "answered")
  /\ UNCHANGED <<phase, runs, attempt, aborted, result, tally, cache, calls, paid, lost>>

CallReduce(d, n) ==
  /\ ReduceAlone(d, n) /\ ~Fits(Fragments(d, n)) /\ StartCall(d, n)
  /\ UNCHANGED <<phase, runs, aborted, result, content, tally, cache, calls, paid, lost>>

AnswerReduce(d, n) ==
  /\ phase[d] = "reducing" /\ At(d, n, "calling") /\ Bill(d)
  /\ content' = [content EXCEPT ![d][n] = Kept(Fragments(d, n))] /\ EndCall(d, n, "answered")
  /\ UNCHANGED <<phase, runs, aborted, result, cache, paid, lost>>

(* _validate_against_schema refuses a result without a required section.   *)
Valid(d) == Required \subseteq Found(d)

Finish(d) ==
  /\ phase[d] = "reducing" /\ \A n \in Found(d) : At(d, n, "answered")
  /\ IF Valid(d)
     THEN phase' = [phase EXCEPT ![d] = "done"] /\ UNCHANGED <<place, attempt, aborted, result, content>>
     ELSE Forget({d})
  /\ UNCHANGED <<runs, tally, cache, calls, paid, lost>>

-----------------------------------------------------------------------------
(* The process dies: what is in the cache stays, an entry being replaced   *)
(* at once.                                                                *)
Crash ==
  /\ "crash" \in Faults /\ \E d \in Docs : ~Stopped(d)
  /\ Forget({d \in Docs : ~Stopped(d)})
  /\ UNCHANGED <<runs, tally, cache, calls, paid, lost>>

(* It dies between an answer and its entry's rename.                       *)
DiesUnstored(d, i) ==
  /\ "crash" \in Faults /\ phase[d] = "mapping" /\ At(d, i, "calling")
  /\ Pay(d, i) /\ Lose(d, i) /\ Forget({e \in Docs : ~Stopped(e)})
  /\ UNCHANGED runs

(* An entry is cut short behind the extractor's back (in this model,       *)
(* between runs): it counts as a miss, and what was paid for it is lost.   *)
Damage(k) ==
  /\ "damage" \in Faults /\ cache[k] # Miss /\ \A d \in Docs : Stopped(d)
  /\ cache' = [cache EXCEPT ![k] = Miss] /\ lost' = [lost EXCEPT ![k] = paid[k]]
  /\ UNCHANGED <<phase, runs, place, attempt, aborted, result, content, tally, calls, paid>>

Quiet == (\A d \in Docs : Stopped(d)) /\ runs = MaxRuns /\ UNCHANGED vars

Work(d) ==
  \/ \E i \in Slots(d) :
       \/ SkipWindow(d, i) \/ UseCached(d, i) \/ CallWindow(d, i)
       \/ \E answer \in Answers : AnswerWindow(d, i, answer)
       \/ PutFails(d, i)
  \/ \E s \in Slots(d) \cup Sections : CallFails(d, s) \/ Garbled(d, s)
  \/ \E n \in Sections : UseFragment(d, n) \/ CallReduce(d, n) \/ AnswerReduce(d, n)
  \/ MapEnds(d) \/ Finish(d)

Next ==
  \/ \E d \in Docs : Run(d) \/ Work(d) \/ \E s \in Slots(d) \cup Sections : Retry(d, s)
  \/ \E k \in CacheKeys : Damage(k)
  \/ \E d \in Docs : \E i \in Slots(d) : DiesUnstored(d, i)
  \/ Crash \/ Quiet

Spec == Init /\ [][Next]_vars

(* A call ends or runs out of attempts, and some coroutine is resumed.     *)
FairSpec == Spec /\ WF_vars(\E d \in Docs : Work(d))

-----------------------------------------------------------------------------
(* Properties.                                                             *)

(* "Guarantees: every page is seen" and "never partial results"            *)
(* (extractor.py): a run that ends with a result has mapped every page     *)
(* that is not blank, in order, and each section rests on the fragments of *)
(* all the windows that gave it one, in the order of the pages, as long as *)
(* they fit one reduce call.                                               *)
NoPartialResult ==
  \A d \in Docs : phase[d] = "done" =>
    /\ FlattenSeq(Windows[d]) = Among(Pages[d], {page \in Range(Pages[d]) : page.chars > 0})
    /\ \A i \in Slots(d) : At(d, i, "answered")
    /\ \A n \in Sections :
         LET frags == Among([i \in Slots(d) |-> i], Giving(d, n))
         IN IF Joined(7, [k \in DOMAIN frags |-> FragmentChars]) <= ReduceChars
            THEN content[d][n] = frags ELSE IsPrefix(content[d][n], frags)

(* With a chunk cache, a window's text is paid for no more often than it   *)
(* occurs in the documents, and once if it occurs once: over failed runs,  *)
(* crashes and re-runs, and whatever siblings do.  Only answers that were  *)
(* lost themselves come on top: a death before the rename, a put that      *)
(* raised, an entry damaged since.                                         *)
PaidOnce ==
  Caching => \A k \in CacheKeys :
    paid[k] - lost[k] <= Cardinality(UNION {{<<d, i>> : i \in {j \in Slots(d) : CacheKey(d, j) = k}} : d \in Docs})

(* The tokens a run reports are those of the calls it made itself, however *)
(* the documents that share the extractor interleave                       *)
(* (_UsageAccumulator), garbled answers included and cached ones not.      *)
TallyIsOwn == \A d \in Docs : phase[d] = "done" => tally[d] = calls[d]

(* Every run ends, with a result or an error.                              *)
RunEnds == \A d \in Docs : phase[d] = "mapping" ~> Stopped(d)
=============================================================================
