----------------------------- MODULE ToolBatch -----------------------------
(***************************************************************************)
(* The real calls of one model turn: harness/parallel.py with the result   *)
(* cache of harness/cache.py and the tools of tools/.  A batch of known    *)
(* read-only tools runs side by side, any other one after another; a       *)
(* read-only call is looked up in the session's cache as it starts and put *)
(* there as it ends, and in between other coroutines run.                  *)
(*                                                                         *)
(* A tool reads or writes one file, which stands for what it sees of the   *)
(* world: a version number.  Replay composes this module with the loop.    *)
(*                                                                         *)
(* The sibling no action uses (ReadonlySomewhere) is a form a plausible    *)
(* bug would give a definition, for checking the properties.               *)
(***************************************************************************)
EXTENDS Integers, Sequences, FiniteSets

CONSTANTS
  Files,
  Readers, Writers,  \* the registry: names of its read-only and other tools
  Faults,            \* "tool": a tool raises; "edit": a file changes outside;
                     \* Replay names more
  MaxVersion         \* bound of the model: versions of a file

Tools == Readers \cup Writers

ASSUME ToolAssumption == Readers \cap Writers = {} /\ MaxVersion \in Nat

VARIABLES
  world,   \* the version of each file
  before,  \* the versions as the batch began; Miss once changed outside
  cache,   \* what each call returned, by the cache's key; Miss
  batch,   \* the calls
  parallel, \* they run side by side
  at,      \* each call: "waiting", "running" or "done"
  outcome  \* the ExecutionResult of each call that is done

batchVars == <<world, before, cache, batch, parallel, at, outcome>>

(* A call names a tool, known or not, and a file.                          *)
Known(call) == call.tool \in Tools
Readonly(call) == call.tool \in Readers

Error == -1
Miss == -2
Result(value, hit, errored) == [value |-> value, hit |-> hit, errored |-> errored]
Pending == Result(Miss, FALSE, FALSE)

(* ToolResultCache.key: the tool's name and its arguments.                 *)
Key(call) == [tool |-> call.tool, file |-> call.file]
Keys == [tool : Tools, file : Files]
Has(call) == cache[Key(call)] # Miss

(* should_parallelize, asked for the set of all the real calls of a reply, *)
(* of which the batch may be a part: every one is known and read-only.     *)
ReadonlySomewhere(calls) == \E c \in calls : Readonly(c)
AllReadonly(calls) == calls # {} /\ \A c \in calls : Known(c) /\ Readonly(c)

-----------------------------------------------------------------------------
BatchInit ==
  /\ world = [f \in Files |-> 0] /\ before = [f \in Files |-> 0]
  /\ cache = [c \in Keys |-> Miss]
  /\ batch = <<>> /\ parallel = FALSE /\ at = <<>> /\ outcome = <<>>

StartBatch(calls, reals) ==
  /\ batch' = calls /\ before' = world
  /\ parallel' = (AllReadonly(reals) /\ Len(calls) > 1)
  /\ at' = [k \in DOMAIN calls |-> "waiting"]
  /\ outcome' = [k \in DOMAIN calls |-> Pending]
  /\ UNCHANGED <<world, cache>>

DropBatch ==
  /\ batch' = <<>> /\ parallel' = FALSE /\ at' = <<>> /\ outcome' = <<>> /\ before' = [f \in Files |-> 0]

Over == \A k \in DOMAIN batch : at[k] = "done"

(* gather starts its tasks in the order of the calls.                      *)
Ready(k) ==
  /\ at[k] = "waiting"
  /\ \A j \in 1..(k - 1) : at[j] = "done" \/ (parallel /\ at[j] = "running")

Done(k, result) ==
  at' = [at EXCEPT ![k] = "done"] /\ outcome' = [outcome EXCEPT ![k] = result]

(* execute_one: an unknown tool, a hit, or the call of the tool.           *)
Refuse(k) ==
  /\ Ready(k) /\ ~Known(batch[k]) /\ Done(k, Result(Error, FALSE, TRUE))
  /\ UNCHANGED <<world, before, cache, batch, parallel>>

Hit(k) ==
  /\ Ready(k) /\ Readonly(batch[k]) /\ Has(batch[k])
  /\ Done(k, Result(cache[Key(batch[k])], TRUE, FALSE))
  /\ UNCHANGED <<world, before, cache, batch, parallel>>

Begin(k) ==
  /\ Ready(k) /\ Known(batch[k]) /\ ~(Readonly(batch[k]) /\ Has(batch[k]))
  /\ at' = [at EXCEPT ![k] = "running"]
  /\ UNCHANGED <<world, before, cache, batch, parallel, outcome>>

Put(call, value) ==
  cache' = IF Readonly(call) THEN [cache EXCEPT ![Key(call)] = value] ELSE cache

Succeed(k) ==
  LET call == batch[k]
      version == IF Readonly(call) THEN world[call.file] ELSE world[call.file] + 1
  IN /\ at[k] = "running" /\ version <= MaxVersion
     /\ world' = [world EXCEPT ![call.file] = version]
     /\ Put(call, version) /\ Done(k, Result(version, FALSE, FALSE))
     /\ UNCHANGED <<before, batch, parallel>>

(* An error becomes a result, and is not cached.                           *)
Fail(k) ==
  /\ "tool" \in Faults /\ at[k] = "running" /\ Done(k, Result(Error, FALSE, TRUE))
  /\ UNCHANGED <<world, before, cache, batch, parallel>>

(* A file is changed by somebody else.                                     *)
Edit(f) ==
  /\ "edit" \in Faults /\ world[f] < MaxVersion
  /\ world' = [world EXCEPT ![f] = @ + 1] /\ before' = [before EXCEPT ![f] = Miss]
  /\ UNCHANGED <<cache, batch, parallel, at, outcome>>

BatchStep == \E k \in DOMAIN batch : Refuse(k) \/ Hit(k) \/ Begin(k) \/ Succeed(k) \/ Fail(k)

-----------------------------------------------------------------------------
(* Properties.                                                             *)

(* "A write could observe state a read in the same batch produced"         *)
(* (parallel.py): however a batch was run, every call that reached its     *)
(* tool saw what running the calls one after another would have shown it,  *)
(* the writes before it and none behind it, unless the file was changed    *)
(* from outside meanwhile.                                                 *)
NoOvertaking ==
  \A k \in DOMAIN batch :
    LET mine == outcome[k]
        earlier == {j \in 1..k : batch[j].file = batch[k].file /\ batch[j].tool \in Writers
                                 /\ at[j] = "done" /\ ~outcome[j].errored}
    IN at[k] = "done" /\ ~mine.hit /\ ~mine.errored /\ before[batch[k].file] # Miss =>
         mine.value = before[batch[k].file] + Cardinality(earlier)
=============================================================================
