----------------------------- MODULE SessionLog -----------------------------
(***************************************************************************)
(* The durable log of one reigner session: `Session.run_stream`, `save`    *)
(* and `__init__` of harness/agent.py over the JSONL file and the meta     *)
(* sidecar of sessions/store.py.                                           *)
(*                                                                         *)
(* A writer is a live Session object for the session's id: the REPL's, or  *)
(* the one the server makes for a request.  The store takes no locks, so   *)
(* several writers may be live at once; between two suspension points of   *)
(* run_stream a writer's step is atomic for the writers of its process.    *)
(* What the agent loop puts in its events is AgentLoop's subject: here a   *)
(* run is a query event, some events, and a last one.                      *)
(*                                                                         *)
(* The siblings no action uses (LogLate, OpenUncounted, ...) are forms a *)
(* plausible bug would give a definition, for checking the properties.     *)
(***************************************************************************)
EXTENDS Integers, Sequences, FiniteSets

CONSTANTS
  Writers,    \* live Session objects the model may have at once
  AutoSave,   \* harness.sessions.auto_save, by writer
  Faults,     \* "disk": an append or a meta write raises OSError (a full
              \* disk), with some, all or none of the text in the file;
              \* "kill": a process dies where it is suspended;
              \* "torn": it dies inside an append;
              \* "abandon": the consumer stops iterating;
              \* "hook": a transform hook of the loop fails
  MaxEvents,  \* bound of the model: events made
  MaxTexts    \* bound of the model: where in the file an append may break
              \* off, or a failing save() could lengthen it for ever

ASSUME WritersAssumption ==
  /\ AutoSave \in [Writers -> BOOLEAN]
  /\ Faults \subseteq {"disk", "kill", "torn", "abandon", "hook"}
  /\ MaxEvents \in Nat /\ MaxTexts \in Nat

VARIABLES
  file,          \* {sid}.jsonl: the texts appended, in order
  sidecar,       \* event_count of {sid}.meta.json; {} when it is absent
  pc,            \* where each writer is
  events,        \* Session._events
  persisted,     \* Session._persisted_count
  seq,           \* run_loop's next sequence number
  made,          \* events made so far, which numbers them
  shown,         \* events yielded to a consumer
  failed,        \* events whose append raised: in memory, and perhaps in the file
  died           \* events inside whose append a process died

disk == <<file, sidecar>>
outcome == <<shown, failed, died>>
vars == <<file, sidecar, pc, events, persisted, seq, made, shown, failed, died>>

Event == [id : Nat, by : Writers, seq : Nat, kind : {"query", "step", "last"}]
(* What one append leaves in the file: the event's line; all of its text   *)
(* without the newline; or a part of it.                                   *)
Pieces == {"line", "text", "part"}
Text == [event : Event, piece : Pieces]

-----------------------------------------------------------------------------
(* The file.  Appends open it for each event and repair nothing: what      *)
(* follows a text without a newline stands on the same line, which no      *)
(* parser accepts any more.                                                *)

Lines(es) == [k \in DOMAIN es |-> [event |-> es[k], piece |-> "line"]]

(* append_event, event by event.                                           *)
WithLines(es) == file \o Lines(es)
Written(es) == file' = WithLines(es)

(* The append of e to f breaks off, in a process that dies or one that     *)
(* lives on: the buffer has reached the disk not at all, in part or (when  *)
(* only the flush failed, and the close went through) as a whole.          *)
BrokenOff(f, e) ==
  {f} \cup {Append(f, [event |-> e, piece |-> p]) : p \in {q \in Pieces : Len(f) < MaxTexts}}

(* load_events parses every line or raises.                                *)
Readable(f) ==
  \A k \in DOMAIN f : f[k].piece = "line" \/ (f[k].piece = "text" /\ k = Len(f))
EventsIn(f) == [k \in DOMAIN f |-> f[k].event]

(* write_meta replaces the sidecar at once.  _build_meta first reads the   *)
(* old one, rebuilding it from the log if it is missing: an unreadable log *)
(* then raises.                                                            *)
MetaWritten(count, f) == sidecar' = IF sidecar = {} /\ ~Readable(f) THEN {} ELSE {count}

-----------------------------------------------------------------------------
Init ==
  /\ file = <<>> /\ sidecar = {}
  /\ pc = [w \in Writers |-> "closed"]
  /\ events = [w \in Writers |-> <<>>]
  /\ persisted = [w \in Writers |-> 0]
  /\ seq = [w \in Writers |-> 0]
  /\ made = 0 /\ shown = {} /\ failed = {} /\ died = {}

Move(w, place) == pc' = [pc EXCEPT ![w] = place]

(* The Session object is gone, with what it kept in memory.                *)
Drop(w) ==
  /\ Move(w, "closed")
  /\ events' = [events EXCEPT ![w] = <<>>]
  /\ persisted' = [persisted EXCEPT ![w] = 0]
  /\ seq' = [seq EXCEPT ![w] = 0]

(* Session.__init__ and load: the events on disk are preloaded.            *)
OpenCounting(w, count) ==
  /\ pc[w] = "closed" /\ Readable(file)
  /\ Move(w, "idle")
  /\ events' = [events EXCEPT ![w] = EventsIn(file)]
  /\ persisted' = [persisted EXCEPT ![w] = count]
  /\ UNCHANGED <<disk, seq, made, outcome>>
OpenUncounted(w) == OpenCounting(w, 0)
Open(w) == OpenCounting(w, Len(file))

(* Any writer may be dropped between two runs.                             *)
Close(w) == pc[w] = "idle" /\ Drop(w) /\ UNCHANGED <<disk, made, outcome>>

NewEvent(w, number, kind) == [id |-> made + 1, by |-> w, seq |-> number, kind |-> kind]

(* The event is kept, appended to the file when auto_save is on, and       *)
(* yielded; a failing append leaves it in memory, uncounted, and ends the  *)
(* run.                                                                    *)
Remember(w, e) == events' = [events EXCEPT ![w] = Append(@, e)] /\ made' = made + 1
Count(w) == persisted' = [persisted EXCEPT ![w] = @ + 1]
Show(w, e, place) == Move(w, place) /\ shown' = shown \cup {e} /\ UNCHANGED <<failed, died>>

LogWhole(w, e, next, place, stop) ==
  /\ Remember(w, e) /\ seq' = [seq EXCEPT ![w] = next]
  /\ \/ AutoSave[w] /\ Written(<<e>>) /\ Count(w) /\ Show(w, e, place)
     \/ ~AutoSave[w] /\ Show(w, e, place) /\ UNCHANGED <<file, persisted>>
     \/ /\ AutoSave[w] /\ "disk" \in Faults /\ Move(w, stop)
        /\ file' \in BrokenOff(file, e)
        /\ failed' = failed \cup {e} /\ UNCHANGED <<persisted, shown, died>>
  /\ UNCHANGED sidecar

LogTorn(w, e) ==
  /\ AutoSave[w] /\ "torn" \in Faults
  /\ file' \in BrokenOff(file, e) /\ died' = died \cup {e}
  /\ Drop(w) /\ made' = made + 1 /\ UNCHANGED <<sidecar, shown, failed>>

(* With the append behind the yield, a kill can come between them.         *)
LogLate(w, e, next, place, stop) ==
  \/ LogWhole(w, e, next, place, stop)
  \/ /\ AutoSave[w] /\ "kill" \in Faults
     /\ Drop(w) /\ made' = made + 1 /\ shown' = shown \cup {e}
     /\ UNCHANGED <<disk, failed, died>>
Log(w, e, next, place, stop) == LogWhole(w, e, next, place, stop) \/ LogTorn(w, e)

(* run_stream: the query event, ahead of the `try` that writes the meta.   *)
Ask(w) ==
  /\ pc[w] = "idle" /\ made < MaxEvents
  /\ Log(w, NewEvent(w, Len(events[w]), "query"), seq[w], "asked", "idle")

(* The consumer takes the query event; run_loop starts to number its own.  *)
StartLoopAt(w, number) ==
  /\ pc[w] = "asked"
  /\ Move(w, "running")
  /\ seq' = [seq EXCEPT ![w] = number]
  /\ UNCHANGED <<disk, events, persisted, made, outcome>>
StartLoop(w) == StartLoopAt(w, Len(events[w]))

Step(w) ==
  /\ pc[w] = "running" /\ made < MaxEvents
  /\ Log(w, NewEvent(w, seq[w], "step"), seq[w] + 1, "running", "ending")

Last(w) ==
  /\ pc[w] = "running"
  /\ Log(w, NewEvent(w, seq[w], "last"), seq[w] + 1, "ending", "ending")

(* The event the hook was to transform had taken a number already; the     *)
(* ErrorEvent takes the next one.                                          *)
HookFails(w) ==
  /\ pc[w] = "running" /\ "hook" \in Faults
  /\ Log(w, NewEvent(w, seq[w] + 1, "last"), seq[w] + 2, "ending", "ending")

(* The consumer stops iterating: at the query event there is no `finally`. *)
Abandon(w) ==
  /\ "abandon" \in Faults
  /\ \/ pc[w] = "asked" /\ Move(w, "idle")
     \/ pc[w] = "running" /\ Move(w, "ending")
  /\ UNCHANGED <<disk, events, persisted, seq, made, outcome>>

(* The `finally` of run_stream.                                            *)
WriteMeta(w) ==
  /\ pc[w] = "ending" /\ Move(w, "idle")
  /\ \/ AutoSave[w] /\ MetaWritten(Len(events[w]), file)
     \/ (~AutoSave[w] \/ "disk" \in Faults) /\ UNCHANGED sidecar
  /\ UNCHANGED <<file, events, persisted, seq, made, outcome>>

(* save(), between two runs: every event behind _persisted_count, then the *)
(* sidecar; an append that fails ends it there, and its event counts as    *)
(* failed when there is text of it in the file.                            *)
Unsaved(w) == SubSeq(events[w], persisted[w] + 1, Len(events[w]))

SaveAll(w) ==
  /\ pc[w] = "idle"
  /\ Written(Unsaved(w)) /\ MetaWritten(Len(events[w]), file')
  /\ persisted' = [persisted EXCEPT ![w] = Len(events[w])]
  /\ UNCHANGED <<pc, events, seq, made, outcome>>

SaveStops(w, k) ==
  /\ pc[w] = "idle" /\ k < Len(Unsaved(w))
  /\ "disk" \in Faults
  /\ LET e == Unsaved(w)[k + 1]
         before == WithLines(SubSeq(Unsaved(w), 1, k))
     IN  /\ file' \in BrokenOff(before, e)
         /\ failed' = IF file' = before THEN failed ELSE failed \cup {e}
  /\ persisted' = [persisted EXCEPT ![w] = @ + k]
  /\ UNCHANGED <<sidecar, pc, events, seq, made, shown, died>>

(* The process dies; the file stays as it is.                              *)
Kill(w) ==
  /\ "kill" \in Faults /\ pc[w] # "closed"
  /\ Drop(w) /\ UNCHANGED <<disk, made, outcome>>

Next ==
  \E w \in Writers :
    \/ Open(w) \/ Close(w) \/ Ask(w) \/ StartLoop(w) \/ Step(w) \/ Last(w)
    \/ HookFails(w) \/ Abandon(w) \/ WriteMeta(w) \/ SaveAll(w) \/ Kill(w)
    \/ \E k \in 0..MaxEvents : SaveStops(w, k)

Spec == Init /\ [][Next]_vars

-----------------------------------------------------------------------------
(* Properties.                                                             *)

(* Every variable has its type, and a writer never counts as persisted     *)
(* more events than it holds.                                              *)
TypeOK ==
  /\ file \in Seq(Text)
  /\ sidecar \in SUBSET Nat /\ \A m, n \in sidecar : m = n
  /\ pc \in [Writers -> {"closed", "idle", "asked", "running", "ending"}]
  /\ events \in [Writers -> Seq(Event)]
  /\ persisted \in [Writers -> Nat] /\ seq \in [Writers -> Nat]
  /\ made \in Nat /\ shown \subseteq Event /\ failed \subseteq Event /\ died \subseteq Event
  /\ \A w \in Writers : persisted[w] <= Len(events[w])

(* The line of e is in the file, newline and all, and begins where the     *)
(* text before it ended: unless an append broke off just there.            *)
BehindBroken(k) == k > 1 /\ file[k - 1].event \in failed \cup died
OnItsLine(e) ==
  \E k \in DOMAIN file :
    /\ file[k] = [event |-> e, piece |-> "line"]
    /\ k = 1 \/ file[k - 1].piece = "line" \/ BehindBroken(k)

(* What a consumer of an auto-saving session has seen is in the log, whole *)
(* and on a line that can be read, before it is yielded, whoever else      *)
(* writes to the file, wherever a process dies, and whichever appends      *)
(* raise in processes that live on (store.py, "Crash-safe per event") -    *)
(* with one exception, that the docstring of append_event denies: an event *)
(* appended right behind a text that broke off is on that text's line, and *)
(* the log can no longer be loaded.                                        *)
SeenIsDurable ==
  \A e \in shown : AutoSave[e.by] => OnItsLine(e)

(* However the writers interleave and wherever processes die, each         *)
(* writer's events stand in the log in the order it made them, none twice: *)
(* neither a resume nor save() appends what is already there.  (After an   *)
(* append that raised it may: the event is in memory, and _persisted_count *)
(* no longer tells where.)                                                 *)
LogOrdered ==
  failed = {} => \A i, j \in DOMAIN file :
    i < j /\ file[i].event.by = file[j].event.by => file[i].event.id < file[j].event.id

=============================================================================
