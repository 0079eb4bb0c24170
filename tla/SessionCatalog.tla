--------------------------- MODULE SessionCatalog ---------------------------
(***************************************************************************)
(* The sessions directory as the programs around it see it: the fork, load,*)
(* title, export and import of harness/agent.py and sessions/store.py, the *)
(* commands of cli/session.py, and the fork tree of sessions/tree.py.      *)
(*                                                                         *)
(* An actor is a process: a REPL with a live Session, or one command.  The *)
(* files are a log and a meta sidecar for each session id; no operation    *)
(* locks them, so other actors come between a read and the write that      *)
(* rests on it.  Two live Session objects of one id are SessionLog's       *)
(* subject: here an id has one.  Sessions save as they go.  A host stands  *)
(* for a REPL, for `session fork` and `session replay`, and for a request  *)
(* of the server that runs a query.                                        *)
(*                                                                         *)
(* The siblings no action uses (LoadAlone, ...) are forms a plausible bug  *)
(* would give a definition, for checking the properties.                   *)
(***************************************************************************)
EXTENDS Integers, Sequences, FiniteSets, SequencesExt

CONSTANTS
  Hosts,      \* processes that open Sessions
  Commands,   \* processes that title, export and import
  NumIds,     \* bound of the model: session ids, in the order of the listing
  Name,       \* the text of each id
  MaxEvents,  \* bound of the model: events of one log
  TreeSize,   \* bound of the model: sessions of a directory drawn as a tree
  Accidents   \* "kill": a process dies; "abandon": a consumer stops

Actors == Hosts \cup Commands
Ids == 1..NumIds
None == 0

ASSUME CatalogAssumption ==
  /\ NumIds \in Nat \ {0} /\ MaxEvents \in Nat /\ TreeSize \in Nat
  /\ IsInjective(Name) /\ Name \in [Ids -> Seq(STRING)] /\ \A i \in Ids : Name[i] # <<>>

VARIABLES
  stored,   \* ids with an {id}.jsonl
  log,      \* {id}.jsonl: its whole lines
  torn,     \* ids whose {id}.jsonl ends in the middle of a line
  meta,     \* {id}.meta.json; NoMeta when it is absent
  bundle,   \* the one exported pair of files
  actor,    \* what each process is doing
  used,     \* ids given out
  origin,   \* the session each one was forked from, or was said to be
  bare,     \* sessions whose meta was rebuilt from the log
  doubt     \* sessions whose sidecar an accident or an overlap left behind

files == <<stored, log, torn>>
vars == <<files, meta, bundle, actor, used, origin, bare, doubt>>

(* An event belongs to a session and has a number; a query begins a round. *)
Event == [sid : Ids, seq : Nat, kind : {"query", "answer", "citation", "other"}]
IsQuery(e) == e.kind = "query"
Meta == [parent : Ids \cup {None}, count : Nat]
NoMeta == [parent |-> None, count |-> -1]
NoBundle == [sid |-> None, log |-> <<>>, torn |-> FALSE, meta |-> NoMeta]
Away == [at |-> "away", sid |-> None, parent |-> None, events |-> <<>>, held |-> NoMeta]

Exists(i) == i \in stored
Readable(i) == i \notin torn

-----------------------------------------------------------------------------
(* The store.                                                              *)

(* read_meta: the sidecar, or what the log tells, which is no parent; a    *)
(* torn log tells nothing, and read_meta raises.                           *)
Rebuilt(i) == [parent |-> None, count |-> Len(log[i])]
HasMeta(i) == meta[i] # NoMeta \/ Readable(i)
ReadMeta(i) == IF meta[i] # NoMeta THEN meta[i] ELSE Rebuilt(i)
Sees(i) == bare' = IF meta[i] = NoMeta THEN bare \cup {i} ELSE bare

WriteMeta(i, m) == meta' = [meta EXCEPT ![i] = m]
WriteLogTorn(i, es, half) ==
  /\ log' = [log EXCEPT ![i] = es] /\ stored' = stored \cup {i}
  /\ torn' = IF half THEN torn \cup {i} ELSE torn \ {i}
WriteLog(i, es) == WriteLogTorn(i, es, FALSE)

(* list leaves out what it cannot read.  _resolve_id: a typed id is the    *)
(* name of a listed session, or begins the name of one alone.              *)
Listed(i) == Exists(i) /\ HasMeta(i)
Matching(typed) == {i \in Ids : Listed(i) /\ IsPrefix(typed, Name[i])}
Resolves(typed, i) ==
  i \in Matching(typed) /\ (typed = Name[i] \/ Matching(typed) = {i})
Typed == UNION {{SubSeq(Name[i], 1, n) : n \in 0..Len(Name[i])} : i \in Ids}

At(a, places) == actor[a].at \in places
Become(a, r) == actor' = [actor EXCEPT ![a] = r]
Goto(a, place) == actor' = [actor EXCEPT ![a].at = place]

InUse(i) == \E a \in Actors : actor[a].sid = i
Pending(i) == \E a \in Actors : At(a, {"titling", "importing"}) /\ actor[a].sid = i
Live(i) == \E a \in Actors :
             At(a, {"idle", "asked", "running", "forking"}) /\ actor[a].sid = i
Busy(i) == \E a \in Actors :
             At(a, {"asked", "running", "titling", "importing"}) /\ actor[a].sid = i

(* What another actor has read of this session is out of date from here.   *)
Overlapped(i) == doubt' = IF Pending(i) THEN doubt \cup {i} ELSE doubt

-----------------------------------------------------------------------------
Init ==
  /\ stored = {} /\ log = [i \in Ids |-> <<>>] /\ torn = {} /\ meta = [i \in Ids |-> NoMeta] /\ bundle = NoBundle
  /\ actor = [a \in Actors |-> Away] /\ used = {}
  /\ origin = [i \in Ids |-> None] /\ bare = {} /\ doubt = {}

(* Harness.session without an id: nothing is on disk before the first run. *)
New(a, i) ==
  /\ At(a, {"away"}) /\ used = {} /\ i = 1 /\ used' = used \cup {i}
  /\ Become(a, [Away EXCEPT !.at = "idle", !.sid = i])
  /\ UNCHANGED <<files, meta, bundle, origin, bare, doubt>>

(* Harness.session with an id, and Session.load, which a torn log stops:   *)
(* the log is read and the parent comes from the meta.                     *)
Loaded(i) == [Away EXCEPT !.at = "idle", !.sid = i, !.events = log[i],
                          !.parent = ReadMeta(i).parent]
LoadedAlone(i) == [Away EXCEPT !.at = "idle", !.sid = i, !.events = log[i]]
OpenAs(a, i, session) ==
  /\ At(a, {"away"}) /\ Exists(i) /\ Readable(i) /\ ~Live(i)
  /\ Become(a, session) /\ Sees(i)
  /\ UNCHANGED <<files, meta, bundle, used, origin, doubt>>
LoadAlone(a, i) == OpenAs(a, i, LoadedAlone(i))
Load(a, i) == OpenAs(a, i, Loaded(i))

Close(a) ==
  /\ At(a, {"idle"}) /\ Become(a, Away)
  /\ UNCHANGED <<files, meta, bundle, used, origin, bare, doubt>>

(* run_stream: the query event, events of the loop, and at the end the     *)
(* meta, made from the sidecar as it is then.                              *)
NextSeq(es) == Len(es)

Emit(a, kind, place) ==
  LET s == actor[a]
      e == [sid |-> s.sid, seq |-> NextSeq(s.events), kind |-> kind]
  IN /\ Len(s.events) < MaxEvents /\ WriteLog(s.sid, Append(log[s.sid], e))
     /\ Become(a, [s EXCEPT !.at = place, !.events = Append(@, e)])
     /\ Overlapped(s.sid)
     /\ UNCHANGED <<meta, bundle, used, origin, bare>>
Ask(a) == At(a, {"idle"}) /\ Emit(a, "query", "asked")
Answer(a) == At(a, {"asked"}) /\ Emit(a, "answer", "running")

(* The process dies inside an append.                                      *)
AppendTorn(a) ==
  /\ "kill" \in Accidents /\ At(a, {"idle", "asked"}) /\ Len(actor[a].events) < MaxEvents
  /\ WriteLogTorn(actor[a].sid, log[actor[a].sid], TRUE)
  /\ doubt' = doubt \cup {actor[a].sid} /\ Become(a, Away)
  /\ UNCHANGED <<meta, bundle, used, origin, bare>>

(* The consumer stops at the query event, as the server does when its      *)
(* client is gone: the meta is not written.                                *)
AbandonQuery(a) ==
  /\ At(a, {"asked"}) /\ "abandon" \in Accidents /\ Goto(a, "idle")
  /\ doubt' = doubt \cup {actor[a].sid}
  /\ UNCHANGED <<files, meta, bundle, used, origin, bare>>

(* _build_meta keeps what the old sidecar says of the title, which is left *)
(* out here, and takes the parent and the count from the Session.          *)
SaveMetaAs(a, m) ==
  /\ At(a, {"running"}) /\ WriteMeta(actor[a].sid, m) /\ Goto(a, "idle")
  /\ doubt' = IF Pending(actor[a].sid)
              THEN doubt \cup {actor[a].sid} ELSE doubt \ {actor[a].sid}
  /\ UNCHANGED <<files, bundle, used, origin, bare>>
SaveOldMeta(a) == SaveMetaAs(a, [parent |-> actor[a].parent, count |-> Len(actor[a].events) - 1])
SaveMeta(a) == SaveMetaAs(a, [parent |-> actor[a].parent, count |-> Len(actor[a].events)])

(* set_title reads the sidecar and writes it back.                         *)
ReadTitle(a, i) ==
  /\ At(a, {"away"}) /\ Exists(i) /\ HasMeta(i) /\ Sees(i)
  /\ Become(a, [Away EXCEPT !.at = "titling", !.sid = i, !.held = ReadMeta(i)])
  /\ doubt' = IF Busy(i) THEN doubt \cup {i} ELSE doubt
  /\ UNCHANGED <<files, meta, bundle, used, origin>>
WriteTitle(a) ==
  /\ At(a, {"titling"}) /\ WriteMeta(actor[a].sid, actor[a].held)
  /\ Become(a, Away)
  /\ UNCHANGED <<files, bundle, used, origin, bare, doubt>>

-----------------------------------------------------------------------------
(* fork: rounds 1 to N-1, or all of them, copied under the child's id.     *)

(* uuid4: an id nobody has.                                                *)
FreshId(i) == i \notin used

(* round_boundaries, and where _cut_index may cut: before a query, or      *)
(* behind everything.                                                      *)
Boundaries(es) == {k \in DOMAIN es : IsQuery(es[k])}
Cuts(es) == {k - 1 : k \in Boundaries(es)} \cup {Len(es)}
CopiedAsIs(es, cut, i) == SubSeq(es, 1, cut)
Copied(es, cut, i) == [k \in 1..cut |-> [es[k] EXCEPT !.sid = i]]

(* write_session_events ...                                                *)
ForkLog(a, i) ==
  /\ At(a, {"idle"}) /\ FreshId(i) /\ used' = used \cup {i}
  /\ origin' = [origin EXCEPT ![i] = actor[a].sid]
  /\ \E cut \in Cuts(actor[a].events) :
       LET prefix == Copied(actor[a].events, cut, i)
       IN /\ WriteLog(i, prefix)
          /\ Become(a, [Away EXCEPT !.at = "forking", !.sid = i, !.events = prefix,
                                    !.parent = actor[a].sid])
  /\ UNCHANGED <<meta, bundle, bare, doubt>>

(* ... which dies in the middle of it ...                                  *)
ForkTorn(a, i) ==
  /\ "kill" \in Accidents /\ At(a, {"idle"}) /\ FreshId(i) /\ used' = used \cup {i}
  /\ origin' = [origin EXCEPT ![i] = actor[a].sid]
  /\ \E n \in 0..(Len(actor[a].events) - 1), half \in BOOLEAN :
       WriteLogTorn(i, Copied(actor[a].events, n, i), half)
  /\ Become(a, Away)
  /\ UNCHANGED <<meta, bundle, bare, doubt>>

(* ... and the child's meta, which names the parent.  The actor goes on    *)
(* with the child: replay asks it the recorded query, fork closes it.      *)
ForkMeta(a) ==
  /\ At(a, {"forking"})
  /\ WriteMeta(actor[a].sid, [parent |-> actor[a].parent, count |-> Len(actor[a].events)])
  /\ Goto(a, "idle")
  /\ UNCHANGED <<files, bundle, used, origin, bare, doubt>>

-----------------------------------------------------------------------------
(* export and import.                                                      *)

ExportLog(a, i) ==
  /\ At(a, {"away"}) /\ bundle = NoBundle /\ \E typed \in Typed : Resolves(typed, i)
  /\ bundle' = [sid |-> i, log |-> log[i], torn |-> ~Readable(i), meta |-> NoMeta]
  /\ Become(a, [Away EXCEPT !.at = "exporting", !.sid = i])
  /\ UNCHANGED <<files, meta, used, origin, bare, doubt>>
ExportMeta(a) ==
  LET i == actor[a].sid
  IN /\ At(a, {"exporting"}) /\ Exists(i)
     /\ IF HasMeta(i) /\ bundle.sid = i
        THEN bundle' = [bundle EXCEPT !.meta = ReadMeta(i)] /\ Sees(i)
        ELSE UNCHANGED <<bundle, bare>>
     /\ Become(a, Away)
     /\ UNCHANGED <<files, meta, used, origin, doubt>>

(* The id comes from the sidecar, or without one from the first event.     *)
Importable ==
  /\ bundle # NoBundle /\ (bundle.meta # NoMeta \/ bundle.log # <<>>)
  /\ ~Exists(bundle.sid)
ImportLog(a) ==
  /\ At(a, {"away"}) /\ Importable
  /\ WriteLogTorn(bundle.sid, bundle.log, bundle.torn)
  /\ Become(a, [Away EXCEPT !.at = "importing", !.sid = bundle.sid, !.held = bundle.meta])
  /\ origin' = [origin EXCEPT ![bundle.sid] = bundle.meta.parent]
  /\ doubt' = IF bundle.meta.count \in {-1, Len(bundle.log)}
              THEN doubt \ {bundle.sid} ELSE doubt \cup {bundle.sid}
  /\ UNCHANGED <<meta, bundle, used, bare>>

(* A torn log without a sidecar ends the import here; its copy stays.      *)
ImportMeta(a) ==
  LET i == actor[a].sid
      held == actor[a].held
  IN /\ At(a, {"importing"}) /\ Exists(i) /\ Become(a, Away)
     /\ IF held # NoMeta THEN WriteMeta(i, held)
        ELSE IF Readable(i) THEN WriteMeta(i, Rebuilt(i)) ELSE UNCHANGED meta
     /\ UNCHANGED <<files, bundle, used, origin, bare, doubt>>

-----------------------------------------------------------------------------
(* From outside: a process dies, a session's files are removed to import   *)
(* it again.                                                               *)

Kill(a) ==
  /\ "kill" \in Accidents /\ ~At(a, {"away", "idle"}) /\ Become(a, Away)
  /\ doubt' = IF At(a, {"asked", "running"}) THEN doubt \cup {actor[a].sid} ELSE doubt
  /\ UNCHANGED <<files, meta, bundle, used, origin, bare>>

Delete(i) ==
  /\ Exists(i) /\ ~InUse(i) /\ bundle.sid = i
  /\ stored' = stored \ {i} /\ log' = [log EXCEPT ![i] = <<>>] /\ torn' = torn \ {i} /\ WriteMeta(i, NoMeta)
  /\ UNCHANGED <<bundle, actor, used, origin, bare, doubt>>

Next ==
  \/ \E a \in Actors :
       \/ Close(a) \/ Ask(a) \/ Answer(a) \/ AbandonQuery(a) \/ AppendTorn(a)
       \/ SaveMeta(a)
       \/ WriteTitle(a) \/ ForkMeta(a) \/ ExportMeta(a) \/ ImportMeta(a) \/ Kill(a)
       \/ \E i \in Ids :
            ForkLog(a, i) \/ ForkTorn(a, i)
  \/ \E a \in Hosts, i \in Ids : New(a, i) \/ Load(a, i)
  \/ \E a \in Commands : ImportLog(a) \/ \E i \in Ids : ReadTitle(a, i) \/ ExportLog(a, i)
  \/ \E i \in Ids : Delete(i)

Spec == Init /\ [][Next]_vars

-----------------------------------------------------------------------------
(* Properties.                                                             *)

(* A log stands on its own: whatever was forked, imported, removed, killed *)
(* or resumed before, its events carry its own id and the numbers of their *)
(* places, so that the next run's numbers go on (agent.py, "a              *)
(* self-contained snapshot").                                              *)
SelfContained ==
  \A i \in stored : \A k \in DOMAIN log[i] : log[i][k].sid = i /\ log[i][k].seq = k - 1

(* A session's sidecar names the session it was forked from, or was last   *)
(* said to come from, and every run, title, export and import that         *)
(* rewrites it says so again; the parent is only ever lost when the        *)
(* sidecar is missing as somebody reads it (store.py, "unrecoverable").    *)
LineageKept ==
  \A i \in stored : meta[i] # NoMeta /\ i \notin bare => meta[i].parent = origin[i]
=============================================================================
