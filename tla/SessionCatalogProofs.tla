------------------------ MODULE SessionCatalogProofs ------------------------
(***************************************************************************)
(* Proofs about SessionCatalog and SessionViews, for any number of         *)
(* processes and ids: every log stands on its own, every sidecar keeps its *)
(* parent, what is told of a session agrees with its log, and what the     *)
(* reading commands make of any log and any directory.                     *)
(***************************************************************************)
EXTENDS SessionViews, SequenceTheorems, FiniteSetTheorems, WellFoundedInduction, TLAPS

LivePlaces == {"idle", "asked", "running", "forking"}
PendingPlaces == {"titling", "importing"}
FiledPlaces == {"asked", "running", "forking", "titling", "importing"}

Sidecar == [parent : Ids \cup {None}, count : Int]
Process == [at : LivePlaces \cup PendingPlaces \cup {"away", "exporting"},
            sid : Ids \cup {None}, parent : Ids \cup {None},
            events : Seq(Event), held : Sidecar]

TypeInv ==
  /\ stored \subseteq used /\ used \subseteq Ids
  /\ log \in [Ids -> Seq(Event)]
  /\ meta \in [Ids -> Sidecar]
  /\ bundle \in [sid : Ids \cup {None}, log : Seq(Event), torn : BOOLEAN, meta : Sidecar]
  /\ actor \in [Actors -> Process]
  /\ origin \in [Ids -> Ids \cup {None}]

(* What is not on disk leaves nothing behind, and a bundle is of an id     *)
(* that was given out.                                                     *)
NothingLeft ==
  /\ \A i \in Ids : i \notin stored => log[i] = <<>> /\ meta[i] = NoMeta
  /\ \A i \in Ids : i \notin used => origin[i] = None
  /\ bundle = NoBundle \/ bundle.sid \in used

(* A live Session is alone with its id, whose log is what it remembers;    *)
(* before its first query nobody else can have an id like it to import.    *)
Placed ==
  /\ \A a \in Actors : At(a, LivePlaces \cup PendingPlaces) => actor[a].sid \in used
  /\ \A a \in Actors : At(a, FiledPlaces) => actor[a].sid \in stored
  /\ \A a \in Actors : At(a, LivePlaces) =>
       /\ actor[a].events = log[actor[a].sid]
       /\ actor[a].sid \notin stored => bundle.sid # actor[a].sid
  /\ \A a, b \in Actors : At(a, LivePlaces) /\ At(b, LivePlaces) /\ a # b
                            => actor[a].sid # actor[b].sid

(* Events that carry the id and the numbers of their places.               *)
Own(es, i) == \A k \in 1..Len(es) : es[k].sid = i /\ es[k].seq = k - 1
AllOwn == (\A i \in Ids : Own(log[i], i)) /\ Own(bundle.log, bundle.sid)

(* What a sidecar, a live Session or a pending command holds of the parent *)
(* of a session is where the session came from.                            *)
ParentTold(parent, i) == parent = origin[i] \/ i \in bare
AllTold ==
  /\ \A i \in Ids : meta[i] # NoMeta => ParentTold(meta[i].parent, i)
  /\ \A a \in Actors : At(a, LivePlaces) => ParentTold(actor[a].parent, actor[a].sid)
  /\ \A a \in Actors : At(a, PendingPlaces) => ParentTold(actor[a].held.parent, actor[a].sid)

Inv == TypeInv /\ NothingLeft /\ Placed /\ AllOwn /\ AllTold

-----------------------------------------------------------------------------
(* Helpers.                                                                *)

(* An event of run_stream goes on with the numbers of its log.             *)
LEMMA AppendOwn ==
  ASSUME NEW i \in Ids, NEW es \in Seq(Event), Own(es, i),
         NEW kind \in {"query", "answer"}
  PROVE  LET e == [sid |-> i, seq |-> NextSeq(es), kind |-> kind]
         IN e \in Event /\ Append(es, e) \in Seq(Event) /\ Own(Append(es, e), i)
BY DEF Own, NextSeq, Event

(* fork's copy of a prefix carries the child's id and the same numbers.    *)
LEMMA CopiedOwn ==
  ASSUME NEW i \in Ids, NEW j, NEW es \in Seq(Event), Own(es, j), NEW cut \in 0..Len(es)
  PROVE  Copied(es, cut, i) \in Seq(Event) /\ Own(Copied(es, cut, i), i)
<1> DEFINE c == Copied(es, cut, i)
<1>1. \A k \in 1..cut : c[k] = [es[k] EXCEPT !.sid = i] /\ es[k] \in Event /\ es[k].seq = k - 1
  BY DEF Copied, Own
<1>2. \A k \in 1..cut : c[k] \in Event /\ c[k].sid = i /\ c[k].seq = k - 1
  BY <1>1 DEF Event
<1>3. c \in [1..cut -> Event] /\ cut \in Nat
  BY <1>2 DEF Copied
<1>4. c \in Seq(Event) /\ Len(c) = cut
  BY <1>3
<1> QED
  BY <1>2, <1>4 DEF Own

(* What an idle process and a missing sidecar hold has its type.           *)
LEMMA AwayTyped == Away \in Process /\ NoMeta \in Sidecar /\ NoBundle.log \in Seq(Event)
<1>1. NoMeta \in Sidecar
  BY DEF NoMeta, Sidecar, None
<1>2. <<>> \in Seq(Event)
  OBVIOUS
<1>3. Away \in Process
  BY <1>1, <1>2 DEF Away, Process, None, LivePlaces, PendingPlaces
<1> QED
  BY <1>1, <1>2, <1>3 DEF NoBundle

(* A process that becomes a typed record keeps the processes typed ...     *)
LEMMA BecomeTyped ==
  ASSUME TypeInv, NEW a \in Actors, NEW r \in Process, Become(a, r)
  PROVE  actor' \in [Actors -> Process]
BY DEF TypeInv, Become

(* ... and so does one that only moves.                                    *)
LEMMA GotoTyped ==
  ASSUME TypeInv, NEW a \in Actors, NEW place \in LivePlaces, Goto(a, place)
  PROVE  actor' \in [Actors -> Process]
<1>1. [actor[a] EXCEPT !.at = place] \in Process
  BY ZenonT(30) DEF TypeInv, Process
<1> QED
  BY <1>1 DEF TypeInv, Goto

(* fork never cuts behind the end of a log.                                *)
LEMMA CutsInside ==
  ASSUME NEW es \in Seq(Event), NEW cut \in Cuts(es)
  PROVE  cut \in 0..Len(es)
BY DEF Cuts, Boundaries

-----------------------------------------------------------------------------
(* The steps.                                                              *)

(* Hosts and commands are the actors.                                      *)
LEMMA EveryActor == Hosts \subseteq Actors /\ Commands \subseteq Actors
BY DEF Actors

(* An empty directory satisfies the invariant ...                          *)
LEMMA InvStart == Init => Inv
<1> SUFFICES ASSUME Init PROVE Inv
  OBVIOUS
<1>1. TypeInv
  BY AwayTyped, CatalogAssumption DEF Init, TypeInv, NoBundle, None
<1>2. NothingLeft /\ Placed
  BY DEF Init, NothingLeft, Placed, LivePlaces, PendingPlaces, FiledPlaces, At, Away
<1>3. AllOwn
  BY DEF Init, AllOwn, Own, NoBundle
<1>4. AllTold
  BY DEF Init, AllTold, ParentTold, LivePlaces, PendingPlaces, At, Away
<1> QED
  BY <1>1, <1>2, <1>3, <1>4 DEF Inv

(* ... and every step of every process keeps it.                           *)
LEMMA InvKept == Inv /\ [Next]_vars => Inv'
<1> SUFFICES ASSUME Inv, [Next]_vars PROVE Inv'
  OBVIOUS
<1> USE DEF Inv
<1>1. ASSUME NEW a \in Hosts, NEW i \in Ids, New(a, i) PROVE Inv'
  <2>1. TypeInv'
    <3>1. [Away EXCEPT !.at = "idle", !.sid = i] \in Process
      BY AwayTyped DEF Process, LivePlaces
    <3> QED
      BY <1>1, <3>1, BecomeTyped, EveryActor DEF New, TypeInv, files
  <2>2. NothingLeft'
    BY <1>1, EveryActor DEF NothingLeft, New, files
  <2>3. Placed'
    BY <1>1, EveryActor DEF TypeInv, Placed, FiledPlaces, At, NothingLeft, NoBundle, None,
       New, Become, Away, files
  <2>4. AllOwn'
    BY <1>1, EveryActor DEF AllOwn, New, files
  <2>5. AllTold'
    BY <1>1, EveryActor DEF At, NothingLeft, AllTold, ParentTold, New, Become, Away, NoMeta
  <2> QED
    BY <2>1, <2>2, <2>3, <2>4, <2>5
<1>2. ASSUME NEW a \in Hosts, NEW i \in Ids, Load(a, i) PROVE Inv'
  <2>1. TypeInv'
    <3>1. ReadMeta(i) \in Sidecar
      BY AwayTyped, <1>2 DEF TypeInv, ReadMeta, Rebuilt, Sidecar
    <3>2. Loaded(i) \in Process
      BY <3>1, AwayTyped DEF TypeInv, Loaded, Process, Sidecar, LivePlaces
    <3> QED
      BY <1>2, <3>2, BecomeTyped, EveryActor DEF Load, OpenAs, TypeInv, files
  <2>2. NothingLeft'
    BY <1>2, EveryActor DEF NothingLeft, Load, OpenAs, files
  <2>3. Placed'
    BY <1>2, EveryActor DEF TypeInv, Placed, LivePlaces, At, Load, OpenAs, Loaded, Exists,
       Live, Become, files
  <2>4. AllOwn'
    BY <1>2, EveryActor DEF AllOwn, Load, OpenAs, files
  <2>5. AllTold'
    BY <1>2, EveryActor DEF PendingPlaces, At, AllTold, ParentTold, Load, OpenAs, Loaded,
       ReadMeta, Sees, Become
  <2> QED
    BY <2>1, <2>2, <2>3, <2>4, <2>5
<1>3. ASSUME NEW a \in Actors, Close(a) PROVE Inv'
  <2>1. TypeInv'
    BY <1>3, AwayTyped, BecomeTyped DEF Close, TypeInv, files
  <2>2. NothingLeft'
    BY <1>3 DEF NothingLeft, Close, files
  <2>3. Placed'
    BY <1>3 DEF Placed, LivePlaces, PendingPlaces, FiledPlaces, At, Close, Become, Away,
       files
  <2>4. AllOwn'
    BY <1>3 DEF AllOwn, Close, files
  <2>5. AllTold'
    BY <1>3 DEF LivePlaces, PendingPlaces, At, AllTold, ParentTold, Close, Become, Away
  <2> QED
    BY <2>1, <2>2, <2>3, <2>4, <2>5
<1>4. ASSUME NEW a \in Actors, Ask(a) \/ Answer(a) PROVE Inv'
  <2> DEFINE i == actor[a].sid
             es == actor[a].events
  <2>1. PICK kind \in {"query", "answer"}, place \in {"asked", "running"} :
          At(a, {"idle", "asked"}) /\ Emit(a, kind, place)
    BY <1>4 DEF Ask, Answer, At
  <2> DEFINE new == Append(es, [sid |-> i, seq |-> NextSeq(es), kind |-> kind])
  <2>2. i \in Ids /\ i \in used /\ es = log[i] /\ es \in Seq(Event) /\ Own(es, i)
    BY <2>1 DEF TypeInv, Placed, AllOwn, At, LivePlaces
  <2>3. new \in Seq(Event) /\ Own(new, i)
    BY <2>2, AppendOwn
  <2>4. /\ log' = [log EXCEPT ![i] = new] /\ stored' = stored \cup {i}
        /\ actor' = [actor EXCEPT ![a] = [actor[a] EXCEPT !.at = place, !.events = new]]
        /\ UNCHANGED <<meta, bundle, used, origin, bare>>
    <3>1. [actor[a] EXCEPT !.at = place, !.events = Append(@, [sid |-> i, seq |-> NextSeq(es), kind |-> kind])]
            = [actor[a] EXCEPT !.at = place, !.events = new]
      BY <2>1 DEF TypeInv, Process
    <3>2. /\ WriteLog(i, Append(log[i], [sid |-> i, seq |-> NextSeq(es), kind |-> kind]))
          /\ Become(a, [actor[a] EXCEPT !.at = place, !.events = new])
          /\ UNCHANGED <<meta, bundle, used, origin, bare>>
      BY <2>1, <3>1, Zenon DEF Emit
    <3> QED
      BY <2>2, <3>2 DEF WriteLog, WriteLogTorn, Become
  <2> HIDE DEF new
  <2>5. [actor[a] EXCEPT !.at = place, !.events = new] \in Process
    BY <2>3, ZenonT(30) DEF TypeInv, Process, LivePlaces
  <2>6. TypeInv'
    BY <2>2, <2>3, <2>4, <2>5 DEF TypeInv
  <2>7. NothingLeft'
    BY <2>1, <2>2, <2>3, <2>4 DEF NothingLeft
  <2>8. Placed'
    BY <2>1, <2>2, <2>3, <2>4 DEF TypeInv, Placed, LivePlaces, At
  <2>9. AllOwn'
    BY <2>1, <2>2, <2>3, <2>4 DEF TypeInv, AllOwn
  <2>10. AllTold'
    BY <2>1, <2>2, <2>3, <2>4 DEF LivePlaces, PendingPlaces, At, AllTold, ParentTold
  <2> QED
    BY <2>6, <2>7, <2>8, <2>9, <2>10
<1>5. ASSUME NEW a \in Actors, AppendTorn(a) PROVE Inv'
  <2>1. TypeInv'
    BY <1>5, AwayTyped, BecomeTyped DEF AppendTorn, WriteLogTorn, TypeInv, Placed,
       LivePlaces, At
  <2>2. NothingLeft'
    BY <1>5 DEF NothingLeft, AppendTorn, WriteLogTorn
  <2>3. Placed'
    BY <1>5 DEF Placed, LivePlaces, PendingPlaces, FiledPlaces, At, AppendTorn,
       WriteLogTorn, Become, Away
  <2>4. AllOwn'
    BY <1>5 DEF AllOwn, AppendTorn, WriteLogTorn
  <2>5. AllTold'
    BY <1>5 DEF LivePlaces, PendingPlaces, At, AllTold, ParentTold, AppendTorn, Become, Away
  <2> QED
    BY <2>1, <2>2, <2>3, <2>4, <2>5
<1>6. ASSUME NEW a \in Actors, AbandonQuery(a) PROVE Inv'
  <2>1. TypeInv'
    BY <1>6, GotoTyped DEF AbandonQuery, TypeInv, files, LivePlaces
  <2>2. NothingLeft'
    BY <1>6 DEF NothingLeft, AbandonQuery, files
  <2>3. Placed'
    BY <1>6 DEF Placed, LivePlaces, FiledPlaces, At, AbandonQuery, Goto, files
  <2>4. AllOwn'
    BY <1>6 DEF AllOwn, AbandonQuery, files
  <2>5. AllTold'
    BY <1>6 DEF LivePlaces, PendingPlaces, At, AllTold, ParentTold, AbandonQuery, Goto
  <2> QED
    BY <2>1, <2>2, <2>3, <2>4, <2>5
<1>7. ASSUME NEW a \in Actors, SaveMeta(a) PROVE Inv'
  <2>1. TypeInv'
    <3>1. [parent |-> actor[a].parent, count |-> Len(actor[a].events)] \in Sidecar
      BY DEF TypeInv, Process, Sidecar
    <3> QED
      BY <1>7, <3>1, GotoTyped DEF SaveMeta, SaveMetaAs, WriteMeta, TypeInv, files,
         LivePlaces
  <2>2. NothingLeft'
    BY <1>7 DEF Placed, FiledPlaces, At, NothingLeft, SaveMeta, SaveMetaAs, WriteMeta, files
  <2>3. Placed'
    BY <1>7 DEF Placed, LivePlaces, FiledPlaces, At, SaveMeta, SaveMetaAs, Goto, files
  <2>4. AllOwn'
    BY <1>7 DEF AllOwn, SaveMeta, SaveMetaAs, files
  <2>5. AllTold'
    BY <1>7 DEF LivePlaces, PendingPlaces, At, AllTold, ParentTold, SaveMeta, SaveMetaAs,
       WriteMeta, Goto
  <2> QED
    BY <2>1, <2>2, <2>3, <2>4, <2>5
<1>8. ASSUME NEW a \in Commands, NEW i \in Ids, ReadTitle(a, i) PROVE Inv'
  <2>1. TypeInv'
    <3>1. ReadMeta(i) \in Sidecar
      BY AwayTyped, <1>8 DEF TypeInv, ReadMeta, Rebuilt, Sidecar
    <3>2. [Away EXCEPT !.at = "titling", !.sid = i, !.held = ReadMeta(i)] \in Process
      BY <3>1, AwayTyped DEF Process, PendingPlaces
    <3> QED
      BY <1>8, <3>2, BecomeTyped, EveryActor DEF ReadTitle, TypeInv, files
  <2>2. NothingLeft'
    BY <1>8, EveryActor DEF NothingLeft, ReadTitle, files
  <2>3. Placed'
    BY <1>8, EveryActor DEF TypeInv, Placed, LivePlaces, At, ReadTitle, Exists, Become,
       files
  <2>4. AllOwn'
    BY <1>8, EveryActor DEF AllOwn, ReadTitle, files
  <2>5. AllTold'
    BY <1>8, EveryActor DEF LivePlaces, At, AllTold, ParentTold, ReadTitle, ReadMeta, Sees, Become
  <2> QED
    BY <2>1, <2>2, <2>3, <2>4, <2>5
<1>9. ASSUME NEW a \in Actors, WriteTitle(a) PROVE Inv'
  <2>1. TypeInv'
    <3>1. actor[a].held \in Sidecar
      BY DEF TypeInv, Process
    <3> QED
      BY <1>9, <3>1, AwayTyped, BecomeTyped DEF WriteTitle, WriteMeta, TypeInv, files
  <2>2. NothingLeft'
    BY <1>9 DEF Placed, FiledPlaces, At, NothingLeft, WriteTitle, WriteMeta, files
  <2>3. Placed'
    BY <1>9 DEF Placed, LivePlaces, PendingPlaces, FiledPlaces, At, WriteTitle, Become,
       Away, files
  <2>4. AllOwn'
    BY <1>9 DEF AllOwn, WriteTitle, files
  <2>5. AllTold'
    BY <1>9 DEF LivePlaces, PendingPlaces, At, AllTold, ParentTold, WriteTitle, WriteMeta,
       Become, Away
  <2> QED
    BY <2>1, <2>2, <2>3, <2>4, <2>5
<1>10. ASSUME NEW a \in Actors, NEW i \in Ids, ForkLog(a, i) PROVE Inv'
  <2> DEFINE j == actor[a].sid
             es == actor[a].events
  <2>1. j \in Ids /\ j \in used /\ es = log[j] /\ es \in Seq(Event) /\ Own(es, j) /\ i \notin used
    BY <1>10 DEF ForkLog, FreshId, TypeInv, Placed, AllOwn, At, LivePlaces
  <2>2. PICK cut \in Cuts(es) :
          LET prefix == Copied(es, cut, i)
          IN /\ WriteLog(i, prefix)
             /\ Become(a, [Away EXCEPT !.at = "forking", !.sid = i, !.events = prefix, !.parent = j])
    BY <1>10 DEF ForkLog
  <2> DEFINE new == Copied(es, cut, i)
             child == [Away EXCEPT !.at = "forking", !.sid = i, !.events = new, !.parent = j]
  <2>3. new \in Seq(Event) /\ Own(new, i)
    BY <2>1, CutsInside, CopiedOwn
  <2>4. /\ log' = [log EXCEPT ![i] = new] /\ stored' = stored \cup {i}
        /\ actor' = [actor EXCEPT ![a] = child]
        /\ used' = used \cup {i} /\ origin' = [origin EXCEPT ![i] = j]
        /\ UNCHANGED <<meta, bundle, bare>>
    BY <1>10, <2>2 DEF ForkLog, WriteLog, WriteLogTorn, Become
  <2> HIDE DEF new
  <2>5. child \in Process
    BY <2>1, <2>3, AwayTyped DEF Process, LivePlaces
  <2>6. TypeInv'
    BY <2>1, <2>3, <2>4, <2>5 DEF TypeInv
  <2>7. NothingLeft'
    BY <2>1, <2>3, <2>4 DEF NothingLeft
  <2>8. Placed'
    BY <2>1, <2>3, <2>4 DEF TypeInv, Placed, At
  <2>9. AllOwn'
    BY <2>1, <2>3, <2>4 DEF TypeInv, AllOwn
  <2>10. AllTold'
    BY <2>1, <2>3, <2>4 DEF TypeInv, Placed, PendingPlaces, At, NothingLeft, AllTold, ParentTold
  <2> QED
    BY <2>6, <2>7, <2>8, <2>9, <2>10
<1>11. ASSUME NEW a \in Actors, NEW i \in Ids, ForkTorn(a, i) PROVE Inv'
  <2> DEFINE j == actor[a].sid
             es == actor[a].events
  <2>1. j \in Ids /\ j \in used /\ es = log[j] /\ es \in Seq(Event) /\ Own(es, j) /\ i \notin used
    BY <1>11 DEF ForkTorn, FreshId, TypeInv, Placed, AllOwn, At, LivePlaces
  <2>2. PICK n \in 0..(Len(es) - 1), half \in BOOLEAN : WriteLogTorn(i, Copied(es, n, i), half)
    BY <1>11 DEF ForkTorn
  <2> DEFINE new == Copied(es, n, i)
  <2>3. new \in Seq(Event) /\ Own(new, i)
    <3>1. n \in 0..Len(es)
      BY <2>1
    <3> QED
      BY <2>1, <3>1, CopiedOwn
  <2>4. /\ log' = [log EXCEPT ![i] = new] /\ stored' = stored \cup {i}
        /\ actor' = [actor EXCEPT ![a] = Away]
        /\ used' = used \cup {i} /\ origin' = [origin EXCEPT ![i] = j]
        /\ UNCHANGED <<meta, bundle, bare>>
    BY <1>11, <2>2 DEF ForkTorn, WriteLogTorn, Become
  <2> HIDE DEF new
  <2>5. TypeInv'
    BY <2>1, <2>3, <2>4, AwayTyped DEF TypeInv
  <2>6. NothingLeft'
    BY <2>1, <2>3, <2>4 DEF NothingLeft
  <2>7. Placed'
    BY <2>1, <2>3, <2>4 DEF Placed, LivePlaces, PendingPlaces, FiledPlaces, At, Away
  <2>8. AllOwn'
    BY <2>1, <2>3, <2>4 DEF TypeInv, AllOwn
  <2>9. AllTold'
    BY <2>1, <2>3, <2>4 DEF TypeInv, Placed, LivePlaces, PendingPlaces, At, NothingLeft,
       AllTold, ParentTold, Away
  <2> QED
    BY <2>5, <2>6, <2>7, <2>8, <2>9
<1>12. ASSUME NEW a \in Actors, ForkMeta(a) PROVE Inv'
  <2>1. TypeInv'
    <3>1. [parent |-> actor[a].parent, count |-> Len(actor[a].events)] \in Sidecar
      BY DEF TypeInv, Process, Sidecar
    <3> QED
      BY <1>12, <3>1, GotoTyped DEF ForkMeta, WriteMeta, TypeInv, files, LivePlaces
  <2>2. NothingLeft'
    BY <1>12 DEF Placed, FiledPlaces, At, NothingLeft, ForkMeta, WriteMeta, files
  <2>3. Placed'
    BY <1>12 DEF Placed, LivePlaces, FiledPlaces, At, ForkMeta, Goto, files
  <2>4. AllOwn'
    BY <1>12 DEF AllOwn, ForkMeta, files
  <2>5. AllTold'
    BY <1>12 DEF LivePlaces, PendingPlaces, At, AllTold, ParentTold, ForkMeta, WriteMeta, Goto
  <2> QED
    BY <2>1, <2>2, <2>3, <2>4, <2>5
<1>13. ASSUME NEW a \in Commands, NEW i \in Ids, ExportLog(a, i) PROVE Inv'
  <2>1. TypeInv'
    <3>1. [Away EXCEPT !.at = "exporting", !.sid = i] \in Process
      BY AwayTyped DEF Process
    <3>2. [sid |-> i, log |-> log[i], torn |-> ~Readable(i), meta |-> NoMeta] \in
              [sid : Ids \cup {None}, log : Seq(Event), torn : BOOLEAN, meta : Sidecar]
      BY AwayTyped DEF TypeInv, Readable
    <3> QED
      BY <1>13, <3>1, <3>2, BecomeTyped, EveryActor DEF ExportLog, TypeInv, files
  <2>2. NothingLeft'
    BY <1>13, EveryActor DEF TypeInv, NothingLeft, ExportLog, Resolves, Matching, Listed,
       Exists, files
  <2>3. Placed'
    BY <1>13, EveryActor DEF Placed, LivePlaces, PendingPlaces, At, ExportLog, Resolves,
       Matching, Listed, Exists, Become, files
  <2>4. AllOwn'
    BY <1>13, EveryActor DEF AllOwn, ExportLog, files
  <2>5. AllTold'
    BY <1>13, EveryActor DEF LivePlaces, PendingPlaces, At, AllTold, ParentTold, ExportLog, Become
  <2> QED
    BY <2>1, <2>2, <2>3, <2>4, <2>5
<1>14. ASSUME NEW a \in Actors, ExportMeta(a) PROVE Inv'
  <2>1. TypeInv'
    <3>1. \A i \in Ids : ReadMeta(i) \in Sidecar
      BY AwayTyped DEF TypeInv, ReadMeta, Rebuilt, Sidecar
    <3>2. actor[a].sid \in Ids
      BY <1>14 DEF ExportMeta, Exists, TypeInv
    <3>3. [bundle EXCEPT !.meta = ReadMeta(actor[a].sid)] \in
              [sid : Ids \cup {None}, log : Seq(Event), torn : BOOLEAN, meta : Sidecar]
      BY <3>1, <3>2 DEF TypeInv
    <3> QED
      BY <1>14, <3>3, AwayTyped, BecomeTyped DEF ExportMeta, TypeInv, files
  <2> DEFINE i == actor[a].sid
  <2>6. /\ bundle'.sid = bundle.sid /\ bundle'.log = bundle.log
        /\ i \in used /\ (bundle' = bundle \/ bundle.sid = i)
    BY <1>14 DEF ExportMeta, TypeInv, Exists
  <2>2. NothingLeft'
    BY <1>14, <2>6 DEF NothingLeft, ExportMeta, files
  <2>3. Placed'
    BY <1>14 DEF TypeInv, Placed, LivePlaces, PendingPlaces, FiledPlaces, At, ExportMeta,
       Become, Away, files
  <2>4. AllOwn'
    BY <1>14, <2>6 DEF AllOwn, ExportMeta, files
  <2>5. AllTold'
    BY <1>14 DEF LivePlaces, PendingPlaces, At, AllTold, ParentTold, ExportMeta, Sees, Become,
       Away
  <2> QED
    BY <2>1, <2>2, <2>3, <2>4, <2>5
<1>15. ASSUME NEW a \in Commands, ImportLog(a) PROVE Inv'
  <2> DEFINE i == bundle.sid
             mine == [Away EXCEPT !.at = "importing", !.sid = i, !.held = bundle.meta]
  <2>1. /\ i \in Ids /\ i \in used /\ i \notin stored /\ a \in Actors
        /\ bundle.log \in Seq(Event) /\ bundle.meta \in Sidecar
    BY <1>15, EveryActor DEF ImportLog, Importable, Exists, TypeInv, NothingLeft
  <2>2. /\ log' = [log EXCEPT ![i] = bundle.log] /\ stored' = stored \cup {i}
        /\ actor' = [actor EXCEPT ![a] = mine]
        /\ origin' = [origin EXCEPT ![i] = bundle.meta.parent]
        /\ UNCHANGED <<meta, bundle, used, bare>>
    BY <1>15 DEF ImportLog, WriteLogTorn, Become
  <2>3. mine \in Process
    BY <2>1, AwayTyped DEF Process, PendingPlaces
  <2>4. TypeInv'
    BY <2>1, <2>2, <2>3 DEF TypeInv, Sidecar
  <2>5. NothingLeft'
    BY <2>1, <2>2 DEF NothingLeft
  <2>6. Placed'
    BY <2>1, <2>2 DEF Placed, LivePlaces, At
  <2>7. AllOwn'
    BY <2>1, <2>2 DEF TypeInv, AllOwn
  <2>8. AllTold'
    BY <2>1, <2>2 DEF TypeInv, Placed, LivePlaces, PendingPlaces, FiledPlaces, At,
       NothingLeft, AllTold, ParentTold
  <2> QED
    BY <2>4, <2>5, <2>6, <2>7, <2>8
<1>16. ASSUME NEW a \in Actors, ImportMeta(a) PROVE Inv'
  <2>1. TypeInv'
    <3>1. actor[a].sid \in Ids /\ actor[a].held \in Sidecar
      BY <1>16 DEF ImportMeta, Exists, TypeInv, Process
    <3>2. Rebuilt(actor[a].sid) \in Sidecar
      BY <3>1 DEF TypeInv, Rebuilt, Sidecar
    <3> QED
      BY <1>16, <3>1, <3>2, AwayTyped, BecomeTyped DEF ImportMeta, WriteMeta, TypeInv, files
  <2>2. NothingLeft'
    BY <1>16 DEF TypeInv, Placed, FiledPlaces, At, NothingLeft, ImportMeta, WriteMeta, files
  <2>3. Placed'
    BY <1>16 DEF Placed, LivePlaces, PendingPlaces, FiledPlaces, At, ImportMeta, Become,
       Away, files
  <2>4. AllOwn'
    BY <1>16 DEF AllOwn, ImportMeta, files
  <2>6. meta' = meta \/ \E m \in Sidecar :
          meta' = [meta EXCEPT ![actor[a].sid] = m] /\ ParentTold(m.parent, actor[a].sid)
    <3>1. ParentTold(actor[a].held.parent, actor[a].sid)
      BY <1>16 DEF ImportMeta, AllTold, At, PendingPlaces
    <3>2. actor[a].sid \in Ids /\ actor[a].held \in Sidecar
      BY <1>16 DEF ImportMeta, Exists, TypeInv, Process
    <3>3. /\ Rebuilt(actor[a].sid) \in Sidecar
          /\ actor[a].held = NoMeta => Rebuilt(actor[a].sid).parent = actor[a].held.parent
      BY <3>2 DEF Rebuilt, Sidecar, NoMeta
    <3> QED
      BY <1>16, <3>1, <3>2, <3>3 DEF ImportMeta, WriteMeta
  <2>5. AllTold'
    BY <1>16, <2>6 DEF AllTold, ParentTold, TypeInv, At, LivePlaces, PendingPlaces, ImportMeta,
       Become, Away
  <2> QED
    BY <2>1, <2>2, <2>3, <2>4, <2>5
<1>17. ASSUME NEW a \in Actors, Kill(a) PROVE Inv'
  <2>1. TypeInv'
    BY <1>17, AwayTyped, BecomeTyped DEF Kill, TypeInv, files
  <2>2. NothingLeft'
    BY <1>17 DEF NothingLeft, Kill, files
  <2>3. Placed'
    BY <1>17 DEF Placed, LivePlaces, PendingPlaces, FiledPlaces, At, Kill, Become, Away,
       files
  <2>4. AllOwn'
    BY <1>17 DEF AllOwn, Kill, files
  <2>5. AllTold'
    BY <1>17 DEF LivePlaces, PendingPlaces, At, AllTold, ParentTold, Kill, Become, Away
  <2> QED
    BY <2>1, <2>2, <2>3, <2>4, <2>5
<1>18. ASSUME NEW i \in Ids, Delete(i) PROVE Inv'
  <2>1. TypeInv'
    BY <1>18, AwayTyped DEF Delete, WriteMeta, TypeInv, files
  <2>2. NothingLeft'
    BY <1>18 DEF TypeInv, NothingLeft, Delete, WriteMeta
  <2>3. Placed'
    BY <1>18 DEF Placed, At, Delete, InUse
  <2>4. AllOwn'
    BY <1>18 DEF AllOwn, Own, Delete
  <2>5. AllTold'
    BY <1>18 DEF At, AllTold, ParentTold, Delete, WriteMeta
  <2> QED
    BY <2>1, <2>2, <2>3, <2>4, <2>5
<1>19. CASE UNCHANGED vars
  BY <1>19 DEF TypeInv, NothingLeft, Placed, AllOwn, AllTold, ParentTold, At, vars, files
<1> QED
  BY <1>1, <1>2, <1>3, <1>4, <1>5, <1>6, <1>7, <1>8, <1>9, <1>10, <1>11, <1>12, <1>13,
     <1>14, <1>15, <1>16, <1>17, <1>18, <1>19 DEF Next

-----------------------------------------------------------------------------
(* The results.                                                            *)

(* Whatever was forked, resumed, exported, removed and imported again, and *)
(* whoever was killed doing it, every stored log carries its own id and    *)
(* the numbers of its places.                                              *)
THEOREM LogsSelfContained == Spec => []SelfContained
<1>1. Inv => SelfContained
  BY DEF Inv, TypeInv, AllOwn, Own, SelfContained
<1> QED
  BY InvStart, InvKept, <1>1, PTL DEF Spec

(* A sidecar names the session its own came from, unless somebody read the *)
(* log while there was no sidecar.                                         *)
THEOREM ParentsKept == Spec => []LineageKept
<1>1. Inv => LineageKept
  BY DEF Inv, TypeInv, AllTold, ParentTold, LineageKept
<1> QED
  BY InvStart, InvKept, <1>1, PTL DEF Spec

-----------------------------------------------------------------------------
(* What the listing and the server say of a session.                       *)

(* A sidecar that is there has counted something.                          *)
Made(m) == m = NoMeta \/ m.count \in Nat
CountsMade ==
  /\ \A i \in Ids : Made(meta[i])
  /\ Made(bundle.meta) /\ \A a \in Actors : Made(actor[a].held)

(* Between its query and its meta a run is ahead of the sidecar.  Unless   *)
(* the session is in doubt, a sidecar counts the log otherwise, and so     *)
(* does what a pending command will write over it, beside which nobody has *)
(* asked the session anything.                                             *)
Ahead(i) == \E a \in Actors : At(a, {"asked", "running"}) /\ actor[a].sid = i
Counted(m, i) == m # NoMeta => m.count = Len(log[i])
FilesCount == \A i \in stored : i \notin doubt /\ ~Ahead(i) => Counted(meta[i], i)
HeldCount ==
  \A a \in Actors : At(a, PendingPlaces) /\ actor[a].sid \notin doubt =>
    ~Ahead(actor[a].sid) /\ Counted(actor[a].held, actor[a].sid)

CountInv == CountsMade /\ FilesCount /\ HeldCount

LEMMA CountStart == Init => CountInv
  BY DEF Init, CountInv, CountsMade, Made, FilesCount, HeldCount, Counted, NoBundle, Away, At, PendingPlaces

(* Steps that leave the files, what was read of them and the doubt alone,  *)
(* and nobody who asks.                                                    *)
LEMMA CountStill ==
  ASSUME CountInv, UNCHANGED <<stored, log, meta>>, doubt \subseteq doubt', Made(bundle'.meta),
         NEW a \in Actors, \A b \in Actors \ {a} : actor'[b] = actor[b],
         actor'[a].held = NoMeta,
         actor'[a].at \notin PendingPlaces \cup {"asked", "running"},
         At(a, {"asked", "running"}) => actor[a].sid \in doubt'
  PROVE  CountInv'
<1>1. CountsMade'
  BY DEF CountInv, CountsMade, Made
<1>2. \A i : i \notin doubt' => (Ahead(i)' <=> Ahead(i))
  BY DEF Ahead, At
<1>3. FilesCount'
  BY <1>2 DEF CountInv, FilesCount, Counted
<1>4. HeldCount'
  BY <1>2 DEF CountInv, HeldCount, Counted, At
<1> QED
  BY <1>1, <1>3, <1>4 DEF CountInv

LEMMA CountKept == Inv /\ CountInv /\ [Next]_vars => CountInv'
<1> SUFFICES ASSUME Inv, CountInv, [Next]_vars PROVE CountInv'
  OBVIOUS
<1> USE DEF Inv
<1>0. /\ actor \in [Actors -> Process] /\ Made(bundle.meta) /\ Away.held = NoMeta /\ Away.at = "away"
      /\ Made(NoMeta)
  BY DEF TypeInv, CountInv, CountsMade, Away, Made
<1>1. ASSUME NEW a \in Hosts, NEW i \in Ids, New(a, i) PROVE CountInv'
  <2>1. actor' = [actor EXCEPT ![a] = [Away EXCEPT !.at = "idle", !.sid = i]] /\ At(a, {"away"})
    BY <1>1 DEF New, Become
  <2>2. /\ a \in Actors /\ actor'[a].held = NoMeta /\ actor'[a].at = "idle"
        /\ \A b \in Actors \ {a} : actor'[b] = actor[b]
    BY <1>0, <2>1, EveryActor DEF Away
  <2> QED
    BY <1>0, <1>1, <2>1, <2>2, CountStill DEF New, files, At, PendingPlaces
<1>2. ASSUME NEW a \in Hosts, NEW i \in Ids, Load(a, i) PROVE CountInv'
  <2>1. actor' = [actor EXCEPT ![a] = Loaded(i)] /\ At(a, {"away"})
    BY <1>2 DEF Load, OpenAs, Become
  <2>2. /\ a \in Actors /\ actor'[a].held = NoMeta /\ actor'[a].at = "idle"
        /\ \A b \in Actors \ {a} : actor'[b] = actor[b]
    BY <1>0, <2>1, EveryActor DEF Loaded, Away
  <2> QED
    BY <1>0, <1>2, <2>1, <2>2, CountStill DEF Load, OpenAs, files, At, PendingPlaces
<1>3. ASSUME NEW a \in Actors, Close(a) PROVE CountInv'
  <2>1. /\ actor'[a].held = NoMeta /\ actor'[a].at = "away" /\ At(a, {"idle"})
        /\ \A b \in Actors \ {a} : actor'[b] = actor[b]
    BY <1>0, <1>3 DEF Close, Become
  <2> QED
    BY <1>0, <1>3, <2>1, CountStill DEF Close, files, At, PendingPlaces
<1>4. ASSUME NEW a \in Actors, Ask(a) \/ Answer(a) PROVE CountInv'
  <2> DEFINE i == actor[a].sid
  <2>1. PICK kind \in {"query", "answer"}, place \in {"asked", "running"} :
          At(a, {"idle", "asked"}) /\ Emit(a, kind, place)
    BY <1>4 DEF Ask, Answer, At
  <2>2. PICK new, r : /\ log' = [log EXCEPT ![i] = new] /\ stored' = stored \cup {i}
                      /\ actor' = [actor EXCEPT ![a] = r]
                      /\ r.at = place /\ r.sid = i /\ r.held = actor[a].held
    <3>1. PICK new, es : WriteLog(i, new) /\ Become(a, [actor[a] EXCEPT !.at = place, !.events = es])
      <4> DEFINE e == [sid |-> i, seq |-> NextSeq(actor[a].events), kind |-> kind]
      <4>1. /\ WriteLog(i, Append(log[i], e))
            /\ Become(a, [actor[a] EXCEPT !.at = place, !.events = Append(@, e)])
        BY <2>1, Zenon DEF Emit
      <4>2. [actor[a] EXCEPT !.at = place, !.events = Append(@, e)]
              = [actor[a] EXCEPT !.at = place, !.events = Append(actor[a].events, e)]
        BY <1>0 DEF Process
      <4> QED
        BY <4>1, <4>2
    <3>2. LET r == [actor[a] EXCEPT !.at = place, !.events = es]
          IN r.at = place /\ r.sid = i /\ r.held = actor[a].held
      BY <1>0 DEF Process
    <3> QED
      BY <3>1, <3>2 DEF WriteLog, WriteLogTorn, Become
  <2>3. /\ actor'[a].at = place /\ actor'[a].sid = i /\ actor'[a].held = actor[a].held
        /\ \A b \in Actors \ {a} : actor'[b] = actor[b]
    BY <1>0, <2>2
  <2>4. UNCHANGED <<meta, bundle>> /\ doubt' = IF Pending(i) THEN doubt \cup {i} ELSE doubt
    BY <2>1 DEF Emit, Overlapped
  <2>5. i \in Ids /\ log \in [Ids -> Seq(Event)]
    BY <2>1 DEF TypeInv, Placed, At, LivePlaces
  <2>6. CountsMade'
    BY <2>3, <2>4 DEF CountInv, CountsMade, Made
  <2>7. Ahead(i)' /\ \A j : j # i => (Ahead(j)' <=> Ahead(j))
    BY <2>3 DEF Ahead, At
  <2>8. \A j \in Ids : j # i => log'[j] = log[j]
    BY <2>2, <2>5
  <2>9. FilesCount'
    BY <2>2, <2>4, <2>7, <2>8 DEF CountInv, FilesCount, Counted, TypeInv
  <2>10. \A b \in Actors : At(b, PendingPlaces)' => b # a /\ At(b, PendingPlaces) /\ actor[b].sid \in Ids
    BY <2>3 DEF At, PendingPlaces, Placed, TypeInv
  <2>11. \A b \in Actors : At(b, PendingPlaces)' /\ actor[b].sid = i => i \in doubt'
    BY <2>4, <2>10 DEF Pending, At, PendingPlaces
  <2>12. HeldCount'
    BY <2>3, <2>4, <2>7, <2>8, <2>10, <2>11 DEF CountInv, HeldCount, Counted
  <2> QED
    BY <2>6, <2>9, <2>12 DEF CountInv
<1>5. ASSUME NEW a \in Actors, AppendTorn(a) PROVE CountInv'
  <2> DEFINE i == actor[a].sid
  <2>1. /\ stored' = stored \cup {i} /\ UNCHANGED <<meta, bundle>> /\ doubt' = doubt \cup {i}
        /\ actor' = [actor EXCEPT ![a] = Away] /\ log' = [log EXCEPT ![i] = log[i]]
    BY <1>5 DEF AppendTorn, WriteLogTorn, Become
  <2>2. log' = log
    BY <2>1 DEF TypeInv
  <2>3. /\ actor'[a] = Away
        /\ \A b \in Actors \ {a} : actor'[b] = actor[b]
    BY <1>0, <2>1
  <2>4. CountsMade'
    BY <1>0, <2>1, <2>3 DEF CountInv, CountsMade, Made
  <2>5. \A j : j # i => (Ahead(j)' <=> Ahead(j))
    BY <1>0, <2>3 DEF Ahead, At
  <2>6. FilesCount'
    BY <2>1, <2>2, <2>5 DEF CountInv, FilesCount, Counted
  <2>7. HeldCount'
    BY <1>0, <2>1, <2>2, <2>3, <2>5 DEF CountInv, HeldCount, Counted, At, PendingPlaces
  <2> QED
    BY <2>4, <2>6, <2>7 DEF CountInv
<1>6. ASSUME NEW a \in Actors, AbandonQuery(a) PROVE CountInv'
  <2>1. /\ actor'[a].at = "idle" /\ actor'[a].held = actor[a].held /\ actor'[a].sid = actor[a].sid
        /\ \A b \in Actors \ {a} : actor'[b] = actor[b]
    BY <1>0, <1>6 DEF AbandonQuery, Goto, Process
  <2>2. doubt' = doubt \cup {actor[a].sid} /\ UNCHANGED <<stored, log, meta, bundle>>
    BY <1>6 DEF AbandonQuery, files
  <2>3. CountsMade'
    BY <2>1, <2>2 DEF CountInv, CountsMade, Made
  <2>4. \A j : j # actor[a].sid => (Ahead(j)' <=> Ahead(j))
    BY <2>1 DEF Ahead, At
  <2>5. FilesCount'
    BY <2>2, <2>4 DEF CountInv, FilesCount, Counted
  <2>6. HeldCount'
    BY <2>1, <2>2, <2>4 DEF CountInv, HeldCount, Counted, At, PendingPlaces
  <2> QED
    BY <2>3, <2>5, <2>6 DEF CountInv
<1>7. ASSUME NEW a \in Actors, SaveMeta(a) PROVE CountInv'
  <2> DEFINE i == actor[a].sid
             m == [parent |-> actor[a].parent, count |-> Len(actor[a].events)]
  <2>1. /\ actor'[a].at = "idle" /\ actor'[a].held = actor[a].held /\ actor'[a].sid = i
        /\ \A b \in Actors \ {a} : actor'[b] = actor[b]
    BY <1>0, <1>7 DEF SaveMeta, SaveMetaAs, Goto, Process
  <2>2. /\ meta' = [meta EXCEPT ![i] = m] /\ UNCHANGED <<stored, log, bundle>> /\ At(a, {"running"})
        /\ doubt' = IF Pending(i) THEN doubt \cup {i} ELSE doubt \ {i}
    BY <1>7 DEF SaveMeta, SaveMetaAs, WriteMeta, files
  <2>3. i \in Ids /\ actor[a].events = log[i] /\ Len(log[i]) \in Nat
    BY <2>2 DEF TypeInv, Placed, At, LivePlaces
  <2>4. meta'[i].count = Len(log'[i]) /\ \A j \in Ids : j # i => meta'[j] = meta[j]
    BY <2>2, <2>3 DEF TypeInv
  <2>5. CountsMade'
    BY <2>1, <2>2, <2>3, <2>4 DEF CountInv, CountsMade, Made
  <2>6. \A j : j # i => (Ahead(j)' <=> Ahead(j))
    BY <2>1 DEF Ahead, At
  <2>7. FilesCount'
    BY <2>2, <2>4, <2>6 DEF CountInv, FilesCount, Counted, TypeInv
  <2>8. \A b \in Actors : At(b, PendingPlaces)' => b # a /\ At(b, PendingPlaces)
    BY <2>1 DEF At, PendingPlaces
  <2>9. \A b \in Actors : At(b, PendingPlaces) /\ actor[b].sid = i => i \in doubt'
    BY <2>2 DEF Pending, At, PendingPlaces
  <2>10. HeldCount'
    BY <2>1, <2>2, <2>6, <2>8, <2>9 DEF CountInv, HeldCount, Counted
  <2> QED
    BY <2>5, <2>7, <2>10 DEF CountInv
<1>8. ASSUME NEW a \in Commands, NEW i \in Ids, ReadTitle(a, i) PROVE CountInv'
  <2> DEFINE mine == [Away EXCEPT !.at = "titling", !.sid = i, !.held = ReadMeta(i)]
  <2>1. /\ actor' = [actor EXCEPT ![a] = mine] /\ At(a, {"away"}) /\ i \in stored
        /\ doubt' = (IF Busy(i) THEN doubt \cup {i} ELSE doubt)
        /\ UNCHANGED <<stored, log, meta, bundle>>
    BY <1>8 DEF ReadTitle, Become, Exists, files
  <2>2. mine.at = "titling" /\ mine.sid = i /\ mine.held = ReadMeta(i)
    BY DEF Away
  <2>3. /\ actor'[a].at = "titling" /\ actor'[a].sid = i /\ actor'[a].held = ReadMeta(i)
        /\ \A b \in Actors \ {a} : actor'[b] = actor[b]
    BY <1>0, <2>1, <2>2, EveryActor
  <2>4. Made(ReadMeta(i)) /\ (meta[i] = NoMeta => ReadMeta(i).count = Len(log[i]))
    BY DEF ReadMeta, Rebuilt, Made, CountInv, CountsMade, TypeInv
  <2>5. CountsMade'
    BY <2>1, <2>3, <2>4 DEF CountInv, CountsMade, Made
  <2>6. \A j : Ahead(j)' <=> Ahead(j)
    BY <2>1, <2>3 DEF Ahead, At
  <2>7. FilesCount'
    BY <2>1, <2>6 DEF CountInv, FilesCount, Counted
  <2>8. ~Busy(i) => ~Ahead(i) /\ \A b \in Actors : At(b, PendingPlaces) => actor[b].sid # i
    BY DEF Busy, Ahead, At, PendingPlaces
  <2>9. i \notin doubt' => ~Ahead(i) /\ Counted(ReadMeta(i), i)
    BY <2>1, <2>4, <2>8 DEF CountInv, FilesCount, Counted, ReadMeta
  <2>10. \A b \in Actors : At(b, PendingPlaces)' => b = a \/ At(b, PendingPlaces)
    BY <2>3 DEF At
  <2>11. HeldCount'
    BY <2>1, <2>3, <2>6, <2>9, <2>10 DEF CountInv, HeldCount, Counted
  <2> QED
    BY <2>5, <2>7, <2>11 DEF CountInv
<1>9. ASSUME NEW a \in Actors, WriteTitle(a) PROVE CountInv'
  <2> DEFINE i == actor[a].sid
  <2>1. /\ actor' = [actor EXCEPT ![a] = Away] /\ At(a, {"titling"})
        /\ meta' = [meta EXCEPT ![i] = actor[a].held]
        /\ UNCHANGED <<stored, log, bundle, doubt>>
    BY <1>9 DEF WriteTitle, WriteMeta, Become, files
  <2>2. actor'[a] = Away /\ \A b \in Actors \ {a} : actor'[b] = actor[b]
    BY <1>0, <2>1
  <2>3. i \in Ids /\ meta'[i] = actor[a].held /\ \A j \in Ids : j # i => meta'[j] = meta[j]
    BY <2>1 DEF TypeInv, Placed, At, PendingPlaces
  <2>4. CountsMade'
    BY <1>0, <2>1, <2>2, <2>3 DEF CountInv, CountsMade, Made
  <2>5. \A j : Ahead(j)' <=> Ahead(j)
    BY <1>0, <2>1, <2>2 DEF Ahead, At
  <2>6. i \notin doubt => Counted(actor[a].held, i)
    BY <2>1 DEF CountInv, HeldCount, At, PendingPlaces
  <2>7. FilesCount'
    BY <2>1, <2>3, <2>5, <2>6 DEF CountInv, FilesCount, Counted, TypeInv
  <2>8. HeldCount'
    BY <1>0, <2>1, <2>2, <2>5 DEF CountInv, HeldCount, Counted, At, PendingPlaces
  <2> QED
    BY <2>4, <2>7, <2>8 DEF CountInv
<1>10. ASSUME NEW a \in Actors, NEW i \in Ids, ForkLog(a, i) \/ ForkTorn(a, i) PROVE CountInv'
  <2>1. PICK new, r : /\ log' = [log EXCEPT ![i] = new] /\ stored' = stored \cup {i}
                      /\ actor' = [actor EXCEPT ![a] = r]
                      /\ r.at \in {"forking", "away"} /\ r.held = NoMeta
    <3>1. CASE ForkLog(a, i)
      <4>1. PICK cut : LET prefix == Copied(actor[a].events, cut, i)
                       IN /\ WriteLog(i, prefix)
                          /\ Become(a, [Away EXCEPT !.at = "forking", !.sid = i, !.events = prefix,
                                                    !.parent = actor[a].sid])
        BY <3>1 DEF ForkLog
      <4> DEFINE child == [Away EXCEPT !.at = "forking", !.sid = i,
                             !.events = Copied(actor[a].events, cut, i), !.parent = actor[a].sid]
      <4>2. child.at = "forking" /\ child.held = NoMeta
        BY DEF Away
      <4> QED
        BY <4>1, <4>2 DEF WriteLog, WriteLogTorn, Become
    <3>2. CASE ForkTorn(a, i)
      BY <1>0, <3>2 DEF ForkTorn, WriteLogTorn, Become
    <3> QED
      BY <1>10, <3>1, <3>2
  <2>2. UNCHANGED <<meta, bundle, doubt>> /\ At(a, {"idle"}) /\ i \notin used
    BY <1>10 DEF ForkLog, ForkTorn, FreshId
  <2>3. /\ actor'[a].at \in {"forking", "away"} /\ actor'[a].held = NoMeta
        /\ \A b \in Actors \ {a} : actor'[b] = actor[b]
    BY <1>0, <2>1
  <2>4. meta[i] = NoMeta /\ \A j \in Ids : j # i => log'[j] = log[j]
    BY <2>1, <2>2 DEF NothingLeft, TypeInv
  <2>5. CountsMade'
    BY <1>0, <2>2, <2>3 DEF CountInv, CountsMade, Made
  <2>6. \A j : Ahead(j)' <=> Ahead(j)
    BY <2>2, <2>3 DEF Ahead, At
  <2>7. FilesCount'
    BY <2>1, <2>2, <2>4, <2>6 DEF CountInv, FilesCount, Counted, TypeInv
  <2>8. \A b \in Actors : At(b, PendingPlaces)' =>
          b # a /\ At(b, PendingPlaces) /\ actor[b].sid \in Ids /\ actor[b].sid # i
    BY <2>2, <2>3 DEF At, PendingPlaces, Placed, TypeInv
  <2>9. HeldCount'
    BY <2>2, <2>3, <2>4, <2>6, <2>8 DEF CountInv, HeldCount, Counted
  <2> QED
    BY <2>5, <2>7, <2>9 DEF CountInv
<1>11. ASSUME NEW a \in Actors, ForkMeta(a) PROVE CountInv'
  <2> DEFINE i == actor[a].sid
             m == [parent |-> actor[a].parent, count |-> Len(actor[a].events)]
  <2>1. /\ actor'[a].at = "idle" /\ actor'[a].held = actor[a].held /\ actor'[a].sid = i
        /\ \A b \in Actors \ {a} : actor'[b] = actor[b]
    BY <1>0, <1>11 DEF ForkMeta, Goto, Process
  <2>2. meta' = [meta EXCEPT ![i] = m] /\ UNCHANGED <<stored, log, bundle, doubt>> /\ At(a, {"forking"})
    BY <1>11 DEF ForkMeta, WriteMeta, files
  <2>3. i \in Ids /\ actor[a].events = log[i] /\ Len(log[i]) \in Nat
    BY <2>2 DEF TypeInv, Placed, At, LivePlaces
  <2>4. meta'[i].count = Len(log'[i]) /\ \A j \in Ids : j # i => meta'[j] = meta[j]
    BY <2>2, <2>3 DEF TypeInv
  <2>5. CountsMade'
    BY <2>1, <2>2, <2>3, <2>4 DEF CountInv, CountsMade, Made
  <2>6. \A j : Ahead(j)' <=> Ahead(j)
    BY <2>1, <2>2 DEF Ahead, At
  <2>7. FilesCount'
    BY <2>2, <2>4, <2>6 DEF CountInv, FilesCount, Counted, TypeInv
  <2>8. HeldCount'
    BY <2>1, <2>2, <2>6 DEF CountInv, HeldCount, Counted, At, PendingPlaces
  <2> QED
    BY <2>5, <2>7, <2>8 DEF CountInv
<1>12. ASSUME NEW a \in Commands, NEW i \in Ids, ExportLog(a, i) PROVE CountInv'
  <2> DEFINE mine == [Away EXCEPT !.at = "exporting", !.sid = i]
  <2>1. actor' = [actor EXCEPT ![a] = mine] /\ At(a, {"away"}) /\ bundle'.meta = NoMeta
    BY <1>12 DEF ExportLog, Become
  <2>2. mine.at = "exporting" /\ mine.held = NoMeta
    BY DEF Away
  <2>3. /\ a \in Actors /\ actor'[a].held = NoMeta /\ actor'[a].at = "exporting"
        /\ \A b \in Actors \ {a} : actor'[b] = actor[b]
    BY <1>0, <2>1, <2>2, EveryActor
  <2> QED
    BY <1>0, <1>12, <2>1, <2>3, CountStill DEF ExportLog, files, At, PendingPlaces, Made
<1>13. ASSUME NEW a \in Actors, ExportMeta(a) PROVE CountInv'
  <2>1. /\ actor'[a].held = NoMeta /\ actor'[a].at = "away" /\ At(a, {"exporting"})
        /\ \A b \in Actors \ {a} : actor'[b] = actor[b]
    BY <1>0, <1>13 DEF ExportMeta, Become
  <2>2. Made(bundle'.meta)
    <3>1. actor[a].sid \in Ids
      BY <1>13 DEF ExportMeta, Exists, TypeInv
    <3>2. Made(ReadMeta(actor[a].sid))
      BY <3>1 DEF ReadMeta, Rebuilt, Made, CountInv, CountsMade, TypeInv
    <3>3. [bundle EXCEPT !.meta = ReadMeta(actor[a].sid)].meta = ReadMeta(actor[a].sid)
      BY DEF TypeInv
    <3> QED
      BY <1>0, <1>13, <3>2, <3>3 DEF ExportMeta
  <2> QED
    BY <1>13, <2>1, <2>2, CountStill DEF ExportMeta, files, At, PendingPlaces
<1>14. ASSUME NEW a \in Commands, ImportLog(a) PROVE CountInv'
  <2> DEFINE i == bundle.sid
             mine == [Away EXCEPT !.at = "importing", !.sid = i, !.held = bundle.meta]
  <2>1. /\ i \in Ids /\ i \notin stored /\ a \in Actors
        /\ log' = [log EXCEPT ![i] = bundle.log] /\ stored' = stored \cup {i}
        /\ actor' = [actor EXCEPT ![a] = mine] /\ At(a, {"away"})
        /\ UNCHANGED <<meta, bundle>>
        /\ doubt' = IF bundle.meta.count \in {-1, Len(bundle.log)} THEN doubt \ {i} ELSE doubt \cup {i}
    BY <1>14, EveryActor DEF ImportLog, Importable, Exists, WriteLogTorn, Become, TypeInv, NothingLeft
  <2>2. mine.at = "importing" /\ mine.sid = i /\ mine.held = bundle.meta
    BY DEF Away
  <2>3. /\ actor'[a].at = "importing" /\ actor'[a].sid = i /\ actor'[a].held = bundle.meta
        /\ \A b \in Actors \ {a} : actor'[b] = actor[b]
    BY <1>0, <2>1, <2>2
  <2>4. log'[i] = bundle.log /\ \A j \in Ids : j # i => log'[j] = log[j]
    BY <2>1 DEF TypeInv
  <2>5. meta[i] = NoMeta
    BY <2>1 DEF NothingLeft
  <2>6. CountsMade'
    BY <1>0, <2>1, <2>3 DEF CountInv, CountsMade, Made
  <2>7. \A j : Ahead(j)' <=> Ahead(j)
    BY <2>1, <2>3 DEF Ahead, At
  <2>8. FilesCount'
    BY <2>1, <2>4, <2>5, <2>7 DEF CountInv, FilesCount, Counted, TypeInv
  <2>9. ~Ahead(i)
    BY <2>1 DEF Ahead, Placed, At, FiledPlaces
  <2>10. i \notin doubt' => (bundle.meta # NoMeta => bundle.meta.count = Len(bundle.log))
    BY <1>0, <2>1 DEF Made
  <2>11. \A b \in Actors : At(b, PendingPlaces)' =>
           b = a \/ (At(b, PendingPlaces) /\ actor[b].sid \in Ids /\ actor[b].sid # i)
    BY <2>1, <2>3 DEF At, PendingPlaces, FiledPlaces, Placed, TypeInv
  <2>12. HeldCount'
    <3>1. SUFFICES ASSUME NEW b \in Actors, At(b, PendingPlaces)', actor'[b].sid \notin doubt'
                   PROVE  (~Ahead(actor[b].sid) /\ Counted(actor[b].held, actor[b].sid))'
      BY DEF HeldCount
    <3>2. CASE b = a
      BY <2>3, <2>4, <2>7, <2>9, <2>10, <3>1, <3>2 DEF Counted
    <3>3. CASE b # a
      BY <2>1, <2>3, <2>4, <2>7, <2>11, <3>1, <3>3 DEF CountInv, HeldCount, Counted
    <3> QED
      BY <3>2, <3>3
  <2> QED
    BY <2>6, <2>8, <2>12 DEF CountInv
<1>15. ASSUME NEW a \in Actors, ImportMeta(a) PROVE CountInv'
  <2> DEFINE i == actor[a].sid
  <2>1. /\ actor' = [actor EXCEPT ![a] = Away] /\ At(a, {"importing"}) /\ i \in Ids
        /\ UNCHANGED <<stored, log, bundle, doubt>>
    BY <1>15 DEF ImportMeta, Exists, Become, TypeInv, files
  <2>2. actor'[a] = Away /\ \A b \in Actors \ {a} : actor'[b] = actor[b]
    BY <1>0, <2>1
  <2>3. /\ Made(meta'[i]) /\ (i \notin doubt => Counted(meta'[i], i) \/ meta'[i] = meta[i])
        /\ \A j \in Ids : j # i => meta'[j] = meta[j]
    <3>1. Made(actor[a].held) /\ Made(meta[i])
      BY <2>1 DEF CountInv, CountsMade
    <3>2. i \notin doubt => Counted(actor[a].held, i)
      BY <2>1 DEF CountInv, HeldCount, At, PendingPlaces
    <3>3. Made(Rebuilt(i)) /\ Counted(Rebuilt(i), i)
      BY <2>1 DEF Rebuilt, Made, Counted, TypeInv
    <3>4. meta' = meta \/ \E m \in {actor[a].held, Rebuilt(i)} : meta' = [meta EXCEPT ![i] = m]
      BY <1>15 DEF ImportMeta, WriteMeta
    <3> QED
      BY <2>1, <3>1, <3>2, <3>3, <3>4 DEF TypeInv
  <2>4. CountsMade'
    BY <1>0, <2>1, <2>2, <2>3 DEF CountInv, CountsMade, Made
  <2>5. \A j : Ahead(j)' <=> Ahead(j)
    BY <1>0, <2>1, <2>2 DEF Ahead, At
  <2>6. FilesCount'
    BY <2>1, <2>3, <2>5 DEF CountInv, FilesCount, Counted, TypeInv
  <2>7. HeldCount'
    BY <1>0, <2>1, <2>2, <2>5 DEF CountInv, HeldCount, Counted, At, PendingPlaces
  <2> QED
    BY <2>4, <2>6, <2>7 DEF CountInv
<1>16. ASSUME NEW a \in Actors, Kill(a) PROVE CountInv'
  <2>1. /\ actor'[a].held = NoMeta /\ actor'[a].at = "away"
        /\ \A b \in Actors \ {a} : actor'[b] = actor[b]
    BY <1>0, <1>16 DEF Kill, Become
  <2> QED
    BY <1>0, <1>16, <2>1, CountStill DEF Kill, files, At, PendingPlaces
<1>17. ASSUME NEW i \in Ids, Delete(i) PROVE CountInv'
  <2>1. /\ UNCHANGED <<actor, bundle, doubt>> /\ stored' = stored \ {i}
        /\ log' = [log EXCEPT ![i] = <<>>] /\ meta' = [meta EXCEPT ![i] = NoMeta]
        /\ \A a \in Actors : actor[a].sid # i
    BY <1>17 DEF Delete, WriteMeta, InUse
  <2>2. \A j \in Ids : j # i => log'[j] = log[j] /\ meta'[j] = meta[j]
    BY <2>1 DEF TypeInv
  <2>3. CountsMade'
    BY <1>0, <2>1, <2>2 DEF CountInv, CountsMade, Made, TypeInv
  <2>4. \A j : Ahead(j)' <=> Ahead(j)
    BY <2>1 DEF Ahead, At
  <2>5. FilesCount'
    BY <2>1, <2>2, <2>4 DEF CountInv, FilesCount, Counted, TypeInv
  <2>6. \A a \in Actors : At(a, PendingPlaces) => actor[a].sid \in Ids
    BY DEF TypeInv, Placed, At, PendingPlaces
  <2>7. HeldCount'
    BY <2>1, <2>2, <2>4, <2>6 DEF CountInv, HeldCount, Counted, At
  <2> QED
    BY <2>3, <2>5, <2>7 DEF CountInv
<1>18. CASE UNCHANGED vars
  BY <1>18 DEF CountInv, CountsMade, Made, FilesCount, HeldCount, Counted, Ahead, At, vars, files
<1> QED
  BY <1>1, <1>2, <1>3, <1>4, <1>5, <1>6, <1>7, <1>8, <1>9, <1>10, <1>11, <1>12, <1>13,
     <1>14, <1>15, <1>16, <1>17, <1>18 DEF Next

(* A typed id resolves to no more than one session, and the id of a listed *)
(* one to itself.                                                          *)
LEMMA OneResolved ==
  ASSUME NEW typed, NEW i \in Ids, NEW j \in Ids, Resolves(typed, i), Resolves(typed, j)
  PROVE  i = j
<1>1. i \in Matching(typed) /\ j \in Matching(typed)
  BY DEF Resolves
<1>2. CASE typed = Name[i] /\ typed = Name[j]
  BY <1>2, CatalogAssumption DEF IsInjective
<1>3. CASE Matching(typed) = {i} \/ Matching(typed) = {j}
  BY <1>1, <1>3
<1> QED
  BY <1>2, <1>3 DEF Resolves

LEMMA OwnResolved == ASSUME NEW i \in Ids, Listed(i) PROVE Resolves(Name[i], i)
<1>1. Len(Name[i]) \in Nat
  BY CatalogAssumption
<1>2. IsPrefix(Name[i], Name[i])
  BY <1>1 DEF IsPrefix
<1> QED
  BY <1>2 DEF Resolves, Matching

(* What the window of all events tells is the log.                         *)
LEMMA AllTheEvents == ASSUME NEW es PROVE Window(es, 0).events = es /\ Window(es, 0).total = Len(es)
  BY DEF Window, LastOf

(* The listing, show, the server's events and the resolution of typed ids  *)
(* agree, for any number of sessions, processes and events: a count is     *)
(* that of the log unless a kill, an abandoned query or an overlap has     *)
(* left the sidecar behind (cli/session.py, server/fastapi_app.py).        *)
THEOREM ViewsCorrect == Spec => []ViewsAgree
<1>1. Inv /\ CountInv => ViewsAgree
  <2> SUFFICES ASSUME Inv, CountInv PROVE ViewsAgree
    OBVIOUS
  <2>0. stored \subseteq Ids
    BY DEF Inv, TypeInv
  <2>1. ASSUME NEW i \in stored PROVE ToldTruly(i)
    <3>1. EventsAnswer(i, 0) = IF Readable(i) THEN Window(log[i], 0) ELSE Broken
      BY DEF EventsAnswer, Exists
    <3>2. i \notin doubt /\ ~Busy(i) => ReadMeta(i).count = Len(log[i])
      <4>1. ~Busy(i) => ~Ahead(i)
        BY DEF Busy, Ahead, At
      <4> QED
        BY <4>1 DEF ReadMeta, Rebuilt, CountInv, FilesCount, Counted
    <3> QED
      BY <3>1, <3>2, AllTheEvents DEF ToldTruly, Row, Header
  <2>2. ASSUME NEW typed \in Typed PROVE Cardinality({i \in stored : Resolves(typed, i)}) <= 1
    <3> DEFINE found == {i \in stored : Resolves(typed, i)}
    <3>1. CASE found = {}
      BY <3>1, FS_EmptySet
    <3>2. ASSUME NEW i \in found PROVE Cardinality(found) <= 1
      <4>1. found = {i}
        BY <2>0, <3>2, OneResolved
      <4> QED
        BY <4>1, FS_Singleton
    <3> QED
      BY <3>1, <3>2
  <2>3. ASSUME NEW i \in stored, Listed(i) PROVE Resolves(Name[i], i)
    BY <2>0, <2>3, OwnResolved
  <2> QED
    BY <2>1, <2>2, <2>3 DEF ViewsAgree
<1> QED
  BY InvStart, InvKept, CountStart, CountKept, <1>1, PTL DEF Spec

-----------------------------------------------------------------------------
(* Passes over a sequence.  A recursive function stands for a loop; what   *)
(* it computes is shown by induction on the elements passed.               *)

LEMMA Least ==
  ASSUME NEW T \in SUBSET Nat, T # {}
  PROVE  \E x \in T : \A y \in T : ~(y < x)
<1> DEFINE R == OpToRel(<, Nat)
<1>1. IsWellFoundedOn(R, Nat)
  BY NatLessThanWellFounded
<1>2. \A x, y \in Nat : x < y => <<x, y>> \in R
  BY DEF OpToRel
<1> HIDE DEF R
<1>3. PICK x \in T : \A y \in T : ~(<<y, x>> \in R)
  BY <1>1, WFMin
<1>4. \A y \in T : ~(y < x)
  BY <1>2, <1>3
<1>5. QED
  BY <1>4

(* Induction up to a number, over a set of those it holds for.             *)
LEMMA UpTo ==
  ASSUME NEW n \in Nat, NEW T, 0 \in T, \A k \in 1..n : k - 1 \in T => k \in T
  PROVE  \A k \in 0..n : k \in T
<1>1. SUFFICES ASSUME NEW k \in 0..n, k \notin T PROVE FALSE
  OBVIOUS
<1>2. PICK x \in (0..n) \ T : \A y \in (0..n) \ T : ~(y < x)
  <2>1. (0..n) \ T \in SUBSET Nat /\ (0..n) \ T # {}
    BY <1>1
  <2>2. QED
    BY <2>1, Least
<1>3. x \in 1..n /\ x - 1 \in 0..n /\ x - 1 < x
  BY <1>2
<1>4. x - 1 \in T
  BY <1>2, <1>3
<1>5. QED
  BY <1>2, <1>3, <1>4

(* A loop over n elements, whose k-th step takes what is computed so far   *)
(* to F[k] of it, computes something.                                      *)
Steps(F, n, V) == \A k \in 1..n : \A v \in V : F[k][v] \in V
Loop(f, base, F, n, V) ==
  f \in [0..n -> V] /\ f[0] = base /\ \A k \in 1..n : f[k] = F[k][f[k - 1]]

LEMMA Recursion ==
  ASSUME NEW V, NEW base \in V, NEW n \in Nat, NEW F, Steps(F, n, V)
  PROVE  \E f : Loop(f, base, F, n, V)
<1> DEFINE T == {m \in 0..n : \E f : Loop(f, base, F, m, V)}
<1>1. \E f : Loop(f, base, F, 0, V)
  <2>1. Loop([k \in 0..0 |-> base], base, F, 0, V)
    BY DEF Loop
  <2>2. QED
    BY <2>1
<1>2. ASSUME NEW m \in 1..n, NEW f, Loop(f, base, F, m - 1, V)
      PROVE  \E g : Loop(g, base, F, m, V)
  <2> DEFINE g == [k \in 0..m |-> IF k = m THEN F[m][f[m - 1]] ELSE f[k]]
  <2>1. f[m - 1] \in V /\ F[m][f[m - 1]] \in V
    BY <1>2 DEF Loop, Steps
  <2>2. g \in [0..m -> V] /\ g[0] = base
    BY <1>2, <2>1 DEF Loop
  <2>3. \A k \in 1..m : g[k] = F[k][g[k - 1]]
    BY <1>2, <2>1 DEF Loop
  <2>4. Loop(g, base, F, m, V)
    BY <2>2, <2>3 DEF Loop
  <2> HIDE DEF g
  <2>5. QED
    BY <2>4
<1>3. 0 \in T /\ \A m \in 1..n : m - 1 \in T => m \in T
  BY <1>1, <1>2
<1> HIDE DEF T
<1>4. \A m \in 0..n : m \in T
  BY <1>3, UpTo
<1>5. QED
  BY <1>4 DEF T

-----------------------------------------------------------------------------
(* The fork tree.  Above(edge, i) is what can be reached from i, as the    *)
(* smallest closed set that i is in.                                       *)

Edges(edge, n) == edge \in [1..n -> 0..n]

(* No set of sessions is closed in itself: what is a forest of finitely    *)
(* many.                                                                   *)
Rooted(edge) == \A S \in SUBSET DOMAIN edge : S # {} => \E j \in S : edge[j] \notin S

LEMMA AboveIn ==
  ASSUME NEW edge, NEW i, NEW S \in SUBSET DOMAIN edge, i \in S, Closed(edge, S)
  PROVE  Above(edge, i) \subseteq S
  BY DEF Above

LEMMA AboveCloses ==
  ASSUME NEW n \in Nat, NEW edge, Edges(edge, n), NEW i \in 1..n
  PROVE  /\ Above(edge, i) \in SUBSET (1..n) /\ i \in Above(edge, i)
         /\ Closed(edge, Above(edge, i))
<1>1. DOMAIN edge = 1..n /\ \A j \in 1..n : edge[j] # None => edge[j] \in 1..n
  BY DEF Edges, None
<1>2. Above(edge, i) \in SUBSET (1..n) /\ i \in Above(edge, i)
  BY <1>1 DEF Above
<1>3. ASSUME NEW j \in Above(edge, i), edge[j] # None PROVE edge[j] \in Above(edge, i)
  <2>1. edge[j] \in 1..n
    BY <1>1, <1>2, <1>3
  <2>2. ASSUME NEW S \in SUBSET (1..n), i \in S, Closed(edge, S) PROVE edge[j] \in S
    <3>1. j \in S
      BY <1>1, <2>2 DEF Above
    <3>2. QED
      BY <1>3, <2>2, <3>1 DEF Closed
  <2>3. QED
    BY <1>1, <2>1, <2>2 DEF Above
<1>4. QED
  BY <1>2, <1>3 DEF Closed

(* What is above i is i and what is above its parent.                      *)
LEMMA AboveParent ==
  ASSUME NEW n \in Nat, NEW edge, Edges(edge, n), NEW i \in 1..n
  PROVE  Above(edge, i) = IF edge[i] = None THEN {i} ELSE {i} \cup Above(edge, edge[i])
<1>1. DOMAIN edge = 1..n /\ (edge[i] # None => edge[i] \in 1..n)
  BY DEF Edges, None
<1>2. i \in Above(edge, i) /\ Closed(edge, Above(edge, i)) /\ Above(edge, i) \in SUBSET (1..n)
  BY AboveCloses
<1>3. CASE edge[i] = None
  <2>1. Closed(edge, {i}) /\ {i} \in SUBSET DOMAIN edge
    BY <1>1, <1>3 DEF Closed
  <2>2. QED
    BY <1>2, <1>3, <2>1, AboveIn
<1>4. CASE edge[i] # None
  <2> DEFINE p == edge[i]
  <2>1. p \in 1..n /\ p \in Above(edge, i)
    BY <1>1, <1>2, <1>4 DEF Closed
  <2>2. p \in Above(edge, p) /\ Closed(edge, Above(edge, p)) /\ Above(edge, p) \in SUBSET (1..n)
    BY <2>1, AboveCloses
  <2>3. Above(edge, p) \subseteq Above(edge, i)
    BY <1>1, <1>2, <2>1, AboveIn
  <2>4. Closed(edge, {i} \cup Above(edge, p))
    BY <2>2 DEF Closed
  <2>5. Above(edge, i) \subseteq {i} \cup Above(edge, p)
    <3>1. {i} \cup Above(edge, p) \in SUBSET DOMAIN edge
      BY <1>1, <2>2
    <3>2. QED
      BY <2>4, <3>1, AboveIn
  <2>6. QED
    BY <1>2, <1>4, <2>3, <2>5
<1>5. QED
  BY <1>3, <1>4

(* Of two sessions above a third one is above the other.                   *)
LEMMA AboveChain ==
  ASSUME NEW n \in Nat, NEW edge, Edges(edge, n), NEW i \in 1..n,
         NEW j \in Above(edge, i), NEW k \in Above(edge, i)
  PROVE  j \in Above(edge, k) \/ k \in Above(edge, j)
<1> DEFINE S == {m \in 1..n : m \in Above(edge, k) \/ k \in Above(edge, m)}
<1>1. /\ DOMAIN edge = 1..n /\ \A m \in 1..n : edge[m] # None => edge[m] \in 1..n
      /\ k \in 1..n
  BY AboveCloses DEF Edges, None
<1>2. Closed(edge, Above(edge, k)) /\ k \in Above(edge, k)
  BY <1>1, AboveCloses
<1>3. i \in S
  OBVIOUS
<1>4. ASSUME NEW m \in S, edge[m] # None PROVE edge[m] \in S
  <2>1. m \in 1..n /\ edge[m] \in 1..n
    BY <1>1, <1>4
  <2>2. CASE m \in Above(edge, k)
    BY <1>2, <1>4, <2>1, <2>2 DEF Closed
  <2>3. CASE k \in Above(edge, m)
    <3>1. k = m \/ k \in Above(edge, edge[m])
      BY <1>4, <2>1, <2>3, AboveParent
    <3>2. QED
      BY <1>2, <1>4, <2>1, <2>2, <3>1
  <2>4. QED
    BY <2>2, <2>3
<1>5. Closed(edge, S) /\ S \in SUBSET DOMAIN edge
  BY <1>1, <1>4 DEF Closed
<1> HIDE DEF S
<1>6. j \in S
  BY <1>3, <1>5, AboveIn
<1>7. QED
  BY <1>6 DEF S

(* In a forest every session is below exactly one root.                    *)
LEMMA OneRoot ==
  ASSUME NEW n \in Nat, NEW edge, Edges(edge, n), Rooted(edge), NEW i \in 1..n
  PROVE  Cardinality(RootsAbove(edge, i)) = 1
<1> DEFINE A == Above(edge, i)
<1>1. DOMAIN edge = 1..n
  BY DEF Edges
<1>2. A \in SUBSET (1..n) /\ i \in A /\ Closed(edge, A)
  BY AboveCloses
<1>3. PICK r \in A : edge[r] \notin A
  <2>1. \A S \in SUBSET (1..n) : S # {} => \E j \in S : edge[j] \notin S
    BY <1>1 DEF Rooted
  <2> HIDE DEF A
  <2>2. A # {}
    BY <1>2
  <2>3. QED
    BY <1>2, <2>1, <2>2
<1>4. r \in Roots(edge) /\ r \in 1..n
  BY <1>1, <1>2, <1>3 DEF Roots, Closed
<1>5. ASSUME NEW q \in A, q \in Roots(edge) PROVE q = r
  <2>1. q \in 1..n /\ edge[q] = None /\ edge[r] = None
    BY <1>1, <1>4, <1>5 DEF Roots
  <2>2. Above(edge, q) = {q} /\ Above(edge, r) = {r}
    BY <1>4, <2>1, AboveParent
  <2>3. q \in Above(edge, r) \/ r \in Above(edge, q)
    BY AboveChain
  <2>4. QED
    BY <2>2, <2>3
<1>6. RootsAbove(edge, i) = {r}
  BY <1>4, <1>5 DEF RootsAbove
<1>7. QED
  BY <1>6, FS_Singleton

(* Drawing a session that has no edge under one it is not above keeps a    *)
(* forest a forest.                                                        *)
LEMMA AttachRooted ==
  ASSUME NEW n \in Nat, NEW edge, Edges(edge, n), Rooted(edge),
         NEW i \in 1..n, NEW p \in 1..n, edge[i] = None, ~Closes(edge, i, p)
  PROVE  Edges([edge EXCEPT ![i] = p], n) /\ Rooted([edge EXCEPT ![i] = p])
<1> DEFINE more == [edge EXCEPT ![i] = p]
           A == Above(edge, p)
<1>1. /\ DOMAIN edge = 1..n /\ DOMAIN more = 1..n /\ more[i] = p
      /\ \A j \in 1..n : j # i => more[j] = edge[j]
  BY DEF Edges
<1>2. Edges(more, n)
  BY DEF Edges
<1>3. A \in SUBSET (1..n) /\ p \in A /\ Closed(edge, A) /\ i \notin A
  BY AboveCloses DEF Closes
<1>4. \A S \in SUBSET (1..n) : S # {} => \E j \in S : edge[j] \notin S
  BY <1>1 DEF Rooted
<1> HIDE DEF more, A
<1>5. ASSUME NEW S \in SUBSET (1..n), S # {}, \A j \in S : more[j] \in S PROVE FALSE
  <2>1. CASE i \notin S
    <3>1. \A j \in S : edge[j] \in S
      BY <1>1, <1>5, <2>1
    <3>2. QED
      BY <1>4, <1>5, <3>1
  <2>2. CASE i \in S
    <3>1. p \in S \cap A
      BY <1>1, <1>3, <1>5, <2>2
    <3>2. ASSUME NEW j \in S \cap A PROVE edge[j] \in S \cap A
      <4>1. j # i /\ j \in 1..n
        BY <1>3
      <4>2. edge[j] \in S
        BY <1>1, <1>5, <4>1
      <4>3. edge[j] # None
        BY <4>2 DEF None
      <4>4. QED
        BY <1>3, <4>2, <4>3 DEF Closed
    <3>3. S \cap A \in SUBSET (1..n) /\ S \cap A # {}
      BY <3>1
    <3>4. QED
      BY <1>4, <3>2, <3>3
  <2>3. QED
    BY <2>1, <2>2
<1>6. Rooted(more)
  BY <1>1, <1>5 DEF Rooted
<1>7. QED
  BY <1>2, <1>6 DEF more

(* The steps of build_forest.                                              *)
Attached(parents, edge, i) ==
  IF parents[i] \notin DOMAIN parents \ {i} \/ Closes(edge, i, parents[i])
  THEN edge ELSE [edge EXCEPT ![i] = parents[i]]
Undrawn(n) == [i \in 1..n |-> None]
Drawn(drawn, parents, n) ==
  /\ drawn[0] = Undrawn(n) /\ Forest(parents) = drawn[n]
  /\ \A k \in 1..n : drawn[k] = Attached(parents, drawn[k - 1], k)

LEMMA DrawnDef ==
  ASSUME NEW n \in Nat, NEW parents \in [1..n -> 0..n]
  PROVE  \E drawn : Drawn(drawn, parents, n)
<1> DEFINE Step(k, t) == Attached(parents, t, k)
           none == Undrawn(n)
           V == [1..n -> 0..n]
           drawn[k \in 0..n] == IF k = 0 THEN none ELSE Step(k, drawn[k - 1])
<1>1. Len(parents) = n /\ DOMAIN parents = 1..n
  OBVIOUS
<1>2. none \in V /\ \A k \in 1..n : \A t \in V : Step(k, t) \in V
  BY DEF Undrawn, Attached, None
<1>3. Forest(parents) = drawn[n]
  BY <1>1 DEF Forest, Attached, Undrawn
<1> DEFINE F == [k \in 1..n |-> [t \in V |-> Step(k, t)]]
<1> HIDE DEF Step, V, none
<1>4. \A k \in 1..n : \A t \in V : F[k][t] = Step(k, t) /\ F[k][t] \in V
  BY <1>2
<1> HIDE DEF F
<1>5. PICK f : Loop(f, none, F, n, V)
  BY <1>2, <1>4, Recursion DEF Steps
<1>6. f = [k \in 0..n |-> IF k = 0 THEN none ELSE Step(k, f[k - 1])]
  BY <1>4, <1>5 DEF Loop
<1>7. drawn = [k \in 0..n |-> IF k = 0 THEN none ELSE Step(k, drawn[k - 1])]
  BY <1>6
<1> HIDE DEF drawn
<1>8. drawn[0] = none /\ \A k \in 1..n : drawn[k] = Step(k, drawn[k - 1])
  BY <1>7
<1>9. Drawn(drawn, parents, n)
  BY <1>3, <1>8 DEF Drawn, none, Step
<1>10. QED
  BY <1>9

(* "Corrupt cyclic lineage never creates a recursive graph" (tree.py), for *)
(* every directory.                                                        *)
Named(parents) ==
  [i \in DOMAIN parents |-> IF parents[i] \in DOMAIN parents \ {i} THEN parents[i] ELSE None]
DrawnSoFar(edge, parents, n, k) ==
  /\ Edges(edge, n) /\ Rooted(edge)
  /\ \A i \in 1..n : edge[i] \in {None, Named(parents)[i]} /\ (i > k => edge[i] = None)
Acyclic(edge) == \A i \in DOMAIN edge : edge[i] # None => i \notin Above(edge, edge[i])

LEMMA EveryTreeDrawn ==
  ASSUME NEW n \in Nat, NEW parents \in [1..n -> 0..n]
  PROVE  DrawnOnceFrom(parents)
<1> DEFINE named == Named(parents)
<1>1. /\ DOMAIN parents = 1..n /\ DOMAIN named = 1..n /\ Edges(named, n)
      /\ \A i \in 1..n : named[i] = IF parents[i] \in (1..n) \ {i} THEN parents[i] ELSE None
      /\ None \notin 1..n
  BY DEF Named, Edges, None
<1>2. PICK drawn : Drawn(drawn, parents, n)
  BY DrawnDef
<1>3. /\ drawn[0] = Undrawn(n) /\ Forest(parents) = drawn[n]
      /\ \A k \in 1..n : drawn[k] = Attached(parents, drawn[k - 1], k)
  BY <1>2 DEF Drawn
<1> HIDE DEF named
<1> DEFINE T == {k \in 0..n : DrawnSoFar(drawn[k], parents, n, k)}
<1>4. 0 \in T
  <2>1. Edges(Undrawn(n), n) /\ \A i \in 1..n : Undrawn(n)[i] = None
    BY DEF Edges, Undrawn, None
  <2>2. Rooted(Undrawn(n))
    BY <1>1, <2>1 DEF Rooted, Edges
  <2>3. QED
    BY <1>3, <2>1, <2>2 DEF DrawnSoFar
<1>5. ASSUME NEW k \in 1..n, k - 1 \in T PROVE k \in T
  <2> DEFINE edge == drawn[k - 1]
             p == parents[k]
  <2>1. /\ Edges(edge, n) /\ Rooted(edge) /\ k \in 0..n
        /\ \A i \in 1..n : edge[i] \in {None, named[i]} /\ (i > k - 1 => edge[i] = None)
    BY <1>5 DEF DrawnSoFar, named
  <2>2. drawn[k] = Attached(parents, edge, k)
    BY <1>3
  <2> HIDE DEF edge
  <2>3. CASE p \notin DOMAIN parents \ {k} \/ Closes(edge, k, p)
    <3>1. drawn[k] = edge
      BY <2>2, <2>3 DEF Attached
    <3>2. \A i \in 1..n : i > k => edge[i] = None
      BY <2>1
    <3>3. QED
      BY <2>1, <3>1, <3>2 DEF DrawnSoFar, named
  <2>4. CASE p \in DOMAIN parents \ {k} /\ ~Closes(edge, k, p)
    <3>1. drawn[k] = [edge EXCEPT ![k] = p]
      BY <2>2, <2>4 DEF Attached
    <3>2. p \in 1..n /\ edge[k] = None /\ named[k] = p
      BY <1>1, <2>1, <2>4
    <3>3. Edges(drawn[k], n) /\ Rooted(drawn[k])
      BY <2>1, <2>4, <3>1, <3>2, AttachRooted
    <3>4. \A i \in 1..n : drawn[k][i] \in {None, named[i]} /\ (i > k => drawn[k][i] = None)
      <4>1. drawn[k][k] = p /\ \A i \in 1..n : i # k => drawn[k][i] = edge[i]
        BY <2>1, <3>1, <3>2 DEF Edges
      <4>2. \A i \in 1..n : i > k => edge[i] = None /\ i # k
        BY <2>1
      <4>3. QED
        BY <2>1, <3>2, <4>1, <4>2
    <3>5. QED
      BY <2>1, <3>3, <3>4 DEF DrawnSoFar, named
  <2>5. QED
    BY <2>3, <2>4
<1> HIDE DEF T
<1>6. \A k \in 0..n : k \in T
  BY <1>4, <1>5, UpTo
<1> DEFINE edge == Forest(parents)
<1>7. Edges(edge, n) /\ Rooted(edge) /\ DOMAIN edge = 1..n
  BY <1>3, <1>6 DEF T, DrawnSoFar, Edges
<1>8. \A i \in 1..n : Cardinality(RootsAbove(edge, i)) = 1
  BY <1>7, OneRoot
<1>9. ASSUME Acyclic(named) PROVE edge = named
  <2> DEFINE U == {k \in 0..n : \A i \in 1..n : i <= k => drawn[k][i] = named[i]}
  <2>1. 0 \in U
    OBVIOUS
  <2>2. ASSUME NEW k \in 1..n, k - 1 \in U PROVE k \in U
    <3> DEFINE e == drawn[k - 1]
               p == parents[k]
    <3>1. k - 1 \in 0..n /\ DrawnSoFar(e, parents, n, k - 1)
      BY <1>6 DEF T
    <3>2. /\ Edges(e, n) /\ DOMAIN e = 1..n /\ drawn[k] = Attached(parents, e, k)
          /\ \A i \in 1..n : e[i] \in {None, named[i]}
          /\ e[k] = None /\ \A i \in 1..n : i <= k - 1 => e[i] = named[i]
      BY <1>3, <2>2, <3>1 DEF DrawnSoFar, Edges, named
    <3> HIDE DEF e
    <3>3. CASE p \notin (1..n) \ {k}
      <4>1. drawn[k] = e /\ named[k] = None
        BY <1>1, <3>2, <3>3 DEF Attached
      <4>2. QED
        BY <3>2, <4>1
    <3>4. CASE p \in (1..n) \ {k}
      <4>1. named[k] = p /\ p \in 1..n /\ p # None
        BY <1>1, <3>4
      <4>2. k \notin Above(named, p)
        BY <1>1, <1>9, <4>1 DEF Acyclic
      <4>3. Above(e, p) \subseteq Above(named, p)
        <5>1. p \in Above(named, p) /\ Closed(named, Above(named, p)) /\ Above(named, p) \in SUBSET (1..n)
          BY <1>1, <4>1, AboveCloses
        <5>2. Closed(e, Above(named, p))
          BY <3>2, <5>1 DEF Closed
        <5>3. QED
          BY <3>2, <5>1, <5>2, AboveIn
      <4>4. drawn[k] = [e EXCEPT ![k] = p]
        BY <1>1, <3>2, <3>4, <4>2, <4>3 DEF Attached, Closes
      <4>5. \A i \in 1..n : i <= k => drawn[k][i] = named[i]
        BY <3>2, <4>1, <4>4
      <4>6. QED
        BY <4>5
    <3>5. QED
      BY <3>3, <3>4
  <2> HIDE DEF U
  <2>3. \A k \in 0..n : k \in U
    BY <2>1, <2>2, UpTo
  <2>4. \A i \in 1..n : edge[i] = named[i]
    BY <1>3, <2>3 DEF U
  <2>5. QED
    BY <1>1, <1>7, <2>4 DEF Edges
<1>10. ASSUME edge = named, NEW i \in 1..n, named[i] # None
       PROVE  Tree(edge, i) = Tree(edge, named[i])
  <2>1. Above(edge, i) = {i} \cup Above(edge, named[i]) /\ i \notin Roots(edge)
    BY <1>7, <1>10, AboveParent DEF Roots
  <2>2. RootsAbove(edge, i) = RootsAbove(edge, named[i])
    BY <2>1 DEF RootsAbove
  <2>3. QED
    BY <2>2 DEF Tree
<1>11. QED
  BY <1>1, <1>8, <1>9, <1>10 DEF DrawnOnceFrom, Acyclic, Named, named

-----------------------------------------------------------------------------
(* The rounds of a log.                                                    *)

Anyone == [sid : Nat, seq : Nat, kind : {"query", "answer", "citation", "other"}]
OneRound == [query : Nat, answer : Int, citations : Seq(Nat)]

(* Grouping one more event: a query adds a round, another event stays in   *)
(* the last one and leaves its query.                                      *)
Begun(new, rounds, e) ==
  /\ Len(new) = Len(rounds) + 1 /\ new[Len(rounds) + 1].query = e.seq
  /\ \A t \in 1..Len(rounds) : new[t] = rounds[t]
Continued(new, rounds) ==
  /\ Len(new) = Len(rounds)
  /\ \A t \in 1..(Len(rounds) - 1) : new[t] = rounds[t]
  /\ \A t \in 1..Len(rounds) : new[t].query = rounds[t].query

LEMMA GroupShape ==
  ASSUME NEW rounds \in Seq(OneRound), NEW e \in Anyone
  PROVE  /\ Group(rounds, e) \in Seq(OneRound)
         /\ IF IsQuery(e) THEN Begun(Group(rounds, e), rounds, e) ELSE Continued(Group(rounds, e), rounds)
<1> DEFINE m == Len(rounds)
<1>1. m \in Nat /\ DOMAIN rounds = 1..m /\ e.seq \in Nat /\ \A t \in 1..m : rounds[t] \in OneRound
  BY DEF Anyone
<1>2. CASE IsQuery(e)
  <2>1. Round(e) \in OneRound /\ Round(e).query = e.seq
    BY <1>1 DEF Round, NoAnswer, OneRound
  <2>2. Group(rounds, e) = Append(rounds, Round(e))
    BY <1>2 DEF Group
  <2>3. QED
    BY <1>1, <1>2, <2>1, <2>2, AppendProperties DEF Begun
<1>3. CASE ~IsQuery(e) /\ rounds = <<>>
  <2>1. Group(rounds, e) = rounds
    BY <1>3 DEF Group
  <2>2. QED
    BY <1>1, <1>3, <2>1 DEF Continued
<1>4. CASE ~IsQuery(e) /\ rounds # <<>>
  <2> DEFINE told == Told(rounds[m], e)
  <2>1. m \in 1..m
    BY <1>1, <1>4, EmptySeq
  <2>2. told \in OneRound /\ told.query = rounds[m].query
    <3>1. rounds[m] \in OneRound
      BY <1>1, <2>1
    <3>2. rounds[m].citations \in Seq(Nat) /\ Append(rounds[m].citations, e.seq) \in Seq(Nat)
      BY <1>1, <3>1 DEF OneRound
    <3>3. \A answer \in Int : [rounds[m] EXCEPT !.answer = answer] \in OneRound
                              /\ [rounds[m] EXCEPT !.answer = answer].query = rounds[m].query
      BY <3>1 DEF OneRound
    <3>4. \A more \in Seq(Nat) : [rounds[m] EXCEPT !.citations = more] \in OneRound
                                 /\ [rounds[m] EXCEPT !.citations = more].query = rounds[m].query
      BY <3>1 DEF OneRound
    <3>5. CASE e.kind = "answer"
      <4>1. told = [rounds[m] EXCEPT !.answer = e.seq]
        BY <3>5 DEF Told
      <4>2. QED
        BY <1>1, <3>3, <4>1
    <3>6. CASE e.kind = "citation"
      <4>1. told = [rounds[m] EXCEPT !.citations = Append(rounds[m].citations, e.seq)]
        BY <3>6 DEF Told
      <4>2. QED
        BY <3>2, <3>4, <4>1
    <3>7. CASE e.kind \notin {"answer", "citation"}
      BY <3>1, <3>7 DEF Told
    <3>8. QED
      BY <3>5, <3>6, <3>7
  <2>3. Group(rounds, e) = [rounds EXCEPT ![m] = told]
    BY <1>4 DEF Group
  <2> HIDE DEF told
  <2>4. Group(rounds, e) \in Seq(OneRound) /\ Len(Group(rounds, e)) = m
    BY <1>1, <2>1, <2>2, <2>3
  <2>5. /\ \A t \in 1..(m - 1) : Group(rounds, e)[t] = rounds[t]
        /\ \A t \in 1..m : Group(rounds, e)[t].query = rounds[t].query
    BY <1>1, <2>1, <2>2, <2>3
  <2>6. QED
    BY <1>4, <2>4, <2>5 DEF Continued
<1>5. QED
  BY <1>2, <1>3, <1>4

(* The rounds after each event.                                            *)
Grouped(grouped, es) ==
  /\ grouped[0] = <<>> /\ Rounds(es) = grouped[Len(es)]
  /\ \A k \in 0..Len(es) : grouped[k] \in Seq(OneRound)
  /\ \A k \in 1..Len(es) : grouped[k] = Group(grouped[k - 1], es[k])

LEMMA GroupedDef ==
  ASSUME NEW es \in Seq(Anyone)
  PROVE  \E grouped : Grouped(grouped, es)
<1> DEFINE Step(k, t) == Group(t, es[k])
           V == Seq(OneRound)
           n == Len(es)
           grouped[k \in 0..n] == IF k = 0 THEN <<>> ELSE Step(k, grouped[k - 1])
<1>1. n \in Nat /\ \A k \in 1..n : es[k] \in Anyone
  OBVIOUS
<1>2. <<>> \in V /\ \A k \in 1..n : \A t \in V : Step(k, t) \in V
  <2>1. ASSUME NEW k \in 1..n, NEW t \in Seq(OneRound) PROVE Group(t, es[k]) \in Seq(OneRound)
    <3>1. es[k] \in Anyone
      BY <1>1
    <3>2. QED
      BY <3>1, GroupShape
  <2>2. QED
    BY <2>1
<1>3. Rounds(es) = grouped[n]
  BY DEF Rounds
<1> HIDE DEF n
<1> DEFINE F == [k \in 1..n |-> [t \in V |-> Step(k, t)]]
<1> HIDE DEF Step, V
<1>4. \A k \in 1..n : \A t \in V : F[k][t] = Step(k, t) /\ F[k][t] \in V
  BY <1>2
<1> HIDE DEF F
<1>5. PICK f : Loop(f, <<>>, F, n, V)
  BY <1>1, <1>2, <1>4, Recursion DEF Steps
<1>6. f = [k \in 0..n |-> IF k = 0 THEN <<>> ELSE Step(k, f[k - 1])]
  BY <1>1, <1>4, <1>5 DEF Loop
<1>7. grouped = [k \in 0..n |-> IF k = 0 THEN <<>> ELSE Step(k, grouped[k - 1])]
  BY <1>6
<1> HIDE DEF grouped
<1>8. grouped[0] = <<>> /\ \A k \in 1..n : grouped[k] = Step(k, grouped[k - 1])
  BY <1>1, <1>7
<1> DEFINE T == {k \in 0..n : grouped[k] \in V}
<1>9. 0 \in T
  BY <1>1, <1>2, <1>8
<1>10. \A k \in 1..n : k - 1 \in T => k \in T
  BY <1>1, <1>2, <1>8
<1> HIDE DEF T
<1>11. \A k \in 0..n : k \in T
  BY <1>1, <1>9, <1>10, UpTo
<1>12. \A k \in 0..n : grouped[k] \in V
  BY <1>11 DEF T
<1>13. Grouped(grouped, es)
  BY <1>3, <1>8, <1>12 DEF Grouped, n, Step, V
<1>14. QED
  BY <1>13

(* How many queries there are up to each event.                            *)
Asked(es, k) == {j \in 1..k : IsQuery(es[j])}

LEMMA AskedCount ==
  ASSUME NEW es \in Seq(Anyone), NEW k \in 1..Len(es)
  PROVE  /\ Cardinality(Asked(es, k - 1)) \in Nat /\ Cardinality(Asked(es, k)) \in Nat
         /\ Cardinality(Asked(es, k)) =
              Cardinality(Asked(es, k - 1)) + (IF IsQuery(es[k]) THEN 1 ELSE 0)
<1>1. IsFiniteSet(1..(k - 1)) /\ Asked(es, k - 1) \in SUBSET (1..(k - 1))
  BY FS_Interval DEF Asked
<1>2. IsFiniteSet(Asked(es, k - 1))
  BY <1>1, FS_Subset
<1>3. Asked(es, k) = IF IsQuery(es[k]) THEN Asked(es, k - 1) \cup {k} ELSE Asked(es, k - 1)
  BY DEF Asked
<1>4. k \notin Asked(es, k - 1)
  BY DEF Asked
<1>5. QED
  BY <1>2, <1>3, <1>4, FS_AddElement, FS_CardinalityType

LEMMA AskedGrows ==
  ASSUME NEW es \in Seq(Anyone), NEW j \in 0..Len(es), NEW k \in 0..Len(es), j <= k
  PROVE  /\ Cardinality(Asked(es, j)) \in Nat /\ Cardinality(Asked(es, k)) \in Nat
         /\ Cardinality(Asked(es, j)) <= Cardinality(Asked(es, k))
<1>1. \A m \in 0..Len(es) : IsFiniteSet(Asked(es, m)) /\ Cardinality(Asked(es, m)) \in Nat
  <2> TAKE m \in 0..Len(es)
  <2>1. IsFiniteSet(1..m) /\ Asked(es, m) \in SUBSET (1..m)
    BY FS_Interval DEF Asked
  <2>2. QED
    BY <2>1, FS_Subset, FS_CardinalityType
<1>2. Asked(es, j) \subseteq Asked(es, k)
  BY DEF Asked
<1>3. QED
  BY <1>1, <1>2, FS_Subset

LEMMA AskedAll ==
  ASSUME NEW es \in Seq(Anyone), NEW k \in 0..Len(es)
  PROVE  /\ Boundaries(es) = Asked(es, Len(es))
         /\ Boundaries(SubSeq(es, 1, k)) = Asked(es, k)
<1>1. DOMAIN SubSeq(es, 1, k) = 1..k /\ \A j \in 1..k : SubSeq(es, 1, k)[j] = es[j]
  OBVIOUS
<1>2. QED
  BY <1>1 DEF Boundaries, Asked

(* Each query has the number of its round, and each round its query.       *)
LEMMA QueryOfRound ==
  ASSUME NEW es \in Seq(Anyone)
  PROVE  /\ \A j, k \in Boundaries(es) :
              Cardinality(Asked(es, j)) = Cardinality(Asked(es, k)) => j = k
         /\ \A k \in Boundaries(es) : Cardinality(Asked(es, k)) \in 1..Cardinality(Boundaries(es))
         /\ \A turn \in 1..Cardinality(Boundaries(es)) :
              \E k \in Boundaries(es) : Cardinality(Asked(es, k)) = turn
<1> DEFINE n == Len(es)
           C(k) == Cardinality(Asked(es, k))
<1>1. n \in Nat /\ Boundaries(es) = Asked(es, n) /\ Boundaries(es) = {k \in 1..n : IsQuery(es[k])}
  BY AskedAll DEF Asked
<1>2. \A k \in 1..n : C(k - 1) \in Nat /\ C(k) = C(k - 1) + (IF IsQuery(es[k]) THEN 1 ELSE 0)
  BY AskedCount
<1>3. \A j, k \in 0..n : j <= k => C(j) \in Nat /\ C(k) \in Nat /\ C(j) <= C(k)
  BY AskedGrows
<1>4. C(0) = 0
  <2>1. Asked(es, 0) = {}
    BY DEF Asked
  <2>2. QED
    BY <2>1, FS_EmptySet
<1>5. C(n) = Cardinality(Boundaries(es))
  BY <1>1
<1> HIDE DEF n, C
<1>6. ASSUME NEW j \in Boundaries(es), NEW k \in Boundaries(es), j < k PROVE C(j) < C(k)
  <2>1. j \in 1..n /\ k \in 1..n /\ IsQuery(es[k]) /\ k - 1 \in 0..n /\ j <= k - 1
    BY <1>1, <1>6
  <2>2. C(k) = C(k - 1) + 1 /\ C(j) <= C(k - 1) /\ C(j) \in Nat /\ C(k - 1) \in Nat
    BY <1>2, <1>3, <2>1
  <2>3. QED
    BY <2>2
<1>7. \A j, k \in Boundaries(es) : C(j) = C(k) => j = k
  <2> TAKE j, k \in Boundaries(es)
  <2>1. j \in 1..n /\ k \in 1..n
    BY <1>1
  <2>2. C(j) \in Nat /\ C(k) \in Nat
    BY <1>1, <1>3, <2>1
  <2>3. QED
    BY <1>1, <1>6, <2>1, <2>2
<1>8. ASSUME NEW k \in Boundaries(es) PROVE C(k) \in 1..C(n)
  <2>1. k \in 1..n /\ IsQuery(es[k]) /\ n \in 0..n
    BY <1>1
  <2>2. C(k) = C(k - 1) + 1 /\ C(k - 1) \in Nat /\ C(k) <= C(n) /\ C(n) \in Nat
    BY <1>1, <1>2, <1>3, <2>1
  <2>3. QED
    BY <2>2
<1>9. \A turn \in 1..C(n) : \E k \in Boundaries(es) : C(k) = turn
  <2> DEFINE T == {m \in 0..n : \A turn \in 1..C(m) : \E k \in Boundaries(es) : C(k) = turn}
  <2>1. 0 \in T
    BY <1>1, <1>4
  <2>2. ASSUME NEW m \in 1..n, m - 1 \in T PROVE m \in T
    <3>1. C(m - 1) \in Nat /\ C(m) = C(m - 1) + (IF IsQuery(es[m]) THEN 1 ELSE 0)
      BY <1>2
    <3>2. ASSUME NEW turn \in 1..C(m) PROVE \E k \in Boundaries(es) : C(k) = turn
      <4>1. CASE turn \in 1..C(m - 1)
        BY <2>2, <4>1
      <4>2. CASE turn \notin 1..C(m - 1)
        <5>1. IsQuery(es[m]) /\ C(m) = turn
          BY <3>1, <3>2, <4>2
        <5>2. m \in Boundaries(es)
          BY <1>1, <5>1
        <5>3. QED
          BY <5>1, <5>2
      <4>3. QED
        BY <4>1, <4>2
    <3>3. QED
      BY <1>1, <3>2
  <2> HIDE DEF T
  <2>3. \A m \in 0..n : m \in T
    BY <1>1, <2>1, <2>2, UpTo
  <2>4. QED
    BY <1>1, <2>3 DEF T
<1>10. QED
  BY <1>5, <1>7, <1>8, <1>9 DEF C

(* There is a round for each query so far.                                 *)
LEMMA RoundsCount ==
  ASSUME NEW es \in Seq(Anyone), NEW grouped, Grouped(grouped, es)
  PROVE  \A k \in 0..Len(es) : Len(grouped[k]) = Cardinality(Asked(es, k))
<1> DEFINE n == Len(es)
           T == {k \in 0..n : Len(grouped[k]) = Cardinality(Asked(es, k))}
<1>1. n \in Nat /\ \A k \in 1..n : es[k] \in Anyone
  OBVIOUS
<1>2. 0 \in T
  <2>1. Asked(es, 0) = {}
    BY DEF Asked
  <2>2. Len(grouped[0]) = 0
    BY DEF Grouped
  <2>3. Cardinality(Asked(es, 0)) = 0
    BY <2>1, FS_EmptySet
  <2>4. QED
    BY <1>1, <2>2, <2>3
<1>3. ASSUME NEW k \in 1..n, k - 1 \in T PROVE k \in T
  <2>1. /\ grouped[k - 1] \in Seq(OneRound) /\ grouped[k] = Group(grouped[k - 1], es[k])
        /\ es[k] \in Anyone
    BY <1>1 DEF Grouped
  <2>2. Len(grouped[k]) = Len(grouped[k - 1]) + (IF IsQuery(es[k]) THEN 1 ELSE 0)
    <3>1. IF IsQuery(es[k]) THEN Begun(grouped[k], grouped[k - 1], es[k])
          ELSE Continued(grouped[k], grouped[k - 1])
      BY <2>1, GroupShape
    <3>2. Len(grouped[k - 1]) \in Nat
      BY <2>1
    <3>3. CASE IsQuery(es[k])
      BY <3>1, <3>3 DEF Begun
    <3>4. CASE ~IsQuery(es[k])
      <4>1. Len(grouped[k]) = Len(grouped[k - 1])
        BY <3>1, <3>4 DEF Continued
      <4>2. QED
        BY <3>2, <3>4, <4>1
    <3>5. QED
      BY <3>3, <3>4
  <2>3. Len(grouped[k - 1]) = Cardinality(Asked(es, k - 1))
    BY <1>3
  <2>4. Cardinality(Asked(es, k)) = Cardinality(Asked(es, k - 1)) + (IF IsQuery(es[k]) THEN 1 ELSE 0)
    BY AskedCount
  <2> HIDE DEF T
  <2>5. QED
    BY <2>2, <2>3, <2>4 DEF T
<1> HIDE DEF T
<1>4. \A k \in 0..n : k \in T
  BY <1>1, <1>2, <1>3, UpTo
<1>5. QED
  BY <1>4 DEF T

(* What a fork copies of a log has the rounds the log had by then: the     *)
(* session an event belongs to is not looked at.                           *)
LEMMA RoundsCopied ==
  ASSUME NEW es \in Seq(Anyone), NEW grouped, Grouped(grouped, es), NEW cut \in 0..Len(es)
  PROVE  Rounds(Copied(es, cut, 2)) = grouped[cut]
<1> DEFINE c == Copied(es, cut, 2)
<1>1. \A k \in 1..Len(es) : es[k] \in Anyone
  OBVIOUS
<1>2. ASSUME NEW k \in 1..cut
      PROVE  c[k] \in Anyone /\ c[k].kind = es[k].kind /\ c[k].seq = es[k].seq
  <2>1. c[k] = [es[k] EXCEPT !.sid = 2] /\ es[k] \in Anyone
    BY <1>1 DEF Copied
  <2>2. \A e \in Anyone : /\ [e EXCEPT !.sid = 2] \in Anyone
                          /\ [e EXCEPT !.sid = 2].kind = e.kind /\ [e EXCEPT !.sid = 2].seq = e.seq
    BY DEF Anyone
  <2> HIDE DEF c
  <2>3. QED
    BY <2>1, <2>2
<1>3. c \in Seq(Anyone) /\ Len(c) = cut
  <2>1. c = [k \in 1..cut |-> c[k]]
    BY DEF Copied
  <2> HIDE DEF c
  <2>2. QED
    BY <1>2, <2>1
<1>4. PICK h : Grouped(h, c)
  BY <1>3, GroupedDef
<1>5. /\ h[0] = <<>> /\ Rounds(c) = h[cut]
      /\ \A k \in 1..cut : h[k] = Group(h[k - 1], c[k])
  BY <1>3, <1>4 DEF Grouped
<1>6. grouped[0] = <<>> /\ \A k \in 1..cut : grouped[k] = Group(grouped[k - 1], es[k])
  BY DEF Grouped
<1>7. \A k \in 1..cut : \A rounds : Group(rounds, c[k]) = Group(rounds, es[k])
  BY <1>2 DEF Group, IsQuery, Round, Told
<1> HIDE DEF c
<1> DEFINE T == {k \in 0..cut : h[k] = grouped[k]}
<1>8. 0 \in T
  BY <1>5, <1>6
<1>9. ASSUME NEW k \in 1..cut, k - 1 \in T PROVE k \in T
  <2>1. h[k - 1] = grouped[k - 1]
    BY <1>9
  <2>2. h[k] = Group(grouped[k - 1], c[k]) /\ grouped[k] = Group(grouped[k - 1], es[k])
    BY <1>5, <1>6, <2>1
  <2>3. h[k] = grouped[k]
    BY <1>7, <2>2
  <2>4. QED
    BY <2>3
<1> HIDE DEF T
<1>10. \A k \in 0..cut : k \in T
  BY <1>8, <1>9, UpTo
<1>11. QED
  BY <1>5, <1>10 DEF T, c

(* A query closes the rounds before it, and keeps its own.                 *)
LEMMA RoundStays ==
  ASSUME NEW es \in Seq(Anyone), NEW grouped, Grouped(grouped, es),
         NEW j \in 1..Len(es), IsQuery(es[j])
  PROVE  /\ \A t \in 1..Len(grouped[j - 1]) : grouped[Len(es)][t] = grouped[j - 1][t]
         /\ grouped[Len(es)][Len(grouped[j - 1]) + 1].query = es[j].seq
         /\ Len(grouped[Len(es)]) >= Len(grouped[j - 1]) + 1
<1> DEFINE n == Len(es)
           before == grouped[j - 1]
           c == Len(before)
           Stands(k) == /\ Len(grouped[k]) >= c + 1 /\ grouped[k][c + 1].query = es[j].seq
                       /\ \A t \in 1..c : grouped[k][t] = before[t]
           T == {k \in 0..n : k < j \/ Stands(k)}
<1>1. n \in Nat /\ c \in Nat /\ \A k \in 1..n : es[k] \in Anyone
  <2>1. before \in Seq(OneRound)
    BY DEF Grouped
  <2>2. QED
    BY <2>1
<1>2. \A k \in 1..n : grouped[k - 1] \in Seq(OneRound) /\ grouped[k] = Group(grouped[k - 1], es[k])
  BY DEF Grouped
<1>3. Stands(j)
  <2>1. before \in Seq(OneRound) /\ grouped[j] = Group(before, es[j]) /\ es[j] \in Anyone
    BY <1>1, <1>2
  <2> HIDE DEF before
  <2>2. Begun(grouped[j], before, es[j])
    BY <2>1, GroupShape
  <2>3. QED
    BY <1>1, <2>2 DEF Begun, before
<1>4. ASSUME NEW k \in 1..n, j < k, Stands(k - 1) PROVE Stands(k)
  <2> DEFINE rounds == grouped[k - 1]
  <2>1. rounds \in Seq(OneRound) /\ grouped[k] = Group(rounds, es[k]) /\ es[k] \in Anyone
    BY <1>1, <1>2
  <2>2. Len(rounds) >= c + 1 /\ rounds[c + 1].query = es[j].seq /\ \A t \in 1..c : rounds[t] = before[t]
    BY <1>4
  <2> HIDE DEF rounds, before, c
  <2>3. Len(rounds) \in Nat
    BY <2>1
  <2>4. CASE IsQuery(es[k])
    <3>1. Begun(grouped[k], rounds, es[k])
      BY <2>1, <2>4, GroupShape
    <3>2. QED
      BY <1>1, <2>2, <2>3, <3>1 DEF Begun
  <2>5. CASE ~IsQuery(es[k])
    <3>1. Continued(grouped[k], rounds)
      BY <2>1, <2>5, GroupShape
    <3>2. QED
      BY <1>1, <2>2, <2>3, <3>1 DEF Continued
  <2>6. QED
    BY <2>4, <2>5
<1> HIDE DEF Stands
<1>5. 0 \in T
  BY <1>1
<1>6. ASSUME NEW k \in 1..n, k - 1 \in T PROVE k \in T
  <2>1. CASE k < j
    BY <1>1, <2>1
  <2>2. CASE k = j
    BY <1>3, <2>2
  <2>3. CASE j < k
    BY <1>4, <1>6, <2>3
  <2>4. QED
    BY <2>1, <2>2, <2>3
<1> HIDE DEF T
<1>7. \A k \in 0..n : k \in T
  BY <1>1, <1>5, <1>6, UpTo
<1>8. Stands(n)
  BY <1>1, <1>7 DEF T
<1>9. QED
  BY <1>8 DEF Stands

(* What show tells of a log, a fork keeps of it and replay asks again are  *)
(* cut at the same queries, for every log.                                 *)
LEMMA EveryLogTold ==
  ASSUME NEW es \in Seq(Anyone)
  PROVE  RoundsAgree(es)
<1> DEFINE n == Len(es)
           rounds == Rounds(es)
           C(k) == Cardinality(Asked(es, k))
           last == Cardinality(Boundaries(es))
           cutAt(turn) == Cut(es, turn)
<1>1. PICK grouped : Grouped(grouped, es)
  BY GroupedDef
<1>2. rounds = grouped[n] /\ rounds \in Seq(OneRound) /\ n \in Nat
  BY <1>1 DEF Grouped
<1>3. Boundaries(es) = Asked(es, n) /\ Boundaries(es) = {k \in 1..n : IsQuery(es[k])}
  BY AskedAll DEF Asked
<1>4. Len(rounds) = last
  <2>1. n \in 0..n
    BY <1>2
  <2>2. Len(grouped[n]) = C(n)
    BY <1>1, <2>1, RoundsCount
  <2>3. QED
    BY <1>2, <1>3, <2>2
<1>5. \A k \in Boundaries(es) : Cardinality(Boundaries(SubSeq(es, 1, k))) = C(k)
  BY <1>3, AskedAll
<1>6. cutAt(AtTail) = n
  BY DEF Cut
<1>7. ASSUME NEW turn \in 1..last
      PROVE  \E k \in Boundaries(es) : C(k) = turn /\ cutAt(turn) = k - 1
  <2>1. turn # AtTail
    BY DEF AtTail
  <2>2. \E k \in Boundaries(es) : C(k) = turn
    BY QueryOfRound
  <2> DEFINE k == CHOOSE k \in Boundaries(es) : Cardinality(Boundaries(SubSeq(es, 1, k))) = turn
  <2>3. k \in Boundaries(es) /\ Cardinality(Boundaries(SubSeq(es, 1, k))) = turn
    BY <1>5, <2>2
  <2>4. cutAt(turn) = k - 1
    BY <2>1 DEF Cut
  <2> HIDE DEF k
  <2>5. QED
    BY <1>5, <2>3, <2>4
<1>8. ASSUME NEW k \in Boundaries(es)
      PROVE  C(k) \in 1..last /\ cutAt(C(k)) = k - 1
  <2>1. C(k) \in 1..last
    BY QueryOfRound
  <2>2. PICK j \in Boundaries(es) : C(j) = C(k) /\ cutAt(C(k)) = j - 1
    BY <1>7, <2>1
  <2>3. j = k
    BY <2>2, QueryOfRound
  <2>4. QED
    BY <2>1, <2>2, <2>3
<1>9. Rounds(Copied(es, cutAt(AtTail), 2)) = rounds
  BY <1>1, <1>2, <1>6, RoundsCopied
<1>10. {cutAt(turn) : turn \in AtTurn(es)} = Cuts(es)
  <2>1. AtTurn(es) = {AtTail} \cup 1..last /\ Cuts(es) = {k - 1 : k \in Boundaries(es)} \cup {n}
    BY DEF AtTurn, Cuts
  <2> HIDE DEF cutAt, last, n, C
  <2>2. \A turn \in AtTurn(es) : cutAt(turn) \in Cuts(es)
    BY <1>6, <1>7, <2>1
  <2>3. \A cut \in Cuts(es) : \E turn \in AtTurn(es) : cut = cutAt(turn)
    BY <1>6, <1>8, <2>1
  <2>4. QED
    BY <2>2, <2>3
<1>11. ASSUME NEW turn \in 1..last
       PROVE  /\ Rounds(Copied(es, cutAt(turn), 2)) = SubSeq(rounds, 1, turn - 1)
              /\ rounds[turn].query = es[cutAt(turn) + 1].seq
  <2>1. PICK k \in Boundaries(es) : C(k) = turn /\ cutAt(turn) = k - 1
    BY <1>7
  <2> HIDE DEF cutAt, rounds, last
  <2>2. k \in 1..n /\ IsQuery(es[k]) /\ k - 1 \in 0..n
    BY <1>2, <1>3
  <2> DEFINE before == grouped[k - 1]
  <2>3. before \in Seq(OneRound) /\ Len(before) = turn - 1
    <3>1. Len(before) = C(k - 1) /\ before \in Seq(OneRound)
      BY <1>1, <2>2, RoundsCount DEF Grouped
    <3>2. C(k) = C(k - 1) + 1 /\ C(k - 1) \in Nat
      BY <2>2, AskedCount
    <3>3. QED
      BY <2>1, <3>1, <3>2
  <2>4. Rounds(Copied(es, cutAt(turn), 2)) = before
    BY <1>1, <2>1, <2>2, RoundsCopied
  <2>5. /\ \A t \in 1..Len(before) : rounds[t] = before[t]
        /\ rounds[Len(before) + 1].query = es[k].seq /\ Len(rounds) >= Len(before) + 1
    BY <1>1, <1>2, <2>2, RoundStays
  <2> HIDE DEF before, C, n
  <2>6. SubSeq(rounds, 1, turn - 1) = before
    <3>1. turn \in Nat /\ Len(rounds) \in Nat /\ before \in Seq(OneRound)
      BY <1>2, <2>3
    <3>2. \A t \in 1..(turn - 1) : rounds[t] \in OneRound /\ rounds[t] = before[t]
      BY <1>2, <2>3, <2>5
    <3>3. SubSeq(rounds, 1, turn - 1) = [t \in 1..(turn - 1) |-> rounds[t]]
      BY DEF SubSeq
    <3>4. before = [t \in 1..(turn - 1) |-> before[t]]
      BY <2>3
    <3>5. QED
      BY <3>2, <3>3, <3>4
  <2>7. rounds[turn].query = es[cutAt(turn) + 1].seq
    <3>1. cutAt(turn) + 1 = k /\ Len(before) + 1 = turn
      BY <2>1, <2>2, <2>3
    <3>2. QED
      BY <2>5, <3>1
  <2>8. QED
    BY <2>4, <2>6, <2>7
<1>12. DOMAIN rounds = 1..last
  BY <1>2, <1>4
<1>13. QED
  BY <1>4, <1>9, <1>10, <1>11, <1>12 DEF RoundsAgree

(* The server's window is the end of the log.                              *)
LEMMA EveryWindowTold ==
  ASSUME NEW es \in Seq(Anyone), NEW limit \in Nat
  PROVE  WindowTells(es, limit)
<1> DEFINE n == Len(es)
           end == SubSeq(es, n - limit + 1, n)
<1>1. n \in Nat /\ SubSeq(es, 1, n) = es /\ n - n + 1 = 1
  OBVIOUS
<1>2. CASE limit = 0 \/ limit >= n
  <2>1. LastOf(es, limit) = es
    BY <1>2 DEF LastOf
  <2>2. Window(es, limit) = [status |-> 200, total |-> n, truncated |-> FALSE, events |-> es]
    <3>1. (Len(es) < Len(es)) = FALSE
      BY <1>1
    <3>2. QED
      BY <2>1, <3>1 DEF Window
  <2>3. QED
    BY <1>1, <2>2 DEF WindowTells
<1>3. CASE ~(limit = 0 \/ limit >= n)
  <2>1. LastOf(es, limit) = end
    BY <1>3 DEF LastOf
  <2>2. Len(end) = limit /\ limit < n
    BY <1>1, <1>3, SubSeqProperties
  <2>3. end = SubSeq(es, n - Len(end) + 1, n)
    BY <2>2
  <2> HIDE DEF end
  <2>4. Window(es, limit) = [status |-> 200, total |-> n, truncated |-> TRUE, events |-> end]
    <3>1. (Len(end) < Len(es)) = TRUE
      BY <1>1, <2>2
    <3>2. QED
      BY <2>1, <3>1 DEF Window
  <2>5. /\ Window(es, limit).events = end /\ Window(es, limit).total = n
        /\ Window(es, limit).truncated = TRUE
    BY <2>4
  <2>6. QED
    BY <2>2, <2>3, <2>5 DEF WindowTells
<1>4. QED
  BY <1>2, <1>3

(* Whatever the log: the rounds a fork keeps, show prints and replay asks  *)
(* are the same, and the server's window is the end of it.  Whatever the   *)
(* sidecars name as parents: every session is drawn in exactly one tree,   *)
(* under its parent where there is no cycle (tree.py).                     *)
THEOREM ReadersCorrect == Spec => []ReadersExact
<1>1. RoundsTold
  <2> SUFFICES ASSUME NEW n \in 0..MaxEvents + 1,
                      NEW kinds \in [1..n -> {"query", "answer", "citation", "other"}]
               PROVE  LET es == [k \in 1..n |-> [sid |-> 1, seq |-> k - 1, kind |-> kinds[k]]]
                      IN RoundsAgree(es) /\ \A limit \in 0..n + 1 : WindowTells(es, limit)
    BY DEF RoundsTold
  <2> DEFINE es == [k \in 1..n |-> [sid |-> 1, seq |-> k - 1, kind |-> kinds[k]]]
  <2>1. n \in Nat
    BY CatalogAssumption
  <2>2. es \in Seq(Anyone)
    BY <2>1 DEF Anyone
  <2>3. \A limit \in 0..n + 1 : limit \in Nat
    BY <2>1
  <2> HIDE DEF es
  <2>4. RoundsAgree(es) /\ \A limit \in 0..n + 1 : WindowTells(es, limit)
    BY <2>2, <2>3, EveryLogTold, EveryWindowTold
  <2>5. QED
    BY <2>4 DEF es
<1>2. DrawnOnce
  <2>1. \A n \in 1..TreeSize : n \in Nat
    BY CatalogAssumption
  <2>2. QED
    BY <2>1, EveryTreeDrawn DEF DrawnOnce
<1>3. ReadersExact
  BY <1>1, <1>2 DEF ReadersExact
<1>4. QED
  BY <1>3, PTL
=============================================================================
