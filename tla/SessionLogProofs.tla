-------------------------- MODULE SessionLogProofs --------------------------
(***************************************************************************)
(* Theorems about SessionLog, for any number of live Session objects of    *)
(* one session and any number of events: the type invariant, that an event *)
(* a consumer has seen is in the log, and that each writer's events stand  *)
(* there in the order it made them.                                        *)
(***************************************************************************)
EXTENDS SessionLog, SequenceTheorems, TLAPS

Places == {"closed", "idle", "asked", "running", "ending"}

-----------------------------------------------------------------------------
(* The file.                                                               *)

(* Events make lines.                                                      *)
LEMMA LinesType ==
  ASSUME NEW es \in Seq(Event)
  PROVE  Lines(es) \in Seq(Text) /\ Len(Lines(es)) = Len(es)
<1>1. \A k \in 1..Len(es) : [event |-> es[k], piece |-> "line"] \in Text
  BY DEF Text, Pieces
<1>2. Lines(es) \in [1..Len(es) -> Text]
  BY <1>1 DEF Lines
<1>3. QED
  BY <1>2

(* An append leaves a sequence of texts, whether it breaks off or not.     *)
LEMMA WithLinesType ==
  ASSUME file \in Seq(Text), NEW es \in Seq(Event)
  PROVE  WithLines(es) \in Seq(Text)
  BY LinesType DEF WithLines

LEMMA BrokenOffType ==
  ASSUME NEW f \in Seq(Text), NEW e \in Event, NEW g \in BrokenOff(f, e)
  PROVE  g \in Seq(Text)
<1>1. \A p \in Pieces : [event |-> e, piece |-> p] \in Text
  BY DEF Text
<1>2. \A p \in Pieces : Append(f, [event |-> e, piece |-> p]) \in Seq(Text)
  BY <1>1
<1>3. QED
  BY <1>2 DEF BrokenOff

(* What load_events reads of a log of lines is a sequence of events.       *)
LEMMA EventsInType ==
  ASSUME file \in Seq(Text)
  PROVE  EventsIn(file) \in Seq(Event) /\ Len(EventsIn(file)) = Len(file)
<1>1. \A k \in 1..Len(file) : file[k].event \in Event
  <2>1. \A k \in 1..Len(file) : file[k] \in Text
    OBVIOUS
  <2>2. \A text \in Text : text.event \in Event
    BY DEF Text
  <2>3. QED
    BY <2>1, <2>2
<1>2. EventsIn(file) \in [1..Len(file) -> Event]
  BY <1>1 DEF EventsIn
<1>3. QED
  BY <1>2

-----------------------------------------------------------------------------
(* Type correctness.                                                       *)

LEMMA TypeInit == Init => TypeOK
<1> SUFFICES ASSUME Init PROVE TypeOK
  OBVIOUS
<1>1. <<>> \in Seq(Event) /\ <<>> \in Seq(Text) /\ Len(<<>>) = 0
  OBVIOUS
<1>2. events \in [Writers -> Seq(Event)] /\ \A w \in Writers : persisted[w] <= Len(events[w])
  BY <1>1 DEF Init
<1>3. persisted \in [Writers -> Nat] /\ seq \in [Writers -> Nat] /\ pc \in [Writers -> Places]
  BY DEF Init, Places
<1>4. QED
  BY <1>1, <1>2, <1>3 DEF Init, TypeOK, Places

LEMMA NewEventType ==
  ASSUME made \in Nat, NEW w \in Writers, NEW number \in Nat,
         NEW kind \in {"query", "step", "last"}
  PROVE  NewEvent(w, number, kind) \in Event
  BY DEF NewEvent, Event

LEMMA DropType ==
  ASSUME TypeOK, NEW w \in Writers, Drop(w)
  PROVE  /\ pc' \in [Writers -> Places] /\ events' \in [Writers -> Seq(Event)]
         /\ persisted' \in [Writers -> Nat] /\ seq' \in [Writers -> Nat]
         /\ \A x \in Writers : persisted'[x] <= Len(events'[x])
<1>1. \A x \in Writers : /\ events'[x] = IF x = w THEN <<>> ELSE events[x]
                         /\ persisted'[x] = IF x = w THEN 0 ELSE persisted[x]
  BY DEF Drop, TypeOK
<1>2. <<>> \in Seq(Event) /\ Len(<<>>) = 0
  OBVIOUS
<1>3. QED
  BY <1>1, <1>2 DEF Drop, Move, TypeOK, Places

LEMMA LogWholeType ==
  ASSUME TypeOK, NEW w \in Writers, NEW e \in Event, NEW next \in Nat,
         NEW place \in Places, NEW stop \in Places, LogWhole(w, e, next, place, stop)
  PROVE  TypeOK'
<1>1. Append(events[w], e) \in Seq(Event) /\ Len(Append(events[w], e)) = Len(events[w]) + 1
  BY DEF TypeOK
<1>2. /\ events' = [events EXCEPT ![w] = Append(events[w], e)] /\ events' \in [Writers -> Seq(Event)]
      /\ made' \in Nat /\ seq' \in [Writers -> Nat] /\ sidecar' = sidecar
  BY <1>1 DEF LogWhole, Remember, TypeOK
<1>3. \A x \in Writers : Len(events'[x]) = IF x = w THEN Len(events[w]) + 1 ELSE Len(events[x])
  BY <1>1, <1>2 DEF TypeOK
<1>4. CASE AutoSave[w] /\ Written(<<e>>) /\ Count(w) /\ Show(w, e, place)
  <2>1. <<e>> \in Seq(Event)
    OBVIOUS
  <2>2. file' \in Seq(Text)
    BY <1>4, <2>1, WithLinesType DEF Written, TypeOK
  <2>3. /\ persisted' \in [Writers -> Nat]
        /\ \A x \in Writers : persisted'[x] = IF x = w THEN persisted[w] + 1 ELSE persisted[x]
    BY <1>4 DEF Count, TypeOK
  <2>4. \A x \in Writers : persisted'[x] <= Len(events'[x])
    <3>1. \A x \in Writers : /\ persisted[x] \in Nat /\ Len(events[x]) \in Nat
                             /\ persisted[x] <= Len(events[x])
      BY DEF TypeOK
    <3>2. QED
      BY <1>3, <2>3, <3>1
  <2>5. pc' \in [Writers -> Places] /\ shown' \subseteq Event /\ failed' = failed /\ died' = died
    BY <1>4 DEF Show, Move, TypeOK, Places
  <2>6. QED
    BY <1>2, <2>2, <2>3, <2>4, <2>5 DEF TypeOK, Places
<1>5. CASE UNCHANGED persisted /\ file' \in Seq(Text)
  <2>1. \A x \in Writers : persisted'[x] <= Len(events'[x])
    <3>1. \A x \in Writers : /\ persisted[x] \in Nat /\ Len(events[x]) \in Nat
                             /\ persisted[x] <= Len(events[x])
      BY DEF TypeOK
    <3>2. QED
      BY <1>3, <1>5, <3>1
  <2>2. CASE Show(w, e, place)
    BY <1>2, <1>5, <2>1, <2>2 DEF Show, Move, TypeOK, Places
  <2>3. CASE Move(w, stop) /\ failed' = failed \cup {e} /\ UNCHANGED <<shown, died>>
    BY <1>2, <1>5, <2>1, <2>3 DEF Move, TypeOK, Places
  <2>4. CASE AutoSave[w] /\ Written(<<e>>) /\ Count(w) /\ Show(w, e, place)
    BY <1>4, <2>4
  <2>5. QED
    BY <2>2, <2>3, <2>4 DEF LogWhole
<1>6. CASE ~AutoSave[w] /\ Show(w, e, place) /\ UNCHANGED <<file, persisted>>
  BY <1>5, <1>6 DEF TypeOK
<1>7. CASE Move(w, stop) /\ file' \in BrokenOff(file, e) /\ UNCHANGED persisted
  BY <1>5, <1>7, BrokenOffType DEF TypeOK
<1>8. QED
  BY <1>4, <1>6, <1>7 DEF LogWhole

LEMMA LogTornType ==
  ASSUME TypeOK, NEW w \in Writers, NEW e \in Event, LogTorn(w, e)
  PROVE  TypeOK'
<1>1. file' \in Seq(Text)
  BY BrokenOffType DEF LogTorn, TypeOK
<1>2. made' \in Nat /\ died' \subseteq Event /\ UNCHANGED <<sidecar, shown, failed>>
  BY DEF LogTorn, TypeOK
<1>3. Drop(w)
  BY DEF LogTorn
<1>4. QED
  BY <1>1, <1>2, <1>3, DropType DEF TypeOK, Places

LEMMA LogType ==
  ASSUME TypeOK, NEW w \in Writers, NEW e \in Event, NEW next \in Nat,
         NEW place \in Places, NEW stop \in Places, Log(w, e, next, place, stop)
  PROVE  TypeOK'
  BY LogWholeType, LogTornType DEF Log

(* A part of what save() has to write is a sequence of events.             *)
LEMMA UnsavedType ==
  ASSUME TypeOK, NEW w \in Writers
  PROVE  /\ Unsaved(w) \in Seq(Event) /\ Len(Unsaved(w)) = Len(events[w]) - persisted[w]
         /\ \A k \in Nat : k <= Len(Unsaved(w)) => SubSeq(Unsaved(w), 1, k) \in Seq(Event)
<1>1. /\ events[w] \in Seq(Event) /\ persisted[w] \in Nat /\ Len(events[w]) \in Nat
      /\ persisted[w] <= Len(events[w])
  BY DEF TypeOK
<1>2. Unsaved(w) \in Seq(Event) /\ Len(Unsaved(w)) = Len(events[w]) - persisted[w]
  BY <1>1, SubSeqProperties DEF Unsaved
<1>3. \A k \in Nat : k <= Len(Unsaved(w)) => SubSeq(Unsaved(w), 1, k) \in Seq(Event)
  BY <1>2, SubSeqProperties
<1>4. QED
  BY <1>2, <1>3

(* The j-th of them is the j-th event behind the count.                    *)
LEMMA UnsavedAt ==
  ASSUME TypeOK, NEW w \in Writers
  PROVE  \A j \in 1..Len(Unsaved(w)) : Unsaved(w)[j] = events[w][persisted[w] + j]
<1>1. /\ events[w] \in Seq(Event) /\ persisted[w] \in Nat /\ Len(events[w]) \in Nat
      /\ persisted[w] <= Len(events[w])
  BY DEF TypeOK
<1>2. QED
  BY <1>1, SubSeqProperties, SMTT(30) DEF Unsaved

LEMMA MetaWrittenType ==
  ASSUME NEW count \in Nat, NEW f, MetaWritten(count, f)
  PROVE  sidecar' \in SUBSET Nat /\ \A m, n \in sidecar' : m = n
  BY DEF MetaWritten

LEMMA TypeStep == TypeOK /\ [Next]_vars => TypeOK'
<1> SUFFICES ASSUME TypeOK, [Next]_vars PROVE TypeOK'
  OBVIOUS
<1>1. /\ \A w \in Writers : /\ Len(events[w]) \in Nat /\ seq[w] \in Nat /\ persisted[w] \in Nat
                             /\ persisted[w] <= Len(events[w])
      /\ made \in Nat /\ file \in Seq(Text)
  BY DEF TypeOK
<1>2. ASSUME NEW w \in Writers, Open(w) PROVE TypeOK'
  <2>1. EventsIn(file) \in Seq(Event) /\ Len(EventsIn(file)) = Len(file) /\ Len(file) \in Nat
    BY <1>1, EventsInType
  <2>2. /\ events' = [events EXCEPT ![w] = EventsIn(file)]
        /\ persisted' = [persisted EXCEPT ![w] = Len(file)]
    BY <1>2 DEF Open, OpenCounting
  <2>3. \A x \in Writers : /\ events'[x] = IF x = w THEN EventsIn(file) ELSE events[x]
                           /\ persisted'[x] = IF x = w THEN Len(file) ELSE persisted[x]
    BY <2>2 DEF TypeOK
  <2>4. \A x \in Writers : persisted'[x] <= Len(events'[x])
    BY <1>1, <2>1, <2>3
  <2>5. events' \in [Writers -> Seq(Event)] /\ persisted' \in [Writers -> Nat]
    BY <2>1, <2>2 DEF TypeOK
  <2>6. QED
    BY <1>2, <2>4, <2>5 DEF Open, OpenCounting, Move, disk, outcome, TypeOK
<1>3. ASSUME NEW w \in Writers, Close(w) PROVE TypeOK'
  BY <1>3, DropType DEF Close, disk, outcome, TypeOK, Places
<1>4. ASSUME NEW w \in Writers, Ask(w) PROVE TypeOK'
  BY <1>1, <1>4, LogType, NewEventType DEF Ask, Places
<1>5. ASSUME NEW w \in Writers, StartLoop(w) PROVE TypeOK'
  BY <1>1, <1>5 DEF StartLoop, StartLoopAt, Move, disk, outcome, TypeOK
<1>6. ASSUME NEW w \in Writers, Step(w) PROVE TypeOK'
  BY <1>1, <1>6, LogType, NewEventType DEF Step, Places
<1>7. ASSUME NEW w \in Writers, Last(w) PROVE TypeOK'
  BY <1>1, <1>7, LogType, NewEventType DEF Last, Places
<1>8. ASSUME NEW w \in Writers, HookFails(w) PROVE TypeOK'
  <2>1. seq[w] + 1 \in Nat /\ seq[w] + 2 \in Nat
    BY <1>1
  <2>2. QED
    BY <1>1, <1>8, <2>1, LogType, NewEventType DEF HookFails, Places
<1>9. ASSUME NEW w \in Writers, Abandon(w) PROVE TypeOK'
  BY <1>9 DEF Abandon, Move, disk, outcome, TypeOK
<1>10. ASSUME NEW w \in Writers, WriteMeta(w) PROVE TypeOK'
  <2>1. sidecar' \in SUBSET Nat /\ \A m, n \in sidecar' : m = n
    BY <1>1, <1>10, MetaWrittenType DEF WriteMeta, TypeOK
  <2>2. QED
    BY <1>10, <2>1 DEF WriteMeta, Move, outcome, TypeOK
<1>11. ASSUME NEW w \in Writers, SaveAll(w) PROVE TypeOK'
  <2>1. sidecar' \in SUBSET Nat /\ \A m, n \in sidecar' : m = n
    BY <1>1, <1>11, MetaWrittenType DEF SaveAll
  <2>2. file' \in Seq(Text)
    BY <1>1, <1>11, UnsavedType, WithLinesType DEF SaveAll, Written
  <2>3. QED
    BY <1>1, <1>11, <2>1, <2>2 DEF SaveAll, outcome, TypeOK
<1>12. ASSUME NEW w \in Writers, NEW k \in 0..MaxEvents, SaveStops(w, k) PROVE TypeOK'
  <2>1. k \in Nat /\ k <= Len(Unsaved(w)) /\ persisted[w] + k \in Nat
        /\ persisted[w] + k <= Len(events[w])
    BY <1>1, <1>12, UnsavedType, WritersAssumption DEF SaveStops
  <2>2. k + 1 \in 1..Len(Unsaved(w)) /\ Unsaved(w)[k + 1] \in Event
    BY <1>1, <1>12, <2>1, UnsavedType DEF SaveStops
  <2>3. file' \in Seq(Text)
    BY <1>1, <1>12, <2>1, <2>2, UnsavedType, WithLinesType, BrokenOffType DEF SaveStops
  <2>4. failed' \subseteq Event /\ UNCHANGED <<sidecar, pc, events, seq, made, shown, died>>
    BY <1>12, <2>2 DEF SaveStops, TypeOK
  <2>5. /\ persisted' \in [Writers -> Nat]
        /\ \A x \in Writers : persisted'[x] = IF x = w THEN persisted[w] + k ELSE persisted[x]
    BY <1>1, <1>12, <2>1 DEF SaveStops, TypeOK
  <2>6. QED
    BY <1>1, <2>1, <2>3, <2>4, <2>5 DEF TypeOK
<1>13. ASSUME NEW w \in Writers, Kill(w) PROVE TypeOK'
  BY <1>13, DropType DEF Kill, disk, outcome, TypeOK, Places
<1>14. CASE UNCHANGED vars
  BY <1>14 DEF vars, TypeOK
<1>15. QED
  BY <1>2, <1>3, <1>4, <1>5, <1>6, <1>7, <1>8, <1>9, <1>10, <1>11, <1>12, <1>13, <1>14
     DEF Next

(* Whatever the writers do to each other, no Session object counts as      *)
(* persisted more events than it holds, and all variables keep their type. *)
THEOREM TypeCorrect == Spec => []TypeOK
  BY TypeInit, TypeStep, PTL DEF Spec

-----------------------------------------------------------------------------
(* What a consumer has seen is in the log.                                 *)

(* Every text without a newline is one whose append broke off.             *)
BreaksKnown ==
  \A k \in DOMAIN file : file[k].piece = "line" \/ file[k].event \in failed \cup died

Durable == TypeOK /\ BreaksKnown /\ SeenIsDurable

(* The file keeps its texts, and those it gains are lines or are known to  *)
(* have broken off.                                                        *)
Extended ==
  /\ \A k \in DOMAIN file : k \in DOMAIN file' /\ file'[k] = file[k]
  /\ \A k \in DOMAIN file' :
       k \notin DOMAIN file => file'[k].piece = "line" \/ file'[k].event \in failed' \cup died'
  /\ failed \subseteq failed' /\ died \subseteq died'

(* What append_event does to the file.                                     *)
LEMMA LinesAppended ==
  ASSUME TypeOK, NEW es \in Seq(Event)
  PROVE  /\ WithLines(es) \in Seq(Text) /\ Len(WithLines(es)) = Len(file) + Len(es)
         /\ \A k \in 1..Len(file) : WithLines(es)[k] = file[k]
         /\ \A k \in 1..Len(es) :
              WithLines(es)[Len(file) + k] = [event |-> es[k], piece |-> "line"]
<1>1. file \in Seq(Text) /\ Lines(es) \in Seq(Text) /\ Len(Lines(es)) = Len(es)
  BY LinesType DEF TypeOK
<1>2. \A k \in 1..Len(es) : Lines(es)[k] = [event |-> es[k], piece |-> "line"]
  <2>1. DOMAIN es = 1..Len(es)
    OBVIOUS
  <2>2. QED
    BY <2>1 DEF Lines
<1>3. /\ file \o Lines(es) \in Seq(Text) /\ Len(file \o Lines(es)) = Len(file) + Len(es)
      /\ \A k \in 1..Len(file) : (file \o Lines(es))[k] = file[k]
      /\ \A k \in 1..Len(es) : (file \o Lines(es))[Len(file) + k] = Lines(es)[k]
  BY <1>1
<1>4. QED
  BY <1>2, <1>3 DEF WithLines

(* A text of the new file is one of the old file's, or a line of es.       *)
LEMMA TextsAfter ==
  ASSUME TypeOK, NEW es \in Seq(Event)
  PROVE  /\ \A k \in DOMAIN file : k \in DOMAIN WithLines(es) /\ WithLines(es)[k] = file[k]
         /\ \A k \in DOMAIN WithLines(es) :
              k \notin DOMAIN file => WithLines(es)[k].piece = "line"
<1>1. /\ file \in Seq(Text) /\ Len(file) \in Nat /\ Len(es) \in Nat /\ WithLines(es) \in Seq(Text)
      /\ Len(WithLines(es)) = Len(file) + Len(es)
  BY LinesAppended DEF TypeOK
<1>2. DOMAIN file = 1..Len(file) /\ DOMAIN WithLines(es) = 1..(Len(file) + Len(es))
  BY <1>1
<1>3. ASSUME NEW k \in DOMAIN WithLines(es), k \notin DOMAIN file
      PROVE  WithLines(es)[k].piece = "line"
  <2>1. k - Len(file) \in 1..Len(es) /\ Len(file) + (k - Len(file)) = k
    BY <1>1, <1>2, <1>3
  <2>2. WithLines(es)[k] = [event |-> es[k - Len(file)], piece |-> "line"]
    BY <2>1, LinesAppended
  <2>3. QED
    BY <2>2
<1>4. \A k \in DOMAIN file : k \in DOMAIN WithLines(es)
  BY <1>1, <1>2
<1>5. QED
  BY <1>2, <1>3, <1>4, LinesAppended

LEMMA WrittenExtends ==
  ASSUME TypeOK, NEW es \in Seq(Event), Written(es), failed' = failed, died' = died
  PROVE  Extended
  BY TextsAfter DEF Written, Extended

(* An append breaks off behind those of es.                                *)
LEMMA BrokenExtends ==
  ASSUME TypeOK, NEW es \in Seq(Event), NEW e \in Event,
         file' \in BrokenOff(WithLines(es), e),
         failed \subseteq failed', died \subseteq died',
         file' # WithLines(es) => e \in failed' \cup died'
  PROVE  Extended
<1>1. CASE file' = WithLines(es)
  BY <1>1, TextsAfter DEF Extended
<1>2. CASE file' # WithLines(es)
  <2> DEFINE f == WithLines(es)
  <2>1. /\ f \in Seq(Text)
        /\ \A k \in DOMAIN file : k \in DOMAIN f /\ f[k] = file[k]
        /\ \A k \in DOMAIN f : k \notin DOMAIN file => f[k].piece = "line"
    BY TextsAfter, LinesAppended
  <2>2. PICK p \in Pieces : file' = Append(f, [event |-> e, piece |-> p])
    BY <1>2 DEF BrokenOff
  <2> HIDE DEF f
  <2>3. /\ \A k \in DOMAIN f : k \in DOMAIN file' /\ file'[k] = f[k]
        /\ \A k \in DOMAIN file' : k \notin DOMAIN f => file'[k].event = e
    BY <2>1, <2>2
  <2>4. QED
    BY <1>2, <2>1, <2>3 DEF Extended
<1>3. QED
  BY <1>1, <1>2

(* What stands on its line stays there.                                    *)
LEMMA StaysOnLine ==
  ASSUME TypeOK, TypeOK', Extended
  PROVE  \A e \in Event : OnItsLine(e) => OnItsLine(e)'
<1> SUFFICES ASSUME NEW e \in Event, OnItsLine(e) PROVE OnItsLine(e)'
  OBVIOUS
<1>1. PICK k \in DOMAIN file :
        /\ file[k] = [event |-> e, piece |-> "line"]
        /\ k = 1 \/ file[k - 1].piece = "line" \/ BehindBroken(k)
  BY DEF OnItsLine
<1>2. k \in DOMAIN file' /\ file'[k] = [event |-> e, piece |-> "line"]
  BY <1>1 DEF Extended
<1>3. CASE k # 1
  <2>1. k - 1 \in DOMAIN file
    <3>1. DOMAIN file = 1..Len(file) /\ Len(file) \in Nat
      BY DEF TypeOK
    <3>2. QED
      BY <1>3, <3>1
  <2>2. file'[k - 1] = file[k - 1]
    BY <2>1 DEF Extended
  <2>3. BehindBroken(k) => BehindBroken(k)'
    BY <2>2 DEF BehindBroken, Extended
  <2>4. QED
    BY <1>1, <1>2, <1>3, <2>2, <2>3 DEF OnItsLine
<1>4. CASE k = 1
  BY <1>2, <1>4 DEF OnItsLine
<1>5. QED
  BY <1>3, <1>4

(* A step that shows nothing new keeps what was shown in the log.          *)
LEMMA StaysDurable ==
  ASSUME Durable, TypeOK', shown' = shown, Extended
  PROVE  BreaksKnown' /\ SeenIsDurable'
<1>1. \A e \in shown : e \in Event
  BY DEF Durable, TypeOK
<1>2. SeenIsDurable'
  BY <1>1, StaysOnLine DEF Durable, SeenIsDurable
<1>3. BreaksKnown'
  BY DEF Durable, BreaksKnown, Extended
<1>4. QED
  BY <1>2, <1>3

LEMMA SameDurable ==
  ASSUME Durable, TypeOK', UNCHANGED <<file, shown, failed, died>>
  PROVE  BreaksKnown' /\ SeenIsDurable'
  BY StaysDurable DEF Extended, Durable, BreaksKnown

(* The event appended last is on its line, or behind a text known to have  *)
(* broken off.                                                             *)
LEMMA NewOnLine ==
  ASSUME Durable, NEW e \in Event, Written(<<e>>), failed' = failed, died' = died
  PROVE  OnItsLine(e)'
<1>0. PICK n \in Nat : n = Len(file) + 1
  BY DEF Durable, TypeOK
<1>1. <<e>> \in Seq(Event) /\ Len(<<e>>) = 1 /\ <<e>>[1] = e
  OBVIOUS
<1>2. /\ file' \in Seq(Text) /\ Len(file') = n
      /\ \A k \in 1..Len(file) : file'[k] = file[k]
      /\ file'[n] = [event |-> e, piece |-> "line"]
  <2>1. file' = WithLines(<<e>>) /\ TypeOK
    BY DEF Written, Durable
  <2>2. /\ WithLines(<<e>>) \in Seq(Text) /\ Len(WithLines(<<e>>)) = Len(file) + Len(<<e>>)
        /\ \A k \in 1..Len(file) : WithLines(<<e>>)[k] = file[k]
        /\ \A k \in 1..Len(<<e>>) :
             WithLines(<<e>>)[Len(file) + k] = [event |-> <<e>>[k], piece |-> "line"]
    BY <1>1, <2>1, LinesAppended
  <2>3. 1 \in 1..Len(<<e>>)
    BY <1>1
  <2>4. WithLines(<<e>>)[n] = [event |-> e, piece |-> "line"]
    BY <1>0, <1>1, <2>2, <2>3
  <2>5. Len(WithLines(<<e>>)) = n
    BY <1>0, <1>1, <2>2
  <2>6. QED
    BY <2>1, <2>2, <2>4, <2>5, Zenon
<1>3. Len(file) \in Nat /\ DOMAIN file = 1..Len(file)
  BY DEF Durable, TypeOK
<1>4. n \in DOMAIN file' /\ n - 1 = Len(file) /\ n \in Nat
  BY <1>0, <1>2, <1>3
<1>5. CASE n # 1
  <2>1. n - 1 \in DOMAIN file /\ n > 1
    BY <1>3, <1>4, <1>5
  <2>2. file[n - 1].piece = "line" \/ file[n - 1].event \in failed \cup died
    BY <2>1 DEF Durable, BreaksKnown
  <2>3. file'[n - 1] = file[n - 1]
    BY <1>2, <1>3, <2>1
  <2>4. file'[n - 1].piece = "line" \/ BehindBroken(n)'
    <3>1. CASE file[n - 1].piece = "line"
      BY <2>3, <3>1
    <3>2. CASE file[n - 1].event \in failed \cup died
      <4>1. file'[n - 1].event \in failed' \cup died'
        BY <2>3, <3>2
      <4>2. QED
        BY <2>1, <4>1 DEF BehindBroken
    <3>3. QED
      BY <2>2, <3>1, <3>2
  <2>5. QED
    <3>1. /\ file'[n] = [event |-> e, piece |-> "line"]
          /\ n = 1 \/ file'[n - 1].piece = "line" \/ BehindBroken(n)'
      BY <1>2, <2>4
    <3>2. QED
      BY <1>4, <3>1 DEF OnItsLine
<1>6. CASE n = 1
  BY <1>2, <1>4, <1>6 DEF OnItsLine
<1>7. QED
  BY <1>5, <1>6

(* An event is appended before it is yielded.                              *)
LEMMA LogDurable ==
  ASSUME Durable, TypeOK', NEW w \in Writers, NEW e \in Event, e.by = w,
         NEW next, NEW place, NEW stop, Log(w, e, next, place, stop)
  PROVE  BreaksKnown' /\ SeenIsDurable'
<1>1. TypeOK /\ <<e>> \in Seq(Event) /\ <<>> \in Seq(Event)
  BY DEF Durable
<1>2. WithLines(<<>>) = file
  <2>1. Lines(<<>>) = <<>> /\ file \in Seq(Text)
    BY <1>1 DEF Lines, TypeOK
  <2>2. QED
    BY <2>1 DEF WithLines
<1>3. CASE AutoSave[w] /\ Written(<<e>>) /\ Count(w) /\ Show(w, e, place)
  <2>1. shown' = shown \cup {e} /\ failed' = failed /\ died' = died
    BY <1>3 DEF Show
  <2>2. Extended
    BY <1>1, <1>3, <2>1, WrittenExtends
  <2>3. OnItsLine(e)'
    BY <1>3, <2>1, NewOnLine
  <2>4. \A x \in shown : x \in Event
    BY <1>1 DEF TypeOK
  <2>5. SeenIsDurable'
    BY <1>1, <2>1, <2>2, <2>3, <2>4, StaysOnLine DEF Durable, SeenIsDurable
  <2>6. BreaksKnown'
    BY <2>2 DEF Durable, BreaksKnown, Extended
  <2>7. QED
    BY <2>5, <2>6
<1>4. CASE ~AutoSave[w] /\ Show(w, e, place) /\ UNCHANGED <<file, persisted>>
  <2>1. shown' = shown \cup {e} /\ failed' = failed /\ died' = died /\ file' = file
    BY <1>4 DEF Show
  <2>2. Extended
    BY <2>1 DEF Extended
  <2>3. \A x \in shown : x \in Event
    BY <1>1 DEF TypeOK
  <2>4. SeenIsDurable'
    BY <1>1, <1>4, <2>1, <2>2, <2>3, StaysOnLine DEF Durable, SeenIsDurable
  <2>5. QED
    BY <2>2, <2>4 DEF Durable, BreaksKnown, Extended
<1>5. CASE file' \in BrokenOff(file, e) /\ failed' = failed \cup {e} /\ UNCHANGED <<shown, died>>
  <2>1. Extended
    BY <1>1, <1>2, <1>5, BrokenExtends
  <2>2. QED
    BY <1>5, <2>1, StaysDurable
<1>6. CASE LogTorn(w, e)
  <2>1. /\ file' \in BrokenOff(file, e) /\ died' = died \cup {e} /\ UNCHANGED <<shown, failed>>
    BY <1>6 DEF LogTorn
  <2>2. Extended
    BY <1>1, <1>2, <2>1, BrokenExtends
  <2>3. QED
    BY <2>1, <2>2, StaysDurable
<1>7. QED
  BY <1>3, <1>4, <1>5, <1>6 DEF Log, LogWhole

(* save() stops in the append behind the first k of a writer's arrears.    *)
LEMMA SaveStopsExtends ==
  ASSUME TypeOK, NEW w \in Writers, NEW k \in 0..MaxEvents, SaveStops(w, k)
  PROVE  Extended
<1> DEFINE es == SubSeq(Unsaved(w), 1, k)
           e == Unsaved(w)[k + 1]
<1>1. k \in Nat /\ Len(Unsaved(w)) \in Nat /\ k < Len(Unsaved(w)) /\ Unsaved(w) \in Seq(Event)
  BY UnsavedType, WritersAssumption DEF SaveStops
<1>2. es \in Seq(Event) /\ e \in Event
  BY <1>1, UnsavedType
<1>3. /\ file' \in BrokenOff(WithLines(es), e) /\ died' = died
      /\ failed' = IF file' = WithLines(es) THEN failed ELSE failed \cup {e}
  BY DEF SaveStops
<1> HIDE DEF es, e
<1>4. QED
  BY <1>2, <1>3, BrokenExtends

LEMMA DurableStep == Durable /\ TypeOK' /\ [Next]_vars => BreaksKnown' /\ SeenIsDurable'
<1> SUFFICES ASSUME Durable, TypeOK', [Next]_vars PROVE BreaksKnown' /\ SeenIsDurable'
  OBVIOUS
<1>1. ASSUME NEW w \in Writers, NEW number \in Nat, NEW kind \in {"query", "step", "last"}
      PROVE  NewEvent(w, number, kind) \in Event /\ NewEvent(w, number, kind).by = w
  BY NewEventType DEF NewEvent, Durable, TypeOK
<1>2. \A w \in Writers : Len(events[w]) \in Nat /\ seq[w] \in Nat /\ seq[w] + 1 \in Nat
  BY DEF Durable, TypeOK
<1>3. ASSUME NEW w \in Writers, Ask(w) PROVE BreaksKnown' /\ SeenIsDurable'
  BY <1>1, <1>2, <1>3, LogDurable DEF Ask
<1>4. ASSUME NEW w \in Writers, Step(w) PROVE BreaksKnown' /\ SeenIsDurable'
  BY <1>1, <1>2, <1>4, LogDurable DEF Step
<1>5. ASSUME NEW w \in Writers, Last(w) PROVE BreaksKnown' /\ SeenIsDurable'
  BY <1>1, <1>2, <1>5, LogDurable DEF Last
<1>6. ASSUME NEW w \in Writers, HookFails(w) PROVE BreaksKnown' /\ SeenIsDurable'
  BY <1>1, <1>2, <1>6, LogDurable DEF HookFails
<1>7. ASSUME NEW w \in Writers, SaveAll(w) PROVE BreaksKnown' /\ SeenIsDurable'
  BY <1>7, UnsavedType, WrittenExtends, StaysDurable DEF SaveAll, outcome, Durable
<1>8. ASSUME NEW w \in Writers, NEW k \in 0..MaxEvents, SaveStops(w, k)
      PROVE  BreaksKnown' /\ SeenIsDurable'
  <2>1. Extended /\ shown' = shown
    BY <1>8, SaveStopsExtends DEF SaveStops, Durable
  <2>2. QED
    BY <2>1, StaysDurable
<1>9. ASSUME NEW w \in Writers,
             Open(w) \/ Close(w) \/ StartLoop(w) \/ Abandon(w) \/ WriteMeta(w) \/ Kill(w)
      PROVE  BreaksKnown' /\ SeenIsDurable'
  <2>1. UNCHANGED <<file, shown, failed, died>>
    BY <1>9 DEF Open, OpenCounting, Close, StartLoop, StartLoopAt, Abandon, WriteMeta, Kill,
                disk, outcome
  <2>2. QED
    BY <2>1, SameDurable
<1>10. CASE UNCHANGED vars
  BY <1>10, SameDurable DEF vars
<1>11. QED
  BY <1>3, <1>4, <1>5, <1>6, <1>7, <1>8, <1>9, <1>10 DEF Next

(* An event an auto-saving session has yielded is in the log for good, and *)
(* on a line of its own unless it was appended right behind a text whose   *)
(* append broke off: whoever else writes to the log, wherever processes    *)
(* die, inside an append or between two steps, and whichever appends fail. *)
THEOREM SeenCorrect == Spec => []SeenIsDurable
<1>1. Init => Durable
  BY TypeInit DEF Init, Durable, SeenIsDurable, BreaksKnown
<1>2. Durable /\ [Next]_vars => Durable'
  BY TypeStep, DurableStep DEF Durable
<1>3. Durable => SeenIsDurable
  BY DEF Durable
<1>4. QED
  BY <1>1, <1>2, <1>3, PTL DEF Spec

-----------------------------------------------------------------------------
(* The order of the log.                                                   *)

(* The file has grown by some of the events es, in their order.            *)
Grown(es) ==
  \A i \in DOMAIN file' :
    IF i <= Len(file)
    THEN file'[i].event = file[i].event
    ELSE i - Len(file) \in 1..Len(es) /\ file'[i].event = es[i - Len(file)]

(* The places of the events a writer holds and has not appended.           *)
Behind(w) == (persisted[w] + 1)..Len(events[w])

(* The log holds events that were made, in order for each writer.          *)
Bounded == \A i \in DOMAIN file : file[i].event.id <= made

Ordered ==
  \A i, j \in DOMAIN file :
    i < j /\ file[i].event.by = file[j].event.by => file[i].event.id < file[j].event.id

(* They are the writer's own, newer than the log's of it, in order.       *)
Newer(w) ==
  \A k \in Behind(w) :
    /\ events[w][k].by = w /\ events[w][k].id <= made
    /\ \A i \in DOMAIN file : file[i].event.by = w => file[i].event.id < events[w][k].id
    /\ \A j \in Behind(w) : j < k => events[w][j].id < events[w][k].id

OwnAndNewer == \A w \in Writers : Newer(w)

(* A writer that saves as it goes has nothing left to append.              *)
NoneBehind == \A w \in Writers : AutoSave[w] => persisted[w] = Len(events[w])

OrderInv == failed = {} => Bounded /\ Ordered /\ OwnAndNewer /\ NoneBehind

(* What append_event does to the file, and what a torn append does.        *)
LEMMA LinesGrown ==
  ASSUME TypeOK, NEW es \in Seq(Event), file' = WithLines(es)
  PROVE  Grown(es)
<1>1. /\ file \in Seq(Text) /\ Len(file) \in Nat /\ Len(es) \in Nat /\ file' \in Seq(Text)
      /\ Len(file') = Len(file) + Len(es)
  BY LinesAppended DEF TypeOK
<1>2. DOMAIN file' = 1..(Len(file) + Len(es))
  BY <1>1
<1>3. ASSUME NEW i \in DOMAIN file', i <= Len(file)
      PROVE  file'[i].event = file[i].event
  BY <1>1, <1>2, <1>3, LinesAppended
<1>4. ASSUME NEW i \in DOMAIN file', ~(i <= Len(file))
      PROVE  i - Len(file) \in 1..Len(es) /\ file'[i].event = es[i - Len(file)]
  <2>1. i - Len(file) \in 1..Len(es) /\ Len(file) + (i - Len(file)) = i
    BY <1>1, <1>2, <1>4
  <2>2. file'[i] = [event |-> es[i - Len(file)], piece |-> "line"]
    BY <2>1, LinesAppended
  <2>3. QED
    BY <2>1, <2>2
<1>5. QED
  BY <1>3, <1>4 DEF Grown

LEMMA TornGrown ==
  ASSUME TypeOK, NEW e \in Event, file' \in BrokenOff(file, e)
  PROVE  Grown(<<e>>)
<1>1. <<e>> \in Seq(Event) /\ Len(<<e>>) = 1 /\ <<e>>[1] = e
  OBVIOUS
<1>2. file \in Seq(Text) /\ Len(file) \in Nat
  BY DEF TypeOK
<1>3. CASE file' = file
  BY <1>2, <1>3 DEF Grown
<1>4. CASE file' # file
  <2>1. PICK p \in Pieces : file' = Append(file, [event |-> e, piece |-> p])
    BY <1>4 DEF BrokenOff
  <2>2. \A i \in DOMAIN file' :
          IF i <= Len(file)
          THEN file'[i].event = file[i].event
          ELSE i - Len(file) \in 1..Len(<<e>>) /\ file'[i].event = <<e>>[i - Len(file)]
    BY <1>1, <1>2, <2>1
  <2>3. QED
    BY <2>2 DEF Grown
<1>5. QED
  BY <1>3, <1>4

(* Growing by newer events of one writer, in order, keeps the log ordered. *)
LEMMA GrownOrdered ==
  ASSUME TypeOK, TypeOK', Bounded, Ordered, made <= made',
         NEW w \in Writers, NEW es \in Seq(Event), Grown(es),
         \A k \in 1..Len(es) :
           /\ es[k].by = w /\ es[k].id <= made'
           /\ \A i \in DOMAIN file : file[i].event.by = w => file[i].event.id < es[k].id,
         \A j, k \in 1..Len(es) : j < k => es[j].id < es[k].id
  PROVE  /\ Bounded' /\ Ordered'
         /\ \A i \in DOMAIN file' :
              \/ i \in DOMAIN file /\ file'[i].event = file[i].event
              \/ \E k \in 1..Len(es) : file'[i].event = es[k]
<1>1. /\ file \in Seq(Text) /\ file' \in Seq(Text) /\ made \in Nat /\ made' \in Nat
      /\ DOMAIN file = 1..Len(file) /\ DOMAIN file' = 1..Len(file')
      /\ Len(file) \in Nat /\ Len(file') \in Nat /\ Len(es) \in Nat
  BY DEF TypeOK
<1>2. \A i \in DOMAIN file : file[i].event.id \in Nat
  <2>1. \A text \in Text : text.event.id \in Nat
    BY DEF Text, Event
  <2>2. QED
    BY <1>1, <2>1
<1>3. \A k \in 1..Len(es) : es[k].id \in Nat
  <2>1. \A e \in Event : e.id \in Nat
    BY DEF Event
  <2>2. QED
    BY <2>1
<1>4. \A i \in DOMAIN file' :
        IF i <= Len(file)
        THEN file'[i].event = file[i].event
        ELSE i - Len(file) \in 1..Len(es) /\ file'[i].event = es[i - Len(file)]
  BY DEF Grown
<1>5. \A i \in DOMAIN file' : i <= Len(file) => i \in DOMAIN file
  BY <1>1
<1>6. \A i \in DOMAIN file' :
        \/ i \in DOMAIN file /\ file'[i].event = file[i].event
        \/ \E k \in 1..Len(es) : file'[i].event = es[k]
  BY <1>4, <1>5
<1>7. Bounded'
  <2>1. ASSUME NEW i \in DOMAIN file' PROVE file'[i].event.id <= made'
    <3>1. CASE i \in DOMAIN file /\ file'[i].event = file[i].event
      BY <1>1, <1>2, <3>1 DEF Bounded
    <3>2. CASE \E k \in 1..Len(es) : file'[i].event = es[k]
      BY <3>2
    <3>3. QED
      BY <1>6, <3>1, <3>2
  <2>2. QED
    BY <2>1 DEF Bounded
<1>8. Ordered'
  <2>1. ASSUME NEW i \in DOMAIN file', NEW j \in DOMAIN file', i < j,
               file'[i].event.by = file'[j].event.by
        PROVE  file'[i].event.id < file'[j].event.id
    <3>1. CASE j <= Len(file)
      <4>1. i \in DOMAIN file /\ j \in DOMAIN file /\ i <= Len(file)
        BY <1>1, <2>1, <3>1
      <4>2. file'[i].event = file[i].event /\ file'[j].event = file[j].event
        BY <1>4, <3>1, <4>1
      <4>3. QED
        BY <2>1, <4>1, <4>2 DEF Ordered
    <3>2. CASE i <= Len(file) /\ ~(j <= Len(file))
      <4>1. i \in DOMAIN file /\ file'[i].event = file[i].event
        BY <1>4, <1>5, <3>2
      <4>2. j - Len(file) \in 1..Len(es) /\ file'[j].event = es[j - Len(file)]
        BY <1>4, <3>2
      <4>3. file[i].event.by = w
        BY <2>1, <4>1, <4>2
      <4>4. QED
        BY <4>1, <4>2, <4>3
    <3>3. CASE ~(i <= Len(file)) /\ ~(j <= Len(file))
      <4>1. i - Len(file) \in 1..Len(es) /\ file'[i].event = es[i - Len(file)]
        BY <1>4, <3>3
      <4>2. j - Len(file) \in 1..Len(es) /\ file'[j].event = es[j - Len(file)]
        BY <1>4, <3>3
      <4>3. i - Len(file) < j - Len(file)
        BY <1>1, <2>1
      <4>4. QED
        BY <4>1, <4>2, <4>3
    <3>4. QED
      BY <1>1, <2>1, <3>1, <3>2, <3>3
  <2>2. QED
    BY <2>1 DEF Ordered
<1>9. QED
  BY <1>6, <1>7, <1>8

(* The log's growth by another writer leaves a writer's arrears newer.     *)
LEMMA OthersNewer ==
  ASSUME TypeOK, made <= made', made' \in Nat, NEW w \in Writers, NEW x \in Writers, Newer(x),
         events'[x] = events[x], persisted'[x] = persisted[x],
         \A i \in DOMAIN file' :
           \/ i \in DOMAIN file /\ file'[i].event = file[i].event
           \/ x # w /\ file'[i].event.by = w
  PROVE  Newer(x)'
<1>1. Behind(x)' = Behind(x)
  BY DEF Behind
<1>2. \A k \in Behind(x) : events[x][k].id \in Nat
  <2>1. \A k \in Behind(x) : k \in 1..Len(events[x])
    BY DEF Behind, TypeOK
  <2>2. \A k \in Behind(x) : events[x][k] \in Event
    BY <2>1 DEF TypeOK
  <2>3. QED
    BY <2>2 DEF Event
<1>3. made \in Nat
  BY DEF TypeOK
<1>4. ASSUME NEW k \in Behind(x)
      PROVE  /\ events'[x][k].by = x /\ events'[x][k].id <= made'
             /\ \A j \in Behind(x) : j < k => events'[x][j].id < events'[x][k].id
  BY <1>2, <1>3, <1>4 DEF Newer
<1>5. ASSUME NEW k \in Behind(x), NEW i \in DOMAIN file', file'[i].event.by = x
      PROVE  file'[i].event.id < events'[x][k].id
  BY <1>5 DEF Newer
<1>6. QED
  BY <1>1, <1>4, <1>5 DEF Newer

(* A writer with no arrears.                                               *)
LEMMA NothingBehind ==
  ASSUME TypeOK', NEW w \in Writers, persisted'[w] = Len(events'[w])
  PROVE  Newer(w)'
<1>1. Behind(w)' = {}
  BY DEF Behind, TypeOK
<1>2. QED
  BY <1>1 DEF Newer

(* One more event, the newest of all, among the arrears.                   *)
LEMMA KeptNewer ==
  ASSUME TypeOK, Bounded, NEW w \in Writers, NEW e \in Event, Newer(w),
         e.by = w, e.id = made + 1, made' = made + 1,
         file' = file, persisted' = persisted, events'[w] = Append(events[w], e)
  PROVE  Newer(w)'
<1>1. /\ events[w] \in Seq(Event) /\ Len(events[w]) \in Nat /\ persisted[w] \in Nat
      /\ persisted[w] <= Len(events[w]) /\ made \in Nat
  BY DEF TypeOK
<1>2. /\ Len(events'[w]) = Len(events[w]) + 1 /\ events'[w][Len(events[w]) + 1] = e
      /\ \A k \in 1..Len(events[w]) : events'[w][k] = events[w][k]
  BY <1>1
<1>3. Behind(w)' = Behind(w) \cup {Len(events[w]) + 1}
  BY <1>1, <1>2 DEF Behind
<1>4. \A k \in Behind(w) : k \in 1..Len(events[w]) /\ k < Len(events[w]) + 1
  BY <1>1 DEF Behind
<1>5. \A k \in Behind(w) : events[w][k].id \in Nat
  <2>1. \A k \in Behind(w) : events[w][k] \in Event
    BY <1>1, <1>4
  <2>2. QED
    BY <2>1 DEF Event
<1>6. \A i \in DOMAIN file : file[i].event.id \in Nat
  <2>1. \A text \in Text : text.event.id \in Nat
    BY DEF Text, Event
  <2>2. QED
    BY <2>1 DEF TypeOK
<1>7. ASSUME NEW k \in Behind(w)
      PROVE  /\ events'[w][k].by = w /\ events'[w][k].id <= made'
             /\ \A i \in DOMAIN file : file[i].event.by = w => file[i].event.id < events'[w][k].id
             /\ \A j \in Behind(w)' : j < k => events'[w][j].id < events'[w][k].id
  <2>1. events'[w][k] = events[w][k] /\ \A j \in Behind(w) : events'[w][j] = events[w][j]
    BY <1>2, <1>4
  <2>2. \A j \in Behind(w)' : j < k => j \in Behind(w)
    BY <1>3, <1>4
  <2>3. QED
    <3>1. events[w][k].by = w /\ events[w][k].id <= made
      BY DEF Newer
    <3>2. \A i \in DOMAIN file : file[i].event.by = w => file[i].event.id < events[w][k].id
      BY DEF Newer
    <3>3. \A j \in Behind(w) : j < k => events[w][j].id < events[w][k].id
      BY DEF Newer
    <3>4. events[w][k].id <= made'
      BY <1>1, <1>5, <3>1
    <3>5. QED
      BY <2>1, <2>2, <3>1, <3>2, <3>3, <3>4
<1>8. ASSUME NEW k, k = Len(events[w]) + 1
      PROVE  /\ events'[w][k].by = w /\ events'[w][k].id <= made'
             /\ \A i \in DOMAIN file : file[i].event.by = w => file[i].event.id < events'[w][k].id
             /\ \A j \in Behind(w)' : j < k => events'[w][j].id < events'[w][k].id
  <2>1. events'[w][k] = e
    BY <1>2, <1>8
  <2>2. \A i \in DOMAIN file : file[i].event.id < made + 1
    BY <1>1, <1>6 DEF Bounded
  <2>3. \A j \in Behind(w)' : j < k => j \in Behind(w)
    BY <1>3, <1>8
  <2>4. \A j \in Behind(w) : events'[w][j].id < made + 1
    <3>1. \A j \in Behind(w) : events[w][j].id <= made /\ events'[w][j] = events[w][j]
      BY <1>2, <1>4 DEF Newer
    <3>2. ASSUME NEW j \in Behind(w) PROVE events'[w][j].id < made + 1
      <4>1. events'[w][j].id \in Nat /\ events'[w][j].id <= made
        BY <1>5, <3>1
      <4>2. \A m \in Nat : m <= made => m < made + 1
        BY <1>1
      <4>3. QED
        BY <4>1, <4>2, Zenon
    <3>3. QED
      BY <3>2
  <2>5. events'[w][k].by = w /\ events'[w][k].id = made + 1 /\ made + 1 <= made'
    BY <1>1, <2>1
  <2>6. QED
    BY <2>2, <2>3, <2>4, <2>5
<1>9. QED
  BY <1>3, <1>7, <1>8 DEF Newer

(* What a step does to the other writers and to the file, whichever event  *)
(* or events of w it appends.                                              *)
LEMMA GrownNewer ==
  ASSUME TypeOK, TypeOK', Bounded, Ordered, OwnAndNewer, made <= made',
         NEW w \in Writers, NEW es \in Seq(Event), Grown(es),
         \A k \in 1..Len(es) :
           /\ es[k].by = w /\ es[k].id <= made'
           /\ \A i \in DOMAIN file : file[i].event.by = w => file[i].event.id < es[k].id,
         \A j, k \in 1..Len(es) : j < k => es[j].id < es[k].id,
         \A x \in Writers : x # w => events'[x] = events[x] /\ persisted'[x] = persisted[x]
  PROVE  /\ Bounded' /\ Ordered'
         /\ \A x \in Writers : x # w => Newer(x)'
<1>1. /\ Bounded' /\ Ordered'
      /\ \A i \in DOMAIN file' :
           \/ i \in DOMAIN file /\ file'[i].event = file[i].event
           \/ \E k \in 1..Len(es) : file'[i].event = es[k]
  BY GrownOrdered
<1>2. \A i \in DOMAIN file' :
        \/ i \in DOMAIN file /\ file'[i].event = file[i].event
        \/ file'[i].event.by = w
  BY <1>1
<1>3. ASSUME NEW x \in Writers, x # w PROVE Newer(x)'
  <2>1. events'[x] = events[x] /\ persisted'[x] = persisted[x]
    BY <1>3
  <2>2. Newer(x) /\ made' \in Nat
    BY DEF OwnAndNewer, TypeOK
  <2>3. \A i \in DOMAIN file' :
          \/ i \in DOMAIN file /\ file'[i].event = file[i].event
          \/ x # w /\ file'[i].event.by = w
    BY <1>2, <1>3
  <2>4. QED
    BY <2>1, <2>2, <2>3, OthersNewer
<1>4. QED
  BY <1>1, <1>3

(* A new event is newer than everything in the log.                        *)
LEMMA FreshEvent ==
  ASSUME TypeOK, Bounded, NEW w \in Writers, NEW e \in Event, e.by = w, e.id = made + 1,
         made' = made + 1
  PROVE  /\ <<e>> \in Seq(Event) /\ made <= made'
         /\ \A k \in 1..Len(<<e>>) :
              /\ <<e>>[k].by = w /\ <<e>>[k].id <= made'
              /\ \A i \in DOMAIN file : file[i].event.by = w => file[i].event.id < <<e>>[k].id
         /\ \A j, k \in 1..Len(<<e>>) : j < k => <<e>>[j].id < <<e>>[k].id
<1>1. made \in Nat
  BY DEF TypeOK
<1>2. \A i \in DOMAIN file : file[i].event.id < made + 1
  <2>1. \A text \in Text : text.event.id \in Nat
    BY DEF Text, Event
  <2>2. \A i \in DOMAIN file : file[i].event.id \in Nat
    BY <2>1 DEF TypeOK
  <2>3. QED
    BY <1>1, <2>2 DEF Bounded
<1>3. Len(<<e>>) = 1 /\ <<e>>[1] = e /\ <<e>> \in Seq(Event)
  OBVIOUS
<1>4. \A k \in 1..Len(<<e>>) : k = 1
  BY <1>3
<1>5. QED
  BY <1>1, <1>2, <1>3, <1>4

(* An event made and logged, torn or kept in memory only.                  *)
LEMMA LogOrderStep ==
  ASSUME TypeOK, TypeOK', OrderInv, failed' = {},
         NEW w \in Writers, NEW e \in Event, e.by = w, e.id = made + 1,
         NEW next, NEW place, NEW stop, Log(w, e, next, place, stop)
  PROVE  Bounded' /\ Ordered' /\ OwnAndNewer' /\ NoneBehind'
<1>1. failed = {} /\ made' = made + 1
  BY DEF Log, LogWhole, LogTorn, Show, Remember, outcome
<1>2. Bounded /\ Ordered /\ OwnAndNewer /\ NoneBehind
  BY <1>1 DEF OrderInv
<1>3. \A x \in Writers : x # w => events'[x] = events[x] /\ persisted'[x] = persisted[x]
  BY DEF Log, LogWhole, LogTorn, Remember, Count, Drop, TypeOK
<1>4. CASE AutoSave[w] /\ Written(<<e>>) /\ Count(w) /\ Remember(w, e)
  <2>1. Grown(<<e>>)
    <3>1. <<e>> \in Seq(Event) /\ file' = WithLines(<<e>>)
      BY <1>4 DEF Written
    <3>2. QED
      BY <3>1, LinesGrown
  <2>2. Bounded' /\ Ordered' /\ \A x \in Writers : x # w => Newer(x)'
    BY <1>1, <1>2, <1>3, <2>1, FreshEvent, GrownNewer, ZenonT(30)
  <2>3. persisted'[w] = Len(events'[w])
    <3>1. persisted[w] = Len(events[w]) /\ persisted'[w] = persisted[w] + 1
      BY <1>2, <1>4 DEF Count, NoneBehind, TypeOK
    <3>2. events'[w] = Append(events[w], e) /\ events[w] \in Seq(Event)
      BY <1>4 DEF Remember, TypeOK
    <3>3. QED
      BY <3>1, <3>2
  <2>4. OwnAndNewer'
    BY <2>2, <2>3, NothingBehind DEF OwnAndNewer
  <2>5. NoneBehind'
    BY <1>2, <1>3, <2>3 DEF NoneBehind
  <2>6. QED
    BY <2>2, <2>4, <2>5
<1>5. CASE LogTorn(w, e)
  <2>1. Grown(<<e>>)
    BY <1>5, TornGrown DEF LogTorn
  <2>2. Bounded' /\ Ordered' /\ \A x \in Writers : x # w => Newer(x)'
    BY <1>1, <1>2, <1>3, <2>1, FreshEvent, GrownNewer, ZenonT(30)
  <2>3. persisted'[w] = Len(events'[w])
    <3>1. persisted'[w] = 0 /\ events'[w] = <<>>
      BY <1>5 DEF LogTorn, Drop, TypeOK
    <3>2. QED
      BY <3>1
  <2>4. OwnAndNewer'
    BY <2>2, <2>3, NothingBehind DEF OwnAndNewer
  <2>5. NoneBehind'
    BY <1>2, <1>3, <2>3 DEF NoneBehind
  <2>6. QED
    BY <2>2, <2>4, <2>5
<1>6. CASE ~AutoSave[w] /\ Remember(w, e) /\ UNCHANGED <<file, persisted>>
  <2>1. events'[w] = Append(events[w], e) /\ file' = file /\ persisted' = persisted
    BY <1>6 DEF Remember, TypeOK
  <2>2. Newer(w)'
    BY <1>1, <1>2, <2>1, KeptNewer DEF OwnAndNewer
  <2>3. made \in Nat /\ made' \in Nat /\ made <= made'
    BY <1>1 DEF TypeOK
  <2>4. ASSUME NEW x \in Writers, x # w PROVE Newer(x)'
    <3>1. /\ events'[x] = events[x] /\ persisted'[x] = persisted[x] /\ Newer(x)
          /\ \A i \in DOMAIN file' : i \in DOMAIN file /\ file'[i].event = file[i].event
      BY <1>2, <1>3, <2>1, <2>4 DEF OwnAndNewer
    <3>2. QED
      BY <2>3, <3>1, OthersNewer
  <2>5. Ordered' /\ OwnAndNewer'
    BY <1>2, <2>1, <2>2, <2>4 DEF Ordered, OwnAndNewer
  <2>6. Bounded'
    <3>1. \A text \in Text : text.event.id \in Nat
      BY DEF Text, Event
    <3>2. \A i \in DOMAIN file : file[i].event.id \in Nat
      BY <3>1 DEF TypeOK
    <3>3. QED
      BY <1>2, <2>1, <2>3, <3>2 DEF Bounded
  <2>7. NoneBehind'
    BY <1>2, <1>3, <1>6 DEF NoneBehind
  <2>8. QED
    BY <2>5, <2>6, <2>7
<1>7. ~(failed' = failed \cup {e})
  OBVIOUS
<1>8. QED
  BY <1>4, <1>5, <1>6, <1>7 DEF Log, LogWhole

(* save() has appended the first k of a writer's arrears.                  *)
LEMMA SavedOrderStep ==
  ASSUME TypeOK, TypeOK', Bounded, Ordered, OwnAndNewer, NoneBehind,
         NEW w \in Writers, NEW k \in Nat, NEW es \in Seq(Event), Len(es) = k,
         persisted[w] + k <= Len(events[w]),
         \A j \in 1..k : es[j] = events[w][persisted[w] + j],
         file' = WithLines(es), persisted' = [persisted EXCEPT ![w] = persisted[w] + k],
         events' = events, made' = made
  PROVE  Bounded' /\ Ordered' /\ OwnAndNewer' /\ NoneBehind'
<1>1. /\ made \in Nat /\ made <= made' /\ persisted[w] \in Nat /\ Len(events[w]) \in Nat
      /\ persisted'[w] = persisted[w] + k
      /\ \A x \in Writers : x # w => events'[x] = events[x] /\ persisted'[x] = persisted[x]
  BY DEF TypeOK
<1>2. \A j \in 1..k : persisted[w] + j \in Behind(w)
  BY <1>1 DEF Behind
<1>3. \A j \in 1..Len(es) :
        /\ es[j].by = w /\ es[j].id <= made'
        /\ \A i \in DOMAIN file : file[i].event.by = w => file[i].event.id < es[j].id
  BY <1>2 DEF OwnAndNewer, Newer
<1>4. \A i, j \in 1..Len(es) : i < j => es[i].id < es[j].id
  <2>1. ASSUME NEW i \in 1..k, NEW j \in 1..k, i < j
        PROVE  es[i].id < es[j].id
    <3>1. /\ persisted[w] + i \in Behind(w) /\ persisted[w] + j \in Behind(w)
          /\ persisted[w] + i < persisted[w] + j
      BY <1>1, <1>2, <2>1
    <3>2. events[w][persisted[w] + i].id < events[w][persisted[w] + j].id
      BY <3>1 DEF OwnAndNewer, Newer
    <3>3. QED
      BY <3>2
  <2>2. QED
    BY <2>1
<1>5. Grown(es)
  BY LinesGrown
<1>6. Bounded' /\ Ordered' /\ \A x \in Writers : x # w => Newer(x)'
  BY <1>1, <1>3, <1>4, <1>5, GrownNewer
<1>7. \A i \in DOMAIN file' :
        \/ i \in DOMAIN file /\ file'[i].event = file[i].event
        \/ \E j \in 1..Len(es) : file'[i].event = es[j]
  BY <1>1, <1>3, <1>4, <1>5, GrownOrdered
<1>8. Newer(w)'
  <2>1. ASSUME NEW m \in Behind(w)'
        PROVE  m \in Behind(w) /\ \A j \in 1..k : persisted[w] + j < m
    BY <1>1, <2>1 DEF Behind
  <2>2. ASSUME NEW m \in Behind(w)', NEW i \in DOMAIN file', file'[i].event.by = w
        PROVE  file'[i].event.id < events'[w][m].id
    <3>1. CASE i \in DOMAIN file /\ file'[i].event = file[i].event
      BY <2>1, <2>2, <3>1 DEF OwnAndNewer, Newer
    <3>2. CASE \E j \in 1..Len(es) : file'[i].event = es[j]
      <4>1. PICK j \in 1..k : file'[i].event = events[w][persisted[w] + j]
        BY <3>2
      <4>2. events[w][persisted[w] + j].id < events[w][m].id
        BY <1>2, <2>1 DEF OwnAndNewer, Newer
      <4>3. QED
        BY <4>1, <4>2
    <3>3. QED
      BY <1>7, <3>1, <3>2
  <2>3. ASSUME NEW m \in Behind(w)'
        PROVE  /\ events'[w][m].by = w /\ events'[w][m].id <= made'
               /\ \A j \in Behind(w)' : j < m => events'[w][j].id < events'[w][m].id
    BY <2>1 DEF OwnAndNewer, Newer
  <2>4. QED
    BY <2>2, <2>3 DEF Newer
<1>9. NoneBehind'
  <2>1. AutoSave[w] => persisted'[w] = Len(events'[w])
    BY <1>1 DEF NoneBehind
  <2>2. QED
    BY <1>1, <2>1 DEF NoneBehind
<1>10. QED
  BY <1>6, <1>8, <1>9 DEF OwnAndNewer

(* A step that appends nothing and makes no event.                         *)
LEMMA IdleOrderStep ==
  ASSUME TypeOK, TypeOK', Bounded, Ordered, OwnAndNewer, NoneBehind,
         NEW w \in Writers, file' = file, made' = made,
         \A x \in Writers :
           \/ events'[x] = events[x] /\ persisted'[x] = persisted[x]
           \/ x = w /\ persisted'[x] = Len(events'[x])
  PROVE  Bounded' /\ Ordered' /\ OwnAndNewer' /\ NoneBehind'
<1>1. Bounded' /\ Ordered' /\ NoneBehind'
  BY DEF Bounded, Ordered, NoneBehind
<1>2. ASSUME NEW x \in Writers PROVE Newer(x)'
  <2>1. CASE events'[x] = events[x] /\ persisted'[x] = persisted[x]
    BY <2>1 DEF OwnAndNewer, Newer, Behind
  <2>2. CASE persisted'[x] = Len(events'[x])
    BY <2>2, NothingBehind
  <2>3. QED
    BY <2>1, <2>2
<1>3. QED
  BY <1>1, <1>2 DEF OwnAndNewer

LEMMA OrderStep == TypeOK /\ TypeOK' /\ OrderInv /\ [Next]_vars => OrderInv'
<1> SUFFICES ASSUME TypeOK, TypeOK', OrderInv, [Next]_vars, failed' = {}
             PROVE  Bounded' /\ Ordered' /\ OwnAndNewer' /\ NoneBehind'
  BY DEF OrderInv
<1> DEFINE Goal == Bounded' /\ Ordered' /\ OwnAndNewer' /\ NoneBehind'
<1>1. ASSUME NEW w \in Writers, NEW number \in Nat, NEW kind \in {"query", "step", "last"}
      PROVE  /\ NewEvent(w, number, kind) \in Event /\ NewEvent(w, number, kind).by = w
             /\ NewEvent(w, number, kind).id = made + 1
  BY NewEventType DEF NewEvent, TypeOK
<1>2. \A w \in Writers : Len(events[w]) \in Nat /\ seq[w] \in Nat /\ seq[w] + 1 \in Nat
  BY DEF TypeOK
<1>3. failed = {} => Bounded /\ Ordered /\ OwnAndNewer /\ NoneBehind
  BY DEF OrderInv
<1>4. ASSUME NEW w \in Writers, Ask(w) \/ Step(w) \/ Last(w) \/ HookFails(w) PROVE Goal
  <2>1. CASE Ask(w)
    BY <1>1, <1>2, <2>1, LogOrderStep DEF Ask
  <2>2. CASE Step(w)
    BY <1>1, <1>2, <2>2, LogOrderStep DEF Step
  <2>3. CASE Last(w)
    BY <1>1, <1>2, <2>3, LogOrderStep DEF Last
  <2>4. CASE HookFails(w)
    BY <1>1, <1>2, <2>4, LogOrderStep DEF HookFails
  <2>5. QED
    BY <1>4, <2>1, <2>2, <2>3, <2>4
<1>5. ASSUME NEW w \in Writers, SaveAll(w) PROVE Goal
  <2>1. failed = {} /\ file' = WithLines(Unsaved(w)) /\ events' = events /\ made' = made
        /\ persisted' = [persisted EXCEPT ![w] = Len(events[w])]
    BY <1>5 DEF SaveAll, Written, outcome
  <2>2. /\ Unsaved(w) \in Seq(Event) /\ Len(Unsaved(w)) = Len(events[w]) - persisted[w]
        /\ Len(Unsaved(w)) \in Nat /\ persisted[w] + Len(Unsaved(w)) = Len(events[w])
    <3>1. persisted[w] \in Nat /\ persisted[w] <= Len(events[w])
      BY DEF TypeOK
    <3>2. QED
      BY <1>2, <3>1, UnsavedType
  <2>3. \A j \in 1..Len(Unsaved(w)) : Unsaved(w)[j] = events[w][persisted[w] + j]
    BY UnsavedAt
  <2>4. /\ persisted' = [persisted EXCEPT ![w] = persisted[w] + Len(Unsaved(w))]
        /\ persisted[w] + Len(Unsaved(w)) <= Len(events[w])
    <3>1. Len(events[w]) <= Len(events[w])
      BY <1>2
    <3>2. QED
      BY <2>1, <2>2, <3>1, Zenon
  <2>5. QED
    BY <1>3, <2>1, <2>2, <2>3, <2>4, SavedOrderStep
<1>6. ASSUME NEW w \in Writers, NEW k \in 0..MaxEvents, SaveStops(w, k) PROVE Goal
  <2> DEFINE es == SubSeq(Unsaved(w), 1, k)
  <2>1. /\ failed = {} /\ file' = WithLines(es) /\ events' = events /\ made' = made
        /\ persisted' = [persisted EXCEPT ![w] = persisted[w] + k]
    BY <1>6 DEF SaveStops, Written, outcome, TypeOK
  <2>2. k \in Nat /\ k <= Len(Unsaved(w)) /\ Unsaved(w) \in Seq(Event)
        /\ persisted[w] + k <= Len(events[w])
    <3>1. persisted[w] \in Nat /\ persisted[w] <= Len(events[w])
      BY DEF TypeOK
    <3>2. QED
      BY <1>2, <1>6, <3>1, UnsavedType, WritersAssumption DEF SaveStops
  <2>3. es \in Seq(Event) /\ Len(es) = k /\ \A j \in 1..k : es[j] = Unsaved(w)[j]
    BY <2>2, SubSeqProperties
  <2>4. \A j \in 1..k : es[j] = events[w][persisted[w] + j]
    BY <2>2, <2>3, UnsavedAt
  <2> HIDE DEF es
  <2>5. QED
    BY <1>3, <2>1, <2>2, <2>3, <2>4, SavedOrderStep
<1>7. ASSUME NEW w \in Writers, StartLoop(w) \/ Abandon(w) \/ WriteMeta(w) PROVE Goal
  <2>1. failed = {} /\ UNCHANGED <<file, made, events, persisted>>
    BY <1>7 DEF StartLoop, StartLoopAt, Abandon, WriteMeta, disk, outcome
  <2>2. QED
    BY <1>3, <1>7, <2>1, IdleOrderStep
<1>8. ASSUME NEW w \in Writers, Open(w) PROVE Goal
  <2>1. failed = {} /\ UNCHANGED <<file, made>>
    BY <1>8 DEF Open, OpenCounting, disk, outcome
  <2>2. \A x \in Writers : x # w => events'[x] = events[x] /\ persisted'[x] = persisted[x]
    BY <1>8 DEF Open, OpenCounting, TypeOK
  <2>3. persisted'[w] = Len(events'[w])
    <3>1. persisted'[w] = Len(file) /\ events'[w] = EventsIn(file)
      BY <1>8 DEF Open, OpenCounting, TypeOK
    <3>2. Len(EventsIn(file)) = Len(file)
      BY EventsInType DEF TypeOK
    <3>3. QED
      BY <3>1, <3>2
  <2>4. QED
    BY <1>3, <2>1, <2>2, <2>3, IdleOrderStep
<1>9. ASSUME NEW w \in Writers, Close(w) \/ Kill(w) PROVE Goal
  <2>1. failed = {} /\ UNCHANGED <<file, made>> /\ Drop(w)
    BY <1>9 DEF Close, Kill, disk, outcome
  <2>2. \A x \in Writers : x # w => events'[x] = events[x] /\ persisted'[x] = persisted[x]
    BY <2>1 DEF Drop, TypeOK
  <2>3. persisted'[w] = Len(events'[w])
    <3>1. persisted'[w] = 0 /\ events'[w] = <<>>
      BY <2>1 DEF Drop, TypeOK
    <3>2. QED
      BY <3>1
  <2>4. QED
    BY <1>3, <2>1, <2>2, <2>3, IdleOrderStep
<1>10. CASE UNCHANGED vars
  BY <1>3, <1>10 DEF vars, Bounded, Ordered, OwnAndNewer, Newer, Behind, NoneBehind
<1>11. QED
  BY <1>4, <1>5, <1>6, <1>7, <1>8, <1>9, <1>10 DEF Next

(* However many writers, crashes and torn appends: while no append has     *)
(* failed, each writer's events stand in the log in the order it made      *)
(* them, none twice.                                                       *)
THEOREM OrderCorrect == Spec => []LogOrdered
<1>1. Init => TypeOK /\ OrderInv
  BY TypeInit DEF Init, OrderInv, Bounded, Ordered, OwnAndNewer, Newer, Behind, NoneBehind
<1>2. TypeOK /\ OrderInv /\ [Next]_vars => TypeOK' /\ OrderInv'
  BY TypeStep, OrderStep
<1>3. OrderInv => LogOrdered
  BY DEF OrderInv, Ordered, LogOrdered
<1>4. QED
  BY <1>1, <1>2, <1>3, PTL DEF Spec
=============================================================================
