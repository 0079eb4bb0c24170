---------------------------- MODULE SessionViews ----------------------------
(***************************************************************************)
(* What is told of the sessions directory: the reading commands of         *)
(* cli/session.py (list, show, tree), the fork tree of sessions/tree.py    *)
(* and the reading endpoints of server/fastapi_app.py.  They change        *)
(* nothing; each is an operator on the files as they are.                  *)
(*                                                                         *)
(* The siblings nothing uses (ClosesNone, ...) are forms a plausible bug   *)
(* would give a definition, for checking the properties.                   *)
(***************************************************************************)
EXTENDS SessionCatalog

Unreadable == -1

(* _round_count: the queries of a log, "?" when it cannot be read.         *)
RoundCount(i) == IF Readable(i) THEN Cardinality(Boundaries(log[i])) ELSE Unreadable

(* What show prints of the sidecar, and `session list` and GET /sessions   *)
(* of each one in the order of the ids, with the number of rounds.         *)
Header(i) == [parent |-> ReadMeta(i).parent, count |-> ReadMeta(i).count]
Listing == SelectSeq([i \in Ids |-> i], Listed)
Row(i) == [sid |-> i, header |-> Header(i), rounds |-> RoundCount(i)]

(* `session show`: _rounds puts each answer and citation under the query   *)
(* before it; an answer replaces the one before.                           *)
NoAnswer == -1
Round(e) == [query |-> e.seq, answer |-> NoAnswer, citations |-> <<>>]
Told(round, e) ==
  CASE e.kind = "answer" -> [round EXCEPT !.answer = e.seq]
    [] e.kind = "citation" -> [round EXCEPT !.citations = Append(@, e.seq)]
    [] OTHER -> round
Group(rounds, e) ==
  IF IsQuery(e) THEN Append(rounds, Round(e))
  ELSE IF rounds = <<>> THEN rounds
  ELSE [rounds EXCEPT ![Len(rounds)] = Told(@, e)]
Rounds(es) ==
  LET grouped[k \in 0..Len(es)] == IF k = 0 THEN <<>> ELSE Group(grouped[k - 1], es[k])
  IN grouped[Len(es)]

(* The rounds --at-turn may name, and the cut of each: AtTail keeps all of *)
(* them, as a fork without a round does; replay takes the last one then.   *)
AtTail == -1
AtTurn(es) == {AtTail} \cup 1..Cardinality(Boundaries(es))
CutBehind(es, turn) ==
  LET round(k) == Cardinality(Boundaries(SubSeq(es, 1, k)))
  IN IF turn = AtTail THEN Len(es) ELSE CHOOSE k \in Boundaries(es) : round(k) = turn
Cut(es, turn) ==
  LET round(k) == Cardinality(Boundaries(SubSeq(es, 1, k)))
  IN IF turn = AtTail THEN Len(es) ELSE (CHOOSE k \in Boundaries(es) : round(k) = turn) - 1

-----------------------------------------------------------------------------
(* GET /sessions/{id}/events: the last `limit` events, 0 for all of them,  *)
(* and how many there are; a log that ends in a torn line is an error.     *)
LastOf(es, limit) == IF limit = 0 \/ limit >= Len(es) THEN es ELSE SubSeq(es, Len(es) - limit + 1, Len(es))
NotFound == [status |-> 404]
Broken == [status |-> 422]
Window(es, limit) ==
  [status |-> 200, total |-> Len(es), truncated |-> Len(LastOf(es, limit)) < Len(es), events |-> LastOf(es, limit)]
EventsAnswer(i, limit) ==
  IF ~Exists(i) THEN NotFound ELSE IF ~Readable(i) THEN Broken ELSE Window(log[i], limit)

(* build_forest: in the order of the listing each session is put under its *)
(* parent, unless the parent is already below it.                          *)

Closed(edge, S) == \A j \in S : edge[j] # None => edge[j] \in S
Above(edge, i) ==
  {j \in DOMAIN edge : \A S \in SUBSET DOMAIN edge : i \in S /\ Closed(edge, S) => j \in S}

ClosesNone(edge, i, p) == FALSE
Closes(edge, i, p) == i \in Above(edge, p)

(* The parent each session is drawn under, of a directory whose sidecars   *)
(* name the parents, in the order of the listing.                          *)
Forest(parents) ==
  LET attach(edge, i) ==
        IF parents[i] \notin DOMAIN parents \ {i} \/ Closes(edge, i, parents[i])
        THEN edge ELSE [edge EXCEPT ![i] = parents[i]]
      drawn[k \in 0..Len(parents)] ==
        IF k = 0 THEN [i \in DOMAIN parents |-> None] ELSE attach(drawn[k - 1], k)
  IN drawn[Len(parents)]

Roots(edge) == {i \in DOMAIN edge : edge[i] = None}
RootsAbove(edge, i) == Roots(edge) \cap Above(edge, i)

(* `session tree`: the sessions below the root that i is below.            *)
Tree(edge, i) == {j \in DOMAIN edge : RootsAbove(edge, j) = RootsAbove(edge, i)}

-----------------------------------------------------------------------------
(* Properties.                                                             *)

(* What a fork keeps of a log, what show tells of it, and what replay      *)
(* asks again, are cut at the same queries.                                *)
RoundsAgree(es) ==
  LET rounds == Rounds(es)
      kept(turn) == Rounds(Copied(es, Cut(es, turn), 2))
  IN /\ Len(rounds) = Cardinality(Boundaries(es)) /\ kept(AtTail) = rounds
     /\ {Cut(es, turn) : turn \in AtTurn(es)} = Cuts(es)
     /\ \A turn \in DOMAIN rounds :
          kept(turn) = SubSeq(rounds, 1, turn - 1) /\ rounds[turn].query = es[Cut(es, turn) + 1].seq

(* A window is the end of the log, and says what it leaves out.            *)
WindowTells(es, limit) ==
  LET a == Window(es, limit)
  IN /\ a.events = SubSeq(es, Len(es) - Len(a.events) + 1, Len(es)) /\ a.total = Len(es)
     /\ IF a.truncated THEN Len(a.events) = limit ELSE a.events = es

(* The log of a session is told whole or called broken, and the sidecar's  *)
(* count is its length for a session nobody is working on, unless a kill,  *)
(* an abandoned query, or a title or export that overlapped a run has left *)
(* the sidecar behind.                                                     *)
ToldTruly(i) ==
  LET whole == EventsAnswer(i, 0)
  IN /\ IF Readable(i) THEN whole.events = log[i] ELSE whole = Broken
     /\ Readable(i) /\ i \notin doubt /\ ~Busy(i) => Row(i).header.count = whole.total

(* The rounds a fork keeps, show prints and replay asks, and the server's  *)
(* window of events, agree with the log; looked at once, for the logs of   *)
(* up to MaxEvents + 1 events.                                             *)
RoundsTold ==
  used = {} => \A n \in 0..MaxEvents + 1 : \A kinds \in [1..n -> {"query", "answer", "citation", "other"}] :
    LET es == [k \in 1..n |-> [sid |-> 1, seq |-> k - 1, kind |-> kinds[k]]]
    IN RoundsAgree(es) /\ \A limit \in 0..n + 1 : WindowTells(es, limit)

(* The listing, show and the server's events agree on a session after      *)
(* whatever runs, kills, titles and imports, and a typed id never stands   *)
(* for two of them.                                                        *)
ViewsAgree ==
  /\ \A i \in stored : ToldTruly(i)
  /\ \A typed \in Typed : Cardinality({i \in stored : Resolves(typed, i)}) <= 1
  /\ \A i \in stored : Listed(i) => Resolves(Name[i], i)

(* "Corrupt cyclic lineage never creates a recursive graph" (tree.py):     *)
(* whatever the sidecars name as parents, every session is drawn in        *)
(* exactly one tree, and if there is no cycle each under its parent, in    *)
(* the parent's tree; for every directory of up to TreeSize sessions,      *)
(* looked at once.                                                         *)
DrawnOnceFrom(parents) ==
  LET edge == Forest(parents)
      named == [i \in DOMAIN parents |->
                  IF parents[i] \in DOMAIN parents \ {i} THEN parents[i] ELSE None]
  IN /\ \A i \in DOMAIN parents : Cardinality(RootsAbove(edge, i)) = 1
     /\ (\A i \in DOMAIN parents : named[i] # None => i \notin Above(named, named[i]))
          => edge = named /\ \A i \in DOMAIN parents : named[i] # None => Tree(edge, i) = Tree(edge, named[i])

DrawnOnce ==
  used = {} => \A n \in 1..TreeSize : \A parents \in [1..n -> 0..n] : DrawnOnceFrom(parents)

(* What the reading commands make of any log and of any directory.         *)
ReadersExact == RoundsTold /\ DrawnOnce
=============================================================================
