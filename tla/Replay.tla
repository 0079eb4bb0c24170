------------------------------- MODULE Replay -------------------------------
(***************************************************************************)
(* Rebuilding a session from its log: sessions/replay.py beside the loop   *)
(* whose run it has to reproduce (harness/loop.py, harness/agent.py).      *)
(*                                                                         *)
(* A session lives through rounds, each logging a query, the calls and     *)
(* results of its turns, accepted steering and a final answer; a round may *)
(* be cancelled at every yield and await.  Rebuilt is what reconstruct     *)
(* makes of the log: it runs the same loop on the recorded actions and     *)
(* serves the recorded results by tool and arguments, as results of tools, *)
(* which it truncates again.  Resume goes on with that instead of the live *)
(* state, as a process that loads the session does.  Texts that no event   *)
(* records, compaction and nudges are left out (replay.py names them as    *)
(* gaps), and so are the plugins, of which a rebuild has none.             *)
(***************************************************************************)
EXTENDS ToolBatch, Adapters, FiniteSetsExt

CONSTANTS
  Replies,    \* the batches of calls the model may answer with
  MaxRounds,  \* bound of the model: queries
  MaxReplies, \* bound of the model: replies with calls
  MaxTurns,   \* max_iterations
  MaxSteers,  \* bound of the model: steering messages
  Oracle,     \* an oracle is configured
  Truncate(_) \* what truncate_for_tool makes of a result (Truncation)

\* Faults also names "cancel" and "adapter".
\* A reply without calls is an answer (ModelAnswers).

(* The answers to intercepted calls are values below all results.          *)
Ok == -3
Armed == -4
Refused == -5

ASSUME ReplayAssumption ==
  /\ MaxRounds \in Nat /\ MaxTurns \in Nat \ {0} /\ MaxSteers \in Nat
  /\ MaxReplies \in Nat /\ Oracle \in BOOLEAN
  /\ \A v \in Miss..MaxVersion : Truncate(v) \in Int /\ Truncate(v) > Ok
  /\ \A calls \in Replies :
       /\ calls \in Seq(Range(calls)) /\ calls # <<>>
       /\ \A c \in Range(calls) : c.signed \in BOOLEAN /\ (c.tool \in Tools => c.file \in Files)

VARIABLES
  history, notes,     \* of AgentState
  log,                \* the events that matter for rebuilding
  phase,              \* where the round is
  reply, pos, told,   \* the model's calls, the one dispatched, those announced
  turn, rounds,
  minted,             \* the process' counter of call ids (Gemini's adapter)
  replies,            \* replies with calls so far
  inbox, steers,      \* queued steering; how many messages so far
  exact,              \* nothing has happened that the log cannot tell
  loaded              \* how many turns of the history a rebuild made

loopVars == <<history, notes, log, phase, reply, pos, told, turn, rounds,
             minted, replies, inbox, steers, exact, loaded>>
vars == <<batchVars, loopVars>>

(* save_note stands for register_citation as well, whose call is answered  *)
(* from its arguments; stop and request_clarification end the round.       *)
Ending == {"stop", "request_clarification"}
Intercepted(call) == call.tool \in {"save_note", "escalate_to_oracle"} \cup Ending

(* The answer to an intercepted call, where there is an oracle or not.     *)
AnswerTo(call, oracle) ==
  IF call.tool # "escalate_to_oracle" THEN Ok ELSE IF oracle THEN Armed ELSE Refused

(* A turn's calls, and which of them carry a signature of Gemini's.        *)
NoCall == [id |-> <<>>, tool |-> "none", file |-> "none"]
UserTurn(value) ==
  [role |-> "user", calls |-> <<>>, signed |-> {}, id |-> <<>>, value |-> value]
CallTurn(calls, signed) ==
  [role |-> "assistant", calls |-> calls, signed |-> signed, id |-> <<>>, value |-> Ok]
TextTurn == CallTurn(<<>>, {})
ToolTurn(id, value) ==
  [role |-> "tool", calls |-> <<>>, signed |-> {}, id |-> id, value |-> value]

Event(kind, call, id, value) ==
  [kind |-> kind, turn |-> turn, call |-> call, id |-> id, value |-> value]
Steering(n) == 10 + n

-----------------------------------------------------------------------------
(* The rebuilt state.  state.served are the results taken from the queues. *)

(* The members of a set of positions among the first n, in order.           *)
Listed(n, places) ==
  LET listed[k \in 0..n] ==
        IF k = 0 THEN <<>>
        ELSE IF k \in places THEN Append(listed[k - 1], k) ELSE listed[k - 1]
  IN listed[n]

RoundsOf(events) == {k \in DOMAIN events : events[k].kind = "query"}
InRound(events, k) ==
  {j \in DOMAIN events : j > k /\ \A i \in RoundsOf(events) : i <= k \/ j < i}

(* _build_stub_results: results of real calls, each paired with the last   *)
(* call of its id.                                                         *)
CallPlace(events, k) ==
  Max({j \in 1..(k - 1) : events[j].kind = "call" /\ events[j].id = events[k].id})
CallOf(events, k) == events[CallPlace(events, k)].call
Recorded(events) ==
  {k \in DOMAIN events : events[k].kind = "result" /\ ~Intercepted(CallOf(events, k))}
Asks(call) == [tool |-> call.tool, file |-> call.file]

(* _stub_tool_func: the next result of these arguments, or else of the     *)
(* first arguments of that tool that have one left.                        *)
Serving(events, served, call) ==
  LET asks(k) == Asks(CallOf(events, k))
      left == {k \in Recorded(events) \ served : asks(k).tool = call.tool}
      first(k) == Min({j \in Recorded(events) : asks(j) = asks(k)})
      own == {k \in left : asks(k) = Asks(call)}
      others == {k \in left : \A j \in left : first(k) <= first(j)}
  IN IF own # {} THEN {Min(own)} ELSE IF others # {} THEN {Min(others)} ELSE {}

ServedAnyhow(events, served, call) ==
  LET left == {k \in Recorded(events) : Asks(CallOf(events, k)) = Asks(call)}
  IN IF left # {} THEN {Min(left)} ELSE {}
Served(events, served, call) == Serving(events, served, call)

Blank == [history |-> <<>>, notes |-> 0, served |-> {}, over |-> FALSE]

(* What the loop makes of a call that was answered with a value.           *)
Answer(state, e, value) ==
  [state EXCEPT
     !.history = @ \o (IF e.call.tool = "stop" THEN <<ToolTurn(e.id, value), TextTurn>>
                       ELSE <<ToolTurn(e.id, value)>>),
     !.notes = IF e.call.tool = "save_note" THEN @ + 1 ELSE @,
     !.over = e.call.tool \in Ending]

(* The state that rebuilds has the stub for an oracle, and its results are *)
(* truncated as any are.                                                   *)
RebuiltCall(events, state, e) ==
  LET taken == Served(events, state.served, e.call)
      value == IF taken = {} THEN Error ELSE events[Max(taken)].value
  IN IF state.over THEN state
     ELSE IF Intercepted(e.call) THEN Answer(state, e, AnswerTo(e.call, TRUE))
     ELSE [Answer(state, e, Truncate(value)) EXCEPT !.served = @ \cup taken]

(* _round_to_actions: one action for each turn, its calls or its answer.   *)
(* The event of a call has no place for a signature.                       *)
RebuiltCalls(events, calls, state) ==
  LET answered[n \in 0..Len(calls)] ==
        IF n = 0
        THEN [state EXCEPT !.history =
                Append(@, CallTurn([c \in DOMAIN calls |-> events[calls[c]].call], {}))]
        ELSE RebuiltCall(events, answered[n - 1], events[calls[n]])
  IN answered[Len(calls)]

Bucket(events, k, t, kind) ==
  {j \in InRound(events, k) : events[j].turn = t /\ events[j].kind = kind}
RebuiltTurn(events, k, state, t) ==
  LET calls == Listed(Len(events), Bucket(events, k, t, "call"))
  IN IF state.over THEN state
     ELSE IF calls # <<>> THEN RebuiltCalls(events, calls, state)
     ELSE IF Bucket(events, k, t, "final") # {}
     THEN [state EXCEPT !.history = Append(@, TextTurn), !.over = TRUE]
     ELSE state

(* The steering of a round is queued again before its first turn.          *)
Reasked(events, k, state) ==
  LET steered == Listed(Len(events), {j \in InRound(events, k) : events[j].kind = "steer"})
  IN [state EXCEPT !.over = FALSE, !.history =
        @ \o <<UserTurn(events[k].value)>> \o
        [j \in DOMAIN steered |-> UserTurn(events[steered[j]].value)]]
RebuiltRound(events, state, k) ==
  LET turned[t \in 0..MaxTurns] ==
        IF t = 0 THEN Reasked(events, k, state)
        ELSE RebuiltTurn(events, k, turned[t - 1], t - 1)
  IN turned[MaxTurns]

Rebuilt(events) ==
  LET asked == Listed(Len(events), RoundsOf(events))
      rebuilt[n \in 0..Len(asked)] ==
        IF n = 0 THEN Blank ELSE RebuiltRound(events, rebuilt[n - 1], asked[n])
  IN rebuilt[Len(asked)]

-----------------------------------------------------------------------------
Init ==
  /\ BatchInit /\ history = <<>> /\ notes = 0 /\ log = <<>> /\ phase = "idle"
  /\ reply = <<>> /\ pos = 1 /\ told = 0 /\ turn = 0 /\ rounds = 0
  /\ minted = 0 /\ replies = 0 /\ inbox = <<>> /\ steers = 0 /\ exact = TRUE /\ loaded = 0

Remember(t) == history' = Append(history, t)
Log(e) == log' = Append(log, e)
Goto(place) == phase' = place

(* A round that is over leaves nothing of its reply.                       *)
Clear == reply' = <<>> /\ pos' = 1 /\ told' = 0 /\ turn' = 0

(* run_stream: the query is logged and yielded, then it is a turn.         *)
Ask ==
  /\ phase = "idle" /\ rounds < MaxRounds /\ rounds' = rounds + 1
  /\ turn' = 0 /\ log' = Append(log, [Event("query", NoCall, <<>>, rounds + 1) EXCEPT !.turn = 0])
  /\ Goto("asked")
  /\ UNCHANGED <<batchVars, history, notes, reply, pos, told, minted, replies, inbox, steers, exact, loaded>>

Accept ==
  /\ phase = "asked" /\ Remember(UserTurn(rounds)) /\ Goto("ready")
  /\ UNCHANGED <<batchVars, notes, log, reply, pos, told, turn, rounds, minted, replies, inbox, steers, exact, loaded>>

(* The queue is looked at as a turn begins: of the times before, one will  *)
(* do here.                                                                *)
Steer ==
  /\ phase \in {"ready", "executing"} /\ steers < MaxSteers /\ steers' = steers + 1
  /\ inbox' = Append(inbox, Steering(steers))
  /\ UNCHANGED <<batchVars, history, notes, log, phase, reply, pos, told, turn, rounds, minted, replies, exact, loaded>>

(* Steering is a turn of its own; rebuilt, it stands behind the query.     *)
Drain ==
  /\ phase = "ready" /\ inbox # <<>>
  /\ Remember(UserTurn(Head(inbox))) /\ Log(Event("steer", NoCall, <<>>, Head(inbox)))
  /\ inbox' = Tail(inbox) /\ exact' = (exact /\ turn = 0)
  /\ UNCHANGED <<batchVars, notes, phase, reply, pos, told, turn, rounds, minted, replies, steers, loaded>>

(* The adapter gives each call an id as it reads the response.             *)
ModelReplies(calls) ==
  LET asked == [k \in DOMAIN calls |-> [id |-> SynthId(calls[k].tool, minted + k),
                                         tool |-> calls[k].tool, file |-> calls[k].file]]
  IN /\ phase = "ready" /\ inbox = <<>>
     /\ replies < MaxReplies /\ replies' = replies + 1 /\ minted' = minted + Len(calls)
     /\ Remember(CallTurn(asked, {k \in DOMAIN calls : calls[k].signed})) /\ reply' = asked /\ pos' = 1 /\ told' = 0 /\ Goto("dispatch")
     /\ UNCHANGED <<batchVars, notes, log, turn, rounds, inbox, steers, exact, loaded>>

ModelAnswers ==
  /\ phase = "ready" /\ inbox = <<>>
  /\ Remember(TextTurn) /\ Log(Event("final", NoCall, <<>>, Ok)) /\ Goto("idle") /\ Clear
  /\ UNCHANGED <<batchVars, notes, rounds, minted, replies, inbox, steers, exact, loaded>>

ModelFails ==
  /\ "adapter" \in Faults /\ phase = "ready" /\ inbox = <<>> /\ Goto("idle") /\ Clear
  /\ UNCHANGED <<batchVars, history, notes, log, rounds, minted, replies, inbox, steers, exact, loaded>>

(* The real calls from here to the next intercepted one, or the end.       *)
Group == {k \in DOMAIN reply : k >= pos /\ \A j \in pos..k : ~Intercepted(reply[j])}

(* _dispatch_pseudo: the call is yielded, and answered behind the yield.   *)
AnnouncePseudo ==
  /\ phase = "dispatch" /\ pos <= Len(reply) /\ Intercepted(reply[pos])
  /\ Log(Event("call", reply[pos], reply[pos].id, Ok)) /\ Goto("inline")
  /\ UNCHANGED <<batchVars, history, notes, reply, pos, told, turn, rounds, minted, replies, inbox, steers, exact, loaded>>

(* Calls behind a stop are in the turn, but never logged.                  *)
AnswerPseudo ==
  LET tool == reply[pos].tool
      value == AnswerTo(reply[pos], Oracle)
  IN /\ phase = "inline"
     /\ history' = history \o (IF tool = "stop" THEN <<ToolTurn(reply[pos].id, value), TextTurn>>
                               ELSE <<ToolTurn(reply[pos].id, value)>>)
     /\ notes' = IF tool = "save_note" THEN notes + 1 ELSE notes
     /\ Log(IF tool = "stop" THEN Event("final", NoCall, <<>>, Ok)
            ELSE Event("result", NoCall, reply[pos].id, value))
     /\ IF tool \notin Ending
        THEN Goto("dispatch") /\ pos' = pos + 1 /\ UNCHANGED <<reply, told, turn>>
        ELSE Goto("idle") /\ Clear
     /\ exact' = (exact /\ (tool \notin Ending \/ pos = Len(reply)))
     /\ UNCHANGED <<batchVars, rounds, minted, replies, inbox, steers, loaded>>

(* _run_real_calls: every call of the group is yielded, the batch is run,  *)
(* and the results are yielded in the order of the calls.                  *)
AnnounceCall ==
  /\ phase = "dispatch" /\ Cardinality(Group) > told
  /\ Log(Event("call", reply[pos + told], reply[pos + told].id, Ok)) /\ told' = told + 1
  /\ UNCHANGED <<batchVars, history, notes, phase, reply, pos, turn, rounds, minted, replies, inbox, steers, exact, loaded>>

Execute ==
  /\ phase = "dispatch" /\ Group # {} /\ told = Cardinality(Group)
  /\ StartBatch(SubSeq(reply, pos, pos + told - 1), {c \in Range(reply) : ~Intercepted(c)})
  /\ Goto("executing")
  /\ UNCHANGED <<history, notes, log, reply, pos, told, turn, rounds, minted, replies, inbox, steers, exact, loaded>>

RunBatch == phase = "executing" /\ BatchStep /\ UNCHANGED loopVars

Deliver ==
  LET value == Truncate(outcome[Len(batch) - told + 1].value)
  IN /\ phase = "executing" /\ Over /\ told > 0
     /\ Remember(ToolTurn(reply[pos].id, value))
     /\ Log(Event("result", NoCall, reply[pos].id, value))
     /\ pos' = pos + 1 /\ told' = told - 1
     /\ IF told = 1 THEN DropBatch /\ UNCHANGED <<world, cache>> /\ Goto("dispatch")
        ELSE UNCHANGED <<batchVars, phase>>
     /\ UNCHANGED <<notes, reply, turn, rounds, minted, replies, inbox, steers, exact, loaded>>

(* The turn is over; at max_iterations so is the round.                    *)
EndTurn ==
  /\ phase = "dispatch" /\ pos > Len(reply)
  /\ IF turn + 1 < MaxTurns
     THEN Goto("ready") /\ turn' = turn + 1 /\ reply' = <<>> /\ pos' = 1 /\ told' = 0
     ELSE Goto("idle") /\ Clear
  /\ UNCHANGED <<batchVars, history, notes, log, rounds, minted, replies, inbox, steers, exact, loaded>>

(* The consumer stops at a yield, or an await is cancelled.                *)
Cancel ==
  /\ "cancel" \in Faults /\ phase # "idle" /\ Goto("idle")
  /\ exact' = (exact /\ (phase = "ready" \/ (phase = "dispatch" /\ pos > Len(reply))))
  /\ Clear /\ DropBatch
  /\ UNCHANGED <<world, cache, history, notes, log, rounds, minted, replies, inbox, steers, loaded>>

(* Another process loads the session: Session.load, import_session, fork.  *)
Resume ==
  /\ phase = "idle" /\ log # <<>>
  /\ LET state == Rebuilt(log) IN history' = state.history /\ notes' = state.notes
  /\ loaded' = Len(history')
  /\ inbox' = <<>> /\ minted' = 0
  /\ cache' = [c \in Keys |-> Miss]
  /\ UNCHANGED <<world, before, batch, parallel, at, outcome, log, phase, reply, pos, told, turn, rounds, replies,
                 steers, exact>>

EditFile == phase = "executing" /\ \E f \in Files : Edit(f) /\ UNCHANGED loopVars

Quiet == phase = "idle" /\ rounds = MaxRounds /\ UNCHANGED vars

Next ==
  \/ Ask \/ Accept \/ Steer \/ Drain \/ ModelAnswers \/ ModelFails
  \/ \E calls \in Replies : ModelReplies(calls)
  \/ AnnouncePseudo \/ AnswerPseudo \/ AnnounceCall \/ Execute \/ RunBatch \/ Deliver
  \/ EndTurn \/ Cancel \/ Resume \/ EditFile \/ Quiet

Spec == Init /\ [][Next]_vars

-----------------------------------------------------------------------------
(* Properties.                                                             *)

(* What a rebuild makes of a turn of this process: a call has lost its     *)
(* signature, a result is truncated once more, an oracle refused is one    *)
(* armed.  A turn that a rebuild has made already stays as it is.          *)
Retold(t) ==
  [t EXCEPT !.signed = {},
                !.value = IF t.role # "tool" \/ t.value \in {Ok, Armed} THEN @
                          ELSE IF t.value = Refused THEN Armed ELSE Truncate(@)]
Recalled == [k \in DOMAIN history |-> IF k <= loaded THEN history[k] ELSE Retold(history[k])]

(* A rebuilt session is the live one, turn by turn, but for what Retold    *)
(* names, and a session that was resumed, once or again, goes on to be the *)
(* one that was not: whatever the model and the tools did, equal calls     *)
(* that returned different things included, as long as every logged query  *)
(* became a turn, every call of a reply was answered and steering came     *)
(* before a round's first reply.                                           *)
RebuiltHistory ==
  phase = "idle" /\ exact =>
    LET state == Rebuilt(log) IN state.history = Recalled /\ state.notes = notes

(* Gemini's adapter answers a call by its tool's name, which it looks up   *)
(* by id, and ids are given out again by a process that resumes a session: *)
(* every result in a prompt is still sent under the name of the very call  *)
(* it answers, the last one before it of that id.                          *)
NamedResults ==
  phase = "ready" => \A k \in DOMAIN history : history[k].role = "tool" =>
    LET asking(j) == {c \in DOMAIN history[j].calls : history[j].calls[c].id = history[k].id}
        last == Max({j \in 1..k : asking(j) # {}})
    IN ToolNameFromCallId(history[k].id, history) = history[last].calls[Max(asking(last))].tool
=============================================================================
