----------------------------- MODULE AgentLoop -----------------------------
(***************************************************************************)
(* One Session of reigner: the agent loop `run_loop` of harness/loop.py    *)
(* over the AgentState of harness/state.py, with the guardrails it calls   *)
(* (steering, compaction, iteration and error nudges, oracle escalation,   *)
(* pseudo-tools, plugin hooks).                                            *)
(*                                                                         *)
(* asyncio runs the coroutine from one suspension point (a `yield` to the  *)
(* consumer or an awaited adapter or tool call) to the next without        *)
(* interruption.  `pc` names the place the coroutine has reached; another  *)
(* task can call `steer`, and the consumer can abandon the generator, only *)
(* where it is suspended (Suspended).  Hooks run with the step that calls  *)
(* them.  The data the model and the tools produce is abstracted to what   *)
(* the loop branches on: the names of the tools called, whether a call     *)
(* fails, and the compaction tier the token count reaches.                 *)
(*                                                                         *)
(* A few definitions have a sibling that no action uses: the form a        *)
(* plausible bug would give them (EnterAhead, EndIterationUnlatched, ...). *)
(* Putting one in place of its original makes a property fail, which shows *)
(* that the property depends on it.                                        *)
(***************************************************************************)
EXTENDS Naturals, Sequences

CONSTANTS
  MaxIterations,   \* settings.max_iterations: model calls of one query
  NudgeInterval,   \* settings.nudge_interval: iterations between G3 nudges
  MaxErrors,       \* settings.max_consecutive_errors: the G4 threshold
  KeepRecent,      \* settings.history_keep_recent: turns compaction keeps
  MaxNotes,        \* settings.max_session_notes: the scratchpad's cap
  OracleConfigured,\* whether the harness has an oracle adapter
  Tiers,           \* the compaction tiers the token count may reach
  Facts,           \* citations the model may register (source, locator, value)
  Replies,         \* tool batches a model reply may carry, as sequences of names
  Faults,          \* what may fail: "tool", "adapter", "hook", "cancel";
                   \* "no_adapter": the session has no model adapter
  MaxQueries,      \* bound of the model: queries submitted
  MaxSteers        \* bound of the model: steering messages enqueued

PseudoTools == {"save_note", "register_citation", "request_clarification",
                "stop", "escalate_to_oracle"}
\* Real tools: a registered one and one no registry resolves.
RealTools == {"tool", "ghost"}
Tools == PseudoTools \cup RealTools

ASSUME SettingsAssumption ==
  /\ MaxIterations \in Nat \ {0}
  /\ NudgeInterval \in Nat \ {0}
  /\ MaxErrors \in Nat \ {0}
  /\ KeepRecent \in Nat \ {0}
  /\ MaxNotes \in Nat \ {0}
  /\ OracleConfigured \in BOOLEAN
  /\ Tiers \subseteq 1..3

ASSUME ModelAssumption ==
  /\ Replies \subseteq Seq(Tools) \ {<<>>}
  /\ Faults \subseteq {"tool", "adapter", "hook", "cancel", "no_adapter"}
  /\ MaxQueries \in Nat
  /\ MaxSteers \in Nat

VARIABLES
  \* AgentState
  history,     \* the conversation, a sequence of turns
  steering,    \* pending_steering: message numbers, oldest first
  errors,      \* _consecutive_errors
  nudged,      \* error_nudge_injected, the G4 latch
  armed,       \* oracle_armed
  iterations,  \* iterations of the current query
  notes,       \* the scratchpad: the calls that saved a note
  citations,   \* registered facts, in order
  \* locals of run_loop
  pc,          \* where the coroutine is
  serving,     \* the adapter picked for this iteration
  draining,    \* drained steering messages not appended yet
  calls,       \* tool calls of the reply still to be looked at
  batch,       \* pending_real: real calls collected or being executed
  \* what the consumer has seen
  queries,     \* run_stream calls so far
  sent,        \* steering messages enqueued so far
  delivered,   \* messages of the SteeringAcceptedEvents
  lost,        \* drained messages an abandoned run took with it
  terminals    \* terminal events of the current query

state == <<history, steering, errors, nudged, armed, iterations, notes, citations>>
locals == <<pc, serving, draining, calls, batch>>
seen == <<queries, sent, delivered, lost, terminals>>
vars == <<history, steering, errors, nudged, armed, iterations, notes, citations,
          pc, serving, draining, calls, batch,
          queries, sent, delivered, lost, terminals>>

-----------------------------------------------------------------------------
(* Turns.  A call is named by the query, the iteration and the position it  *)
(* was issued at: providers give every call an id of its own.              *)

CallId == Nat \X Nat \X Nat
Call == [id : CallId, tool : Tools]
UserKinds == {"query", "steering", "iteration_nudge", "error_nudge"}
AssistantKinds == {"text", "tool_calls", "summary"}
ToolKinds == {"ok", "error", "ack"}
Turn == [kind : UserKinds \cup AssistantKinds \cup ToolKinds,
         n : Nat, calls : SUBSET CallId, answers : SUBSET CallId]

UserTurn(kind, n) == [kind |-> kind, n |-> n, calls |-> {}, answers |-> {}]
TextTurn == [kind |-> "text", n |-> 0, calls |-> {}, answers |-> {}]
SummaryTurn == [kind |-> "summary", n |-> 0, calls |-> {}, answers |-> {}]
CallsTurn(cs) ==
  [kind |-> "tool_calls", n |-> 0, calls |-> {cs[k].id : k \in DOMAIN cs}, answers |-> {}]
ToolTurn(kind, id) == [kind |-> kind, n |-> 0, calls |-> {}, answers |-> {id}]

CallsOf(reply) ==
  [k \in DOMAIN reply |-> [id |-> <<queries, iterations, k>>, tool |-> reply[k]]]

(* compact_history keeps the last n turns behind one summary; tier 3 keeps  *)
(* only the last turn.  Tier 2 also shrinks the bodies of the tool turns,   *)
(* which the model does not carry.                                         *)
KeepLastBare(h, n) == IF Len(h) <= n THEN h ELSE SubSeq(h, Len(h) - n + 1, Len(h))
KeepLast(h, n) ==
  IF Len(h) <= n THEN h
  ELSE <<SummaryTurn>> \o SubSeq(h, Len(h) - n + 1, Len(h))
Compacted(h, tier) == KeepLast(h, IF tier = 3 THEN 1 ELSE KeepRecent)

(* iteration_nudge (G3), appended to the history the model is about to see. *)
WithIterationNudge(h) ==
  IF iterations # 0 /\ iterations % NudgeInterval = 0
  THEN Append(h, UserTurn("iteration_nudge", 0)) ELSE h

(* add_note evicts the oldest note at the cap.                             *)
LastNotes(s) == IF Len(s) > MaxNotes THEN Tail(s) ELSE s

(* add_citation keeps one entry per fact.                                  *)
WithCitation(fact) ==
  IF \E k \in DOMAIN citations : citations[k] = fact
  THEN citations ELSE Append(citations, fact)

(* error_nudge (G4) is due.                                                *)
StreakReached == errors >= MaxErrors

-----------------------------------------------------------------------------
Init ==
  /\ history = <<>> /\ steering = <<>> /\ errors = 0 /\ nudged = FALSE
  /\ armed = FALSE /\ iterations = 0 /\ notes = <<>> /\ citations = <<>>
  /\ pc = "idle" /\ serving = "base" /\ draining = <<>> /\ calls = <<>> /\ batch = <<>>
  /\ queries = 0 /\ sent = 0 /\ delivered = <<>> /\ lost = {} /\ terminals = <<>>

(* Where the coroutine is suspended.  "top" and "compact" are inside one    *)
(* uninterrupted stretch of code; "dispatch" has no suspension point of its *)
(* own, but what is lost there is what is lost at the event yielded next.   *)
Suspended == pc \notin {"top", "compact"}

(* A terminal event is yielded; after it run_loop only returns.            *)
End(event) == pc' = "ended" /\ terminals' = Append(terminals, event)

(* A transform hook raises and the loop turns that into an ErrorEvent.     *)
HookFails == "hook" \in Faults /\ End("hook_error")

(***************************************************************************)
(* Session.run_stream: the query becomes a user turn and run_loop starts,  *)
(* resetting the per-query budget.                                         *)
(***************************************************************************)
StartWith(budget) ==
  /\ pc = "idle" /\ queries < MaxQueries
  /\ queries' = queries + 1
  /\ history' = Append(history, UserTurn("query", queries + 1))
  /\ iterations' = budget /\ terminals' = <<>>
  /\ pc' = "top"
  /\ UNCHANGED <<steering, errors, nudged, armed, notes, citations,
                 serving, draining, calls, batch, sent, delivered, lost>>

StartQuery == StartWith(0)

(* state.adapter, which may be left out, is None as the run starts: the    *)
(* queue stays as it is.                                                   *)
NoAdapter ==
  /\ "no_adapter" \in Faults /\ pc = "top" /\ iterations = 0
  /\ End("no_adapter")
  /\ UNCHANGED <<state, serving, draining, calls, batch, queries, sent, delivered, lost>>

(* Session.steer, from any task while the run is suspended or none runs.   *)
Steer ==
  /\ Suspended /\ sent < MaxSteers
  /\ sent' = sent + 1
  /\ steering' = Append(steering, sent + 1)
  /\ UNCHANGED <<history, errors, nudged, armed, iterations, notes, citations,
                 locals, queries, delivered, lost, terminals>>

(* pick_adapter, with the flag it consumes.                                *)
PickAdapter ==
  LET oracle == armed /\ OracleConfigured
  IN  /\ serving' = IF oracle THEN "oracle" ELSE "base"
      /\ armed' = (armed /\ ~oracle)

(* The queue is drained at once; every message is then appended before its *)
(* SteeringAcceptedEvent is yielded.                                       *)
DeliverFirst(queue) ==
  /\ history' = Append(history, UserTurn("steering", Head(queue)))
  /\ delivered' = Append(delivered, Head(queue))
  /\ draining' = Tail(queue)
  /\ pc' = "steering"

BeginLeaving(queue) ==
  /\ pc = "top"
  /\ PickAdapter
  /\ IF steering = <<>>
     THEN pc' = "compact" /\ UNCHANGED <<history, delivered, draining>>
     ELSE DeliverFirst(steering)
  /\ steering' = queue
  /\ UNCHANGED <<errors, nudged, iterations, notes, citations, calls, batch,
                 queries, sent, lost, terminals>>

BeginIterationUncleared == BeginLeaving(steering)
BeginIteration == BeginLeaving(<<>>)

DrainSteering ==
  /\ pc = "steering" /\ draining # <<>>
  /\ DeliverFirst(draining)
  /\ UNCHANGED <<steering, errors, nudged, armed, iterations, notes, citations,
                 serving, calls, batch, queries, sent, lost, terminals>>

Drained == pc = "compact" \/ (pc = "steering" /\ draining = <<>>)

(* progressive finds the pressure at a tier and yields a CompactionEvent.  *)
Compact(tier) ==
  /\ Drained
  /\ history' = Compacted(history, tier)
  /\ pc' = "compacted"
  /\ UNCHANGED <<steering, errors, nudged, armed, iterations, notes, citations,
                 serving, draining, calls, batch, seen>>

(* The iteration nudge, build_prompt and the call of the adapter.          *)
CallModel ==
  /\ Drained \/ pc = "compacted"
  /\ history' = WithIterationNudge(history)
  /\ pc' = "calling"
  /\ UNCHANGED <<steering, errors, nudged, armed, iterations, notes, citations,
                 serving, draining, calls, batch, seen>>

-----------------------------------------------------------------------------
(* What the model answers.                                                 *)

AdapterFails ==
  /\ pc = "calling" /\ "adapter" \in Faults
  /\ errors' = errors + 1
  /\ End("adapter_error")
  /\ UNCHANGED <<history, steering, nudged, armed, iterations, notes, citations,
                 serving, draining, calls, batch, queries, sent, delivered, lost>>

(* A final answer, or a reply with neither text nor calls, which the loop  *)
(* ends the same way; on_final_answer may fail and then nothing is         *)
(* appended.                                                               *)
Answer ==
  /\ pc = "calling"
  /\ \/ history' = Append(history, TextTurn) /\ End("final")
     \/ HookFails /\ UNCHANGED history
  /\ UNCHANGED <<steering, errors, nudged, armed, iterations, notes, citations,
                 serving, draining, calls, batch, queries, sent, delivered, lost>>

AskTools(reply) ==
  /\ pc = "calling"
  /\ calls' = CallsOf(reply)
  /\ history' = Append(history, CallsTurn(CallsOf(reply)))
  /\ pc' = "dispatch"
  /\ UNCHANGED <<steering, errors, nudged, armed, iterations, notes, citations,
                 serving, draining, batch, seen>>

-----------------------------------------------------------------------------
(* Dispatch of the calls in the order the model issued them.               *)

NextIsReal == calls # <<>> /\ Head(calls).tool \in RealTools
NextIsPseudo == calls # <<>> /\ Head(calls).tool \in PseudoTools

CollectReal ==
  /\ pc = "dispatch" /\ NextIsReal
  /\ batch' = Append(batch, Head(calls))
  /\ calls' = Tail(calls)
  /\ UNCHANGED <<state, pc, serving, draining, seen>>

(* The collected real calls are flushed before a pseudo-tool and after the *)
(* last call.                                                              *)
MustFlush == batch # <<>> /\ ~NextIsReal

(* _run_real_calls: before_tool_call folds over the batch, the             *)
(* ToolCallEvents are yielded and execute_batch is awaited.                *)
RunBatch ==
  /\ pc = "dispatch" /\ MustFlush
  /\ \/ pc' = "executing" /\ UNCHANGED terminals
     \/ HookFails
  /\ UNCHANGED <<state, serving, draining, calls, batch, queries, sent, delivered, lost>>

Outcomes(tool) ==
  IF tool = "ghost" THEN {"error"}
  ELSE {"ok"} \cup (IF "tool" \in Faults THEN {"error"} ELSE {})

(* record_tool_error or record_tool_success.                               *)
CountOutcome(outcome) ==
  IF outcome = "error" THEN errors' = errors + 1 /\ UNCHANGED nudged
  ELSE errors' = 0 /\ nudged' = FALSE

(* One result is counted, passed to after_tool_call, appended and yielded. *)
RecordResult(outcome) ==
  /\ pc = "executing" /\ outcome \in Outcomes(Head(batch).tool)
  /\ CountOutcome(outcome)
  /\ \/ /\ history' = Append(history, ToolTurn(outcome, Head(batch).id))
        /\ batch' = Tail(batch)
        /\ pc' = IF Tail(batch) = <<>> THEN "dispatch" ELSE "executing"
        /\ UNCHANGED terminals
     \/ HookFails /\ UNCHANGED <<history, batch>>
  /\ UNCHANGED <<steering, armed, iterations, notes, citations,
                 serving, draining, calls, queries, sent, delivered, lost>>

(* _dispatch_pseudo yields the ToolCallEvent, then handles the call.       *)
EnterAhead ==
  /\ pc = "dispatch" /\ NextIsPseudo
  /\ pc' = "pseudo"
  /\ UNCHANGED <<state, serving, draining, calls, batch, seen>>
EnterPseudo == batch = <<>> /\ EnterAhead

At(tool) == pc = "pseudo" /\ Head(calls).tool = tool

(* The pseudo-tool's own tool turn, its ToolResultEvent, and on to the     *)
(* next call.                                                              *)
Acknowledge == history' = Append(history, ToolTurn("ack", Head(calls).id))
NextCall == calls' = Tail(calls) /\ pc' = "dispatch"

SaveNote ==
  /\ At("save_note")
  /\ notes' = LastNotes(Append(notes, Head(calls).id))
  /\ Acknowledge /\ NextCall
  /\ UNCHANGED <<steering, errors, nudged, armed, iterations, citations,
                 serving, draining, batch, seen>>

(* The CitationEvent is yielded before the tool turn is appended.          *)
RegisterCitation(fact) ==
  /\ At("register_citation")
  /\ citations' = WithCitation(fact)
  /\ pc' = "half_done"
  /\ UNCHANGED <<history, steering, errors, nudged, armed, iterations, notes,
                 serving, draining, calls, batch, seen>>

(* The OracleEscalationEvent too; an unconfigured oracle is not armed.     *)
EscalateToOracle ==
  /\ At("escalate_to_oracle")
  /\ armed' = (armed \/ OracleConfigured)
  /\ pc' = "half_done"
  /\ UNCHANGED <<history, steering, errors, nudged, iterations, notes, citations,
                 serving, draining, calls, batch, seen>>

FinishPseudo ==
  /\ pc = "half_done"
  /\ Acknowledge /\ NextCall
  /\ UNCHANGED <<steering, errors, nudged, armed, iterations, notes, citations,
                 serving, draining, batch, seen>>

(* The ClarificationEvent is the query's terminal event; a tool turn and a *)
(* ToolResultEvent follow it, and the calls left in the reply are dropped. *)
RequestClarification ==
  /\ At("request_clarification")
  /\ pc' = "clarified" /\ terminals' = Append(terminals, "clarification")
  /\ UNCHANGED <<state, serving, draining, calls, batch, queries, sent, delivered, lost>>

CloseAndGoOn ==
  /\ pc = "clarified"
  /\ Acknowledge /\ NextCall
  /\ UNCHANGED <<steering, errors, nudged, armed, iterations, notes, citations,
                 serving, draining, batch, seen>>
CloseClarification ==
  /\ pc = "clarified"
  /\ Acknowledge
  /\ pc' = "ended"
  /\ UNCHANGED <<steering, errors, nudged, armed, iterations, notes, citations,
                 serving, draining, calls, batch, seen>>

(* stop: the tool turn first, then on_final_answer, then the final text.   *)
Stop ==
  /\ At("stop")
  /\ LET answered == Append(history, ToolTurn("ack", Head(calls).id))
     IN  \/ history' = Append(answered, TextTurn) /\ End("final")
         \/ history' = answered /\ HookFails
  /\ UNCHANGED <<steering, errors, nudged, armed, iterations, notes, citations,
                 serving, draining, calls, batch, queries, sent, delivered, lost>>

-----------------------------------------------------------------------------
(* The end of an iteration: G4, then the iteration budget.                 *)

TurnDoneUnflushed == pc = "dispatch" /\ calls = <<>>
TurnDone == pc = "dispatch" /\ calls = <<>> /\ batch = <<>>

AbortAtThreshold ==
  /\ TurnDone /\ StreakReached
  /\ End("abort")
  /\ UNCHANGED <<state, serving, draining, calls, batch, queries, sent, delivered, lost>>
AbortOnErrors == nudged /\ AbortAtThreshold

EndWith(latch, count) ==
  /\ TurnDone /\ ~(StreakReached /\ nudged)
  /\ history' = IF StreakReached THEN Append(history, UserTurn("error_nudge", errors))
                                 ELSE history
  /\ nudged' = latch
  /\ iterations' = count
  /\ IF count >= MaxIterations
     THEN End("max_iterations")
     ELSE pc' = "top" /\ UNCHANGED terminals
  /\ UNCHANGED <<steering, errors, armed, notes, citations,
                 serving, draining, calls, batch, queries, sent, delivered, lost>>

EndIterationUnlatched == EndWith(nudged, iterations + 1)
EndIterationUncounted == EndWith(nudged \/ StreakReached, iterations)
EndIteration == EndWith(nudged \/ StreakReached, iterations + 1)

(* The generator returns after its terminal event; its locals are gone.    *)
DropLocals == pc' = "idle" /\ serving' = "base"
              /\ draining' = <<>> /\ calls' = <<>> /\ batch' = <<>>

Return ==
  /\ pc = "ended"
  /\ DropLocals
  /\ UNCHANGED <<state, seen>>

(* The consumer stops iterating or is cancelled, or an exception no handler *)
(* knows escapes: the run ends where it is suspended.                      *)
Cancel ==
  /\ "cancel" \in Faults /\ Suspended /\ pc \notin {"idle", "ended"}
  /\ DropLocals
  /\ lost' = lost \cup {draining[k] : k \in DOMAIN draining}
  /\ UNCHANGED <<state, queries, sent, delivered, terminals>>

(* No query left to submit and none running.                               *)
Quiet == pc = "idle" /\ queries = MaxQueries /\ UNCHANGED vars

LoopStep ==
  \/ NoAdapter \/ BeginIteration \/ DrainSteering \/ (\E tier \in Tiers : Compact(tier)) \/ CallModel
  \/ AdapterFails \/ Answer \/ (\E reply \in Replies : AskTools(reply))
  \/ CollectReal \/ RunBatch \/ (\E outcome \in {"ok", "error"} : RecordResult(outcome))
  \/ EnterPseudo \/ SaveNote \/ (\E fact \in Facts : RegisterCitation(fact))
  \/ EscalateToOracle \/ FinishPseudo \/ RequestClarification \/ CloseClarification
  \/ Stop \/ AbortOnErrors \/ EndIteration \/ Return

Next == LoopStep \/ StartQuery \/ Steer \/ Cancel \/ Quiet

Spec == Init /\ [][Next]_vars

(* The model and the tools answer, and the consumer keeps iterating.       *)
FairSpec == Spec /\ WF_vars(LoopStep)

-----------------------------------------------------------------------------
(* Properties.                                                             *)

Pcs == {"idle", "top", "steering", "compact", "compacted", "calling", "dispatch",
        "executing", "pseudo", "half_done", "clarified", "ended"}

TerminalKinds == {"final", "clarification", "adapter_error", "hook_error",
                  "abort", "max_iterations", "no_adapter"}

(* Every variable has its type; a pseudo-tool is handled only while its    *)
(* call is at hand and a batch is executed only while it holds a call.     *)
TypeOK ==
  /\ history \in Seq(Turn) /\ steering \in Seq(Nat) /\ errors \in Nat
  /\ nudged \in BOOLEAN /\ armed \in BOOLEAN /\ iterations \in Nat
  /\ notes \in Seq(CallId) /\ citations \in Seq(Facts)
  /\ pc \in Pcs /\ serving \in {"base", "oracle"} /\ draining \in Seq(Nat)
  /\ calls \in Seq(Call) /\ batch \in Seq(Call)
  /\ queries \in Nat /\ sent \in Nat /\ delivered \in Seq(Nat) /\ lost \subseteq Nat
  /\ terminals \in Seq(TerminalKinds)
  /\ pc \in {"pseudo", "half_done", "clarified"} => calls # <<>>
  /\ pc = "executing" => batch # <<>>

Answered(c) == \E j \in DOMAIN history : c \in history[j].answers
IsTool(turn) == turn.kind \in ToolKinds
CallIdBefore(a, b) ==
  \/ a[1] < b[1]
  \/ a[1] = b[1] /\ a[2] < b[2]
  \/ a[1] = b[1] /\ a[2] = b[2] /\ a[3] < b[3]

(* Tool turns stand in the history in the order in which the model issued  *)
(* their calls, each call answered at most once, and after the assistant   *)
(* turn that asked for it: what the flush of `pending_real` ahead of every *)
(* intercepted call is for (loop.py, "so emission order is stable").       *)
AnswersInCallOrder ==
  \A i, j \in DOMAIN history :
    /\ i < j /\ IsTool(history[i]) /\ IsTool(history[j]) =>
         \A a \in history[i].answers, b \in history[j].answers : CallIdBefore(a, b)
    /\ history[j].answers \cap history[i].calls # {} => i < j

(* When the model is called, every call it issued earlier in the same      *)
(* query, as far as compaction has left it in the history, is answered:    *)
(* neither the branch on intercepted tools nor the final flush forgets one. *)
PromptAnswersThisQuery ==
  pc = "calling" =>
    \A i \in DOMAIN history : \A c \in history[i].calls :
      c[1] = queries => Answered(c)

(* run_loop "emits exactly one terminal event per call": none before the   *)
(* run reaches its end, and exactly one when it returns.                   *)
ExactlyOneTerminal ==
  /\ pc \notin {"clarified", "ended", "idle"} => terminals = <<>>
  /\ pc \in {"clarified", "ended"} => Len(terminals) = 1

(* The model is called at most MaxIterations times for one query.          *)
IterationBudget == pc = "calling" => iterations < MaxIterations

(* The G4 latch is set only while the streak of errors that set it lasts,  *)
(* across queries and whatever resets the counter.                         *)
StreakJustifiesLatch == nudged => StreakReached

(* Two wrap-up nudges are always separated by a successful tool result:    *)
(* one streak of errors is nudged about once.  (A success that a failing    *)
(* after_tool_call keeps out of the history leaves its call unanswered.)   *)
OneNudgePerStreak ==
  \A i, j \in DOMAIN history :
    i < j /\ history[i].kind = "error_nudge" /\ history[j].kind = "error_nudge" =>
      \E k \in i..j : \/ history[k].kind = "ok"
                       \/ \E c \in history[k].calls : ~Answered(c)

(* Every steering message is in exactly one place, in the order it was     *)
(* sent: accepted, drained, still queued, or lost with an abandoned run.   *)
(* The accepted ones stand in the history once and in that order; those    *)
(* that do not are the oldest, and the history begins with a summary.      *)
IsSteering(turn) == turn.kind = "steering"
Stands(m) == \E i \in DOMAIN history : IsSteering(history[i]) /\ history[i].n = m

SteeringConserved ==
  LET all == delivered \o draining \o steering
  IN  /\ \A i, j \in DOMAIN all : i < j => all[i] < all[j]
      /\ 1..sent = lost \cup {all[k] : k \in DOMAIN all}
      /\ \A k \in DOMAIN all : all[k] \notin lost
      /\ \A i, j \in DOMAIN history :
           i < j /\ IsSteering(history[i]) /\ IsSteering(history[j]) =>
             history[i].n < history[j].n
      /\ \A i \in DOMAIN history : IsSteering(history[i]) =>
           \E k \in DOMAIN delivered : delivered[k] = history[i].n
      /\ \A k \in DOMAIN delivered : ~Stands(delivered[k]) =>
           /\ history # <<>> /\ history[1].kind = "summary"
           /\ \A older \in 1..k : ~Stands(delivered[older])

(* Compaction cuts the history once: a tool turn whose call it summarised  *)
(* away stands right behind the summary, with only such turns between.     *)
OrphansBehindSummary ==
  \A j \in DOMAIN history :
    IsTool(history[j]) =>
      \/ \E i \in 1..j : history[j].answers \subseteq history[i].calls
      \/ /\ history[1].kind = "summary"
         /\ \A i \in 2..j : IsTool(history[i])

(* Every run comes back to its consumer: the loop always reaches a         *)
(* terminal event and returns.                                             *)
QueryTerminates == pc # "idle" ~> pc = "idle"

=============================================================================
