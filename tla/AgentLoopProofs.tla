-------------------------- MODULE AgentLoopProofs --------------------------
(***************************************************************************)
(* Theorems about AgentLoop, for every value of its constants: the type    *)
(* invariant, the G4 latch, the iteration budget, the single terminal      *)
(* event of a query, what holds of the history (the order of the answers,  *)
(* the answers a prompt owes, the distance of the nudges, the place of the *)
(* tool turns compaction orphans) and the way of a steering message.       *)
(***************************************************************************)
EXTENDS AgentLoop, SequenceTheorems, TLAPS

-----------------------------------------------------------------------------
(* Lemmas on the operators the actions are built from.                     *)

(* The turns the loop appends are turns.                                   *)
LEMMA TurnTypes ==
  /\ \A kind \in UserKinds, n \in Nat : UserTurn(kind, n) \in Turn
  /\ TextTurn \in Turn /\ SummaryTurn \in Turn
  /\ \A kind \in ToolKinds, id \in CallId : ToolTurn(kind, id) \in Turn
  /\ \A cs \in Seq(Call) : CallsTurn(cs) \in Turn
<1>1. \A cs \in Seq(Call) : CallsTurn(cs) \in Turn
  <2>1. SUFFICES ASSUME NEW cs \in Seq(Call) PROVE CallsTurn(cs) \in Turn
    OBVIOUS
  <2>2. \A k \in DOMAIN cs : cs[k].id \in CallId
    <3>1. \A k \in DOMAIN cs : cs[k] \in Call
      BY <2>1
    <3>2. \A c \in Call : c.id \in CallId
      BY DEF Call
    <3>3. QED
      BY <3>1, <3>2
  <2>3. {cs[k].id : k \in DOMAIN cs} \in SUBSET CallId
    BY <2>2
  <2>4. QED
    BY <2>3 DEF CallsTurn, Turn, AssistantKinds
<1>2. QED
  BY <1>1 DEF UserTurn, TextTurn, SummaryTurn, ToolTurn, Turn,
              UserKinds, AssistantKinds, ToolKinds

(* A reply of the model gives every one of its calls an id and a tool.     *)
LEMMA CallsOfType ==
  ASSUME queries \in Nat, iterations \in Nat, NEW reply \in Replies
  PROVE  CallsOf(reply) \in Seq(Call)
<1>1. reply \in Seq(Tools)
  BY ModelAssumption
<1>2. DOMAIN reply = 1..Len(reply) /\ Len(reply) \in Nat
  BY <1>1
<1>3. \A k \in 1..Len(reply) :
        [id |-> <<queries, iterations, k>>, tool |-> reply[k]] \in Call
  BY <1>1, <1>2 DEF Call, CallId
<1>4. CallsOf(reply) \in [1..Len(reply) -> Call]
  BY <1>2, <1>3 DEF CallsOf
<1>5. QED
  BY <1>2, <1>4

(* Compaction makes a history of a history.                                *)
LEMMA CompactedType ==
  ASSUME NEW h \in Seq(Turn), NEW tier \in Tiers
  PROVE  Compacted(h, tier) \in Seq(Turn)
<1> DEFINE n == IF tier = 3 THEN 1 ELSE KeepRecent
<1>1. n \in Nat \ {0}
  BY SettingsAssumption
<1>2. CASE Len(h) <= n
  BY <1>2 DEF Compacted, KeepLast
<1>3. CASE ~(Len(h) <= n)
  <2>1. Len(h) - n + 1 \in 1..Len(h) /\ Len(h) \in Nat
    BY <1>1, <1>3
  <2>2. SubSeq(h, Len(h) - n + 1, Len(h)) \in Seq(Turn)
    BY <2>1, SubSeqProperties
  <2>3. <<SummaryTurn>> \in Seq(Turn)
    BY TurnTypes
  <2>4. QED
    BY <1>3, <2>2, <2>3, ConcatProperties DEF Compacted, KeepLast
<1>4. QED
  BY <1>2, <1>3

(* Evicting the oldest note leaves a sequence of notes.                    *)
LEMMA LastNotesType ==
  ASSUME NEW s \in Seq(CallId) PROVE LastNotes(s) \in Seq(CallId)
  BY SettingsAssumption DEF LastNotes

(* The iteration nudge leaves a history.                                   *)
LEMMA WithIterationNudgeType ==
  ASSUME NEW h \in Seq(Turn) PROVE WithIterationNudge(h) \in Seq(Turn)
  BY TurnTypes DEF WithIterationNudge, UserKinds

-----------------------------------------------------------------------------
(* Type correctness.                                                       *)

USE DEF Pcs, state, locals, seen, End, HookFails, TerminalKinds

LEMMA TypeInit == Init => TypeOK
<1>1. /\ <<>> \in Seq(Turn) /\ <<>> \in Seq(Nat) /\ <<>> \in Seq(CallId)
      /\ <<>> \in Seq(Facts) /\ <<>> \in Seq(Call) /\ <<>> \in Seq(TerminalKinds)
  OBVIOUS
<1>2. ASSUME Init PROVE lost \subseteq Nat /\ pc \in Pcs /\ 0 \in Nat
  BY <1>2 DEF Init
<1>3. QED
  BY <1>1, <1>2 DEF Init, TypeOK

(* Every step of the loop, of the user or of the consumer keeps the types. *)
LEMMA TypeStep == TypeOK /\ [Next]_vars => TypeOK'
<1> SUFFICES ASSUME TypeOK, [Next]_vars PROVE TypeOK'
  OBVIOUS
<1> USE DEF TypeOK
<1>0. /\ \A kind \in UserKinds, n \in Nat : Append(history, UserTurn(kind, n)) \in Seq(Turn)
      /\ Append(history, TextTurn) \in Seq(Turn)
      /\ \A kind \in ToolKinds, id \in CallId :
           Append(history, ToolTurn(kind, id)) \in Seq(Turn)
      /\ \A event \in TerminalKinds : Append(terminals, event) \in Seq(TerminalKinds)
  BY TurnTypes
<1>1. CASE StartQuery
  BY <1>0, <1>1 DEF StartQuery, StartWith, UserKinds
<1>2. CASE Steer
  BY <1>2 DEF Steer, Suspended
<1>3. CASE BeginIteration
  <2>1. CASE steering = <<>>
    BY <1>3, <2>1 DEF BeginIteration, BeginLeaving, PickAdapter
  <2>2. CASE steering # <<>>
    <3>1. Head(steering) \in Nat /\ Tail(steering) \in Seq(Nat)
      BY <2>2
    <3>2. DeliverFirst(steering) /\ steering' = <<>> /\ PickAdapter
      BY <1>3, <2>2 DEF BeginIteration, BeginLeaving
    <3>3. /\ history' \in Seq(Turn) /\ delivered' \in Seq(Nat)
          /\ draining' \in Seq(Nat) /\ pc' = "steering"
      BY <1>0, <3>1, <3>2 DEF DeliverFirst, UserKinds
    <3>4. serving' \in {"base", "oracle"} /\ armed' \in BOOLEAN
      BY <3>2 DEF PickAdapter
    <3>5. QED
      BY <1>3, <3>2, <3>3, <3>4 DEF BeginIteration, BeginLeaving
  <2>3. QED
    BY <2>1, <2>2
<1>4. CASE DrainSteering
  BY <1>0, <1>4, SMTT(30) DEF DrainSteering, DeliverFirst, UserKinds
<1>5. ASSUME NEW tier \in Tiers, Compact(tier) PROVE TypeOK'
  BY <1>5, CompactedType DEF Compact, Drained
<1>6. CASE CallModel
  BY <1>6, WithIterationNudgeType DEF CallModel, Drained
<1>7. CASE AdapterFails
  BY <1>7 DEF AdapterFails
<1>8. CASE Answer
  <2>1. history' \in Seq(Turn) /\ terminals' \in Seq(TerminalKinds) /\ pc' = "ended"
    BY <1>0, <1>8 DEF Answer
  <2>2. QED
    BY <1>8, <2>1 DEF Answer
<1>9. ASSUME NEW reply \in Replies, AskTools(reply) PROVE TypeOK'
  <2>1. CallsOf(reply) \in Seq(Call) /\ CallsTurn(CallsOf(reply)) \in Turn
    BY CallsOfType, TurnTypes
  <2>2. QED
    BY <1>9, <2>1 DEF AskTools
<1>10. CASE CollectReal
  BY <1>10 DEF CollectReal, NextIsReal
<1>11. CASE RunBatch
  <2>1. terminals' \in Seq(TerminalKinds) /\ pc' \in {"executing", "ended"} /\ batch # <<>>
    BY <1>0, <1>11 DEF RunBatch, MustFlush
  <2>2. QED
    BY <1>11, <2>1 DEF RunBatch
<1>12. ASSUME NEW outcome \in {"ok", "error"}, RecordResult(outcome) PROVE TypeOK'
  <2>0. pc = "executing" /\ batch # <<>> /\ CountOutcome(outcome)
    BY <1>12 DEF RecordResult
  <2>1. Head(batch) \in Call /\ Tail(batch) \in Seq(Call)
    BY <2>0, HeadTailProperties
  <2>2. Head(batch).id \in CallId
    BY <2>1 DEF Call
  <2>3. Append(history, ToolTurn(outcome, Head(batch).id)) \in Seq(Turn)
    BY <1>0, <1>12, <2>2 DEF ToolKinds
  <2>5. errors' \in Nat /\ nudged' \in BOOLEAN
    <3>1. CASE outcome = "error"
      BY <2>0, <3>1 DEF CountOutcome
    <3>2. CASE outcome # "error"
      <4>1. errors' = 0 /\ nudged' = FALSE
        BY <2>0, <3>2 DEF CountOutcome
      <4>2. QED
        BY <4>1
    <3>3. QED
      BY <3>1, <3>2
  <2>6. CASE /\ history' = Append(history, ToolTurn(outcome, Head(batch).id))
             /\ batch' = Tail(batch)
             /\ pc' = IF Tail(batch) = <<>> THEN "dispatch" ELSE "executing"
             /\ UNCHANGED terminals
    BY <1>12, <2>1, <2>3, <2>5, <2>6 DEF RecordResult
  <2>7. CASE End("hook_error") /\ UNCHANGED <<history, batch>>
    BY <1>0, <1>12, <2>5, <2>7 DEF RecordResult
  <2>8. QED
    BY <1>12, <2>6, <2>7 DEF RecordResult
<1>13. CASE EnterPseudo
  BY <1>13 DEF EnterPseudo, EnterAhead, NextIsPseudo
<1> DEFINE acked == Append(history, ToolTurn("ack", Head(calls).id))
<1>14. calls # <<>> => /\ acked \in Seq(Turn) /\ Tail(calls) \in Seq(Call)
                       /\ Head(calls).id \in CallId
  <2>1. calls # <<>> => Head(calls) \in Call
    OBVIOUS
  <2>2. calls # <<>> => Head(calls).id \in CallId
    BY <2>1 DEF Call
  <2>3. QED
    BY <1>0, <2>2 DEF ToolKinds
<1>15. CASE SaveNote
  <2>1. calls # <<>>
    BY <1>15 DEF SaveNote, At
  <2>2. Append(notes, Head(calls).id) \in Seq(CallId)
    BY <1>14, <2>1
  <2>3. QED
    BY <1>14, <1>15, <2>1, <2>2, LastNotesType DEF SaveNote, At, Acknowledge, NextCall
<1>16. ASSUME NEW fact \in Facts, RegisterCitation(fact) PROVE TypeOK'
  BY <1>16 DEF RegisterCitation, WithCitation, At
<1>17. CASE EscalateToOracle
  BY <1>17, SettingsAssumption DEF EscalateToOracle, At
<1>18. CASE FinishPseudo
  BY <1>14, <1>18 DEF FinishPseudo, Acknowledge, NextCall
<1>19. CASE RequestClarification
  BY <1>19 DEF RequestClarification, At
<1>20. CASE CloseClarification
  BY <1>14, <1>20 DEF CloseClarification, Acknowledge
<1>21. CASE Stop
  <2>1. calls # <<>>
    BY <1>21 DEF Stop, At
  <2>2. Append(acked, TextTurn) \in Seq(Turn)
    BY <1>14, <2>1, TurnTypes
  <2>3. history' \in Seq(Turn) /\ terminals' \in Seq(TerminalKinds) /\ pc' = "ended"
    BY <1>0, <1>14, <1>21, <2>1, <2>2 DEF Stop
  <2>4. QED
    BY <1>21, <2>3 DEF Stop
<1>22. CASE AbortOnErrors \/ NoAdapter
  <2>1. /\ terminals' \in Seq(TerminalKinds) /\ pc' = "ended"
        /\ UNCHANGED <<state, serving, draining, calls, batch, queries, sent, delivered, lost>>
    BY <1>0, <1>22 DEF AbortOnErrors, AbortAtThreshold, NoAdapter
  <2>2. QED
    BY <2>1
<1>23. CASE EndIteration
  <2>1. EndWith(nudged \/ StreakReached, iterations + 1)
    BY <1>23 DEF EndIteration
  <2>2. nudged' \in BOOLEAN
    BY <2>1, Zenon DEF EndWith
  <2>3. history' \in Seq(Turn)
    BY <1>0, <2>1 DEF EndWith, UserKinds
  <2>4. terminals' \in Seq(TerminalKinds) /\ pc' \in {"ended", "top"}
    BY <1>0, <2>1 DEF EndWith
  <2>5. iterations' \in Nat
    BY <2>1 DEF EndWith
  <2>6. QED
    BY <2>1, <2>2, <2>3, <2>4, <2>5 DEF EndWith
<1>24. CASE Return
  BY <1>24 DEF Return, DropLocals
<1>25. CASE Cancel
  <2>1. {draining[k] : k \in DOMAIN draining} \subseteq Nat
    OBVIOUS
  <2>2. lost' \subseteq Nat
    BY <1>25, <2>1 DEF Cancel
  <2>3. QED
    BY <1>25, <2>2 DEF Cancel, DropLocals
<1>26. CASE Quiet
  BY <1>26 DEF Quiet, vars
<1>27. CASE UNCHANGED vars
  BY <1>27 DEF vars
<1>28. QED
  BY <1>1, <1>2, <1>3, <1>4, <1>5, <1>6, <1>7, <1>8, <1>9, <1>10, <1>11, <1>12, <1>13,
     <1>15, <1>16, <1>17, <1>18, <1>19, <1>20, <1>21, <1>22, <1>23, <1>24, <1>25, <1>26,
     <1>27 DEF Next, LoopStep

(* Every reachable state of the agent loop is well typed.                  *)
THEOREM TypeCorrect == Spec => []TypeOK
  BY TypeInit, TypeStep, PTL DEF Spec

-----------------------------------------------------------------------------
(* The G4 latch.  Only EndIteration sets it, where the streak has reached  *)
(* the threshold; every other step that lowers the counter clears it too.  *)

LEMMA LatchStep == TypeOK /\ StreakJustifiesLatch /\ [Next]_vars => StreakJustifiesLatch'
<1> SUFFICES ASSUME TypeOK, StreakJustifiesLatch, [Next]_vars PROVE StreakJustifiesLatch'
  OBVIOUS
<1> USE SettingsAssumption DEF StreakJustifiesLatch, StreakReached
<1>1. errors \in Nat
  BY DEF TypeOK
<1>2. CASE UNCHANGED <<errors, nudged>>
  BY <1>2
<1>3. CASE AdapterFails
  BY <1>1, <1>3 DEF AdapterFails
<1>4. ASSUME NEW outcome \in {"ok", "error"}, RecordResult(outcome)
      PROVE StreakJustifiesLatch'
  <2>1. CountOutcome(outcome)
    BY <1>4 DEF RecordResult
  <2>2. CASE outcome = "error"
    <3>1. errors' = errors + 1 /\ nudged' = nudged
      BY <2>1, <2>2 DEF CountOutcome
    <3>2. QED
      BY <1>1, <3>1
  <2>3. CASE outcome = "ok"
    BY <2>1, <2>3 DEF CountOutcome
  <2>4. QED
    BY <1>4, <2>2, <2>3
<1>5. CASE EndIteration
  <2>1. errors' = errors /\ (nudged' = (nudged \/ StreakReached))
    BY <1>5, Zenon DEF EndIteration, EndWith
  <2>2. QED
    BY <2>1
<1>6. StartQuery \/ Steer \/ BeginIteration \/ DrainSteering
        \/ (\E tier \in Tiers : Compact(tier)) \/ CallModel \/ Answer
      => UNCHANGED <<errors, nudged>>
  BY DEF StartQuery, StartWith, Steer, BeginIteration, BeginLeaving, DrainSteering,
         Compact, CallModel, Answer
<1>7. (\E reply \in Replies : AskTools(reply)) \/ CollectReal \/ RunBatch \/ EnterPseudo
        \/ SaveNote \/ (\E fact \in Facts : RegisterCitation(fact)) \/ EscalateToOracle
        \/ FinishPseudo
      => UNCHANGED <<errors, nudged>>
  BY DEF AskTools, CollectReal, RunBatch, EnterPseudo, EnterAhead, SaveNote,
         RegisterCitation, EscalateToOracle, FinishPseudo
<1>8. NoAdapter \/ RequestClarification \/ CloseClarification \/ Stop \/ AbortOnErrors \/ Return
        \/ Cancel \/ Quiet \/ UNCHANGED vars
      => UNCHANGED <<errors, nudged>>
  BY DEF NoAdapter, RequestClarification, CloseClarification, Stop, AbortOnErrors,
         AbortAtThreshold, Return, Cancel, Quiet, vars
<1>9. QED
  BY <1>2, <1>3, <1>4, <1>5, <1>6, <1>7, <1>8 DEF Next, LoopStep

(* While the nudge latch is set the error streak is at the threshold, so   *)
(* an abort of G4 always reports a streak and never a counter that was     *)
(* reset behind the latch.                                                 *)
THEOREM LatchCorrect == Spec => []StreakJustifiesLatch
<1>1. Init => StreakJustifiesLatch
  BY DEF Init, StreakJustifiesLatch
<1>2. QED
  BY <1>1, LatchStep, TypeCorrect, PTL DEF Spec

-----------------------------------------------------------------------------
(* The iteration budget.  The invariant that carries it speaks of every    *)
(* place of a running query, because EndIteration decides between another  *)
(* iteration and the end.                                                  *)

BudgetInv == pc \notin {"idle", "ended"} => iterations < MaxIterations

LEMMA BudgetStep == TypeOK /\ BudgetInv /\ [Next]_vars => BudgetInv'
<1> SUFFICES ASSUME TypeOK, BudgetInv, [Next]_vars PROVE BudgetInv'
  OBVIOUS
<1> USE SettingsAssumption DEF BudgetInv
<1>1. iterations \in Nat
  BY DEF TypeOK
<1>2. CASE pc \notin {"idle", "ended"} /\ UNCHANGED iterations
  BY <1>2
<1>3. CASE StartQuery
  BY <1>3 DEF StartQuery, StartWith
<1>4. CASE EndIteration
  <2>1. EndWith(nudged \/ StreakReached, iterations + 1)
    BY <1>4 DEF EndIteration
  <2>2. iterations' = iterations + 1
    BY <2>1 DEF EndWith
  <2>3. iterations + 1 >= MaxIterations => pc' = "ended"
    BY <2>1 DEF EndWith
  <2>4. QED
    BY <1>1, <2>2, <2>3
<1>5. CASE UNCHANGED <<pc, iterations>>
  BY <1>5
<1>6. Steer \/ Quiet \/ UNCHANGED vars => UNCHANGED <<pc, iterations>>
  BY DEF Steer, Quiet, vars
<1>7. Return \/ Cancel => pc' = "idle"
  BY DEF Return, Cancel, DropLocals
<1>8. BeginIteration \/ DrainSteering \/ (\E tier \in Tiers : Compact(tier)) \/ CallModel
        \/ AdapterFails \/ Answer
      => pc \notin {"idle", "ended"} /\ UNCHANGED iterations
  BY DEF BeginIteration, BeginLeaving, DrainSteering, Compact, Drained, CallModel,
         AdapterFails, Answer
<1>9. (\E reply \in Replies : AskTools(reply)) \/ CollectReal \/ RunBatch
        \/ (\E outcome \in {"ok", "error"} : RecordResult(outcome)) \/ EnterPseudo
      => pc \notin {"idle", "ended"} /\ UNCHANGED iterations
  BY DEF AskTools, CollectReal, RunBatch, RecordResult, EnterPseudo, EnterAhead
<1>10. SaveNote \/ (\E fact \in Facts : RegisterCitation(fact)) \/ EscalateToOracle
        \/ FinishPseudo \/ RequestClarification \/ CloseClarification \/ Stop
      => pc \notin {"idle", "ended"} /\ UNCHANGED iterations
  BY DEF SaveNote, At, RegisterCitation, EscalateToOracle, FinishPseudo,
         RequestClarification, CloseClarification, Stop
<1>11. AbortOnErrors \/ NoAdapter => pc' = "ended"
  BY DEF AbortOnErrors, AbortAtThreshold, NoAdapter
<1>12. QED
  BY <1>2, <1>3, <1>4, <1>5, <1>6, <1>7, <1>8, <1>9, <1>10, <1>11 DEF Next, LoopStep

(* No query calls the model more than max_iterations times.                *)
THEOREM BudgetCorrect == Spec => []IterationBudget
<1>1. Init => BudgetInv
  BY DEF Init, BudgetInv
<1>2. BudgetInv => IterationBudget
  BY DEF BudgetInv, IterationBudget
<1>3. QED
  BY <1>1, <1>2, BudgetStep, TypeCorrect, PTL DEF Spec

-----------------------------------------------------------------------------
(* The terminal event.                                                     *)

LEMMA TerminalStep ==
  TypeOK /\ ExactlyOneTerminal /\ [Next]_vars => ExactlyOneTerminal'
<1> SUFFICES ASSUME TypeOK, ExactlyOneTerminal, [Next]_vars PROVE ExactlyOneTerminal'
  OBVIOUS
<1> USE DEF ExactlyOneTerminal
<1>1. \A event : Len(Append(<<>>, event)) = 1
  OBVIOUS
<1> DEFINE running == pc \notin {"clarified", "ended", "idle"}
<1>2. ASSUME NEW event, running, End(event) PROVE ExactlyOneTerminal'
  BY <1>1, <1>2
<1>3. ASSUME running, UNCHANGED terminals, pc' \notin {"clarified", "ended"}
      PROVE  ExactlyOneTerminal'
  BY <1>3
<1>4. CASE pc' = "idle"
  BY <1>4
<1>5. CASE UNCHANGED <<pc, terminals>>
  BY <1>5
<1>6. StartQuery => terminals' = <<>> /\ pc' = "top"
  BY DEF StartQuery, StartWith
<1>7. Steer \/ Quiet \/ UNCHANGED vars => UNCHANGED <<pc, terminals>>
  BY DEF Steer, Quiet, vars
<1>8. Return \/ Cancel => pc' = "idle"
  BY DEF Return, Cancel, DropLocals
<1>9. BeginIteration \/ DrainSteering \/ (\E tier \in Tiers : Compact(tier)) \/ CallModel
      => running /\ UNCHANGED terminals /\ pc' \notin {"clarified", "ended"}
  BY DEF BeginIteration, BeginLeaving, DrainSteering, DeliverFirst, Compact, Drained, CallModel
<1>10. (\E reply \in Replies : AskTools(reply)) \/ CollectReal \/ EnterPseudo \/ SaveNote
        \/ (\E fact \in Facts : RegisterCitation(fact)) \/ EscalateToOracle \/ FinishPseudo
      => running /\ UNCHANGED terminals /\ pc' \notin {"clarified", "ended"}
  BY DEF AskTools, CollectReal, EnterPseudo, EnterAhead, SaveNote, At, NextCall,
         RegisterCitation, EscalateToOracle, FinishPseudo
<1>11. NoAdapter \/ AdapterFails \/ Answer \/ Stop \/ AbortOnErrors
      => running /\ \E event : End(event)
  BY DEF NoAdapter, AdapterFails, Answer, Stop, At, AbortOnErrors, AbortAtThreshold, TurnDone
<1>12. CASE RunBatch
  <2>1. running /\ (End("hook_error") \/ (pc' = "executing" /\ UNCHANGED terminals))
    BY <1>12 DEF RunBatch
  <2>2. QED
    BY <1>2, <1>3, <2>1
<1>13. ASSUME NEW outcome \in {"ok", "error"}, RecordResult(outcome)
       PROVE  ExactlyOneTerminal'
  <2>1. \/ running /\ End("hook_error")
        \/ running /\ pc' \in {"dispatch", "executing"} /\ UNCHANGED terminals
    BY <1>13 DEF RecordResult
  <2>2. QED
    BY <1>2, <1>3, <2>1
<1>14. CASE RequestClarification
  BY <1>1, <1>14 DEF RequestClarification, At
<1>15. CASE CloseClarification
  BY <1>15 DEF CloseClarification
<1>16. CASE EndIteration
  <2>1. EndWith(nudged \/ StreakReached, iterations + 1)
    BY <1>16 DEF EndIteration
  <2>2. running /\ (End("max_iterations") \/ (pc' = "top" /\ UNCHANGED terminals))
    BY <2>1 DEF EndWith, TurnDone
  <2>3. QED
    BY <1>2, <1>3, <2>2
<1>17. QED
  BY <1>2, <1>3, <1>4, <1>5, <1>6, <1>7, <1>8, <1>9, <1>10, <1>11, <1>12, <1>13, <1>14,
     <1>15, <1>16 DEF Next, LoopStep

(* A run that returns has emitted exactly one terminal event, and none     *)
(* before its end: the contract in run_loop's docstring.                   *)
THEOREM TerminalCorrect == Spec => []ExactlyOneTerminal
<1>1. Init => ExactlyOneTerminal
  BY DEF Init, ExactlyOneTerminal
<1>2. QED
  BY <1>1, TerminalStep, TypeCorrect, PTL DEF Spec

-----------------------------------------------------------------------------
(* The history.  Four properties of the history rest on one invariant.     *)
(* Beside the history h it speaks of the calls the loop still has to       *)
(* answer (todo, empty outside a dispatch), of an id that no call issued   *)
(* so far reaches (front) and of the G4 latch.                             *)

Asking == {"top", "steering", "compact", "compacted", "calling"}
Dispatching == {"dispatch", "executing", "pseudo", "half_done", "clarified"}

Todo == IF pc \in Dispatching THEN batch \o calls ELSE <<>>
Front == <<queries, IF pc \in Asking THEN iterations ELSE iterations + 1, 0>>

AnsweredIn(h, c) == \E j \in DOMAIN h : c \in h[j].answers
IsTodo(todo, c) == \E t \in DOMAIN todo : todo[t].id = c
Lost(h, todo, c) == ~AnsweredIn(h, c) /\ ~IsTodo(todo, c)

InCallOrder(h) ==
  \A i, j \in DOMAIN h :
    /\ i < j /\ IsTool(h[i]) /\ IsTool(h[j]) =>
         \A a \in h[i].answers, b \in h[j].answers : CallIdBefore(a, b)
    /\ h[j].answers \cap h[i].calls # {} => i < j

(* What has been issued lies below the front, what has been answered lies  *)
(* below what is still to do.                                              *)
IssuedBefore(h, front) ==
  \A k \in DOMAIN h : \A c \in h[k].calls \cup h[k].answers : CallIdBefore(c, front)

TodoAhead(h, todo) ==
  /\ \A s, t \in DOMAIN todo : s < t => CallIdBefore(todo[s].id, todo[t].id)
  /\ \A k \in DOMAIN h : \A a \in h[k].answers, t \in DOMAIN todo : CallIdBefore(a, todo[t].id)

(* The turn that asked for what is still to do has only tool turns behind  *)
(* it; so has every call turn and every summary up to a tool turn of its.  *)
AskedLast(h, todo) ==
  todo # <<>> =>
    \E k \in DOMAIN h : /\ \A t \in DOMAIN todo : todo[t].id \in h[k].calls
                         /\ \A m \in (k + 1)..Len(h) : IsTool(h[m])

BehindCall(h, j) ==
  \E i \in 1..j : h[j].answers \subseteq h[i].calls /\ \A m \in (i + 1)..j : IsTool(h[m])
BehindSummary(h, j) == h[1].kind = "summary" /\ \A m \in 2..j : IsTool(h[m])
ToolsInPlace(h) == \A j \in DOMAIN h : IsTool(h[j]) => BehindCall(h, j) \/ BehindSummary(h, j)

(* Between two nudges, and behind the last one once the latch is off, a    *)
(* tool has succeeded or a call is lost: neither answered nor to do.       *)
Relieved(h, todo, i, j) ==
  \E k \in i..j : h[k].kind = "ok" \/ \E c \in h[k].calls : Lost(h, todo, c)
IsNudge(h, i) == h[i].kind = "error_nudge"
NudgesApart(h, todo, latch) ==
  \A i \in DOMAIN h : IsNudge(h, i) =>
    /\ latch \/ Relieved(h, todo, i, Len(h))
    /\ \A j \in DOMAIN h : i < j /\ IsNudge(h, j) => Relieved(h, todo, i, j)

Sound(h, todo, front, latch) ==
  /\ InCallOrder(h) /\ IssuedBefore(h, front) /\ TodoAhead(h, todo) /\ AskedLast(h, todo)
  /\ ToolsInPlace(h) /\ NudgesApart(h, todo, latch)

(* Every call of query q is answered or still to do.                       *)
Owed(h, todo, q) ==
  \A i \in DOMAIN h : \A c \in h[i].calls : c[1] = q => AnsweredIn(h, c) \/ IsTodo(todo, c)

LocalsClear ==
  /\ pc \in Asking \cup {"idle"} => calls = <<>> /\ batch = <<>>
  /\ pc \in {"pseudo", "half_done", "clarified"} => batch = <<>>

(* Calls are ordered by query, iteration and position.                     *)
LEMMA BeforeOrder ==
  /\ \A a \in CallId : ~CallIdBefore(a, a)
  /\ \A a, b, c \in CallId : CallIdBefore(a, b) /\ CallIdBefore(b, c) => CallIdBefore(a, c)
  BY DEF CallId, CallIdBefore

(* What a turn of a history holds.                                         *)
LEMMA TurnAt ==
  ASSUME NEW h \in Seq(Turn)
  PROVE  /\ Len(h) \in Nat /\ DOMAIN h = 1..Len(h)
         /\ \A k \in DOMAIN h : h[k].calls \subseteq CallId /\ h[k].answers \subseteq CallId
<1>1. \A t \in Turn : t.calls \subseteq CallId /\ t.answers \subseteq CallId
  BY DEF Turn
<1>2. QED
  BY <1>1

(* What appending a turn leaves in place.                                  *)
LEMMA AppendTurn ==
  ASSUME NEW h \in Seq(Turn), NEW t \in Turn
  PROVE  LET g == Append(h, t)
         IN  /\ g \in Seq(Turn) /\ Len(h) \in Nat /\ Len(g) = Len(h) + 1
             /\ DOMAIN h = 1..Len(h) /\ DOMAIN g = 1..(Len(h) + 1)
             /\ \A k \in 1..Len(h) : g[k] = h[k]
             /\ g[Len(h) + 1] = t
  OBVIOUS

(* The calls to do are named by ids.                                       *)
LEMMA TodoAt ==
  ASSUME NEW todo \in Seq(Call)
  PROVE  /\ Len(todo) \in Nat /\ DOMAIN todo = 1..Len(todo)
         /\ \A t \in DOMAIN todo : todo[t].id \in CallId
         /\ todo # <<>> =>
              /\ 1 \in DOMAIN todo /\ Head(todo) = todo[1] /\ Tail(todo) \in Seq(Call)
              /\ DOMAIN Tail(todo) = 1..(Len(todo) - 1)
              /\ \A t \in DOMAIN Tail(todo) : t + 1 \in DOMAIN todo /\ Tail(todo)[t] = todo[t + 1]
<1>1. \A c \in Call : c.id \in CallId
  BY DEF Call
<1>2. QED
  BY <1>1

(* A tool turn of the past keeps its place when a turn is appended.        *)
LEMMA InPlaceKept ==
  ASSUME NEW h \in Seq(Turn), NEW t \in Turn, ToolsInPlace(h),
         IsTool(t) => BehindCall(Append(h, t), Len(h) + 1)
  PROVE  ToolsInPlace(Append(h, t))
<1> DEFINE g == Append(h, t)
<1> SUFFICES ASSUME NEW j \in DOMAIN g, IsTool(g[j])
             PROVE  BehindCall(g, j) \/ BehindSummary(g, j)
  BY DEF ToolsInPlace
<1> HIDE DEF g
<1>1. /\ Len(h) \in Nat /\ DOMAIN h = 1..Len(h) /\ DOMAIN g = 1..(Len(h) + 1)
      /\ \A k \in 1..Len(h) : g[k] = h[k]
      /\ g[Len(h) + 1] = t
  BY AppendTurn DEF g
<1>2. CASE j = Len(h) + 1
  BY <1>1, <1>2 DEF g
<1>3. CASE j \in 1..Len(h)
  <2>1. \A m \in 1..j : g[m] = h[m]
    BY <1>1, <1>3
  <2>2. BehindCall(h, j) \/ BehindSummary(h, j)
    BY <1>1, <1>3 DEF ToolsInPlace
  <2>3. BehindCall(h, j) => BehindCall(g, j)
    BY <1>3, <2>1 DEF BehindCall
  <2>4. BehindSummary(h, j) => BehindSummary(g, j)
    BY <1>1, <1>3, <2>1 DEF BehindSummary
  <2>5. QED
    BY <2>2, <2>3, <2>4
<1>4. QED
  BY <1>1, <1>2, <1>3

(* What separates two nudges still separates them when the history grows,  *)
(* as long as no lost call is found again.                                 *)
LEMMA RelievedKept ==
  ASSUME NEW h \in Seq(Turn), NEW t \in Turn, NEW todo, NEW todo2,
         \A k \in DOMAIN h : \A c \in h[k].calls :
           Lost(h, todo, c) => Lost(Append(h, t), todo2, c),
         NEW i \in Nat \ {0}, NEW j \in Nat, NEW m \in Nat, j <= Len(h), j <= m,
         Relieved(h, todo, i, j)
  PROVE  Relieved(Append(h, t), todo2, i, m)
<1>1. PICK k \in i..j : h[k].kind = "ok" \/ \E c \in h[k].calls : Lost(h, todo, c)
  BY DEF Relieved
<1>2. k \in DOMAIN h /\ Append(h, t)[k] = h[k] /\ k \in i..m
  BY <1>1, AppendTurn
<1>3. QED
  BY <1>1, <1>2 DEF Relieved

LEMMA NudgesKept ==
  ASSUME NEW h \in Seq(Turn), NEW t \in Turn, NEW todo, NEW todo2,
         NEW latch \in BOOLEAN, NEW latch2 \in BOOLEAN,
         NudgesApart(h, todo, latch), t.kind # "error_nudge",
         \A k \in DOMAIN h : \A c \in h[k].calls :
           Lost(h, todo, c) => Lost(Append(h, t), todo2, c),
         latch => latch2 \/ t.kind = "ok"
  PROVE  NudgesApart(Append(h, t), todo2, latch2)
<1> DEFINE g == Append(h, t)
<1>1. /\ Len(h) \in Nat /\ Len(g) = Len(h) + 1
      /\ DOMAIN h = 1..Len(h) /\ DOMAIN g = 1..(Len(h) + 1)
      /\ \A k \in 1..Len(h) : g[k] = h[k]
      /\ g[Len(h) + 1] = t
  BY AppendTurn
<1> HIDE DEF g
<1>2. SUFFICES ASSUME NEW i \in DOMAIN g, IsNudge(g, i)
               PROVE  /\ latch2 \/ Relieved(g, todo2, i, Len(g))
                      /\ \A j \in DOMAIN g : i < j /\ IsNudge(g, j) => Relieved(g, todo2, i, j)
  BY DEF NudgesApart, g
<1>3. i \in DOMAIN h /\ IsNudge(h, i)
  BY <1>1, <1>2 DEF IsNudge
<1>4. latch2 \/ Relieved(g, todo2, i, Len(g))
  <2>1. CASE latch
    <3>1. SUFFICES ASSUME t.kind = "ok" PROVE Relieved(g, todo2, i, Len(g))
      BY <2>1
    <3>2. Len(g) \in i..Len(g) /\ g[Len(g)].kind = "ok"
      BY <1>1, <1>2, <3>1
    <3>3. QED
      BY <3>2 DEF Relieved
  <2>2. CASE ~latch
    <3>1. Relieved(h, todo, i, Len(h))
      BY <1>3, <2>2 DEF NudgesApart
    <3>2. i \in Nat \ {0} /\ Len(h) <= Len(g) /\ Len(g) \in Nat
      BY <1>1, <1>3
    <3>3. Relieved(Append(h, t), todo2, i, Len(g))
      BY <1>1, <3>1, <3>2, RelievedKept
    <3>4. QED
      BY <3>3 DEF g
  <2>3. QED
    BY <2>1, <2>2
<1>5. ASSUME NEW j \in DOMAIN g, i < j, IsNudge(g, j) PROVE Relieved(g, todo2, i, j)
  <2>1. j \in DOMAIN h /\ IsNudge(h, j)
    BY <1>1, <1>5 DEF IsNudge
  <2>2. Relieved(h, todo, i, j)
    BY <1>3, <1>5, <2>1 DEF NudgesApart
  <2>3. i \in Nat \ {0} /\ j \in Nat /\ j <= Len(h)
    BY <1>1, <1>3, <2>1
  <2>4. Relieved(Append(h, t), todo2, i, j)
    BY <2>2, <2>3, RelievedKept
  <2>5. QED
    BY <2>4 DEF g
<1>6. QED
  BY <1>4, <1>5

(* A growing front stays ahead of what has been issued.                    *)
FrontAtMost(f, g) == f = g \/ CallIdBefore(f, g)

LEMMA FrontMoves ==
  ASSUME NEW h \in Seq(Turn), NEW front \in CallId, NEW front2 \in CallId,
         NEW todo, NEW latch, Sound(h, todo, front, latch), FrontAtMost(front, front2)
  PROVE  Sound(h, todo, front2, latch)
<1>1. ASSUME NEW k \in DOMAIN h, NEW c \in h[k].calls \cup h[k].answers
      PROVE  CallIdBefore(c, front2)
  <2>1. CallIdBefore(c, front)
    BY DEF Sound, IssuedBefore
  <2>2. c \in CallId
    BY TurnAt
  <2>3. QED
    BY <2>1, <2>2, BeforeOrder DEF FrontAtMost
<1>2. IssuedBefore(h, front2)
  BY <1>1 DEF IssuedBefore
<1>3. QED
  BY <1>2 DEF Sound

(* What the loop gives up doing is lost, and no property needs it.         *)
LEMMA ForgetTodo ==
  ASSUME NEW h \in Seq(Turn), NEW todo \in Seq(Call), NEW front, NEW latch,
         Sound(h, todo, front, latch)
  PROVE  Sound(h, <<>>, front, latch)
<1>1. \A c : Lost(h, todo, c) => Lost(h, <<>>, c)
  BY DEF Lost, IsTodo
<1>2. \A i, j : Relieved(h, todo, i, j) => Relieved(h, <<>>, i, j)
  BY <1>1 DEF Relieved
<1>3. NudgesApart(h, <<>>, latch)
  BY <1>2 DEF Sound, NudgesApart
<1>4. TodoAhead(h, <<>>) /\ AskedLast(h, <<>>)
  BY DEF TodoAhead, AskedLast
<1>5. QED
  BY <1>3, <1>4 DEF Sound

(* A user turn or a final text asks for nothing and answers nothing.       *)
Plain(turn) ==
  turn.calls = {} /\ turn.answers = {} /\ ~IsTool(turn) /\ turn.kind # "error_nudge"

LEMMA PlainQuiet ==
  ASSUME NEW h \in Seq(Turn), NEW t \in Turn, NEW front, NEW latch,
         Sound(h, <<>>, front, latch), t.calls = {}, t.answers = {}, ~IsTool(t)
  PROVE  LET g == Append(h, t)
         IN  /\ InCallOrder(g) /\ IssuedBefore(g, front) /\ TodoAhead(g, <<>>)
             /\ AskedLast(g, <<>>) /\ ToolsInPlace(g)
             /\ \A c : Lost(h, <<>>, c) => Lost(g, <<>>, c)
             /\ \A c : AnsweredIn(h, c) => AnsweredIn(g, c)
<1> DEFINE g == Append(h, t)
<1>1. /\ Len(h) \in Nat /\ DOMAIN h = 1..Len(h) /\ DOMAIN g = 1..(Len(h) + 1)
      /\ \A k \in 1..Len(h) : g[k] = h[k]
      /\ g[Len(h) + 1] = t
  BY AppendTurn
<1>2. ToolsInPlace(g)
  BY InPlaceKept DEF Sound
<1> HIDE DEF g
<1>3. \A k \in DOMAIN g : \/ k \in DOMAIN h /\ g[k] = h[k]
                          \/ k = Len(h) + 1 /\ g[k] = t
  BY <1>1
<1>4. InCallOrder(g)
  <2>1. SUFFICES ASSUME NEW i \in DOMAIN g, NEW j \in DOMAIN g
                 PROVE  /\ i < j /\ IsTool(g[i]) /\ IsTool(g[j]) =>
                             \A a \in g[i].answers, b \in g[j].answers : CallIdBefore(a, b)
                        /\ g[j].answers \cap g[i].calls # {} => i < j
    BY DEF InCallOrder
  <2>2. CASE i \in DOMAIN h /\ j \in DOMAIN h
    BY <1>1, <2>2 DEF Sound, InCallOrder
  <2>3. CASE i = Len(h) + 1 \/ j = Len(h) + 1
    BY <1>1, <2>3
  <2>4. QED
    BY <1>3, <2>2, <2>3
<1>5. IssuedBefore(g, front)
  BY <1>3 DEF Sound, IssuedBefore
<1>6. TodoAhead(g, <<>>) /\ AskedLast(g, <<>>)
  BY DEF TodoAhead, AskedLast
<1>7. \A c : AnsweredIn(g, c) <=> AnsweredIn(h, c)
  BY <1>1, <1>3 DEF AnsweredIn
<1>8. \A c : Lost(h, <<>>, c) => Lost(g, <<>>, c)
  BY <1>7 DEF Lost
<1>9. QED
  BY <1>2, <1>4, <1>5, <1>6, <1>7, <1>8 DEF g

LEMMA PlainTurn ==
  ASSUME NEW h \in Seq(Turn), NEW t \in Turn, NEW front, NEW latch \in BOOLEAN,
         Sound(h, <<>>, front, latch), Plain(t)
  PROVE  /\ Sound(Append(h, t), <<>>, front, latch)
         /\ \A q : Owed(h, <<>>, q) => Owed(Append(h, t), <<>>, q)
<1> DEFINE g == Append(h, t)
<1>1. /\ InCallOrder(g) /\ IssuedBefore(g, front) /\ TodoAhead(g, <<>>)
      /\ AskedLast(g, <<>>) /\ ToolsInPlace(g)
      /\ \A c : Lost(h, <<>>, c) => Lost(g, <<>>, c)
      /\ \A c : AnsweredIn(h, c) => AnsweredIn(g, c)
  BY PlainQuiet DEF Plain
<1>2. NudgesApart(g, <<>>, latch)
  BY <1>1, NudgesKept DEF Sound, Plain
<1>3. \A k \in DOMAIN g : (k \in DOMAIN h /\ g[k] = h[k]) \/ g[k] = t
  BY AppendTurn
<1>4. ASSUME NEW q, Owed(h, <<>>, q) PROVE Owed(g, <<>>, q)
  BY <1>1, <1>3, <1>4 DEF Owed, IsTodo, Plain
<1>5. QED
  BY <1>1, <1>2, <1>4 DEF Sound

(* G4 appends its nudge and sets the latch that was off.                   *)
LEMMA NudgeTurn ==
  ASSUME NEW h \in Seq(Turn), NEW n \in Nat, NEW front,
         Sound(h, <<>>, front, FALSE)
  PROVE  Sound(Append(h, UserTurn("error_nudge", n)), <<>>, front, TRUE)
<1> DEFINE t == UserTurn("error_nudge", n)
           g == Append(h, t)
<1>1. t \in Turn /\ t.calls = {} /\ t.answers = {} /\ ~IsTool(t)
  BY TurnTypes DEF UserKinds, UserTurn, IsTool, ToolKinds
<1> HIDE DEF t
<1>2. /\ InCallOrder(g) /\ IssuedBefore(g, front) /\ TodoAhead(g, <<>>)
      /\ AskedLast(g, <<>>) /\ ToolsInPlace(g)
      /\ \A c : Lost(h, <<>>, c) => Lost(g, <<>>, c)
  BY <1>1, PlainQuiet
<1>3. /\ Len(h) \in Nat /\ DOMAIN h = 1..Len(h) /\ DOMAIN g = 1..(Len(h) + 1)
      /\ \A k \in 1..Len(h) : g[k] = h[k]
  BY <1>1, AppendTurn
<1> HIDE DEF g
<1>4. ASSUME NEW i \in DOMAIN g, NEW j \in DOMAIN g, i < j, IsNudge(g, i), IsNudge(g, j)
      PROVE  Relieved(g, <<>>, i, j)
  <2>1. i \in DOMAIN h /\ IsNudge(h, i)
    BY <1>3, <1>4 DEF IsNudge
  <2>2. \E m \in DOMAIN h : i <= m /\ m <= j /\ Relieved(h, <<>>, i, m)
    <3>1. CASE j \in DOMAIN h
      BY <1>3, <1>4, <2>1, <3>1 DEF Sound, NudgesApart, IsNudge
    <3>2. CASE j \notin DOMAIN h
      <4>1. Relieved(h, <<>>, i, Len(h))
        BY <2>1 DEF Sound, NudgesApart
      <4>2. QED
        BY <1>3, <1>4, <2>1, <3>2, <4>1
    <3>3. QED
      BY <3>1, <3>2
  <2>3. PICK m \in DOMAIN h : i <= m /\ m <= j /\ Relieved(h, <<>>, i, m)
    BY <2>2
  <2>4. \A k \in DOMAIN h : \A c \in h[k].calls : Lost(h, <<>>, c) => Lost(Append(h, t), <<>>, c)
    BY <1>2 DEF g
  <2>5. i \in Nat \ {0} /\ j \in Nat /\ m \in Nat /\ m <= Len(h)
    BY <1>3, <1>4, <2>1, <2>3
  <2>6. QED
    BY <1>1, <2>3, <2>4, <2>5, RelievedKept DEF g
<1>5. NudgesApart(g, <<>>, TRUE)
  BY <1>4 DEF NudgesApart
<1>6. QED
  BY <1>2, <1>5 DEF Sound, g, t

(* The assistant turn of a reply issues its calls at the front, and they   *)
(* become what is to do.                                                   *)
LEMMA AskedTurn ==
  ASSUME NEW h \in Seq(Turn), NEW cs \in Seq(Call), NEW q \in Nat, NEW b \in Nat,
         NEW latch \in BOOLEAN, Sound(h, <<>>, <<q, b, 0>>, latch),
         \A k \in DOMAIN cs : cs[k].id = <<q, b, k>>
  PROVE  /\ Sound(Append(h, CallsTurn(cs)), cs, <<q, b + 1, 0>>, latch)
         /\ \A p : Owed(h, <<>>, p) => Owed(Append(h, CallsTurn(cs)), cs, p)
<1> DEFINE t == CallsTurn(cs)
           g == Append(h, t)
           front == <<q, b, 0>>
           front2 == <<q, b + 1, 0>>
<1>1. /\ t \in Turn /\ t.calls = {cs[k].id : k \in DOMAIN cs} /\ t.answers = {}
      /\ ~IsTool(t) /\ t.kind # "error_nudge" /\ t.kind # "ok"
  BY TurnTypes DEF CallsTurn, IsTool, ToolKinds
<1> HIDE DEF t
<1>2. /\ Len(h) \in Nat /\ DOMAIN h = 1..Len(h) /\ DOMAIN g = 1..(Len(h) + 1)
      /\ \A k \in 1..Len(h) : g[k] = h[k]
      /\ g[Len(h) + 1] = t /\ Len(g) = Len(h) + 1
  BY <1>1, AppendTurn
<1>3. ToolsInPlace(g)
  BY <1>1, InPlaceKept DEF Sound
<1>4. front \in CallId /\ front2 \in CallId
  BY DEF CallId
<1>5. \A k \in DOMAIN cs : CallIdBefore(front, cs[k].id) /\ CallIdBefore(cs[k].id, front2)
  BY DEF CallIdBefore
<1>6. \A s, u \in DOMAIN cs : s < u => CallIdBefore(cs[s].id, cs[u].id)
  BY DEF CallIdBefore
<1>7. CallIdBefore(front, front2)
  BY DEF CallIdBefore
<1>8. \A k \in DOMAIN cs : cs[k].id \in CallId
  BY TodoAt
<1>9. \A k \in DOMAIN h : \A c \in h[k].calls \cup h[k].answers :
        c \in CallId /\ CallIdBefore(c, front)
  BY TurnAt DEF Sound, IssuedBefore
<1> HIDE DEF g, front, front2
<1>10. \A k \in DOMAIN h : \A c \in h[k].calls \cup h[k].answers :
         /\ CallIdBefore(c, front2)
         /\ \A n \in DOMAIN cs : CallIdBefore(c, cs[n].id) /\ c # cs[n].id
  BY <1>4, <1>5, <1>7, <1>8, <1>9, BeforeOrder
<1>11. \A k \in DOMAIN g : \/ k \in DOMAIN h /\ g[k] = h[k]
                           \/ k = Len(h) + 1 /\ g[k] = t
  BY <1>2
<1>12. InCallOrder(g)
  <2>1. SUFFICES ASSUME NEW i \in DOMAIN g, NEW j \in DOMAIN g
                 PROVE  /\ i < j /\ IsTool(g[i]) /\ IsTool(g[j]) =>
                             \A a \in g[i].answers, c \in g[j].answers : CallIdBefore(a, c)
                        /\ g[j].answers \cap g[i].calls # {} => i < j
    BY DEF InCallOrder
  <2>2. CASE i \in DOMAIN h /\ j \in DOMAIN h
    BY <1>2, <2>2 DEF Sound, InCallOrder
  <2>3. CASE j = Len(h) + 1
    BY <1>1, <1>2, <2>3
  <2>4. CASE i = Len(h) + 1 /\ j \in DOMAIN h
    BY <1>1, <1>2, <1>10, <2>4
  <2>5. QED
    BY <1>11, <2>2, <2>3, <2>4
<1>13. IssuedBefore(g, front2)
  BY <1>1, <1>5, <1>10, <1>11, SMTT(30) DEF IssuedBefore
<1>14. TodoAhead(g, cs)
  BY <1>1, <1>6, <1>10, <1>11 DEF TodoAhead
<1>15. AskedLast(g, cs)
  <2>1. Len(h) + 1 \in DOMAIN g /\ \A k \in DOMAIN cs : cs[k].id \in g[Len(h) + 1].calls
    BY <1>1, <1>2
  <2>2. \A m \in (Len(h) + 1 + 1)..Len(g) : IsTool(g[m])
    BY <1>2
  <2>3. QED
    BY <2>1, <2>2 DEF AskedLast
<1>16. \A c : AnsweredIn(g, c) <=> AnsweredIn(h, c)
  BY <1>1, <1>2, <1>11 DEF AnsweredIn
<1>17. \A k \in DOMAIN h : \A c \in h[k].calls : Lost(h, <<>>, c) => Lost(Append(h, t), cs, c)
  BY <1>10, <1>16 DEF Lost, IsTodo, g
<1>18. NudgesApart(g, cs, latch)
  BY <1>1, <1>17, NudgesKept DEF Sound, g
<1>19. ASSUME NEW p, Owed(h, <<>>, p) PROVE Owed(g, cs, p)
  BY <1>1, <1>11, <1>16, <1>19 DEF Owed, IsTodo
<1>20. QED
  BY <1>3, <1>12, <1>13, <1>14, <1>15, <1>18, <1>19 DEF Sound, g, t, front, front2

(* The first call to do is answered: its tool turn goes behind the others. *)
LEMMA AnsweredTurn ==
  ASSUME NEW h \in Seq(Turn), NEW todo \in Seq(Call), todo # <<>>, NEW front \in CallId,
         NEW latch \in BOOLEAN, NEW latch2 \in BOOLEAN, NEW kind \in ToolKinds,
         Sound(h, todo, front, latch), latch => latch2 \/ kind = "ok"
  PROVE  LET g == Append(h, ToolTurn(kind, Head(todo).id))
         IN  /\ Sound(g, Tail(todo), front, latch2)
             /\ \A p : Owed(h, todo, p) => Owed(g, Tail(todo), p)
<1> DEFINE t == ToolTurn(kind, Head(todo).id)
           g == Append(h, t)
           id == Head(todo).id
           rest == Tail(todo)
<1>1. /\ Len(todo) \in Nat /\ DOMAIN todo = 1..Len(todo) /\ 1 \in DOMAIN todo
      /\ id = todo[1].id /\ id \in CallId /\ rest \in Seq(Call)
      /\ DOMAIN rest = 1..(Len(todo) - 1)
      /\ \A n \in DOMAIN rest : n + 1 \in DOMAIN todo /\ rest[n] = todo[n + 1]
  BY TodoAt
<1>2. /\ t \in Turn /\ t.calls = {} /\ t.answers = {id}
      /\ IsTool(t) /\ t.kind # "error_nudge" /\ t.kind = kind
  <2>1. t \in Turn
    BY <1>1, TurnTypes
  <2>2. QED
    BY <2>1 DEF ToolTurn, IsTool, ToolKinds
<1> HIDE DEF t, id, rest
<1>3. /\ Len(h) \in Nat /\ DOMAIN h = 1..Len(h) /\ DOMAIN g = 1..(Len(h) + 1)
      /\ \A k \in 1..Len(h) : g[k] = h[k]
      /\ g[Len(h) + 1] = t /\ Len(g) = Len(h) + 1
  BY <1>2, AppendTurn
<1> HIDE DEF g
<1>4. \A k \in DOMAIN g : \/ k \in DOMAIN h /\ g[k] = h[k]
                          \/ k = Len(h) + 1 /\ g[k] = t
  BY <1>3
<1>5. PICK asked \in DOMAIN h : /\ \A n \in DOMAIN todo : todo[n].id \in h[asked].calls
                                /\ \A m \in (asked + 1)..Len(h) : IsTool(h[m])
  BY DEF Sound, AskedLast
<1>6. \A m \in (asked + 1)..Len(g) : IsTool(g[m])
  BY <1>2, <1>3, <1>5
<1>7. /\ \A k \in DOMAIN h : \A a \in h[k].answers, n \in DOMAIN todo :
           CallIdBefore(a, todo[n].id)
      /\ \A m, n \in DOMAIN todo : m < n => CallIdBefore(todo[m].id, todo[n].id)
  BY DEF Sound, TodoAhead
<1>8. \A n \in DOMAIN todo : todo[n].id \in CallId
  BY TodoAt
<1>9. InCallOrder(g)
  <2>1. SUFFICES ASSUME NEW i \in DOMAIN g, NEW j \in DOMAIN g
                 PROVE  /\ i < j /\ IsTool(g[i]) /\ IsTool(g[j]) =>
                             \A a \in g[i].answers, c \in g[j].answers : CallIdBefore(a, c)
                        /\ g[j].answers \cap g[i].calls # {} => i < j
    BY DEF InCallOrder
  <2>2. CASE i \in DOMAIN h /\ j \in DOMAIN h
    BY <1>3, <2>2, <1>4 DEF Sound, InCallOrder
  <2>3. CASE j = Len(h) + 1 /\ i \in DOMAIN h
    BY <1>1, <1>2, <1>3, <1>7, <2>3
  <2>4. CASE i = Len(h) + 1
    BY <1>2, <1>3, <2>4
  <2>5. QED
    BY <1>4, <2>2, <2>3, <2>4
<1>10. IssuedBefore(g, front)
  <2>1. CallIdBefore(id, front)
    BY <1>1, <1>5 DEF Sound, IssuedBefore
  <2>2. QED
    BY <1>2, <1>4, <2>1 DEF Sound, IssuedBefore
<1>11. TodoAhead(g, rest)
  <2>1. \A m, n \in DOMAIN rest : m < n => CallIdBefore(rest[m].id, rest[n].id)
    BY <1>1, <1>7, SMTT(30)
  <2>2. \A n \in DOMAIN rest : CallIdBefore(id, rest[n].id)
    <3>1. \A n \in DOMAIN rest : 1 < n + 1
      BY <1>1
    <3>2. \A n \in DOMAIN rest : CallIdBefore(todo[1].id, todo[n + 1].id)
      BY <1>1, <1>7, <3>1
    <3>3. QED
      BY <1>1, <3>2
  <2>3. \A k \in DOMAIN g : \A a \in g[k].answers, n \in DOMAIN rest :
          CallIdBefore(a, rest[n].id)
    BY <1>1, <1>2, <1>4, <1>7, <2>2
  <2>4. QED
    BY <2>1, <2>3 DEF TodoAhead
<1>12. AskedLast(g, rest)
  <2>1. asked \in DOMAIN g /\ \A n \in DOMAIN rest : rest[n].id \in g[asked].calls
    BY <1>1, <1>3, <1>5
  <2>2. QED
    BY <1>6, <2>1 DEF AskedLast
<1>13. ToolsInPlace(g)
  <2>1. /\ asked \in 1..(Len(h) + 1) /\ g[Len(h) + 1].answers \subseteq g[asked].calls
        /\ \A m \in (asked + 1)..(Len(h) + 1) : IsTool(g[m])
    <3>1. asked \in 1..(Len(h) + 1) /\ g[asked] = h[asked]
      BY <1>3
    <3>2. g[Len(h) + 1].answers = {id} /\ id \in h[asked].calls
      BY <1>1, <1>2, <1>3, <1>5
    <3>3. QED
      BY <1>3, <1>6, <3>1, <3>2
  <2>2. BehindCall(g, Len(h) + 1)
    BY <2>1 DEF BehindCall
  <2>3. QED
    BY <1>2, <2>2, InPlaceKept DEF Sound, g
<1>14. \A c : AnsweredIn(g, c) <=> AnsweredIn(h, c) \/ c = id
  BY <1>2, <1>3, <1>4 DEF AnsweredIn
<1>15. \A c : IsTodo(todo, c) <=> IsTodo(rest, c) \/ c = id
  <2>1. \A n \in DOMAIN todo : n = 1 \/ (n - 1 \in DOMAIN rest /\ rest[n - 1] = todo[n])
    BY <1>1
  <2>2. QED
    BY <1>1, <2>1 DEF IsTodo
<1>16. \A k \in DOMAIN h : \A c \in h[k].calls :
         Lost(h, todo, c) => Lost(Append(h, t), rest, c)
  BY <1>14, <1>15 DEF Lost, g
<1>17. NudgesApart(g, rest, latch2)
  BY <1>2, <1>16, NudgesKept DEF Sound, g
<1>18. ASSUME NEW p, Owed(h, todo, p) PROVE Owed(g, rest, p)
  BY <1>2, <1>4, <1>14, <1>15, <1>18 DEF Owed
<1>19. QED
  BY <1>9, <1>10, <1>11, <1>12, <1>13, <1>17, <1>18 DEF Sound, g, t, id, rest

(* A call given up while it is at hand separates the nudges of both sides. *)
LEMMA LostCall ==
  ASSUME NEW h \in Seq(Turn), NEW todo \in Seq(Call), todo # <<>>, NEW front,
         NEW latch, Sound(h, todo, front, latch)
  PROVE  Sound(h, <<>>, front, FALSE)
<1>1. Sound(h, <<>>, front, latch)
  BY ForgetTodo
<1>2. 1 \in DOMAIN todo /\ todo[1].id \in CallId
  BY TodoAt
<1>3. PICK asked \in DOMAIN h : /\ \A n \in DOMAIN todo : todo[n].id \in h[asked].calls
                                /\ \A m \in (asked + 1)..Len(h) : IsTool(h[m])
  BY DEF Sound, AskedLast
<1>4. ~AnsweredIn(h, todo[1].id)
  BY <1>2, BeforeOrder DEF Sound, TodoAhead, AnsweredIn
<1>5. Lost(h, <<>>, todo[1].id)
  BY <1>4 DEF Lost, IsTodo
<1>6. ASSUME NEW i \in DOMAIN h, IsNudge(h, i) PROVE Relieved(h, <<>>, i, Len(h))
  <2>1. i \notin (asked + 1)..Len(h)
    BY <1>3, <1>6 DEF IsNudge, IsTool, ToolKinds
  <2>2. asked \in i..Len(h)
    BY <1>3, <2>1, TurnAt
  <2>3. QED
    BY <1>2, <1>3, <1>5, <2>2 DEF Relieved
<1>7. NudgesApart(h, <<>>, FALSE)
  BY <1>1, <1>6 DEF Sound, NudgesApart
<1>8. QED
  BY <1>1, <1>7 DEF Sound

(* Compaction leaves the history as it is or puts a summary, which asks    *)
(* and answers nothing, before its last turns.                             *)
Shortened(h, g, d) ==
  /\ Len(g) = Len(h) - d /\ g # <<>> /\ g[1] = SummaryTurn
  /\ \A k \in 2..Len(g) : g[k] = h[k + d]

LEMMA CompactedShape ==
  ASSUME NEW h \in Seq(Turn), NEW tier \in Tiers
  PROVE  Compacted(h, tier) = h \/ \E d \in Nat : Shortened(h, Compacted(h, tier), d)
<1> DEFINE n == IF tier = 3 THEN 1 ELSE KeepRecent
           kept == SubSeq(h, Len(h) - n + 1, Len(h))
           g == Compacted(h, tier)
<1>1. n \in Nat \ {0} /\ Len(h) \in Nat
  BY SettingsAssumption
<1>2. CASE Len(h) <= n
  BY <1>2 DEF Compacted, KeepLast
<1>3. CASE ~(Len(h) <= n)
  <2>1. g = <<SummaryTurn>> \o kept
    BY <1>3 DEF Compacted, KeepLast
  <2> HIDE DEF g, n
  <2>2. Len(h) - n + 1 \in 1..Len(h) /\ Len(h) - n - 1 \in Nat
    BY <1>1, <1>3
  <2>3. /\ kept \in Seq(Turn) /\ Len(kept) = n
        /\ \A k \in 1..n : kept[k] = h[Len(h) - n + k]
    <3>1. /\ kept \in Seq(Turn)
          /\ Len(kept) = Len(h) - (Len(h) - n + 1) + 1
          /\ \A k \in 1..(Len(h) - (Len(h) - n + 1) + 1) :
               kept[k] = h[(Len(h) - n + 1) + k - 1]
      BY <2>2, SubSeqProperties
    <3>2. Len(h) - (Len(h) - n + 1) + 1 = n
      BY <1>1
    <3>3. \A k \in 1..n : (Len(h) - n + 1) + k - 1 = Len(h) - n + k
      BY <1>1
    <3>4. QED
      BY <3>1, <3>2, <3>3
  <2> HIDE DEF kept
  <2>4. <<SummaryTurn>> \in Seq(Turn) /\ Len(<<SummaryTurn>>) = 1
    BY TurnTypes
  <2>5. /\ Len(g) = 1 + n /\ g[1] = SummaryTurn
        /\ \A k \in 2..(1 + n) : g[k] = kept[k - 1]
    BY <1>1, <2>1, <2>3, <2>4, ConcatProperties
  <2>6. \A k \in 2..Len(g) : g[k] = h[k + (Len(h) - n - 1)]
    <3>1. SUFFICES ASSUME NEW k \in 2..Len(g) PROVE g[k] = h[k + (Len(h) - n - 1)]
      OBVIOUS
    <3>2. k - 1 \in 1..n /\ Len(h) - n + (k - 1) = k + (Len(h) - n - 1)
      BY <1>1, <2>5
    <3>3. QED
      BY <2>3, <2>5, <3>2
  <2>7. Shortened(h, g, Len(h) - n - 1)
    <3>1. g # <<>>
      BY <1>1, <2>5
    <3>2. QED
      BY <1>1, <2>5, <2>6, <3>1 DEF Shortened
  <2>8. QED
    BY <2>2, <2>7 DEF g
<1>4. QED
  BY <1>2, <1>3

LEMMA ShortenedTurn ==
  ASSUME NEW h \in Seq(Turn), NEW g \in Seq(Turn), NEW d \in Nat, Shortened(h, g, d),
         NEW front, NEW latch \in BOOLEAN, Sound(h, <<>>, front, latch)
  PROVE  /\ Sound(g, <<>>, front, latch)
         /\ \A p : Owed(h, <<>>, p) => Owed(g, <<>>, p)
<1>1. /\ Len(h) \in Nat /\ DOMAIN h = 1..Len(h) /\ Len(g) \in Nat /\ DOMAIN g = 1..Len(g)
      /\ Len(g) = Len(h) - d
  BY TurnAt DEF Shortened
<1>2. \A k \in DOMAIN g : k # 1 => k + d \in DOMAIN h /\ g[k] = h[k + d] /\ k \in 2..Len(g)
  BY <1>1 DEF Shortened
<1>3. \A k \in DOMAIN h : k - d > 1 =>
        k - d \in DOMAIN g /\ g[k - d] = h[k] /\ (k - d) + d = k
  <2>1. SUFFICES ASSUME NEW k \in DOMAIN h, k - d > 1
                 PROVE  k - d \in DOMAIN g /\ g[k - d] = h[k] /\ (k - d) + d = k
    OBVIOUS
  <2>2. k - d \in DOMAIN g /\ k - d # 1 /\ (k - d) + d = k
    BY <1>1, <2>1
  <2>3. QED
    BY <1>2, <2>2
<1>4. /\ g[1].calls = {} /\ g[1].answers = {} /\ ~IsTool(g[1]) /\ ~IsNudge(g, 1)
      /\ g[1].kind = "summary"
  BY DEF Shortened, SummaryTurn, IsTool, ToolKinds, IsNudge
<1>5. InCallOrder(g)
  <2>1. SUFFICES ASSUME NEW i \in DOMAIN g, NEW j \in DOMAIN g
                 PROVE  /\ i < j /\ IsTool(g[i]) /\ IsTool(g[j]) =>
                             \A a \in g[i].answers, c \in g[j].answers : CallIdBefore(a, c)
                        /\ g[j].answers \cap g[i].calls # {} => i < j
    BY DEF InCallOrder
  <2>2. CASE i = 1 \/ j = 1
    BY <1>4, <2>2
  <2>3. CASE i # 1 /\ j # 1
    <3>1. /\ i + d \in DOMAIN h /\ j + d \in DOMAIN h /\ g[i] = h[i + d] /\ g[j] = h[j + d]
          /\ (i < j <=> i + d < j + d)
      BY <1>1, <1>2, <2>3
    <3>2. QED
      BY <3>1 DEF Sound, InCallOrder
  <2>4. QED
    BY <2>2, <2>3
<1>6. IssuedBefore(g, front)
  BY <1>2, <1>4 DEF Sound, IssuedBefore
<1>7. TodoAhead(g, <<>>) /\ AskedLast(g, <<>>)
  BY DEF TodoAhead, AskedLast
<1>8. ToolsInPlace(g)
  <2>1. SUFFICES ASSUME NEW j \in DOMAIN g, IsTool(g[j])
                 PROVE  BehindCall(g, j) \/ BehindSummary(g, j)
    BY DEF ToolsInPlace
  <2>2. j # 1 /\ j + d \in DOMAIN h /\ g[j] = h[j + d]
    BY <1>2, <1>4, <2>1
  <2>3. \A m \in 2..j : m \in DOMAIN g /\ g[m] = h[m + d]
    BY <1>1, <1>2, SMTT(30)
  <2>4. CASE BehindSummary(h, j + d)
    <3>1. \A m \in 2..j : m + d \in 2..(j + d)
      BY <1>1
    <3>2. \A m \in 2..j : IsTool(g[m])
      BY <2>3, <2>4, <3>1 DEF BehindSummary
    <3>3. QED
      BY <1>4, <3>2 DEF BehindSummary
  <2>5. CASE BehindCall(h, j + d)
    <3>1. PICK i \in 1..(j + d) : /\ h[j + d].answers \subseteq h[i].calls
                                  /\ \A m \in (i + 1)..(j + d) : IsTool(h[m])
      BY <2>5 DEF BehindCall
    <3>2. CASE i - d > 1
      <4>1. i \in DOMAIN h /\ i - d \in 1..j
        BY <1>1, <2>2, <3>2
      <4>2. g[j].answers \subseteq g[i - d].calls
        BY <1>3, <2>2, <3>1, <3>2, <4>1
      <4>3. \A m \in ((i - d) + 1)..j : m \in 2..j /\ m + d \in (i + 1)..(j + d)
        BY <1>1, <3>2
      <4>4. \A m \in ((i - d) + 1)..j : IsTool(g[m])
        BY <2>3, <3>1, <4>3
      <4>5. QED
        BY <4>1, <4>2, <4>4 DEF BehindCall
    <3>3. CASE ~(i - d > 1)
      <4>1. \A m \in 2..j : m + d \in (i + 1)..(j + d)
        BY <1>1, <3>3
      <4>2. \A m \in 2..j : IsTool(g[m])
        BY <2>3, <3>1, <4>1
      <4>3. QED
        BY <1>4, <4>2 DEF BehindSummary
    <3>4. QED
      BY <3>2, <3>3
  <2>6. QED
    BY <2>1, <2>2, <2>4, <2>5 DEF Sound, ToolsInPlace
<1>9. \A c : AnsweredIn(g, c) => AnsweredIn(h, c)
  BY <1>2, <1>4 DEF AnsweredIn
<1>10. ASSUME NEW i \in DOMAIN g, NEW j \in DOMAIN g, i # 1,
              Relieved(h, <<>>, i + d, j + d)
       PROVE  Relieved(g, <<>>, i, j)
  <2>1. PICK k \in (i + d)..(j + d) :
          h[k].kind = "ok" \/ \E c \in h[k].calls : Lost(h, <<>>, c)
    BY <1>10 DEF Relieved
  <2>2. k \in DOMAIN h /\ k - d > 1 /\ k - d \in i..j
    BY <1>1, <1>10
  <2>3. g[k - d] = h[k]
    BY <1>3, <2>2
  <2>4. \A c : Lost(h, <<>>, c) => Lost(g, <<>>, c)
    BY <1>9 DEF Lost
  <2>5. QED
    BY <2>1, <2>2, <2>3, <2>4 DEF Relieved
<1>11. NudgesApart(g, <<>>, latch)
  <2>1. SUFFICES ASSUME NEW i \in DOMAIN g, IsNudge(g, i)
                 PROVE  /\ latch \/ Relieved(g, <<>>, i, Len(g))
                        /\ \A j \in DOMAIN g : i < j /\ IsNudge(g, j) => Relieved(g, <<>>, i, j)
    BY DEF NudgesApart
  <2>2. i # 1 /\ i + d \in DOMAIN h /\ IsNudge(h, i + d)
    BY <1>2, <1>4, <2>1 DEF IsNudge
  <2>3. /\ latch \/ Relieved(h, <<>>, i + d, Len(h))
        /\ \A j \in DOMAIN h : i + d < j /\ IsNudge(h, j) => Relieved(h, <<>>, i + d, j)
    BY <2>2 DEF Sound, NudgesApart
  <2>4. Len(g) \in DOMAIN g /\ Len(g) + d = Len(h)
    BY <1>1
  <2>5. latch \/ Relieved(g, <<>>, i, Len(g))
    BY <1>10, <2>2, <2>3, <2>4
  <2>6. ASSUME NEW j \in DOMAIN g, i < j, IsNudge(g, j) PROVE Relieved(g, <<>>, i, j)
    <3>1. j # 1 /\ j + d \in DOMAIN h /\ IsNudge(h, j + d) /\ i + d < j + d
      BY <1>1, <1>2, <1>4, <2>6 DEF IsNudge
    <3>2. QED
      BY <1>10, <2>2, <2>3, <3>1
  <2>7. QED
    BY <2>5, <2>6
<1>12. ASSUME NEW p, Owed(h, <<>>, p) PROVE Owed(g, <<>>, p)
  <2>1. SUFFICES ASSUME NEW i \in DOMAIN g, NEW c \in g[i].calls, c[1] = p
                 PROVE  AnsweredIn(g, c)
    BY DEF Owed
  <2>2. i # 1 /\ i + d \in DOMAIN h /\ c \in h[i + d].calls
    BY <1>2, <1>4
  <2>3. AnsweredIn(h, c)
    BY <1>12, <2>1, <2>2 DEF Owed, IsTodo
  <2>4. PICK j \in DOMAIN h : c \in h[j].answers
    BY <2>3 DEF AnsweredIn
  <2>5. i + d < j
    BY <2>2, <2>4 DEF Sound, InCallOrder
  <2>6. j - d > 1
    BY <1>1, <2>2, <2>5
  <2>7. QED
    BY <1>3, <2>4, <2>6 DEF AnsweredIn
<1>13. QED
  BY <1>5, <1>6, <1>7, <1>8, <1>11, <1>12 DEF Sound

(* Moving the head of one queue to the end of another keeps their order.   *)
LEMMA HeadMoves ==
  ASSUME NEW S, NEW taken \in Seq(S), NEW queue \in Seq(S), queue # <<>>
  PROVE  Append(taken, Head(queue)) \o Tail(queue) = taken \o queue
<1> DEFINE left == Append(taken, Head(queue)) \o Tail(queue)
           right == taken \o queue
<1>1. /\ Head(queue) \in S /\ Tail(queue) \in Seq(S) /\ Len(Tail(queue)) = Len(queue) - 1
      /\ Append(taken, Head(queue)) \in Seq(S)
      /\ Len(Append(taken, Head(queue))) = Len(taken) + 1
  OBVIOUS
<1>2. /\ Len(taken) \in Nat /\ Len(queue) \in Nat
      /\ left \in Seq(S) /\ Len(left) = Len(taken) + Len(queue)
      /\ right \in Seq(S) /\ Len(right) = Len(taken) + Len(queue)
  BY <1>1, ConcatProperties
<1>3. ASSUME NEW k \in 1..(Len(taken) + Len(queue)) PROVE left[k] = right[k]
  <2>1. CASE k <= Len(taken)
    BY <1>1, <1>2, <2>1, ConcatProperties
  <2>2. CASE k = Len(taken) + 1
    BY <1>1, <1>2, <2>2, ConcatProperties
  <2>3. CASE k > Len(taken) + 1
    <3>1. left[k] = Tail(queue)[k - (Len(taken) + 1)]
      BY <1>1, <1>2, <2>3, ConcatProperties
    <3>2. right[k] = queue[k - Len(taken)]
      BY <1>2, <2>3, ConcatProperties
    <3>3. k - (Len(taken) + 1) \in 1..(Len(queue) - 1)
      BY <1>2, <2>3
    <3>4. \A m \in 1..(Len(queue) - 1) : Tail(queue)[m] = queue[m + 1]
      OBVIOUS
    <3>5. (k - (Len(taken) + 1)) + 1 = k - Len(taken)
      BY <1>2
    <3>6. QED
      BY <3>1, <3>2, <3>3, <3>4, <3>5
  <2>4. QED
    BY <1>2, <2>1, <2>2, <2>3
<1>4. QED
  BY <1>2, <1>3, SeqEqual

(* The first of two joined queues, when not empty, gives the head.         *)
LEMMA HeadOfJoined ==
  ASSUME NEW S, NEW first \in Seq(S), NEW second \in Seq(S), first # <<>>
  PROVE  /\ first \o second # <<>> /\ Head(first \o second) = Head(first)
         /\ Tail(first \o second) = Tail(first) \o second
<1> DEFINE joined == first \o second
           left == Tail(joined)
           right == Tail(first) \o second
<1>1. /\ Len(first) \in Nat \ {0} /\ Len(second) \in Nat
      /\ joined \in Seq(S) /\ Len(joined) = Len(first) + Len(second)
      /\ \A k \in 1..(Len(first) + Len(second)) :
           joined[k] = IF k <= Len(first) THEN first[k] ELSE second[k - Len(first)]
      /\ Tail(first) \in Seq(S) /\ Len(Tail(first)) = Len(first) - 1
      /\ \A k \in 1..(Len(first) - 1) : Tail(first)[k] = first[k + 1]
  BY ConcatProperties
<1> HIDE DEF joined
<1>2. joined # <<>> /\ Head(joined) = Head(first)
  BY <1>1
<1>3. /\ left \in Seq(S) /\ Len(left) = Len(first) + Len(second) - 1
      /\ \A k \in 1..(Len(first) + Len(second) - 1) : left[k] = joined[k + 1]
  BY <1>1, <1>2
<1>4. /\ right \in Seq(S) /\ Len(right) = Len(first) + Len(second) - 1
      /\ \A k \in 1..(Len(first) + Len(second) - 1) :
           right[k] = IF k <= Len(first) - 1 THEN Tail(first)[k] ELSE second[k - (Len(first) - 1)]
  BY <1>1, ConcatProperties
<1> HIDE DEF left, right
<1>5. ASSUME NEW k \in 1..(Len(first) + Len(second) - 1) PROVE left[k] = right[k]
  <2>1. k + 1 \in 1..(Len(first) + Len(second)) /\ (k + 1) - Len(first) = k - (Len(first) - 1)
    BY <1>1
  <2>2. CASE k <= Len(first) - 1
    BY <1>1, <1>3, <1>4, <2>1, <2>2
  <2>3. CASE ~(k <= Len(first) - 1)
    BY <1>1, <1>3, <1>4, <2>1, <2>3
  <2>4. QED
    BY <2>2, <2>3
<1>6. left = right
  BY <1>3, <1>4, <1>5, SeqEqual
<1>7. QED
  BY <1>2, <1>6 DEF joined, left, right

-----------------------------------------------------------------------------
(* The invariant of the loop.  A query that runs owes the model an answer  *)
(* to every call of its own.                                               *)
LoopInv ==
  /\ LocalsClear
  /\ Sound(history, Todo, Front, nudged)
  /\ pc \in Asking \cup Dispatching => Owed(history, Todo, queries)

LEMMA LoopInit == Init => LoopInv
<1> SUFFICES ASSUME Init PROVE LoopInv
  OBVIOUS
<1>1. history = <<>> /\ Todo = <<>> /\ pc = "idle" /\ calls = <<>> /\ batch = <<>>
  BY DEF Init, Todo, Dispatching
<1>2. DOMAIN history = {}
  BY <1>1
<1>3. Sound(history, Todo, Front, nudged)
  BY <1>1, <1>2 DEF Sound, InCallOrder, IssuedBefore, TodoAhead, AskedLast, ToolsInPlace,
                    NudgesApart
<1>4. QED
  BY <1>1, <1>3 DEF LoopInv, LocalsClear, Asking, Dispatching

(* An action that answers the first call to do, under the result it had.   *)
LEMMA LoopAnswers ==
  ASSUME TypeOK, LoopInv, pc \in Dispatching, Todo # <<>>,
         NEW kind \in ToolKinds, history' = Append(history, ToolTurn(kind, Head(Todo).id)),
         nudged' \in BOOLEAN, nudged => nudged' \/ kind = "ok"
  PROVE  /\ Sound(history', Tail(Todo), Front, nudged') /\ Sound(history', <<>>, Front, nudged')
         /\ Owed(history', Tail(Todo), queries)
         /\ history' \in Seq(Turn)
<1>1. /\ history \in Seq(Turn) /\ Todo \in Seq(Call) /\ Front \in CallId
      /\ nudged \in BOOLEAN
  <2>1. Todo \in Seq(Call)
    BY ConcatProperties DEF TypeOK, Todo
  <2>2. queries \in Nat /\ iterations \in Nat
    BY DEF TypeOK
  <2>3. Front \in CallId
    BY <2>2 DEF Front, CallId
  <2>4. QED
    BY <2>1, <2>3 DEF TypeOK
<1>2. Sound(history, Todo, Front, nudged) /\ Owed(history, Todo, queries)
  BY DEF LoopInv
<1>3. Sound(history', Tail(Todo), Front, nudged') /\ Owed(history', Tail(Todo), queries)
  BY <1>1, <1>2, AnsweredTurn
<1>4. Tail(Todo) \in Seq(Call) /\ Head(Todo) \in Call
  BY <1>1
<1>5. history' \in Seq(Turn)
  <2>1. Head(Todo).id \in CallId
    BY <1>4 DEF Call
  <2>2. QED
    BY <1>1, <2>1, TurnTypes
<1>6. QED
  BY <1>3, <1>4, <1>5, ForgetTodo

LEMMA LoopKept == TypeOK /\ LoopInv /\ [Next]_vars => LoopInv'
<1> SUFFICES ASSUME TypeOK, LoopInv, [Next]_vars PROVE LoopInv'
  OBVIOUS
<1>1. /\ history \in Seq(Turn) /\ calls \in Seq(Call) /\ batch \in Seq(Call)
      /\ queries \in Nat /\ iterations \in Nat /\ nudged \in BOOLEAN /\ pc \in Pcs
      /\ pc \in {"pseudo", "half_done", "clarified"} => calls # <<>>
      /\ pc = "executing" => batch # <<>>
  BY DEF TypeOK
<1>2. Todo \in Seq(Call) /\ Front \in CallId
  <2>1. Todo \in Seq(Call)
    BY <1>1, ConcatProperties DEF Todo
  <2>2. QED
    BY <1>1, <2>1 DEF Front, CallId
<1>3. /\ Sound(history, Todo, Front, nudged) /\ Sound(history, <<>>, Front, nudged)
      /\ pc \in Asking \cup Dispatching => Owed(history, Todo, queries)
      /\ LocalsClear
  BY <1>1, <1>2, ForgetTodo DEF LoopInv
<1>4. pc \notin Dispatching => Todo = <<>>
  BY DEF Todo
<1>5. /\ pc \in Asking => pc \notin Dispatching
      /\ pc \in {"pseudo", "half_done", "clarified"} => Todo = calls /\ pc \in Dispatching
      /\ pc = "dispatch" => pc \in Dispatching
  <2>1. <<>> \o calls = calls
    BY <1>1
  <2>2. QED
    BY <1>3, <2>1 DEF Asking, Dispatching, Todo, LocalsClear
<1>6. ASSUME pc \in Asking, pc' \in Asking, UNCHANGED <<queries, iterations, calls, batch>>,
             Sound(history', <<>>, Front, nudged'), Owed(history', <<>>, queries)
      PROVE  LoopInv'
  <2>1. Front' = Front /\ Todo' = <<>>
    BY <1>6 DEF Front, Todo, Asking, Dispatching
  <2>2. LocalsClear'
    BY <1>3, <1>6 DEF LocalsClear, Asking
  <2>3. QED
    BY <1>6, <2>1, <2>2 DEF LoopInv
<1>7. ASSUME pc' = "ended" \/ (pc' = "idle" /\ calls' = <<>> /\ batch' = <<>>),
             queries' = queries, iterations' \in {iterations, iterations + 1},
             Sound(history', <<>>, Front, nudged'), history' \in Seq(Turn)
      PROVE  LoopInv'
  <2>1. Front' = <<queries, iterations' + 1, 0>> /\ Todo' = <<>>
    BY <1>7 DEF Front, Todo, Asking, Dispatching
  <2>2. Front' \in CallId /\ FrontAtMost(Front, Front')
    <3>1. PICK here \in Nat : Front = <<queries, here, 0>> /\ here \in {iterations, iterations + 1}
      BY <1>1 DEF Front
    <3>2. iterations' + 1 \in Nat /\ (here = iterations' + 1 \/ here < iterations' + 1)
      <4>1. iterations' = iterations \/ iterations' = iterations + 1
        BY <1>7
      <4>2. QED
        BY <1>1, <3>1, <4>1
    <3>3. QED
      BY <1>1, <2>1, <3>1, <3>2 DEF FrontAtMost, CallIdBefore, CallId
  <2>3. Sound(history', <<>>, Front', nudged')
    BY <1>2, <1>7, <2>2, FrontMoves
  <2>4. LocalsClear'
    BY <1>7 DEF LocalsClear, Asking
  <2>5. pc' \notin Asking \cup Dispatching
    BY <1>7 DEF Asking, Dispatching
  <2>6. QED
    BY <2>1, <2>3, <2>4, <2>5 DEF LoopInv
<1>8. ASSUME pc \in Dispatching, pc' \in Dispatching, UNCHANGED <<queries, iterations>>,
             Sound(history', Todo', Front, nudged'), Owed(history', Todo', queries),
             pc' \in {"pseudo", "half_done", "clarified"} => batch' = <<>>
      PROVE  LoopInv'
  <2>1. Front' = Front
    BY <1>8 DEF Front, Asking, Dispatching
  <2>2. LocalsClear'
    BY <1>8 DEF LocalsClear, Asking, Dispatching
  <2>3. QED
    BY <1>8, <2>1, <2>2 DEF LoopInv
<1>9. ASSUME pc \notin Dispatching, NEW turn \in Turn, Plain(turn),
             history' = Append(history, turn)
      PROVE  /\ Sound(history', <<>>, Front, nudged) /\ history' \in Seq(Turn)
             /\ pc \in Asking => Owed(history', <<>>, queries)
  BY <1>1, <1>3, <1>4, <1>9, PlainTurn
<1>10. /\ \A kind \in UserKinds \ {"error_nudge"}, n \in Nat :
            UserTurn(kind, n) \in Turn /\ Plain(UserTurn(kind, n))
       /\ TextTurn \in Turn /\ Plain(TextTurn)
  BY TurnTypes DEF Plain, UserTurn, TextTurn, UserKinds, IsTool, ToolKinds
<1>11. CASE StartQuery
  <2>1. /\ pc = "idle" /\ pc' = "top" /\ queries' = queries + 1 /\ iterations' = 0
        /\ history' = Append(history, UserTurn("query", queries + 1))
        /\ UNCHANGED <<nudged, calls, batch>>
    BY <1>11 DEF StartQuery, StartWith
  <2>2. UserTurn("query", queries + 1) \in Turn /\ Plain(UserTurn("query", queries + 1))
    BY <1>1, <1>10 DEF UserKinds
  <2>3. Sound(history', <<>>, Front, nudged) /\ history' \in Seq(Turn)
    BY <1>9, <2>1, <2>2 DEF Dispatching
  <2>4. /\ Front = <<queries, iterations + 1, 0>> /\ Front' = <<queries + 1, 0, 0>>
        /\ Todo' = <<>>
    BY <2>1 DEF Front, Todo, Asking, Dispatching
  <2>5. Front' \in CallId /\ FrontAtMost(Front, Front')
    BY <1>1, <2>4 DEF FrontAtMost, CallIdBefore, CallId
  <2>6. Sound(history', <<>>, Front', nudged)
    BY <1>2, <2>3, <2>5, FrontMoves
  <2>7. ASSUME NEW k \in DOMAIN history', NEW c \in history'[k].calls
        PROVE  c[1] # queries + 1
    <3>1. c \in CallId /\ CallIdBefore(c, Front)
      BY <2>3, TurnAt DEF Sound, IssuedBefore
    <3>2. QED
      BY <1>1, <2>4, <3>1 DEF CallIdBefore, CallId
  <2>8. Owed(history', <<>>, queries')
    BY <2>1, <2>7 DEF Owed
  <2>9. LocalsClear'
    BY <1>3, <2>1 DEF LocalsClear, Asking
  <2>10. QED
    BY <2>1, <2>4, <2>6, <2>8, <2>9 DEF LoopInv
<1>12. CASE UNCHANGED <<history, nudged, pc, calls, batch, queries, iterations>>
  BY <1>3, <1>12 DEF LoopInv, LocalsClear, Todo, Front
<1>13. ASSUME NEW queue \in Seq(Nat), queue # <<>>, DeliverFirst(queue), pc \in Asking,
              UNCHANGED <<queries, iterations, calls, batch, nudged>>
       PROVE  LoopInv'
  <2>1. Head(queue) \in Nat
    BY <1>13
  <2>2. history' = Append(history, UserTurn("steering", Head(queue))) /\ pc' = "steering"
    BY <1>13 DEF DeliverFirst
  <2>3. UserTurn("steering", Head(queue)) \in Turn /\ Plain(UserTurn("steering", Head(queue)))
    BY <1>10, <2>1 DEF UserKinds
  <2>4. Sound(history', <<>>, Front, nudged) /\ Owed(history', <<>>, queries)
    BY <1>5, <1>9, <1>13, <2>2, <2>3
  <2>5. QED
    BY <1>6, <1>13, <2>2, <2>4 DEF Asking
<1>14. CASE BeginIteration
  <2>1. pc = "top" /\ UNCHANGED <<queries, iterations, calls, batch, nudged>>
    BY <1>14 DEF BeginIteration, BeginLeaving
  <2>2. CASE steering = <<>>
    <3>1. pc' = "compact" /\ history' = history
      BY <1>14, <2>2 DEF BeginIteration, BeginLeaving
    <3>2. pc \in Asking /\ pc' \in Asking
      BY <2>1, <3>1 DEF Asking
    <3>3. QED
      BY <1>3, <1>4, <1>5, <1>6, <2>1, <3>1, <3>2
  <2>3. CASE steering # <<>>
    <3>1. DeliverFirst(steering) /\ steering \in Seq(Nat)
      BY <1>14, <2>3 DEF BeginIteration, BeginLeaving, TypeOK
    <3>2. QED
      BY <1>13, <2>1, <2>3, <3>1 DEF Asking
  <2>4. QED
    BY <2>2, <2>3
<1>15. CASE DrainSteering
  <2>1. /\ pc = "steering" /\ draining # <<>> /\ DeliverFirst(draining)
        /\ UNCHANGED <<queries, iterations, calls, batch, nudged>> /\ draining \in Seq(Nat)
    BY <1>15 DEF DrainSteering, TypeOK
  <2>2. QED
    BY <1>13, <2>1 DEF Asking
<1>16. ASSUME NEW tier \in Tiers, Compact(tier) PROVE LoopInv'
  <2>1. /\ pc \in Asking /\ pc' \in Asking /\ history' = Compacted(history, tier)
        /\ UNCHANGED <<queries, iterations, calls, batch, nudged>>
    BY <1>16 DEF Compact, Drained, Asking
  <2>2. Sound(history, <<>>, Front, nudged) /\ Owed(history, <<>>, queries)
    BY <1>3, <1>4, <1>5, <2>1
  <2>3. CASE history' = history
    BY <1>6, <2>1, <2>2, <2>3
  <2>4. CASE \E d \in Nat : Shortened(history, history', d)
    <3>1. history' \in Seq(Turn)
      BY <1>1, <2>1, CompactedType
    <3>2. Sound(history', <<>>, Front, nudged) /\ Owed(history', <<>>, queries)
      BY <1>1, <2>2, <2>4, <3>1, ShortenedTurn
    <3>3. QED
      BY <1>6, <2>1, <3>2
  <2>5. QED
    BY <1>1, <2>1, <2>3, <2>4, CompactedShape
<1>17. CASE CallModel
  <2>1. /\ pc \in Asking /\ pc' \in Asking /\ history' = WithIterationNudge(history)
        /\ UNCHANGED <<queries, iterations, calls, batch, nudged>>
    BY <1>17 DEF CallModel, Drained, Asking
  <2>2. CASE history' = history
    BY <1>3, <1>4, <1>5, <1>6, <2>1, <2>2
  <2>3. CASE history' = Append(history, UserTurn("iteration_nudge", 0))
    <3>1. UserTurn("iteration_nudge", 0) \in Turn /\ Plain(UserTurn("iteration_nudge", 0))
      BY <1>10 DEF UserKinds
    <3>2. Sound(history', <<>>, Front, nudged) /\ Owed(history', <<>>, queries)
      BY <1>5, <1>9, <2>1, <2>3, <3>1
    <3>3. QED
      BY <1>6, <2>1, <3>2
  <2>4. QED
    BY <2>1, <2>2, <2>3 DEF WithIterationNudge
<1>18. CASE AdapterFails
  BY <1>1, <1>3, <1>7, <1>18 DEF AdapterFails
<1>19. CASE Answer
  <2>1. /\ pc = "calling" /\ pc' = "ended" /\ UNCHANGED <<queries, iterations, nudged>>
        /\ history' = history \/ history' = Append(history, TextTurn)
    BY <1>19 DEF Answer
  <2>2. Sound(history', <<>>, Front, nudged) /\ history' \in Seq(Turn)
    BY <1>1, <1>3, <1>9, <1>10, <2>1 DEF Dispatching
  <2>3. QED
    BY <1>7, <2>1, <2>2
<1>20. ASSUME NEW reply \in Replies, AskTools(reply) PROVE LoopInv'
  <2> DEFINE cs == CallsOf(reply)
  <2>1. /\ pc = "calling" /\ pc' = "dispatch" /\ calls' = cs
        /\ history' = Append(history, CallsTurn(cs))
        /\ UNCHANGED <<queries, iterations, nudged, batch>>
    BY <1>20 DEF AskTools
  <2>2. cs \in Seq(Call) /\ \A k \in DOMAIN cs : cs[k].id = <<queries, iterations, k>>
    BY <1>1, CallsOfType DEF CallsOf
  <2> HIDE DEF cs
  <2>3. /\ Todo = <<>> /\ Front = <<queries, iterations, 0>> /\ batch = <<>>
        /\ Owed(history, <<>>, queries)
    BY <1>3, <1>4, <2>1 DEF Asking, Dispatching, Front, LocalsClear
  <2>4. Todo' = cs /\ Front' = <<queries, iterations + 1, 0>>
    BY <2>1, <2>2, <2>3 DEF Todo, Front, Asking, Dispatching
  <2>5. Sound(history', cs, <<queries, iterations + 1, 0>>, nudged) /\ Owed(history', cs, queries)
    BY <1>1, <1>3, <2>1, <2>2, <2>3, AskedTurn
  <2>6. LocalsClear'
    BY <2>1 DEF LocalsClear, Asking
  <2>7. QED
    BY <2>1, <2>4, <2>5, <2>6 DEF LoopInv
<1>21. CASE CollectReal
  <2>1. /\ pc = "dispatch" /\ calls # <<>> /\ batch' = Append(batch, Head(calls))
        /\ calls' = Tail(calls) /\ UNCHANGED <<history, nudged, pc, queries, iterations>>
    BY <1>21 DEF CollectReal, NextIsReal
  <2>2. Todo' = Todo
    BY <1>1, <2>1, HeadMoves DEF Todo, Dispatching
  <2>3. QED
    BY <1>3, <1>5, <1>8, <2>1, <2>2
<1>22. CASE RunBatch
  <2>1. /\ pc = "dispatch" /\ pc' \in {"executing", "ended"}
        /\ UNCHANGED <<history, nudged, calls, batch, queries, iterations>>
    BY <1>22 DEF RunBatch
  <2>2. CASE pc' = "executing"
    BY <1>3, <1>5, <1>8, <2>1, <2>2 DEF Todo, Dispatching
  <2>3. CASE pc' = "ended"
    BY <1>1, <1>3, <1>7, <2>1, <2>3
  <2>4. QED
    BY <2>1, <2>2, <2>3
<1>23. ASSUME NEW outcome \in {"ok", "error"}, RecordResult(outcome) PROVE LoopInv'
  <2>1. /\ pc = "executing" /\ CountOutcome(outcome)
        /\ UNCHANGED <<calls, queries, iterations>>
    BY <1>23 DEF RecordResult
  <2>2. nudged' \in BOOLEAN /\ (outcome = "error" => nudged' = nudged)
                            /\ (outcome = "ok" => nudged' = FALSE)
    <3>1. CASE outcome = "error"
      BY <1>1, <2>1, <3>1 DEF CountOutcome
    <3>2. CASE outcome = "ok"
      <4>1. nudged' = FALSE
        BY <2>1, <3>2 DEF CountOutcome
      <4>2. QED
        BY <3>2, <4>1
    <3>3. QED
      BY <3>1, <3>2
  <2>3. /\ Todo = batch \o calls /\ Todo # <<>> /\ pc \in Dispatching
        /\ Head(Todo) = Head(batch) /\ Tail(Todo) = Tail(batch) \o calls
    <3>1. batch # <<>> /\ Todo = batch \o calls /\ pc \in Dispatching
      BY <1>1, <2>1 DEF Todo, Dispatching
    <3>2. /\ (batch \o calls) # <<>> /\ Head(batch \o calls) = Head(batch)
          /\ Tail(batch \o calls) = Tail(batch) \o calls
      BY <1>1, <3>1, HeadOfJoined
    <3>3. QED
      BY <3>1, <3>2
  <2>4. CASE /\ history' = Append(history, ToolTurn(outcome, Head(batch).id))
             /\ batch' = Tail(batch)
             /\ pc' = IF Tail(batch) = <<>> THEN "dispatch" ELSE "executing"
    <3>1. Todo' = Tail(Todo) /\ pc' \in Dispatching
          /\ pc' \notin {"pseudo", "half_done", "clarified"}
      BY <2>1, <2>3, <2>4 DEF Todo, Dispatching
    <3>2. Sound(history', Tail(Todo), Front, nudged') /\ Owed(history', Tail(Todo), queries)
      <4>1. outcome \in ToolKinds /\ (nudged => nudged' \/ outcome = "ok")
        BY <2>2 DEF ToolKinds
      <4>2. QED
        BY <2>2, <2>3, <2>4, <4>1, LoopAnswers
    <3>3. QED
      BY <1>8, <2>1, <2>3, <3>1, <3>2
  <2>5. CASE pc' = "ended" /\ history' = history
    <3>1. Sound(history, <<>>, Front, FALSE)
      BY <1>1, <1>2, <1>3, <2>3, LostCall
    <3>2. Sound(history', <<>>, Front, nudged')
      <4>1. CASE outcome = "error"
        BY <1>3, <2>2, <2>5, <4>1
      <4>2. CASE outcome = "ok"
        BY <2>2, <2>5, <3>1, <4>2
      <4>3. QED
        BY <4>1, <4>2
    <3>3. QED
      BY <1>1, <1>7, <2>1, <2>5, <3>2
  <2>6. QED
    BY <1>23, <2>4, <2>5 DEF RecordResult
<1>24. CASE EnterPseudo
  <2>1. /\ pc = "dispatch" /\ pc' = "pseudo" /\ batch = <<>>
        /\ UNCHANGED <<history, nudged, calls, batch, queries, iterations>>
    BY <1>24 DEF EnterPseudo, EnterAhead
  <2>2. pc' \in Dispatching /\ Todo' = Todo
    BY <2>1 DEF Todo, Dispatching
  <2>3. QED
    BY <1>3, <1>5, <1>8, <2>1, <2>2
<1>25. ASSUME pc \in {"pseudo", "half_done", "clarified"}, Acknowledge,
              UNCHANGED <<nudged, batch, queries, iterations>>
       PROVE  /\ pc' = "dispatch" /\ calls' = Tail(calls) => LoopInv'
              /\ pc' = "ended" => LoopInv'
              /\ Sound(history', <<>>, Front, nudged) /\ history' \in Seq(Turn)
  <2>1. /\ Todo = calls /\ Todo # <<>> /\ batch = <<>> /\ pc \in Dispatching
        /\ history' = Append(history, ToolTurn("ack", Head(Todo).id))
    BY <1>1, <1>3, <1>5, <1>25 DEF Acknowledge, LocalsClear
  <2>2. /\ Sound(history', Tail(Todo), Front, nudged') /\ Owed(history', Tail(Todo), queries)
        /\ Sound(history', <<>>, Front, nudged') /\ history' \in Seq(Turn)
    <3>1. "ack" \in ToolKinds /\ nudged' \in BOOLEAN /\ (nudged => nudged')
      BY <1>1, <1>25 DEF ToolKinds
    <3>2. QED
      BY <2>1, <3>1, LoopAnswers
  <2>3. ASSUME pc' = "dispatch", calls' = Tail(calls) PROVE LoopInv'
    <3>1. Todo' = Tail(Todo) /\ pc' \in Dispatching
      <4>1. Tail(calls) \in Seq(Call) /\ <<>> \o Tail(calls) = Tail(calls)
        BY <1>1, <2>1
      <4>2. QED
        BY <1>25, <2>1, <2>3, <4>1 DEF Todo, Dispatching
    <3>2. QED
      BY <1>8, <1>25, <2>1, <2>2, <2>3, <3>1
  <2>4. ASSUME pc' = "ended" PROVE LoopInv'
    BY <1>1, <1>7, <1>25, <2>2, <2>4
  <2>5. QED
    BY <1>25, <2>2, <2>3, <2>4
<1>26. CASE SaveNote
  BY <1>25, <1>26 DEF SaveNote, At, NextCall
<1>27. CASE FinishPseudo
  BY <1>25, <1>27 DEF FinishPseudo, NextCall
<1>28. CASE CloseClarification
  BY <1>25, <1>28 DEF CloseClarification
<1>29. ASSUME pc = "pseudo", pc' \in {"half_done", "clarified"},
              UNCHANGED <<history, nudged, calls, batch, queries, iterations>>
       PROVE  LoopInv'
  <2>1. pc \in Dispatching /\ pc' \in Dispatching /\ Todo' = Todo /\ batch' = <<>>
    BY <1>3, <1>29 DEF Todo, Dispatching, LocalsClear
  <2>2. QED
    BY <1>3, <1>8, <1>29, <2>1
<1>30. ASSUME NEW fact \in Facts, RegisterCitation(fact) PROVE LoopInv'
  BY <1>29, <1>30 DEF RegisterCitation, At
<1>31. CASE EscalateToOracle
  BY <1>29, <1>31 DEF EscalateToOracle, At
<1>32. CASE RequestClarification
  BY <1>29, <1>32 DEF RequestClarification, At
<1>33. CASE Stop
  <2> DEFINE answered == Append(history, ToolTurn("ack", Head(calls).id))
  <2>1. /\ pc = "pseudo" /\ pc' = "ended" /\ UNCHANGED <<nudged, batch, queries, iterations>>
        /\ history' = answered \/ history' = Append(answered, TextTurn)
    BY <1>33 DEF Stop, At
  <2>2. calls # <<>> /\ Todo = calls /\ pc \in Dispatching
    BY <1>1, <1>5, <2>1
  <2>3. answered \in Seq(Turn) /\ Sound(answered, <<>>, Front, nudged)
    <3>1. "ack" \in ToolKinds /\ (nudged => nudged \/ "ack" = "ok")
      BY DEF ToolKinds
    <3>2. Sound(answered, Tail(calls), Front, nudged)
      BY <1>1, <1>2, <1>3, <2>2, <3>1, AnsweredTurn
    <3>3. Head(calls) \in Call /\ Tail(calls) \in Seq(Call)
      BY <1>1, <2>2
    <3>4. Head(calls).id \in CallId
      BY <3>3 DEF Call
    <3>5. answered \in Seq(Turn)
      BY <1>1, <3>1, <3>4, TurnTypes
    <3>6. QED
      BY <3>2, <3>3, <3>5, ForgetTodo
  <2> HIDE DEF answered
  <2>4. Sound(history', <<>>, Front, nudged) /\ history' \in Seq(Turn)
    <3>1. Append(answered, TextTurn) \in Seq(Turn)
      BY <1>10, <2>3
    <3>2. Sound(Append(answered, TextTurn), <<>>, Front, nudged)
      BY <1>1, <1>10, <2>3, PlainTurn
    <3>3. QED
      BY <2>1, <2>3, <3>1, <3>2
  <2>5. QED
    BY <1>7, <2>1, <2>4
<1>34. CASE AbortOnErrors \/ NoAdapter
  BY <1>1, <1>3, <1>7, <1>34 DEF AbortOnErrors, AbortAtThreshold, NoAdapter
<1>35. CASE EndIteration
  <2>1. /\ EndWith(nudged \/ StreakReached, iterations + 1)
        /\ iterations' = iterations + 1 /\ UNCHANGED <<calls, batch, queries>>
    BY <1>35 DEF EndIteration, EndWith
  <2>2. /\ pc = "dispatch" /\ calls = <<>> /\ batch = <<>> /\ pc' \in {"ended", "top"}
    BY <2>1 DEF EndWith, TurnDone
  <2>3. Todo = <<>> /\ Owed(history, <<>>, queries)
    BY <1>3, <2>2 DEF Todo, Dispatching
  <2>4. /\ Sound(history', <<>>, Front, nudged') /\ history' \in Seq(Turn)
        /\ Owed(history', <<>>, queries)
    <3>1. CASE StreakReached
      <4>1. history' = Append(history, UserTurn("error_nudge", errors)) /\ errors \in Nat
        BY <2>1, <3>1 DEF EndWith, TypeOK
      <4>2. nudged = FALSE /\ nudged' = TRUE
        BY <1>1, <2>1, <3>1, Zenon DEF EndWith
      <4>3. Sound(history', <<>>, Front, TRUE)
        BY <1>1, <1>3, <2>3, <4>1, <4>2, NudgeTurn
      <4>4. UserTurn("error_nudge", errors) \in Turn
        BY <4>1, TurnTypes DEF UserKinds
      <4>5. Owed(history', <<>>, queries)
        <5>1. UserTurn("error_nudge", errors).calls = {}
          BY DEF UserTurn
        <5>2. \A k \in DOMAIN history' :
                (k \in DOMAIN history /\ history'[k] = history[k]) \/ history'[k].calls = {}
          BY <1>1, <4>1, <4>4, <5>1, AppendTurn
        <5>3. \A c : AnsweredIn(history, c) => AnsweredIn(history', c)
          BY <1>1, <4>1, <4>4, AppendTurn, SMTT(30) DEF AnsweredIn
        <5>4. QED
          BY <2>3, <5>2, <5>3 DEF Owed, IsTodo
      <4>6. history' \in Seq(Turn)
        BY <1>1, <4>1, <4>4
      <4>7. QED
        BY <4>2, <4>3, <4>5, <4>6
    <3>2. CASE ~StreakReached
      <4>1. history' = history
        BY <2>1, <3>2 DEF EndWith
      <4>2. nudged' = nudged
        BY <1>1, <2>1, <3>2, Zenon DEF EndWith
      <4>3. QED
        BY <1>1, <1>3, <2>3, <4>1, <4>2
    <3>3. QED
      BY <3>1, <3>2
  <2>5. CASE pc' = "ended"
    BY <1>1, <1>7, <2>1, <2>4, <2>5
  <2>6. CASE pc' = "top"
    <3>1. Todo' = <<>> /\ Front' = Front
      BY <2>1, <2>2, <2>6 DEF Todo, Front, Asking, Dispatching
    <3>2. LocalsClear'
      BY <2>1, <2>2, <2>6 DEF LocalsClear
    <3>3. QED
      BY <2>1, <2>4, <3>1, <3>2 DEF LoopInv
  <2>7. QED
    BY <2>2, <2>5, <2>6
<1>36. CASE Return \/ Cancel
  BY <1>1, <1>3, <1>7, <1>36 DEF Return, Cancel, DropLocals
<1>37. Steer \/ Quiet \/ UNCHANGED vars
         => UNCHANGED <<history, nudged, pc, calls, batch, queries, iterations>>
  BY DEF Steer, Quiet, vars
<1>38. QED
  BY <1>11, <1>12, <1>14, <1>15, <1>16, <1>17, <1>18, <1>19, <1>20, <1>21, <1>22, <1>23,
     <1>24, <1>26, <1>27, <1>28, <1>30, <1>31, <1>32, <1>33, <1>34, <1>35, <1>36, <1>37
  DEF Next, LoopStep

LEMMA LoopCorrect == Spec => [](TypeOK /\ LoopInv)
  BY TypeInit, TypeStep, LoopInit, LoopKept, PTL DEF Spec

(* The history never shows two tool turns in another order than that of    *)
(* their calls, nor an answer before its call, whatever the model mixes in *)
(* a reply and wherever a run is cut off.                                  *)
THEOREM AnswersOrdered == Spec => []AnswersInCallOrder
<1>1. LoopInv => AnswersInCallOrder
  BY DEF LoopInv, Sound, InCallOrder, AnswersInCallOrder
<1>2. QED
  BY <1>1, LoopCorrect, PTL

(* The model is never called while a call of the running query that its    *)
(* history still shows has no answer.                                      *)
THEOREM PromptsAnswered == Spec => []PromptAnswersThisQuery
<1>1. LoopInv => PromptAnswersThisQuery
  <2>1. SUFFICES ASSUME LoopInv, pc = "calling"
                 PROVE  \A i \in DOMAIN history : \A c \in history[i].calls :
                          c[1] = queries => Answered(c)
    BY DEF PromptAnswersThisQuery
  <2>2. Owed(history, <<>>, queries)
    BY <2>1 DEF LoopInv, Todo, Asking, Dispatching
  <2>3. QED
    BY <2>2 DEF Owed, IsTodo, AnsweredIn, Answered
<1>2. QED
  BY <1>1, LoopCorrect, PTL

(* G4 nudges once about a streak of errors: whatever resets the counter or *)
(* drops a result between two nudges, a success or a lost call shows it.   *)
THEOREM NudgedOnce == Spec => []OneNudgePerStreak
<1>1. LoopInv => OneNudgePerStreak
  <2>1. SUFFICES ASSUME LoopInv, NEW i \in DOMAIN history, NEW j \in DOMAIN history, i < j,
                        history[i].kind = "error_nudge", history[j].kind = "error_nudge"
                 PROVE  \E k \in i..j : \/ history[k].kind = "ok"
                                        \/ \E c \in history[k].calls : ~Answered(c)
    BY DEF OneNudgePerStreak
  <2>2. Relieved(history, Todo, i, j)
    BY <2>1 DEF LoopInv, Sound, NudgesApart, IsNudge
  <2>3. QED
    BY <2>2 DEF Relieved, Lost, AnsweredIn, Answered
<1>2. QED
  BY <1>1, LoopCorrect, PTL

(* However often compaction cuts, a tool turn without its call is one the  *)
(* summary at the head of the history accounts for.                        *)
THEOREM OrphansAccounted == Spec => []OrphansBehindSummary
<1>1. LoopInv => OrphansBehindSummary
  <2>1. SUFFICES ASSUME LoopInv, NEW j \in DOMAIN history, IsTool(history[j])
                 PROVE  \/ \E i \in 1..j : history[j].answers \subseteq history[i].calls
                        \/ /\ history[1].kind = "summary"
                           /\ \A i \in 2..j : IsTool(history[i])
    BY DEF OrphansBehindSummary
  <2>2. BehindCall(history, j) \/ BehindSummary(history, j)
    BY <2>1 DEF LoopInv, Sound, ToolsInPlace
  <2>3. QED
    BY <2>2 DEF BehindCall, BehindSummary
<1>2. QED
  BY <1>1, LoopCorrect, PTL

-----------------------------------------------------------------------------
(* Steering.  Messages move from the queue through the drained ones to the *)
(* accepted ones; only an abandoned run takes some out.                    *)

InOnePlace(all, gone, n) ==
  /\ \A i, j \in DOMAIN all : i < j => all[i] < all[j]
  /\ 1..n = gone \cup {all[k] : k \in DOMAIN all}
  /\ \A k \in DOMAIN all : all[k] \notin gone

(* Only a run that is delivering holds drained messages.                   *)
SteeringInv ==
  /\ InOnePlace(delivered \o draining \o steering, lost, sent)
  /\ draining # <<>> => pc = "steering"

(* Appending to the second of two joined queues.                           *)
LEMMA AppendJoined ==
  ASSUME NEW S, NEW first \in Seq(S), NEW second \in Seq(S), NEW e \in S
  PROVE  first \o Append(second, e) = Append(first \o second, e)
<1> DEFINE left == first \o Append(second, e)
           right == Append(first \o second, e)
           n == Len(first) + Len(second)
<1>1. /\ Len(first) \in Nat /\ Len(second) \in Nat
      /\ Append(second, e) \in Seq(S) /\ Len(Append(second, e)) = Len(second) + 1
      /\ \A k \in 1..Len(second) : Append(second, e)[k] = second[k]
      /\ Append(second, e)[Len(second) + 1] = e
  OBVIOUS
<1>2. /\ first \o second \in Seq(S) /\ Len(first \o second) = n
      /\ \A k \in 1..n : (first \o second)[k] =
           IF k <= Len(first) THEN first[k] ELSE second[k - Len(first)]
  BY ConcatProperties
<1>3. /\ left \in Seq(S) /\ Len(left) = n + 1
      /\ \A k \in 1..(n + 1) : left[k] =
           IF k <= Len(first) THEN first[k] ELSE Append(second, e)[k - Len(first)]
  BY <1>1, ConcatProperties
<1>4. /\ right \in Seq(S) /\ Len(right) = n + 1 /\ right[n + 1] = e
      /\ \A k \in 1..n : right[k] = (first \o second)[k]
  BY <1>2
<1>n. n \in Nat /\ n = Len(first) + Len(second)
  BY <1>1
<1> HIDE DEF left, right, n
<1>5. ASSUME NEW k \in 1..(n + 1) PROVE left[k] = right[k]
  <2>1. CASE k <= Len(first)
    <3>1. k \in 1..n
      BY <1>n, <1>1, <2>1
    <3>2. left[k] = first[k]
      BY <1>3, <2>1
    <3>3. right[k] = first[k]
      BY <1>2, <1>4, <2>1, <3>1
    <3>4. QED
      BY <3>2, <3>3
  <2>2. CASE ~(k <= Len(first)) /\ k <= n
    <3>1. k - Len(first) \in 1..Len(second) /\ k \in 1..n
      BY <1>n, <1>1, <2>2
    <3>2. left[k] = Append(second, e)[k - Len(first)] /\ right[k] = second[k - Len(first)]
      BY <1>2, <1>3, <1>4, <2>2, <3>1
    <3>3. QED
      BY <1>1, <3>1, <3>2
  <2>3. CASE k = n + 1
    <3>1. k - Len(first) = Len(second) + 1 /\ ~(k <= Len(first))
      BY <1>n, <1>1, <2>3
    <3>2. QED
      BY <1>1, <1>3, <1>4, <2>3, <3>1
  <2>4. k <= n \/ k = n + 1
    BY <1>n
  <2>5. QED
    BY <2>1, <2>2, <2>3, <2>4
<1>6. left = right
  BY <1>n, <1>3, <1>4, <1>5, SeqEqual
<1>7. QED
  BY <1>6 DEF left, right

(* A message enqueued gets the next number.                                *)
LEMMA MessageSent ==
  ASSUME NEW all \in Seq(Nat), NEW gone, NEW n \in Nat, InOnePlace(all, gone, n)
  PROVE  InOnePlace(Append(all, n + 1), gone, n + 1)
<1> DEFINE more == Append(all, n + 1)
<1>1. /\ Len(all) \in Nat /\ DOMAIN all = 1..Len(all) /\ DOMAIN more = 1..(Len(all) + 1)
      /\ \A k \in DOMAIN all : more[k] = all[k]
      /\ more[Len(all) + 1] = n + 1
  OBVIOUS
<1> HIDE DEF more
<1>2. (\A k \in DOMAIN all : all[k] \in 1..n) /\ gone \subseteq 1..n
  BY DEF InOnePlace
<1>3. \A i, j \in DOMAIN more : i < j => more[i] < more[j]
  <2>1. SUFFICES ASSUME NEW i \in DOMAIN more, NEW j \in DOMAIN more, i < j
                 PROVE  more[i] < more[j]
    OBVIOUS
  <2>2. i \in DOMAIN all
    BY <1>1, <2>1
  <2>3. CASE j \in DOMAIN all
    BY <1>1, <2>1, <2>2, <2>3 DEF InOnePlace
  <2>4. CASE j = Len(all) + 1
    BY <1>1, <1>2, <2>2, <2>4
  <2>5. QED
    BY <1>1, <2>3, <2>4
<1>4. {more[k] : k \in DOMAIN more} = {all[k] : k \in DOMAIN all} \cup {n + 1}
  <2>1. DOMAIN more = DOMAIN all \cup {Len(all) + 1}
    BY <1>1
  <2>2. QED
    BY <1>1, <2>1
<1>5. 1..(n + 1) = 1..n \cup {n + 1} /\ n + 1 \notin 1..n
  OBVIOUS
<1>6. 1..(n + 1) = gone \cup {more[k] : k \in DOMAIN more}
  BY <1>4, <1>5 DEF InOnePlace
<1>7. ASSUME NEW k \in DOMAIN more PROVE more[k] \notin gone
  BY <1>1, <1>2, <1>5 DEF InOnePlace
<1>8. QED
  BY <1>3, <1>6, <1>7 DEF InOnePlace, more

(* The drained messages are lost; the others keep their order.             *)
LEMMA MessagesLost ==
  ASSUME NEW first \in Seq(Nat), NEW mid \in Seq(Nat), NEW rest \in Seq(Nat),
         NEW gone, NEW n \in Nat, InOnePlace(first \o mid \o rest, gone, n)
  PROVE  InOnePlace(first \o <<>> \o rest, gone \cup {mid[k] : k \in DOMAIN mid}, n)
<1> DEFINE all == first \o mid \o rest
           left == first \o rest
           f == Len(first)
           m == Len(mid)
           r == Len(rest)
<1>1. first \o <<>> = first
  OBVIOUS
<1>2. /\ f \in Nat /\ m \in Nat /\ r \in Nat
      /\ DOMAIN first = 1..f /\ DOMAIN mid = 1..m /\ DOMAIN rest = 1..r
  OBVIOUS
<1>3. /\ first \o mid \in Seq(Nat) /\ Len(first \o mid) = f + m
      /\ \A k \in 1..(f + m) : (first \o mid)[k] = IF k <= f THEN first[k] ELSE mid[k - f]
  BY ConcatProperties
<1>4. /\ all \in Seq(Nat) /\ Len(all) = f + m + r
      /\ \A k \in 1..(f + m + r) :
           all[k] = IF k <= f + m THEN (first \o mid)[k] ELSE rest[k - (f + m)]
  BY <1>3, ConcatProperties
<1>5. /\ left \in Seq(Nat) /\ Len(left) = f + r
      /\ \A k \in 1..(f + r) : left[k] = IF k <= f THEN first[k] ELSE rest[k - f]
  BY ConcatProperties
<1>6. DOMAIN all = 1..(f + m + r) /\ DOMAIN left = 1..(f + r)
  BY <1>4, <1>5
<1> HIDE DEF all, left, f, m, r
<1> DEFINE place(k) == IF k <= f THEN k ELSE k + m
<1>7. ASSUME NEW k \in DOMAIN left PROVE place(k) \in DOMAIN all /\ left[k] = all[place(k)]
  <2>1. CASE k <= f
    BY <1>2, <1>3, <1>4, <1>5, <1>6, <2>1
  <2>2. CASE ~(k <= f)
    <3>1. k + m \in 1..(f + m + r) /\ ~(k + m <= f + m) /\ (k + m) - (f + m) = k - f
      BY <1>2, <1>6, <2>2
    <3>2. QED
      BY <1>4, <1>5, <1>6, <2>2, <3>1
  <2>3. QED
    BY <2>1, <2>2
<1>8. ASSUME NEW k \in DOMAIN mid PROVE k + f \in DOMAIN all /\ mid[k] = all[k + f]
  <2>1. k + f \in 1..(f + m) /\ ~(k + f <= f) /\ (k + f) - f = k /\ k + f \in 1..(f + m + r)
    BY <1>2
  <2>2. (first \o mid)[k + f] = mid[k]
    BY <1>3, <2>1
  <2>3. all[k + f] = (first \o mid)[k + f]
    <3>1. \A i \in 1..(f + m) : i \in 1..(f + m + r) /\ i <= f + m
      BY <1>2
    <3>2. \A i \in 1..(f + m) : all[i] = (first \o mid)[i]
      BY <1>4, <3>1
    <3>3. QED
      BY <2>1, <3>2
  <2>4. QED
    BY <1>6, <2>1, <2>2, <2>3
<1>9. ASSUME NEW k \in DOMAIN all
      PROVE  \/ \E i \in DOMAIN left : all[k] = left[i]
             \/ \E i \in DOMAIN mid : all[k] = mid[i]
  <2>1. CASE k <= f
    <3>1. k \in DOMAIN left /\ left[k] = all[k]
      BY <1>2, <1>6, <1>7, <2>1
    <3>2. QED
      BY <3>1
  <2>2. CASE k > f /\ k <= f + m
    <3>1. k - f \in DOMAIN mid /\ (k - f) + f = k
      BY <1>2, <1>6, <2>2
    <3>2. QED
      BY <1>8, <3>1
  <2>3. CASE k > f + m
    <3>1. k - m \in DOMAIN left /\ ~(k - m <= f) /\ (k - m) + m = k
      BY <1>2, <1>6, <2>3
    <3>2. QED
      BY <1>7, <3>1
  <2>4. QED
    BY <1>2, <1>6, <2>1, <2>2, <2>3
<1>10. /\ \A i, j \in DOMAIN all : i < j => all[i] < all[j]
       /\ 1..n = gone \cup {all[k] : k \in DOMAIN all}
       /\ \A k \in DOMAIN all : all[k] \notin gone
  BY DEF InOnePlace, all
<1>11. \A i, j \in DOMAIN left : i < j => left[i] < left[j]
  <2>1. \A i, j \in DOMAIN left : i < j => place(i) < place(j)
    BY <1>2, <1>6
  <2> HIDE DEF place
  <2>2. QED
    BY <1>7, <1>10, <2>1
<1>12. 1..n = (gone \cup {mid[k] : k \in DOMAIN mid}) \cup {left[k] : k \in DOMAIN left}
  <2>1. {all[k] : k \in DOMAIN all} =
          {mid[k] : k \in DOMAIN mid} \cup {left[k] : k \in DOMAIN left}
    <3> HIDE DEF place
    <3>1. QED
      BY <1>7, <1>8, <1>9
  <2>2. QED
    BY <1>10, <2>1
<1>13. ASSUME NEW k \in DOMAIN left, NEW i \in DOMAIN mid PROVE left[k] # mid[i]
  <2>1. place(k) \in DOMAIN all /\ i + f \in DOMAIN all /\ place(k) # i + f
    BY <1>2, <1>6, <1>7, <1>8
  <2> HIDE DEF place
  <2>2. all[place(k)] \in Nat /\ all[i + f] \in Nat
    BY <1>4, <2>1
  <2>3. place(k) < i + f \/ i + f < place(k)
    BY <1>6, <1>2, <2>1
  <2>4. all[place(k)] # all[i + f]
    BY <1>10, <2>1, <2>2, <2>3
  <2>5. QED
    BY <1>7, <1>8, <2>4
<1>14. \A k \in DOMAIN left : left[k] \notin gone \cup {mid[i] : i \in DOMAIN mid}
  <2> HIDE DEF place
  <2>1. QED
    BY <1>7, <1>10, <1>13
<1>15. InOnePlace(left, gone \cup {mid[k] : k \in DOMAIN mid}, n)
  BY <1>11, <1>12, <1>14 DEF InOnePlace
<1>16. QED
  BY <1>1, <1>15 DEF left

LEMMA SteeringStep == TypeOK /\ SteeringInv /\ [Next]_vars => SteeringInv'
<1> SUFFICES ASSUME TypeOK, SteeringInv, [Next]_vars PROVE SteeringInv'
  OBVIOUS
<1>1. /\ delivered \in Seq(Nat) /\ draining \in Seq(Nat) /\ steering \in Seq(Nat)
      /\ sent \in Nat
  BY DEF TypeOK
<1>2. delivered \o draining \in Seq(Nat) /\ delivered \o draining \o steering \in Seq(Nat)
  BY <1>1, ConcatProperties
<1>3. \A s \in Seq(Nat) : s \o <<>> = s /\ <<>> \o s = s
  OBVIOUS
<1>4. CASE Steer
  <2>1. /\ sent' = sent + 1 /\ steering' = Append(steering, sent + 1)
        /\ UNCHANGED <<delivered, draining, lost, pc>>
    BY <1>4 DEF Steer
  <2>2. (delivered \o draining) \o Append(steering, sent + 1)
          = Append((delivered \o draining) \o steering, sent + 1)
    BY <1>1, <1>2, AppendJoined
  <2>3. InOnePlace(delivered' \o draining' \o steering', lost', sent')
    BY <1>1, <1>2, <2>1, <2>2, MessageSent DEF SteeringInv
  <2>4. QED
    BY <2>1, <2>3 DEF SteeringInv
<1>5. CASE BeginIteration
  <2>1. pc = "top" /\ steering' = <<>> /\ UNCHANGED <<sent, lost>>
    BY <1>5 DEF BeginIteration, BeginLeaving
  <2>2. draining = <<>>
    BY <2>1 DEF SteeringInv
  <2>3. CASE steering = <<>>
    BY <1>5, <2>1, <2>2, <2>3 DEF BeginIteration, BeginLeaving, SteeringInv
  <2>4. CASE steering # <<>>
    <3>1. /\ delivered' = Append(delivered, Head(steering)) /\ draining' = Tail(steering)
          /\ pc' = "steering"
      BY <1>5, <2>4 DEF BeginIteration, BeginLeaving, DeliverFirst
    <3>2. delivered' \o draining' = delivered \o steering
      BY <1>1, <2>4, <3>1, HeadMoves
    <3>3. delivered \o steering \in Seq(Nat)
      BY <1>1, ConcatProperties
    <3>4. delivered' \o draining' \o steering' = delivered \o draining \o steering
      BY <1>1, <1>3, <2>1, <2>2, <3>2, <3>3
    <3>5. QED
      BY <2>1, <3>1, <3>4 DEF SteeringInv
  <2>5. QED
    BY <2>3, <2>4
<1>6. CASE DrainSteering
  <2>1. /\ draining # <<>> /\ delivered' = Append(delivered, Head(draining))
        /\ draining' = Tail(draining) /\ pc' = "steering"
        /\ UNCHANGED <<steering, sent, lost>>
    BY <1>6 DEF DrainSteering, DeliverFirst
  <2>2. delivered' \o draining' = delivered \o draining
    BY <1>1, <2>1, HeadMoves
  <2>3. QED
    BY <2>1, <2>2 DEF SteeringInv
<1>7. CASE Cancel
  <2>1. /\ draining' = <<>> /\ lost' = lost \cup {draining[k] : k \in DOMAIN draining}
        /\ UNCHANGED <<delivered, steering, sent>>
    BY <1>7 DEF Cancel, DropLocals
  <2>2. InOnePlace(delivered \o <<>> \o steering, lost', sent)
    BY <1>1, <2>1, MessagesLost DEF SteeringInv
  <2>3. QED
    BY <2>1, <2>2 DEF SteeringInv
<1>8. ASSUME UNCHANGED <<delivered, steering, sent, lost>>,
             draining' = draining, pc # "steering" \/ draining = <<>> \/ pc' = pc
      PROVE  SteeringInv'
  BY <1>8 DEF SteeringInv
<1>9. (\E tier \in Tiers : Compact(tier)) \/ CallModel \/ AdapterFails \/ Answer
        \/ (\E reply \in Replies : AskTools(reply)) \/ CollectReal \/ RunBatch
        \/ (\E outcome \in {"ok", "error"} : RecordResult(outcome)) \/ EnterPseudo
      => /\ UNCHANGED <<delivered, steering, sent, lost, draining>>
         /\ pc # "steering" \/ draining = <<>>
  BY DEF Compact, CallModel, Drained, AdapterFails, Answer, AskTools, CollectReal, RunBatch,
         RecordResult, EnterPseudo, EnterAhead
<1>10. SaveNote \/ (\E fact \in Facts : RegisterCitation(fact)) \/ EscalateToOracle
         \/ FinishPseudo \/ RequestClarification \/ CloseClarification \/ Stop
         \/ AbortOnErrors \/ NoAdapter \/ EndIteration \/ StartQuery
       => UNCHANGED <<delivered, steering, sent, lost, draining>> /\ pc # "steering"
  BY DEF SaveNote, At, RegisterCitation, EscalateToOracle, FinishPseudo, RequestClarification,
         CloseClarification, Stop, AbortOnErrors, AbortAtThreshold, NoAdapter, EndIteration,
         EndWith, TurnDone, StartQuery, StartWith
<1>11. CASE Return
  <2>1. pc = "ended" /\ draining' = <<>> /\ UNCHANGED <<delivered, steering, sent, lost>>
    BY <1>11 DEF Return, DropLocals
  <2>2. draining = <<>>
    BY <2>1 DEF SteeringInv
  <2>3. QED
    BY <1>8, <2>1, <2>2
<1>12. Quiet \/ UNCHANGED vars
         => UNCHANGED <<delivered, steering, sent, lost, draining>> /\ pc' = pc
  BY DEF Quiet, vars
<1>13. QED
  BY <1>4, <1>5, <1>6, <1>7, <1>8, <1>9, <1>10, <1>11, <1>12 DEF Next, LoopStep

-----------------------------------------------------------------------------
(* Where the accepted messages stand in a history.                         *)

StandsIn(h, m) == \E i \in DOMAIN h : IsSteering(h[i]) /\ h[i].n = m
Rising(s) == \A i, j \in DOMAIN s : i < j => s[i] < s[j]

Accepted(h, d) ==
  /\ \A i, j \in DOMAIN h :
       i < j /\ IsSteering(h[i]) /\ IsSteering(h[j]) => h[i].n < h[j].n
  /\ \A i \in DOMAIN h : IsSteering(h[i]) => \E k \in DOMAIN d : d[k] = h[i].n
  /\ \A k, l \in DOMAIN d : k < l /\ StandsIn(h, d[k]) => StandsIn(h, d[l])
  /\ \A k \in DOMAIN d : ~StandsIn(h, d[k]) => h # <<>> /\ h[1].kind = "summary"

(* The messages accepted so far rise, and what is drained is above them.   *)
LEMMA AcceptedRise ==
  ASSUME NEW first \in Seq(Nat), NEW second \in Seq(Nat), NEW third \in Seq(Nat),
         Rising(first \o second \o third)
  PROVE  /\ Rising(first)
         /\ second # <<>> => \A k \in DOMAIN first : first[k] < Head(second)
         /\ second = <<>> /\ third # <<>> => \A k \in DOMAIN first : first[k] < Head(third)
<1> DEFINE both == first \o second
           all == both \o third
           f == Len(first)
           s == Len(second)
           t == Len(third)
<1>1. /\ f \in Nat /\ s \in Nat /\ t \in Nat /\ DOMAIN first = 1..f
      /\ second # <<>> => s > 0 /\ Head(second) = second[1]
      /\ second = <<>> => s = 0
      /\ third # <<>> => t > 0 /\ Head(third) = third[1]
  OBVIOUS
<1>2. /\ both \in Seq(Nat) /\ Len(both) = f + s
      /\ \A k \in 1..(f + s) : both[k] = IF k <= f THEN first[k] ELSE second[k - f]
  BY ConcatProperties
<1>3. /\ Len(all) = f + s + t /\ all \in Seq(Nat)
      /\ \A k \in 1..(f + s + t) : all[k] = IF k <= f + s THEN both[k] ELSE third[k - (f + s)]
  BY <1>2, ConcatProperties
<1>4. DOMAIN all = 1..(f + s + t) /\ Rising(all)
  BY <1>3
<1> HIDE DEF all, both, f, s, t
<1>5. \A k \in 1..f : k \in DOMAIN all /\ all[k] = first[k]
  BY <1>1, <1>2, <1>3, <1>4
<1>6. Rising(first)
  BY <1>1, <1>4, <1>5 DEF Rising
<1>7. ASSUME second # <<>>, NEW k \in DOMAIN first PROVE first[k] < Head(second)
  <2>1. f + 1 \in 1..(f + s) /\ ~(f + 1 <= f) /\ (f + 1) - f = 1 /\ k < f + 1 /\ k \in 1..f
    BY <1>1, <1>7
  <2>2. f + 1 \in 1..(f + s + t) /\ f + 1 <= f + s
    BY <1>1, <2>1
  <2>3. f + 1 \in DOMAIN all /\ all[f + 1] = Head(second)
    BY <1>1, <1>2, <1>3, <1>4, <1>7, <2>1, <2>2
  <2>4. QED
    BY <1>4, <1>5, <2>1, <2>3 DEF Rising
<1>8. ASSUME second = <<>>, third # <<>>, NEW k \in DOMAIN first PROVE first[k] < Head(third)
  <2>1. /\ f + 1 \in 1..(f + s + t) /\ ~(f + 1 <= f + s) /\ (f + 1) - (f + s) = 1
        /\ k < f + 1 /\ k \in 1..f
    BY <1>1, <1>8
  <2>2. f + 1 \in DOMAIN all /\ all[f + 1] = Head(third)
    BY <1>1, <1>3, <1>4, <1>8, <2>1
  <2>3. QED
    BY <1>4, <1>5, <2>1, <2>2 DEF Rising
<1>9. QED
  BY <1>6, <1>7, <1>8

(* Any other turn leaves the messages where they stand.                    *)
LEMMA AcceptedTurn ==
  ASSUME NEW h \in Seq(Turn), NEW t \in Turn, NEW d, Accepted(h, d), t.kind # "steering"
  PROVE  Accepted(Append(h, t), d)
<1> DEFINE g == Append(h, t)
<1>1. /\ Len(h) \in Nat /\ DOMAIN h = 1..Len(h) /\ DOMAIN g = 1..(Len(h) + 1)
      /\ \A k \in DOMAIN h : g[k] = h[k]
      /\ g[Len(h) + 1] = t /\ g # <<>>
  OBVIOUS
<1> HIDE DEF g
<1>2. \A i \in DOMAIN g : IsSteering(g[i]) => i \in DOMAIN h /\ g[i] = h[i]
  BY <1>1 DEF IsSteering
<1>3. \A m : StandsIn(g, m) <=> StandsIn(h, m)
  <2>1. \A i \in DOMAIN h : i \in DOMAIN g /\ g[i] = h[i]
    BY <1>1
  <2>2. QED
    BY <1>2, <2>1 DEF StandsIn
<1>4. h # <<>> => g[1] = h[1]
  BY <1>1
<1>5. QED
  BY <1>1, <1>2, <1>3, <1>4 DEF Accepted, g

(* A message is appended as it is accepted.                                *)
LEMMA AcceptedNext ==
  ASSUME NEW h \in Seq(Turn), NEW d \in Seq(Nat), NEW m \in Nat, Accepted(h, d),
         \A k \in DOMAIN d : d[k] < m
  PROVE  Accepted(Append(h, UserTurn("steering", m)), Append(d, m))
<1> DEFINE t == UserTurn("steering", m)
           g == Append(h, t)
           e == Append(d, m)
<1>1. t.n = m /\ IsSteering(t)
  BY DEF UserTurn, IsSteering
<1> HIDE DEF t
<1>2. /\ Len(h) \in Nat /\ DOMAIN h = 1..Len(h) /\ DOMAIN g = 1..(Len(h) + 1)
      /\ \A k \in DOMAIN h : g[k] = h[k]
      /\ g[Len(h) + 1] = t /\ g # <<>>
  OBVIOUS
<1>3. /\ Len(d) \in Nat /\ DOMAIN d = 1..Len(d) /\ DOMAIN e = 1..(Len(d) + 1)
      /\ \A k \in DOMAIN d : e[k] = d[k] /\ d[k] \in Nat
      /\ e[Len(d) + 1] = m
  OBVIOUS
<1> HIDE DEF g, e
<1>4. \A i \in DOMAIN h : IsSteering(h[i]) => \E k \in DOMAIN d : d[k] = h[i].n
  BY DEF Accepted
<1>5. StandsIn(g, m)
  <2>1. Len(h) + 1 \in DOMAIN g /\ IsSteering(g[Len(h) + 1]) /\ g[Len(h) + 1].n = m
    BY <1>1, <1>2
  <2>2. QED
    BY <2>1 DEF StandsIn
<1>6. \A x : StandsIn(h, x) => StandsIn(g, x)
  BY <1>2 DEF StandsIn
<1>7. ASSUME NEW x, StandsIn(g, x), x # m PROVE StandsIn(h, x)
  <2>1. PICK i \in DOMAIN g : IsSteering(g[i]) /\ g[i].n = x
    BY <1>7 DEF StandsIn
  <2>2. i # Len(h) + 1
    BY <1>1, <1>2, <1>7, <2>1
  <2>3. i \in DOMAIN h
    BY <1>2, <2>2
  <2>4. QED
    BY <1>2, <2>1, <2>3 DEF StandsIn
<1>8. ASSUME NEW i \in DOMAIN g, NEW j \in DOMAIN g, i < j, IsSteering(g[i]), IsSteering(g[j])
      PROVE  g[i].n < g[j].n
  <2>1. i \in DOMAIN h /\ g[i] = h[i]
    BY <1>2, <1>8
  <2>2. CASE j \in DOMAIN h
    BY <1>2, <1>8, <2>1, <2>2 DEF Accepted
  <2>3. CASE j \notin DOMAIN h
    <3>1. g[j].n = m
      BY <1>1, <1>2, <2>3
    <3>2. QED
      BY <1>4, <1>8, <2>1, <3>1
  <2>4. QED
    BY <2>2, <2>3
<1>9. ASSUME NEW i \in DOMAIN g, IsSteering(g[i]) PROVE \E k \in DOMAIN e : e[k] = g[i].n
  <2>1. CASE i \in DOMAIN h
    <3>1. PICK k \in DOMAIN d : d[k] = h[i].n
      BY <1>2, <1>4, <1>9, <2>1
    <3>2. QED
      BY <1>2, <1>3, <2>1, <3>1
  <2>2. CASE i \notin DOMAIN h
    BY <1>1, <1>2, <1>3, <2>2
  <2>3. QED
    BY <2>1, <2>2
<1>10. ASSUME NEW k \in DOMAIN e, NEW l \in DOMAIN e, k < l, StandsIn(g, e[k])
       PROVE  StandsIn(g, e[l])
  <2>1. CASE l = Len(d) + 1
    BY <1>3, <1>5, <2>1
  <2>2. CASE l # Len(d) + 1
    <3>1. k \in DOMAIN d /\ l \in DOMAIN d
      BY <1>3, <1>10, <2>2
    <3>2. e[k] = d[k] /\ e[l] = d[l] /\ d[k] # m
      BY <1>3, <3>1
    <3>3. QED
      BY <1>6, <1>7, <1>10, <3>1, <3>2 DEF Accepted
  <2>3. QED
    BY <2>1, <2>2
<1>11. ASSUME NEW k \in DOMAIN e, ~StandsIn(g, e[k]) PROVE g[1].kind = "summary"
  <2>1. k \in DOMAIN d /\ ~StandsIn(h, d[k])
    BY <1>3, <1>5, <1>6, <1>11
  <2>2. h # <<>> /\ h[1].kind = "summary"
    BY <2>1 DEF Accepted
  <2>3. QED
    BY <1>2, <2>2
<1>12. Accepted(g, e)
  BY <1>2, <1>8, <1>9, <1>10, <1>11 DEF Accepted
<1>13. QED
  BY <1>12 DEF g, e, t

(* Compaction folds the oldest of them into the summary.                   *)
LEMMA AcceptedShortened ==
  ASSUME NEW h \in Seq(Turn), NEW g \in Seq(Turn), NEW c \in Nat, Shortened(h, g, c),
         NEW d \in Seq(Nat), Rising(d), Accepted(h, d)
  PROVE  Accepted(g, d)
<1>1. /\ Len(h) \in Nat /\ DOMAIN h = 1..Len(h) /\ Len(g) \in Nat /\ DOMAIN g = 1..Len(g)
      /\ Len(g) = Len(h) - c
  BY TurnAt DEF Shortened
<1>2. g[1].kind = "summary" /\ ~IsSteering(g[1])
  BY DEF Shortened, SummaryTurn, IsSteering
<1>3. ASSUME NEW i \in DOMAIN g, IsSteering(g[i])
      PROVE  i # 1 /\ i + c \in DOMAIN h /\ g[i] = h[i + c]
  <2>1. i # 1
    BY <1>2, <1>3
  <2>2. i \in 2..Len(g) /\ i + c \in 1..Len(h)
    BY <1>1, <2>1
  <2>3. QED
    BY <1>1, <2>1, <2>2 DEF Shortened
<1>4. ASSUME NEW i \in DOMAIN h, i - c > 1
      PROVE  i - c \in DOMAIN g /\ g[i - c] = h[i]
  <2>1. /\ i \in 1..Len(h) /\ i - c > 1 /\ Len(h) \in Nat /\ Len(g) \in Nat /\ c \in Nat
        /\ Len(g) = Len(h) - c
    BY <1>1, <1>4
  <2>2. i - c \in 2..Len(g) /\ i - c \in 1..Len(g) /\ (i - c) + c = i
    BY <2>1
  <2>3. g[i - c] = h[(i - c) + c]
    BY <2>2 DEF Shortened
  <2>4. QED
    BY <1>1, <2>2, <2>3
<1>5. ASSUME NEW i \in DOMAIN g, NEW j \in DOMAIN g, i < j, IsSteering(g[i]), IsSteering(g[j])
      PROVE  g[i].n < g[j].n
  <2>1. i + c < j + c
    BY <1>1, <1>5
  <2>2. QED
    BY <1>3, <1>5, <2>1 DEF Accepted
<1>6. ASSUME NEW i \in DOMAIN g, IsSteering(g[i]) PROVE \E k \in DOMAIN d : d[k] = g[i].n
  <2>1. i + c \in DOMAIN h /\ g[i] = h[i + c]
    BY <1>3, <1>6
  <2>2. QED
    BY <1>6, <2>1 DEF Accepted
<1>7. ASSUME NEW k \in DOMAIN d, NEW l \in DOMAIN d, k < l, StandsIn(g, d[k])
      PROVE  StandsIn(g, d[l])
  <2>1. PICK i \in DOMAIN g : IsSteering(g[i]) /\ g[i].n = d[k]
    BY <1>7 DEF StandsIn
  <2>2. i # 1 /\ i + c \in DOMAIN h /\ g[i] = h[i + c]
    BY <1>3, <2>1
  <2>3. StandsIn(h, d[l])
    BY <1>7, <2>1, <2>2 DEF Accepted, StandsIn
  <2>4. PICK j \in DOMAIN h : IsSteering(h[j]) /\ h[j].n = d[l]
    BY <2>3 DEF StandsIn
  <2>5. d[k] < d[l] /\ d[k] \in Nat /\ d[l] \in Nat
    BY <1>7 DEF Rising
  <2>6. ~(j < i + c) /\ j # i + c
    <3>1. j < i + c => d[l] < d[k]
      BY <2>1, <2>2, <2>4 DEF Accepted
    <3>2. j = i + c => d[l] = d[k]
      BY <2>1, <2>2, <2>4
    <3>3. QED
      BY <2>5, <3>1, <3>2
  <2>7. j - c > 1
    BY <1>1, <2>2, <2>6
  <2>8. QED
    BY <1>4, <2>4, <2>7 DEF StandsIn
<1>8. g # <<>>
  BY DEF Shortened
<1>9. QED
  BY <1>2, <1>5, <1>6, <1>7, <1>8 DEF Accepted

(* Every step keeps the accepted messages in place.                        *)
LEMMA AcceptedStep ==
  TypeOK /\ SteeringInv /\ Accepted(history, delivered) /\ [Next]_vars
    => Accepted(history, delivered)'
<1> SUFFICES ASSUME TypeOK, SteeringInv, Accepted(history, delivered), [Next]_vars
             PROVE  Accepted(history', delivered')
  BY DEF Accepted, StandsIn
<1>1. /\ history \in Seq(Turn) /\ delivered \in Seq(Nat) /\ draining \in Seq(Nat)
      /\ steering \in Seq(Nat) /\ calls \in Seq(Call) /\ batch \in Seq(Call)
      /\ queries \in Nat /\ iterations \in Nat /\ errors \in Nat
  BY DEF TypeOK
<1>2. /\ Rising(delivered)
      /\ draining # <<>> => \A k \in DOMAIN delivered : delivered[k] < Head(draining)
      /\ draining = <<>> /\ steering # <<>> =>
           \A k \in DOMAIN delivered : delivered[k] < Head(steering)
  BY <1>1, AcceptedRise DEF SteeringInv, InOnePlace, Rising
<1>3. CASE UNCHANGED <<history, delivered>>
  BY <1>3
<1>4. ASSUME delivered' = delivered, NEW t \in Turn, t.kind # "steering",
             history' = Append(history, t)
      PROVE  Accepted(history', delivered')
  BY <1>1, <1>4, AcceptedTurn
<1>5. ASSUME delivered' = delivered, NEW kind \in UserKinds \ {"steering"}, NEW n \in Nat,
             history' = Append(history, UserTurn(kind, n))
      PROVE  Accepted(history', delivered')
  <2>1. UserTurn(kind, n) \in Turn /\ UserTurn(kind, n).kind # "steering"
    BY TurnTypes DEF UserTurn
  <2>2. QED
    BY <1>4, <1>5, <2>1
<1>6. ASSUME delivered' = delivered, NEW kind \in ToolKinds, NEW id \in CallId,
             history' = Append(history, ToolTurn(kind, id))
      PROVE  Accepted(history', delivered')
  <2>1. ToolTurn(kind, id) \in Turn /\ ToolTurn(kind, id).kind # "steering"
    BY TurnTypes DEF ToolTurn, ToolKinds
  <2>2. QED
    BY <1>4, <1>6, <2>1
<1>7. ASSUME NEW queue \in Seq(Nat), queue # <<>>, DeliverFirst(queue),
             \A k \in DOMAIN delivered : delivered[k] < Head(queue)
      PROVE  Accepted(history', delivered')
  <2>1. Head(queue) \in Nat
    BY <1>7
  <2>2. QED
    BY <1>1, <1>7, <2>1, AcceptedNext DEF DeliverFirst
<1>8. CASE StartQuery
  BY <1>1, <1>5, <1>8 DEF StartQuery, StartWith, UserKinds
<1>9. CASE BeginIteration
  <2>1. pc = "top"
    BY <1>9 DEF BeginIteration, BeginLeaving
  <2>2. draining = <<>>
    BY <2>1 DEF SteeringInv
  <2>3. CASE steering = <<>>
    BY <1>3, <1>9, <2>3 DEF BeginIteration, BeginLeaving
  <2>4. CASE steering # <<>>
    <3>1. DeliverFirst(steering)
      BY <1>9, <2>4 DEF BeginIteration, BeginLeaving
    <3>2. QED
      BY <1>1, <1>2, <1>7, <2>2, <2>4, <3>1
  <2>5. QED
    BY <2>3, <2>4
<1>10. CASE DrainSteering
  BY <1>1, <1>2, <1>7, <1>10 DEF DrainSteering
<1>11. ASSUME NEW tier \in Tiers, Compact(tier) PROVE Accepted(history', delivered')
  <2>1. history' = Compacted(history, tier) /\ delivered' = delivered
    BY <1>11 DEF Compact
  <2>2. CASE Compacted(history, tier) = history
    BY <1>3, <2>1, <2>2
  <2>3. CASE \E c \in Nat : Shortened(history, Compacted(history, tier), c)
    BY <1>1, <1>2, <2>1, <2>3, CompactedType, AcceptedShortened
  <2>4. QED
    BY <1>1, <2>2, <2>3, CompactedShape
<1>12. CASE CallModel
  <2>1. delivered' = delivered /\ history' = WithIterationNudge(history)
    BY <1>12 DEF CallModel
  <2>2. history' = history \/ history' = Append(history, UserTurn("iteration_nudge", 0))
    BY <2>1 DEF WithIterationNudge
  <2>3. QED
    BY <1>3, <1>5, <2>1, <2>2 DEF UserKinds
<1>13. TextTurn \in Turn /\ TextTurn.kind # "steering"
  BY TurnTypes DEF TextTurn
<1>14. CASE Answer
  BY <1>3, <1>4, <1>13, <1>14 DEF Answer
<1>15. ASSUME NEW reply \in Replies, AskTools(reply) PROVE Accepted(history', delivered')
  <2>1. /\ CallsTurn(CallsOf(reply)) \in Turn /\ CallsTurn(CallsOf(reply)).kind # "steering"
    BY <1>1, CallsOfType, TurnTypes DEF CallsTurn
  <2>2. QED
    BY <1>4, <1>15, <2>1 DEF AskTools
<1>16. ASSUME NEW outcome \in {"ok", "error"}, RecordResult(outcome)
       PROVE  Accepted(history', delivered')
  <2>1. batch # <<>> /\ delivered' = delivered
    BY <1>16 DEF RecordResult, TypeOK
  <2>2. Head(batch).id \in CallId
    <3>1. Head(batch) \in Call
      BY <1>1, <2>1
    <3>2. QED
      BY <3>1 DEF Call
  <2>3. history' = history \/ history' = Append(history, ToolTurn(outcome, Head(batch).id))
    BY <1>16 DEF RecordResult
  <2>4. QED
    BY <1>3, <1>6, <2>1, <2>2, <2>3 DEF ToolKinds
<1>17. calls # <<>> => Head(calls).id \in CallId
  <2>1. calls # <<>> => Head(calls) \in Call
    BY <1>1
  <2>2. QED
    BY <2>1 DEF Call
<1>18. CASE SaveNote \/ FinishPseudo \/ CloseClarification
  <2>1. calls # <<>> /\ delivered' = delivered /\ Acknowledge
    BY <1>18 DEF SaveNote, FinishPseudo, CloseClarification, At, TypeOK
  <2>2. QED
    BY <1>6, <1>17, <2>1 DEF Acknowledge, ToolKinds
<1>19. CASE Stop
  <2> DEFINE answered == Append(history, ToolTurn("ack", Head(calls).id))
  <2>1. calls # <<>> /\ delivered' = delivered
        /\ (history' = answered \/ history' = Append(answered, TextTurn))
    BY <1>19 DEF Stop, At, TypeOK
  <2>2. /\ ToolTurn("ack", Head(calls).id) \in Turn
        /\ ToolTurn("ack", Head(calls).id).kind # "steering"
    <3>1. "ack" \in ToolKinds /\ Head(calls).id \in CallId
      BY <1>17, <2>1 DEF ToolKinds
    <3>2. ToolTurn("ack", Head(calls).id).kind = "ack"
      BY DEF ToolTurn
    <3>3. QED
      BY <3>1, <3>2, TurnTypes
  <2>3. answered \in Seq(Turn) /\ Accepted(answered, delivered)
    BY <1>1, <2>2, AcceptedTurn
  <2> HIDE DEF answered
  <2>4. Accepted(Append(answered, TextTurn), delivered)
    BY <1>13, <2>3, AcceptedTurn
  <2>5. QED
    BY <2>1, <2>3, <2>4
<1>20. CASE EndIteration
  <2>1. delivered' = delivered
        /\ (history' = history \/ history' = Append(history, UserTurn("error_nudge", errors)))
    BY <1>20 DEF EndIteration, EndWith
  <2>2. QED
    BY <1>1, <1>3, <1>5, <2>1 DEF UserKinds
<1>21. Steer \/ NoAdapter \/ AdapterFails \/ CollectReal \/ RunBatch \/ EnterPseudo
         \/ (\E fact \in Facts : RegisterCitation(fact)) \/ EscalateToOracle
         \/ RequestClarification
       => UNCHANGED <<history, delivered>>
  BY DEF Steer, NoAdapter, AdapterFails, CollectReal, RunBatch, EnterPseudo, EnterAhead,
         RegisterCitation, EscalateToOracle, RequestClarification
<1>22. AbortOnErrors \/ Return \/ Cancel \/ Quiet \/ UNCHANGED vars
       => UNCHANGED <<history, delivered>>
  BY DEF AbortOnErrors, AbortAtThreshold, Return, Cancel, Quiet, vars
<1>23. QED
  BY <1>3, <1>8, <1>9, <1>10, <1>11, <1>12, <1>14, <1>15, <1>16, <1>18, <1>19, <1>20,
     <1>21, <1>22 DEF Next, LoopStep

(* No steering message is duplicated, reordered or dropped in silence,     *)
(* however steering, draining, abandoned runs and compaction interleave:   *)
(* an accepted one is in the history or, with all older ones, behind the   *)
(* summary at its head.                                                    *)
THEOREM SteeringKept == Spec => []SteeringConserved
<1>1. Init => SteeringInv
  <2>1. SUFFICES ASSUME Init PROVE SteeringInv
    OBVIOUS
  <2>2. delivered \o draining \o steering = <<>> /\ draining = <<>> /\ sent = 0 /\ lost = {}
    BY <2>1 DEF Init
  <2>3. InOnePlace(<<>>, {}, 0)
    BY DEF InOnePlace
  <2>4. QED
    BY <2>2, <2>3 DEF SteeringInv
<1>2. Init => Accepted(history, delivered)
  BY DEF Init, Accepted, StandsIn
<1>3. TypeOK /\ SteeringInv /\ Accepted(history, delivered) => SteeringConserved
  <2>1. SUFFICES ASSUME TypeOK, SteeringInv, Accepted(history, delivered)
                 PROVE  SteeringConserved
    OBVIOUS
  <2>2. \A m : Stands(m) <=> StandsIn(history, m)
    BY DEF Stands, StandsIn
  <2>3. DOMAIN delivered = 1..Len(delivered) /\ Len(delivered) \in Nat
    BY <2>1 DEF TypeOK
  <2>4. ASSUME NEW k \in DOMAIN delivered, ~Stands(delivered[k])
        PROVE  /\ history # <<>> /\ history[1].kind = "summary"
               /\ \A older \in 1..k : ~Stands(delivered[older])
    <3>1. history # <<>> /\ history[1].kind = "summary"
      BY <2>1, <2>2, <2>4 DEF Accepted
    <3>2. ASSUME NEW older \in 1..k PROVE ~Stands(delivered[older])
      <4>1. older \in DOMAIN delivered /\ (older < k \/ older = k)
        BY <2>3
      <4>2. QED
        BY <2>1, <2>2, <2>4, <4>1 DEF Accepted
    <3>3. QED
      BY <3>1, <3>2
  <2>5. QED
    BY <2>1, <2>4 DEF SteeringInv, InOnePlace, Accepted, SteeringConserved
<1>4. QED
  BY <1>1, <1>2, <1>3, SteeringStep, AcceptedStep, TypeCorrect, PTL DEF Spec
=============================================================================
