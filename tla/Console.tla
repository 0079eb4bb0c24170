------------------------------ MODULE Console ------------------------------
(***************************************************************************)
(* The interactive prompt of cli/chat.py around one session: key bindings, *)
(* a consumer task that runs one query after another, and the task of the  *)
(* run itself, on one event loop.  An action is what the loop executes     *)
(* between two suspensions.                                                *)
(*                                                                         *)
(* Lines are numbered as they are entered, steering messages likewise.     *)
(* What a run does is left to AgentLoop, but for the steering it drains    *)
(* and its end.  Text goes to the terminal as Rich markup: whether what is *)
(* printed can be read as such is chosen as it is printed, the lines and   *)
(* the errors being any.  Task.cancel of asyncio is external: it cancels   *)
(* what the task waits for, and marks the task only if that is done.       *)
(*                                                                         *)
(* The siblings no action uses (GoOnCancelling, ...) are forms a plausible *)
(* bug would give a definition, for checking the properties.               *)
(***************************************************************************)
EXTENDS Naturals, Sequences

CONSTANTS
  MaxLines,  \* bound of the model: lines entered
  MaxSteers  \* bound of the model: steering messages

ASSUME ConsoleAssumption == MaxLines \in Nat /\ MaxSteers \in Nat

VARIABLES
  app,        \* the caller: "prompt", "exited" the prompt, "leaving", "ended"
  consumer,   \* "getting" a line, "awaiting" the run, "ended", "failed"
  stopping,   \* the consumer's next step raises CancelledError
  lines,      \* what became of each line: "queued", "run", "answered",
              \* "cancelled", "failed", "unprintable" itself or its error
  input_q,    \* lines waiting
  running,    \* the flag the key bindings look at
  query,      \* the line of current_task, 0 without one
  task,       \* that task: "none", "new", "going", "finished", "cancelled",
              \* "raised" what the report of its failure raised
  cancelling, \* its next step raises CancelledError
  aimed,      \* lines whose run was the current one as Ctrl+C was pressed
  posted,     \* steering: tasks that have not started yet
  inbox,      \* the session's steering queue
  draining,   \* messages the run took off it and has not appended yet
  taken,      \* the messages before those: <<message, line of the run that
              \* took it, whether that run appended it to the conversation>>
  typed       \* for each message the line of the run it was typed at

steering == <<posted, inbox, draining, taken, typed>>
vars == <<app, consumer, stopping, lines, input_q, running, query, task, cancelling,
          aimed, steering>>

Lines == DOMAIN lines
Steered == Len(typed)
TaskDone == task \in {"finished", "cancelled", "raised"}

Init ==
  /\ app = "prompt" /\ consumer = "getting" /\ stopping = FALSE
  /\ lines = <<>> /\ input_q = <<>> /\ running = FALSE
  /\ query = 0 /\ task = "none" /\ cancelling = FALSE /\ aimed = {}
  /\ posted = <<>> /\ inbox = <<>> /\ draining = <<>> /\ taken = <<>> /\ typed = <<>>

-----------------------------------------------------------------------------
(* The key bindings.                                                       *)

Enter ==
  /\ app = "prompt" /\ Len(lines) < MaxLines
  /\ lines' = Append(lines, "queued") /\ input_q' = Append(input_q, Len(lines) + 1)
  /\ UNCHANGED <<app, consumer, stopping, running, query, task, cancelling, aimed,
                 steering>>

ExitPrompt == app' = "exited"

(* /exit and /quit, a run in flight or not.                                *)
Quit ==
  /\ app = "prompt" /\ ExitPrompt
  /\ UNCHANGED <<consumer, stopping, lines, input_q, running, query, task, cancelling,
                 aimed, steering>>

CtrlD ==
  /\ app = "prompt" /\ ~running /\ ExitPrompt
  /\ UNCHANGED <<consumer, stopping, lines, input_q, running, query, task, cancelling,
                 aimed, steering>>

(* A run that is done, and not yet seen by the consumer, is not cancelled: *)
(* Ctrl+C then leaves.                                                     *)
CtrlC ==
  /\ app = "prompt" /\ aimed' = (IF running THEN aimed \cup {query} ELSE aimed)
  /\ IF running /\ ~TaskDone
     THEN cancelling' = TRUE /\ UNCHANGED app
     ELSE ExitPrompt /\ UNCHANGED cancelling
  /\ UNCHANGED <<consumer, stopping, lines, input_q, running, query, task, steering>>

Steer ==
  /\ app = "prompt" /\ running /\ Steered < MaxSteers
  /\ posted' = Append(posted, Steered + 1) /\ typed' = Append(typed, query)
  /\ UNCHANGED <<app, consumer, stopping, lines, input_q, running, query, task, cancelling,
                 aimed, inbox, draining, taken>>

(* The task of Session.steer: nothing tells it that the run has ended.     *)
SteerArrives ==
  /\ posted # <<>> /\ posted' = Tail(posted) /\ inbox' = Append(inbox, Head(posted))
  /\ UNCHANGED <<app, consumer, stopping, lines, input_q, running, query, task, cancelling,
                 aimed, draining, taken, typed>>

-----------------------------------------------------------------------------
(* The consumer.  A get on a queue that holds a line does not suspend, so  *)
(* the consumer goes from one run to the next in one step.  The line is    *)
(* echoed first, outside any try: what that raises ends the consumer.      *)
StartRun ==
  /\ query' = Head(input_q) /\ input_q' = Tail(input_q)
  /\ lines' = [lines EXCEPT ![Head(input_q)] = "run"]
  /\ running' = TRUE /\ task' = "new" /\ consumer' = "awaiting"

EchoFails ==
  /\ query' = 0 /\ input_q' = Tail(input_q)
  /\ lines' = [lines EXCEPT ![Head(input_q)] = "unprintable"]
  /\ running' = FALSE /\ task' = "none" /\ consumer' = "failed"

Serve == StartRun \/ EchoFails

Rest ==
  /\ query' = 0 /\ running' = FALSE /\ task' = "none" /\ consumer' = "getting"
  /\ UNCHANGED <<lines, input_q>>

NextRun == IF input_q = <<>> THEN Rest ELSE Serve

Get ==
  /\ consumer = "getting" /\ ~stopping /\ input_q # <<>> /\ Serve /\ cancelling' = FALSE
  /\ UNCHANGED <<app, stopping, aimed, steering>>

(* A task that was cancelled before it started never runs, and its query   *)
(* is not in the session.                                                  *)
Began == task' = IF cancelling THEN "cancelled" ELSE "going"
Begin ==
  /\ task = "new" /\ Began
  /\ lines' = [lines EXCEPT ![query] = IF cancelling THEN "cancelled" ELSE @]
  /\ UNCHANGED <<app, consumer, stopping, input_q, running, query, cancelling, aimed,
                 steering>>

(* The run drains the session's queue as an iteration begins: the first    *)
(* message is appended at once, each other one behind the event of the one *)
(* before, where the run can be cancelled and the consumer can fail.       *)
Appends(message) == taken' = Append(taken, <<message, query, TRUE>>)
DrainKeeping == Appends(Head(inbox)) /\ draining' = Tail(inbox) /\ UNCHANGED inbox
Drain == Appends(Head(inbox)) /\ draining' = Tail(inbox) /\ inbox' = <<>>

Iterate ==
  /\ task = "going" /\ ~cancelling /\ draining = <<>> /\ inbox # <<>> /\ Drain
  /\ UNCHANGED <<app, consumer, stopping, lines, input_q, running, query, task, cancelling,
                 aimed, posted, typed>>

Deliver ==
  /\ task = "going" /\ ~cancelling /\ draining # <<>>
  /\ Appends(Head(draining)) /\ draining' = Tail(draining)
  /\ UNCHANGED <<app, consumer, stopping, lines, input_q, running, query, task, cancelling,
                 aimed, posted, inbox, typed>>

(* What a run that breaks off has drained goes with it.                    *)
Abandon ==
  /\ taken' = taken \o [k \in DOMAIN draining |-> <<draining[k], query, FALSE>>]
  /\ draining' = <<>> /\ UNCHANGED <<posted, inbox, typed>>

CancelRun ==
  /\ task = "going" /\ cancelling /\ task' = "cancelled" /\ Abandon
  /\ lines' = [lines EXCEPT ![query] = "cancelled"]
  /\ UNCHANGED <<app, consumer, stopping, input_q, running, query, cancelling, aimed>>

RunEnds ==
  /\ task = "going" /\ ~cancelling /\ draining = <<>> /\ task' = "finished"
  /\ lines' = [lines EXCEPT ![query] = "answered"]
  /\ UNCHANGED <<app, consumer, stopping, input_q, running, query, cancelling, aimed,
                 steering>>

(* An event cannot be stored or rendered: the error is reported, as Rich   *)
(* markup too, and what the report raises is the end of the task.          *)
RunFails ==
  /\ task = "going" /\ ~cancelling /\ Abandon
  /\ \/ task' = "finished" /\ lines' = [lines EXCEPT ![query] = "failed"]
     \/ task' = "raised" /\ lines' = [lines EXCEPT ![query] = "unprintable"]
  /\ UNCHANGED <<app, consumer, stopping, input_q, running, query, cancelling, aimed>>

(* The wait for the run is over.  A cancelled run counts as cancelled by   *)
(* Ctrl+C, whoever cancelled it; what a run raised ends the consumer, with *)
(* the flag and current_task as they are.                                  *)
ShutdownAnyhow == stopping \/ task = "cancelled"
Shutdown == stopping /\ task # "cancelled"
GoOnCancelling == UNCHANGED cancelling /\ NextRun
GoOn == cancelling' = FALSE /\ NextRun

Wake ==
  /\ consumer = "awaiting" /\ TaskDone
  /\ \/ /\ Shutdown
        /\ consumer' = "ended" /\ running' = FALSE /\ query' = 0 /\ task' = "none"
        /\ UNCHANGED <<lines, input_q, stopping, cancelling>>
     \/ /\ ~Shutdown /\ task = "raised" /\ consumer' = "failed"
        /\ UNCHANGED <<lines, input_q, stopping, cancelling, running, query, task>>
     \/ ~Shutdown /\ task # "raised" /\ GoOn /\ stopping' = FALSE
  /\ UNCHANGED <<app, aimed, steering>>

(* A consumer that only waited for a line ends.                            *)
Stop ==
  /\ consumer = "getting" /\ stopping /\ consumer' = "ended"
  /\ UNCHANGED <<app, stopping, lines, input_q, running, query, task, cancelling, aimed,
                 steering>>

-----------------------------------------------------------------------------
(* Leaving: the consumer is cancelled and awaited, and what ended it is    *)
(* raised again.                                                           *)
CancelConsumer ==
  CASE consumer = "failed" -> UNCHANGED <<stopping, cancelling>>
    [] consumer = "awaiting" /\ ~TaskDone -> cancelling' = TRUE /\ UNCHANGED stopping
    [] OTHER -> stopping' = TRUE /\ UNCHANGED cancelling

Leave ==
  /\ app = "exited" /\ app' = "leaving" /\ CancelConsumer
  /\ UNCHANGED <<consumer, lines, input_q, running, query, task, aimed, steering>>

(* SIGINT while it is awaited: asyncio.run cancels the caller, and that    *)
(* the consumer.                                                           *)
Interrupt ==
  /\ app = "leaving" /\ consumer \in {"getting", "awaiting"} /\ ~stopping /\ CancelConsumer
  /\ UNCHANGED <<app, consumer, lines, input_q, running, query, task, aimed, steering>>

Return ==
  /\ app = "leaving" /\ consumer \in {"ended", "failed"} /\ app' = "ended"
  /\ UNCHANGED <<consumer, stopping, lines, input_q, running, query, task, cancelling,
                 aimed, steering>>

Keys == Enter \/ Quit \/ CtrlD \/ CtrlC \/ Steer \/ Interrupt
EventLoop ==
  \/ SteerArrives \/ Get \/ Begin \/ Iterate \/ Deliver \/ CancelRun \/ RunEnds \/ RunFails
  \/ Wake \/ Stop \/ Leave \/ Return
Next == Keys \/ EventLoop

(* The loop executes what is ready, and a run ends at some time (AgentLoop:*)
(* QueryTerminates); nobody has to press a key.                            *)
Fairness ==
  /\ WF_vars(Get) /\ WF_vars(Begin) /\ WF_vars(Deliver) /\ WF_vars(CancelRun)
  /\ WF_vars(RunEnds)
  /\ WF_vars(Wake) /\ WF_vars(Stop) /\ WF_vars(Leave) /\ WF_vars(Return)

Spec == Init /\ [][Next]_vars /\ Fairness

-----------------------------------------------------------------------------
(* Properties.                                                             *)

(* Ctrl+C reaches the run it was pressed at and no other: while the prompt *)
(* is there, a run is only cancelled, or about to be, if it was the        *)
(* current one at some Ctrl+C, and what was meant for a run that has ended *)
(* does not take the next one with it.                                     *)
CancelsItsRun ==
  app = "prompt" =>
    /\ \A q \in Lines : lines[q] = "cancelled" => q \in aimed
    /\ cancelling => query \in aimed

(* A message of a run that broke off before it had appended it.            *)
Over == {"answered", "cancelled", "failed", "unprintable"}
DroppedWithRun(k) ==
  /\ lines[taken[k][2]] \in Over \ {"answered"}
  /\ \E j \in 1..(k - 1) : taken[j][2] = taken[k][2] /\ taken[j][3]

(* Steering is neither delivered twice nor overtaken.  The run it was      *)
(* typed at takes it or, that run being over, a later one (where the       *)
(* comment of the key binding, chat.py:329, only speaks of the first); and *)
(* it is lost only with a run that took it off the queue together with     *)
(* messages it did append, and was cancelled or failed right behind those. *)
SteeringKept ==
  LET messages == [k \in DOMAIN taken |-> taken[k][1]] \o draining \o inbox \o posted
  IN /\ messages = [k \in 1..Steered |-> k]
     /\ \A j, k \in DOMAIN taken : j <= k => taken[j][2] <= taken[k][2]
     /\ \A k \in DOMAIN taken :
          /\ typed[k] # taken[k][2] => typed[k] < taken[k][2] /\ lines[typed[k]] \in Over
          /\ ~taken[k][3] => DroppedWithRun(k)

(* Every line that was entered is run, behind those entered before, unless *)
(* the user leaves, or the text of a line as early, or the error its run   *)
(* is reported to have failed with, is no markup Rich can print: a         *)
(* cancelled run, and a failed one reported, do not stop the consumer.     *)
LinesServed ==
  \A q \in 1..MaxLines :
    (q \in Lines) ~>
      \/ app # "prompt"
      \/ q \in Lines /\ lines[q] \in Over
      \/ \E p \in Lines : p < q /\ lines[p] = "unprintable"
=============================================================================
