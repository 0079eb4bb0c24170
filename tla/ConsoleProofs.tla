--------------------------- MODULE ConsoleProofs ---------------------------
(***************************************************************************)
(* Proofs about Console, for any number of lines and steering messages:    *)
(* Ctrl+C cancels the run it was pressed at, and steering is kept.         *)
(***************************************************************************)
EXTENDS Console, TLAPS

Fates == {"queued", "run", "answered", "cancelled", "failed", "unprintable"}

(* A message taken, the run that took it, and whether that appended it.     *)
Took == Nat \X Nat \X BOOLEAN

TypeInv ==
  /\ lines \in Seq(Fates) /\ input_q \in Seq(Nat)
  /\ posted \in Seq(Nat) /\ inbox \in Seq(Nat) /\ draining \in Seq(Nat)
  /\ taken \in Seq(Took) /\ typed \in Seq(Nat)
  /\ query \in Nat /\ app \in {"prompt", "exited", "leaving", "ended"}
  /\ task \in {"none", "new", "going", "finished", "cancelled", "raised"}

(* The consumer takes the lines as they were entered: those that wait are  *)
(* the last ones, and the current run is of the one before them.           *)
Started == Len(lines) - Len(input_q)
Runs == task \in {"new", "going"}
InTurn ==
  /\ Started \in Nat
  /\ \A k \in 1..Len(input_q) : input_q[k] = Started + k
  /\ task # "none" => query = Started /\ query # 0
  /\ running => task # "none"
  /\ consumer = "getting" => task = "none"

(* Of the lines taken, only that of the current run has no end yet.        *)
Settled ==
  \A k \in 1..Started :
    IF k = Started /\ Runs THEN lines[k] = "run" ELSE lines[k] \in Over

(* Only leaving stops the consumer.                                        *)
StopsBehindPrompt == stopping => app # "prompt"

(* Each message is at the place of its number, over the four queues it     *)
(* passes; no run that took one is younger than the last one started, or   *)
(* older than the one it was typed at.                                     *)
Numbered ==
  /\ \A k \in 1..Len(taken) : taken[k][1] = k
  /\ \A k \in 1..Len(draining) : draining[k] = Len(taken) + k
  /\ \A k \in 1..Len(inbox) : inbox[k] = Len(taken) + Len(draining) + k
  /\ \A k \in 1..Len(posted) : posted[k] = Len(taken) + Len(draining) + Len(inbox) + k
  /\ Len(typed) = Len(taken) + Len(draining) + Len(inbox) + Len(posted)

TakenInTurn ==
  /\ \A k \in 1..Len(taken) : taken[k][2] \in 1..Started
  /\ \A j, k \in 1..Len(taken) : j <= k => taken[j][2] <= taken[k][2]
  /\ \A k \in 1..Len(typed) : typed[k] \in 1..Started
  /\ \A k \in 1..Len(taken) : typed[k] <= taken[k][2]

(* What is being drained stands behind a message its run has appended.     *)
Draining ==
  draining # <<>> =>
    task = "going" /\ \E j \in 1..Len(taken) : taken[j][2] = query /\ taken[j][3]

Dropped == \A k \in 1..Len(taken) : ~taken[k][3] => DroppedWithRun(k)

SteeringInv == Numbered /\ TakenInTurn /\ Draining /\ Dropped

Inv ==
  TypeInv /\ InTurn /\ Settled /\ StopsBehindPrompt /\ CancelsItsRun /\ SteeringInv

-----------------------------------------------------------------------------
(* A place behind the first m is so many behind m.                         *)
LEMMA PlaceBehind ==
  ASSUME NEW m \in Nat, NEW n \in Nat, NEW k \in 1..(m + n), k \notin 1..m
  PROVE  \E i \in 1..n : k = m + i
<1>1. k - m \in 1..n /\ k = m + (k - m)
  OBVIOUS
<1>2. QED
  BY <1>1

(* Two sequences one behind the other, by the places of the elements.      *)
LEMMA Behind ==
  ASSUME NEW S, NEW u \in Seq(S), NEW v \in Seq(S), NEW w, w = u \o v
  PROVE  /\ w \in Seq(S) /\ Len(u) \in Nat /\ Len(v) \in Nat
         /\ Len(w) = Len(u) + Len(v)
         /\ \A k \in 1..Len(u) : w[k] = u[k]
         /\ \A i \in 1..Len(v) : w[Len(u) + i] = v[i]
         /\ \A k \in 1..(Len(u) + Len(v)) :
              k \in 1..Len(u) \/ \E i \in 1..Len(v) : k = Len(u) + i
<1>1. Len(u) \in Nat /\ Len(v) \in Nat
  OBVIOUS
<1>2. \A k \in 1..(Len(u) + Len(v)) :
        k \in 1..Len(u) \/ \E i \in 1..Len(v) : k = Len(u) + i
  BY <1>1, PlaceBehind
<1>3. w \in Seq(S) /\ Len(w) = Len(u) + Len(v)
  OBVIOUS
<1>4. \A k \in 1..Len(u) : w[k] = u[k]
  OBVIOUS
<1>5. \A i \in 1..Len(v) : w[Len(u) + i] = v[i]
  OBVIOUS
<1>6. QED
  BY <1>1, <1>2, <1>3, <1>4, <1>5

(* A row of places and the row that goes on behind it.                     *)
LEMMA RowGrows ==
  ASSUME NEW u \in Seq(Nat), NEW v \in Seq(Nat), NEW w, w = u \o v,
         \A k \in 1..Len(u) : u[k] = k,
         \A i \in 1..Len(v) : v[i] = Len(u) + i
  PROVE  \A k \in 1..Len(w) : w[k] = k
<1>1. Len(w) = Len(u) + Len(v) /\ Len(u) \in Nat /\ Len(v) \in Nat
  OBVIOUS
<1>2. ASSUME NEW k \in 1..Len(u) PROVE w[k] = k
  <2>1. w[k] = u[k]
    OBVIOUS
  <2>2. QED
    BY <2>1
<1>3. ASSUME NEW i \in 1..Len(v) PROVE w[Len(u) + i] = Len(u) + i
  <2>1. w[Len(u) + i] = v[i]
    OBVIOUS
  <2>2. QED
    BY <2>1
<1>4. ASSUME NEW k \in 1..Len(w), k \notin 1..Len(u) PROVE w[k] = k
  <2>1. k - Len(u) \in 1..Len(v) /\ k = Len(u) + (k - Len(u))
    BY <1>1, <1>4
  <2>2. PICK i \in 1..Len(v) : k = Len(u) + i
    BY <2>1
  <2>3. QED
    BY <1>3, <2>2
<1>5. QED
  BY <1>2, <1>4

(* A queue whose elements are the places behind the first n, and the next. *)
LEMMA RowAppended ==
  ASSUME NEW q \in Seq(Nat), NEW n \in Nat, NEW w, w = Append(q, n + Len(q) + 1),
         \A k \in 1..Len(q) : q[k] = n + k
  PROVE  \A k \in 1..Len(w) : w[k] = n + k
<1>1. Len(q) \in Nat /\ Len(w) = Len(q) + 1
  OBVIOUS
<1>2. \A k \in 1..Len(q) : w[k] = q[k]
  OBVIOUS
<1>3. w[Len(q) + 1] = n + Len(q) + 1
  OBVIOUS
<1>4. ASSUME NEW k \in 1..(Len(q) + 1) PROVE w[k] = n + k
  <2>1. CASE k \in 1..Len(q)
    BY <1>2, <2>1
  <2>2. CASE k = Len(q) + 1
    BY <1>1, <1>3, <2>2
  <2>3. QED
    BY <1>1, <2>1, <2>2
<1>5. QED
  BY <1>1, <1>4

(* A line meets its fate.                                                  *)
LEMMA FateGiven ==
  ASSUME NEW ls \in Seq(Fates), NEW q, NEW f \in Fates, NEW new,
         new = [ls EXCEPT ![q] = f]
  PROVE  new \in Seq(Fates) /\ Len(new) = Len(ls) /\ DOMAIN new = DOMAIN ls
<1>1. DOMAIN ls = 1..Len(ls) /\ Len(ls) \in Nat /\ ls \in [1..Len(ls) -> Fates]
  OBVIOUS
<1>2. new \in [1..Len(ls) -> Fates]
  BY <1>1
<1>3. QED
  BY <1>1, <1>2

(* Three queues whose elements are the numbers of their places, one behind *)
(* the other, are the numbers in order.                                    *)
LEMMA InARow ==
  ASSUME NEW r \in Seq(Nat), NEW s \in Seq(Nat), NEW t \in Seq(Nat),
         \A k \in 1..Len(r) : r[k] = k,
         \A k \in 1..Len(s) : s[k] = Len(r) + k,
         \A k \in 1..Len(t) : t[k] = Len(r) + Len(s) + k
  PROVE  r \o s \o t = [k \in 1..(Len(t) + Len(s) + Len(r)) |-> k]
<1>1. PICK rs : rs = r \o s
  OBVIOUS
<1>2. /\ rs \in Seq(Nat) /\ Len(rs) = Len(r) + Len(s)
      /\ Len(r) \in Nat /\ Len(s) \in Nat /\ Len(t) \in Nat
  BY <1>1
<1>3. \A k \in 1..Len(rs) : rs[k] = k
  BY <1>1, RowGrows
<1>4. \A k \in 1..Len(t) : t[k] = Len(rs) + k
  BY <1>2
<1>5. ASSUME NEW all, all = rs \o t
      PROVE  all = [k \in 1..(Len(t) + Len(s) + Len(r)) |-> k]
  <2>1. rs \in Seq(Nat)
    BY <1>2
  <2>2. all \in Seq(Nat) /\ Len(all) = Len(rs) + Len(t)
    BY <1>5, <2>1
  <2>3. \A k \in 1..Len(all) : all[k] = k
    BY <1>3, <1>4, <1>5, <2>1, RowGrows
  <2>4. all = [k \in 1..Len(all) |-> all[k]]
    BY <2>2
  <2>5. all = [k \in 1..Len(all) |-> k]
    BY <2>3, <2>4
  <2>6. Len(all) = Len(t) + Len(s) + Len(r)
    BY <1>2, <2>2
  <2>7. QED
    BY <2>5, <2>6
<1>6. QED
  BY <1>1, <1>5

-----------------------------------------------------------------------------
(* Console starts with nothing entered, cancelled or steered.              *)
LEMMA InitInv == Init => Inv
  BY DEF Init, Inv, TypeInv, InTurn, Started, Runs, Settled, StopsBehindPrompt,
         CancelsItsRun, Lines, SteeringInv, Numbered, TakenInTurn, Draining, Dropped

-----------------------------------------------------------------------------
(* What the parts of the invariant rest on: a step that leaves the         *)
(* variables of a part alone keeps it.                                     *)

(* The steering parts only look at the queues, at the number of lines      *)
(* started and at those that are over.                                     *)
OverKept == \A q \in 1..Started : lines[q] \in Over => lines'[q] = lines[q]

LEMMA TakenUndisturbed ==
  ASSUME TypeInv, TakenInTurn, UNCHANGED <<taken, typed>>,
         Started \in Nat, Started' \in Nat, Started <= Started'
  PROVE  TakenInTurn'
<1>1. \A k \in 1..Len(typed) : typed[k] \in Nat
  BY DEF TypeInv
<1>2. \A k \in 1..Len(typed) : typed[k] \in 1..Started'
  BY <1>1 DEF TakenInTurn
<1>3. \A k \in 1..Len(taken) : taken[k][2] \in 1..Started'
  BY DEF TakenInTurn
<1>4. QED
  BY <1>2, <1>3 DEF TakenInTurn

LEMMA DroppedUndisturbed ==
  ASSUME Dropped, TakenInTurn, OverKept, UNCHANGED taken
  PROVE  Dropped'
<1>1. ASSUME NEW k \in 1..Len(taken), ~taken[k][3] PROVE DroppedWithRun(k)'
  <2>1. DroppedWithRun(k) /\ taken[k][2] \in 1..Started
    BY <1>1 DEF Dropped, TakenInTurn
  <2>2. lines'[taken[k][2]] = lines[taken[k][2]]
    BY <2>1 DEF DroppedWithRun, OverKept
  <2>3. QED
    BY <2>1, <2>2 DEF DroppedWithRun
<1>2. QED
  BY <1>1 DEF Dropped

LEMMA SteeringUndisturbed ==
  ASSUME TypeInv, SteeringInv, UNCHANGED steering, OverKept,
         Started \in Nat, Started' \in Nat, Started <= Started',
         draining # <<>> => task' = task /\ query' = query
  PROVE  SteeringInv'
<1>1. Numbered'
  BY DEF SteeringInv, Numbered, steering
<1>2. TakenInTurn'
  BY TakenUndisturbed DEF SteeringInv, steering
<1>3. Draining'
  BY DEF SteeringInv, Draining, steering
<1>4. Dropped'
  BY DroppedUndisturbed DEF SteeringInv, steering
<1>5. QED
  BY <1>1, <1>2, <1>3, <1>4 DEF SteeringInv

(* A line that is entered goes behind those that wait.                     *)
LEMMA EnterInv == Inv /\ Enter => Inv'
<1> SUFFICES ASSUME Inv, Enter PROVE Inv'
  OBVIOUS
<1> USE DEF Inv
<1>1. TypeInv'
  BY DEF Enter, TypeInv, Fates, steering
<1>2. Started' = Started /\ Started' \in Nat
  BY DEF Enter, TypeInv, InTurn, Started
<1>3. InTurn'
  <2>1. /\ input_q \in Seq(Nat) /\ Len(input_q) \in Nat /\ Len(lines) \in Nat
        /\ Started + Len(input_q) + 1 = Len(lines) + 1
        /\ input_q' = Append(input_q, Len(lines) + 1)
    BY DEF Enter, TypeInv, Started
  <2>2. input_q' = Append(input_q, Started + Len(input_q) + 1)
    BY <2>1
  <2>3. \A k \in 1..Len(input_q') : input_q'[k] = Started + k
    <3>1. Started \in Nat /\ \A k \in 1..Len(input_q) : input_q[k] = Started + k
      BY <1>2 DEF InTurn
    <3> HIDE DEF Inv
    <3>2. QED
      BY <2>1, <2>2, <3>1, RowAppended
  <2>4. QED
    BY <1>2, <2>3 DEF Enter, InTurn
<1>4. \A k \in 1..Started : lines'[k] = lines[k]
  <2>1. Started <= Len(lines) /\ lines \in Seq(Fates) /\ Len(lines) \in Nat
    BY DEF TypeInv, Started
  <2>2. QED
    BY <1>2, <2>1 DEF Enter
<1>5. Settled'
  BY <1>2, <1>4 DEF Enter, Settled, Runs
<1>6. StopsBehindPrompt'
  BY DEF Enter, StopsBehindPrompt
<1>7. CancelsItsRun'
  BY DEF Enter, CancelsItsRun, Lines, TypeInv
<1>8. SteeringInv'
  <2>1. OverKept
    BY <1>4 DEF OverKept
  <2>2. Started <= Started' /\ UNCHANGED steering /\ task' = task /\ query' = query
    BY <1>2 DEF Enter
  <2> HIDE DEF Inv
  <2>3. TypeInv /\ SteeringInv
    BY DEF Inv
  <2>4. QED
    BY <1>2, <2>1, <2>2, <2>3, SteeringUndisturbed
<1>9. QED
  BY <1>1, <1>3, <1>5, <1>6, <1>7, <1>8

(* The keys that end the prompt, and Ctrl+C at a run: it becomes a run     *)
(* Ctrl+C was pressed at before its task is cancelled.                     *)
LEMMA ExitKeysInv == Inv /\ (Quit \/ CtrlD \/ CtrlC) => Inv'
<1> SUFFICES ASSUME Inv, Quit \/ CtrlD \/ CtrlC PROVE Inv'
  OBVIOUS
<1> USE DEF Inv, Quit, CtrlD, CtrlC, ExitPrompt
<1>1. TypeInv'
  BY DEF TypeInv, steering
<1>2. InTurn' /\ Settled' /\ Started' = Started /\ Started \in Nat
  <2>1. UNCHANGED <<lines, input_q, task, query, running, consumer>>
    OBVIOUS
  <2>2. QED
    BY <2>1 DEF InTurn, Settled, Runs, Started
<1>3. StopsBehindPrompt'
  BY DEF StopsBehindPrompt
<1>4. CancelsItsRun'
  BY DEF CancelsItsRun, Lines
<1>5. SteeringInv'
  BY <1>2, SteeringUndisturbed DEF OverKept
<1>6. QED
  BY <1>1, <1>2, <1>3, <1>4, <1>5

(* A steering message takes the next number.                               *)
LEMMA SteerInv == Inv /\ Steer => Inv'
<1> SUFFICES ASSUME Inv, Steer PROVE Inv'
  OBVIOUS
<1> USE DEF Inv, Steer
<1>1. TypeInv' /\ InTurn' /\ Settled' /\ StopsBehindPrompt' /\ CancelsItsRun'
  BY DEF TypeInv, InTurn, Settled, Runs, Started, StopsBehindPrompt, CancelsItsRun, Lines,
         Steered
<1>2. /\ Len(taken) \in Nat /\ Len(draining) \in Nat /\ Len(inbox) \in Nat
      /\ posted \in Seq(Nat) /\ Len(posted) \in Nat /\ Len(posted') = Len(posted) + 1
      /\ typed \in Seq(Nat) /\ Len(typed) \in Nat /\ Len(typed') = Len(typed) + 1
  BY DEF TypeInv
<1>3. Numbered'
  <2> DEFINE n == Len(taken) + Len(draining) + Len(inbox)
  <2>1. n \in Nat /\ \A k \in 1..Len(posted) : posted[k] = n + k
    BY <1>2 DEF SteeringInv, Numbered
  <2>2. Steered + 1 = n + Len(posted) + 1
    BY <1>2 DEF Steered, SteeringInv, Numbered
  <2>3. posted' = Append(posted, n + Len(posted) + 1)
    BY <2>2
  <2>4. Len(typed') = n + Len(posted')
    BY <1>2 DEF SteeringInv, Numbered
  <2> HIDE DEF n, Steer, Inv
  <2>5. \A k \in 1..Len(posted') : posted'[k] = n + k
    <3>1. posted \in Seq(Nat) /\ n \in Nat
      BY <1>2, <2>1
    <3>2. QED
      BY <2>1, <2>3, <3>1, RowAppended
  <2>6. QED
    BY <2>4, <2>5 DEF Steer, Inv, SteeringInv, Numbered, n
<1>4. TakenInTurn'
  <2>1. Started' = Started /\ query = Started
    BY DEF InTurn, Started
  <2>2. \A k \in 1..Len(typed) : typed'[k] = typed[k]
    BY <1>2
  <2>3. \A k \in 1..Len(typed') : typed'[k] \in 1..Started
    <3>1. typed'[Len(typed) + 1] = Started
      BY <1>2, <2>1
    <3>2. ASSUME NEW k \in 1..Len(typed') PROVE typed'[k] \in 1..Started
      <4>1. CASE k \in 1..Len(typed)
        BY <2>2, <4>1 DEF SteeringInv, TakenInTurn
      <4>2. CASE k = Len(typed) + 1
        BY <3>1, <4>2 DEF InTurn
      <4>3. QED
        BY <1>2, <4>1, <4>2
    <3>3. QED
      BY <3>2
  <2>4. \A k \in 1..Len(taken) : k \in 1..Len(typed)
    BY <1>2 DEF SteeringInv, Numbered
  <2>5. QED
    BY <2>1, <2>2, <2>3, <2>4 DEF SteeringInv, TakenInTurn
<1>5. Draining' /\ Dropped'
  BY DEF SteeringInv, Draining, Dropped, DroppedWithRun
<1>6. QED
  BY <1>1, <1>3, <1>4, <1>5 DEF SteeringInv

(* Its task puts it behind those that have arrived.                        *)
LEMMA SteerArrivesInv == Inv /\ SteerArrives => Inv'
<1> SUFFICES ASSUME Inv, SteerArrives PROVE Inv'
  OBVIOUS
<1> USE DEF Inv, SteerArrives
<1>1. TypeInv' /\ InTurn' /\ Settled' /\ StopsBehindPrompt' /\ CancelsItsRun'
  BY DEF TypeInv, InTurn, Settled, Runs, Started, StopsBehindPrompt, CancelsItsRun, Lines
<1>2. Numbered'
  <2>1. /\ Len(posted) \in Nat \ {0} /\ Len(inbox) \in Nat
        /\ Len(draining) \in Nat /\ Len(taken) \in Nat
        /\ Head(posted) = posted[1] /\ Head(posted) \in Nat
        /\ Len(inbox') = Len(inbox) + 1 /\ Len(posted') = Len(posted) - 1
    BY DEF TypeInv
  <2> DEFINE n == Len(taken) + Len(draining)
  <2>2. \A k \in 1..Len(inbox') : inbox'[k] = n + k
    <3>1. posted[1] = n + Len(inbox) + 1
      <4>1. 1 \in 1..Len(posted)
        BY <2>1
      <4>2. QED
        BY <4>1 DEF SteeringInv, Numbered
    <3>2. inbox' = Append(inbox, n + Len(inbox) + 1)
      BY <2>1, <3>1
    <3>3. inbox \in Seq(Nat) /\ \A k \in 1..Len(inbox) : inbox[k] = n + k
      BY DEF TypeInv, SteeringInv, Numbered
    <3>4. n \in Nat
      BY <2>1
    <3> HIDE DEF SteerArrives, Inv, n
    <3>5. QED
      BY <3>2, <3>3, <3>4, RowAppended
  <2>3. ASSUME NEW k \in 1..Len(posted')
        PROVE  posted'[k] = n + Len(inbox') + k
    <3>1. k + 1 \in 1..Len(posted) /\ posted'[k] = posted[k + 1]
      BY <2>1, <2>3 DEF TypeInv
    <3>2. posted[k + 1] = n + Len(inbox) + (k + 1)
      BY <3>1 DEF SteeringInv, Numbered
    <3>3. QED
      BY <2>1, <3>1, <3>2
  <2>4. Len(typed) = n + Len(inbox') + Len(posted')
    BY <2>1 DEF SteeringInv, Numbered
  <2>5. QED
    BY <2>2, <2>3, <2>4 DEF SteeringInv, Numbered
<1>3. TakenInTurn' /\ Draining' /\ Dropped'
  BY DEF SteeringInv, TakenInTurn, Started, Draining, Dropped, DroppedWithRun
<1>4. QED
  BY <1>1, <1>2, <1>3 DEF SteeringInv

-----------------------------------------------------------------------------
(* The next run is of the line behind the last one started, and starts     *)
(* with nothing cancelled; a line that cannot be echoed ends there.        *)
LEMMA ServeInv ==
  ASSUME Inv, input_q # <<>>, Serve, cancelling' = FALSE, ~Runs,
         UNCHANGED <<app, aimed, steering>>, stopping' => stopping
  PROVE  Inv'
<1> USE DEF Inv
<1> DEFINE head == Head(input_q)
<1>1. /\ head = input_q[1] /\ Len(input_q) \in Nat \ {0} /\ Len(lines) \in Nat
      /\ input_q' = Tail(input_q) /\ Len(input_q') = Len(input_q) - 1
  <2>1. input_q \in Seq(Nat) /\ lines \in Seq(Fates) /\ input_q' = Tail(input_q)
    BY DEF TypeInv, Serve, StartRun, EchoFails
  <2>2. QED
    BY <2>1
<1>2. head = Started + 1 /\ Started + 1 \in 1..Len(lines) /\ Started \in Nat
  BY <1>1 DEF InTurn, Started
<1>3. \E f \in {"run", "unprintable"} :
        /\ lines' = [lines EXCEPT ![head] = f]
        /\ f = "run" <=> task' = "new"
        /\ f = "run" => query' = head
        /\ f # "run" => task' = "none"
  BY DEF Serve, StartRun, EchoFails
<1>4. PICK f \in {"run", "unprintable"} :
        /\ lines' = [lines EXCEPT ![head] = f]
        /\ f = "run" <=> task' = "new"
        /\ f = "run" => query' = head
        /\ f # "run" => task' = "none"
  BY <1>3
<1>5. /\ lines' \in Seq(Fates) /\ Len(lines') = Len(lines) /\ lines'[head] = f
      /\ \A q \in 1..Len(lines) : q # head => lines'[q] = lines[q]
  <2>1. lines \in Seq(Fates) /\ f \in Fates /\ head \in 1..Len(lines)
    BY <1>2 DEF TypeInv, Fates
  <2>2. QED
    BY <1>4, <2>1
<1>6. Started' = Started + 1
  BY <1>1, <1>2, <1>5 DEF Started
<1> HIDE DEF head
<1>7. TypeInv'
  <2>1. input_q' \in Seq(Nat)
    BY <1>1 DEF TypeInv
  <2>2. query' \in Nat /\ task' \in {"none", "new"}
    BY <1>2 DEF Serve, StartRun, EchoFails, head
  <2>3. QED
    BY <1>5, <2>1, <2>2 DEF TypeInv, steering
<1>8. InTurn'
  <2>1. ASSUME NEW k \in 1..Len(input_q') PROVE input_q'[k] = Started' + k
    <3>1. k + 1 \in 1..Len(input_q) /\ input_q'[k] = input_q[k + 1]
      BY <1>1, <2>1 DEF TypeInv
    <3>2. QED
      BY <1>2, <1>6, <3>1 DEF InTurn
  <2>2. task' # "none" => query' = Started' /\ query' # 0
    BY <1>2, <1>4, <1>6
  <2>3. (running' => task' # "none") /\ (consumer' = "getting" => task' = "none")
    BY DEF Serve, StartRun, EchoFails
  <2>4. QED
    BY <1>2, <1>6, <2>1, <2>2, <2>3 DEF InTurn
<1>9. \A q \in 1..Started : lines[q] \in Over /\ lines'[q] = lines[q]
  <2>1. \A q \in 1..Started : q \in 1..Len(lines) /\ q # head
    BY <1>1, <1>2 DEF Started
  <2>2. QED
    BY <1>5, <2>1 DEF Settled
<1>10. Settled'
  <2>1. ASSUME NEW k \in 1..Started', k # Started' PROVE lines'[k] \in Over
    <3>1. k \in 1..Started
      BY <1>2, <1>6, <2>1
    <3>2. QED
      BY <1>9, <3>1
  <2>2. IF Runs' THEN lines'[Started'] = "run" ELSE lines'[Started'] \in Over
    BY <1>2, <1>4, <1>5, <1>6 DEF Runs, Over
  <2>3. QED
    BY <2>1, <2>2 DEF Settled, Over
<1>11. StopsBehindPrompt'
  BY DEF StopsBehindPrompt
<1>12. CancelsItsRun'
  <2>1. DOMAIN lines' = DOMAIN lines /\ DOMAIN lines = 1..Len(lines)
    BY <1>5 DEF TypeInv
  <2>2. \A q \in DOMAIN lines : lines'[q] = "cancelled" => lines[q] = "cancelled"
    BY <1>5, <2>1
  <2>3. QED
    BY <2>1, <2>2 DEF CancelsItsRun, Lines
<1>13. SteeringInv'
  <2>1. draining = <<>> /\ OverKept
    BY <1>9 DEF SteeringInv, Draining, Runs, OverKept
  <2>2. QED
    BY <1>2, <1>6, <2>1, SteeringUndisturbed
<1>14. QED
  BY <1>7, <1>8, <1>10, <1>11, <1>12, <1>13

(* A consumer that waits for a line finds one.                             *)
LEMMA GetInv == Inv /\ Get => Inv'
<1> SUFFICES ASSUME Inv, Get PROVE Inv'
  OBVIOUS
<1>1. /\ input_q # <<>> /\ Serve /\ cancelling' = FALSE /\ (stopping' => stopping)
      /\ UNCHANGED <<app, aimed, steering>>
  BY DEF Get
<1>2. ~Runs
  BY DEF Get, Inv, InTurn, Runs
<1>3. QED
  BY <1>1, <1>2, ServeInv

(* The consumer's step behind a run: it starts the next one, rests, or     *)
(* ends, by leaving or by what the run raised.                             *)
LEMMA WakeInv == Inv /\ Wake => Inv'
<1> SUFFICES ASSUME Inv, Wake PROVE Inv'
  OBVIOUS
<1>1. TaskDone /\ ~Runs /\ draining = <<>>
  BY DEF Wake, TaskDone, Runs, Inv, SteeringInv, Draining
<1>2. CASE Shutdown \/ task = "raised"
  <2> USE <1>2 DEF Inv, Wake, Shutdown
  <2>1. /\ UNCHANGED <<app, lines, input_q, steering>> /\ (stopping' => stopping)
        /\ query' \in {0, query} /\ task' \in {"none", task}
    BY <1>1
  <2>2. Started' = Started /\ TypeInv' /\ StopsBehindPrompt'
    BY <2>1 DEF TypeInv, Started, StopsBehindPrompt, steering
  <2>3. InTurn' /\ ~Runs'
    BY <1>1, <2>1, <2>2 DEF InTurn, Runs
  <2>4. Settled'
    BY <1>1, <2>1, <2>3, <2>2 DEF Settled
  <2>5. CancelsItsRun'
    BY <2>1 DEF CancelsItsRun, StopsBehindPrompt, Lines
  <2>6. SteeringInv'
    <3>1. Started' = Started /\ Started \in Nat /\ OverKept
      BY <2>1, <2>2 DEF InTurn, OverKept
    <3>2. QED
      BY <1>1, <3>1, SteeringUndisturbed
  <2>7. QED
    BY <2>3, <2>4, <2>5, <2>6, <2>2
<1>3. CASE ~Shutdown /\ task # "raised" /\ input_q # <<>>
  BY <1>1, <1>3, ServeInv DEF Wake, GoOn, NextRun
<1>4. CASE ~Shutdown /\ task # "raised" /\ input_q = <<>>
  <2> USE <1>4 DEF Inv, Wake, GoOn, NextRun, Rest
  <2>1. /\ UNCHANGED <<app, lines, input_q, steering>> /\ (stopping' => stopping)
        /\ query' \in {0, query} /\ task' \in {"none", task}
    BY <1>1
  <2>2. Started' = Started /\ TypeInv' /\ StopsBehindPrompt'
    BY <2>1 DEF TypeInv, Started, StopsBehindPrompt, steering
  <2>3. InTurn' /\ ~Runs'
    BY <1>1, <2>1, <2>2 DEF InTurn, Runs
  <2>4. Settled'
    BY <1>1, <2>1, <2>3, <2>2 DEF Settled
  <2>5. CancelsItsRun'
    BY <2>1 DEF CancelsItsRun, Lines
  <2>6. SteeringInv'
    <3>1. Started' = Started /\ Started \in Nat /\ OverKept
      BY <2>1, <2>2 DEF InTurn, OverKept
    <3>2. QED
      BY <1>1, <3>1, SteeringUndisturbed
  <2>7. QED
    BY <2>3, <2>4, <2>5, <2>6, <2>2
<1>5. QED
  BY <1>2, <1>3, <1>4 DEF Wake

-----------------------------------------------------------------------------
(* The run's own steps: it begins, is cancelled, fails or ends, and with   *)
(* it its line; a cancelled one is one Ctrl+C was pressed at.              *)
RunSteps == Begin \/ CancelRun \/ RunEnds \/ RunFails

LEMMA RunStepsLines ==
  ASSUME Inv, RunSteps
  PROVE  /\ lines' \in Seq(Fates) /\ Len(lines') = Len(lines) /\ Lines' = Lines
         /\ Runs /\ query = Started /\ query \in Lines /\ Lines = 1..Len(lines)
         /\ lines[query] = "run"
         /\ lines'[query] = IF Runs' THEN "run" ELSE lines'[query]
         /\ ~Runs' => lines'[query] \in Over
         /\ \A q \in Lines : q # query => lines'[q] = lines[q]
         /\ lines'[query] = "cancelled" => cancelling
<1> USE DEF RunSteps, Begin, CancelRun, RunEnds, RunFails, Began
<1>1. Runs /\ query = Started /\ query # 0 /\ query \in Nat /\ Started \in Nat
  BY DEF Inv, InTurn, Runs, TypeInv
<1>2. lines \in Seq(Fates) /\ Len(lines) \in Nat /\ Lines = 1..Len(lines) /\ Len(input_q) \in Nat
  BY DEF Inv, TypeInv, Lines
<1>3. query \in 1..Len(lines) /\ query \in 1..Started
  BY <1>1, <1>2 DEF Started
<1>4. lines[query] = "run"
  BY <1>1, <1>3 DEF Inv, Settled
<1>5. PICK f \in Fates :
        /\ lines' = [lines EXCEPT ![query] = f]
        /\ f = IF Runs' THEN "run" ELSE f
        /\ ~Runs' => f \in Over
        /\ f = "cancelled" => cancelling
  <2>1. CASE Begin
    <3>1. lines' = [lines EXCEPT ![query] = IF cancelling THEN "cancelled" ELSE "run"]
      BY <1>4, <2>1
    <3>2. QED
      BY <2>1, <3>1 DEF Fates, Runs, Over
  <2>2. CASE CancelRun \/ RunEnds \/ RunFails
    BY <2>2 DEF Fates, Runs, Over
  <2>3. QED
    BY <2>1, <2>2
<1>6. lines' \in Seq(Fates) /\ Len(lines') = Len(lines) /\ DOMAIN lines' = DOMAIN lines
  BY <1>2, <1>5, FateGiven
<1>7. lines'[query] = f /\ \A q \in Lines : q # query => lines'[q] = lines[q]
  BY <1>2, <1>3, <1>5
<1>8. QED
  BY <1>1, <1>2, <1>3, <1>4, <1>5, <1>6, <1>7 DEF Lines

(* The parts that do not speak of steering.                                *)
LEMMA RunStepsInv ==
  ASSUME Inv, RunSteps
  PROVE  /\ InTurn' /\ Settled' /\ StopsBehindPrompt' /\ CancelsItsRun'
         /\ Started' = Started /\ Started \in Nat /\ OverKept
<1> USE RunStepsLines DEF Inv
<1>1. UNCHANGED <<app, consumer, stopping, input_q, running, query, cancelling, aimed>>
  BY DEF RunSteps, Begin, CancelRun, RunEnds, RunFails
<1>2. task' # "none"
  BY DEF RunSteps, Begin, CancelRun, RunEnds, RunFails, Began
<1>3. Started' = Started /\ Started \in Nat
  BY <1>1 DEF InTurn, Started
<1>4. InTurn'
  BY <1>1, <1>2, <1>3 DEF InTurn, Runs
<1>5. Started <= Len(lines)
  BY DEF TypeInv, Started
<1>6. \A q \in 1..Started : q \in Lines
  BY <1>3, <1>5, RunStepsLines DEF TypeInv
<1>7. Settled'
  BY <1>3, <1>6 DEF Settled
<1>8. OverKept
  BY <1>6 DEF OverKept, Over
<1>9. StopsBehindPrompt'
  BY <1>1 DEF StopsBehindPrompt
<1>10. CancelsItsRun'
  BY <1>1 DEF CancelsItsRun
<1>11. QED
  BY <1>3, <1>4, <1>7, <1>8, <1>9, <1>10

(* A run begins, or ends with nothing drained: steering stays as it is.    *)
LEMMA BeginEndInv == Inv /\ (Begin \/ RunEnds) => Inv'
<1> SUFFICES ASSUME Inv, Begin \/ RunEnds PROVE Inv'
  OBVIOUS
<1>1. RunSteps
  BY DEF RunSteps
<1>2. TypeInv'
  BY <1>1, RunStepsLines DEF Inv, TypeInv, Begin, RunEnds, Began, steering
<1>3. draining = <<>> /\ UNCHANGED steering
  BY DEF Begin, RunEnds, Inv, SteeringInv, Draining
<1>4. SteeringInv'
  BY <1>1, <1>3, RunStepsInv, SteeringUndisturbed DEF Inv
<1>5. QED
  BY <1>1, <1>2, <1>4, RunStepsInv DEF Inv

-----------------------------------------------------------------------------
(* The run takes a number of messages off the front of the queues: what it *)
(* takes goes behind what older runs took.                                 *)
LEMMA TookIt ==
  ASSUME NEW m \in Nat, NEW q \in Nat, NEW b \in BOOLEAN, NEW t, t = <<m, q, b>>
  PROVE  t \in Took /\ t[1] = m /\ t[2] = q /\ t[3] = b
BY DEF Took

LEMMA MoreTaken ==
  ASSUME NEW done \in Seq(Took), NEW more \in Seq(Took)
  PROVE  /\ done \o more \in Seq(Took) /\ Len(done) \in Nat /\ Len(more) \in Nat
         /\ Len(done \o more) = Len(done) + Len(more)
         /\ \A k \in 1..Len(done) : (done \o more)[k] = done[k]
         /\ \A i \in 1..Len(more) : (done \o more)[Len(done) + i] = more[i]
         /\ \A k \in 1..(Len(done) + Len(more)) :
              k \in 1..Len(done) \/ \E i \in 1..Len(more) : k = Len(done) + i
BY Behind, ZenonT(30)

(* What is taken is numbered on, and the run that takes it is the last one *)
(* started, so younger than or as old as all it was typed at.              *)
LEMMA TakenGrows ==
  ASSUME Inv, NEW more \in Seq(Took), taken' = taken \o more,
         \A i \in 1..Len(more) : more[i][1] = Len(taken) + i /\ more[i][2] = query,
         query = Started, Started # 0, Started' = Started, typed' = typed,
         Len(taken) + Len(more) <= Len(typed)
  PROVE  /\ taken' \in Seq(Took) /\ Len(taken') = Len(taken) + Len(more)
         /\ \A k \in 1..Len(taken') : taken'[k][1] = k
         /\ TakenInTurn'
<1>1. /\ taken' \in Seq(Took) /\ Len(taken) \in Nat /\ Len(more) \in Nat
      /\ Len(taken') = Len(taken) + Len(more)
      /\ \A k \in 1..Len(taken) : taken'[k] = taken[k]
      /\ \A i \in 1..Len(more) : taken'[Len(taken) + i] = more[i]
      /\ \A k \in 1..Len(taken') :
           k \in 1..Len(taken) \/ \E i \in 1..Len(more) : k = Len(taken) + i
  <2>1. taken \in Seq(Took)
    BY DEF Inv, TypeInv
  <2> HIDE DEF Inv
  <2>2. /\ taken \o more \in Seq(Took) /\ Len(taken) \in Nat /\ Len(more) \in Nat
        /\ Len(taken \o more) = Len(taken) + Len(more)
        /\ \A k \in 1..Len(taken) : (taken \o more)[k] = taken[k]
        /\ \A i \in 1..Len(more) : (taken \o more)[Len(taken) + i] = more[i]
        /\ \A k \in 1..(Len(taken) + Len(more)) :
             k \in 1..Len(taken) \/ \E i \in 1..Len(more) : k = Len(taken) + i
    BY <2>1, MoreTaken
  <2>3. QED
    BY <2>2
<1>2. ASSUME NEW k \in 1..Len(taken'), k \notin 1..Len(taken)
      PROVE  taken'[k][1] = k /\ taken'[k][2] = Started
  <2>1. PICK i \in 1..Len(more) : k = Len(taken) + i
    BY <1>1, <1>2
  <2>2. taken'[k] = more[i]
    BY <1>1, <2>1
  <2>3. QED
    BY <2>1, <2>2
<1>3. \A k \in 1..Len(taken') : taken'[k][1] = k
  BY <1>1, <1>2 DEF Inv, SteeringInv, Numbered
<1>4. Started \in Nat /\ Started \in 1..Started
  BY DEF Inv, InTurn
<1>5. ASSUME NEW k \in 1..Len(taken') PROVE taken'[k][2] \in 1..Started
  <2>1. CASE k \in 1..Len(taken)
    BY <1>1, <2>1 DEF Inv, SteeringInv, TakenInTurn
  <2>2. CASE k \notin 1..Len(taken)
    BY <1>2, <1>4, <2>2
  <2>3. QED
    BY <2>1, <2>2
<1>6. ASSUME NEW j \in 1..Len(taken'), NEW k \in 1..Len(taken'), j <= k
      PROVE  taken'[j][2] <= taken'[k][2]
  <2>1. CASE k \in 1..Len(taken)
    <3>1. j \in 1..Len(taken)
      BY <1>1, <1>6, <2>1
    <3>2. taken[j][2] <= taken[k][2]
      BY <1>6, <2>1, <3>1 DEF Inv, SteeringInv, TakenInTurn
    <3>3. QED
      BY <1>1, <2>1, <3>1, <3>2
  <2>2. CASE k \notin 1..Len(taken)
    <3>1. taken'[k][2] = Started /\ taken'[j][2] \in 1..Started
      BY <1>2, <1>5, <2>2
    <3>2. QED
      BY <1>4, <3>1
  <2>3. QED
    BY <2>1, <2>2
<1>7. ASSUME NEW k \in 1..Len(taken') PROVE typed[k] <= taken'[k][2]
  <2>1. CASE k \in 1..Len(taken)
    BY <1>1, <2>1 DEF Inv, SteeringInv, TakenInTurn
  <2>2. CASE k \notin 1..Len(taken)
    <3>1. k \in 1..Len(typed)
      BY <1>1, <1>7 DEF Inv, TypeInv
    <3>2. QED
      BY <1>2, <2>2, <3>1 DEF Inv, SteeringInv, TakenInTurn
  <2>3. QED
    BY <2>1, <2>2
<1>8. \A k \in 1..Len(typed') : typed'[k] \in 1..Started'
  BY DEF Inv, SteeringInv, TakenInTurn
<1>9. QED
  BY <1>1, <1>3, <1>5, <1>6, <1>7, <1>8 DEF TakenInTurn

(* One message is appended: the head of what the session's queue, or of    *)
(* what is left of it, held.                                               *)
LEMMA OneAppended ==
  ASSUME Inv, task = "going", NEW m \in Nat, m = Len(taken) + 1, Appends(m),
         typed' = typed, Len(taken) + 1 <= Len(typed),
         UNCHANGED <<lines, input_q, query, task>>
  PROVE  /\ taken' \in Seq(Took) /\ Len(taken') = Len(taken) + 1
         /\ \A k \in 1..Len(taken') : taken'[k][1] = k
         /\ TakenInTurn' /\ Draining' /\ Dropped'
<1> DEFINE new == <<m, query, TRUE>>
<1> DEFINE more == <<new>>
<1>1. new \in Took /\ new[1] = m /\ new[2] = query /\ new[3] = TRUE
  BY TookIt DEF Inv, TypeInv
<1>2. taken' = Append(taken, new) /\ taken \in Seq(Took)
  BY DEF Appends, Inv, TypeInv
<1>3. query = Started /\ Started # 0 /\ Started' = Started
  BY DEF Inv, InTurn, Started
<1> HIDE DEF new
<1>4. more \in Seq(Took) /\ Len(more) = 1 /\ more[1] = new
  BY <1>1
<1>5. taken' = taken \o more
  BY <1>1, <1>2
<1>6. \A i \in 1..Len(more) : more[i][1] = Len(taken) + i /\ more[i][2] = query
  BY <1>1, <1>4
<1>7. Len(taken) + Len(more) <= Len(typed)
  BY <1>4
<1> HIDE DEF more
<1>8. /\ taken' \in Seq(Took) /\ Len(taken') = Len(taken) + Len(more)
      /\ \A k \in 1..Len(taken') : taken'[k][1] = k
      /\ TakenInTurn'
  BY <1>3, <1>4, <1>5, <1>6, <1>7, TakenGrows
<1>9. /\ Len(taken) \in Nat /\ taken'[Len(taken) + 1] = new
      /\ \A k \in 1..Len(taken) : taken'[k] = taken[k]
  BY <1>1, <1>2
<1>10. Draining'
  <2>1. Len(taken) + 1 \in 1..Len(taken')
    BY <1>4, <1>8, <1>9
  <2>2. QED
    BY <1>1, <1>9, <2>1 DEF Draining
<1>11. Dropped'
  <2>1. ASSUME NEW k \in 1..Len(taken'), ~taken'[k][3] PROVE DroppedWithRun(k)'
    <3>1. k \in 1..Len(taken)
      BY <1>1, <1>4, <1>8, <1>9, <2>1
    <3>2. DroppedWithRun(k) /\ taken'[k] = taken[k]
      BY <1>9, <2>1, <3>1 DEF Inv, SteeringInv, Dropped
    <3>3. \A j \in 1..(k - 1) : j \in 1..Len(taken)
      BY <1>9, <3>1
    <3>4. QED
      BY <1>9, <3>2, <3>3 DEF DroppedWithRun
  <2>2. QED
    BY <2>1 DEF Dropped
<1>12. QED
  BY <1>4, <1>8, <1>10, <1>11

(* The others of the invariant's parts do not see it.                      *)
LEMMA RestUndisturbed ==
  ASSUME Inv, UNCHANGED <<app, consumer, stopping, lines, input_q, running, query, task,
                          cancelling, aimed>>
  PROVE  InTurn' /\ Settled' /\ StopsBehindPrompt' /\ CancelsItsRun'
BY DEF Inv, InTurn, Settled, Runs, Started, StopsBehindPrompt, CancelsItsRun, Lines

(* The session's queue is drained and its first message appended.          *)
LEMMA IterateInv == Inv /\ Iterate => Inv'
<1> SUFFICES ASSUME Inv, Iterate PROVE Inv'
  OBVIOUS
<1>1. /\ task = "going" /\ draining = <<>> /\ inbox # <<>> /\ Appends(Head(inbox))
      /\ draining' = Tail(inbox) /\ inbox' = <<>> /\ posted' = posted /\ typed' = typed
      /\ UNCHANGED <<app, consumer, stopping, lines, input_q, running, query, task,
                     cancelling, aimed>>
  BY DEF Iterate, Drain
<1>2. /\ inbox \in Seq(Nat) /\ Len(inbox) \in Nat \ {0} /\ Len(taken) \in Nat
      /\ Len(draining) = 0 /\ Len(posted) \in Nat /\ Len(inbox') = 0
      /\ Head(inbox) = inbox[1] /\ 1 \in 1..Len(inbox)
      /\ draining' \in Seq(Nat) /\ Len(draining') = Len(inbox) - 1
      /\ \A k \in 1..Len(draining') : draining'[k] = inbox[k + 1] /\ k + 1 \in 1..Len(inbox)
  BY <1>1 DEF Inv, TypeInv
<1>3. Head(inbox) \in Nat /\ Head(inbox) = Len(taken) + 1
  BY <1>2 DEF Inv, SteeringInv, Numbered
<1>4. Len(typed) = Len(taken) + Len(inbox) + Len(posted)
  BY <1>2 DEF Inv, SteeringInv, Numbered
<1>5. Len(taken) + 1 <= Len(typed)
  BY <1>2, <1>4
<1>6. /\ taken' \in Seq(Took) /\ Len(taken') = Len(taken) + 1
      /\ \A k \in 1..Len(taken') : taken'[k][1] = k
      /\ TakenInTurn' /\ Draining' /\ Dropped'
  BY <1>1, <1>3, <1>5, OneAppended
<1>7. TypeInv'
  BY <1>1, <1>2, <1>6 DEF Inv, TypeInv
<1>8. Numbered'
  <2>1. \A k \in 1..Len(draining') : draining'[k] = Len(taken') + k
    BY <1>2, <1>6 DEF Inv, SteeringInv, Numbered
  <2>2. \A k \in 1..Len(inbox') : inbox'[k] = Len(taken') + Len(draining') + k
    BY <1>2
  <2>3. \A k \in 1..Len(posted') :
          posted'[k] = Len(taken') + Len(draining') + Len(inbox') + k
    <3>1. Len(taken') + Len(draining') + Len(inbox') = Len(taken) + Len(draining) + Len(inbox)
      BY <1>1, <1>2, <1>6
    <3>2. \A k \in 1..Len(posted) :
            posted[k] = Len(taken) + Len(draining) + Len(inbox) + k
      BY DEF Inv, SteeringInv, Numbered
    <3>3. QED
      BY <1>1, <3>1, <3>2
  <2>4. Len(typed') = Len(taken') + Len(draining') + Len(inbox') + Len(posted')
    BY <1>1, <1>2, <1>4, <1>6
  <2>5. QED
    BY <1>6, <2>1, <2>2, <2>3, <2>4 DEF Numbered
<1>9. QED
  BY <1>1, <1>6, <1>7, <1>8, RestUndisturbed DEF Inv, SteeringInv

(* The next of what was drained is appended.                               *)
LEMMA DeliverInv == Inv /\ Deliver => Inv'
<1> SUFFICES ASSUME Inv, Deliver PROVE Inv'
  OBVIOUS
<1>1. /\ task = "going" /\ draining # <<>> /\ Appends(Head(draining))
      /\ draining' = Tail(draining) /\ inbox' = inbox /\ posted' = posted /\ typed' = typed
      /\ UNCHANGED <<app, consumer, stopping, lines, input_q, running, query, task,
                     cancelling, aimed>>
  BY DEF Deliver
<1>2. /\ draining \in Seq(Nat) /\ Len(draining) \in Nat \ {0} /\ Len(taken) \in Nat
      /\ Len(inbox) \in Nat /\ Len(posted) \in Nat
      /\ Head(draining) = draining[1] /\ 1 \in 1..Len(draining)
      /\ draining' \in Seq(Nat) /\ Len(draining') = Len(draining) - 1
      /\ \A k \in 1..Len(draining') :
           draining'[k] = draining[k + 1] /\ k + 1 \in 1..Len(draining)
  BY <1>1 DEF Inv, TypeInv
<1>3. Head(draining) \in Nat /\ Head(draining) = Len(taken) + 1
  BY <1>2 DEF Inv, SteeringInv, Numbered
<1>4. Len(typed) = Len(taken) + Len(draining) + Len(inbox) + Len(posted)
  BY DEF Inv, SteeringInv, Numbered
<1>5. Len(taken) + 1 <= Len(typed)
  BY <1>2, <1>4
<1>6. /\ taken' \in Seq(Took) /\ Len(taken') = Len(taken) + 1
      /\ \A k \in 1..Len(taken') : taken'[k][1] = k
      /\ TakenInTurn' /\ Draining' /\ Dropped'
  BY <1>1, <1>3, <1>5, OneAppended
<1>7. TypeInv'
  BY <1>1, <1>2, <1>6 DEF Inv, TypeInv
<1>8. Numbered'
  <2>1. \A k \in 1..Len(draining') : draining'[k] = Len(taken') + k
    BY <1>2, <1>6 DEF Inv, SteeringInv, Numbered
  <2>2. \A k \in 1..Len(inbox') : inbox'[k] = Len(taken') + Len(draining') + k
    BY <1>1, <1>2, <1>6 DEF Inv, SteeringInv, Numbered
  <2>3. \A k \in 1..Len(posted') :
          posted'[k] = Len(taken') + Len(draining') + Len(inbox') + k
    <3>1. Len(taken') + Len(draining') + Len(inbox') = Len(taken) + Len(draining) + Len(inbox)
      BY <1>1, <1>2, <1>6
    <3>2. \A k \in 1..Len(posted) :
            posted[k] = Len(taken) + Len(draining) + Len(inbox) + k
      BY DEF Inv, SteeringInv, Numbered
    <3>3. QED
      BY <1>1, <3>1, <3>2
  <2>4. Len(typed') = Len(taken') + Len(draining') + Len(inbox') + Len(posted')
    BY <1>1, <1>2, <1>4, <1>6
  <2>5. QED
    BY <1>6, <2>1, <2>2, <2>3, <2>4 DEF Numbered
<1>9. QED
  BY <1>1, <1>6, <1>7, <1>8, RestUndisturbed DEF Inv, SteeringInv

(* A run that breaks off takes with it what it has drained, which stands   *)
(* behind a message it has appended.                                       *)
LEMMA BreakOffInv == Inv /\ (CancelRun \/ RunFails) => Inv'
<1> SUFFICES ASSUME Inv, CancelRun \/ RunFails PROVE Inv'
  OBVIOUS
<1>1. /\ taken' = taken \o [k \in DOMAIN draining |-> <<draining[k], query, FALSE>>]
      /\ draining' = <<>> /\ UNCHANGED <<posted, inbox, typed>> /\ query' = query
      /\ task' \in {"cancelled", "finished", "raised"}
  BY DEF CancelRun, RunFails, Abandon
<1>2. RunSteps
  BY DEF RunSteps
<1> DEFINE more == [k \in DOMAIN draining |-> <<draining[k], query, FALSE>>]
<1>3. /\ more \in Seq(Took) /\ Len(more) = Len(draining)
      /\ \A k \in 1..Len(draining) : more[k] = <<draining[k], query, FALSE>>
  <2>1. /\ draining \in Seq(Nat) /\ DOMAIN draining = 1..Len(draining)
        /\ Len(draining) \in Nat /\ query \in Nat
    BY DEF Inv, TypeInv
  <2>2. ASSUME NEW k \in 1..Len(draining), NEW t, t = <<draining[k], query, FALSE>>
        PROVE  t \in Took
    <3>1. draining[k] \in Nat /\ query \in Nat
      BY <2>1
    <3>2. QED
      BY <2>2, <3>1, TookIt
  <2>3. \A k \in 1..Len(draining) : more[k] = <<draining[k], query, FALSE>>
    BY <2>1
  <2>4. more \in [1..Len(draining) -> Took]
    BY <2>1, <2>2
  <2>5. more \in Seq(Took) /\ Len(more) = Len(draining)
    <3> HIDE DEF more
    <3>1. QED
      BY <2>1, <2>4
  <2>6. QED
    BY <2>3, <2>5
<1>4. taken' = taken \o more
  BY <1>1
<1> HIDE DEF more
<1>5. /\ Len(taken) \in Nat /\ Len(draining) \in Nat /\ Len(inbox) \in Nat
      /\ Len(posted) \in Nat /\ Len(draining') = 0 /\ Len(draining) = Len(more)
  BY <1>1, <1>3 DEF Inv, TypeInv
<1>6. ASSUME NEW i \in 1..Len(more)
      PROVE  more[i][1] = Len(taken) + i /\ more[i][2] = query
  <2>1. more[i] = <<draining[i], query, FALSE>> /\ draining[i] = Len(taken) + i
    BY <1>3 DEF Inv, SteeringInv, Numbered
  <2>2. QED
    BY <2>1
<1>7. Len(typed) = Len(taken) + Len(draining) + Len(inbox) + Len(posted)
  BY DEF Inv, SteeringInv, Numbered
<1>8. query = Started /\ Started # 0 /\ Started' = Started /\ typed' = typed
  BY <1>1, <1>2, RunStepsInv, RunStepsLines DEF Inv, InTurn, Runs
<1>9. Len(taken) + Len(more) <= Len(typed)
  BY <1>5, <1>7
<1>10. /\ taken' \in Seq(Took) /\ Len(taken') = Len(taken) + Len(more)
       /\ \A k \in 1..Len(taken') : taken'[k][1] = k
       /\ TakenInTurn'
  BY <1>3, <1>4, <1>6, <1>8, <1>9, TakenGrows
<1>11. TypeInv'
  <2>1. lines' \in Seq(Fates)
    BY <1>2, RunStepsLines
  <2>2. UNCHANGED <<app, input_q, query>>
    BY DEF CancelRun, RunFails
  <2>3. draining' \in Seq(Nat)
    BY <1>1
  <2>4. QED
    BY <1>1, <1>10, <2>1, <2>2, <2>3 DEF Inv, TypeInv
<1>12. Numbered'
  <2>5. Len(taken') + Len(draining') = Len(taken) + Len(draining)
    BY <1>5, <1>10
  <2>1. \A k \in 1..Len(inbox') : inbox'[k] = Len(taken') + Len(draining') + k
    <3>1. \A k \in 1..Len(inbox) : inbox[k] = Len(taken) + Len(draining) + k
      BY DEF Inv, SteeringInv, Numbered
    <3>2. QED
      BY <1>1, <2>5, <3>1
  <2>2. \A k \in 1..Len(posted') :
          posted'[k] = Len(taken') + Len(draining') + Len(inbox') + k
    <3>1. \A k \in 1..Len(posted) :
            posted[k] = Len(taken) + Len(draining) + Len(inbox) + k
      BY DEF Inv, SteeringInv, Numbered
    <3>2. QED
      BY <1>1, <2>5, <3>1
  <2>3. Len(typed') = Len(taken') + Len(draining') + Len(inbox') + Len(posted')
    BY <1>1, <1>5, <1>7, <1>10
  <2>4. QED
    BY <1>5, <1>10, <2>1, <2>2, <2>3 DEF Numbered
<1>13. Draining'
  BY <1>1 DEF Draining
<1>14. Dropped'
  <2>1. /\ \A k \in 1..Len(taken) : taken'[k] = taken[k]
        /\ \A i \in 1..Len(more) : taken'[Len(taken) + i] = more[i]
        /\ \A k \in 1..Len(taken') :
             k \in 1..Len(taken) \/ \E i \in 1..Len(more) : k = Len(taken) + i
    <3>1. taken \in Seq(Took)
      BY DEF Inv, TypeInv
    <3>2. /\ Len(taken \o more) = Len(taken) + Len(more)
          /\ \A k \in 1..Len(taken) : (taken \o more)[k] = taken[k]
          /\ \A i \in 1..Len(more) : (taken \o more)[Len(taken) + i] = more[i]
          /\ \A k \in 1..(Len(taken) + Len(more)) :
               k \in 1..Len(taken) \/ \E i \in 1..Len(more) : k = Len(taken) + i
      BY <1>3, <3>1, MoreTaken
    <3>3. QED
      BY <1>4, <3>2
  <2>2. ASSUME NEW k \in 1..Len(taken), ~taken'[k][3] PROVE DroppedWithRun(k)'
    <3>1. DroppedWithRun(k) /\ taken'[k] = taken[k] /\ taken[k][2] \in 1..Started
      BY <2>1, <2>2 DEF Inv, SteeringInv, Dropped, TakenInTurn
    <3>2. lines'[taken[k][2]] = lines[taken[k][2]]
      BY <1>2, <3>1, RunStepsInv DEF DroppedWithRun, OverKept
    <3>3. \A j \in 1..(k - 1) : taken'[j] = taken[j]
      <4>1. \A j \in 1..(k - 1) : j \in 1..Len(taken)
        BY <1>5, <2>2
      <4>2. QED
        BY <2>1, <4>1
    <3>4. QED
      BY <3>1, <3>2, <3>3 DEF DroppedWithRun
  <2>3. ASSUME NEW k \in 1..Len(taken'), k \notin 1..Len(taken) PROVE DroppedWithRun(k)'
    <3>1. PICK i \in 1..Len(more) : k = Len(taken) + i
      BY <2>1, <2>3
    <3>2. taken'[k] = <<draining[i], query, FALSE>> /\ taken'[k][2] = query
      <4>1. taken'[k] = more[i] /\ i \in 1..Len(draining)
        BY <1>5, <2>1, <3>1
      <4>2. more[i] = <<draining[i], query, FALSE>>
        BY <1>3, <4>1
      <4>3. QED
        BY <4>1, <4>2
    <3>3. lines'[query] \in Over \ {"answered"}
      <4>1. query \in DOMAIN lines
        BY <1>2, RunStepsLines DEF Lines
      <4>2. lines'[query] \in {"cancelled", "failed", "unprintable"}
        BY <4>1 DEF CancelRun, RunFails
      <4>3. QED
        BY <4>2 DEF Over
    <3>4. draining # <<>>
      BY <1>5, <3>1
    <3>5. PICK j \in 1..Len(taken) : taken[j][2] = query /\ taken[j][3]
      BY <3>4 DEF Inv, SteeringInv, Draining
    <3>6. j \in 1..(k - 1) /\ taken'[j] = taken[j]
      BY <1>5, <2>1, <3>1
    <3>7. taken'[k][2] = query /\ lines'[taken'[k][2]] \in Over \ {"answered"}
      BY <3>2, <3>3
    <3>8. taken'[j][2] = taken'[k][2] /\ taken'[j][3]
      BY <3>5, <3>6, <3>7
    <3>9. QED
      BY <3>6, <3>7, <3>8 DEF DroppedWithRun
  <2>4. QED
    BY <2>2, <2>3 DEF Dropped
<1>15. QED
  BY <1>2, <1>10, <1>11, <1>12, <1>13, <1>14, RunStepsInv DEF Inv, SteeringInv

-----------------------------------------------------------------------------
(* The steps of leaving: who is cancelled now was not by Ctrl+C, but there *)
(* is no prompt any more.                                                  *)
LEMMA LeavingInv == Inv /\ (Stop \/ Leave \/ Interrupt \/ Return) => Inv'
<1> SUFFICES ASSUME Inv, Stop \/ Leave \/ Interrupt \/ Return PROVE Inv'
  OBVIOUS
<1> USE DEF Inv, Stop, Leave, Interrupt, Return, CancelConsumer
<1>1. TypeInv' /\ InTurn' /\ Settled' /\ Started' = Started /\ Started \in Nat
  <2>1. UNCHANGED <<lines, input_q, task, query, running, steering>>
    OBVIOUS
  <2>2. app' \in {"prompt", "exited", "leaving", "ended"} /\ consumer' \in {consumer, "ended"}
    BY DEF TypeInv
  <2>3. TypeInv'
    BY <2>1, <2>2 DEF TypeInv, steering
  <2>4. QED
    BY <2>1, <2>2, <2>3 DEF InTurn, Settled, Runs, Started
<1>2. StopsBehindPrompt' /\ CancelsItsRun'
  BY DEF StopsBehindPrompt, CancelsItsRun, Lines
<1>3. SteeringInv'
  BY <1>1, SteeringUndisturbed DEF OverKept
<1>4. QED
  BY <1>1, <1>2, <1>3

(* Every step of the console keeps the invariant.                          *)
LEMMA NextInv == Inv /\ [Next]_vars => Inv'
<1> SUFFICES ASSUME Inv, [Next]_vars PROVE Inv'
  OBVIOUS
<1>1. CASE UNCHANGED vars
  <2> USE <1>1 DEF vars
  <2>1. TypeInv' /\ Started' = Started /\ Started \in Nat /\ OverKept
    BY DEF Inv, TypeInv, InTurn, Started, OverKept, steering
  <2>2. SteeringInv'
    BY <2>1, SteeringUndisturbed DEF Inv
  <2>3. QED
    BY <2>1, <2>2, RestUndisturbed DEF Inv
<1>2. CASE Keys
  BY <1>2, EnterInv, ExitKeysInv, SteerInv, LeavingInv DEF Keys
<1>3. CASE EventLoop
  BY <1>3, SteerArrivesInv, GetInv, WakeInv, BeginEndInv, BreakOffInv, IterateInv,
     DeliverInv, LeavingInv DEF EventLoop
<1>4. QED
  BY <1>1, <1>2, <1>3 DEF Next

(* The invariant holds throughout.                                         *)
LEMMA Invariance == Spec => []Inv
<1>1. QED
  BY InitInv, NextInv, PTL DEF Spec

(* Messages at the places of their numbers are the numbers in order, and   *)
(* what was typed at an older run was typed at one that is over.           *)
LEMMA NumberedIsKept == Inv => SteeringKept
<1> SUFFICES ASSUME Inv PROVE SteeringKept
  OBVIOUS
<1>1. DOMAIN taken = 1..Len(taken) /\ Len(taken) \in Nat
  BY DEF Inv, TypeInv
<1> DEFINE told == [k \in DOMAIN taken |-> taken[k][1]]
<1>2. \A k \in 1..Len(taken) : taken[k][1] \in Nat
  <2>1. taken \in Seq(Took)
    BY DEF Inv, TypeInv
  <2>2. ASSUME NEW k \in 1..Len(taken) PROVE taken[k] \in Nat \X Nat \X BOOLEAN
    BY <2>1 DEF Took
  <2>3. QED
    BY <2>2
<1>3. /\ told \in Seq(Nat) /\ Len(told) = Len(taken)
      /\ \A k \in 1..Len(taken) : told[k] = k
  BY <1>1, <1>2 DEF Inv, SteeringInv, Numbered
<1> HIDE DEF told
<1>4. told \o draining \o inbox \o posted = [k \in 1..Steered |-> k]
  <2>1. draining \in Seq(Nat) /\ inbox \in Seq(Nat) /\ posted \in Seq(Nat)
    BY DEF Inv, TypeInv
  <2>2. PICK r, s, t : r = told \o draining /\ s = inbox /\ t = posted
    OBVIOUS
  <2>3. /\ r \in Seq(Nat) /\ Len(r) = Len(told) + Len(draining)
        /\ Len(told) \in Nat /\ Len(draining) \in Nat
    <3>1. told \in Seq(Nat) /\ draining \in Seq(Nat)
      BY <1>3, <2>1
    <3> HIDE DEF Inv
    <3>2. QED
      BY <2>2, <3>1
  <2>4. \A k \in 1..Len(r) : r[k] = k
    <3>1. \A k \in 1..Len(draining) : draining[k] = Len(told) + k
      BY <1>3 DEF Inv, SteeringInv, Numbered
    <3>2. told \in Seq(Nat) /\ \A k \in 1..Len(told) : told[k] = k
      BY <1>3
    <3> HIDE DEF Inv
    <3>3. QED
      BY <2>1, <2>2, <3>1, <3>2, RowGrows
  <2>5. s \in Seq(Nat) /\ t \in Seq(Nat)
    BY <2>1, <2>2
  <2>6. /\ \A k \in 1..Len(s) : s[k] = Len(r) + k
        /\ \A k \in 1..Len(t) : t[k] = Len(r) + Len(s) + k
    BY <1>3, <2>2, <2>3 DEF Inv, SteeringInv, Numbered
  <2>7. r \o s \o t = [k \in 1..(Len(t) + Len(s) + Len(r)) |-> k]
    BY <2>3, <2>4, <2>5, <2>6, InARow
  <2>8. Steered = Len(t) + Len(s) + Len(r)
    BY <1>3, <2>2, <2>3, <2>5 DEF Steered, Inv, SteeringInv, Numbered
  <2>9. QED
    BY <2>2, <2>7, <2>8
<1>5. \A j, k \in DOMAIN taken : j <= k => taken[j][2] <= taken[k][2]
  BY <1>1 DEF Inv, SteeringInv, TakenInTurn
<1>6. ASSUME NEW k \in DOMAIN taken, typed[k] # taken[k][2]
      PROVE  typed[k] < taken[k][2] /\ lines[typed[k]] \in Over
  <2>1. /\ Len(draining) \in Nat /\ Len(inbox) \in Nat /\ Len(posted) \in Nat
        /\ typed \in Seq(Nat)
    BY DEF Inv, TypeInv
  <2>2. k \in 1..Len(typed)
    BY <1>1, <2>1 DEF Inv, SteeringInv, Numbered
  <2>3. typed[k] \in Nat /\ Started \in Nat
    BY <2>1, <2>2 DEF Inv, InTurn
  <2>4. typed[k] <= taken[k][2] /\ taken[k][2] \in 1..Started
    BY <1>1 DEF Inv, SteeringInv, TakenInTurn
  <2>5. typed[k] < taken[k][2] /\ typed[k] # Started
    BY <1>6, <2>3, <2>4
  <2>6. typed[k] \in 1..Started
    BY <2>2 DEF Inv, SteeringInv, TakenInTurn
  <2>7. QED
    BY <2>5, <2>6 DEF Inv, Settled
<1>7. \A k \in DOMAIN taken : ~taken[k][3] => DroppedWithRun(k)
  BY <1>1 DEF Inv, SteeringInv, Dropped
<1>8. QED
  BY <1>4, <1>5, <1>6, <1>7 DEF SteeringKept, told

(* While the prompt is there, only a run that was current at some Ctrl+C   *)
(* is cancelled (_on_ctrl_c and _consume of cli/chat.py).                  *)
THEOREM CtrlCHitsItsRun == Spec => []CancelsItsRun
<1>1. Inv => CancelsItsRun
  BY DEF Inv
<1>2. QED
  BY <1>1, Invariance, PTL

(* Steering typed into the prompt goes once and in order through the       *)
(* tasks, the session's queue and the runs that drain it; what is lost was *)
(* drained with messages its run had appended when it broke off.           *)
THEOREM SteeringNeverLost == Spec => []SteeringKept
  BY Invariance, NumberedIsKept, PTL
=============================================================================
