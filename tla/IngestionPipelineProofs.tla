----------------------- MODULE IngestionPipelineProofs -----------------------
(***************************************************************************)
(* Theorems about IngestionPipeline, for any number of sources, workers,   *)
(* runs and editions: the order of the events, what a run leaves on the    *)
(* disk, what its report says and how an index entry can be lost.  Of the   *)
(* threads a cancelled run leaves behind, each of the last three excludes  *)
(* only the kind that could undo it.                                       *)
(***************************************************************************)
EXTENDS IngestionPipeline, SequenceTheorems, FiniteSetTheorems, TLAPS

Manifest == [source : Nat, edition : Nat]
Table == [Entities -> Manifest]
Threads == {"storing", "reading", "replacing", "filing"}
Places == {"none", "queued", "loading", "transforming", "locking", "done", "raised"}
            \cup Threads
Copies == [table : Table, read : BOOLEAN]
Thread == [source : Sources, edition : Nat, doing : Threads, copy : Copies]

(* Every variable has its type, and a task whose events wait has ended.    *)
TypeOK ==
  /\ entity \in Table /\ index \in Table /\ letters \in [Letters -> Nat]
  /\ run \in {"idle", "running", "drained"} /\ runs \in Nat
  /\ policy \in {"raise", "skip", "dead_letter"} /\ edition \in Nat
  /\ worker \in [Sources -> Places] /\ lock \in 0..NumSources
  /\ copy \in [Sources -> Copies]
  /\ finished \in Seq(Sources) /\ orphans \subseteq Thread
  /\ nextSeq \in Nat /\ numbered \in [Sources -> Nat] /\ yielded \in Seq(Nat)
  /\ succeeded \in Nat /\ skipped \in Nat /\ failed \in Nat /\ failures \in Seq(Sources)

(* A manifest made of a source and an edition, in its entity's place.      *)
LEMMA TableTypes ==
  /\ Blank \in Table
  /\ \A table \in Table, s \in Sources, e \in Nat :
       [table EXCEPT ![EntityOf[s]] = Key(s, e)] \in Table
<1>1. Nothing \in Manifest /\ \A s \in Sources, e \in Nat : Key(s, e) \in Manifest
  BY DEF Nothing, Key, Manifest, Sources
<1>2. QED
  BY <1>1 DEF Blank, Table

(* What a thread reads of the index, or takes it for.                      *)
LEMMA CopyTypes ==
  /\ NoCopy \in Copies /\ (index \in Table => ReadExisting \subseteq Copies)
<1>1. \A table \in Table, read \in BOOLEAN : Copy(table, read) \in Copies
  BY DEF Copy, Copies
<1>2. QED
  BY <1>1, TableTypes DEF NoCopy, ReadExisting

(* Sources are numbers, and 0 is none of them.                             *)
LEMMA SourceNumbers ==
  /\ NumSources \in Nat /\ 0 \in 0..NumSources
  /\ \A s \in Sources : s \in Nat /\ s # 0 /\ s \in 0..NumSources
  BY PipelineAssumption DEF Sources

LEMMA TypeInit == Init => TypeOK
  BY TableTypes, CopyTypes, PipelineAssumption
  DEF Init, TypeOK, Places, Threads, Letters, Sources

USE DEF At, disk, setup, stream, report

(* The steps that end a task, number an event or go to another place.      *)
LEMMA StepTypes ==
  ASSUME TypeOK, NEW s \in Sources
  PROVE  /\ \A place \in Places : Goto(s, place) => worker' \in [Sources -> Places]
         /\ \A place \in Places :
              Finish(s, place) => worker' \in [Sources -> Places] /\ finished' \in Seq(Sources)
         /\ Number(s) => nextSeq' \in Nat /\ numbered' \in [Sources -> Nat]
         /\ Release(s) => lock' \in 0..NumSources /\ copy' \in [Sources -> Copies]
         /\ Unlock(s) => lock' \in 0..NumSources /\ copy' \in [Sources -> Copies]
         /\ Append(failures, s) \in Seq(Sources)
<1>1. NumSources \in Nat /\ 0 \in 0..NumSources
  BY PipelineAssumption
<1>2. Release(s) => lock' \in 0..NumSources /\ copy' \in [Sources -> Copies]
  BY <1>1, CopyTypes DEF Release, TypeOK
<1>3. Append(finished, s) \in Seq(Sources) /\ Append(failures, s) \in Seq(Sources)
  BY DEF TypeOK
<1>4. \A place \in Places : Goto(s, place) => worker' \in [Sources -> Places]
  BY DEF TypeOK, Goto
<1>5. \A place \in Places :
        Finish(s, place) => worker' \in [Sources -> Places] /\ finished' \in Seq(Sources)
  BY <1>3, <1>4 DEF Finish
<1>6. Number(s) => nextSeq' \in Nat /\ numbered' \in [Sources -> Nat]
  BY DEF TypeOK, Number
<1>7. Unlock(s) => lock' \in 0..NumSources /\ copy' \in [Sources -> Copies]
  BY <1>2 DEF TypeOK, Unlock
<1>8. QED
  BY <1>2, <1>3, <1>4, <1>5, <1>6, <1>7

(* What is left of a run that is cancelled or dies.                        *)
LEMMA ResetTypes ==
  Reset => /\ run' = "idle" /\ worker' \in [Sources -> Places] /\ finished' = <<>>
           /\ lock' \in 0..NumSources /\ copy' \in [Sources -> Copies]
  BY CopyTypes, PipelineAssumption DEF Reset, Places

LEMMA JobsTypes == TypeOK => Jobs \subseteq Thread
  BY DEF TypeOK, Jobs, Thread, Threads

LEMMA TypeStep == TypeOK /\ [Next]_vars => TypeOK'
<1> SUFFICES ASSUME TypeOK, [Next]_vars PROVE TypeOK'
  OBVIOUS
<1> USE DEF TypeOK
<1>1. ASSUME NEW s \in Sources, Enter(s) \/ Transform(s) PROVE TypeOK'
  BY <1>1, StepTypes DEF Enter, Transform, Places, Threads
<1>2. ASSUME NEW s \in Sources, Load(s) PROVE TypeOK'
  <2>1. /\ worker' \in [Sources -> Places] /\ finished' \in Seq(Sources)
        /\ skipped' \in Nat /\ nextSeq' \in Nat /\ numbered' \in [Sources -> Nat]
    BY <1>2, StepTypes, SMTT(30) DEF Load, Places
  <2>2. QED
    BY <1>2, <2>1 DEF Load
<1>3. ASSUME NEW s \in Sources, Store(s) PROVE TypeOK'
  BY <1>3, StepTypes, TableTypes DEF Store, Stored, Places
<1>4. ASSUME NEW s \in Sources, Lock(s) PROVE TypeOK'
  <2>1. lock' \in 0..NumSources /\ worker' \in [Sources -> Places]
    BY <1>4, StepTypes, SourceNumbers DEF Lock, LockIndex, Places, Threads
  <2>2. QED
    BY <1>4, <2>1 DEF Lock
<1>5. ASSUME NEW s \in Sources, Read(s) PROVE TypeOK'
  <2>1. worker' \in [Sources -> Places]
    BY <1>5, StepTypes DEF Read, Places, Threads
  <2>2. PICK c \in Copies : copy' = [copy EXCEPT ![s] = c]
    BY <1>5, CopyTypes DEF Read
  <2>3. QED
    BY <1>5, <2>1, <2>2 DEF Read
<1>6. ASSUME NEW s \in Sources, Replace(s) PROVE TypeOK'
  <2>1. index' \in Table
    <3>1. copy[s].table \in Table
      BY DEF Copies
    <3>2. QED
      BY <1>6, <3>1, TableTypes DEF Replace, Upserted
  <2>2. /\ worker' \in [Sources -> Places] /\ finished' \in Seq(Sources)
        /\ lock' \in 0..NumSources /\ copy' \in [Sources -> Copies]
        /\ nextSeq' \in Nat /\ numbered' \in [Sources -> Nat]
    BY <1>6, StepTypes DEF Replace, Places
  <2>3. QED
    BY <1>6, <2>1, <2>2 DEF Replace
<1>7. ASSUME NEW s \in Sources, Raise(s) \/ FileFails(s) PROVE TypeOK'
  BY <1>7, StepTypes DEF Raise, FileFails, Places
<1>8. ASSUME NEW s \in Sources, Skip(s) PROVE TypeOK'
  BY <1>8, StepTypes DEF Skip, SkipCounting, Places
<1>9. ASSUME NEW s \in Sources, Divert(s) PROVE TypeOK'
  BY <1>9, StepTypes DEF Divert, Places, Threads
<1>10. ASSUME NEW s \in Sources, File(s) PROVE TypeOK'
  <2>1. letters' \in [Letters -> Nat]
    BY <1>10, SourceNumbers DEF File, Filed
  <2>2. QED
    BY <1>10, <2>1, StepTypes DEF File, Places
<1>11. CASE Collect
  <2>1. finished' \in Seq(Sources) /\ Head(finished) \in Sources
    BY <1>11, HeadTailProperties DEF Collect
  <2>2. yielded' \in Seq(Nat)
    BY <1>11, <2>1 DEF Collect
  <2>3. QED
    BY <1>11, <2>1, <2>2 DEF Collect
<1>12. CASE Propagate \/ Abandon
  <2>1. Reset /\ orphans' \subseteq Thread
    BY <1>12, JobsTypes DEF Propagate, Abandon, Cancel
  <2>2. UNCHANGED <<disk, setup, stream, report>>
    BY <1>12 DEF Propagate, Abandon
  <2>3. QED
    BY <2>1, <2>2, ResetTypes
<1>13. CASE Crash
  <2>1. Nothing \in Manifest
    BY DEF Nothing, Key, Manifest
  <2>2. PICK gone : entity' = [e \in Entities |-> IF e \in gone THEN Nothing ELSE entity[e]]
    BY <1>13 DEF Crash
  <2>3. entity' \in Table
    BY <2>1, <2>2 DEF Table
  <2>4. QED
    BY <1>13, <2>3, ResetTypes DEF Crash
<1>14. CASE Drain
  BY <1>14 DEF Drain, Places
<1>15. ASSUME NEW p \in Policies, NEW e \in edition..MaxEditions, StartRun(p, e)
       PROVE  TypeOK'
  BY <1>15, PipelineAssumption DEF StartRun, Places
<1>16. ASSUME NEW o \in orphans, OrphanEnds(o) PROVE TypeOK'
  <2>1. o \in Thread /\ o.source \in Sources /\ o.edition \in Nat /\ o.copy.table \in Table
    BY DEF Thread, Copies
  <2>2. entity' \in Table /\ index' \in Table
    <3>1. CASE Stored(o.source, o.edition) /\ UNCHANGED <<index, letters>>
      BY <2>1, <3>1, TableTypes DEF Stored
    <3>2. CASE Upserted(o.copy.table, o.source, o.edition) /\ UNCHANGED <<entity, letters>>
      BY <2>1, <3>2, TableTypes DEF Upserted
    <3>3. CASE UNCHANGED <<entity, index>>
      BY <3>3
    <3>4. QED
      BY <1>16, <3>1, <3>2, <3>3 DEF OrphanEnds
  <2>3. letters' \in [Letters -> Nat]
    BY <1>16, <2>1, SourceNumbers DEF OrphanEnds, Filed
  <2>4. QED
    BY <1>16, <2>2, <2>3 DEF OrphanEnds
<1>17. ASSUME NEW o \in orphans, OrphanReads(o) PROVE TypeOK'
  <2>1. PICK c \in Copies :
          orphans' = (orphans \ {o}) \cup {[o EXCEPT !.doing = "replacing", !.copy = c]}
    BY <1>17, CopyTypes DEF OrphanReads
  <2>2. [o EXCEPT !.doing = "replacing", !.copy = c] \in Thread
    BY DEF Thread, Threads
  <2>3. QED
    BY <1>17, <2>1, <2>2 DEF OrphanReads
<1>18. CASE Quiet \/ UNCHANGED vars
  BY <1>18 DEF Quiet, vars
<1>19. QED
  BY <1>1, <1>2, <1>3, <1>4, <1>5, <1>6, <1>7, <1>8, <1>9, <1>10, <1>11, <1>12, <1>13,
     <1>14, <1>15, <1>16, <1>17, <1>18 DEF Next, RunStep, Work

(* Every reachable state of the pipeline and its disk is well typed.       *)
THEOREM PipelineTypes == Spec => []TypeOK
  BY TypeInit, TypeStep, PTL DEF Spec

-----------------------------------------------------------------------------
(* The order of the events.  A number is taken in the step that ends the   *)
(* task, unless a letter is filed in between; so the tasks that wait for   *)
(* the consumer stand in the order of their numbers, behind every number   *)
(* yielded, and those that raised in between have none.                    *)

Ended(s) == worker[s] \in {"done", "raised"}
Waiting(k) == k \in DOMAIN finished /\ worker[finished[k]] = "done"

OnlyEndedWait ==
  /\ \A k \in DOMAIN finished : Ended(finished[k])
  /\ run # "running" => finished = <<>>
FilingIsDiverted == \A s \in Sources : worker[s] = "filing" => policy = "dead_letter"
NumbersBelow ==
  /\ \A k \in DOMAIN yielded : yielded[k] < nextSeq
  /\ run = "running" => \A s \in Sources : numbered[s] < nextSeq
WaitInOrder ==
  policy # "dead_letter" =>
    \A k \in DOMAIN finished : Waiting(k) =>
      /\ \A i \in DOMAIN yielded : yielded[i] < numbered[finished[k]]
      /\ \A j \in 1..(k - 1) : Waiting(j) => numbered[finished[j]] < numbered[finished[k]]

SeqInv ==
  OnlyEndedWait /\ FilingIsDiverted /\ NumbersBelow /\ WaitInOrder /\ SeqInOrderUnfiled

(* A worker goes from one await to the next.                               *)
LEMMA SeqGoto ==
  ASSUME TypeOK, SeqInv, NEW s \in Sources, NEW place \in Places,
         ~Ended(s), Goto(s, place), run = "running", run' = run,
         place = "filing" => policy = "dead_letter",
         UNCHANGED <<policy, finished, stream>>
  PROVE  SeqInv'
<1>1. \A t \in Sources : worker'[t] = IF t = s THEN place ELSE worker[t]
  BY DEF Goto, TypeOK
<1>2. \A k \in DOMAIN finished : finished[k] \in Sources /\ finished[k] # s
  BY DEF SeqInv, OnlyEndedWait, TypeOK
<1>3. \A k \in DOMAIN finished : worker'[finished[k]] = worker[finished[k]]
  BY <1>1, <1>2
<1>4. OnlyEndedWait'
  BY <1>3 DEF SeqInv, OnlyEndedWait, Ended
<1>5. FilingIsDiverted'
  BY <1>1 DEF SeqInv, FilingIsDiverted
<1>6. WaitInOrder'
  BY <1>3 DEF SeqInv, WaitInOrder, Waiting
<1>7. QED
  BY <1>4, <1>5, <1>6 DEF SeqInv, NumbersBelow, SeqInOrderUnfiled, SeqInOrder

(* A worker takes a number on its way to file a letter.                    *)
LEMMA SeqDivert ==
  ASSUME TypeOK, SeqInv, NEW s \in Sources,
         ~Ended(s), Goto(s, "filing"), Number(s), policy = "dead_letter",
         run = "running", run' = run, UNCHANGED <<policy, finished, yielded>>
  PROVE  SeqInv'
<1>1. \A t \in Sources : worker'[t] = IF t = s THEN "filing" ELSE worker[t]
  BY DEF Goto, TypeOK
<1>2. \A k \in DOMAIN finished : finished[k] \in Sources /\ finished[k] # s
  BY DEF SeqInv, OnlyEndedWait, TypeOK
<1>3. OnlyEndedWait'
  BY <1>1, <1>2 DEF SeqInv, OnlyEndedWait, Ended
<1>4. NumbersBelow'
  BY DEF SeqInv, NumbersBelow, Number, TypeOK
<1>5. QED
  BY <1>3, <1>4 DEF SeqInv, WaitInOrder, FilingIsDiverted, SeqInOrderUnfiled

(* A task ends, with a number of its own or, raised or filed, without one. *)
LEMMA SeqFinish ==
  ASSUME TypeOK, SeqInv, NEW s \in Sources, NEW place \in {"done", "raised"},
         ~Ended(s), Finish(s, place), run = "running", run' = run,
         \/ Number(s)
         \/ UNCHANGED <<nextSeq, numbered>> /\ (place = "raised" \/ policy = "dead_letter"),
         UNCHANGED <<policy, yielded>>
  PROVE  SeqInv'
<1> DEFINE n == Len(finished)
<1>1. \A t \in Sources : worker'[t] = IF t = s THEN place ELSE worker[t]
  BY DEF Finish, Goto, TypeOK
<1>2. /\ n \in Nat /\ DOMAIN finished = 1..n /\ DOMAIN finished' = 1..(n + 1)
      /\ finished'[n + 1] = s /\ \A k \in 1..n : finished'[k] = finished[k]
  BY AppendProperties DEF Finish, TypeOK
<1>3. \A k \in 1..n : finished[k] \in Sources /\ finished[k] # s
  <2>1. \A k \in DOMAIN finished : finished[k] \in Sources /\ Ended(finished[k])
    BY DEF SeqInv, OnlyEndedWait, TypeOK
  <2>2. QED
    BY <1>2, <2>1
<1>4. \A k \in 1..n : worker'[finished'[k]] = worker[finished[k]]
  BY <1>1, <1>2, <1>3
<1>5. worker'[finished'[n + 1]] = place
  BY <1>1, <1>2
<1>6. \A k \in 1..n : numbered'[finished'[k]] = numbered[finished[k]]
  BY <1>2, <1>3 DEF Number, TypeOK
<1>7. nextSeq' >= nextSeq /\ nextSeq \in Nat /\ nextSeq' \in Nat
  BY DEF Number, TypeOK
<1>8. OnlyEndedWait'
  BY <1>2, <1>4, <1>5 DEF SeqInv, OnlyEndedWait, Ended
<1>9. FilingIsDiverted'
  BY <1>1 DEF SeqInv, FilingIsDiverted
<1>10. NumbersBelow'
  <2>1. \A t \in Sources : numbered'[t] \in {numbered[t], nextSeq} /\ numbered[t] \in Nat
    BY DEF Number, TypeOK
  <2>2. \A t \in Sources : numbered'[t] = nextSeq => Number(s) \/ numbered[t] = nextSeq
    BY <2>1
  <2>3. Number(s) => nextSeq' = nextSeq + 1
    BY DEF Number
  <2>4. \A k \in DOMAIN yielded : yielded[k] \in Nat
    BY DEF TypeOK
  <2>5. QED
    BY <1>7, <2>1, <2>2, <2>3, <2>4 DEF SeqInv, NumbersBelow
<1>11. WaitInOrder'
  <2> SUFFICES ASSUME policy # "dead_letter", NEW k \in 1..(n + 1), Waiting(k)'
               PROVE  /\ \A i \in DOMAIN yielded : yielded[i] < numbered'[finished'[k]]
                      /\ \A j \in 1..(k - 1) :
                           Waiting(j)' => numbered'[finished'[j]] < numbered'[finished'[k]]
    BY <1>2 DEF WaitInOrder
  <2>1. \A j \in 1..n : Waiting(j)' <=> Waiting(j)
    BY <1>2, <1>4 DEF Waiting
  <2>2. \A j \in 1..n : numbered[finished[j]] \in Nat
    BY <1>3 DEF TypeOK
  <2>3. \A j \in 1..n : numbered[finished[j]] < nextSeq
    BY <1>3 DEF SeqInv, NumbersBelow
  <2>4. CASE k \in 1..n
    <3>1. /\ \A i \in DOMAIN yielded : yielded[i] < numbered[finished[k]]
          /\ \A j \in 1..(k - 1) : Waiting(j) => numbered[finished[j]] < numbered[finished[k]]
      BY <1>2, <2>1, <2>4 DEF SeqInv, WaitInOrder
    <3>2. \A j \in 1..(k - 1) : j \in 1..n
      BY <2>4, <1>2
    <3>3. QED
      BY <1>6, <1>7, <2>1, <2>2, <2>4, <3>1, <3>2
  <2>5. CASE k = n + 1
    <3>1. place = "done"
      BY <1>5, <2>5 DEF Waiting
    <3>2. nextSeq' = nextSeq + 1 /\ numbered'[finished'[k]] = nextSeq
      BY <1>2, <2>5, <3>1 DEF Number, TypeOK
    <3>3. \A i \in DOMAIN yielded : yielded[i] < nextSeq
      BY DEF SeqInv, NumbersBelow
    <3>4. \A j \in 1..(k - 1) : j \in 1..n
      BY <1>2, <2>5
    <3>5. QED
      BY <1>6, <1>7, <2>1, <2>3, <3>2, <3>3, <3>4
  <2>6. QED
    BY <1>2, <2>4, <2>5
<1>12. QED
  BY <1>8, <1>9, <1>10, <1>11 DEF SeqInv, SeqInOrderUnfiled, SeqInOrder

(* The consumer takes the first of the tasks that wait.                    *)
LEMMA SeqCollect == ASSUME TypeOK, SeqInv, Collect PROVE SeqInv'
<1> DEFINE n == Len(finished)
           m == Len(yielded)
<1>1. /\ finished # <<>> /\ worker[Head(finished)] = "done" /\ run = "running"
      /\ finished' = Tail(finished) /\ yielded' = Append(yielded, numbered[Head(finished)])
      /\ UNCHANGED <<run, policy, worker, nextSeq, numbered>>
  BY DEF Collect
<1>2. /\ n \in Nat \ {0} /\ DOMAIN finished = 1..n /\ Head(finished) = finished[1]
      /\ DOMAIN finished' = 1..(n - 1) /\ \A k \in 1..(n - 1) : finished'[k] = finished[k + 1]
  BY <1>1, HeadTailProperties, EmptySeq DEF TypeOK
<1>3. \A k \in 1..n : finished[k] \in Sources /\ numbered[finished[k]] \in Nat
  BY <1>2 DEF TypeOK
<1>4. /\ m \in Nat /\ DOMAIN yielded = 1..m /\ DOMAIN yielded' = 1..(m + 1)
      /\ yielded'[m + 1] = numbered[finished[1]] /\ \A i \in 1..m : yielded'[i] = yielded[i]
      /\ \A i \in 1..m : yielded[i] \in Nat
  BY <1>1, <1>2, <1>3, AppendProperties, SMTT(30) DEF TypeOK
<1>5. Waiting(1) /\ 1 \in DOMAIN finished
  BY <1>1, <1>2 DEF Waiting
<1>6. OnlyEndedWait'
  BY <1>1, <1>2 DEF SeqInv, OnlyEndedWait, Ended
<1>7. FilingIsDiverted'
  BY <1>1 DEF SeqInv, FilingIsDiverted
<1>8. NumbersBelow'
  BY <1>1, <1>2, <1>3, <1>4 DEF SeqInv, NumbersBelow
<1>9. CASE policy = "dead_letter"
  BY <1>1, <1>6, <1>7, <1>8, <1>9 DEF SeqInv, WaitInOrder, SeqInOrderUnfiled
<1>10. CASE policy # "dead_letter"
  <2>1. \A i \in 1..m : yielded[i] < numbered[finished[1]]
    BY <1>4, <1>5, <1>10 DEF SeqInv, WaitInOrder
  <2>2. SeqInOrder'
    <3>1. \A i, j \in 1..m : i < j => yielded[i] < yielded[j]
      BY <1>4, <1>10 DEF SeqInv, SeqInOrderUnfiled, SeqInOrder
    <3>2. QED
      BY <1>4, <2>1, <3>1 DEF SeqInOrder
  <2>3. WaitInOrder'
    <3> SUFFICES ASSUME NEW k \in 1..(n - 1), Waiting(k)'
                 PROVE  /\ \A i \in 1..(m + 1) : yielded'[i] < numbered[finished[k + 1]]
                        /\ \A j \in 1..(k - 1) :
                             Waiting(j)' => numbered[finished[j + 1]] < numbered[finished[k + 1]]
      BY <1>1, <1>2, <1>4, SMTT(30) DEF WaitInOrder
    <3>1. \A j \in 1..(n - 1) : Waiting(j)' <=> Waiting(j + 1)
      BY <1>1, <1>2 DEF Waiting
    <3>2. Waiting(k + 1) /\ k + 1 \in DOMAIN finished
      BY <1>2, <3>1
    <3>3. /\ \A i \in 1..m : yielded[i] < numbered[finished[k + 1]]
          /\ \A j \in 1..k : Waiting(j) => numbered[finished[j]] < numbered[finished[k + 1]]
      <4>1. (k + 1) - 1 = k
        BY <1>2
      <4>2. QED
        BY <1>4, <1>10, <3>2, <4>1 DEF SeqInv, WaitInOrder
    <3>4. numbered[finished[1]] < numbered[finished[k + 1]]
      BY <1>2, <1>5, <3>3
    <3>5. \A j \in 1..(k - 1) : Waiting(j)' => Waiting(j + 1) /\ j + 1 \in 1..k
      BY <1>2, <3>1
    <3>6. \A i \in 1..(m + 1) : yielded'[i] < numbered[finished[k + 1]]
      BY <1>4, <3>3, <3>4
    <3>7. \A j \in 1..(k - 1) : Waiting(j)' => numbered[finished[j + 1]] < numbered[finished[k + 1]]
      BY <3>3, <3>5
    <3>8. QED
      BY <3>6, <3>7
  <2>4. QED
    BY <1>6, <1>7, <1>8, <2>2, <2>3 DEF SeqInv, SeqInOrderUnfiled
<1>11. QED
  BY <1>9, <1>10

(* Nothing waits behind the last event, or behind the first.               *)
LEMMA SeqDrain == ASSUME TypeOK, SeqInv, Drain PROVE SeqInv'
<1> DEFINE m == Len(yielded)
<1>1. /\ run' = "drained" /\ finished' = <<>> /\ policy' = policy
      /\ worker' = [s \in Sources |-> "none"]
      /\ yielded' = Append(yielded, nextSeq) /\ nextSeq' = nextSeq + 1
  BY DEF Drain, MayDrain
<1>2. /\ m \in Nat /\ DOMAIN yielded = 1..m /\ DOMAIN yielded' = 1..(m + 1)
      /\ yielded'[m + 1] = nextSeq /\ \A i \in 1..m : yielded'[i] = yielded[i]
      /\ \A i \in 1..m : yielded[i] \in Nat
  BY <1>1, AppendProperties, SMTT(30) DEF TypeOK
<1>3. nextSeq \in Nat /\ \A i \in 1..m : yielded[i] < nextSeq
  BY <1>2 DEF SeqInv, NumbersBelow, TypeOK
<1>4. NumbersBelow'
  BY <1>1, <1>2, <1>3 DEF NumbersBelow
<1>5. SeqInOrderUnfiled'
  BY <1>1, <1>2, <1>3 DEF SeqInv, SeqInOrderUnfiled, SeqInOrder
<1>6. OnlyEndedWait' /\ FilingIsDiverted' /\ WaitInOrder'
  BY <1>1 DEF OnlyEndedWait, FilingIsDiverted, WaitInOrder
<1>7. QED
  BY <1>4, <1>5, <1>6 DEF SeqInv

LEMMA SeqReset == ASSUME SeqInv, Reset, UNCHANGED <<policy, stream>> PROVE SeqInv'
  BY DEF Reset, SeqInv, OnlyEndedWait, FilingIsDiverted, WaitInOrder, NumbersBelow,
         SeqInOrderUnfiled, SeqInOrder

LEMMA SeqStart ==
  ASSUME SeqInv, NEW p, NEW e, StartRun(p, e) PROVE SeqInv'
<1>1. /\ finished' = <<>> /\ yielded' = <<0>> /\ nextSeq' = 1
      /\ worker' = [s \in Sources |-> "queued"] /\ numbered' = [s \in Sources |-> 0]
  BY DEF StartRun, SeqInv, OnlyEndedWait
<1>2. QED
  BY <1>1 DEF SeqInv, OnlyEndedWait, FilingIsDiverted, WaitInOrder, NumbersBelow,
              SeqInOrderUnfiled, SeqInOrder

LEMMA SeqStep == TypeOK /\ SeqInv /\ [Next]_vars => SeqInv'
<1> SUFFICES ASSUME TypeOK, SeqInv, [Next]_vars PROVE SeqInv'
  OBVIOUS
<1>1. ASSUME NEW s \in Sources, Enter(s) \/ Transform(s) \/ Store(s) \/ Lock(s) \/ Read(s)
      PROVE  SeqInv'
  <2>1. PICK place \in {"loading", "storing", "locking", "reading", "replacing"} : Goto(s, place)
    BY <1>1 DEF Enter, Transform, Store, Lock, Read
  <2>2. /\ ~Ended(s) /\ run = "running" /\ run' = run
        /\ UNCHANGED <<policy, finished, stream>>
    BY <1>1 DEF Enter, Transform, Store, Lock, LockIndex, Read, Ended
  <2>3. QED
    BY <2>1, <2>2, SeqGoto DEF Places, Threads
<1>2. ASSUME NEW s \in Sources, Load(s) PROVE SeqInv'
  <2>1. /\ ~Ended(s) /\ run = "running" /\ run' = run /\ UNCHANGED <<policy, yielded>>
        /\ \/ Number(s) /\ Finish(s, "done")
           \/ Goto(s, "transforming") /\ UNCHANGED <<finished, nextSeq, numbered>>
    BY <1>2 DEF Load, Ended
  <2>2. QED
    BY <2>1, SeqGoto, SeqFinish DEF Places
<1>3. ASSUME NEW s \in Sources, Replace(s) \/ Skip(s) PROVE SeqInv'
  <2>1. /\ ~Ended(s) /\ run = "running" /\ run' = run /\ UNCHANGED <<policy, yielded>>
        /\ Number(s) /\ Finish(s, "done")
    BY <1>3 DEF Replace, Skip, SkipCounting, MayFail, Ended
  <2>2. QED
    BY <2>1, SeqFinish
<1>4. ASSUME NEW s \in Sources, Raise(s) \/ FileFails(s) PROVE SeqInv'
  <2>1. /\ ~Ended(s) /\ run = "running" /\ run' = run
        /\ UNCHANGED <<policy, yielded, nextSeq, numbered>> /\ Finish(s, "raised")
    BY <1>4 DEF Raise, FileFails, MayFail, Ended
  <2>2. QED
    BY <2>1, SeqFinish
<1>5. ASSUME NEW s \in Sources, Divert(s) PROVE SeqInv'
  <2>1. /\ ~Ended(s) /\ run = "running" /\ run' = run /\ UNCHANGED <<policy, finished, yielded>>
        /\ policy = "dead_letter" /\ Goto(s, "filing") /\ Number(s)
    BY <1>5 DEF Divert, MayFail, Ended
  <2>2. QED
    BY <2>1, SeqDivert
<1>6. ASSUME NEW s \in Sources, File(s) PROVE SeqInv'
  <2>1. /\ ~Ended(s) /\ run = "running" /\ run' = run
        /\ UNCHANGED <<policy, yielded, nextSeq, numbered>> /\ Finish(s, "done")
    BY <1>6 DEF File, Ended
  <2>2. policy = "dead_letter"
    BY <1>6 DEF File, SeqInv, FilingIsDiverted
  <2>3. QED
    BY <2>1, <2>2, SeqFinish
<1>7. CASE Propagate \/ Abandon \/ Crash
  BY <1>7, SeqReset DEF Propagate, Abandon, Crash, Cancel
<1>8. CASE UNCHANGED <<run, policy, worker, finished, stream>>
  BY <1>8 DEF SeqInv, OnlyEndedWait, Ended, FilingIsDiverted, WaitInOrder, Waiting,
              NumbersBelow, SeqInOrderUnfiled, SeqInOrder
<1>9. (\E o \in orphans : OrphanEnds(o) \/ OrphanReads(o)) \/ Quiet \/ UNCHANGED vars
        => UNCHANGED <<run, policy, worker, finished, stream>>
  BY DEF OrphanEnds, OrphanReads, Quiet, vars
<1>10. QED
  BY <1>1, <1>2, <1>3, <1>4, <1>5, <1>6, <1>7, <1>8, <1>9, SeqCollect, SeqDrain, SeqStart
  DEF Next, RunStep, Work

(* Unless a letter is filed, the events of a run come in the order of      *)
(* their numbers, whatever raises, is abandoned or is still running from   *)
(* an earlier run.                                                         *)
THEOREM EventsInOrder == Spec => []SeqInOrderUnfiled
<1>1. Init => SeqInv
  BY DEF Init, SeqInv, OnlyEndedWait, FilingIsDiverted, WaitInOrder, NumbersBelow,
         SeqInOrderUnfiled, SeqInOrder
<1>2. SeqInv => SeqInOrderUnfiled
  BY DEF SeqInv
<1>3. QED
  BY <1>1, <1>2, SeqStep, PipelineTypes, PTL DEF Spec

-----------------------------------------------------------------------------
(* What follows is about behaviours in which no thread outlives the worker *)
(* that waits for it: a thread of an earlier run may store an old edition  *)
(* or write an index it has read before others changed it.                 *)

(* Without an abandoned stream and an error that ends a run there is none. *)
AwaitsItsThreads ==
  "abandon" \notin Faults /\ "letter" \notin Faults /\ "raise" \notin Policies

NoneRaises == orphans = {} /\ policy # "raise" /\ \A s \in Sources : worker[s] # "raised"

LEMMA NoneRaisesStep ==
  ASSUME AwaitsItsThreads PROVE TypeOK /\ NoneRaises /\ SeqInv /\ [Next]_vars => NoneRaises'
<1> SUFFICES ASSUME TypeOK, NoneRaises, SeqInv, [Next]_vars PROVE NoneRaises'
  OBVIOUS
<1> USE DEF NoneRaises
<1>1. ASSUME NEW s \in Sources, Work(s) PROVE NoneRaises'
  <2>1. PICK place \in Places \ {"raised"} : Goto(s, place)
    BY <1>1
    DEF AwaitsItsThreads, Work, Enter, Load, Transform, Store, Lock, Read, Replace, Raise,
        Skip, SkipCounting, Divert, File, FileFails, Finish, Places, Threads
  <2>2. UNCHANGED <<policy, orphans>>
    BY <1>1
    DEF AwaitsItsThreads, Work, Enter, Load, Transform, Store, Lock, Read, Replace, Raise,
        Skip, SkipCounting, Divert, File, FileFails
  <2>3. QED
    BY <2>1, <2>2 DEF Goto, TypeOK
<1>2. ~Propagate
  <2>1. ASSUME finished # <<>> PROVE Head(finished) \in Sources
    BY <2>1, HeadTailProperties DEF TypeOK
  <2>2. QED
    BY <2>1 DEF Propagate
<1>3. ~Abandon
  BY DEF AwaitsItsThreads, Abandon
<1>4. CASE Collect
  BY <1>4 DEF Collect
<1>5. CASE Drain
  BY <1>5 DEF Drain
<1>6. CASE Crash
  BY <1>6 DEF Crash, Reset
<1>7. ASSUME NEW p \in Policies, NEW e \in edition..MaxEditions, StartRun(p, e)
      PROVE  NoneRaises'
  BY <1>7 DEF StartRun, AwaitsItsThreads
<1>8. CASE Quiet \/ UNCHANGED vars
  BY <1>8 DEF Quiet, vars
<1>9. QED
  BY <1>1, <1>2, <1>3, <1>4, <1>5, <1>6, <1>7, <1>8 DEF Next, RunStep

(* A pipeline that skips or diverts what fails, files every letter and is  *)
(* read to its end leaves no thread behind, crashes included.              *)
THEOREM NoThreadLeft == AwaitsItsThreads => (Spec => [](orphans = {}))
<1> SUFFICES ASSUME AwaitsItsThreads PROVE Spec => [](orphans = {})
  OBVIOUS
<1>1. Init => NoneRaises /\ SeqInv
  BY DEF Init, NoneRaises, SeqInv, OnlyEndedWait, FilingIsDiverted, WaitInOrder,
         NumbersBelow, SeqInOrderUnfiled, SeqInOrder
<1>2. NoneRaises => orphans = {}
  BY DEF NoneRaises
<1>3. TypeOK /\ NoneRaises /\ SeqInv /\ [Next]_vars => NoneRaises'
  BY NoneRaisesStep
<1>4. QED
  BY <1>1, <1>2, <1>3, SeqStep, PipelineTypes, PTL DEF Spec

(* The threads left behind that a property has to exclude: one that will   *)
(* store an older edition, file a letter, or write the index.              *)
NoneStale == \A o \in orphans : o.doing = "storing" => o.edition = edition
NoneFiling == \A o \in orphans : o.doing # "filing"
NoneIndexing == \A o \in orphans : o.doing \notin {"reading", "replacing"}

-----------------------------------------------------------------------------
(* What a run leaves on the disk.                                          *)

Extracted(s) ==
  \E t \in Sources : EntityOf[t] = EntityOf[s] /\ entity[EntityOf[s]] = Key(t, edition)
Behind(s) == worker[s] \in {"locking", "reading", "replacing"}

(* A worker behind its write finds its entity current, and so does one     *)
(* that is done without a failure.                                         *)
StoredIsCurrent ==
  /\ run = "running" =>
       \A s \in Sources : Behind(s) \/ (worker[s] = "done" /\ ~Failed(s)) => Extracted(s)
  /\ EntitiesCurrent

(* Storing one source keeps the entities of all others current.            *)
LEMMA StoreKeeps ==
  ASSUME TypeOK, NEW s \in Sources, Stored(s, edition), edition' = edition
  PROVE  Extracted(s)' /\ \A t \in Sources : Extracted(t) => Extracted(t)'
<1>1. \A t \in Sources : entity'[EntityOf[t]] =
        IF EntityOf[t] = EntityOf[s] THEN Key(s, edition) ELSE entity[EntityOf[t]]
  BY DEF Stored, TypeOK, Table, Entities
<1>2. QED
  BY <1>1 DEF Extracted

LEMMA FailedKept ==
  ASSUME TypeOK, NEW s \in Sources, failures' = Append(failures, s)
  PROVE  Failed(s)' /\ \A t : Failed(t) => Failed(t)'
<1> DEFINE n == Len(failures)
<1>1. /\ n \in Nat /\ DOMAIN failures = 1..n /\ DOMAIN failures' = 1..(n + 1)
      /\ failures'[n + 1] = s /\ \A k \in 1..n : failures'[k] = failures[k]
  BY AppendProperties DEF TypeOK
<1>2. n + 1 \in DOMAIN failures' /\ \A k \in DOMAIN failures : k \in DOMAIN failures'
  BY <1>1
<1>3. QED
  BY <1>1, <1>2 DEF Failed

(* A worker goes on, and what it is behind of now is current.              *)
LEMMA CurrentGoto ==
  ASSUME TypeOK, StoredIsCurrent, NEW s \in Sources, NEW place, Goto(s, place),
         run = "running", UNCHANGED <<run, edition>>,
         \A t \in Sources : Extracted(t) => Extracted(t)',
         \A t : Failed(t) => Failed(t)',
         place \in {"locking", "reading", "replacing"} => Extracted(s)',
         place = "done" => Failed(s)' \/ Extracted(s)'
  PROVE  StoredIsCurrent'
<1>1. \A t \in Sources : worker'[t] = IF t = s THEN place ELSE worker[t]
  BY DEF Goto, TypeOK
<1>2. \A t \in Sources :
        Behind(t)' \/ (worker'[t] = "done" /\ ~Failed(t)') => Extracted(t)'
  BY <1>1 DEF StoredIsCurrent, Behind
<1>3. QED
  BY <1>2 DEF StoredIsCurrent, EntitiesCurrent

LEMMA CurrentStep ==
  TypeOK /\ StoredIsCurrent /\ NoneStale /\ [Next]_vars => StoredIsCurrent'
<1> SUFFICES ASSUME TypeOK, StoredIsCurrent, NoneStale, [Next]_vars PROVE StoredIsCurrent'
  OBVIOUS
<1>1. ASSUME NEW s \in Sources, Store(s) PROVE StoredIsCurrent'
  <2>1. /\ run = "running" /\ UNCHANGED <<run, edition, failures>>
        /\ Stored(s, edition) /\ Goto(s, "locking")
    BY <1>1 DEF Store
  <2>2. Extracted(s)' /\ \A t \in Sources : Extracted(t) => Extracted(t)'
    BY <2>1, StoreKeeps
  <2>3. \A t : Failed(t) => Failed(t)'
    BY <2>1 DEF Failed
  <2>4. QED
    BY <2>1, <2>2, <2>3, CurrentGoto
<1>2. ASSUME NEW s \in Sources, Enter(s) \/ Transform(s) \/ Raise(s) \/ FileFails(s)
      PROVE  StoredIsCurrent'
  <2>1. PICK place \in {"loading", "storing", "raised"} : Goto(s, place)
    BY <1>2 DEF Enter, Transform, Raise, FileFails, Finish
  <2>2. run = "running" /\ UNCHANGED <<run, edition, entity, failures>>
    BY <1>2 DEF Enter, Transform, Raise, MayFail, FileFails
  <2>3. QED
    BY <2>1, <2>2, CurrentGoto DEF Extracted, Failed
<1>3. ASSUME NEW s \in Sources, Lock(s) \/ Read(s) \/ Replace(s) PROVE StoredIsCurrent'
  <2>1. PICK place : Goto(s, place)
    BY <1>3 DEF Lock, Read, Replace, Finish
  <2>2. /\ run = "running" /\ UNCHANGED <<run, edition, entity, failures>> /\ Behind(s)
    BY <1>3 DEF Lock, LockIndex, Read, Replace, Behind
  <2>3. Extracted(s)
    BY <2>2 DEF StoredIsCurrent
  <2>4. QED
    BY <2>1, <2>2, <2>3, CurrentGoto DEF Extracted, Failed
<1>4. ASSUME NEW s \in Sources, Load(s) PROVE StoredIsCurrent'
  <2>1. run = "running" /\ UNCHANGED <<run, edition, entity, failures>>
    BY <1>4 DEF Load
  <2>2. CASE Ingested(s) /\ Goto(s, "done")
    BY <2>1, <2>2, CurrentGoto DEF Ingested, Extracted, Failed
  <2>3. CASE Goto(s, "transforming")
    BY <2>1, <2>3, CurrentGoto DEF Extracted, Failed
  <2>4. QED
    BY <1>4, <2>2, <2>3 DEF Load, Finish
<1>5. ASSUME NEW s \in Sources, Skip(s) \/ File(s) PROVE StoredIsCurrent'
  <2>1. /\ run = "running" /\ UNCHANGED <<run, edition, entity>>
        /\ failures' = Append(failures, s) /\ Goto(s, "done")
    BY <1>5 DEF Skip, SkipCounting, MayFail, File, Finish
  <2>2. QED
    BY <2>1, FailedKept, CurrentGoto DEF Extracted
<1>6. ASSUME NEW s \in Sources, Divert(s) PROVE StoredIsCurrent'
  <2>1. /\ run = "running" /\ UNCHANGED <<run, edition, entity, failures>> /\ Goto(s, "filing")
    BY <1>6 DEF Divert, MayFail
  <2>2. QED
    BY <2>1, CurrentGoto DEF Extracted, Failed
<1>7. CASE Drain
  <2>1. \A s \in Sources : Failed(s) \/ Extracted(s)
    BY <1>7 DEF Drain, MayDrain, StoredIsCurrent
  <2>2. run' = "drained" /\ UNCHANGED <<edition, entity, failures>>
    BY <1>7 DEF Drain
  <2>3. QED
    BY <2>1, <2>2 DEF StoredIsCurrent, EntitiesCurrent, Extracted, Failed
<1>8. ASSUME NEW p, NEW e, StartRun(p, e) PROVE StoredIsCurrent'
  BY <1>8 DEF StartRun, StoredIsCurrent, EntitiesCurrent, Behind
<1>9. CASE Propagate \/ Abandon \/ Crash
  BY <1>9 DEF Propagate, Abandon, Crash, Cancel, Reset, StoredIsCurrent, EntitiesCurrent
<1>10. CASE UNCHANGED <<entity, run, edition, worker, failures>>
  BY <1>10 DEF StoredIsCurrent, EntitiesCurrent, Behind, Extracted, Failed
<1>11. Collect \/ Quiet \/ UNCHANGED vars => UNCHANGED <<entity, run, edition, worker, failures>>
  BY DEF Collect, Quiet, vars
<1>12. ASSUME NEW o \in orphans, OrphanEnds(o) PROVE StoredIsCurrent'
  <2>1. UNCHANGED <<run, edition, worker, failures>>
    BY <1>12 DEF OrphanEnds
  <2>2. CASE UNCHANGED entity
    BY <1>10, <2>1, <2>2
  <2>3. CASE o.doing = "storing" /\ Stored(o.source, o.edition)
    <3>1. o.edition = edition /\ o.source \in Sources
      BY <2>3 DEF NoneStale, TypeOK, Thread
    <3>2. \A t \in Sources : Extracted(t) => Extracted(t)'
      BY <2>1, <2>3, <3>1, StoreKeeps
    <3>3. \A t : Failed(t)' <=> Failed(t)
      BY <2>1 DEF Failed
    <3>4. EntitiesCurrent'
      BY <2>1, <3>2, <3>3 DEF StoredIsCurrent, EntitiesCurrent, Extracted
    <3>5. QED
      BY <2>1, <3>2, <3>3, <3>4 DEF StoredIsCurrent, Behind
  <2>4. QED
    BY <1>12, <2>2, <2>3 DEF OrphanEnds
<1>13. ASSUME NEW o \in orphans, OrphanReads(o) PROVE StoredIsCurrent'
  BY <1>10, <1>13 DEF OrphanReads
<1>14. QED
  BY <1>1, <1>2, <1>3, <1>4, <1>5, <1>6, <1>7, <1>8, <1>9, <1>10, <1>11, <1>12, <1>13
  DEF Next, RunStep, Work

(* When a stream has ended by itself, every source it does not report as   *)
(* failed is ingested in the current edition, whatever earlier runs and    *)
(* crashes left, unless a thread that stores the outcome of an older       *)
(* prompt has outlived its worker.                                         *)
THEOREM IngestedIsCurrent == Spec /\ []NoneStale => []EntitiesCurrent
<1>1. Init => StoredIsCurrent
  BY DEF Init, StoredIsCurrent, EntitiesCurrent
<1>2. StoredIsCurrent => EntitiesCurrent
  BY DEF StoredIsCurrent
<1>3. QED
  BY <1>1, <1>2, CurrentStep, PipelineTypes, PTL DEF Spec

(* Where the prompt never changes, no thread can be stale.                 *)
OneEdition == edition = 1 /\ \A o \in orphans : o.edition = 1

LEMMA OneEditionStep == MaxEditions = 1 /\ OneEdition /\ [Next]_vars => OneEdition'
<1> SUFFICES ASSUME MaxEditions = 1, OneEdition, [Next]_vars PROVE OneEdition'
  OBVIOUS
<1>1. ASSUME NEW p \in Policies, NEW e \in edition..MaxEditions, StartRun(p, e)
      PROVE  OneEdition'
  BY <1>1 DEF OneEdition, StartRun
<1>2. CASE Propagate \/ Abandon
  BY <1>2 DEF Propagate, Abandon, Cancel, Jobs, OneEdition
<1>3. CASE Crash
  BY <1>3 DEF Crash, OneEdition
<1>4. ASSUME NEW o \in orphans, OrphanEnds(o) PROVE OneEdition'
  BY <1>4 DEF OrphanEnds, OneEdition
<1>5. ASSUME NEW o \in orphans, OrphanReads(o) PROVE OneEdition'
  <2>1. \A c : [o EXCEPT !.doing = "replacing", !.copy = c].edition = o.edition
    OBVIOUS
  <2>2. QED
    BY <1>5, <2>1 DEF OrphanReads, OneEdition
<1>6. CASE UNCHANGED <<edition, orphans>>
  BY <1>6 DEF OneEdition
<1>7. ASSUME NEW s \in Sources, Work(s) PROVE UNCHANGED <<edition, orphans>>
  BY <1>7
  DEF Work, Enter, Load, Transform, Store, Lock, Read, Replace, Raise, Skip, SkipCounting,
      Divert, File, FileFails
<1>8. Collect \/ Drain \/ Quiet \/ UNCHANGED vars => UNCHANGED <<edition, orphans>>
  BY DEF Collect, Drain, Quiet, vars
<1>9. QED
  BY <1>1, <1>2, <1>3, <1>4, <1>5, <1>6, <1>7, <1>8 DEF Next, RunStep

(* Where the prompt and the schema never change, a run that ends by itself *)
(* leaves everything it does not report as failed ingested, whatever       *)
(* threads earlier runs have left at work.                                 *)
THEOREM SamePromptIsCurrent == MaxEditions = 1 => (Spec => []EntitiesCurrent)
<1> SUFFICES ASSUME MaxEditions = 1 PROVE Spec => []EntitiesCurrent
  OBVIOUS
<1>1. Init => OneEdition
  BY DEF Init, OneEdition
<1>2. OneEdition => NoneStale
  BY DEF OneEdition, NoneStale
<1>3. OneEdition /\ [Next]_vars => OneEdition'
  BY OneEditionStep
<1>4. QED
  BY <1>1, <1>2, <1>3, IngestedIsCurrent, PTL DEF Spec

-----------------------------------------------------------------------------
(* The report.                                                             *)

Counted == {s \in Sources : worker[s] \in {"done", "filing"}}
Filing == {s \in Sources : worker[s] = "filing"}

(* While no task has raised, what the report counts are the sources that   *)
(* are done or about to be, and what it lists those whose letter is filed; *)
(* each of these has a letter of this run where its own belongs.           *)
ReportCounts ==
  run = "running" /\ (\A s \in Sources : worker[s] # "raised") =>
    /\ succeeded + skipped + failed = Cardinality(Counted)
    /\ failed = Len(failures) + Cardinality(Filing)
LettersFiled ==
  policy = "dead_letter" => \A s \in Sources : Failed(s) => Failed(letters[LetterOf[s]])
SumsUp ==
  run = "drained" =>
    succeeded + skipped + failed = NumSources /\ failed = Len(failures)
CountsInv == ReportCounts /\ SumsUp

LEMMA Sizes ==
  /\ IsFiniteSet(Sources) /\ Cardinality(Sources) = NumSources
  /\ \A S \in SUBSET Sources : Cardinality(S) \in Nat
  /\ \A S \in SUBSET Sources : \A s \in Sources \ S :
       Cardinality(S \cup {s}) = Cardinality(S) + 1
<1>1. IsFiniteSet(Sources) /\ Cardinality(Sources) = NumSources
  BY PipelineAssumption, FS_Interval DEF Sources
<1>2. \A S \in SUBSET Sources : IsFiniteSet(S)
  BY <1>1, FS_Subset
<1>3. QED
  BY <1>1, <1>2, FS_CardinalityType, FS_AddElement

(* How the two sets change when a worker goes on.                          *)
LEMMA CountGoto ==
  ASSUME TypeOK, NEW s \in Sources, NEW place, Goto(s, place)
  PROVE  /\ Cardinality(Counted) \in Nat /\ Cardinality(Filing) \in Nat
         /\ worker[s] \notin {"done", "filing"} /\ place \notin {"done", "filing"} =>
              Counted' = Counted /\ Filing' = Filing
         /\ worker[s] \notin {"done", "filing"} /\ place = "done" =>
              Cardinality(Counted') = Cardinality(Counted) + 1 /\ Filing' = Filing
         /\ worker[s] \notin {"done", "filing"} /\ place = "filing" =>
              /\ Cardinality(Counted') = Cardinality(Counted) + 1
              /\ Cardinality(Filing') = Cardinality(Filing) + 1
         /\ worker[s] = "filing" /\ place = "done" =>
              Counted' = Counted /\ Cardinality(Filing) = Cardinality(Filing') + 1
<1>1. \A t \in Sources : worker'[t] = IF t = s THEN place ELSE worker[t]
  BY DEF Goto, TypeOK
<1>2. Counted \in SUBSET Sources /\ Filing \in SUBSET Sources /\ Filing' \in SUBSET Sources
  BY DEF Counted, Filing
<1>3. ASSUME worker[s] \notin {"done", "filing"}, place \in {"done", "filing"}
      PROVE  Counted' = Counted \cup {s} /\ s \in Sources \ Counted
  BY <1>1, <1>3 DEF Counted
<1>4. ASSUME worker[s] # "filing", place = "filing"
      PROVE  Filing' = Filing \cup {s} /\ s \in Sources \ Filing
  BY <1>1, <1>4 DEF Filing
<1>5. ASSUME worker[s] = "filing", place = "done"
      PROVE  Counted' = Counted /\ Filing = Filing' \cup {s} /\ s \in Sources \ Filing'
  BY <1>1, <1>5 DEF Filing, Counted
<1>6. ASSUME worker[s] # "filing", place # "filing" PROVE Filing' = Filing
  BY <1>1, <1>6 DEF Filing
<1>7. ASSUME worker[s] \notin {"done", "filing"}, place \notin {"done", "filing"}
      PROVE  Counted' = Counted
  BY <1>1, <1>7 DEF Counted
<1>8. QED
  BY <1>2, <1>3, <1>4, <1>5, <1>6, <1>7, Sizes

(* How the counters move with a worker that goes on.                       *)
CountersMove(s, place) ==
  \/ /\ place = "raised" \/ (place \notin {"done", "filing"} /\ worker[s] # "filing")
     /\ UNCHANGED report
  \/ /\ place = "done" /\ worker[s] # "filing" /\ UNCHANGED <<failed, failures>>
     /\ \/ succeeded' = succeeded + 1 /\ skipped' = skipped
        \/ succeeded' = succeeded /\ skipped' = skipped + 1
  \/ /\ place = "done" /\ worker[s] # "filing" /\ UNCHANGED <<succeeded, skipped>>
     /\ failed' = failed + 1 /\ failures' = Append(failures, s)
  \/ /\ place = "filing" /\ worker[s] # "filing"
     /\ failed' = failed + 1 /\ UNCHANGED <<succeeded, skipped, failures>>
  \/ /\ place = "done" /\ worker[s] = "filing" /\ UNCHANGED <<succeeded, skipped, failed>>
     /\ failures' = Append(failures, s)

LEMMA ReportGoto ==
  ASSUME TypeOK, CountsInv, NEW s \in Sources, NEW place, Goto(s, place),
         ~Ended(s), run = "running", run' = run, CountersMove(s, place)
  PROVE  CountsInv'
<1>1. \A t \in Sources : worker'[t] = IF t = s THEN place ELSE worker[t]
  BY DEF Goto, TypeOK
<1>2. SumsUp'
  BY DEF SumsUp
<1>3. CASE place = "raised"
  BY <1>1, <1>2, <1>3 DEF CountsInv, ReportCounts
<1>4. CASE \E t \in Sources : worker[t] = "raised"
  BY <1>1, <1>2, <1>4 DEF CountsInv, ReportCounts, Ended
<1>5. CASE place # "raised" /\ \A t \in Sources : worker[t] # "raised"
  <2>1. /\ succeeded + skipped + failed = Cardinality(Counted)
        /\ failed = Len(failures) + Cardinality(Filing)
    BY <1>5 DEF CountsInv, ReportCounts
  <2>2. /\ succeeded \in Nat /\ skipped \in Nat /\ failed \in Nat /\ Len(failures) \in Nat
        /\ Len(Append(failures, s)) = Len(failures) + 1
    BY DEF TypeOK
  <2>3. worker[s] # "done"
    BY DEF Ended
  <2>4. Cardinality(Counted) \in Nat /\ Cardinality(Filing) \in Nat
    BY CountGoto
  <2>5. CASE place \notin {"done", "filing"} /\ worker[s] # "filing" /\ UNCHANGED report
    <3>1. Counted' = Counted /\ Filing' = Filing
      BY <2>3, <2>5, CountGoto
    <3>2. QED
      BY <1>2, <2>1, <2>5, <3>1 DEF CountsInv, ReportCounts
  <2>6. CASE place = "done" /\ worker[s] # "filing"
    <3>1. Cardinality(Counted') = Cardinality(Counted) + 1 /\ Filing' = Filing
      BY <2>3, <2>6, CountGoto
    <3>2. /\ succeeded' + skipped' + failed' = succeeded + skipped + failed + 1
          /\ \/ failed' = failed /\ Len(failures') = Len(failures)
             \/ failed' = failed + 1 /\ Len(failures') = Len(failures) + 1
      <4>1. CASE /\ UNCHANGED <<failed, failures>>
                 /\ \/ succeeded' = succeeded + 1 /\ skipped' = skipped
                    \/ succeeded' = succeeded /\ skipped' = skipped + 1
        BY <2>2, <4>1
      <4>2. CASE /\ UNCHANGED <<succeeded, skipped>>
                 /\ failed' = failed + 1 /\ failures' = Append(failures, s)
        BY <2>2, <4>2
      <4>3. QED
        BY <2>6, <4>1, <4>2 DEF CountersMove
    <3>3. succeeded' + skipped' + failed' = Cardinality(Counted')
      BY <2>1, <3>1, <3>2
    <3>4. failed' = Len(failures') + Cardinality(Filing')
      <4>1. Len(failures) + Cardinality(Filing) + 1 = Len(failures) + 1 + Cardinality(Filing)
        BY <2>2, <2>4
      <4>2. QED
        BY <2>1, <3>1, <3>2, <4>1
    <3>5. QED
      BY <1>2, <3>3, <3>4 DEF CountsInv, ReportCounts
  <2>7. CASE place = "filing" /\ worker[s] # "filing"
    <3>1. /\ Cardinality(Counted') = Cardinality(Counted) + 1
          /\ Cardinality(Filing') = Cardinality(Filing) + 1
      BY <2>3, <2>7, CountGoto
    <3>2. failed' = failed + 1 /\ UNCHANGED <<succeeded, skipped, failures>>
      BY <2>7 DEF CountersMove
    <3>3. succeeded' + skipped' + failed' = Cardinality(Counted')
      BY <2>1, <2>2, <3>1, <3>2
    <3>4. failed' = Len(failures') + Cardinality(Filing')
      <4>1. Len(failures) + Cardinality(Filing) + 1 = Len(failures) + (Cardinality(Filing) + 1)
        BY <2>2, <2>4
      <4>2. QED
        BY <2>1, <3>1, <3>2, <4>1
    <3>5. QED
      BY <1>2, <3>3, <3>4 DEF CountsInv, ReportCounts
  <2>8. CASE place = "done" /\ worker[s] = "filing"
    <3>1. Counted' = Counted /\ Cardinality(Filing) = Cardinality(Filing') + 1
      BY <2>8, CountGoto
    <3>2. Cardinality(Filing') \in Nat
      BY Sizes DEF Filing
    <3>3. UNCHANGED <<succeeded, skipped, failed>> /\ Len(failures') = Len(failures) + 1
      BY <2>2, <2>8 DEF CountersMove
    <3>4. failed' = Len(failures') + Cardinality(Filing')
      BY <2>1, <2>2, <3>1, <3>2, <3>3
    <3>5. QED
      BY <1>2, <2>1, <3>1, <3>3, <3>4 DEF CountsInv, ReportCounts
  <2>9. QED
    BY <1>5, <2>5, <2>6, <2>7, <2>8 DEF CountersMove
<1>6. QED
  BY <1>3, <1>4, <1>5

LEMMA CountsStep == TypeOK /\ CountsInv /\ [Next]_vars => CountsInv'
<1> SUFFICES ASSUME TypeOK, CountsInv, [Next]_vars PROVE CountsInv'
  OBVIOUS
<1>1. ASSUME NEW s \in Sources, Enter(s) \/ Transform(s) \/ Store(s) \/ Lock(s) \/ Read(s)
      PROVE  CountsInv'
  <2>1. PICK place \in {"loading", "storing", "locking", "reading", "replacing"} : Goto(s, place)
    BY <1>1 DEF Enter, Transform, Store, Lock, Read
  <2>2. /\ ~Ended(s) /\ worker[s] # "filing" /\ run = "running"
        /\ UNCHANGED <<run, report>>
    BY <1>1 DEF Enter, Transform, Store, Lock, LockIndex, Read, Ended
  <2>3. QED
    BY <2>1, <2>2, ReportGoto DEF CountersMove
<1>2. ASSUME NEW s \in Sources, Load(s) PROVE CountsInv'
  <2>1. /\ ~Ended(s) /\ worker[s] # "filing" /\ run = "running"
        /\ UNCHANGED <<run, succeeded, failed, failures>>
    BY <1>2 DEF Load, Ended
  <2>2. \/ skipped' = skipped + 1 /\ Goto(s, "done")
        \/ skipped' = skipped /\ Goto(s, "transforming")
    BY <1>2 DEF Load, Finish
  <2>3. QED
    BY <2>1, <2>2, ReportGoto DEF CountersMove
<1>3. ASSUME NEW s \in Sources, Replace(s) PROVE CountsInv'
  <2>1. /\ ~Ended(s) /\ worker[s] # "filing" /\ run = "running" /\ Goto(s, "done")
        /\ succeeded' = succeeded + 1 /\ UNCHANGED <<run, skipped, failed, failures>>
    BY <1>3 DEF Replace, Ended, Finish
  <2>2. QED
    BY <2>1, ReportGoto DEF CountersMove
<1>4. ASSUME NEW s \in Sources, Raise(s) \/ FileFails(s) PROVE CountsInv'
  <2>1. /\ ~Ended(s) /\ run = "running" /\ Goto(s, "raised") /\ UNCHANGED <<run, report>>
    BY <1>4 DEF Raise, MayFail, FileFails, Ended, Finish
  <2>2. QED
    BY <2>1, ReportGoto DEF CountersMove
<1>5. ASSUME NEW s \in Sources, Skip(s) PROVE CountsInv'
  <2>1. /\ ~Ended(s) /\ worker[s] # "filing" /\ run = "running" /\ Goto(s, "done")
        /\ failed' = failed + 1 /\ failures' = Append(failures, s)
        /\ UNCHANGED <<run, succeeded, skipped>>
    BY <1>5 DEF Skip, SkipCounting, MayFail, Ended, Finish
  <2>2. QED
    BY <2>1, ReportGoto DEF CountersMove
<1>6. ASSUME NEW s \in Sources, Divert(s) PROVE CountsInv'
  <2>1. /\ ~Ended(s) /\ worker[s] # "filing" /\ run = "running" /\ Goto(s, "filing")
        /\ failed' = failed + 1 /\ UNCHANGED <<run, succeeded, skipped, failures>>
    BY <1>6 DEF Divert, MayFail, Ended
  <2>2. QED
    BY <2>1, ReportGoto DEF CountersMove
<1>7. ASSUME NEW s \in Sources, File(s) PROVE CountsInv'
  <2>1. /\ ~Ended(s) /\ worker[s] = "filing" /\ run = "running" /\ Goto(s, "done")
        /\ failures' = Append(failures, s) /\ UNCHANGED <<run, succeeded, skipped, failed>>
    BY <1>7 DEF File, Ended, Finish
  <2>2. QED
    BY <2>1, ReportGoto DEF CountersMove
<1>8. CASE Drain
  <2>1. /\ run = "running" /\ run' = "drained" /\ UNCHANGED report
        /\ \A s \in Sources : worker[s] = "done"
    BY <1>8 DEF Drain, MayDrain
  <2>2. Counted = Sources /\ Filing = {}
    BY <2>1 DEF Counted, Filing
  <2>3. /\ succeeded + skipped + failed = Cardinality(Counted)
        /\ failed = Len(failures) + Cardinality(Filing)
    BY <2>1 DEF CountsInv, ReportCounts
  <2>4. Len(failures) \in Nat
    BY DEF TypeOK
  <2>5. succeeded + skipped + failed = NumSources /\ failed = Len(failures)
    BY <2>2, <2>3, <2>4, Sizes, FS_EmptySet
  <2>6. QED
    BY <2>1, <2>5 DEF CountsInv, ReportCounts, SumsUp
<1>9. ASSUME NEW p, NEW e, StartRun(p, e) PROVE CountsInv'
  <2>1. /\ run' = "running" /\ succeeded' = 0 /\ skipped' = 0 /\ failed' = 0
        /\ failures' = <<>> /\ worker' = [s \in Sources |-> "queued"]
    BY <1>9 DEF StartRun
  <2>2. Counted' = {} /\ Filing' = {}
    BY <2>1 DEF Counted, Filing
  <2>3. QED
    BY <2>1, <2>2, FS_EmptySet DEF CountsInv, ReportCounts, SumsUp
<1>10. CASE Propagate \/ Abandon \/ Crash
  <2>1. run' = "idle"
    BY <1>10 DEF Propagate, Abandon, Crash, Cancel, Reset
  <2>2. QED
    BY <2>1 DEF CountsInv, ReportCounts, SumsUp
<1>11. CASE UNCHANGED <<run, worker, report>>
  BY <1>11 DEF CountsInv, ReportCounts, Counted, Filing, SumsUp
<1>12. Collect \/ Quiet \/ UNCHANGED vars => UNCHANGED <<run, worker, report>>
  BY DEF Collect, Quiet, vars
<1>13. ASSUME NEW o \in orphans, OrphanEnds(o) \/ OrphanReads(o)
       PROVE  UNCHANGED <<run, worker, report>>
  BY <1>13 DEF OrphanEnds, OrphanReads
<1>14. QED
  BY <1>1, <1>2, <1>3, <1>4, <1>5, <1>6, <1>7, <1>8, <1>9, <1>10, <1>11, <1>12, <1>13
  DEF Next, RunStep, Work

(* The report of a stream that ended by itself counts every source exactly *)
(* once and lists the failed ones, whatever threads are left at work.      *)
THEOREM ReportSumsUp == Spec => []SumsUp
<1>1. Init => CountsInv
  BY DEF Init, CountsInv, ReportCounts, SumsUp
<1>2. CountsInv => SumsUp
  BY DEF CountsInv
<1>3. QED
  BY <1>1, <1>2, CountsStep, PipelineTypes, PTL DEF Spec

-----------------------------------------------------------------------------
(* The letters: a failure is in the report once its letter is written.     *)

LEMMA LettersStep == TypeOK /\ LettersFiled /\ NoneFiling /\ [Next]_vars => LettersFiled'
<1> SUFFICES ASSUME TypeOK, LettersFiled, NoneFiling, [Next]_vars PROVE LettersFiled'
  OBVIOUS
<1>1. ASSUME NEW s \in Sources, Skip(s) PROVE LettersFiled'
  BY <1>1 DEF Skip, SkipCounting, LettersFiled
<1>2. ASSUME NEW s \in Sources, File(s) PROVE LettersFiled'
  <2>1. failures' = Append(failures, s) /\ Filed(s) /\ policy' = policy
    BY <1>2 DEF File
  <2>2. Failed(s)' /\ \A t : Failed(t) => Failed(t)'
    BY <2>1, FailedKept
  <2>3. \A t \in Sources : LetterOf[t] \in Letters
    BY DEF Letters
  <2>4. \A t \in Sources : letters'[LetterOf[t]] =
          IF LetterOf[t] = LetterOf[s] THEN s ELSE letters[LetterOf[t]]
    BY <2>1, <2>3 DEF Filed, TypeOK
  <2>5. \A t \in Sources : Failed(t)' => t = s \/ Failed(t)
    BY <2>1, AppendProperties DEF Failed, TypeOK
  <2>6. QED
    BY <2>1, <2>2, <2>4, <2>5 DEF LettersFiled
<1>3. ASSUME NEW p, NEW e, StartRun(p, e) PROVE LettersFiled'
  BY <1>3 DEF StartRun, LettersFiled, Failed
<1>4. CASE UNCHANGED <<policy, letters, failures>>
  BY <1>4 DEF LettersFiled, Failed
<1>5. ASSUME NEW s \in Sources, Work(s), ~Skip(s), ~File(s)
      PROVE  UNCHANGED <<policy, letters, failures>>
  BY <1>5
  DEF Work, Enter, Load, Transform, Store, Lock, Read, Replace, Raise, Divert, FileFails
<1>6. Collect \/ Propagate \/ Drain \/ Abandon \/ Crash \/ Quiet \/ UNCHANGED vars =>
        UNCHANGED <<policy, letters, failures>>
  BY DEF Collect, Propagate, Drain, Abandon, Crash, Quiet, vars
<1>7. ASSUME NEW o \in orphans, OrphanEnds(o) \/ OrphanReads(o)
      PROVE  UNCHANGED <<policy, letters, failures>>
  BY <1>7 DEF OrphanEnds, OrphanReads, NoneFiling
<1>8. QED
  BY <1>1, <1>2, <1>3, <1>4, <1>5, <1>6, <1>7 DEF Next, RunStep

(* The report of a stream that ended by itself adds up, and under          *)
(* dead_letter there is a letter of this run for each failed source,       *)
(* unless a thread that files one has outlived its worker.                 *)
THEOREM ReportAddsUp == Spec /\ []NoneFiling => []ReportAccounts
<1>1. Init => LettersFiled
  BY DEF Init, LettersFiled, Failed
<1>2. SumsUp /\ LettersFiled => ReportAccounts
  BY DEF SumsUp, LettersFiled, ReportAccounts
<1>3. QED
  BY <1>1, <1>2, LettersStep, ReportSumsUp, PipelineTypes, PTL DEF Spec

-----------------------------------------------------------------------------
(* The index.  Whoever has read it holds the lock, so that the copy he     *)
(* will put his entry into is the index itself, or empty if the read       *)
(* failed.                                                                 *)

Faithful(c) == c = Copy(index, TRUE) \/ c = Copy(Blank, FALSE)

IndexHeld ==
  /\ \A s \in Sources : worker[s] \in {"reading", "replacing"} => lock = s
  /\ \A s \in Sources : worker[s] = "replacing" => Faithful(copy[s])
  /\ \A e \in Entities : index[e].edition <= edition

LEMMA IndexGoto ==
  ASSUME TypeOK, IndexHeld, NEW s \in Sources, NEW place, Goto(s, place),
         place \notin {"reading", "replacing"}, UNCHANGED <<index, edition>>,
         Unlock(s) \/ UNCHANGED <<lock, copy>>
  PROVE  IndexHeld'
<1>1. \A t \in Sources : worker'[t] = IF t = s THEN place ELSE worker[t]
  BY DEF Goto, TypeOK
<1>2. \A t \in Sources : t # s /\ worker[t] \in {"reading", "replacing"} =>
        lock' = lock /\ copy'[t] = copy[t]
  BY DEF IndexHeld, Unlock, Release, TypeOK
<1>3. QED
  BY <1>1, <1>2 DEF IndexHeld, Faithful

LEMMA IndexReplace ==
  ASSUME TypeOK, IndexHeld, NEW s \in Sources, Replace(s)
  PROVE  /\ IndexHeld' /\ index'[EntityOf[s]] = Key(s, edition)
         /\ \A e \in Entities \ {EntityOf[s]} :
              index'[e] = IF copy[s].read THEN index[e] ELSE Nothing
<1>1. /\ worker[s] = "replacing"
      /\ index' = [copy[s].table EXCEPT ![EntityOf[s]] = Key(s, edition)]
      /\ lock' = 0 /\ edition' = edition /\ worker' = [worker EXCEPT ![s] = "done"]
  BY DEF Replace, Upserted, Release, Finish, Goto
<1>2. Faithful(copy[s]) /\ \A t \in Sources : worker[t] \in {"reading", "replacing"} => t = s
  BY <1>1 DEF IndexHeld
<1>3. copy[s].table = IF copy[s].read THEN index ELSE Blank
  BY <1>2 DEF Faithful, Copy
<1>4. copy[s].table \in Table /\ EntityOf[s] \in Entities
  BY <1>3, TableTypes DEF TypeOK, Entities
<1>5. \A e \in Entities : index'[e] = IF e = EntityOf[s] THEN Key(s, edition) ELSE copy[s].table[e]
  BY <1>1, <1>4 DEF Table
<1>6. \A e \in Entities \ {EntityOf[s]} : index'[e] = IF copy[s].read THEN index[e] ELSE Nothing
  BY <1>3, <1>5 DEF Blank
<1>7. \A t \in Sources : worker'[t] \notin {"reading", "replacing"}
  BY <1>1, <1>2 DEF TypeOK
<1>8. \A e \in Entities : index'[e].edition <= edition
  <2>1. Key(s, edition).edition <= edition /\ Nothing.edition <= edition
    BY DEF Key, Nothing, TypeOK
  <2>2. ASSUME NEW e \in Entities, e # EntityOf[s] PROVE index'[e].edition <= edition
    BY <1>6, <2>1, <2>2 DEF IndexHeld
  <2>3. QED
    BY <1>4, <1>5, <2>1, <2>2
<1>9. QED
  BY <1>1, <1>4, <1>5, <1>6, <1>7, <1>8 DEF IndexHeld

LEMMA IndexStep == TypeOK /\ IndexHeld /\ NoneIndexing /\ [Next]_vars => IndexHeld'
<1> SUFFICES ASSUME TypeOK, IndexHeld, NoneIndexing, [Next]_vars PROVE IndexHeld'
  OBVIOUS
<1>1. ASSUME NEW s \in Sources, Work(s) PROVE IndexHeld'
  <2>1. CASE Lock(s)
    <3>1. /\ lock = 0 /\ lock' = s /\ UNCHANGED <<index, edition, copy>>
          /\ worker' = [worker EXCEPT ![s] = "reading"]
      BY <2>1 DEF Lock, LockIndex, Goto
    <3>2. \A t \in Sources : worker[t] \notin {"reading", "replacing"}
      BY <3>1, SourceNumbers DEF IndexHeld
    <3>3. QED
      BY <3>1, <3>2 DEF IndexHeld, TypeOK
  <2>2. CASE Read(s)
    <3>1. PICK c \in ReadExisting : copy' = [copy EXCEPT ![s] = c]
      BY <2>2 DEF Read
    <3>2. /\ worker[s] = "reading" /\ worker' = [worker EXCEPT ![s] = "replacing"]
          /\ UNCHANGED <<index, edition, lock>>
      BY <2>2 DEF Read, Goto
    <3>3. Faithful(c)'
      BY <3>1, <3>2 DEF ReadExisting, Faithful
    <3>4. QED
      BY <3>1, <3>2, <3>3 DEF IndexHeld, Faithful, TypeOK
  <2>3. CASE Replace(s)
    BY <2>3, IndexReplace
  <2>4. CASE Raise(s) \/ Skip(s) \/ Divert(s)
    <3>1. PICK place \in {"raised", "done", "filing"} : Goto(s, place)
      BY <2>4 DEF Raise, Skip, SkipCounting, Divert, Finish
    <3>2. Unlock(s) /\ UNCHANGED <<index, edition>>
      BY <2>4 DEF Raise, Skip, SkipCounting, Divert
    <3>3. QED
      BY <3>1, <3>2, IndexGoto
  <2>5. CASE Enter(s) \/ Load(s) \/ Transform(s) \/ Store(s) \/ File(s) \/ FileFails(s)
    <3>1. PICK place \in Places \ {"reading", "replacing"} : Goto(s, place)
      BY <2>5 DEF Enter, Load, Transform, Store, File, FileFails, Finish, Places, Threads
    <3>2. UNCHANGED <<index, edition, lock, copy>>
      BY <2>5 DEF Enter, Load, Transform, Store, File, FileFails
    <3>3. QED
      BY <3>1, <3>2, IndexGoto
  <2>6. QED
    BY <1>1, <2>1, <2>2, <2>3, <2>4, <2>5 DEF Work
<1>2. CASE Drain \/ Propagate \/ Abandon \/ Crash
  BY <1>2 DEF Drain, Propagate, Abandon, Crash, Cancel, Reset, IndexHeld
<1>3. ASSUME NEW p \in Policies, NEW e \in edition..MaxEditions, StartRun(p, e)
      PROVE  IndexHeld'
  <2>1. /\ worker' = [s \in Sources |-> "queued"] /\ index' = index /\ edition' = e
    BY <1>3 DEF StartRun
  <2>2. e \in Int /\ edition <= e /\ edition \in Nat
    BY PipelineAssumption DEF TypeOK
  <2>3. \A n \in Entities : index[n].edition \in Nat
    BY DEF TypeOK, Table, Manifest
  <2>4. \A n \in Entities : index'[n].edition <= edition'
    BY <2>1, <2>2, <2>3 DEF IndexHeld
  <2>5. QED
    BY <2>1, <2>4 DEF IndexHeld
<1>4. CASE UNCHANGED <<index, edition, worker, lock, copy>>
  BY <1>4 DEF IndexHeld, Faithful
<1>5. Collect \/ Quiet \/ UNCHANGED vars => UNCHANGED <<index, edition, worker, lock, copy>>
  BY DEF Collect, Quiet, vars
<1>6. ASSUME NEW o \in orphans, OrphanEnds(o) \/ OrphanReads(o)
      PROVE  UNCHANGED <<index, edition, worker, lock, copy>>
  BY <1>6 DEF OrphanEnds, OrphanReads, NoneIndexing
<1>7. QED
  BY <1>1, <1>2, <1>3, <1>4, <1>5, <1>6 DEF Next, RunStep

(* An entry of the index is only replaced, by one of its own entity that   *)
(* is not older, or lost to an update that could not read the index -      *)
(* unless a thread that writes the index has outlived its worker.          *)
THEOREM NoEntryLost == Spec /\ []NoneIndexing => IndexKept
<1>1. Init => IndexHeld
  BY PipelineAssumption
  DEF Init, IndexHeld, Blank, Nothing, Key
<1>2. ASSUME TypeOK, IndexHeld, NoneIndexing, [Next]_vars
      PROVE  [\A e \in Entities : index'[e] # index[e] => Superseded(e) \/ LostUnread(e)]_vars
  <2>1. ASSUME NEW s \in Sources, Replace(s), NEW e \in Entities, index'[e] # index[e]
        PROVE  Superseded(e) \/ LostUnread(e)
    <3>1. /\ index'[EntityOf[s]] = Key(s, edition)
          /\ e # EntityOf[s] => index'[e] = IF copy[s].read THEN index[e] ELSE Nothing
      BY <1>2, <2>1, IndexReplace
    <3>2. index[e].edition <= edition /\ edition \in Nat /\ index[e].edition \in Nat
      BY <1>2 DEF IndexHeld, TypeOK, Table, Manifest
    <3>3. CASE e = EntityOf[s]
      BY <3>1, <3>2, <3>3 DEF Superseded, Key
    <3>4. CASE e # EntityOf[s]
      BY <2>1, <3>1, <3>4 DEF LostUnread, Replace
    <3>5. QED
      BY <3>3, <3>4
  <2>2. index' = index \/ \E s \in Sources : Replace(s)
    BY <1>2
    DEF Next, RunStep, Work, Enter, Load, Transform, Store, Lock, Read, Raise, Skip,
        SkipCounting, Divert, File, FileFails, Collect, Propagate, Drain, Abandon, Crash,
        Quiet, StartRun, OrphanEnds, OrphanReads, NoneIndexing, vars
  <2>3. QED
    BY <2>1, <2>2
<1>3. QED
  BY <1>1, <1>2, IndexStep, PipelineTypes, PTL DEF Spec, IndexKept
=============================================================================
