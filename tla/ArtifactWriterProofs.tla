------------------------ MODULE ArtifactWriterProofs ------------------------
(***************************************************************************)
(* Proofs about ArtifactWriter for any number of writers of one entity,    *)
(* any faults and any number of writes: type correctness, that a write     *)
(* that raised never shows, and that the version promoted last is kept;    *)
(* and, for calls that do not overlap, that they implement AtomicEntity.   *)
(***************************************************************************)
EXTENDS ArtifactWriter, TLAPS

-----------------------------------------------------------------------------
(* The inductive invariant.                                                *)

Busy(w) == pc[w] # "idle"
Unpromoted(w) == pc[w] \notin {"idle", "cleaning"}
Shown(v) == v = dest \/ v = latest \/ \E w \in Writers : v = trash[w]

(* Versions are numbered by the calls that write them.                     *)
Numbered ==
  /\ \A w \in Writers : IF Busy(w) THEN version[w] \in 1..writes ELSE version[w] = 0
  /\ dest \in 0..writes /\ latest \in 0..writes /\ raised \subseteq 1..writes
  /\ \A w \in Writers : trash[w] \in 0..writes

(* Two calls write two versions.                                           *)
Distinct ==
  \A w, x \in Writers : w # x /\ Busy(w) /\ Busy(x) => version[w] # version[x]

(* What a call has not promoted is nowhere to be seen, and it has not      *)
(* raised yet.                                                             *)
Unseen ==
  \A w \in Writers : Unpromoted(w) =>
    /\ version[w] \notin raised /\ version[w] # dest /\ version[w] # latest
    /\ \A x \in Writers : version[w] # trash[x]

(* A call has something in the trash only from its first rename on, and    *)
(* what it is about to delete is not the version promoted last.            *)
TrashHeld ==
  \A w \in Writers :
    /\ trash[w] # 0 => pc[w] \in {"promoting", "cleaning", "failing", "restoring"}
    /\ pc[w] = "cleaning" => latest # 0 /\ trash[w] # latest

IInv == TypeOK /\ Numbered /\ Distinct /\ Unseen /\ TrashHeld /\ RaisedNeverVisible /\ LatestKept

LEMMA InitIInv == Init => IInv
  BY ArtifactAssumption DEF Init, IInv, TypeOK, Numbered, Distinct, Unseen, TrashHeld,
     RaisedNeverVisible, LatestKept, Places, Busy, Unpromoted

LEMMA TypeStep == IInv /\ [Next]_vars => TypeOK'
<1> SUFFICES ASSUME IInv, [Next]_vars PROVE TypeOK'
  OBVIOUS
<1> USE ArtifactAssumption DEF IInv, TypeOK, Places, Move, Stage, Leave
<1>1. ASSUME NEW w \in Writers, Begin(w) PROVE TypeOK'
  BY <1>1 DEF Begin, BeginAt
<1>2. ASSUME NEW w \in Writers, WriteFiles(w) PROVE TypeOK'
  BY <1>2 DEF WriteFiles
<1>3. ASSUME NEW w \in Writers, FindDest(w) PROVE TypeOK'
  BY <1>3 DEF FindDest
<1>4. ASSUME NEW w \in Writers, MoveAside(w) PROVE TypeOK'
  BY <1>4 DEF MoveAside
<1>5. ASSUME NEW w \in Writers, Promote(w) PROVE TypeOK'
  BY <1>5 DEF Promote
<1>6. ASSUME NEW w \in Writers, DropTrash(w) PROVE TypeOK'
  BY <1>6 DEF DropTrash
<1>7. ASSUME NEW w \in Writers, Raise(w) PROVE TypeOK'
  BY <1>7 DEF Raise
<1>8. ASSUME NEW w \in Writers, HandleFailure(w) PROVE TypeOK'
  <2>1. trash[w] \in Nat /\ version[w] \in Nat
    OBVIOUS
  <2>2. CASE MustRestore(w)
    BY <1>8, <2>2 DEF HandleFailure
  <2>3. CASE ~MustRestore(w)
    <3>1. litter' \subseteq Nat /\ raised' \subseteq Nat
      BY <1>8, <2>1, <2>3 DEF HandleFailure, GiveUp
    <3>2. QED
      BY <1>8, <2>3, <3>1 DEF HandleFailure, GiveUp
  <2>4. QED
    BY <2>2, <2>3
<1>9. ASSUME NEW w \in Writers, Restore(w) PROVE TypeOK'
  <2>1. trash[w] \in Nat /\ version[w] \in Nat
    OBVIOUS
  <2>2. CASE GiveUp(w) /\ UNCHANGED dest
    <3>1. litter' \subseteq Nat /\ raised' \subseteq Nat
      BY <2>1, <2>2 DEF GiveUp
    <3>2. QED
      BY <1>9, <2>2, <3>1 DEF Restore, GiveUp
  <2>3. CASE dest' = trash[w] /\ Leave(w) /\ raised' = raised \cup {version[w]} /\ UNCHANGED litter
    BY <1>9, <2>1, <2>3 DEF Restore
  <2>4. QED
    BY <1>9, <2>2, <2>3 DEF Restore
<1>10. CASE Crash
  BY <1>10 DEF Crash
<1>11. CASE Quiet \/ UNCHANGED vars
  BY <1>11 DEF Quiet, vars
<1>12. QED
  BY <1>1, <1>2, <1>3, <1>4, <1>5, <1>6, <1>7, <1>8, <1>9, <1>10, <1>11 DEF Next

-----------------------------------------------------------------------------
(* The rest of the invariant is about versions as they are seen; what an    *)
(* action does to them is stated writer by writer.                         *)

Seen == Numbered /\ Distinct /\ Unseen /\ TrashHeld /\ RaisedNeverVisible /\ LatestKept

LEMMA SeenStep == IInv /\ [Next]_vars => Seen'
<1> SUFFICES ASSUME IInv, [Next]_vars PROVE Seen'
  OBVIOUS
<1> USE DEF IInv, TypeOK, Places, Seen, Numbered, Distinct, Unseen, TrashHeld,
            RaisedNeverVisible, LatestKept, Busy, Unpromoted
<1>1. ASSUME NEW w \in Writers, Begin(w) PROVE Seen'
  <2>1. \A x \in Writers :
          /\ pc'[x] = (IF x = w THEN "staging" ELSE pc[x])
          /\ version'[x] = (IF x = w THEN writes + 1 ELSE version[x])
    BY <1>1 DEF Begin, BeginAt, Move
  <2>2. trash' = trash /\ dest' = dest /\ latest' = latest /\ raised' = raised
        /\ litter' = litter /\ writes' = writes + 1 /\ pc[w] = "idle"
    BY <1>1 DEF Begin, BeginAt
  <2>3. QED
    BY <2>1, <2>2
<1>2. ASSUME NEW w \in Writers, NEW place,
             \/ WriteFiles(w) /\ place = "staged"
             \/ FindDest(w) /\ place \in {"moving", "promoting"}
             \/ Raise(w) /\ place = "failing"
             \/ HandleFailure(w) /\ MustRestore(w) /\ place = "restoring",
             pc' = [pc EXCEPT ![w] = place]
      PROVE  Seen'
  <2>1. \A x \in Writers : pc'[x] = (IF x = w THEN place ELSE pc[x])
    BY <1>2
  <2>2. UNCHANGED <<trash, dest, latest, raised, litter, writes, version>>
    BY <1>2 DEF WriteFiles, FindDest, Raise, HandleFailure
  <2>3. Unpromoted(w) /\ place \in {"staged", "moving", "promoting", "failing", "restoring"}
        /\ (trash[w] # 0 => place \in {"promoting", "failing", "restoring"})
    BY <1>2 DEF WriteFiles, FindDest, Raise, MayRaise, Disturbed, HandleFailure
  <2>4. QED
    BY <2>1, <2>2, <2>3
<1>3. ASSUME NEW w \in Writers, MoveAside(w) PROVE Seen'
  <2>1. \A x \in Writers :
          /\ pc'[x] = (IF x = w THEN "promoting" ELSE pc[x])
          /\ trash'[x] = (IF x = w THEN dest ELSE trash[x])
    BY <1>3 DEF MoveAside, Move
  <2>2. UNCHANGED <<latest, raised, litter, writes, version>> /\ dest' = 0 /\ dest # 0
    BY <1>3 DEF MoveAside
  <2>3. pc[w] = "moving" /\ trash[w] = 0
    BY <1>3 DEF MoveAside
  <2>4. QED
    BY <2>1, <2>2, <2>3
<1>4. ASSUME NEW w \in Writers, Promote(w) PROVE Seen'
  <2>1. \A x \in Writers : pc'[x] = (IF x = w THEN "cleaning" ELSE pc[x])
    BY <1>4 DEF Promote, Move
  <2>2. UNCHANGED <<trash, raised, litter, writes, version>>
        /\ dest' = version[w] /\ latest' = version[w] /\ pc[w] = "promoting"
    BY <1>4 DEF Promote
  <2>3. QED
    BY <2>1, <2>2
<1>5. ASSUME NEW w \in Writers, Leave(w),
             UNCHANGED <<latest, writes>>,
             \/ UNCHANGED <<dest, raised, litter>> /\ pc[w] = "cleaning"
             \/ /\ raised' = raised \cup {version[w]} /\ pc[w] \in {"failing", "restoring"}
                /\ \/ UNCHANGED dest /\ litter' = litter \cup ({trash[w]} \ {0})
                   \/ dest' = trash[w] /\ dest = 0 /\ UNCHANGED litter
      PROVE  Seen'
  <2>1. \A x \in Writers :
          /\ pc'[x] = (IF x = w THEN "idle" ELSE pc[x])
          /\ version'[x] = (IF x = w THEN 0 ELSE version[x])
          /\ trash'[x] = (IF x = w THEN 0 ELSE trash[x])
    BY <1>5 DEF Leave
  <2>2. version[w] \in 1..writes /\ trash[w] \in 0..writes
    BY <1>5
  <2>3. Numbered'
    <3>1. raised' \subseteq 1..writes
      BY <1>5, <2>2
    <3>2. dest' \in 0..writes
      BY <1>5, <2>2
    <3>3. QED
      BY <1>5, <2>1, <3>1, <3>2
  <2>4. Distinct' /\ TrashHeld'
    BY <1>5, <2>1
  <2>5. Unseen' /\ RaisedNeverVisible'
    BY <1>5, <2>1
  <2>6. LatestKept'
    BY <1>5, <2>1
  <2>7. QED
    BY <2>3, <2>4, <2>5, <2>6
<1>6. CASE Crash
  <2>1. \A x \in Writers : pc'[x] = "idle" /\ version'[x] = 0 /\ trash'[x] = 0
    BY <1>6 DEF Crash
  <2>2. /\ UNCHANGED <<dest, writes, latest, raised>> /\ litter \subseteq litter'
        /\ \A x \in Writers : trash[x] # 0 => trash[x] \in litter'
    BY <1>6 DEF Crash
  <2>3. Numbered' /\ Distinct' /\ Unseen' /\ TrashHeld'
    BY <2>1, <2>2
  <2>4. RaisedNeverVisible' /\ LatestKept'
    BY <2>1, <2>2
  <2>5. QED
    BY <2>3, <2>4
<1>7. CASE Quiet \/ UNCHANGED vars
  <2>1. UNCHANGED <<dest, pc, version, trash, writes, litter, latest, raised>>
    BY <1>7 DEF Quiet, vars
  <2>2. QED
    BY <2>1
<1>8. ASSUME NEW w \in Writers, DropTrash(w) \/ HandleFailure(w) \/ Restore(w) PROVE Seen'
  <2>1. CASE DropTrash(w)
    BY <1>5, <2>1 DEF DropTrash
  <2>2. CASE HandleFailure(w) /\ MustRestore(w)
    BY <1>2, <2>2 DEF HandleFailure, Move
  <2>3. CASE HandleFailure(w) /\ ~MustRestore(w)
    BY <1>5, <2>3 DEF HandleFailure, GiveUp
  <2>4. CASE Restore(w) /\ GiveUp(w) /\ UNCHANGED dest
    BY <1>5, <2>4 DEF Restore, GiveUp
  <2>5. CASE Restore(w) /\ dest = 0 /\ dest' = trash[w] /\ Leave(w)
             /\ raised' = raised \cup {version[w]} /\ UNCHANGED litter
    BY <1>5, <2>5 DEF Restore
  <2>6. QED
    BY <1>8, <2>1, <2>2, <2>3, <2>4, <2>5 DEF Restore
<1>9. ASSUME NEW w \in Writers, WriteFiles(w) \/ FindDest(w) \/ Raise(w) PROVE Seen'
  <2>1. CASE WriteFiles(w)
    BY <1>2, <2>1 DEF WriteFiles, Move
  <2>2. CASE FindDest(w)
    <3>1. \E place \in {"moving", "promoting"} : pc' = [pc EXCEPT ![w] = place]
      BY <2>2 DEF FindDest, Move
    <3>2. QED
      BY <1>2, <2>2, <3>1
  <2>3. CASE Raise(w)
    BY <1>2, <2>3 DEF Raise, Move
  <2>4. QED
    BY <1>9, <2>1, <2>2, <2>3
<1>10. QED
  BY <1>1, <1>3, <1>4, <1>6, <1>7, <1>8, <1>9 DEF Next

-----------------------------------------------------------------------------
(* The theorems.                                                           *)

LEMMA Invariance == Spec => []IInv
<1>1. IInv /\ [Next]_vars => IInv'
  BY TypeStep, SeenStep DEF IInv, Seen
<1>2. QED
  BY InitIInv, <1>1, PTL DEF Spec

(* Every variable keeps its type, and what is promoted is fully staged.    *)
THEOREM TypeCorrect == Spec => []TypeOK
<1>1. IInv => TypeOK
  BY DEF IInv
<1>2. QED
  BY Invariance, <1>1, PTL

(* However many writers of an entity overlap, a version whose write_entity *)
(* raised never shows.                                                     *)
THEOREM RaisedCorrect == Spec => []RaisedNeverVisible
<1>1. IInv => RaisedNeverVisible
  BY DEF IInv
<1>2. QED
  BY Invariance, <1>1, PTL

(* However they overlap, fail and crash, the version promoted last is in   *)
(* the directory or in the trash.                                          *)
THEOREM LatestCorrect == Spec => []LatestKept
<1>1. IInv => LatestKept
  BY DEF IInv
<1>2. QED
  BY Invariance, <1>1, PTL

-----------------------------------------------------------------------------
(* Refinement, for calls that do not overlap and are not cut short.        *)

(* What the directory and the trash hold between a lone writer's steps.    *)
Alone(w) ==
  /\ pc[w] = "promoting" => dest = 0
  /\ pc[w] = "moving" => dest # 0
  /\ pc[w] = "cleaning" => dest # 0
  /\ pc[w] \in {"failing", "restoring"} /\ trash[w] # 0 => dest = 0
  /\ pc[w] = "restoring" => trash[w] # 0

VisibleTo(w) == IF dest = 0 THEN trash[w] ELSE dest
UnderwayAt(w) == IF Unpromoted(w) THEN {version[w]} ELSE {}

(* With one writer the abstract state is a matter of that writer alone.    *)
LEMMA LoneMapping ==
  ASSUME NEW w, Writers = {w}, IInv
  PROVE  Visible = VisibleTo(w) /\ Underway = UnderwayAt(w)
<1>1. pc[w] \in Places /\ trash[w] \in Nat
  BY DEF IInv, TypeOK
<1>2. Visible = VisibleTo(w)
  <2>1. CASE trash[w] # 0
    <3>1. (CHOOSE x \in Writers : trash[x] # 0) = w
      BY <2>1
    <3>2. QED
      BY <2>1, <3>1 DEF Visible, VisibleTo
  <2>2. CASE trash[w] = 0
    BY <2>2 DEF Visible, VisibleTo
  <2>3. QED
    BY <2>1, <2>2
<1>3. Underway = UnderwayAt(w)
  BY <1>1 DEF Underway, UnderwayAt, Unpromoted, Places
<1>4. QED
  BY <1>2, <1>3

(* The same of the next state.                                             *)
LEMMA LoneMappingNext ==
  ASSUME NEW w, Writers = {w}, IInv'
  PROVE  Visible' = VisibleTo(w)' /\ Underway' = UnderwayAt(w)'
<1>1. pc'[w] \in Places /\ trash'[w] \in Nat
  BY DEF IInv, TypeOK
<1>2. Visible' = VisibleTo(w)'
  <2>1. CASE trash'[w] # 0
    <3>1. (CHOOSE x \in Writers : trash'[x] # 0) = w
      BY <2>1
    <3>2. QED
      BY <2>1, <3>1 DEF Visible, VisibleTo
  <2>2. CASE trash'[w] = 0
    BY <2>2 DEF Visible, VisibleTo
  <2>3. QED
    BY <2>1, <2>2
<1>3. Underway' = UnderwayAt(w)'
  BY <1>1 DEF Underway, UnderwayAt, Unpromoted, Places
<1>4. QED
  BY <1>2, <1>3

(* A step of a lone writer begins a write, commits or fails one, or shows  *)
(* nothing.                                                                *)
LEMMA LoneStep ==
  ASSUME NEW w, Writers = {w}, Faults \subseteq {"stage", "rename"},
         IInv, IInv', Alone(w), [Next]_vars
  PROVE  /\ Alone(w)'
         /\ \/ /\ VisibleTo(w)' = VisibleTo(w) /\ writes' = writes + 1
               /\ UnderwayAt(w)' = UnderwayAt(w) \cup {writes + 1}
            \/ /\ writes' = writes /\ UnderwayAt(w)' = UnderwayAt(w) \ {version[w]}
               /\ version[w] \in UnderwayAt(w)
               /\ VisibleTo(w)' = version[w] \/ VisibleTo(w)' = VisibleTo(w)
            \/ UNCHANGED <<VisibleTo(w), UnderwayAt(w), writes>>
<1> USE DEF Alone, VisibleTo, UnderwayAt, Unpromoted, Move
<1>1. /\ pc[w] \in Places /\ pc'[w] \in Places /\ DOMAIN pc = {w}
      /\ version[w] \in Nat /\ DOMAIN version = {w}
      /\ trash[w] \in Nat /\ DOMAIN trash = {w}
      /\ (pc[w] # "idle" => version[w] # 0)
      /\ (trash[w] # 0 => pc[w] \in {"promoting", "cleaning", "failing", "restoring"})
  BY DEF IInv, TypeOK, Numbered, Busy, TrashHeld
<1>2. CASE Begin(w)
  BY <1>1, <1>2 DEF Begin, BeginAt
<1>3. CASE WriteFiles(w)
  BY <1>1, <1>3 DEF WriteFiles
<1>4. CASE FindDest(w)
  BY <1>1, <1>4 DEF FindDest
<1>5. CASE MoveAside(w)
  BY <1>1, <1>5 DEF MoveAside
<1>6. CASE Promote(w)
  BY <1>1, <1>6 DEF Promote
<1>7. CASE DropTrash(w)
  BY <1>1, <1>7 DEF DropTrash, Leave
<1>8. CASE Raise(w)
  BY <1>1, <1>8 DEF Raise, MayRaise, Disturbed
<1>9. CASE HandleFailure(w)
  BY <1>1, <1>9 DEF HandleFailure, MustRestore, GiveUp, Leave
<1>10. CASE Restore(w)
  BY <1>1, <1>10 DEF Restore, GiveUp, Leave
<1>11. CASE Quiet \/ UNCHANGED vars
  BY <1>11 DEF Quiet, vars
<1>12. ~Crash
  BY DEF Crash
<1>13. QED
  BY <1>2, <1>3, <1>4, <1>5, <1>6, <1>7, <1>8, <1>9, <1>10, <1>11, <1>12 DEF Next

(* Calls of write_entity that do not overlap, with staging and renames     *)
(* failing anywhere but in the restoring rename, and no crash: the entity  *)
(* has the previous version or the new one, never anything else.           *)
THEOREM LoneWriterImplements ==
  ASSUME NEW w, Writers = {w}, Faults \subseteq {"stage", "rename"}
  PROVE  Spec => ImplementsAtomicEntity
<1>1. Init => Alone(w) /\ Abstract!Init
  BY DEF Init, Alone, Abstract!Init, Visible, Underway
<1>2. IInv => Visible = VisibleTo(w) /\ Underway = UnderwayAt(w)
  BY LoneMapping
<1>3. IInv' => Visible' = VisibleTo(w)' /\ Underway' = UnderwayAt(w)'
  BY LoneMappingNext
<1>4. IInv /\ IInv' /\ Alone(w) /\ [Next]_vars => Alone(w)' /\ [Abstract!Next]_(Abstract!vars)
  <2> SUFFICES ASSUME IInv, IInv', Alone(w), [Next]_vars
               PROVE  Alone(w)' /\ [Abstract!Next]_(Abstract!vars)
    OBVIOUS
  <2>1. QED
    BY <1>2, <1>3, LoneStep
       DEF Abstract!Next, Abstract!Begin, Abstract!Commit, Abstract!Fail, Abstract!vars
<1>5. QED
  BY <1>1, <1>4, Invariance, PTL DEF Spec, ImplementsAtomicEntity, Abstract!Spec
=============================================================================
