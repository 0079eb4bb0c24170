-------------------------- MODULE MapReduceProofs --------------------------
(***************************************************************************)
(* Proofs about MapReduce, for any documents, answers and faults: the      *)
(* tally is the run's own, no result lacks a window, and no window's text  *)
(* is paid for more often than it occurs.                                  *)
(***************************************************************************)
EXTENDS MapReduce, FiniteSetTheorems, SequenceTheorems, WellFoundedInduction, TLAPS

Phases == {"idle", "mapping", "reducing", "done", "failed"}
Calls(d) == Slots(d) \cup Sections

TypeInv ==
  /\ phase \in [Docs -> Phases] /\ aborted \in [Docs -> BOOLEAN]
  /\ tally \in [Docs -> Nat] /\ calls \in [Docs -> Nat]
  /\ DOMAIN place = Docs /\ \A d \in Docs : DOMAIN place[d] = Calls(d)

Billed == \A d \in Docs : tally[d] = calls[d]

(* A window is only skipped behind one that failed, and a run goes on to   *)
(* reduce only with an answer for each.                                    *)
Excused(d) ==
  /\ phase[d] = "mapping" /\ aborted[d] => Raised(d)
  /\ phase[d] = "mapping" =>
       \A i \in Slots(d) : At(d, i, "skipped") => aborted[d]
  /\ phase[d] \in {"reducing", "done"} => \A i \in Slots(d) : At(d, i, "answered")

Inv == TypeInv /\ Billed /\ \A d \in Docs : Excused(d)

-----------------------------------------------------------------------------
(* Before the first run.                                                   *)
LEMMA InitInv == Init => Inv
  BY DEF Init, Inv, TypeInv, Phases, Calls, Billed, Excused, NoCalls

(* An answered call is counted by the run and by the provider, once.       *)
LEMMA BillBilled ==
  ASSUME TypeInv, Billed, NEW d \in Docs, Bill(d)
  PROVE  Billed' /\ tally' \in [Docs -> Nat] /\ calls' \in [Docs -> Nat]
  BY DEF TypeInv, Billed, Bill

(* What a run leaves behind that ends with an error.                       *)
LEMMA ForgetExcused ==
  ASSUME TypeInv, \A d \in Docs : Excused(d), NEW docs \in SUBSET Docs, Forget(docs)
  PROVE  /\ phase' \in [Docs -> Phases] /\ aborted' \in [Docs -> BOOLEAN]
         /\ DOMAIN place' = Docs /\ \A d \in Docs : DOMAIN place'[d] = Calls(d)
         /\ \A d \in Docs : Excused(d)'
<1>1. phase' \in [Docs -> Phases] /\ aborted' \in [Docs -> BOOLEAN] /\ DOMAIN place' = Docs
  BY DEF Forget, TypeInv, Phases
<1>2. \A d \in Docs : DOMAIN place'[d] = Calls(d)
  BY DEF Forget, TypeInv, NoCalls, Calls
<1>3. ASSUME NEW d \in Docs PROVE Excused(d)'
  <2>1. CASE d \in docs
    BY <2>1 DEF Forget, Excused
  <2>2. CASE d \notin docs
    <3>1. phase'[d] = phase[d] /\ aborted'[d] = aborted[d] /\ place'[d] = place[d]
      BY <2>2 DEF Forget, TypeInv
    <3>2. QED
      BY <3>1 DEF Excused, Raised, At
  <2>3. QED
    BY <2>1, <2>2
<1>4. QED
  BY <1>1, <1>2, <1>3

(* A call goes from a place that is not final to another one, or fails     *)
(* with the flag raised.                                                   *)
LEMMA GotoExcused ==
  ASSUME TypeInv, \A d \in Docs : Excused(d), NEW d \in Docs, NEW s \in Calls(d), NEW where,
         Goto(d, s, where), UNCHANGED phase,
         place[d][s] \in {"none", "queued", "calling"},
         \/ /\ UNCHANGED aborted
            /\ s \in Slots(d) /\ phase[d] = "mapping" /\ where = "skipped" => aborted[d]
         \/ /\ aborted' = [aborted EXCEPT ![d] = TRUE]
            /\ s \in Slots(d) /\ where = "failed"
  PROVE  /\ aborted' \in [Docs -> BOOLEAN]
         /\ DOMAIN place' = Docs /\ \A e \in Docs : DOMAIN place'[e] = Calls(e)
         /\ \A e \in Docs : Excused(e)'
<1>1. aborted' \in [Docs -> BOOLEAN] /\ DOMAIN place' = Docs
  BY DEF Goto, TypeInv
<1>2. /\ \A e \in Docs : e # d => place'[e] = place[e] /\ aborted'[e] = aborted[e]
      /\ place'[d] = [place[d] EXCEPT ![s] = where]
  BY DEF Goto, TypeInv
<1>3. DOMAIN place[d] = Calls(d)
  BY DEF TypeInv
<1>4. \A e \in Docs : DOMAIN place'[e] = Calls(e)
  BY <1>2, <1>3 DEF TypeInv
<1>5. place'[d][s] = where /\ \A i \in Calls(d) : i # s => place'[d][i] = place[d][i]
  BY <1>2, <1>3
<1>6. Excused(d)'
  <2>1. Excused(d) /\ Slots(d) \subseteq Calls(d)
    BY DEF Calls
  <2>2. phase[d] = "mapping" /\ aborted'[d] => Raised(d)'
    <3>1. CASE UNCHANGED aborted
      BY <1>5, <2>1, <3>1 DEF Excused, Raised, At
    <3>2. CASE s \in Slots(d) /\ where = "failed"
      BY <1>5, <3>2 DEF Raised, At
    <3>3. QED
      BY <3>1, <3>2
  <2>3. phase[d] = "mapping" =>
          \A i \in Slots(d) : place'[d][i] = "skipped" => aborted'[d]
    <3>1. CASE UNCHANGED aborted
      BY <1>5, <2>1, <3>1 DEF Excused, At
    <3>2. CASE aborted' = [aborted EXCEPT ![d] = TRUE]
      BY <3>2 DEF TypeInv
    <3>3. QED
      BY <3>1, <3>2
  <2>4. phase[d] \in {"reducing", "done"} => \A i \in Slots(d) : place'[d][i] = "answered"
    BY <1>5, <2>1 DEF Excused, At
  <2>5. QED
    BY <2>2, <2>3, <2>4 DEF Excused, At
<1>7. ASSUME NEW e \in Docs, e # d PROVE Excused(e)'
  <2>1. place'[e] = place[e] /\ aborted'[e] = aborted[e] /\ phase'[e] = phase[e]
    BY <1>2, <1>7
  <2>2. QED
    BY <2>1 DEF Excused, Raised, At
<1>8. QED
  BY <1>1, <1>4, <1>6, <1>7

-----------------------------------------------------------------------------
(* A run starts with nothing skipped and nothing counted.                  *)
LEMMA RunInv == ASSUME Inv, NEW d \in Docs, Run(d) PROVE Inv'
<1> USE DEF Inv
<1>1. TypeInv'
  BY DEF Run, TypeInv, Phases, TallyFresh
<1>2. Billed'
  BY DEF Run, TypeInv, Billed, TallyFresh
<1>3. ASSUME NEW e \in Docs PROVE Excused(e)'
  <2>1. CASE e = d
    <3>1. DOMAIN place[d] = Calls(d) /\ Slots(d) \subseteq Calls(d)
      BY DEF TypeInv, Calls
    <3>2. /\ phase'[d] = "mapping" /\ aborted'[d] = FALSE
          /\ \A i \in Slots(d) : place'[d][i] = "queued"
      BY <3>1 DEF Run, TypeInv
    <3>3. QED
      BY <2>1, <3>2 DEF Excused, At
  <2>2. CASE e # d
    <3>1. phase'[e] = phase[e] /\ aborted'[e] = aborted[e] /\ place'[e] = place[e]
      BY <2>2 DEF Run, TypeInv
    <3>2. QED
      BY <3>1 DEF Excused, Raised, At
  <2>3. QED
    BY <2>1, <2>2
<1>4. QED
  BY <1>1, <1>2, <1>3

(* A window that is taken up is skipped, found or asked for.               *)
LEMMA TakeUpInv ==
  ASSUME Inv, NEW d \in Docs, NEW i \in Slots(d),
         SkipWindow(d, i) \/ UseCached(d, i) \/ CallWindow(d, i)
  PROVE  Inv'
<1>1. i \in Calls(d) /\ place[d][i] = "queued" /\ phase[d] = "mapping"
  BY DEF Calls, SkipWindow, UseCached, CallWindow, Admitted, At
<1>2. PICK where \in {"skipped", "answered", "calling"} :
        Goto(d, i, where) /\ (where = "skipped" => aborted[d])
  BY DEF SkipWindow, UseCached, CallWindow, StartCall
<1>3. UNCHANGED <<phase, aborted, tally, calls>>
  BY DEF SkipWindow, UseCached, CallWindow
<1>4. QED
  BY <1>1, <1>2, <1>3, GotoExcused DEF Inv, TypeInv, Billed

(* An answer is billed, to a window or to a section.                       *)
LEMMA AnswerInv ==
  ASSUME Inv, NEW d \in Docs, NEW s \in Calls(d), At(d, s, "calling"), Bill(d),
         EndCall(d, s, "answered"), UNCHANGED <<phase, aborted>>
  PROVE  Inv'
<1>1. Billed' /\ tally' \in [Docs -> Nat] /\ calls' \in [Docs -> Nat]
  BY BillBilled DEF Inv
<1>2. Goto(d, s, "answered") /\ place[d][s] = "calling"
  BY DEF EndCall, At
<1>3. /\ aborted' \in [Docs -> BOOLEAN]
      /\ DOMAIN place' = Docs /\ \A e \in Docs : DOMAIN place'[e] = Calls(e)
      /\ \A e \in Docs : Excused(e)'
  BY <1>2, GotoExcused DEF Inv
<1>4. QED
  BY <1>1, <1>3 DEF Inv, TypeInv

(* A call that fails raises the flag, or ends the run.                     *)
LEMMA FailingInv ==
  ASSUME Inv, NEW d \in Docs, NEW s \in Calls(d), At(d, s, "calling"), Failing(d, s),
         Billed', tally' \in [Docs -> Nat], calls' \in [Docs -> Nat]
  PROVE  Inv'
<1>1. CASE s \in Sections
  <2>1. Forget({d}) /\ {d} \in SUBSET Docs
    BY <1>1 DEF Failing
  <2>2. QED
    BY <2>1, ForgetExcused DEF Inv, TypeInv
<1>2. CASE s \notin Sections
  <2>1. /\ Goto(d, s, "failed") /\ UNCHANGED phase /\ place[d][s] = "calling"
        /\ aborted' = [aborted EXCEPT ![d] = TRUE] /\ s \in Slots(d)
    BY <1>2 DEF Failing, EndCall, At, Calls
  <2>2. /\ aborted' \in [Docs -> BOOLEAN]
        /\ DOMAIN place' = Docs /\ \A e \in Docs : DOMAIN place'[e] = Calls(e)
        /\ \A e \in Docs : Excused(e)'
    BY <2>1, GotoExcused DEF Inv
  <2>3. QED
    BY <2>1, <2>2 DEF Inv, TypeInv
<1>3. QED
  BY <1>1, <1>2

(* The ways a call fails: an error, an answer that is no object, and one   *)
(* that cannot be stored.                                                  *)
LEMMA CallEndsInv ==
  ASSUME Inv, NEW d \in Docs, NEW s \in Calls(d),
         CallFails(d, s) \/ Garbled(d, s) \/ PutFails(d, s)
  PROVE  Inv'
<1>1. CASE CallFails(d, s)
  <2>1. At(d, s, "calling") /\ Failing(d, s) /\ UNCHANGED <<tally, calls>>
    BY <1>1 DEF CallFails
  <2>2. Billed' /\ tally' \in [Docs -> Nat] /\ calls' \in [Docs -> Nat]
    BY <2>1 DEF Inv, TypeInv, Billed
  <2>3. QED
    BY <2>1, <2>2, FailingInv
<1>2. CASE Garbled(d, s) \/ PutFails(d, s)
  <2>1. At(d, s, "calling") /\ Failing(d, s) /\ Bill(d)
    BY <1>2 DEF Garbled, PutFails, Pay
  <2>2. Billed' /\ tally' \in [Docs -> Nat] /\ calls' \in [Docs -> Nat]
    BY <2>1, BillBilled DEF Inv
  <2>3. QED
    BY <2>1, <2>2, FailingInv
<1>3. QED
  BY <1>1, <1>2

(* Behind the gather: with none failed none was skipped, so that the run   *)
(* goes on with all the answers.                                           *)
LEMMA MapEndsInv == ASSUME Inv, NEW d \in Docs, MapEnds(d) PROVE Inv'
<1>1. UNCHANGED <<tally, calls>>
  BY DEF MapEnds
<1>2. CASE Raised(d)
  <2>1. Forget({d}) /\ {d} \in SUBSET Docs
    BY <1>2 DEF MapEnds
  <2>2. QED
    BY <1>1, <2>1, ForgetExcused DEF Inv, TypeInv, Billed
<1>3. CASE ~Raised(d)
  <2>1. /\ phase[d] = "mapping" /\ phase' = [phase EXCEPT ![d] = "reducing"]
        /\ UNCHANGED <<place, aborted>>
        /\ \A i \in Slots(d) : place[d][i] \in {"answered", "failed", "skipped"}
    BY <1>3 DEF MapEnds, Settled
  <2>2. \A i \in Slots(d) : place[d][i] = "answered"
    BY <1>3, <2>1 DEF Inv, Excused, Raised, At
  <2>3. TypeInv' /\ Billed'
    BY <1>1, <2>1 DEF Inv, TypeInv, Phases, Billed
  <2>4. ASSUME NEW e \in Docs PROVE Excused(e)'
    <3>1. CASE e = d
      <4>1. phase'[d] = "reducing"
        BY <2>1 DEF Inv, TypeInv
      <4>2. QED
        BY <2>1, <2>2, <3>1, <4>1 DEF Excused, At
    <3>2. CASE e # d
      <4>1. phase'[e] = phase[e]
        BY <2>1, <3>2 DEF Inv, TypeInv
      <4>2. QED
        BY <2>1, <4>1 DEF Inv, Excused, Raised, At
    <3>3. QED
      BY <3>1, <3>2
  <2>5. QED
    BY <2>3, <2>4 DEF Inv
<1>4. QED
  BY <1>2, <1>3

(* A section's fragment is used, or its reduce call made.                  *)
LEMMA ReduceInv ==
  ASSUME Inv, NEW d \in Docs, NEW n \in Sections, UseFragment(d, n) \/ CallReduce(d, n)
  PROVE  Inv'
<1>1. n \in Calls(d) /\ place[d][n] = "none" /\ phase[d] = "reducing"
  BY DEF Calls, UseFragment, CallReduce, ReduceAlone, At
<1>2. PICK where \in {"answered", "calling"} : Goto(d, n, where)
  BY DEF UseFragment, CallReduce, StartCall
<1>3. UNCHANGED <<phase, aborted, tally, calls>>
  BY DEF UseFragment, CallReduce
<1>4. QED
  BY <1>1, <1>2, <1>3, GotoExcused DEF Inv, TypeInv, Billed

(* The result is accepted or refused.                                      *)
LEMMA FinishInv == ASSUME Inv, NEW d \in Docs, Finish(d) PROVE Inv'
<1>1. UNCHANGED <<tally, calls>>
  BY DEF Finish
<1>2. CASE ~Valid(d)
  <2>1. Forget({d}) /\ {d} \in SUBSET Docs
    BY <1>2 DEF Finish
  <2>2. QED
    BY <1>1, <2>1, ForgetExcused DEF Inv, TypeInv, Billed
<1>3. CASE Valid(d)
  <2>1. /\ phase[d] = "reducing" /\ phase' = [phase EXCEPT ![d] = "done"]
        /\ UNCHANGED <<place, aborted>>
    BY <1>3 DEF Finish
  <2>2. TypeInv' /\ Billed'
    BY <1>1, <2>1 DEF Inv, TypeInv, Phases, Billed
  <2>3. ASSUME NEW e \in Docs PROVE Excused(e)'
    <3>1. CASE e = d
      <4>1. phase'[d] = "done"
        BY <2>1 DEF Inv, TypeInv
      <4>2. QED
        BY <2>1, <3>1, <4>1 DEF Inv, Excused, At
    <3>2. CASE e # d
      <4>1. phase'[e] = phase[e]
        BY <2>1, <3>2 DEF Inv, TypeInv
      <4>2. QED
        BY <2>1, <4>1 DEF Inv, Excused, Raised, At
    <3>3. QED
      BY <3>1, <3>2
  <2>4. QED
    BY <2>2, <2>3 DEF Inv
<1>4. QED
  BY <1>2, <1>3

(* Steps that leave the parts of the invariant alone, and the crash.       *)
LEMMA ElsewhereInv ==
  ASSUME Inv, UNCHANGED <<phase, aborted, place, tally, calls>>
  PROVE  Inv'
  BY DEF Inv, TypeInv, Billed, Excused, Raised, At

(* The process dies in the middle of any runs.                             *)
LEMMA CrashInv == Inv /\ Crash => Inv'
<1> SUFFICES ASSUME Inv, Crash PROVE Inv'
  OBVIOUS
<1>1. PICK docs \in SUBSET Docs : Forget(docs) /\ UNCHANGED <<tally, calls>>
  BY DEF Crash
<1>2. QED
  BY <1>1, ForgetExcused DEF Inv, TypeInv, Billed

(* It dies with an answer billed and not stored.                           *)
LEMMA DiesInv ==
  ASSUME Inv, NEW d \in Docs, NEW i \in Slots(d), DiesUnstored(d, i)
  PROVE  Inv'
<1>1. PICK docs \in SUBSET Docs : Forget(docs)
  BY DEF DiesUnstored
<1>2. Billed' /\ tally' \in [Docs -> Nat] /\ calls' \in [Docs -> Nat]
  <2>1. Bill(d)
    BY DEF DiesUnstored, Pay
  <2>2. QED
    BY <2>1, BillBilled DEF Inv
<1>3. QED
  BY <1>1, <1>2, ForgetExcused DEF Inv, TypeInv

-----------------------------------------------------------------------------
(* Every step of a document's tasks keeps the invariant.                   *)
LEMMA WorkInv == ASSUME Inv, NEW d \in Docs, Work(d) PROVE Inv'
<1>1. ASSUME NEW i \in Slots(d), SkipWindow(d, i) \/ UseCached(d, i) \/ CallWindow(d, i)
      PROVE  Inv'
  BY <1>1, TakeUpInv
<1>2. ASSUME NEW i \in Slots(d), NEW answer \in Answers, AnswerWindow(d, i, answer)
      PROVE  Inv'
  <2>1. /\ i \in Calls(d) /\ At(d, i, "calling") /\ Bill(d) /\ EndCall(d, i, "answered")
        /\ UNCHANGED <<phase, aborted>>
    BY <1>2 DEF AnswerWindow, Pay, Calls
  <2>2. QED
    BY <2>1, AnswerInv
<1>3. ASSUME NEW s \in Slots(d) \cup Sections, CallFails(d, s) \/ Garbled(d, s) \/ PutFails(d, s)
      PROVE  Inv'
  BY <1>3, CallEndsInv DEF Calls
<1>4. ASSUME NEW n \in Sections, UseFragment(d, n) \/ CallReduce(d, n)
      PROVE  Inv'
  BY <1>4, ReduceInv
<1>5. ASSUME NEW n \in Sections, AnswerReduce(d, n)
      PROVE  Inv'
  <2>1. /\ n \in Calls(d) /\ At(d, n, "calling") /\ Bill(d) /\ EndCall(d, n, "answered")
        /\ UNCHANGED <<phase, aborted>>
    BY <1>5 DEF AnswerReduce, Calls
  <2>2. QED
    BY <2>1, AnswerInv
<1>6. QED
  BY <1>1, <1>2, <1>3, <1>4, <1>5, MapEndsInv, FinishInv DEF Work

(* Every step keeps it.                                                    *)
LEMMA NextInv == Inv /\ [Next]_vars => Inv'
<1> SUFFICES ASSUME Inv, [Next]_vars PROVE Inv'
  OBVIOUS
<1>1. CASE UNCHANGED vars
  BY <1>1, ElsewhereInv DEF vars
<1>2. ASSUME NEW d \in Docs, Run(d) PROVE Inv'
  BY <1>2, RunInv
<1>3. ASSUME NEW d \in Docs, Work(d) PROVE Inv'
  BY <1>3, WorkInv
<1>4. ASSUME NEW d \in Docs, NEW s \in Slots(d) \cup Sections, Retry(d, s) PROVE Inv'
  BY <1>4, ElsewhereInv DEF Retry
<1>5. ASSUME NEW k \in CacheKeys, Damage(k) PROVE Inv'
  BY <1>5, ElsewhereInv DEF Damage
<1>6. CASE Quiet
  BY <1>6, ElsewhereInv DEF Quiet, vars
<1>7. ASSUME NEW d \in Docs, NEW i \in Slots(d), DiesUnstored(d, i) PROVE Inv'
  BY <1>7, DiesInv
<1>8. QED
  BY <1>1, <1>2, <1>3, <1>4, <1>5, <1>6, <1>7, CrashInv DEF Next

(* The invariant holds throughout.                                         *)
LEMMA Invariance == Spec => []Inv
<1>1. QED
  BY InitInv, NextInv, PTL DEF Spec

(* The tokens a run reports are those of its own calls (_UsageAccumulator  *)
(* in the run's context), however documents, failures and crashes          *)
(* interleave.                                                             *)
THEOREM TallyCorrect == Spec => []TallyIsOwn
<1>1. Inv => TallyIsOwn
  BY DEF Inv, Billed, TallyIsOwn
<1>2. QED
  BY <1>1, Invariance, PTL

-----------------------------------------------------------------------------
(* What is paid.  A window's text is paid for when its answer arrives, but *)
(* the answers on their way are as good as paid: two windows of one text   *)
(* may both have missed the cache.  An answer that was lost counts no more *)
(* than one that was never asked for.                                      *)

Occurrences(k) == UNION {{<<d, i>> : i \in {j \in Slots(d) : CacheKey(d, j) = k}} : d \in Docs}
OnTheWay(k) == {w \in Occurrences(k) : phase[w[1]] = "mapping" /\ place[w[1]][w[2]] = "calling"}

PaidInv ==
  /\ paid \in [CacheKeys -> Nat] /\ lost \in [CacheKeys -> Nat] /\ DOMAIN cache = CacheKeys
  /\ \A k \in CacheKeys :
       /\ cache[k] = Miss => paid[k] = lost[k]
       /\ paid[k] - lost[k] + Cardinality(OnTheWay(k)) <= Cardinality(Occurrences(k))

(* A text occurs in finitely many windows.                                 *)
LEMMA OccurrencesFinite ==
  ASSUME NEW k
  PROVE  /\ IsFiniteSet(Occurrences(k)) /\ Cardinality(Occurrences(k)) \in Nat
         /\ \A w \in Occurrences(k) :
              w[1] \in Docs /\ w[2] \in Slots(w[1]) /\ w = <<w[1], w[2]>> /\ CacheKey(w[1], w[2]) = k
         /\ \A d \in Docs : \A i \in Slots(d) : CacheKey(d, i) = k => <<d, i>> \in Occurrences(k)
<1> DEFINE slots == UNION {Slots(d) : d \in Docs}
<1>1. IsFiniteSet(Docs \X slots)
  BY WindowsAssumption, FS_Product
<1>2. Occurrences(k) \in SUBSET (Docs \X slots)
  BY DEF Occurrences
<1>3. IsFiniteSet(Occurrences(k)) /\ Cardinality(Occurrences(k)) \in Nat
  BY <1>1, <1>2, FS_Subset, FS_CardinalityType
<1>4. \A w \in Occurrences(k) :
        w[1] \in Docs /\ w[2] \in Slots(w[1]) /\ w = <<w[1], w[2]>> /\ CacheKey(w[1], w[2]) = k
  BY DEF Occurrences
<1>5. \A d \in Docs : \A i \in Slots(d) : CacheKey(d, i) = k => <<d, i>> \in Occurrences(k)
  BY DEF Occurrences
<1>6. QED
  BY <1>3, <1>4, <1>5

(* Any part of the occurrences is no larger than they are.                 *)
LEMMA PartOfOccurrences ==
  ASSUME NEW k, NEW part \in SUBSET Occurrences(k)
  PROVE  /\ IsFiniteSet(part) /\ Cardinality(part) \in Nat
         /\ Cardinality(part) <= Cardinality(Occurrences(k))
  BY OccurrencesFinite, FS_Subset, FS_CardinalityType

(* Calls that end without an answer, or with one that is lost, and a run   *)
(* that ends, take nothing from what is still allowed.                     *)
LEMMA FewerInHand ==
  ASSUME PaidInv, UNCHANGED cache,
         paid' \in [CacheKeys -> Nat], lost' \in [CacheKeys -> Nat],
         \A k \in CacheKeys : paid'[k] - lost'[k] = paid[k] - lost[k],
         \A k \in CacheKeys : OnTheWay(k)' \subseteq OnTheWay(k)
  PROVE  PaidInv'
<1>1. SUFFICES ASSUME NEW k \in CacheKeys
               PROVE  paid[k] - lost[k] + Cardinality(OnTheWay(k)') <= Cardinality(Occurrences(k))
  <2>1. \A k \in CacheKeys : Occurrences(k)' = Occurrences(k)
    BY DEF Occurrences, CacheKey
  <2>2. \A k \in CacheKeys : cache'[k] = Miss => paid'[k] = lost'[k]
    <3>1. SUFFICES ASSUME NEW k \in CacheKeys, cache[k] = Miss PROVE paid'[k] = lost'[k]
      OBVIOUS
    <3>2. paid[k] = lost[k] /\ paid[k] \in Nat /\ paid'[k] \in Nat /\ lost'[k] \in Nat
      BY <3>1 DEF PaidInv
    <3>3. QED
      BY <3>2
  <2>3. \A k \in CacheKeys :
          paid'[k] - lost'[k] + Cardinality(OnTheWay(k)') <= Cardinality(Occurrences(k))'
    BY <1>1, <2>1
  <2>4. QED
    BY <2>2, <2>3 DEF PaidInv
<1>2. OnTheWay(k) \in SUBSET Occurrences(k)
  BY DEF OnTheWay
<1>3. IsFiniteSet(OnTheWay(k)) /\ Cardinality(OnTheWay(k)) \in Nat
  BY <1>2, PartOfOccurrences
<1>4. Cardinality(OnTheWay(k)') <= Cardinality(OnTheWay(k)) /\ Cardinality(OnTheWay(k)') \in Nat
  <2>1. OnTheWay(k)' \in SUBSET OnTheWay(k)
    BY <1>1
  <2>2. QED
    BY <1>3, <2>1, FS_Subset, FS_CardinalityType
<1>5. /\ paid[k] \in Nat /\ lost[k] \in Nat
      /\ paid[k] - lost[k] + Cardinality(OnTheWay(k)) <= Cardinality(Occurrences(k))
  BY DEF PaidInv
<1>6. Cardinality(Occurrences(k)) \in Nat
  BY OccurrencesFinite
<1>7. QED
  BY <1>3, <1>4, <1>5, <1>6

LEMMA FewerOnTheWay ==
  ASSUME PaidInv, UNCHANGED <<paid, lost, cache>>,
         \A k \in CacheKeys : OnTheWay(k)' \subseteq OnTheWay(k)
  PROVE  PaidInv'
  BY FewerInHand DEF PaidInv

LEMMA LosesAnswer ==
  ASSUME PaidInv, NEW d \in Docs, NEW i \in Slots(d), Pay(d, i), Lose(d, i),
         \A k \in CacheKeys : OnTheWay(k)' \subseteq OnTheWay(k)
  PROVE  PaidInv'
<1> DEFINE key == CacheKey(d, i)
<1>1. key \in CacheKeys
  BY DEF CacheKeys
<1>2. /\ paid' = [paid EXCEPT ![key] = @ + 1] /\ lost' = [lost EXCEPT ![key] = @ + 1]
      /\ UNCHANGED cache
  BY DEF Pay, Lose
<1>3. paid \in [CacheKeys -> Nat] /\ lost \in [CacheKeys -> Nat]
  BY DEF PaidInv
<1> HIDE DEF key
<1>4. /\ paid' \in [CacheKeys -> Nat] /\ lost' \in [CacheKeys -> Nat]
      /\ \A k \in CacheKeys : paid'[k] - lost'[k] = paid[k] - lost[k]
  BY <1>1, <1>2, <1>3
<1>5. QED
  BY <1>2, <1>4, FewerInHand

(* A document whose run does not map, or whose calls end otherwise, has    *)
(* fewer calls on their way; the other documents have those they had.      *)
LEMMA NotCalling ==
  ASSUME NEW d \in Docs, NEW k,
         \A e \in Docs \ {d} : phase'[e] = phase[e] /\ place'[e] = place[e],
         \A i \in Slots(d) : phase'[d] = "mapping" /\ place'[d][i] = "calling" =>
           phase[d] = "mapping" /\ place[d][i] = "calling"
  PROVE  OnTheWay(k)' \subseteq OnTheWay(k)
<1>1. SUFFICES ASSUME NEW w \in OnTheWay(k)' PROVE w \in OnTheWay(k)
  OBVIOUS
<1>2. /\ w \in Occurrences(k) /\ phase'[w[1]] = "mapping" /\ place'[w[1]][w[2]] = "calling"
      /\ w[1] \in Docs /\ w[2] \in Slots(w[1])
  <2>1. /\ w \in Occurrences(k) /\ phase'[w[1]] = "mapping" /\ place'[w[1]][w[2]] = "calling"
    BY <1>1 DEF OnTheWay, Occurrences, CacheKey
  <2>2. QED
    BY <2>1, OccurrencesFinite
<1>3. phase[w[1]] = "mapping" /\ place[w[1]][w[2]] = "calling"
  <2>1. CASE w[1] = d
    BY <1>2, <2>1
  <2>2. CASE w[1] # d
    BY <1>2, <2>2
  <2>3. QED
    BY <2>1, <2>2
<1>4. QED
  BY <1>2, <1>3 DEF OnTheWay

(* A call moves on to a place where it is not calling.                     *)
LEMMA GotoElsewhere ==
  ASSUME TypeInv, NEW d \in Docs, NEW s, NEW where, Goto(d, s, where), UNCHANGED phase,
         where # "calling" \/ phase[d] # "mapping"
  PROVE  \A k \in CacheKeys : OnTheWay(k)' \subseteq OnTheWay(k)
<1>1. /\ \A e \in Docs \ {d} : phase'[e] = phase[e] /\ place'[e] = place[e]
      /\ place'[d] = [place[d] EXCEPT ![s] = where]
  BY DEF Goto, TypeInv
<1>2. \A i \in Slots(d) : i \in DOMAIN place[d]
  BY DEF TypeInv, Calls
<1>3. \A i \in Slots(d) : phase'[d] = "mapping" /\ place'[d][i] = "calling" =>
        phase[d] = "mapping" /\ place[d][i] = "calling"
  BY <1>1, <1>2
<1>4. QED
  BY <1>1, <1>3, NotCalling

(* The locals of a run that is over hold no call.                          *)
LEMMA ForgetElsewhere ==
  ASSUME NEW docs \in SUBSET Docs, Forget(docs)
  PROVE  \A k \in CacheKeys : OnTheWay(k)' \subseteq OnTheWay(k)
<1>1. SUFFICES ASSUME NEW k \in CacheKeys, NEW w \in OnTheWay(k)' PROVE w \in OnTheWay(k)
  OBVIOUS
<1>2. /\ w \in Occurrences(k) /\ phase'[w[1]] = "mapping" /\ place'[w[1]][w[2]] = "calling"
      /\ w[1] \in Docs
  <2>1. /\ w \in Occurrences(k) /\ phase'[w[1]] = "mapping" /\ place'[w[1]][w[2]] = "calling"
    BY <1>1 DEF OnTheWay, Occurrences, CacheKey
  <2>2. QED
    BY <2>1, OccurrencesFinite
<1>3. w[1] \notin docs /\ phase'[w[1]] = phase[w[1]] /\ place'[w[1]] = place[w[1]]
  BY <1>2 DEF Forget
<1>4. QED
  BY <1>2, <1>3 DEF OnTheWay

(* A window calls only when the cache has nothing for it: every answer to  *)
(* its text has been lost then.                                            *)
LEMMA CallPaid ==
  ASSUME TypeInv, PaidInv, NEW d \in Docs, NEW i \in Slots(d), CallWindow(d, i)
  PROVE  PaidInv'
<1> DEFINE key == CacheKey(d, i)
<1>1. /\ cache[key] = Miss /\ Goto(d, i, "calling")
      /\ UNCHANGED <<phase, cache, paid, lost>>
  BY DEF CallWindow, Hit, StartCall
<1>2. key \in CacheKeys
  BY DEF CacheKeys
<1>3. /\ \A e \in Docs \ {d} : place'[e] = place[e]
      /\ place'[d] = [place[d] EXCEPT ![i] = "calling"]
  BY <1>1 DEF Goto, TypeInv
<1>4. ASSUME NEW k \in CacheKeys
      PROVE  paid[k] - lost[k] + Cardinality(OnTheWay(k)') <= Cardinality(Occurrences(k))
  <2>1. OnTheWay(k)' \in SUBSET Occurrences(k)
    BY DEF OnTheWay, Occurrences, CacheKey
  <2>2. Cardinality(OnTheWay(k)') <= Cardinality(Occurrences(k)) /\ Cardinality(OnTheWay(k)') \in Nat
    BY <2>1, PartOfOccurrences
  <2>3. CASE k = key
    <3>1. paid[k] - lost[k] = 0
      BY <1>1, <1>2, <2>3 DEF PaidInv
    <3>2. QED
      BY <2>2, <3>1
  <2>4. CASE k # key
    <3>1. OnTheWay(k)' \subseteq OnTheWay(k)
      <4>1. SUFFICES ASSUME NEW w \in OnTheWay(k)' PROVE w \in OnTheWay(k)
        OBVIOUS
      <4>2. /\ w \in Occurrences(k) /\ phase[w[1]] = "mapping" /\ place'[w[1]][w[2]] = "calling"
        BY <1>1, <4>1 DEF OnTheWay, Occurrences, CacheKey
      <4>3. /\ w[1] \in Docs /\ w[2] \in Slots(w[1]) /\ CacheKey(w[1], w[2]) = k
        BY <4>2, OccurrencesFinite
      <4>4. w[1] # d \/ w[2] # i
        BY <2>4, <4>3
      <4>5. place'[w[1]][w[2]] = place[w[1]][w[2]]
        BY <1>3, <4>3, <4>4 DEF TypeInv, Calls
      <4>6. QED
        BY <4>2, <4>5 DEF OnTheWay
    <3>2. OnTheWay(k) \in SUBSET Occurrences(k)
      BY DEF OnTheWay
    <3>3. IsFiniteSet(OnTheWay(k)) /\ Cardinality(OnTheWay(k)) \in Nat
      BY <3>2, PartOfOccurrences
    <3>4. OnTheWay(k)' \in SUBSET OnTheWay(k)
      BY <3>1
    <3>5. Cardinality(OnTheWay(k)') <= Cardinality(OnTheWay(k))
      BY <3>3, <3>4, FS_Subset
    <3>6. /\ paid[k] \in Nat /\ lost[k] \in Nat
          /\ paid[k] - lost[k] + Cardinality(OnTheWay(k)) <= Cardinality(Occurrences(k))
      BY DEF PaidInv
    <3>7. QED
      BY <2>2, <3>3, <3>5, <3>6, OccurrencesFinite
  <2>5. QED
    BY <2>3, <2>4
<1>5. \A k \in CacheKeys : Occurrences(k)' = Occurrences(k)
  BY DEF Occurrences, CacheKey
<1>6. QED
  BY <1>1, <1>4, <1>5 DEF PaidInv

(* An answer that arrives and is stored is paid and no longer on its way.  *)
LEMMA AnswerPaid ==
  ASSUME Caching, TypeInv, PaidInv, NEW d \in Docs, NEW i \in Slots(d), NEW answer \in Answers,
         AnswerWindow(d, i, answer)
  PROVE  PaidInv'
<1> DEFINE key == CacheKey(d, i)
           w0 == <<d, i>>
<1>1. /\ phase[d] = "mapping" /\ place[d][i] = "calling" /\ Goto(d, i, "answered")
      /\ cache' = [cache EXCEPT ![key] = answer] /\ paid' = [paid EXCEPT ![key] = @ + 1]
      /\ UNCHANGED <<phase, lost>>
  BY DEF AnswerWindow, Pay, At, EndCall, Put
<1>2. key \in CacheKeys
  BY DEF CacheKeys
<1>3. /\ paid \in [CacheKeys -> Nat] /\ lost \in [CacheKeys -> Nat] /\ DOMAIN cache = CacheKeys
      /\ \A k \in CacheKeys :
           /\ cache[k] = Miss => paid[k] = lost[k]
           /\ paid[k] - lost[k] + Cardinality(OnTheWay(k)) <= Cardinality(Occurrences(k))
  BY DEF PaidInv
<1>4. /\ paid' \in [CacheKeys -> Nat] /\ DOMAIN cache' = CacheKeys
      /\ paid'[key] = paid[key] + 1 /\ cache'[key] = answer
      /\ \A k \in CacheKeys : k # key => paid'[k] = paid[k] /\ cache'[k] = cache[k]
  BY <1>1, <1>2, <1>3
<1>5. \A k \in CacheKeys : cache'[k] = Miss => paid'[k] = lost[k]
  BY <1>3, <1>4, WindowsAssumption
<1>6. \A k \in CacheKeys : OnTheWay(k)' \subseteq OnTheWay(k)
  BY <1>1, GotoElsewhere
<1>7. ASSUME NEW k \in CacheKeys
      PROVE  paid'[k] - lost[k] + Cardinality(OnTheWay(k)') <= Cardinality(Occurrences(k))
  <2>1. OnTheWay(k) \in SUBSET Occurrences(k)
    BY DEF OnTheWay
  <2>2. IsFiniteSet(OnTheWay(k)) /\ Cardinality(OnTheWay(k)) \in Nat
    BY <2>1, PartOfOccurrences
  <2>3. Cardinality(Occurrences(k)) \in Nat /\ paid[k] \in Nat /\ lost[k] \in Nat
    BY <1>3, OccurrencesFinite
  <2>4. CASE k = key
    <3>1. w0 \in Occurrences(k)
      BY <2>4, OccurrencesFinite
    <3>2. w0 \in OnTheWay(k)
      BY <1>1, <3>1 DEF OnTheWay
    <3>3. w0 \notin OnTheWay(k)'
      <4>1. place'[d][i] = "answered"
        BY <1>1 DEF Goto, TypeInv, Calls
      <4>2. QED
        BY <4>1 DEF OnTheWay
    <3>4. OnTheWay(k)' \in SUBSET (OnTheWay(k) \ {w0})
      BY <1>6, <3>3
    <3>5. /\ IsFiniteSet(OnTheWay(k) \ {w0})
          /\ Cardinality(OnTheWay(k) \ {w0}) = Cardinality(OnTheWay(k)) - 1
      BY <2>2, <3>2, FS_RemoveElement
    <3>6. Cardinality(OnTheWay(k)') <= Cardinality(OnTheWay(k)) - 1
          /\ Cardinality(OnTheWay(k)') \in Nat
      <4>1. IsFiniteSet(OnTheWay(k)') /\ Cardinality(OnTheWay(k)') <= Cardinality(OnTheWay(k) \ {w0})
        BY <3>4, <3>5, FS_Subset
      <4>2. QED
        BY <3>5, <4>1, FS_CardinalityType
    <3>7. QED
      BY <1>3, <1>4, <2>2, <2>3, <2>4, <3>6
  <2>5. CASE k # key
    <3>1. IsFiniteSet(OnTheWay(k)') /\ Cardinality(OnTheWay(k)') <= Cardinality(OnTheWay(k))
      BY <1>6, <2>2, FS_Subset
    <3>2. Cardinality(OnTheWay(k)') \in Nat
      BY <3>1, FS_CardinalityType
    <3>3. QED
      BY <1>3, <1>4, <2>2, <2>3, <2>5, <3>1, <3>2
  <2>6. QED
    BY <2>4, <2>5
<1>8. \A k \in CacheKeys : Occurrences(k)' = Occurrences(k)
  BY DEF Occurrences, CacheKey
<1>9. QED
  BY <1>1, <1>3, <1>4, <1>5, <1>7, <1>8 DEF PaidInv

(* A call that fails takes its document's or its own away.                 *)
LEMMA FailingElsewhere ==
  ASSUME TypeInv, NEW d \in Docs, NEW s, Failing(d, s)
  PROVE  \A k \in CacheKeys : OnTheWay(k)' \subseteq OnTheWay(k)
<1>1. CASE s \in Sections
  BY <1>1, ForgetElsewhere DEF Failing
<1>2. CASE s \notin Sections
  BY <1>2, GotoElsewhere DEF Failing, EndCall
<1>3. QED
  BY <1>1, <1>2

(* A run that goes on behind the map has no window calling.                *)
LEMMA BehindMap ==
  ASSUME TypeInv, NEW d \in Docs, NEW next, next # "mapping",
         phase' = [phase EXCEPT ![d] = next], UNCHANGED place
  PROVE  \A k \in CacheKeys : OnTheWay(k)' \subseteq OnTheWay(k)
<1>1. /\ phase'[d] # "mapping"
      /\ \A e \in Docs \ {d} : phase'[e] = phase[e] /\ place'[e] = place[e]
  BY DEF TypeInv
<1>2. QED
  BY <1>1, NotCalling

LEMMA PaidStep == Caching /\ TypeInv /\ PaidInv /\ [Next]_vars => PaidInv'
<1> SUFFICES ASSUME Caching, TypeInv, PaidInv, [Next]_vars PROVE PaidInv'
  OBVIOUS
<1>1. CASE UNCHANGED <<phase, place, cache, paid, lost>>
  BY <1>1, FewerOnTheWay DEF OnTheWay, Occurrences, CacheKey
<1>2. ASSUME NEW d \in Docs, Run(d) PROVE PaidInv'
  <2>1. /\ \A e \in Docs \ {d} : phase'[e] = phase[e] /\ place'[e] = place[e]
        /\ \A i \in Slots(d) : place'[d][i] = "queued"
    BY <1>2 DEF Run, TypeInv, Calls
  <2>2. \A k \in CacheKeys : OnTheWay(k)' \subseteq OnTheWay(k)
    BY <2>1, NotCalling
  <2>3. QED
    BY <1>2, <2>2, FewerOnTheWay DEF Run
<1>3. ASSUME NEW d \in Docs, NEW i \in Slots(d), SkipWindow(d, i) \/ UseCached(d, i)
      PROVE  PaidInv'
  <2>1. \E where \in {"skipped", "answered"} : Goto(d, i, where)
    BY <1>3 DEF SkipWindow, UseCached
  <2>2. UNCHANGED <<phase, cache, paid, lost>>
    BY <1>3 DEF SkipWindow, UseCached
  <2>3. QED
    BY <2>1, <2>2, GotoElsewhere, FewerOnTheWay
<1>4. ASSUME NEW d \in Docs, NEW s \in Slots(d) \cup Sections, CallFails(d, s) \/ Garbled(d, s)
      PROVE  PaidInv'
  <2>1. Failing(d, s) /\ UNCHANGED <<cache, paid, lost>>
    BY <1>4 DEF CallFails, Garbled
  <2>2. QED
    BY <2>1, FailingElsewhere, FewerOnTheWay
<1>5. ASSUME NEW d \in Docs, NEW n \in Sections,
             UseFragment(d, n) \/ CallReduce(d, n) \/ AnswerReduce(d, n)
      PROVE  PaidInv'
  <2>1. /\ phase[d] # "mapping" /\ UNCHANGED <<phase, cache, paid, lost>>
        /\ \E where \in {"answered", "calling"} : Goto(d, n, where)
    BY <1>5 DEF UseFragment, CallReduce, AnswerReduce, ReduceAlone, StartCall, EndCall
  <2>2. QED
    BY <2>1, GotoElsewhere, FewerOnTheWay
<1>6. ASSUME NEW d \in Docs, MapEnds(d) \/ Finish(d) PROVE PaidInv'
  <2>1. UNCHANGED <<cache, paid, lost>>
    BY <1>6 DEF MapEnds, Finish
  <2>2. \/ Forget({d})
        \/ \E next \in {"reducing", "done"} : phase' = [phase EXCEPT ![d] = next] /\ UNCHANGED place
    BY <1>6 DEF MapEnds, Finish
  <2>3. \A k \in CacheKeys : OnTheWay(k)' \subseteq OnTheWay(k)
    <3>1. CASE Forget({d})
      BY <3>1, ForgetElsewhere
    <3>2. CASE \E next \in {"reducing", "done"} :
                 phase' = [phase EXCEPT ![d] = next] /\ UNCHANGED place
      <4>1. PICK next \in {"reducing", "done"} :
              phase' = [phase EXCEPT ![d] = next] /\ UNCHANGED place
        BY <3>2
      <4>2. next # "mapping"
        OBVIOUS
      <4>3. QED
        BY <4>1, <4>2, BehindMap
    <3>3. QED
      BY <2>2, <3>1, <3>2
  <2>4. QED
    BY <2>1, <2>3, FewerOnTheWay
<1>7. CASE Crash
  BY <1>7, ForgetElsewhere, FewerOnTheWay DEF Crash
<1>8. ASSUME NEW gone \in CacheKeys, Damage(gone) PROVE PaidInv'
  <2>1. /\ cache' = [cache EXCEPT ![gone] = Miss] /\ lost' = [lost EXCEPT ![gone] = paid[gone]]
        /\ UNCHANGED <<phase, place, paid>>
    BY <1>8 DEF Damage
  <2>2. \A k \in CacheKeys : OnTheWay(k)' = OnTheWay(k) /\ Occurrences(k)' = Occurrences(k)
    BY <2>1 DEF OnTheWay, Occurrences, CacheKey
  <2>3. ASSUME NEW k \in CacheKeys
        PROVE  /\ cache'[k] = Miss => paid[k] = lost'[k]
               /\ paid[k] - lost'[k] + Cardinality(OnTheWay(k)) <= Cardinality(Occurrences(k))
    <3>1. CASE k = gone
      <4>1. OnTheWay(k) \in SUBSET Occurrences(k) /\ paid[k] = lost'[k] /\ paid[k] \in Nat
        BY <2>1, <3>1 DEF OnTheWay, PaidInv
      <4>2. QED
        <5>1. /\ Cardinality(OnTheWay(k)) \in Nat
              /\ Cardinality(OnTheWay(k)) <= Cardinality(Occurrences(k))
          BY <4>1, PartOfOccurrences
        <5>2. paid[k] - lost'[k] = 0
          BY <4>1
        <5>3. QED
          BY <4>1, <5>1, <5>2
    <3>2. CASE k # gone
      BY <2>1, <3>2 DEF PaidInv
    <3>3. QED
      BY <3>1, <3>2
  <2>4. lost' \in [CacheKeys -> Nat] /\ DOMAIN cache' = CacheKeys
    BY <2>1 DEF PaidInv
  <2>5. QED
    BY <2>1, <2>2, <2>3, <2>4 DEF PaidInv
<1>9. (\E d \in Docs : \E s \in Slots(d) \cup Sections : Retry(d, s)) \/ Quiet \/ UNCHANGED vars
        => UNCHANGED <<phase, place, cache, paid, lost>>
  BY DEF Retry, Quiet, vars
<1>10. ASSUME NEW d \in Docs, NEW i \in Slots(d), PutFails(d, i) \/ DiesUnstored(d, i)
       PROVE  PaidInv'
  <2>1. Pay(d, i) /\ Lose(d, i)
    BY <1>10 DEF PutFails, DiesUnstored
  <2>2. \A k \in CacheKeys : OnTheWay(k)' \subseteq OnTheWay(k)
    BY <1>10, FailingElsewhere, ForgetElsewhere DEF PutFails, DiesUnstored
  <2>3. QED
    BY <2>1, <2>2, LosesAnswer
<1>11. ASSUME NEW d \in Docs, Work(d) PROVE PaidInv'
  BY <1>3, <1>4, <1>5, <1>6, <1>10, <1>11, CallPaid, AnswerPaid DEF Work
<1>12. QED
  BY <1>1, <1>2, <1>7, <1>8, <1>9, <1>10, <1>11 DEF Next

(* With a chunk cache, a window's text is paid for at most as often as it  *)
(* occurs, over failed runs, crashes and re-runs, even where two windows   *)
(* ask for it at once, and answers lost since come on top: those whose put *)
(* raised or that the process died with, and damaged entries.              *)
THEOREM PaidCorrect == Spec => []PaidOnce
<1>1. Init => PaidInv
  <2>1. SUFFICES ASSUME Init PROVE PaidInv
    OBVIOUS
  <2>2. \A k \in CacheKeys : OnTheWay(k) = {}
    <3>1. ASSUME NEW k, NEW w \in Occurrences(k) PROVE phase[w[1]] = "idle"
      BY <2>1, <3>1, OccurrencesFinite DEF Init
    <3>2. QED
      BY <3>1 DEF OnTheWay
  <2>3. \A k \in CacheKeys : 0 + Cardinality(OnTheWay(k)) <= Cardinality(Occurrences(k))
    <3>1. Cardinality({}) = 0
      BY FS_EmptySet
    <3>2. \A k \in CacheKeys : Cardinality(Occurrences(k)) \in Nat
      BY OccurrencesFinite
    <3>3. \A k \in CacheKeys : Cardinality(OnTheWay(k)) = 0
      BY <2>2, <3>1
    <3>4. QED
      BY <3>2, <3>3
  <2>4. QED
    BY <2>1, <2>3 DEF Init, PaidInv
<1>2. PaidInv => PaidOnce
  <2>1. SUFFICES ASSUME PaidInv, NEW k \in CacheKeys
                 PROVE  paid[k] - lost[k] <= Cardinality(Occurrences(k))
    BY DEF PaidOnce, Occurrences
  <2>2. OnTheWay(k) \in SUBSET Occurrences(k)
    BY DEF OnTheWay
  <2>3. Cardinality(OnTheWay(k)) \in Nat
    BY <2>2, PartOfOccurrences
  <2>4. QED
    BY <2>1, <2>3, OccurrencesFinite DEF PaidInv
<1>3. Inv => TypeInv
  BY DEF Inv
<1>4. ~Caching => PaidOnce
  BY DEF PaidOnce
<1>5. CASE Caching
  <2>1. TypeInv /\ PaidInv /\ [Next]_vars => PaidInv'
    BY <1>5, PaidStep
  <2>2. QED
    BY <1>1, <1>2, <1>3, <2>1, Invariance, PTL DEF Spec
<1>6. CASE ~Caching
  <2>1. PaidOnce
    BY <1>4, <1>6
  <2>2. QED
    BY <2>1, PTL
<1>7. QED
  BY <1>5, <1>6

-----------------------------------------------------------------------------
(* Passes over a sequence.  A recursive function stands for a loop; what   *)
(* it computes is shown by induction on the elements passed.               *)

LEMMA Least ==
  ASSUME NEW T \in SUBSET Nat, T # {}
  PROVE  \E x \in T : \A y \in T : ~(y < x)
<1> DEFINE R == OpToRel(<, Nat)
<1>1. IsWellFoundedOn(R, Nat)
  BY NatLessThanWellFounded
<1>2. \A x, y \in Nat : x < y => <<x, y>> \in R
  BY DEF OpToRel
<1> HIDE DEF R
<1>3. PICK x \in T : \A y \in T : ~(<<y, x>> \in R)
  BY <1>1, WFMin
<1>4. \A y \in T : ~(y < x)
  BY <1>2, <1>3
<1>5. QED
  BY <1>4

(* Induction up to a number, over a set of those it holds for.             *)
LEMMA UpTo ==
  ASSUME NEW n \in Nat, NEW T, 0 \in T, \A k \in 1..n : k - 1 \in T => k \in T
  PROVE  \A k \in 0..n : k \in T
<1>1. SUFFICES ASSUME NEW k \in 0..n, k \notin T PROVE FALSE
  OBVIOUS
<1>2. PICK x \in (0..n) \ T : \A y \in (0..n) \ T : ~(y < x)
  <2>1. (0..n) \ T \in SUBSET Nat /\ (0..n) \ T # {}
    BY <1>1
  <2>2. QED
    BY <2>1, Least
<1>3. x \in 1..n /\ x - 1 \in 0..n /\ x - 1 < x
  BY <1>2
<1>4. x - 1 \in T
  BY <1>2, <1>3
<1>5. QED
  BY <1>2, <1>3, <1>4

(* A loop over n elements, whose k-th step takes what is computed so far   *)
(* to F[k] of it, computes something.                                      *)
Steps(F, n, V) == \A k \in 1..n : \A v \in V : F[k][v] \in V
Loop(f, base, F, n, V) ==
  f \in [0..n -> V] /\ f[0] = base /\ \A k \in 1..n : f[k] = F[k][f[k - 1]]

LEMMA Recursion ==
  ASSUME NEW V, NEW base \in V, NEW n \in Nat, NEW F, Steps(F, n, V)
  PROVE  \E f : Loop(f, base, F, n, V)
<1> DEFINE T == {m \in 0..n : \E f : Loop(f, base, F, m, V)}
<1>1. \E f : Loop(f, base, F, 0, V)
  <2>1. Loop([k \in 0..0 |-> base], base, F, 0, V)
    BY DEF Loop
  <2>2. QED
    BY <2>1
<1>2. ASSUME NEW m \in 1..n, NEW f, Loop(f, base, F, m - 1, V)
      PROVE  \E g : Loop(g, base, F, m, V)
  <2> DEFINE g == [k \in 0..m |-> IF k = m THEN F[m][f[m - 1]] ELSE f[k]]
  <2>1. f[m - 1] \in V /\ F[m][f[m - 1]] \in V
    BY <1>2 DEF Loop, Steps
  <2>2. g \in [0..m -> V] /\ g[0] = base
    BY <1>2, <2>1 DEF Loop
  <2>3. \A k \in 1..m : g[k] = F[k][g[k - 1]]
    BY <1>2, <2>1 DEF Loop
  <2>4. Loop(g, base, F, m, V)
    BY <2>2, <2>3 DEF Loop
  <2> HIDE DEF g
  <2>5. QED
    BY <2>4
<1>3. 0 \in T /\ \A m \in 1..n : m - 1 \in T => m \in T
  BY <1>1, <1>2
<1> HIDE DEF T
<1>4. \A m \in 0..n : m \in T
  BY <1>3, UpTo
<1>5. QED
  BY <1>4 DEF T

(* The elements of a sequence that are in a set.                           *)
AmongOf(kept, s, S, V) ==
  /\ kept \in [0..Len(s) -> V] /\ kept[0] = <<>> /\ Among(s, S) = kept[Len(s)]
  /\ \A k \in 1..Len(s) :
       kept[k] = IF s[k] \in S THEN Append(kept[k - 1], s[k]) ELSE kept[k - 1]

LEMMA AmongDef ==
  ASSUME NEW E, NEW s \in Seq(E), NEW S
  PROVE  \E kept : AmongOf(kept, s, S, Seq(E))
<1> DEFINE Step(k, t) == IF s[k] \in S THEN Append(t, s[k]) ELSE t
           kept[k \in 0..Len(s)] == IF k = 0 THEN <<>> ELSE Step(k, kept[k - 1])
           V == Seq(E)
<1>1. PICK n \in Nat : n = Len(s) /\ \A k \in 1..n : s[k] \in E
  OBVIOUS
<1>2. <<>> \in V /\ \A k \in 1..n : \A t \in V : Step(k, t) \in V
  BY <1>1
<1>3. Among(s, S) = kept[n]
  BY <1>1 DEF Among
<1> HIDE DEF Step, V
<1>4. \E f : f = [k \in 0..n |-> IF k = 0 THEN <<>> ELSE Step(k, f[k - 1])]
  <2> DEFINE F == [k \in 1..n |-> [t \in V |-> Step(k, t)]]
  <2>1. \A k \in 1..n : \A t \in V : F[k][t] = Step(k, t) /\ F[k][t] \in V
    BY <1>2
  <2> HIDE DEF F
  <2>2. PICK f : Loop(f, <<>>, F, n, V)
    BY <1>2, <2>1, Recursion DEF Steps
  <2>3. f = [k \in 0..n |-> IF k = 0 THEN <<>> ELSE Step(k, f[k - 1])]
    BY <2>1, <2>2 DEF Loop
  <2>4. QED
    BY <2>3
<1>5. kept = [k \in 0..n |-> IF k = 0 THEN <<>> ELSE Step(k, kept[k - 1])]
  BY <1>1, <1>4
<1> HIDE DEF kept
<1>6. kept[0] = <<>> /\ \A k \in 1..n : kept[k] = Step(k, kept[k - 1])
  BY <1>5
<1>7. \A k \in 0..n : kept[k] \in V
  <2> DEFINE T == {k \in 0..n : kept[k] \in V}
  <2>1. 0 \in T
    BY <1>2, <1>6
  <2>2. \A k \in 1..n : k - 1 \in T => k \in T
    BY <1>2, <1>6
  <2> HIDE DEF T
  <2>3. \A k \in 0..n : k \in T
    BY <2>1, <2>2, UpTo
  <2>4. QED
    BY <2>3 DEF T
<1>8. kept \in [0..n -> V]
  BY <1>5, <1>7
<1>9. AmongOf(kept, s, S, V)
  BY <1>1, <1>3, <1>6, <1>8 DEF AmongOf, Step
<1>10. QED
  BY <1>9 DEF V

(* A sequence of sequences, one behind the other.                          *)
FlatOf(flat, ws, V) ==
  /\ flat \in [0..Len(ws) -> V] /\ flat[0] = <<>> /\ FlattenSeq(ws) = flat[Len(ws)]
  /\ \A k \in 1..Len(ws) : flat[k] = flat[k - 1] \o ws[k]

LEMMA FlatDef ==
  ASSUME NEW E, NEW ws \in Seq(Seq(E))
  PROVE  \E flat : FlatOf(flat, ws, Seq(E))
<1> DEFINE Step(k, t) == t \o ws[k]
           flatten[i \in 1..Len(ws)] == IF i = 1 THEN ws[i] ELSE Step(i, flatten[i - 1])
           V == Seq(E)
<1>1. PICK n \in Nat : n = Len(ws) /\ \A k \in 1..n : ws[k] \in V
  OBVIOUS
<1>2. <<>> \in V /\ \A k \in 1..n : \A t \in V : Step(k, t) \in V
  BY <1>1
<1>3. FlattenSeq(ws) = IF n = 0 THEN ws ELSE flatten[n]
  BY <1>1 DEF FlattenSeq
<1>4. n = 0 => ws = <<>>
  BY <1>1, EmptySeq
<1>5. n # 0 => Step(1, <<>>) = ws[1]
  <2>1. n # 0 => ws[1] \in Seq(E)
    BY <1>1
  <2>2. QED
    BY <2>1, ConcatEmptySeq
<1> HIDE DEF V, Step
<1> DEFINE F == [k \in 1..n |-> [t \in V |-> Step(k, t)]]
<1>6. \A k \in 1..n : \A t \in V : F[k][t] = Step(k, t) /\ F[k][t] \in V
  BY <1>2
<1> HIDE DEF F
<1>7. PICK f : Loop(f, <<>>, F, n, V)
  BY <1>2, <1>6, Recursion DEF Steps
<1>8. f \in [0..n -> V] /\ f[0] = <<>> /\ \A k \in 1..n : f[k] = Step(k, f[k - 1])
  BY <1>6, <1>7 DEF Loop
<1>9. n # 0 => flatten[n] = f[n]
  <2> SUFFICES ASSUME n # 0 PROVE flatten[n] = f[n]
    OBVIOUS
  <2> DEFINE g == [i \in 1..n |-> f[i]]
  <2>1. g = [i \in 1..n |-> IF i = 1 THEN ws[i] ELSE Step(i, g[i - 1])]
    <3>1. f[1] = ws[1]
      BY <1>5, <1>8
    <3>2. \A i \in 1..n : i # 1 => g[i - 1] = f[i - 1]
      OBVIOUS
    <3>3. \A i \in 1..n : f[i] = IF i = 1 THEN ws[i] ELSE Step(i, g[i - 1])
      BY <1>8, <3>1, <3>2
    <3>4. QED
      BY <3>3
  <2> HIDE DEF g
  <2>2. flatten = [i \in 1..n |-> IF i = 1 THEN ws[i] ELSE Step(i, flatten[i - 1])]
    BY <1>1, <2>1
  <2> HIDE DEF flatten
  <2>3. \A i \in 1..n : flatten[i] = IF i = 1 THEN ws[i] ELSE Step(i, flatten[i - 1])
    BY <2>2
  <2> DEFINE T == {k \in 0..n : k = 0 \/ flatten[k] = f[k]}
  <2>4. 0 \in T
    OBVIOUS
  <2>5. \A k \in 1..n : k - 1 \in T => k \in T
    BY <1>5, <1>8, <2>3
  <2> HIDE DEF T
  <2>6. \A k \in 0..n : k \in T
    BY <2>4, <2>5, UpTo
  <2>7. QED
    BY <2>6 DEF T
<1>10. \A k \in 1..n : f[k] = f[k - 1] \o ws[k]
  BY <1>8 DEF Step
<1>11. FlattenSeq(ws) = f[n]
  BY <1>3, <1>4, <1>8, <1>9
<1>12. FlatOf(f, ws, V)
  BY <1>1, <1>8, <1>10, <1>11 DEF FlatOf
<1>13. QED
  BY <1>12 DEF V

LEMMA FlatAppend ==
  ASSUME NEW E, NEW ws \in Seq(Seq(E)), NEW w \in Seq(E)
  PROVE  /\ FlattenSeq(ws) \in Seq(E)
         /\ FlattenSeq(Append(ws, w)) = FlattenSeq(ws) \o w
<1> DEFINE V == Seq(E)
           more == Append(ws, w)
<1>1. PICK n \in Nat : n = Len(ws)
  OBVIOUS
<1>2. /\ more \in Seq(V) /\ Len(more) = n + 1
      /\ more[n + 1] = w /\ \A k \in 1..n : more[k] = ws[k]
  BY <1>1, AppendProperties
<1>3. PICK f : FlatOf(f, ws, V)
  BY FlatDef
<1>4. PICK g : FlatOf(g, more, V)
  BY <1>2, FlatDef
<1> HIDE DEF V, more
<1>5. f \in [0..n -> V] /\ f[0] = <<>> /\ FlattenSeq(ws) = f[n] /\ \A k \in 1..n : f[k] = f[k - 1] \o ws[k]
  BY <1>1, <1>3 DEF FlatOf
<1>6. /\ g[0] = <<>> /\ FlattenSeq(more) = g[n + 1]
      /\ \A k \in 1..(n + 1) : g[k] = g[k - 1] \o more[k]
  BY <1>2, <1>4 DEF FlatOf
<1> DEFINE T == {k \in 0..n : g[k] = f[k]}
<1>7. 0 \in T
  BY <1>5, <1>6
<1>8. ASSUME NEW k \in 1..n, k - 1 \in T PROVE k \in T
  <2>1. k \in 1..(n + 1) /\ k \in 0..n
    OBVIOUS
  <2>2. g[k] = g[k - 1] \o ws[k] /\ f[k] = f[k - 1] \o ws[k] /\ g[k - 1] = f[k - 1]
    BY <1>2, <1>5, <1>6, <1>8, <2>1
  <2>3. g[k] = f[k]
    BY <2>2, Zenon
  <2>4. QED
    BY <2>1, <2>3
<1> HIDE DEF T
<1>9. \A k \in 0..n : k \in T
  BY <1>7, <1>8, UpTo
<1>10. g[n] = f[n] /\ f[n] \in V
  BY <1>5, <1>9 DEF T
<1>11. g[n + 1] = g[n] \o w
  <2>1. n + 1 \in 1..(n + 1) /\ (n + 1) - 1 = n
    OBVIOUS
  <2>2. g[n + 1] = g[(n + 1) - 1] \o more[n + 1]
    BY <1>6, <2>1
  <2>3. QED
    BY <1>2, <2>1, <2>2
<1>12. QED
  BY <1>5, <1>6, <1>10, <1>11 DEF V, more

(* Packing the pages loses none that is not blank, and changes no order.   *)
Held(packed) == FlattenSeq(packed.windows) \o packed.buf

LEMMA PackHolds ==
  ASSUME NEW packed \in [windows : Seq(Seq(Page)), buf : Seq(Page)], NEW page \in Page
  PROVE  /\ Pack(packed, page) \in [windows : Seq(Seq(Page)), buf : Seq(Page)]
         /\ Held(packed) \in Seq(Page)
         /\ Held(Pack(packed, page)) = IF page.chars > 0 THEN Append(Held(packed), page) ELSE Held(packed)
<1> DEFINE ws == packed.windows
           buf == packed.buf
           V == [windows : Seq(Seq(Page)), buf : Seq(Page)]
<1>1. ws \in Seq(Seq(Page)) /\ buf \in Seq(Page) /\ page.chars \in Nat /\ <<page>> \in Seq(Page)
  BY DEF Page
<1>2. FlattenSeq(ws) \in Seq(Page) /\ FlattenSeq(Append(ws, buf)) = FlattenSeq(ws) \o buf
  BY <1>1, FlatAppend
<1>3. Held(packed) \in Seq(Page)
  BY <1>1, <1>2 DEF Held
<1>4. CASE page.chars = 0
  <2>1. Pack(packed, page) = packed
    BY <1>4 DEF Pack
  <2>2. QED
    BY <1>3, <1>4, <2>1
<1>5. CASE page.chars # 0 /\ buf # <<>> /\ Chars(buf) + page.chars > ChunkChars
  <2>1. Pack(packed, page) = [windows |-> Append(ws, buf), buf |-> <<page>>]
    BY <1>5 DEF Pack
  <2>2. Held(Pack(packed, page)) = (FlattenSeq(ws) \o buf) \o <<page>>
    BY <1>2, <2>1 DEF Held
  <2>3. Append(Held(packed), page) = Held(packed) \o <<page>>
    BY <1>3, AppendIsConcat
  <2>4. Append(ws, buf) \in Seq(Seq(Page))
    BY <1>1
  <2>5. Pack(packed, page) \in V
    BY <1>1, <2>1, <2>4
  <2>6. Held(Pack(packed, page)) = Append(Held(packed), page)
    BY <2>2, <2>3 DEF Held
  <2>7. page.chars > 0
    BY <1>1, <1>5
  <2>8. QED
    BY <1>3, <2>5, <2>6, <2>7
<1>6. CASE page.chars # 0 /\ ~(buf # <<>> /\ Chars(buf) + page.chars > ChunkChars)
  <2>1. Pack(packed, page) = [packed EXCEPT !.buf = Append(@, page)]
    BY <1>6 DEF Pack
  <2>2. Pack(packed, page).windows = ws /\ Pack(packed, page).buf = buf \o <<page>>
    BY <1>1, <2>1, AppendIsConcat
  <2>3. Held(Pack(packed, page)) = FlattenSeq(ws) \o (buf \o <<page>>)
    BY <2>2 DEF Held
  <2>4. FlattenSeq(ws) \o (buf \o <<page>>) = (FlattenSeq(ws) \o buf) \o <<page>>
    BY <1>1, <1>2, ConcatAssociative
  <2>5. Append(Held(packed), page) = Held(packed) \o <<page>>
    BY <1>3, AppendIsConcat
  <2>6. Pack(packed, page) \in V
    <3>1. Append(buf, page) \in Seq(Page)
      BY <1>1
    <3>2. \A bag \in Seq(Page) : [packed EXCEPT !.buf = bag] \in V
      OBVIOUS
    <3>3. QED
      BY <2>1, <3>1, <3>2
  <2>7. Held(Pack(packed, page)) = Append(Held(packed), page)
    BY <2>3, <2>4, <2>5 DEF Held
  <2>8. page.chars > 0
    BY <1>1, <1>6
  <2>9. QED
    BY <1>3, <2>6, <2>7, <2>8
<1>7. QED
  BY <1>4, <1>5, <1>6

LEMMA ChunkedWhole ==
  ASSUME NEW pages \in Seq(Page)
  PROVE  /\ Chunked(pages) \in Seq(Seq(Page))
         /\ FlattenSeq(Chunked(pages)) =
              Among(pages, {page \in Range(pages) : page.chars > 0})
<1> DEFINE V == [windows : Seq(Seq(Page)), buf : Seq(Page)]
           S == {page \in Range(pages) : page.chars > 0}
           none == [windows |-> <<>>, buf |-> <<>>]
           Step(k, t) == Pack(t, pages[k])
           packed[k \in 0..Len(pages)] == IF k = 0 THEN none ELSE Step(k, packed[k - 1])
           last == packed[Len(pages)]
<1>1. PICK n \in Nat : n = Len(pages) /\ \A k \in 1..n : pages[k] \in Page /\ pages[k] \in Range(pages)
  BY DEF Range
<1>2. \A k \in 1..n : \A t \in V : Step(k, t) \in V
  BY <1>1, PackHolds
<1>3. none \in V
  OBVIOUS
<1>4. Chunked(pages) = IF last.buf = <<>> THEN last.windows ELSE Append(last.windows, last.buf)
  BY DEF Chunked
<1> DEFINE F == [k \in 1..n |-> [t \in V |-> Step(k, t)]]
<1> HIDE DEF V, Step, none
<1>5. \A k \in 1..n : \A t \in V : F[k][t] = Step(k, t) /\ F[k][t] \in V
  BY <1>2
<1> HIDE DEF F
<1>6. PICK f : Loop(f, none, F, n, V)
  BY <1>3, <1>5, Recursion DEF Steps
<1>7. f = [k \in 0..n |-> IF k = 0 THEN none ELSE Step(k, f[k - 1])]
  BY <1>5, <1>6 DEF Loop
<1>8. packed = [k \in 0..n |-> IF k = 0 THEN none ELSE Step(k, packed[k - 1])]
  BY <1>1, <1>7
<1> HIDE DEF packed
<1>9. packed[0] = none /\ \A k \in 1..n : packed[k] = Step(k, packed[k - 1])
  BY <1>8
<1>10. PICK kept : AmongOf(kept, pages, S, Seq(Page))
  BY AmongDef
<1> DEFINE T == {k \in 0..n : packed[k] \in V /\ Held(packed[k]) = kept[k]}
<1>11. 0 \in T
  <2>1. FlattenSeq(<<>>) = <<>>
    BY DEF FlattenSeq
  <2>2. Held(none) = <<>>
    BY <2>1 DEF Held, none
  <2>3. QED
    BY <1>1, <1>3, <1>9, <1>10, <2>2 DEF AmongOf
<1>12. ASSUME NEW k \in 1..n, k - 1 \in T PROVE k \in T
  <2>1. packed[k] = Pack(packed[k - 1], pages[k]) /\ packed[k - 1] \in V /\ pages[k] \in Page
    BY <1>1, <1>9, <1>12 DEF Step
  <2>2. /\ packed[k] \in V
        /\ Held(packed[k]) = IF pages[k].chars > 0 THEN Append(Held(packed[k - 1]), pages[k])
                             ELSE Held(packed[k - 1])
    BY <2>1, PackHolds DEF V
  <2>3. pages[k] \in S <=> pages[k].chars > 0
    BY <1>1
  <2>4. kept[k] = IF pages[k].chars > 0 THEN Append(kept[k - 1], pages[k]) ELSE kept[k - 1]
    BY <1>1, <1>10, <2>3 DEF AmongOf
  <2>5. Held(packed[k - 1]) = kept[k - 1]
    BY <1>12
  <2> HIDE DEF Held, S, T
  <2>6. Held(packed[k]) = kept[k]
    BY <2>2, <2>4, <2>5
  <2>7. QED
    BY <2>2, <2>6 DEF T
<1> HIDE DEF T
<1>13. \A k \in 0..n : k \in T
  BY <1>11, <1>12, UpTo
<1>14. last \in V /\ Held(last) = Among(pages, S)
  BY <1>1, <1>10, <1>13 DEF T, AmongOf
<1>15. last.windows \in Seq(Seq(Page)) /\ last.buf \in Seq(Page)
  BY <1>14 DEF V
<1>16. /\ FlattenSeq(last.windows) \in Seq(Page)
       /\ FlattenSeq(Append(last.windows, last.buf)) = Held(last)
  BY <1>15, FlatAppend DEF Held
<1>17. last.buf = <<>> => Held(last) = FlattenSeq(last.windows)
  BY <1>16, ConcatEmptySeq DEF Held
<1>18. Append(last.windows, last.buf) \in Seq(Seq(Page))
  BY <1>15
<1> HIDE DEF last, S
<1>19. QED
  BY <1>4, <1>14, <1>15, <1>16, <1>17, <1>18 DEF S

-----------------------------------------------------------------------------
(* What of a section's fragments its reduce call is given.                 *)

LEMMA TimesMore ==
  ASSUME NEW c \in Nat, NEW i \in Nat, NEW j \in Nat, i <= j
  PROVE  i * c <= j * c /\ i * c \in Nat
<1>1. PICK m \in Nat : j = i + m
  <2>1. j - i \in Nat /\ j = i + (j - i)
    OBVIOUS
  <2>2. QED
    BY <2>1
<1>2. j * c = i * c + m * c /\ m * c >= 0 /\ i * c \in Nat
  BY <1>1
<1>3. QED
  BY <1>2

(* The joined length of fragments of one length.                           *)
LEMMA JoinedSame ==
  ASSUME NEW c \in Nat, NEW n \in Nat
  PROVE  Joined(7, [k \in 1..n |-> c]) = n * c + 7 * (n - 1)
<1> DEFINE lengths == [k \in 1..n |-> c]
           total[k \in 0..Len(lengths)] == IF k = 0 THEN 0 ELSE total[k - 1] + lengths[k]
<1>1. Len(lengths) = n
  OBVIOUS
<1>2. Joined(7, lengths) = total[n] + 7 * (n - 1)
  BY <1>1 DEF Joined
<1> DEFINE f == [k \in 0..n |-> k * c]
<1>3. \A k \in 1..n : f[k] = f[k - 1] + lengths[k]
  OBVIOUS
<1>4. f = [k \in 0..n |-> IF k = 0 THEN 0 ELSE f[k - 1] + lengths[k]]
  BY <1>3
<1> HIDE DEF f, lengths
<1>5. total = [k \in 0..n |-> IF k = 0 THEN 0 ELSE total[k - 1] + lengths[k]]
  BY <1>1, <1>4
<1> HIDE DEF total
<1> DEFINE T == {k \in 0..n : total[k] = k * c}
<1>6. 0 \in T
  BY <1>5
<1>7. ASSUME NEW k \in 1..n, k - 1 \in T PROVE k \in T
  <2>1. total[k] = total[k - 1] + c /\ total[k - 1] = (k - 1) * c
    BY <1>5, <1>7 DEF lengths
  <2>2. QED
    BY <2>1
<1> HIDE DEF T
<1>8. \A k \in 0..n : k \in T
  BY <1>6, <1>7, UpTo
<1>9. QED
  BY <1>2, <1>8 DEF T, lengths

(* Fragments that fit begin within the limit, each of them.                *)
LEMMA KeptWhole ==
  ASSUME NEW E, NEW frags \in Seq(E),
         Joined(7, [k \in DOMAIN frags |-> FragmentChars]) <= ReduceChars
  PROVE  Kept(frags) = frags
<1>1. PICK n \in Nat : n = Len(frags) /\ DOMAIN frags = 1..n /\ frags = [k \in 1..n |-> frags[k]]
  OBVIOUS
<1>2. FragmentChars \in Nat \ {0} /\ ReduceChars \in Nat
  BY ExtractorAssumption
<1>3. n * FragmentChars + 7 * (n - 1) <= ReduceChars
  BY <1>1, <1>2, JoinedSame
<1>4. ASSUME NEW k \in 1..n PROVE (k - 1) * (FragmentChars + 7) < ReduceChars
  <2>1. (k - 1) * FragmentChars <= (n - 1) * FragmentChars
    BY <1>2, TimesMore
  <2>2. (k - 1) * (FragmentChars + 7) = (k - 1) * FragmentChars + 7 * (k - 1)
    BY <1>2
  <2>3. (n - 1) * FragmentChars = n * FragmentChars - FragmentChars
    BY <1>2
  <2>4. /\ (k - 1) * FragmentChars \in Int /\ (n - 1) * FragmentChars \in Int
        /\ n * FragmentChars \in Int
    BY <1>2
  <2>5. QED
    BY <1>2, <1>3, <2>1, <2>2, <2>3, <2>4
<1>5. {k \in DOMAIN frags : (k - 1) * (FragmentChars + 7) < ReduceChars} = 1..n
  BY <1>1, <1>4
<1>6. QED
  BY <1>1, <1>5 DEF Kept

(* And it is always the first so many of them.                             *)
LEMMA KeptPrefix ==
  ASSUME NEW E, NEW frags \in Seq(E)
  PROVE  IsPrefix(Kept(frags), frags)
<1> DEFINE Begins(k) == (k - 1) * (FragmentChars + 7)
           within == {k \in DOMAIN frags : Begins(k) < ReduceChars}
<1>1. PICK n \in Nat : n = Len(frags) /\ DOMAIN frags = 1..n /\ \A k \in 1..n : frags[k] \in E
  OBVIOUS
<1>2. FragmentChars \in Nat \ {0} /\ ReduceChars \in Nat
  BY ExtractorAssumption
<1>3. \A j, k \in 1..n : j <= k => Begins(j) <= Begins(k) /\ Begins(j) \in Int /\ Begins(k) \in Int
  BY <1>2, TimesMore
<1>4. Kept(frags) = [k \in within |-> frags[k]]
  BY DEF Kept
<1> HIDE DEF Begins
<1>5. PICK m \in 0..n : within = 1..m
  <2>1. CASE within = 1..n
    BY <2>1
  <2>2. CASE within # 1..n
    <3>1. (1..n) \ within \in SUBSET Nat /\ (1..n) \ within # {}
      BY <1>1, <2>2
    <3>2. PICK x \in (1..n) \ within : \A y \in (1..n) \ within : ~(y < x)
      BY <3>1, Least
    <3>3. \A k \in 1..n : k < x => k \in within
      BY <3>2
    <3>4. \A k \in 1..n : k >= x => k \notin within
      BY <1>1, <1>2, <1>3, <3>2
    <3> HIDE DEF within
    <3>5. within \subseteq 1..n
      BY <1>1 DEF within
    <3>6. within = 1..(x - 1) /\ x - 1 \in 0..n
      <4>1. x \in 1..n /\ x - 1 \in 0..n
        BY <3>2
      <4>2. \A k \in 1..(x - 1) : k \in within
        BY <3>3, <4>1
      <4>3. \A k \in within : k \in 1..(x - 1)
        BY <3>4, <3>5, <4>1
      <4>4. QED
        BY <4>1, <4>2, <4>3
    <3>7. QED
      BY <3>6
  <2>3. QED
    BY <2>1, <2>2
<1> HIDE DEF within
<1>6. Kept(frags) = SubSeq(frags, 1, m)
  <2>1. SubSeq(frags, 1, m) = [k \in 1..m |-> frags[k]]
    BY <1>1, SubSeqProperties
  <2>2. QED
    BY <1>4, <1>5, <2>1
<1>7. Len(SubSeq(frags, 1, m)) = m /\ m <= n
  BY <1>1, SubSeqProperties
<1>8. SubSeq(SubSeq(frags, 1, m), 1, m) = SubSeq(frags, 1, m)
  <2>1. SubSeq(frags, 1, m) \in Seq(E)
    BY <1>1
  <2>2. QED
    BY <1>7, <2>1
<1>9. QED
  BY <1>1, <1>6, <1>7, <1>8 DEF IsPrefix

-----------------------------------------------------------------------------
(* The sections.  None is made before every window has been mapped, and    *)
(* what the windows gave a section no longer changes then.                 *)

Made(d) == \A n \in Sections :
  content[d][n] = IF At(d, n, "answered") THEN Kept(Fragments(d, n)) ELSE <<>>

SectionsOf(d) ==
  /\ DOMAIN result[d] = Slots(d) /\ DOMAIN content[d] = Sections
  /\ phase[d] = "mapping" => \A n \in Sections : At(d, n, "none") /\ content[d][n] = <<>>
  /\ phase[d] \in {"reducing", "done"} => Made(d)
  /\ phase[d] = "done" => \A n \in Found(d) : At(d, n, "answered")

SectionsInv ==
  DOMAIN result = Docs /\ DOMAIN content = Docs /\ \A d \in Docs : SectionsOf(d)

LEMMA InitSections == Init => SectionsInv
  BY DEF Init, SectionsInv, SectionsOf, NoResults, NoContent

(* A document none of whose variables change keeps its part.               *)
LEMMA Untouched ==
  ASSUME NEW d \in Docs, SectionsOf(d),
         phase'[d] = phase[d], result'[d] = result[d], content'[d] = content[d],
         \A s \in Calls(d) : place'[d][s] = place[d][s]
  PROVE  SectionsOf(d)'
<1>1. Answered(d)' = Answered(d) /\ \A n \in Sections : Giving(d, n)' = Giving(d, n)
  BY DEF Answered, Giving, At, Calls
<1>2. \A n \in Sections : Fragments(d, n)' = Fragments(d, n)
  BY <1>1 DEF Fragments
<1>3. Found(d)' = Found(d) /\ Found(d) \subseteq Sections
  BY <1>2 DEF Found
<1>4. \A n \in Sections : At(d, n, "answered")' = At(d, n, "answered") /\ At(d, n, "none")' = At(d, n, "none")
  BY DEF At, Calls
<1>5. Made(d)' = Made(d)
  BY <1>2, <1>4 DEF Made
<1>6. QED
  BY <1>3, <1>4, <1>5 DEF SectionsOf

(* Steps that leave the variables alone, other than attempts and bills.    *)
LEMMA ElsewhereSections ==
  ASSUME SectionsInv, UNCHANGED <<phase, place, result, content>>
  PROVE  SectionsInv'
  BY Untouched DEF SectionsInv

(* What a run leaves that ends with an error has no section.               *)
LEMMA ForgetSections ==
  ASSUME TypeInv, SectionsInv, NEW docs \in SUBSET Docs, Forget(docs)
  PROVE  SectionsInv'
<1>1. DOMAIN result' = Docs /\ DOMAIN content' = Docs
  BY DEF Forget
<1>2. ASSUME NEW d \in Docs PROVE SectionsOf(d)'
  <2>1. CASE d \in docs
    <3>1. phase'[d] = "failed" /\ DOMAIN result'[d] = Slots(d) /\ DOMAIN content'[d] = Sections
      BY <2>1 DEF Forget, NoResults, NoContent
    <3>2. QED
      BY <3>1 DEF SectionsOf
  <2>2. CASE d \notin docs
    <3>1. /\ phase'[d] = phase[d] /\ result'[d] = result[d] /\ content'[d] = content[d]
          /\ place'[d] = place[d]
      BY <2>2 DEF Forget
    <3>2. QED
      BY <3>1, Untouched DEF SectionsInv
  <2>3. QED
    BY <2>1, <2>2
<1>3. QED
  BY <1>1, <1>2 DEF SectionsInv

(* A run starts with nothing.                                              *)
LEMMA RunSections == ASSUME TypeInv, SectionsInv, NEW d \in Docs, Run(d) PROVE SectionsInv'
<1>1. /\ DOMAIN result' = Docs /\ DOMAIN content' = Docs
      /\ result'[d] = NoResults(d) /\ content'[d] = NoContent
      /\ \A e \in Docs : e # d => result'[e] = result[e] /\ content'[e] = content[e]
                                  /\ phase'[e] = phase[e] /\ place'[e] = place[e]
      /\ phase'[d] = "mapping"
  BY DEF Run, SectionsInv, TypeInv
<1>2. \A n \in Sections : place'[d][n] = "none"
  <2>1. \A n \in Sections : n \notin Slots(d) /\ n \in DOMAIN place[d]
    BY WindowsAssumption DEF TypeInv, Calls
  <2>2. place'[d] = [s \in DOMAIN place[d] |-> IF s \in Slots(d) THEN "queued" ELSE "none"]
    BY DEF Run, TypeInv
  <2>3. QED
    BY <2>1, <2>2
<1>3. SectionsOf(d)'
  BY <1>1, <1>2 DEF SectionsOf, NoResults, NoContent, At
<1>4. \A e \in Docs : e # d => SectionsOf(e)'
  BY <1>1, Untouched DEF SectionsInv
<1>5. QED
  BY <1>1, <1>3, <1>4 DEF SectionsInv

(* While a document is mapped its windows change place and are given their *)
(* results.                                                                *)
LEMMA MapSections ==
  ASSUME TypeInv, SectionsInv, NEW d \in Docs, NEW i \in Slots(d), NEW where, NEW r,
         phase[d] = "mapping", Goto(d, i, where),
         UNCHANGED result \/ result' = [result EXCEPT ![d][i] = r],
         UNCHANGED <<phase, content>>
  PROVE  SectionsInv'
<1>1. /\ DOMAIN result' = Docs /\ DOMAIN result'[d] = DOMAIN result[d]
      /\ \A e \in Docs : e # d => result'[e] = result[e] /\ place'[e] = place[e]
  BY DEF Goto, SectionsInv, TypeInv
<1>2. \A n \in Sections : place'[d][n] = place[d][n]
  <2>1. \A n \in Sections : n # i
    BY WindowsAssumption
  <2>2. place'[d] = [place[d] EXCEPT ![i] = where]
    BY DEF Goto, TypeInv
  <2>3. QED
    BY <2>1, <2>2 DEF TypeInv, Calls
<1>3. SectionsOf(d)'
  BY <1>1, <1>2 DEF SectionsInv, SectionsOf, At
<1>4. \A e \in Docs : e # d => SectionsOf(e)'
  BY <1>1, Untouched DEF SectionsInv
<1>5. QED
  BY <1>1, <1>3, <1>4 DEF SectionsInv

(* While it is reduced its sections change place and are given a content.  *)
LEMMA ReduceSections ==
  ASSUME TypeInv, SectionsInv, NEW d \in Docs, NEW n \in Sections, NEW where \in {"answered", "calling"},
         phase[d] = "reducing", Goto(d, n, where), place[d][n] # "answered",
         IF where = "answered" THEN content' = [content EXCEPT ![d][n] = Kept(Fragments(d, n))]
         ELSE UNCHANGED content,
         UNCHANGED <<phase, result>>
  PROVE  SectionsInv'
<1>1. /\ DOMAIN content' = Docs /\ DOMAIN content'[d] = DOMAIN content[d]
      /\ \A e \in Docs : e # d => content'[e] = content[e] /\ place'[e] = place[e]
  BY DEF Goto, SectionsInv, TypeInv
<1>2. place'[d] = [place[d] EXCEPT ![n] = where] /\ DOMAIN place[d] = Calls(d)
  BY DEF Goto, TypeInv
<1>3. \A i \in Slots(d) : place'[d][i] = place[d][i]
  <2>1. \A i \in Slots(d) : i # n
    BY WindowsAssumption
  <2>2. QED
    BY <1>2, <2>1 DEF Calls
<1>4. Answered(d)' = Answered(d) /\ \A m \in Sections : Giving(d, m)' = Giving(d, m)
  BY <1>3 DEF Answered, Giving, At
<1>5. \A m \in Sections : Fragments(d, m)' = Fragments(d, m)
  BY <1>4 DEF Fragments
<1>6. SectionsOf(d)
  BY DEF SectionsInv
<1>7. \A m \in Sections : m # n => place'[d][m] = place[d][m] /\ content'[d][m] = content[d][m]
  BY <1>2, <1>6 DEF SectionsInv, SectionsOf, Calls
<1>8. /\ place'[d][n] = where
      /\ where = "answered" => content'[d][n] = Kept(Fragments(d, n))
      /\ where = "calling" => content'[d][n] = content[d][n]
  BY <1>2, <1>6 DEF SectionsInv, SectionsOf, Calls
<1>9. ASSUME NEW m \in Sections
      PROVE  content'[d][m] = IF At(d, m, "answered")' THEN Kept(Fragments(d, m)') ELSE <<>>
  <2>1. content[d][m] = IF At(d, m, "answered") THEN Kept(Fragments(d, m)) ELSE <<>>
    BY <1>6 DEF SectionsOf, Made
  <2>2. Fragments(d, m)' = Fragments(d, m)
    BY <1>5
  <2>3. CASE m # n
    BY <1>7, <2>1, <2>2, <2>3 DEF At
  <2>4. CASE m = n
    BY <1>8, <2>1, <2>2, <2>4 DEF At
  <2>5. QED
    BY <2>3, <2>4
<1>10. SectionsOf(d)'
  <2>1. Made(d)'
    BY <1>9 DEF Made, Kept
  <2>2. QED
    BY <1>1, <1>6, <2>1 DEF SectionsOf
<1>11. \A e \in Docs : e # d => SectionsOf(e)'
  BY <1>1, Untouched DEF SectionsInv
<1>12. QED
  BY <1>1, <1>10, <1>11 DEF SectionsInv

(* A call that fails is a window's while the document is mapped, and a     *)
(* section's failure ends the run.                                         *)
LEMMA FailingSections ==
  ASSUME Inv, SectionsInv, NEW d \in Docs, NEW s \in Calls(d), At(d, s, "calling"), Failing(d, s)
  PROVE  SectionsInv'
<1>1. CASE s \in Sections
  <2>1. Forget({d}) /\ {d} \in SUBSET Docs
    BY <1>1 DEF Failing
  <2>2. QED
    BY <2>1, ForgetSections DEF Inv
<1>2. CASE s \notin Sections
  <2>1. s \in Slots(d) /\ Goto(d, s, "failed") /\ UNCHANGED <<phase, result, content>>
    BY <1>2 DEF Failing, EndCall, Calls
  <2>2. CASE phase[d] = "mapping"
    BY <2>1, <2>2, MapSections DEF Inv
  <2>3. CASE phase[d] # "mapping"
    <3>1. /\ phase[d] \in {"idle", "failed"}
      BY <2>1, <2>3 DEF Inv, TypeInv, Phases, Excused, At
    <3>2. /\ \A e \in Docs : e # d => place'[e] = place[e]
          /\ phase'[d] \in {"idle", "failed"}
      BY <2>1, <3>1 DEF Goto, Inv, TypeInv
    <3>3. SectionsOf(d)'
      BY <2>1, <3>2 DEF SectionsInv, SectionsOf
    <3>4. \A e \in Docs : e # d => SectionsOf(e)'
      BY <2>1, <3>2, Untouched DEF SectionsInv
    <3>5. QED
      BY <2>1, <3>3, <3>4 DEF SectionsInv
  <2>4. QED
    BY <2>2, <2>3
<1>3. QED
  BY <1>1, <1>2

(* The gather is behind, or the reduce.                                    *)
LEMMA EndsSections ==
  ASSUME TypeInv, SectionsInv, NEW d \in Docs, MapEnds(d) \/ Finish(d)
  PROVE  SectionsInv'
<1>1. CASE Forget({d})
  <2>1. {d} \in SUBSET Docs
    OBVIOUS
  <2>2. QED
    BY <1>1, <2>1, ForgetSections
<1>2. CASE ~Forget({d})
  <2>1. /\ UNCHANGED <<place, result, content>>
        /\ \/ phase[d] = "mapping" /\ phase' = [phase EXCEPT ![d] = "reducing"]
           \/ /\ phase[d] = "reducing" /\ phase' = [phase EXCEPT ![d] = "done"]
              /\ \A n \in Found(d) : At(d, n, "answered")
    BY <1>2 DEF MapEnds, Finish
  <2>2. SectionsOf(d)
    BY DEF SectionsInv
  <2>3. /\ Made(d)' = Made(d) /\ Found(d)' = Found(d)
        /\ \A n \in Sections : At(d, n, "answered")' = At(d, n, "answered")
    <3>1. Answered(d)' = Answered(d) /\ \A n \in Sections : Giving(d, n)' = Giving(d, n)
      BY <2>1 DEF Answered, Giving, At
    <3>2. \A n \in Sections : Fragments(d, n)' = Fragments(d, n)
      BY <3>1 DEF Fragments
    <3>3. QED
      BY <2>1, <3>2 DEF Made, Found, At
  <2>4. Found(d) \subseteq Sections
    BY DEF Found
  <2>5. SectionsOf(d)'
    <3>1. CASE phase[d] = "mapping"
      <4>1. phase'[d] = "reducing"
        BY <2>1, <3>1 DEF TypeInv
      <4>2. Made(d)
        BY <2>2, <3>1 DEF SectionsOf, Made, At
      <4>3. QED
        BY <2>1, <2>2, <2>3, <4>1, <4>2 DEF SectionsOf
    <3>2. CASE phase[d] # "mapping"
      <4>1. phase'[d] = "done" /\ phase[d] = "reducing" /\ \A n \in Found(d) : At(d, n, "answered")
        BY <2>1, <3>2 DEF TypeInv
      <4>2. QED
        BY <2>1, <2>2, <2>3, <2>4, <4>1 DEF SectionsOf
    <3>3. QED
      BY <3>1, <3>2
  <2>6. \A e \in Docs : e # d => phase'[e] = phase[e]
    BY <2>1 DEF TypeInv
  <2>7. \A e \in Docs : e # d => SectionsOf(e)'
    BY <2>1, <2>6, Untouched DEF SectionsInv
  <2>8. QED
    BY <2>1, <2>5, <2>7 DEF SectionsInv
<1>3. QED
  BY <1>1, <1>2

(* Every step of a document's tasks keeps the sections.                    *)
LEMMA WorkSections == ASSUME Inv, SectionsInv, NEW d \in Docs, Work(d) PROVE SectionsInv'
<1>1. ASSUME NEW i \in Slots(d), SkipWindow(d, i) \/ UseCached(d, i) \/ CallWindow(d, i)
      PROVE  SectionsInv'
  <2>1. phase[d] = "mapping" /\ UNCHANGED <<phase, content>>
    BY <1>1 DEF SkipWindow, UseCached, CallWindow, Admitted
  <2>2. PICK where : Goto(d, i, where)
    BY <1>1 DEF SkipWindow, UseCached, CallWindow, StartCall
  <2>3. PICK r : UNCHANGED result \/ result' = [result EXCEPT ![d][i] = r]
    BY <1>1 DEF SkipWindow, UseCached, CallWindow
  <2>4. QED
    BY <2>1, <2>2, <2>3, MapSections DEF Inv
<1>2. ASSUME NEW i \in Slots(d), NEW answer \in Answers, AnswerWindow(d, i, answer)
      PROVE  SectionsInv'
  <2>1. /\ phase[d] = "mapping" /\ Goto(d, i, "answered") /\ UNCHANGED <<phase, content>>
        /\ result' = [result EXCEPT ![d][i] = answer]
    BY <1>2 DEF AnswerWindow, EndCall
  <2>2. QED
    BY <2>1, MapSections DEF Inv
<1>3. ASSUME NEW s \in Slots(d) \cup Sections, CallFails(d, s) \/ Garbled(d, s) \/ PutFails(d, s)
      PROVE  SectionsInv'
  <2>1. At(d, s, "calling") /\ Failing(d, s) /\ s \in Calls(d)
    BY <1>3 DEF CallFails, Garbled, PutFails, Calls
  <2>2. QED
    BY <2>1, FailingSections
<1>4. ASSUME NEW n \in Sections, UseFragment(d, n) \/ AnswerReduce(d, n)
      PROVE  SectionsInv'
  <2>1. /\ phase[d] = "reducing" /\ Goto(d, n, "answered") /\ place[d][n] # "answered"
        /\ content' = [content EXCEPT ![d][n] = Kept(Fragments(d, n))]
        /\ UNCHANGED <<phase, result>>
    BY <1>4 DEF UseFragment, AnswerReduce, ReduceAlone, EndCall, At
  <2>2. QED
    BY <2>1, ReduceSections DEF Inv
<1>5. ASSUME NEW n \in Sections, CallReduce(d, n)
      PROVE  SectionsInv'
  <2>1. /\ phase[d] = "reducing" /\ Goto(d, n, "calling") /\ place[d][n] # "answered"
        /\ UNCHANGED <<phase, result, content>>
    BY <1>5 DEF CallReduce, ReduceAlone, StartCall, At
  <2>2. QED
    BY <2>1, ReduceSections DEF Inv
<1>6. CASE MapEnds(d) \/ Finish(d)
  BY <1>6, EndsSections DEF Inv
<1>7. QED
  BY <1>1, <1>2, <1>3, <1>4, <1>5, <1>6 DEF Work

LEMMA NextSections == Inv /\ SectionsInv /\ [Next]_vars => SectionsInv'
<1> SUFFICES ASSUME Inv, SectionsInv, [Next]_vars PROVE SectionsInv'
  OBVIOUS
<1>1. CASE UNCHANGED vars
  BY <1>1, ElsewhereSections DEF vars
<1>2. ASSUME NEW d \in Docs, Run(d) PROVE SectionsInv'
  BY <1>2, RunSections DEF Inv
<1>3. ASSUME NEW d \in Docs, Work(d) PROVE SectionsInv'
  BY <1>3, WorkSections
<1>4. ASSUME NEW d \in Docs, NEW s \in Slots(d) \cup Sections, Retry(d, s) PROVE SectionsInv'
  BY <1>4, ElsewhereSections DEF Retry
<1>5. ASSUME NEW k \in CacheKeys, Damage(k) PROVE SectionsInv'
  BY <1>5, ElsewhereSections DEF Damage
<1>6. CASE Crash \/ \E d \in Docs : \E i \in Slots(d) : DiesUnstored(d, i)
  <2>1. PICK docs \in SUBSET Docs : Forget(docs)
    BY <1>6 DEF Crash, DiesUnstored
  <2>2. QED
    BY <2>1, ForgetSections DEF Inv
<1>7. CASE Quiet
  BY <1>7, ElsewhereSections DEF Quiet, vars
<1>8. QED
  BY <1>1, <1>2, <1>3, <1>4, <1>5, <1>6, <1>7 DEF Next

(* The windows' numbers, of which the fragments are some.                  *)
LEMMA SlotsInOrder ==
  ASSUME NEW d \in Docs
  PROVE  [i \in Slots(d) |-> i] \in Seq(Slots(d))
<1>1. Pages[d] \in Seq(Page) /\ Windows[d] = Chunked(Pages[d])
  BY ExtractorAssumption DEF Windows
<1>2. Windows[d] \in Seq(Seq(Page))
  BY <1>1, ChunkedWhole
<1>3. PICK n \in Nat : Slots(d) = 1..n
  BY <1>2 DEF Slots
<1>4. QED
  BY <1>3

(* "Every page is seen" and "never partial results" (extractor.py), for    *)
(* any pages, limits, answers and faults: packing loses no page that is    *)
(* not blank, and a result's sections rest on all the windows that gave    *)
(* them something, in order, as far as a reduce call takes them.           *)
THEOREM NeverPartial == Spec => []NoPartialResult
<1>1. Inv /\ SectionsInv => NoPartialResult
  <2> SUFFICES ASSUME Inv, SectionsInv, NEW d \in Docs, phase[d] = "done"
               PROVE  /\ FlattenSeq(Windows[d]) = Among(Pages[d], {page \in Range(Pages[d]) : page.chars > 0})
                      /\ \A i \in Slots(d) : At(d, i, "answered")
                      /\ \A n \in Sections :
                           LET frags == Among([i \in Slots(d) |-> i], Giving(d, n))
                           IN IF Joined(7, [k \in DOMAIN frags |-> FragmentChars]) <= ReduceChars
                              THEN content[d][n] = frags ELSE IsPrefix(content[d][n], frags)
    BY DEF NoPartialResult
  <2>1. FlattenSeq(Windows[d]) = Among(Pages[d], {page \in Range(Pages[d]) : page.chars > 0})
    BY ExtractorAssumption, ChunkedWhole DEF Windows
  <2>2. \A i \in Slots(d) : At(d, i, "answered")
    BY DEF Inv, Excused
  <2>3. ASSUME NEW n \in Sections
        PROVE  LET frags == Among([i \in Slots(d) |-> i], Giving(d, n))
               IN IF Joined(7, [k \in DOMAIN frags |-> FragmentChars]) <= ReduceChars
                  THEN content[d][n] = frags ELSE IsPrefix(content[d][n], frags)
    <3> DEFINE frags == Among([i \in Slots(d) |-> i], Giving(d, n))
    <3>1. Answered(d) \cap Giving(d, n) = Giving(d, n)
      BY <2>2 DEF Answered, Giving
    <3>2. Fragments(d, n) = frags
      BY <3>1 DEF Fragments
    <3>3. frags \in Seq(Slots(d))
      <4> DEFINE numbers == [i \in Slots(d) |-> i]
      <4>1. numbers \in Seq(Slots(d))
        BY SlotsInOrder
      <4> HIDE DEF numbers
      <4>2. PICK kept : AmongOf(kept, numbers, Giving(d, n), Seq(Slots(d)))
        BY <4>1, AmongDef
      <4>3. Among(numbers, Giving(d, n)) \in Seq(Slots(d))
        BY <4>1, <4>2 DEF AmongOf
      <4>4. QED
        BY <4>3 DEF numbers
    <3>4. content[d][n] = Kept(frags)
      <4>1. content[d][n] = IF At(d, n, "answered") THEN Kept(frags) ELSE <<>>
        BY <3>2 DEF SectionsInv, SectionsOf, Made
      <4>2. ~At(d, n, "answered") => frags = <<>>
        BY <3>2 DEF SectionsInv, SectionsOf, Found
      <4>3. Kept(<<>>) = <<>>
        BY DEF Kept
      <4>4. QED
        BY <4>1, <4>2, <4>3
    <3> HIDE DEF frags
    <3>5. Joined(7, [k \in DOMAIN frags |-> FragmentChars]) <= ReduceChars => Kept(frags) = frags
      BY <3>3, KeptWhole
    <3>6. IsPrefix(Kept(frags), frags)
      BY <3>3, KeptPrefix
    <3>7. IF Joined(7, [k \in DOMAIN frags |-> FragmentChars]) <= ReduceChars
          THEN content[d][n] = frags ELSE IsPrefix(content[d][n], frags)
      BY <3>4, <3>5, <3>6
    <3>8. QED
      BY <3>7 DEF frags
  <2>4. QED
    BY <2>1, <2>2, <2>3
<1>2. QED
  BY <1>1, InitSections, NextSections, Invariance, PTL DEF Spec
=============================================================================
