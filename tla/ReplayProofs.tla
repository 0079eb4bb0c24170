---------------------------- MODULE ReplayProofs ----------------------------
(***************************************************************************)
(* Proofs about Replay and Wire, for any tools, files, replies and bounds. *)
(*                                                                         *)
(* NoOvertaking speaks of single calls.  What keeps it is a sum: as long   *)
(* as nobody else changes a file, its version is the one it had when the   *)
(* batch began and one more for each write of the batch that is over       *)
(* (VersionsAdd).  A write that ends reads that sum, and it is what the    *)
(* write is to see because the calls before it are over and those behind   *)
(* it have not begun (OneByOne), or because there is no write in the batch *)
(* (ReadsAlone), which is what deciding on all real calls of a reply is    *)
(* for.                                                                    *)
(*                                                                         *)
(* NamedResults is about ids that are given out again.  Every id carries   *)
(* the tool it was given out for (SoundCalls), and no tool turn stands     *)
(* without a call turn of its id before it (Called): in the live history,  *)
(* and in what Rebuilt makes of any log of such events, which goes through *)
(* the calls of a turn, the turns of a round and the rounds.               *)
(*                                                                         *)
(* RebuiltHistory is about what the log is rebuilt to at every moment, not *)
(* only between rounds (LiveInv).  A log is whole but for the calls that   *)
(* wait for their results (Whole), and of a whole log the loop that        *)
(* rebuilds serves each call the result that answered it (CallsTold): the  *)
(* results come in the order of their calls, so that those taken so far    *)
(* are those of the calls before.  As a log grows by an event, rebuilding  *)
(* it differs in the newest round only (AddQuery, AddSteer), and there in  *)
(* the newest turn only (AddTurn); a turn in the works is a chain of       *)
(* answers on what the log was rebuilt to when the turn began (Turning,    *)
(* Chain), which is the turn rebuilt once its last call is answered        *)
(* (Closed).  Beside it the history of this process grows turn by turn,    *)
(* and what is known to become of it (Recalled) grows alike (RecalledAdds, *)
(* RetoldKinds); a resumed process starts where the two agree.             *)
(*                                                                         *)
(* TruncationBounded and RepliesEchoed speak of operators without state,   *)
(* for any limit and any response: sums and loops (TotalAdds, DictFits,    *)
(* PartsKept) and what they make of one result and one reply.              *)
(***************************************************************************)
EXTENDS Wire, FiniteSetTheorems, SequenceTheorems, WellFoundedInduction, TLAPS

(* What a reply may hold, and the shape of the batch that is made of it.   *)
Asking == UNION {Range(calls) : calls \in Replies}
ToolNames == {c.tool : c \in Asking}
RealCalls == [id : ToolNames \X Nat, tool : ToolNames, file : {c.file : c \in Asking}]

HasFile(call) == call.tool \in Tools => call.file \in Files

Shaped ==
  /\ world \in [Files -> Nat] /\ before \in [Files -> Nat \cup {Miss}]
  /\ minted \in Nat /\ pos \in Nat \ {0} /\ told \in Nat
  /\ reply \in Seq(RealCalls) /\ \A k \in DOMAIN reply : HasFile(reply[k])
  /\ batch \in Seq(RealCalls) /\ \A k \in DOMAIN batch : HasFile(batch[k])
  /\ at \in [DOMAIN batch -> {"waiting", "running", "done"}]
  /\ DOMAIN outcome = DOMAIN batch

(* The finished writes of the batch to a file.                             *)
Wrote(f) ==
  {j \in DOMAIN batch : batch[j].file = f /\ batch[j].tool \in Writers
                        /\ at[j] = "done" /\ ~outcome[j].errored}
WroteBy(k) == {j \in 1..k : batch[j].file = batch[k].file /\ batch[j].tool \in Writers
                            /\ at[j] = "done" /\ ~outcome[j].errored}

VersionsAdd ==
  batch # <<>> =>
    \A f \in Files : before[f] # Miss => world[f] = before[f] + Cardinality(Wrote(f))

ReadsAlone == parallel => \A k \in DOMAIN batch : batch[k].tool \in Readers

OneByOne ==
  ~parallel => \A j, k \in DOMAIN batch : j < k /\ at[k] # "waiting" => at[j] = "done"

RanKnown == \A k \in DOMAIN batch : at[k] = "running" => batch[k].tool \in Tools

BatchInv == Shaped /\ VersionsAdd /\ ReadsAlone /\ OneByOne /\ RanKnown /\ NoOvertaking

-----------------------------------------------------------------------------
(* What is known to the shape of a batch and kept by every step.           *)

LEMMA InitShaped == Init => Shaped
  BY ReplayAssumption DEF Init, BatchInit, Shaped, RealCalls

(* A reply is well formed as the adapter hands it over.                    *)
LEMMA AskedWell ==
  ASSUME NEW calls \in Replies, minted \in Nat,
         NEW asked, asked = [k \in DOMAIN calls |-> [id |-> SynthId(calls[k].tool, minted + k),
                                                     tool |-> calls[k].tool, file |-> calls[k].file]]
  PROVE  asked \in Seq(RealCalls) /\ \A k \in DOMAIN asked : HasFile(asked[k])
<1>1. calls \in Seq(Range(calls)) /\ \A c \in Range(calls) : HasFile(c)
  BY ReplayAssumption DEF HasFile
<1>2. DOMAIN calls = 1..Len(calls) /\ Len(calls) \in Nat
  BY <1>1
<1>3. ASSUME NEW k \in DOMAIN calls
      PROVE  /\ calls[k] \in Asking /\ HasFile(calls[k])
             /\ SynthId(calls[k].tool, minted + k) \in ToolNames \X Nat
  <2>1. calls[k] \in Asking
    BY DEF Asking, Range
  <2>2. HasFile(calls[k])
    BY <1>1 DEF Range
  <2>3. calls[k].tool \in ToolNames /\ minted + k \in Nat
    BY <1>2, <2>1 DEF ToolNames
  <2>4. QED
    BY <2>1, <2>2, <2>3 DEF SynthId
<1>4. ASSUME NEW k \in DOMAIN calls PROVE asked[k] \in RealCalls /\ HasFile(asked[k])
  <2>1. /\ calls[k].tool \in ToolNames /\ calls[k].file \in {c.file : c \in Asking}
        /\ SynthId(calls[k].tool, minted + k) \in ToolNames \X Nat
    BY <1>3 DEF ToolNames
  <2>2. asked[k] \in RealCalls
    BY <2>1 DEF RealCalls
  <2>3. QED
    BY <2>2, <1>3 DEF HasFile
<1>5. asked \in Seq(RealCalls)
  BY <1>2, <1>4
<1>6. QED
  BY <1>4, <1>5

(* As many calls as the group has stand in a row from the current one, so  *)
(* that the batch is the group.                                            *)
LEMMA GroupIsNext ==
  ASSUME Shaped
  PROVE  \A k \in pos..(pos + Cardinality(Group) - 1) : k \in Group
<1>1. SUFFICES ASSUME NEW k \in pos..(pos + Cardinality(Group) - 1), k \notin Group PROVE FALSE
  OBVIOUS
<1>0. Cardinality(Group) \in Nat
  <2>1. Len(reply) \in Nat /\ Group \subseteq 1..Len(reply)
    BY DEF Shaped, Group
  <2>2. IsFiniteSet(1..Len(reply))
    BY <2>1, FS_Interval
  <2>3. QED
    BY <2>1, <2>2, FS_Subset, FS_CardinalityType
<1>2. pos \in Nat /\ k \in Nat /\ DOMAIN reply = 1..Len(reply) /\ Len(reply) \in Nat /\ pos > 0
  BY DEF Shaped
<1>3. Group \subseteq pos..(k - 1)
  <2>1. SUFFICES ASSUME NEW g \in Group, g >= k PROVE FALSE
    BY <1>2, SMTT(30) DEF Group
  <2>2. g \in DOMAIN reply /\ \A j \in pos..g : ~Intercepted(reply[j])
    BY DEF Group
  <2>3. k \in DOMAIN reply /\ k >= pos /\ \A j \in pos..k : j \in pos..g
    BY <1>2, <2>1, <2>2
  <2>4. k \in Group
    BY <2>2, <2>3 DEF Group
  <2>5. QED
    BY <2>4, <1>1
<1>4. IsFiniteSet(pos..(k - 1)) /\ Cardinality(pos..(k - 1)) = k - pos
  <2>1. pos \in Int /\ k - 1 \in Int /\ k >= pos
    BY <1>2
  <2>2. /\ IsFiniteSet(pos..(k - 1))
        /\ Cardinality(pos..(k - 1)) = IF pos > k - 1 THEN 0 ELSE (k - 1) - pos + 1
    BY <2>1, FS_Interval
  <2>3. QED
    BY <2>1, <2>2
<1>5. Cardinality(Group) <= k - pos
  BY <1>3, <1>4, FS_Subset, ZenonT(30)
<1>6. QED
  BY <1>0, <1>2, <1>5

LEMMA CutOut ==
  ASSUME Shaped, told = Cardinality(Group),
         NEW calls, calls = SubSeq(reply, pos, pos + told - 1)
  PROVE  /\ calls \in Seq(RealCalls)
         /\ \A k \in DOMAIN calls :
              calls[k] \in Range(reply) /\ ~Intercepted(calls[k]) /\ HasFile(calls[k])
<1>1. \A k \in pos..(pos + told - 1) : k \in DOMAIN reply /\ ~Intercepted(reply[k])
  <2>1. SUFFICES ASSUME NEW k \in pos..(pos + told - 1) PROVE k \in DOMAIN reply /\ ~Intercepted(reply[k])
    OBVIOUS
  <2>2. k \in Group
    BY GroupIsNext
  <2>3. k \in pos..k
    BY DEF Shaped
  <2>4. QED
    BY <2>2, <2>3 DEF Group
<1>2. pos \in Int /\ pos + told - 1 \in Int /\ \A k \in pos..(pos + told - 1) : reply[k] \in RealCalls
  BY <1>1 DEF Shaped
<1>3. /\ calls \in Seq(RealCalls)
      /\ Len(calls) = IF pos <= pos + told - 1 THEN (pos + told - 1) - pos + 1 ELSE 0
      /\ \A i \in 1..(pos + told - 1) - pos + 1 : calls[i] = reply[pos + i - 1]
  BY <1>2, SubSeqProperties
<1>4. ASSUME NEW k \in DOMAIN calls
      PROVE  calls[k] \in Range(reply) /\ ~Intercepted(calls[k]) /\ HasFile(calls[k])
  <2>1. pos + k - 1 \in pos..(pos + told - 1) /\ calls[k] = reply[pos + k - 1]
    BY <1>3, SMTT(30) DEF Shaped
  <2>2. QED
    BY <2>1, <1>1 DEF Range, Shaped
<1>5. QED
  BY <1>3, <1>4

LEMMA EmptyWell == <<>> \in Seq(RealCalls) /\ DOMAIN <<>> = {}
  OBVIOUS

LEMMA DropShaped ==
  ASSUME Shaped, DropBatch, UNCHANGED <<world, minted>>,
         pos' \in Nat \ {0}, told' \in Nat,
         reply' = <<>> \/ reply' = reply
  PROVE  Shaped'
<1>1. /\ batch' = <<>> /\ at' = <<>> /\ outcome' = <<>> /\ before' \in [Files -> Nat \cup {Miss}]
  BY DEF DropBatch
<1>2. batch' \in Seq(RealCalls) /\ DOMAIN batch' = {} /\ DOMAIN at' = {} /\ DOMAIN outcome' = {}
  BY <1>1
<1>3. at' \in [DOMAIN batch' -> {"waiting", "running", "done"}]
  BY <1>1, <1>2
<1>4. reply' \in Seq(RealCalls) /\ \A k \in DOMAIN reply' : HasFile(reply'[k])
  BY EmptyWell DEF Shaped
<1>5. QED
  BY <1>1, <1>2, <1>3, <1>4 DEF Shaped

LEMMA ShapeStep == ASSUME Shaped, [Next]_vars PROVE Shaped'
<1>1. CASE UNCHANGED <<world, before, minted, pos, told, reply, batch, at, outcome>>
  BY <1>1 DEF Shaped
<1>2. CASE Ask \/ Accept \/ Steer \/ Drain \/ AnnouncePseudo \/ Quiet \/ UNCHANGED vars
  BY <1>1, <1>2 DEF Ask, Accept, Steer, Drain, AnnouncePseudo, Quiet, vars, batchVars, loopVars
<1>3. CASE ModelAnswers \/ ModelFails \/ AnswerPseudo \/ EndTurn \/ AnnounceCall
  <2>1. UNCHANGED <<world, before, minted, batch, at, outcome>>
    BY <1>3 DEF ModelAnswers, ModelFails, AnswerPseudo, EndTurn, AnnounceCall, batchVars
  <2>2. /\ reply' = <<>> \/ reply' = reply
        /\ pos' \in Nat \ {0} /\ told' \in Nat
    BY <1>3 DEF ModelAnswers, ModelFails, AnswerPseudo, EndTurn, AnnounceCall, Clear, Shaped
  <2>3. reply' \in Seq(RealCalls) /\ \A k \in DOMAIN reply' : HasFile(reply'[k])
    BY <2>2, EmptyWell DEF Shaped
  <2>4. QED
    BY <2>1, <2>2, <2>3 DEF Shaped
<1>4. ASSUME NEW calls \in Replies, ModelReplies(calls) PROVE Shaped'
  <2>1. reply' \in Seq(RealCalls) /\ \A k \in DOMAIN reply' : HasFile(reply'[k])
    BY <1>4, AskedWell DEF ModelReplies, Shaped
  <2>2. UNCHANGED <<world, before, batch, at, outcome>> /\ pos' = 1 /\ told' = 0
    BY <1>4 DEF ModelReplies, batchVars
  <2>3. minted' \in Nat
    <3>1. calls \in Seq(Range(calls))
      BY ReplayAssumption
    <3>2. Len(calls) \in Nat
      BY <3>1
    <3>3. QED
      BY <1>4, <3>2 DEF ModelReplies, Shaped
  <2>4. QED
    BY <2>1, <2>2, <2>3 DEF Shaped
<1>5. CASE Execute
  <2>1. /\ batch' = SubSeq(reply, pos, pos + told - 1) /\ told = Cardinality(Group)
        /\ before' = world /\ at' = [k \in DOMAIN batch' |-> "waiting"]
        /\ outcome' = [k \in DOMAIN batch' |-> Pending]
        /\ UNCHANGED <<world, minted, pos, told, reply>>
    BY <1>5 DEF Execute, StartBatch
  <2>2. batch' \in Seq(RealCalls) /\ \A k \in DOMAIN batch' : HasFile(batch'[k])
    BY <2>1, CutOut
  <2>3. at' \in [DOMAIN batch' -> {"waiting", "running", "done"}] /\ DOMAIN outcome' = DOMAIN batch'
    BY <2>1
  <2>4. QED
    BY <2>1, <2>2, <2>3 DEF Shaped
<1>6. CASE RunBatch
  <2>1. UNCHANGED <<before, batch, minted, pos, told, reply>>
    BY <1>6 DEF RunBatch, BatchStep, Refuse, Hit, Begin, Succeed, Fail, loopVars
  <2>2. PICK k \in DOMAIN batch : Refuse(k) \/ Hit(k) \/ Begin(k) \/ Succeed(k) \/ Fail(k)
    BY <1>6 DEF RunBatch, BatchStep
  <2>3. /\ at' \in [DOMAIN batch -> {"waiting", "running", "done"}]
        /\ DOMAIN outcome' = DOMAIN batch
    BY <2>2 DEF Shaped, Refuse, Hit, Begin, Succeed, Fail, Done
  <2>4. world' \in [Files -> Nat]
    <3>1. CASE Succeed(k)
      <4>1. PICK version : world' = [world EXCEPT ![batch[k].file] = version] /\
                           version \in {world[batch[k].file], world[batch[k].file] + 1}
        BY <3>1 DEF Succeed
      <4>2. batch[k].file \in Files => version \in Nat
        BY <4>1 DEF Shaped
      <4>3. QED
        BY <4>1, <4>2 DEF Shaped
    <3>2. CASE ~Succeed(k)
      BY <2>2, <3>2 DEF Refuse, Hit, Begin, Fail, Shaped
    <3>3. QED
      BY <3>1, <3>2
  <2>5. QED
    BY <2>1, <2>3, <2>4 DEF Shaped
<1>7. CASE Deliver
  <2>1. /\ UNCHANGED <<world, minted, reply>> /\ pos' = pos + 1 /\ told' = told - 1 /\ told > 0
        /\ DropBatch \/ UNCHANGED batchVars
    BY <1>7 DEF Deliver, batchVars
  <2>2. pos' \in Nat \ {0} /\ told' \in Nat
    BY <2>1 DEF Shaped
  <2>3. CASE DropBatch
    BY <2>1, <2>2, <2>3, DropShaped
  <2>4. CASE UNCHANGED batchVars
    BY <2>1, <2>2, <2>4 DEF Shaped, batchVars
  <2>5. QED
    BY <2>1, <2>3, <2>4
<1>8. CASE Cancel
  BY <1>8, DropShaped DEF Cancel, Clear
<1>9. CASE Resume
  BY <1>9 DEF Resume, Shaped
<1>10. CASE EditFile
  <2>1. PICK f \in Files : Edit(f)
    BY <1>10 DEF EditFile
  <2>2. UNCHANGED <<minted, pos, told, reply, batch, at, outcome>>
    BY <1>10 DEF EditFile, Edit, loopVars
  <2>3. world' \in [Files -> Nat] /\ before' \in [Files -> Nat \cup {Miss}]
    BY <2>1 DEF Edit, Shaped
  <2>4. QED
    BY <2>2, <2>3 DEF Shaped
<1>11. QED
  BY <1>2, <1>3, <1>4, <1>5, <1>6, <1>7, <1>8, <1>9, <1>10 DEF Next

-----------------------------------------------------------------------------
(* The sum.                                                                *)

LEMMA BatchDomain == Shaped => DOMAIN batch = 1..Len(batch) /\ Len(batch) \in Nat
  BY DEF Shaped

LEMMA WroteCounts ==
  ASSUME Shaped, NEW f
  PROVE  /\ IsFiniteSet(Wrote(f)) /\ Cardinality(Wrote(f)) \in Nat
         /\ Wrote(f) \subseteq 1..Len(batch)
<1>1. Len(batch) \in Nat /\ DOMAIN batch = 1..Len(batch)
  BY DEF Shaped
<1>2. IsFiniteSet(1..Len(batch))
  BY <1>1, FS_Interval
<1>3. Wrote(f) \subseteq 1..Len(batch)
  BY <1>1 DEF Wrote
<1>4. QED
  BY <1>2, <1>3, FS_Subset, FS_CardinalityType

(* Nothing of the batch moves: the loop's own steps.                       *)
LEMMA StillKept ==
  ASSUME BatchInv, [Next]_vars, UNCHANGED <<world, before, batch, parallel, at, outcome>>
  PROVE  BatchInv'
<1>1. Shaped'
  BY ShapeStep DEF BatchInv
<1>2. VersionsAdd' /\ ReadsAlone' /\ OneByOne' /\ RanKnown' /\ NoOvertaking'
  BY DEF BatchInv, VersionsAdd, Wrote, ReadsAlone, OneByOne, RanKnown, NoOvertaking
<1>3. QED
  BY <1>1, <1>2 DEF BatchInv

LEMMA DropKept == ASSUME BatchInv, [Next]_vars, DropBatch PROVE BatchInv'
<1>1. batch' = <<>> /\ DOMAIN batch' = {} /\ parallel' = FALSE
  BY DEF DropBatch
<1>2. Shaped'
  BY ShapeStep DEF BatchInv
<1>3. VersionsAdd' /\ ReadsAlone' /\ OneByOne' /\ RanKnown' /\ NoOvertaking'
  BY <1>1 DEF VersionsAdd, ReadsAlone, OneByOne, RanKnown, NoOvertaking
<1>4. QED
  BY <1>2, <1>3 DEF BatchInv

(* A batch in which nothing has begun.                                     *)
LEMMA ExecuteKept == ASSUME BatchInv, [Next]_vars, Execute PROVE BatchInv'
<1>1. /\ batch' = SubSeq(reply, pos, pos + told - 1) /\ told = Cardinality(Group)
      /\ before' = world /\ world' = world /\ at' = [k \in DOMAIN batch' |-> "waiting"]
      /\ parallel' => AllReadonly({c \in Range(reply) : ~Intercepted(c)})
  BY DEF Execute, StartBatch
<1>2. Shaped'
  BY ShapeStep DEF BatchInv
<1>3. VersionsAdd'
  <2>1. SUFFICES ASSUME NEW f \in Files
                 PROVE  world'[f] = before'[f] + Cardinality(Wrote(f)')
    BY DEF VersionsAdd
  <2>2. Wrote(f)' = {}
    BY <1>1 DEF Wrote
  <2>3. Cardinality(Wrote(f)') = 0
    BY <2>2, FS_EmptySet
  <2>4. world'[f] = before'[f] /\ before'[f] \in Nat
    BY <1>1 DEF BatchInv, Shaped
  <2>5. QED
    BY <2>3, <2>4
<1>4. ReadsAlone'
  <2>1. SUFFICES ASSUME parallel', NEW k \in DOMAIN batch' PROVE batch'[k].tool \in Readers
    BY DEF ReadsAlone
  <2>2. batch'[k] \in {c \in Range(reply) : ~Intercepted(c)}
    BY <1>1, CutOut DEF BatchInv
  <2>3. QED
    BY <1>1, <2>1, <2>2 DEF AllReadonly, Readonly
<1>5. OneByOne' /\ RanKnown' /\ NoOvertaking'
  BY <1>1 DEF OneByOne, RanKnown, NoOvertaking
<1>6. QED
  BY <1>2, <1>3, <1>4, <1>5 DEF BatchInv

(* Somebody else changes a file: its sum is no longer asked for.           *)
LEMMA EditKept == ASSUME BatchInv, [Next]_vars, EditFile PROVE BatchInv'
<1>1. PICK f \in Files : Edit(f)
  BY DEF EditFile
<1>2. /\ world' = [world EXCEPT ![f] = @ + 1] /\ before' = [before EXCEPT ![f] = Miss]
      /\ UNCHANGED <<batch, parallel, at, outcome>>
  BY <1>1 DEF Edit
<1>3. Shaped'
  BY ShapeStep DEF BatchInv
<1>4. \A g \in Files : before'[g] # Miss => before'[g] = before[g] /\ world'[g] = world[g]
  BY <1>2 DEF BatchInv, Shaped
<1>5. VersionsAdd'
  <2>1. \A g : Wrote(g)' = Wrote(g)
    BY <1>2 DEF Wrote
  <2>2. QED
    BY <1>2, <1>4, <2>1 DEF BatchInv, VersionsAdd
<1>6. NoOvertaking'
  <2>1. SUFFICES ASSUME NEW k \in DOMAIN batch, at[k] = "done", ~outcome[k].hit, ~outcome[k].errored,
                        before'[batch[k].file] # Miss
                 PROVE  outcome[k].value = before'[batch[k].file] + Cardinality(WroteBy(k))
    BY <1>2 DEF NoOvertaking, WroteBy
  <2>2. before'[batch[k].file] = before[batch[k].file]
    BY <1>2, <2>1 DEF BatchInv, Shaped
  <2>3. QED
    BY <2>1, <2>2 DEF BatchInv, NoOvertaking, WroteBy
<1>7. ReadsAlone' /\ OneByOne' /\ RanKnown'
  BY <1>2 DEF BatchInv, ReadsAlone, OneByOne, RanKnown
<1>8. QED
  BY <1>3, <1>5, <1>6, <1>7 DEF BatchInv

-----------------------------------------------------------------------------
(* The steps of a batch.                                                   *)

(* A call that moves has those before it over, unless all are reads.       *)
LEMMA OrderKept ==
  ASSUME BatchInv, NEW k \in DOMAIN batch, NEW place \in {"running", "done"},
         Ready(k) \/ at[k] = "running",
         at' = [at EXCEPT ![k] = place], UNCHANGED <<batch, parallel>>
  PROVE  OneByOne'
<1>1. SUFFICES ASSUME ~parallel, NEW i \in DOMAIN batch, NEW j \in DOMAIN batch, i < j,
                      at'[j] # "waiting"
               PROVE  at'[i] = "done"
  BY DEF OneByOne
<1>2. at[i] = "done" => at'[i] = "done"
  <2>1. at[k] # "done"
    BY DEF Ready
  <2>2. QED
    BY <2>1 DEF BatchInv, Shaped
<1>3. CASE j = k
  <2>1. CASE Ready(k)
    <3>1. DOMAIN batch = 1..Len(batch) /\ Len(batch) \in Nat
      BY BatchDomain DEF BatchInv
    <3>2. i \in 1..(k - 1)
      BY <1>1, <1>3, <3>1
    <3>3. QED
      BY <1>1, <1>2, <2>1, <3>2 DEF Ready
  <2>2. CASE at[k] = "running"
    BY <1>1, <1>2, <1>3, <2>2 DEF BatchInv, OneByOne
  <2>3. QED
    BY <2>1, <2>2
<1>4. CASE j # k
  BY <1>1, <1>2, <1>4 DEF BatchInv, OneByOne, Shaped
<1>5. QED
  BY <1>3, <1>4

(* A call that is refused, fails, is a hit or begins has written nothing.  *)
LEMMA UnwrittenKept ==
  ASSUME BatchInv, [Next]_vars, NEW k \in DOMAIN batch,
         Refuse(k) \/ Hit(k) \/ Begin(k) \/ Fail(k)
  PROVE  BatchInv'
<1>1. /\ UNCHANGED <<world, before, batch, parallel>>
      /\ at[k] # "done" /\ (Ready(k) \/ at[k] = "running")
      /\ \E place \in {"running", "done"} : at' = [at EXCEPT ![k] = place]
  BY DEF Refuse, Hit, Begin, Fail, Ready, Done
<1>2. Shaped'
  BY ShapeStep DEF BatchInv
<1>3. \A j \in DOMAIN batch : j # k => at'[j] = at[j] /\ outcome'[j] = outcome[j]
  BY DEF Refuse, Hit, Begin, Fail, Done, BatchInv, Shaped
<1>4. at'[k] = "done" => outcome'[k].errored \/ (outcome'[k].hit /\ batch[k].tool \notin Writers)
  <2>1. CASE Refuse(k) \/ Fail(k)
    BY <2>1 DEF Refuse, Fail, Done, Result, BatchInv, Shaped
  <2>2. CASE Hit(k)
    BY <2>2, ToolAssumption DEF Hit, Done, Result, Readonly, BatchInv, Shaped
  <2>3. CASE Begin(k)
    BY <2>3 DEF Begin, BatchInv, Shaped
  <2>4. QED
    BY <2>1, <2>2, <2>3
<1>5. \A f : Wrote(f)' = Wrote(f)
  BY <1>1, <1>3, <1>4 DEF Wrote
<1>6. \A j \in DOMAIN batch : WroteBy(j)' = WroteBy(j)
  <2>1. SUFFICES ASSUME NEW j \in DOMAIN batch PROVE WroteBy(j)' = WroteBy(j)
    OBVIOUS
  <2>2. \A i \in 1..j : i \in DOMAIN batch
    BY DEF BatchInv, Shaped
  <2>3. QED
    BY <1>1, <1>3, <1>4, <2>2 DEF WroteBy
<1>7. VersionsAdd'
  BY <1>1, <1>5 DEF BatchInv, VersionsAdd
<1>8. NoOvertaking'
  <2>1. SUFFICES ASSUME NEW j \in DOMAIN batch, at'[j] = "done", ~outcome'[j].hit, ~outcome'[j].errored,
                        before[batch[j].file] # Miss
                 PROVE  outcome'[j].value = before[batch[j].file] + Cardinality(WroteBy(j)')
    BY <1>1 DEF NoOvertaking, WroteBy
  <2>2. j # k
    BY <1>4, <2>1
  <2>3. outcome[j].value = before[batch[j].file] + Cardinality(WroteBy(j))
    BY <1>3, <2>1, <2>2 DEF BatchInv, NoOvertaking, WroteBy
  <2>4. QED
    BY <1>3, <1>6, <2>2, <2>3
<1>9. RanKnown'
  <2>1. Begin(k) => batch[k].tool \in Tools
    BY DEF Begin, Known
  <2>2. ~Begin(k) => at'[k] = "done"
    BY DEF Refuse, Hit, Fail, Done, BatchInv, Shaped
  <2>3. QED
    BY <1>1, <1>3, <2>1, <2>2 DEF BatchInv, RanKnown
<1>10. ReadsAlone' /\ OneByOne'
  BY <1>1, OrderKept DEF BatchInv, ReadsAlone
<1>11. QED
  BY <1>2, <1>7, <1>8, <1>9, <1>10 DEF BatchInv

(* A call that succeeds sees the sum, and a write adds to it.              *)
LEMMA SucceedKept ==
  ASSUME BatchInv, [Next]_vars, NEW k \in DOMAIN batch, Succeed(k)
  PROVE  BatchInv'
<1>0. PICK file : file = batch[k].file
  OBVIOUS
<1> DEFINE writes == batch[k].tool \in Writers
           version == IF Readonly(batch[k]) THEN world[file] ELSE world[file] + 1
<1>1. /\ UNCHANGED <<before, batch, parallel>> /\ at[k] = "running"
      /\ at' = [at EXCEPT ![k] = "done"] /\ world' = [world EXCEPT ![file] = version]
      /\ outcome' = [outcome EXCEPT ![k] = Result(version, FALSE, FALSE)]
  BY <1>0 DEF Succeed, Done
<1>2. Shaped' /\ Shaped
  BY ShapeStep DEF BatchInv
<1>3. /\ file \in Files /\ world[file] \in Nat
      /\ version = IF writes THEN world[file] + 1 ELSE world[file]
  <2>1. batch[k].tool \in Tools
    BY <1>1 DEF BatchInv, RanKnown
  <2>2. file \in Files
    BY <1>0, <2>1, <1>2 DEF Shaped, HasFile
  <2>3. writes <=> ~Readonly(batch[k])
    BY <2>1, ToolAssumption DEF Tools, Readonly
  <2>4. QED
    BY <2>2, <2>3, <1>2 DEF Shaped
<1>4. \A j \in DOMAIN batch : j # k => at'[j] = at[j] /\ outcome'[j] = outcome[j]
  BY <1>1, <1>2 DEF Shaped
<1>5. at'[k] = "done" /\ outcome'[k] = Result(version, FALSE, FALSE)
  BY <1>1, <1>2 DEF Shaped
<1>6. ASSUME NEW f PROVE Wrote(f)' = IF writes /\ f = file THEN Wrote(f) \cup {k} ELSE Wrote(f)
  <2>1. k \notin Wrote(f) /\ Wrote(f) \subseteq DOMAIN batch
    BY <1>1 DEF Wrote
  <2>2. \A j \in DOMAIN batch : j # k => (j \in Wrote(f)' <=> j \in Wrote(f))
    BY <1>1, <1>4 DEF Wrote
  <2>3. k \in Wrote(f)' <=> writes /\ f = file
    BY <1>0, <1>1, <1>5 DEF Wrote, Result
  <2>4. Wrote(f)' \subseteq DOMAIN batch
    BY <1>1 DEF Wrote
  <2>5. QED
    BY <2>1, <2>2, <2>3, <2>4
<1>7. ASSUME NEW f
      PROVE  Cardinality(Wrote(f)') = Cardinality(Wrote(f)) + (IF writes /\ f = file THEN 1 ELSE 0)
  <2>1. IsFiniteSet(Wrote(f)) /\ Cardinality(Wrote(f)) \in Nat /\ k \notin Wrote(f)
    BY <1>1, <1>2, WroteCounts DEF Wrote
  <2>2. Cardinality(Wrote(f) \cup {k}) = Cardinality(Wrote(f)) + 1
    BY <2>1, FS_AddElement
  <2>3. CASE writes /\ f = file
    BY <2>2, <2>3, <1>6
  <2>4. CASE ~(writes /\ f = file)
    BY <2>1, <2>4, <1>6
  <2>5. QED
    BY <2>3, <2>4
<1>8. ASSUME NEW f \in Files, before[f] # Miss
      PROVE  world'[f] = before[f] + Cardinality(Wrote(f)')
  <2>1. world[f] = before[f] + Cardinality(Wrote(f))
    <3>1. batch # <<>>
      BY <1>2 DEF Shaped
    <3>2. QED
      BY <1>8, <3>1 DEF BatchInv, VersionsAdd
  <2>2. world[f] \in Nat /\ before[f] \in Nat /\ Cardinality(Wrote(f)) \in Nat
    BY <1>2, <1>8, WroteCounts DEF Shaped
  <2>3. CASE f = file /\ writes
    <3>1. world'[f] = world[f] + 1
      BY <2>3, <1>1, <1>2, <1>3 DEF Shaped
    <3>2. Cardinality(Wrote(f)') = Cardinality(Wrote(f)) + 1
      BY <2>3, <1>7
    <3>3. QED
      BY <2>1, <2>2, <3>1, <3>2
  <2>4. CASE ~(f = file /\ writes)
    <3>1. world'[f] = world[f]
      BY <2>4, <1>1, <1>2, <1>3 DEF Shaped
    <3>2. Wrote(f)' = Wrote(f)
      BY <2>4, <1>6
    <3>3. QED
      BY <2>1, <3>1, <3>2
  <2>5. QED
    BY <2>3, <2>4
<1>9. VersionsAdd'
  BY <1>1, <1>8 DEF VersionsAdd
<1>10. NoOvertaking'
  <2>1. SUFFICES ASSUME NEW j \in DOMAIN batch, at'[j] = "done", ~outcome'[j].hit, ~outcome'[j].errored,
                        before[batch[j].file] # Miss
                 PROVE  outcome'[j].value = before[batch[j].file] + Cardinality(WroteBy(j)')
    BY <1>1 DEF NoOvertaking, WroteBy
  <2>2. CASE j = k
    <3>1. WroteBy(k)' = Wrote(file)'
      <4>1. CASE parallel
        <5>1. \A i \in DOMAIN batch : batch[i].tool \notin Writers
          BY <4>1, ToolAssumption DEF BatchInv, ReadsAlone
        <5>2. \A i \in 1..k : i \in DOMAIN batch
          BY <1>2 DEF Shaped
        <5>3. WroteBy(k)' = {} /\ Wrote(file)' = {}
          BY <1>0, <1>1, <5>1, <5>2 DEF WroteBy, Wrote
        <5>4. QED
          BY <5>3
      <4>2. CASE ~parallel
        <5>1. \A i \in DOMAIN batch : i > k => at'[i] # "done"
          BY <1>1, <1>4, <1>2, <4>2 DEF BatchInv, OneByOne, Shaped
        <5>2. \A i \in DOMAIN batch : at'[i] = "done" => i \in 1..k
          BY <5>1, <1>2 DEF Shaped
        <5>3. \A i \in 1..k : i \in DOMAIN batch
          BY <1>2 DEF Shaped
        <5>4. QED
          BY <1>0, <1>1, <5>2, <5>3 DEF Wrote, WroteBy
      <4>3. QED
        BY <4>1, <4>2
    <3>2. outcome'[j].value = world'[file]
      BY <1>1, <1>2, <1>3, <1>5, <2>2 DEF Result, Shaped
    <3>3. world'[file] = before[file] + Cardinality(Wrote(file)')
      <4>1. before[file] # Miss
        BY <1>0, <2>1, <2>2
      <4>2. QED
        BY <1>3, <1>8, <4>1
    <3>4. Cardinality(WroteBy(j)') = Cardinality(Wrote(file)')
      <4>1. WroteBy(j)' = WroteBy(k)'
        BY <2>2 DEF WroteBy
      <4>2. QED
        BY <3>1, <4>1
    <3>5. QED
      BY <1>0, <2>2, <3>2, <3>3, <3>4
  <2>3. CASE j # k
    <3>1. WroteBy(j)' = WroteBy(j)
      <4>1. \A i \in 1..j : i \in DOMAIN batch
        BY <1>2 DEF Shaped
      <4>2. writes => k \notin 1..j
        <5>1. SUFFICES ASSUME writes, k < j PROVE FALSE
          BY <1>2, <2>3 DEF Shaped
        <5>2. ~parallel
          BY <5>1, ToolAssumption DEF BatchInv, ReadsAlone
        <5>3. at[j] = "done"
          BY <1>4, <2>1, <2>3
        <5>4. QED
          BY <1>1, <5>1, <5>2, <5>3 DEF BatchInv, OneByOne
      <4>3. \A i \in 1..j : (i \in WroteBy(j)' <=> i \in WroteBy(j))
        <5>1. SUFFICES ASSUME NEW i \in 1..j PROVE i \in WroteBy(j)' <=> i \in WroteBy(j)
          OBVIOUS
        <5>2. CASE i = k
          BY <1>1, <4>2, <5>1, <5>2 DEF WroteBy
        <5>3. CASE i # k
          BY <1>1, <1>4, <4>1, <5>1, <5>3 DEF WroteBy
        <5>4. QED
          BY <5>2, <5>3
      <4>4. WroteBy(j)' \subseteq 1..j /\ WroteBy(j) \subseteq 1..j
        BY DEF WroteBy
      <4>5. QED
        BY <4>3, <4>4
    <3>2. outcome[j].value = before[batch[j].file] + Cardinality(WroteBy(j))
      BY <1>4, <2>1, <2>3 DEF BatchInv, NoOvertaking, WroteBy
    <3>3. QED
      BY <1>4, <2>3, <3>1, <3>2
  <2>4. QED
    BY <2>2, <2>3
<1>11. RanKnown' /\ ReadsAlone'
  BY <1>1, <1>4, <1>5 DEF BatchInv, RanKnown, ReadsAlone
<1>12. OneByOne'
  BY <1>1, OrderKept
<1>13. QED
  BY <1>2, <1>9, <1>10, <1>11, <1>12 DEF BatchInv

-----------------------------------------------------------------------------
LEMMA BatchStepKept == BatchInv /\ [Next]_vars => BatchInv'
<1> SUFFICES ASSUME BatchInv, [Next]_vars PROVE BatchInv'
  OBVIOUS
<1>1. CASE RunBatch
  BY <1>1, UnwrittenKept, SucceedKept DEF RunBatch, BatchStep
<1>2. CASE Execute
  BY <1>2, ExecuteKept
<1>3. CASE EditFile
  BY <1>3, EditKept
<1>4. CASE Cancel
  BY <1>4, DropKept DEF Cancel
<1>5. CASE Deliver
  <2>1. DropBatch \/ UNCHANGED batchVars
    BY <1>5 DEF Deliver
  <2>2. QED
    BY <2>1, DropKept, StillKept DEF batchVars
<1>6. ASSUME NEW calls \in Replies, ModelReplies(calls) PROVE BatchInv'
  BY <1>6, StillKept DEF ModelReplies, batchVars
<1>7. CASE Ask \/ Accept \/ Steer \/ Drain \/ ModelAnswers \/ ModelFails \/ AnnouncePseudo
           \/ AnswerPseudo \/ AnnounceCall \/ EndTurn \/ Resume \/ Quiet \/ UNCHANGED vars
  <2>1. UNCHANGED <<world, before, batch, parallel, at, outcome>>
    BY <1>7 DEF Ask, Accept, Steer, Drain, ModelAnswers, ModelFails, AnnouncePseudo,
                AnswerPseudo, AnnounceCall, EndTurn, Resume, Quiet, vars, batchVars
  <2>2. QED
    BY <2>1, StillKept
<1>8. QED
  BY <1>1, <1>2, <1>3, <1>4, <1>5, <1>6, <1>7 DEF Next

LEMMA InitBatch == Init => BatchInv
<1> SUFFICES ASSUME Init PROVE BatchInv
  OBVIOUS
<1>1. batch = <<>> /\ parallel = FALSE
  BY DEF Init, BatchInit
<1>2. Shaped
  BY InitShaped
<1>3. DOMAIN batch = {}
  BY <1>1, EmptyWell
<1>4. QED
  BY <1>1, <1>2, <1>3 DEF BatchInv, VersionsAdd, ReadsAlone, OneByOne, RanKnown, NoOvertaking

(* Whatever tools, replies and files there are, and whenever calls fail,   *)
(* files change or the run is cancelled: a call that reached its tool saw  *)
(* what one call after another would have shown it (harness/parallel.py).  *)
THEOREM NoneOvertaken == Spec => []NoOvertaking
<1>1. BatchInv => NoOvertaking
  BY DEF BatchInv
<1>2. QED
  BY <1>1, InitBatch, BatchStepKept, PTL DEF Spec

-----------------------------------------------------------------------------
(* Passes over a sequence.  A recursive function stands for a loop; what   *)
(* it computes is shown by induction on the elements passed.               *)

LEMMA Least ==
  ASSUME NEW T \in SUBSET Nat, T # {}
  PROVE  \E x \in T : \A y \in T : ~(y < x)
<1> DEFINE R == OpToRel(<, Nat)
<1>1. IsWellFoundedOn(R, Nat)
  BY NatLessThanWellFounded
<1>2. \A x, y \in Nat : x < y => <<x, y>> \in R
  BY DEF OpToRel
<1> HIDE DEF R
<1>3. PICK x \in T : \A y \in T : ~(<<y, x>> \in R)
  BY <1>1, WFMin
<1>4. \A y \in T : ~(y < x)
  BY <1>2, <1>3
<1>5. QED
  BY <1>4

(* Induction up to a number, over a set of those it holds for.             *)
LEMMA UpTo ==
  ASSUME NEW n \in Nat, NEW T, 0 \in T, \A k \in 1..n : k - 1 \in T => k \in T
  PROVE  \A k \in 0..n : k \in T
<1>1. SUFFICES ASSUME NEW k \in 0..n, k \notin T PROVE FALSE
  OBVIOUS
<1>2. PICK x \in (0..n) \ T : \A y \in (0..n) \ T : ~(y < x)
  <2>1. (0..n) \ T \in SUBSET Nat /\ (0..n) \ T # {}
    BY <1>1
  <2>2. QED
    BY <2>1, Least
<1>3. x \in 1..n /\ x - 1 \in 0..n /\ x - 1 < x
  BY <1>2
<1>4. x - 1 \in T
  BY <1>2, <1>3
<1>5. QED
  BY <1>2, <1>3, <1>4

(* A loop over n elements, whose k-th step takes what is computed so far   *)
(* to F[k] of it, computes something.                                      *)
Steps(F, n, V) == \A k \in 1..n : \A v \in V : F[k][v] \in V
Loop(f, base, F, n, V) ==
  f \in [0..n -> V] /\ f[0] = base /\ \A k \in 1..n : f[k] = F[k][f[k - 1]]

LEMMA Recursion ==
  ASSUME NEW V, NEW base \in V, NEW n \in Nat, NEW F, Steps(F, n, V)
  PROVE  \E f : Loop(f, base, F, n, V)
<1> DEFINE T == {m \in 0..n : \E f : Loop(f, base, F, m, V)}
<1>1. \E f : Loop(f, base, F, 0, V)
  <2>1. Loop([k \in 0..0 |-> base], base, F, 0, V)
    BY DEF Loop
  <2>2. QED
    BY <2>1
<1>2. ASSUME NEW m \in 1..n, NEW f, Loop(f, base, F, m - 1, V)
      PROVE  \E g : Loop(g, base, F, m, V)
  <2> DEFINE g == [k \in 0..m |-> IF k = m THEN F[m][f[m - 1]] ELSE f[k]]
  <2>1. f[m - 1] \in V /\ F[m][f[m - 1]] \in V
    BY <1>2 DEF Loop, Steps
  <2>2. g \in [0..m -> V] /\ g[0] = base
    BY <1>2, <2>1 DEF Loop
  <2>3. \A k \in 1..m : g[k] = F[k][g[k - 1]]
    BY <1>2, <2>1 DEF Loop
  <2>4. Loop(g, base, F, m, V)
    BY <2>2, <2>3 DEF Loop
  <2> HIDE DEF g
  <2>5. QED
    BY <2>4
<1>3. 0 \in T /\ \A m \in 1..n : m - 1 \in T => m \in T
  BY <1>1, <1>2
<1> HIDE DEF T
<1>4. \A m \in 0..n : m \in T
  BY <1>3, UpTo
<1>5. QED
  BY <1>4 DEF T

(* What Listed lists.                                                      *)
ListedOf(f, n, K) ==
  /\ f \in [0..n -> Seq(Nat)] /\ f[0] = <<>> /\ Listed(n, K) = f[n]
  /\ \A k \in 1..n : f[k] = IF k \in K THEN Append(f[k - 1], k) ELSE f[k - 1]

LEMMA ListedDef == ASSUME NEW n \in Nat, NEW K PROVE \E f : ListedOf(f, n, K)
<1> DEFINE Step(k, t) == IF k \in K THEN Append(t, k) ELSE t
           listed[k \in 0..n] == IF k = 0 THEN <<>> ELSE Step(k, listed[k - 1])
           V == Seq(Nat)
           F == [k \in 1..n |-> [t \in V |-> Step(k, t)]]
<1>1. <<>> \in V /\ \A k \in 1..n : \A t \in V : Step(k, t) \in V
  OBVIOUS
<1>2. Listed(n, K) = listed[n]
  BY DEF Listed
<1> HIDE DEF Step, V
<1>3. \A k \in 1..n : \A t \in V : F[k][t] = Step(k, t) /\ F[k][t] \in V
  BY <1>1
<1> HIDE DEF F
<1>4. PICK f : Loop(f, <<>>, F, n, V)
  BY <1>1, <1>3, Recursion DEF Steps
<1>5. f = [k \in 0..n |-> IF k = 0 THEN <<>> ELSE Step(k, f[k - 1])]
  BY <1>3, <1>4 DEF Loop
<1>6. listed = [k \in 0..n |-> IF k = 0 THEN <<>> ELSE Step(k, listed[k - 1])]
  BY <1>5
<1> HIDE DEF listed
<1>7. \A k \in 0..n : listed[k] \in V
  <2> DEFINE T == {k \in 0..n : listed[k] \in V}
  <2>1. 0 \in T
    BY <1>1, <1>6
  <2>2. \A k \in 1..n : k - 1 \in T => k \in T
    BY <1>1, <1>6
  <2> HIDE DEF T
  <2>3. \A k \in 0..n : k \in T
    BY <2>1, <2>2, UpTo
  <2>4. QED
    BY <2>3 DEF T
<1>8. listed \in [0..n -> V]
  BY <1>6, <1>7
<1>9. listed[0] = <<>> /\ \A k \in 1..n : listed[k] = Step(k, listed[k - 1])
  BY <1>6
<1>10. ListedOf(listed, n, K)
  BY <1>2, <1>8, <1>9 DEF ListedOf, Step, V
<1>11. QED
  BY <1>10

LEMMA ListedNone == ASSUME NEW K PROVE Listed(0, K) = <<>>
<1>1. PICK f : ListedOf(f, 0, K)
  BY ListedDef
<1>2. QED
  BY <1>1 DEF ListedOf

LEMMA ListedNext ==
  ASSUME NEW n \in Nat, NEW K
  PROVE  Listed(n + 1, K) = IF n + 1 \in K THEN Append(Listed(n, K), n + 1) ELSE Listed(n, K)
<1>1. PICK f : ListedOf(f, n, K)
  BY ListedDef
<1>2. PICK g : ListedOf(g, n + 1, K)
  BY ListedDef
<1> DEFINE T == {k \in 0..n : f[k] = g[k]}
<1>3. 0 \in T
  BY <1>1, <1>2 DEF ListedOf
<1>4. ASSUME NEW k \in 1..n, k - 1 \in T PROVE k \in T
  <2>1. k \in 1..(n + 1) /\ f[k - 1] = g[k - 1]
    BY <1>4
  <2>2. f[k] = IF k \in K THEN Append(f[k - 1], k) ELSE f[k - 1]
    BY <1>1 DEF ListedOf
  <2>3. g[k] = IF k \in K THEN Append(g[k - 1], k) ELSE g[k - 1]
    BY <1>2, <2>1 DEF ListedOf
  <2>4. QED
    BY <2>1, <2>2, <2>3
<1> HIDE DEF T
<1>5. \A k \in 0..n : k \in T
  BY <1>3, <1>4, UpTo
<1>6. f[n] = g[n]
  BY <1>5 DEF T
<1>7. g[n + 1] = IF n + 1 \in K THEN Append(g[n], n + 1) ELSE g[n]
  BY <1>2 DEF ListedOf
<1>8. QED
  BY <1>1, <1>2, <1>6, <1>7 DEF ListedOf

(* The positions, each once and in order.                                  *)
Ascending(s) == \A i, j \in DOMAIN s : i < j => s[i] < s[j]

LEMMA ListedOrder ==
  ASSUME NEW n \in Nat, NEW K
  PROVE  /\ Listed(n, K) \in Seq(Nat) /\ Ascending(Listed(n, K))
         /\ \A i \in DOMAIN Listed(n, K) : Listed(n, K)[i] \in K \cap (1..n)
         /\ \A k \in K \cap (1..n) : \E i \in DOMAIN Listed(n, K) : Listed(n, K)[i] = k
<1> DEFINE Well(m, s) ==
             /\ s \in Seq(Nat) /\ Ascending(s)
             /\ \A i \in DOMAIN s : s[i] \in K \cap (1..m)
             /\ \A k \in K \cap (1..m) : \E i \in DOMAIN s : s[i] = k
           T == {m \in 0..n : Well(m, Listed(m, K))}
<1>1. 0 \in T
  <2>1. Well(0, <<>>)
    BY DEF Ascending
  <2>2. Listed(0, K) = <<>>
    BY ListedNone
  <2> HIDE DEF Well
  <2>3. QED
    BY <2>1, <2>2
<1>2. ASSUME NEW m \in 1..n, m - 1 \in T PROVE m \in T
  <2> DEFINE s == Listed(m - 1, K)
  <2>1. m - 1 \in Nat /\ Well(m - 1, s)
    BY <1>2
  <2>2. Listed(m, K) = IF m \in K THEN Append(s, m) ELSE s
    <3>1. PICK p \in Nat : p = m - 1 /\ p + 1 = m
      BY <2>1
    <3>2. Listed(p + 1, K) = IF p + 1 \in K THEN Append(Listed(p, K), p + 1) ELSE Listed(p, K)
      BY ListedNext
    <3>3. QED
      BY <3>1, <3>2
  <2> HIDE DEF s
  <2>3. CASE m \in K
    <3> DEFINE r == Append(s, m)
    <3>1. /\ r \in Seq(Nat) /\ Len(r) = Len(s) + 1 /\ DOMAIN r = 1..(Len(s) + 1) /\ DOMAIN s = 1..Len(s)
          /\ Len(s) \in Nat /\ r[Len(s) + 1] = m /\ \A i \in 1..Len(s) : r[i] = s[i]
      BY <2>1
    <3> HIDE DEF r
    <3>2. Ascending(r)
      <4>1. SUFFICES ASSUME NEW i \in DOMAIN r, NEW j \in DOMAIN r, i < j PROVE r[i] < r[j]
        BY DEF Ascending
      <4>2. i \in 1..Len(s) /\ r[i] = s[i] /\ s[i] \in 1..(m - 1)
        BY <2>1, <3>1, <4>1
      <4>3. CASE j = Len(s) + 1
        BY <3>1, <4>2, <4>3
      <4>4. CASE j # Len(s) + 1
        <5>1. j \in DOMAIN s /\ r[j] = s[j]
          BY <3>1, <4>4
        <5>2. QED
          BY <2>1, <3>1, <4>1, <4>2, <5>1 DEF Ascending
      <4>5. QED
        BY <4>3, <4>4
    <3>3. \A i \in DOMAIN r : r[i] \in K \cap (1..m)
      BY <2>1, <2>3, <3>1
    <3>4. ASSUME NEW k \in K \cap (1..m) PROVE \E i \in DOMAIN r : r[i] = k
      <4>1. CASE k = m
        BY <3>1, <4>1
      <4>2. CASE k # m
        <5>1. PICK i \in DOMAIN s : s[i] = k
          BY <2>1, <4>2
        <5>2. i \in DOMAIN r /\ r[i] = k
          BY <3>1, <5>1
        <5>3. QED
          BY <5>2
      <4>3. QED
        BY <4>1, <4>2
    <3>5. Well(m, r)
      BY <3>1, <3>2, <3>3, <3>4
    <3>6. m \in 0..n /\ Listed(m, K) = r
      BY <2>2, <2>3 DEF r
    <3> HIDE DEF Well
    <3>7. Well(m, Listed(m, K))
      BY <3>5, <3>6, Zenon
    <3>8. QED
      BY <3>6, <3>7
  <2>4. CASE m \notin K
    <3>1. K \cap (1..m) = K \cap (1..(m - 1))
      BY <2>4
    <3>2. Well(m, s)
      BY <2>1, <3>1
    <3>3. Listed(m, K) = s
      BY <2>2, <2>4
    <3>4. Well(m, s)
      BY <2>1, <3>1, SMTT(30)
    <3>5. m \in 0..n
      OBVIOUS
    <3> HIDE DEF Well
    <3>6. Well(m, Listed(m, K))
      BY <3>3, <3>4, Zenon
    <3>7. QED
      BY <3>5, <3>6
  <2>5. QED
    BY <2>3, <2>4
<1> HIDE DEF T
<1>3. n \in T
  BY <1>1, <1>2, UpTo
<1>4. QED
  BY <1>3 DEF T

(* Only the positions up to n count.                                       *)
LEMMA ListedSame ==
  ASSUME NEW n \in Nat, NEW K, NEW K2, K \cap (1..n) = K2 \cap (1..n)
  PROVE  Listed(n, K) = Listed(n, K2)
<1> DEFINE T == {m \in 0..n : Listed(m, K) = Listed(m, K2)}
<1>1. 0 \in T
  BY ListedNone
<1>2. ASSUME NEW m \in 1..n, m - 1 \in T PROVE m \in T
  <2>1. PICK p \in Nat : p = m - 1 /\ p + 1 = m
    OBVIOUS
  <2>2. p + 1 \in K <=> p + 1 \in K2
    BY <2>1
  <2>3. /\ Listed(p + 1, K) = IF p + 1 \in K THEN Append(Listed(p, K), p + 1) ELSE Listed(p, K)
        /\ Listed(p + 1, K2) = IF p + 1 \in K2 THEN Append(Listed(p, K2), p + 1) ELSE Listed(p, K2)
    BY ListedNext
  <2>4. Listed(p, K) = Listed(p, K2)
    BY <1>2, <2>1
  <2>5. Listed(p + 1, K) = Listed(p + 1, K2)
    BY <2>2, <2>3, <2>4
  <2>6. QED
    BY <2>1, <2>5
<1> HIDE DEF T
<1>3. n \in T
  BY <1>1, <1>2, UpTo
<1>4. QED
  BY <1>3 DEF T

-----------------------------------------------------------------------------
(* What turns, events and rebuilt states are made of.  An id names its     *)
(* call's tool, whoever gave it out.                                       *)
Ids == ToolNames \X Nat
SoundCalls == {c \in RealCalls : c.id[1] = c.tool}
Contents == Int \cup {Truncate(v) : v \in Int}
Turns == [role : {"user", "assistant", "tool"}, calls : Seq(SoundCalls), signed : SUBSET Nat,
          id : Ids \cup {<<>>}, value : Contents]
LogEvents ==
  {e \in [kind : {"query", "steer", "call", "result", "final"}, turn : Nat,
          call : RealCalls \cup {NoCall}, id : Ids \cup {<<>>}, value : Int] :
     e.kind = "call" => e.call \in SoundCalls /\ e.id = e.call.id}
States == [history : Seq(Turns), notes : Nat, served : SUBSET Nat, over : BOOLEAN]

(* A result stands behind a call of its id.                                *)
Called(h, id) == \E j \in DOMAIN h : \E c \in DOMAIN h[j].calls : h[j].calls[c].id = id
AskedFirst(h) ==
  \A k \in DOMAIN h : h[k].role = "tool" =>
    \E j \in 1..k : \E c \in DOMAIN h[j].calls : h[j].calls[c].id = h[k].id
Sound(s) == s \in States /\ AskedFirst(s.history)

LEMMA LeastOf ==
  ASSUME NEW S \in SUBSET Nat, S # {}
  PROVE  Min(S) \in S /\ \A y \in S : Min(S) <= y
<1>1. PICK x \in S : \A y \in S : ~(y < x)
  BY Least
<1>2. \A y \in S : x <= y
  BY <1>1
<1>3. QED
  BY <1>2 DEF Min

LEMMA GreatestOne == ASSUME NEW x \in Nat PROVE Max({x}) = x
<1>1. \A y \in {x} : x >= y
  OBVIOUS
<1>2. QED
  BY <1>1 DEF Max

(* The last of some positions.                                             *)
LEMMA GreatestOf ==
  ASSUME NEW n \in Nat, NEW S \in SUBSET (1..n), S # {}
  PROVE  Max(S) \in S /\ \A y \in S : Max(S) >= y
<1> DEFINE R == {n - y : y \in S}
<1>1. R \in SUBSET Nat /\ R # {}
  <2>1. \A y \in S : n - y \in Nat
    OBVIOUS
  <2>2. QED
    BY <2>1
<1>2. PICK r \in R : \A q \in R : ~(q < r)
  BY <1>1, Least
<1>3. PICK x \in S : r = n - x
  BY <1>2
<1>4. ASSUME NEW y \in S PROVE x >= y
  <2>1. n - y \in R /\ x \in 1..n /\ y \in 1..n
    BY <1>3
  <2>2. ~(n - y < n - x)
    BY <1>2, <1>3, <2>1
  <2>3. QED
    BY <2>1, <2>2
<1>5. QED
  BY <1>3, <1>4 DEF Max

-----------------------------------------------------------------------------
(* Turns that are added to a history.                                      *)
LEMMA AddedTurn ==
  ASSUME NEW h \in Seq(Turns), NEW t \in Turns, t.role = "tool" => Called(h, t.id)
  PROVE  /\ Append(h, t) \in Seq(Turns)
         /\ AskedFirst(h) => AskedFirst(Append(h, t))
         /\ \A id : Called(h, id) => Called(Append(h, t), id)
         /\ \A c \in DOMAIN t.calls : Called(Append(h, t), t.calls[c].id)
<1> DEFINE g == Append(h, t)
<1>1. /\ g \in Seq(Turns) /\ Len(h) \in Nat /\ DOMAIN h = 1..Len(h) /\ DOMAIN g = 1..(Len(h) + 1)
      /\ g[Len(h) + 1] = t /\ \A k \in DOMAIN h : g[k] = h[k]
  OBVIOUS
<1> HIDE DEF g
<1>2. \A id : Called(h, id) => Called(g, id)
  BY <1>1 DEF Called
<1>3. \A c \in DOMAIN t.calls : Called(g, t.calls[c].id)
  BY <1>1 DEF Called
<1>4. ASSUME AskedFirst(h) PROVE AskedFirst(g)
  <2>1. SUFFICES ASSUME NEW k \in DOMAIN g, g[k].role = "tool"
                 PROVE  \E j \in 1..k : \E c \in DOMAIN g[j].calls : g[j].calls[c].id = g[k].id
    BY DEF AskedFirst
  <2>2. CASE k \in DOMAIN h
    <3>1. PICK j \in 1..k : \E c \in DOMAIN h[j].calls : h[j].calls[c].id = h[k].id
      BY <1>1, <1>4, <2>1, <2>2 DEF AskedFirst
    <3>2. j \in DOMAIN h
      BY <1>1, <2>2
    <3>3. g[j] = h[j] /\ g[k] = h[k]
      BY <1>1, <2>2, <3>2
    <3>4. QED
      BY <3>1, <3>3
  <2>3. CASE k \notin DOMAIN h
    <3>1. k = Len(h) + 1 /\ g[k] = t
      BY <1>1, <2>3
    <3>2. PICK j \in DOMAIN h : \E c \in DOMAIN h[j].calls : h[j].calls[c].id = t.id
      BY <2>1, <3>1 DEF Called
    <3>3. j \in 1..k /\ g[j] = h[j]
      BY <1>1, <3>1
    <3>4. QED
      BY <3>1, <3>2, <3>3
  <2>4. QED
    BY <2>2, <2>3
<1>5. QED
  BY <1>1, <1>2, <1>3, <1>4 DEF g

LEMMA AddedUsers ==
  ASSUME NEW h \in Seq(Turns), NEW u \in Seq(Turns), \A k \in DOMAIN u : u[k].role # "tool"
  PROVE  h \o u \in Seq(Turns) /\ (AskedFirst(h) => AskedFirst(h \o u))
<1> DEFINE g == h \o u
<1>1. /\ g \in Seq(Turns) /\ Len(h) \in Nat /\ DOMAIN h = 1..Len(h) /\ Len(u) \in Nat
      /\ DOMAIN g = 1..(Len(h) + Len(u)) /\ DOMAIN u = 1..Len(u)
      /\ \A k \in DOMAIN h : g[k] = h[k]
      /\ \A k \in DOMAIN g : k > Len(h) => g[k] = u[k - Len(h)] /\ k - Len(h) \in DOMAIN u
  OBVIOUS
<1> HIDE DEF g
<1>2. ASSUME AskedFirst(h), NEW k \in DOMAIN g, g[k].role = "tool"
      PROVE  \E j \in 1..k : \E c \in DOMAIN g[j].calls : g[j].calls[c].id = g[k].id
  <2>1. k \in DOMAIN h
    BY <1>1, <1>2
  <2>2. PICK j \in 1..k : \E c \in DOMAIN h[j].calls : h[j].calls[c].id = h[k].id
    BY <1>1, <1>2, <2>1 DEF AskedFirst
  <2>3. j \in DOMAIN h
    BY <1>1, <2>1
  <2>4. QED
    BY <1>1, <2>1, <2>2, <2>3
<1>3. QED
  BY <1>1, <1>2 DEF AskedFirst, g

LEMMA TurnKinds ==
  /\ \A v \in Int : UserTurn(v) \in Turns /\ UserTurn(v).role # "tool" /\ UserTurn(v).calls = <<>>
  /\ TextTurn \in Turns /\ TextTurn.role # "tool"
  /\ \A id \in Ids, v \in Contents : ToolTurn(id, v) \in Turns /\ ToolTurn(id, v).id = id
  /\ \A calls \in Seq(SoundCalls), signed \in SUBSET Nat :
       /\ CallTurn(calls, signed) \in Turns /\ CallTurn(calls, signed).role # "tool"
       /\ CallTurn(calls, signed).calls = calls
<1>1. Int \subseteq Contents /\ Ok \in Contents
  BY DEF Contents, Ok
<1>2. <<>> \in Seq(SoundCalls) /\ {} \in SUBSET Nat
  OBVIOUS
<1>3. QED
  BY <1>1, <1>2 DEF UserTurn, TextTurn, ToolTurn, CallTurn, Turns

LEMMA AnswersAre ==
  /\ \A call, oracle : AnswerTo(call, oracle) \in {Ok, Armed, Refused} /\ AnswerTo(call, oracle) \in Int
  /\ \A v \in Int : v \in Contents /\ Truncate(v) \in Contents
  BY DEF AnswerTo, Ok, Armed, Refused, Contents

-----------------------------------------------------------------------------
(* What reconstruct makes of a log.                                        *)
CallPlaces(events) == {j \in DOMAIN events : events[j].kind = "call"}

LEMMA ServedOne ==
  ASSUME NEW events \in Seq(LogEvents), NEW served, NEW call
  PROVE  Served(events, served, call) = {} \/ \E k \in Recorded(events) : Served(events, served, call) = {k}
<1> DEFINE asks(k) == Asks(CallOf(events, k))
           left == {k \in Recorded(events) \ served : asks(k).tool = call.tool}
           first(k) == Min({j \in Recorded(events) : asks(j) = asks(k)})
           own == {k \in left : asks(k) = Asks(call)}
           others == {k \in left : \A j \in left : first(k) <= first(j)}
<1>1. Served(events, served, call) =
        IF own # {} THEN {Min(own)} ELSE IF others # {} THEN {Min(others)} ELSE {}
  BY DEF Served, Serving
<1>2. own \subseteq Recorded(events) /\ others \subseteq Recorded(events)
  OBVIOUS
<1>3. Recorded(events) \in SUBSET Nat
  BY DEF Recorded
<1> HIDE DEF own, others
<1>4. own # {} => Min(own) \in Recorded(events)
  BY <1>2, <1>3, LeastOf
<1>5. others # {} => Min(others) \in Recorded(events)
  BY <1>2, <1>3, LeastOf
<1>6. QED
  BY <1>1, <1>4, <1>5

LEMMA AnswerWell ==
  ASSUME NEW s \in States, NEW e \in LogEvents, e.kind = "call", NEW value \in Contents
  PROVE  /\ Answer(s, e, value) \in States /\ Answer(s, e, value).served = s.served
         /\ Sound(s) /\ Called(s.history, e.id) => Sound(Answer(s, e, value))
         /\ Called(s.history, e.id) =>
              \A id : Called(s.history, id) => Called(Answer(s, e, value).history, id)
<1> DEFINE a == Answer(s, e, value)
           h == Append(s.history, ToolTurn(e.id, value))
<1>1. e.id \in Ids /\ s.history \in Seq(Turns) /\ s.notes \in Nat
  BY DEF LogEvents, SoundCalls, RealCalls, Ids, States
<1>2. ToolTurn(e.id, value) \in Turns /\ ToolTurn(e.id, value).id = e.id /\ TextTurn \in Turns /\ TextTurn.role # "tool"
  BY <1>1, TurnKinds
<1>3. h \in Seq(Turns)
  BY <1>1, <1>2
<1>4. a.history = IF e.call.tool = "stop" THEN Append(h, TextTurn) ELSE h
  <2>1. s.history \o <<ToolTurn(e.id, value)>> = h
    BY <1>1, <1>2
  <2>2. s.history \o <<ToolTurn(e.id, value), TextTurn>> = Append(h, TextTurn)
    BY <1>1, <1>2
  <2>3. a.history = s.history \o (IF e.call.tool = "stop" THEN <<ToolTurn(e.id, value), TextTurn>>
                                  ELSE <<ToolTurn(e.id, value)>>)
    BY DEF Answer, States
  <2>4. QED
    BY <2>1, <2>2, <2>3
<1> HIDE DEF h
<1>5. a.history \in Seq(Turns)
  BY <1>2, <1>3, <1>4
<1>6. /\ a = [s EXCEPT !.history = a.history, !.notes = a.notes, !.over = a.over]
      /\ a.notes \in Nat /\ a.over \in BOOLEAN
  BY <1>1 DEF Answer, States
<1>7. a \in States /\ a.served = s.served
  BY <1>5, <1>6 DEF States
<1>8. ASSUME Called(s.history, e.id)
      PROVE  /\ AskedFirst(s.history) => AskedFirst(a.history)
             /\ \A id : Called(s.history, id) => Called(a.history, id)
  <2>1. /\ AskedFirst(s.history) => AskedFirst(h)
        /\ \A id : Called(s.history, id) => Called(h, id)
    BY <1>1, <1>2, <1>8, AddedTurn DEF h
  <2>2. /\ AskedFirst(h) => AskedFirst(Append(h, TextTurn))
        /\ \A id : Called(h, id) => Called(Append(h, TextTurn), id)
    BY <1>2, <1>3, AddedTurn
  <2>3. QED
    BY <1>4, <2>1, <2>2
<1>9. QED
  BY <1>7, <1>8 DEF Sound

LEMMA RebuiltCallWell ==
  ASSUME NEW events \in Seq(LogEvents), NEW s \in States, NEW e \in LogEvents, e.kind = "call"
  PROVE  /\ RebuiltCall(events, s, e) \in States
         /\ Sound(s) /\ Called(s.history, e.id) =>
              /\ Sound(RebuiltCall(events, s, e))
              /\ \A id : Called(s.history, id) => Called(RebuiltCall(events, s, e).history, id)
<1> DEFINE taken == Served(events, s.served, e.call)
           value == IF taken = {} THEN Error ELSE events[Max(taken)].value
<1>1. taken \in SUBSET Nat /\ value \in Int
  <2>1. CASE taken = {}
    BY <2>1 DEF Error
  <2>2. CASE taken # {}
    <3>1. PICK k \in Recorded(events) : taken = {k}
      BY <2>2, ServedOne
    <3>2. k \in DOMAIN events /\ k \in Nat
      BY DEF Recorded
    <3>3. Max(taken) = k /\ events[k] \in LogEvents
      BY <3>1, <3>2, GreatestOne
    <3>4. QED
      BY <2>2, <3>1, <3>2, <3>3 DEF LogEvents
  <2>3. QED
    BY <2>1, <2>2
<1>2. RebuiltCall(events, s, e) =
        IF s.over THEN s
        ELSE IF Intercepted(e.call) THEN Answer(s, e, AnswerTo(e.call, TRUE))
        ELSE [Answer(s, e, Truncate(value)) EXCEPT !.served = @ \cup taken]
  BY DEF RebuiltCall
<1> HIDE DEF taken, value
<1>3. \A v \in Contents :
        /\ Answer(s, e, v) \in States /\ Answer(s, e, v).served = s.served
        /\ Sound(s) /\ Called(s.history, e.id) =>
             /\ Sound(Answer(s, e, v))
             /\ \A id : Called(s.history, id) => Called(Answer(s, e, v).history, id)
  BY AnswerWell
<1>0. Truncate(value) \in Contents
  BY <1>1, AnswersAre
<1> DEFINE b == [Answer(s, e, Truncate(value)) EXCEPT !.served = @ \cup taken]
<1>4. b \in States /\ b.history = Answer(s, e, Truncate(value)).history
  BY <1>0, <1>1, <1>3 DEF States
<1> HIDE DEF b
<1>5. CASE s.over
  BY <1>2, <1>5
<1>6. CASE ~s.over /\ Intercepted(e.call)
  <2>1. AnswerTo(e.call, TRUE) \in Contents /\ RebuiltCall(events, s, e) = Answer(s, e, AnswerTo(e.call, TRUE))
    BY <1>2, <1>6, AnswersAre
  <2>2. QED
    BY <1>3, <2>1
<1>7. CASE ~s.over /\ ~Intercepted(e.call)
  <2>1. RebuiltCall(events, s, e) = b
    BY <1>2, <1>7 DEF b
  <2>2. QED
    BY <1>0, <1>1, <1>3, <1>4, <2>1 DEF Sound
<1>8. QED
  BY <1>5, <1>6, <1>7

(* The loop over the calls of a turn.                                      *)
Begun(events, calls, s) ==
  [s EXCEPT !.history = Append(@, CallTurn([c \in DOMAIN calls |-> events[calls[c]].call], {}))]
CallsOf(f, events, calls, s) ==
  /\ f \in [0..Len(calls) -> States] /\ f[0] = Begun(events, calls, s)
  /\ RebuiltCalls(events, calls, s) = f[Len(calls)]
  /\ \A n \in 1..Len(calls) : f[n] = RebuiltCall(events, f[n - 1], events[calls[n]])

LEMMA PlacedCall ==
  ASSUME NEW events \in Seq(LogEvents), NEW calls \in Seq(CallPlaces(events))
  PROVE  /\ Len(calls) \in Nat
         /\ \A n \in 1..Len(calls) :
              /\ calls[n] \in DOMAIN events /\ events[calls[n]] \in LogEvents
              /\ events[calls[n]].kind = "call"
              /\ events[calls[n]].call \in SoundCalls /\ events[calls[n]].id = events[calls[n]].call.id
         /\ [c \in DOMAIN calls |-> events[calls[c]].call] \in Seq(SoundCalls)
<1>1. Len(calls) \in Nat /\ DOMAIN calls = 1..Len(calls)
  OBVIOUS
<1>2. ASSUME NEW n \in 1..Len(calls)
      PROVE  /\ calls[n] \in DOMAIN events /\ events[calls[n]] \in LogEvents
             /\ events[calls[n]].kind = "call"
  <2>1. calls[n] \in CallPlaces(events)
    BY <1>1
  <2>2. QED
    BY <2>1 DEF CallPlaces
<1>3. \A n \in 1..Len(calls) :
        events[calls[n]].call \in SoundCalls /\ events[calls[n]].id = events[calls[n]].call.id
  BY <1>2 DEF LogEvents
<1>4. [c \in DOMAIN calls |-> events[calls[c]].call] \in Seq(SoundCalls)
  BY <1>1, <1>3
<1>5. QED
  BY <1>1, <1>2, <1>3, <1>4

LEMMA BegunWell ==
  ASSUME NEW events \in Seq(LogEvents), NEW calls \in Seq(CallPlaces(events)), NEW s \in States
  PROVE  /\ Begun(events, calls, s) \in States
         /\ Sound(s) => /\ Sound(Begun(events, calls, s))
                        /\ \A n \in 1..Len(calls) : Called(Begun(events, calls, s).history, events[calls[n]].id)
<1> DEFINE asked == [c \in DOMAIN calls |-> events[calls[c]].call]
           b == Begun(events, calls, s)
<1>1. asked \in Seq(SoundCalls) /\ DOMAIN asked = 1..Len(calls)
  BY PlacedCall
<1>2. \A n \in 1..Len(calls) : asked[n].id = events[calls[n]].id
  BY PlacedCall
<1>3. b = [s EXCEPT !.history = Append(s.history, CallTurn(asked, {}))]
  BY DEF Begun, States
<1> HIDE DEF asked, b
<1>4. CallTurn(asked, {}) \in Turns /\ CallTurn(asked, {}).role # "tool" /\ CallTurn(asked, {}).calls = asked
  BY <1>1, TurnKinds
<1>5. s.history \in Seq(Turns)
  BY DEF States
<1> DEFINE h == Append(s.history, CallTurn(asked, {}))
<1>6. /\ h \in Seq(Turns) /\ (AskedFirst(s.history) => AskedFirst(h))
      /\ \A c \in DOMAIN CallTurn(asked, {}).calls : Called(h, CallTurn(asked, {}).calls[c].id)
  BY <1>4, <1>5, AddedTurn
<1> HIDE DEF h
<1>7. b = [s EXCEPT !.history = h]
  BY <1>3 DEF h
<1>8. b \in States /\ b.history = h
  BY <1>6, <1>7 DEF States
<1>9. \A n \in 1..Len(calls) : Called(h, events[calls[n]].id)
  BY <1>1, <1>2, <1>4, <1>6
<1>10. QED
  BY <1>6, <1>8, <1>9 DEF b, Sound

LEMMA CallsDef ==
  ASSUME NEW events \in Seq(LogEvents), NEW calls \in Seq(CallPlaces(events)), NEW s \in States
  PROVE  \E f : CallsOf(f, events, calls, s)
<1> DEFINE base == Begun(events, calls, s)
           Step(k, t) == RebuiltCall(events, t, events[calls[k]])
           answered[k \in 0..Len(calls)] == IF k = 0 THEN base ELSE Step(k, answered[k - 1])
           F == [k \in 1..Len(calls) |-> [t \in States |-> Step(k, t)]]
<1>1. PICK n \in Nat : n = Len(calls)
  OBVIOUS
<1>2. base \in States /\ \A k \in 1..n : \A t \in States : Step(k, t) \in States
  <2>1. base \in States
    BY BegunWell
  <2>2. ASSUME NEW k \in 1..n, NEW t \in States PROVE Step(k, t) \in States
    <3>1. events[calls[k]] \in LogEvents /\ events[calls[k]].kind = "call"
      BY <1>1, PlacedCall
    <3>2. QED
      BY <3>1, RebuiltCallWell
  <2>3. QED
    BY <2>1, <2>2
<1>3. RebuiltCalls(events, calls, s) = answered[n]
  BY <1>1 DEF RebuiltCalls, Begun
<1> HIDE DEF Step, base
<1>4. \A k \in 1..n : \A t \in States : F[k][t] = Step(k, t) /\ F[k][t] \in States
  BY <1>1, <1>2
<1> HIDE DEF F
<1>5. PICK f : Loop(f, base, F, n, States)
  BY <1>2, <1>4, Recursion DEF Steps
<1>6. f = [k \in 0..n |-> IF k = 0 THEN base ELSE Step(k, f[k - 1])]
  BY <1>4, <1>5 DEF Loop
<1>7. answered = [k \in 0..n |-> IF k = 0 THEN base ELSE Step(k, answered[k - 1])]
  BY <1>1, <1>6
<1> HIDE DEF answered
<1>8. answered[0] = base /\ \A k \in 1..n : answered[k] = Step(k, answered[k - 1])
  BY <1>7
<1>9. \A k \in 0..n : answered[k] \in States
  <2> DEFINE T == {k \in 0..n : answered[k] \in States}
  <2>1. 0 \in T
    BY <1>2, <1>8
  <2>2. \A k \in 1..n : k - 1 \in T => k \in T
    BY <1>2, <1>8
  <2> HIDE DEF T
  <2>3. \A k \in 0..n : k \in T
    BY <2>1, <2>2, UpTo
  <2>4. QED
    BY <2>3 DEF T
<1>10. answered \in [0..n -> States]
  BY <1>7, <1>9
<1>11. CallsOf(answered, events, calls, s)
  BY <1>1, <1>3, <1>8, <1>10 DEF CallsOf, Step, base
<1>12. QED
  BY <1>11

LEMMA RebuiltCallsWell ==
  ASSUME NEW events \in Seq(LogEvents), NEW calls \in Seq(CallPlaces(events)), NEW s \in States
  PROVE  /\ RebuiltCalls(events, calls, s) \in States
         /\ Sound(s) => Sound(RebuiltCalls(events, calls, s))
<1>1. PICK f : CallsOf(f, events, calls, s)
  BY CallsDef
<1>2. PICK n \in Nat : n = Len(calls)
  OBVIOUS
<1>3. RebuiltCalls(events, calls, s) = f[n] /\ f \in [0..n -> States]
  BY <1>1, <1>2 DEF CallsOf
<1>4. ASSUME Sound(s) PROVE Sound(f[n])
  <2> DEFINE Here(t) == Sound(t) /\ \A k \in 1..n : Called(t.history, events[calls[k]].id)
             T == {m \in 0..n : Here(f[m])}
  <2>1. 0 \in T
    BY <1>1, <1>2, <1>4, BegunWell DEF CallsOf
  <2>2. ASSUME NEW m \in 1..n, m - 1 \in T PROVE m \in T
    <3>1. Here(f[m - 1]) /\ f[m - 1] \in States /\ f[m] = RebuiltCall(events, f[m - 1], events[calls[m]])
      BY <1>1, <1>2, <1>3, <2>2 DEF CallsOf
    <3>2. events[calls[m]] \in LogEvents /\ events[calls[m]].kind = "call"
      BY <1>2, PlacedCall
    <3>3. /\ Sound(f[m])
          /\ \A id : Called(f[m - 1].history, id) => Called(f[m].history, id)
      BY <3>1, <3>2, RebuiltCallWell
    <3>4. QED
      BY <3>1, <3>3
  <2> HIDE DEF T
  <2>3. \A m \in 0..n : m \in T
    BY <2>1, <2>2, UpTo
  <2>4. QED
    BY <2>3 DEF T
<1>5. QED
  BY <1>3, <1>4

LEMMA CallsInPlace ==
  ASSUME NEW events \in Seq(LogEvents), NEW k, NEW t
  PROVE  Listed(Len(events), Bucket(events, k, t, "call")) \in Seq(CallPlaces(events))
<1> DEFINE calls == Listed(Len(events), Bucket(events, k, t, "call"))
<1>1. Len(events) \in Nat
  OBVIOUS
<1>2. calls \in Seq(Nat) /\ \A n \in DOMAIN calls : calls[n] \in Bucket(events, k, t, "call")
  BY <1>1, ListedOrder
<1>3. Bucket(events, k, t, "call") \subseteq CallPlaces(events)
  BY DEF Bucket, InRound, CallPlaces
<1> HIDE DEF calls
<1>4. calls \in Seq(CallPlaces(events))
  BY <1>2, <1>3
<1>5. QED
  BY <1>4 DEF calls

LEMMA RebuiltTurnWell ==
  ASSUME NEW events \in Seq(LogEvents), NEW s \in States, NEW k, NEW t
  PROVE  /\ RebuiltTurn(events, k, s, t) \in States
         /\ Sound(s) => Sound(RebuiltTurn(events, k, s, t))
<1> DEFINE calls == Listed(Len(events), Bucket(events, k, t, "call"))
           final == [s EXCEPT !.history = Append(@, TextTurn), !.over = TRUE]
<1>1. RebuiltTurn(events, k, s, t) \in {s, RebuiltCalls(events, calls, s), final}
  BY DEF RebuiltTurn
<1>2. /\ RebuiltCalls(events, calls, s) \in States
      /\ Sound(s) => Sound(RebuiltCalls(events, calls, s))
  BY CallsInPlace, RebuiltCallsWell
<1> HIDE DEF calls
<1>3. s.history \in Seq(Turns)
  BY DEF States
<1>4. Append(s.history, TextTurn) \in Seq(Turns)
  BY <1>3, TurnKinds
<1>5. AskedFirst(s.history) => AskedFirst(Append(s.history, TextTurn))
  BY <1>3, TurnKinds, AddedTurn
<1>6. final \in States /\ final.history = Append(s.history, TextTurn)
  BY <1>4 DEF States
<1> HIDE DEF final
<1>7. QED
  BY <1>1, <1>2, <1>5, <1>6 DEF Sound

LEMMA ReaskedWell ==
  ASSUME NEW events \in Seq(LogEvents), NEW s \in States, NEW k \in DOMAIN events
  PROVE  /\ Reasked(events, k, s) \in States
         /\ Sound(s) => Sound(Reasked(events, k, s))
<1> DEFINE K == {j \in InRound(events, k) : events[j].kind = "steer"}
           steered == Listed(Len(events), K)
           users == [j \in DOMAIN steered |-> UserTurn(events[steered[j]].value)]
           asked == UserTurn(events[k].value)
           h == Append(s.history, asked)
<1>1. Len(events) \in Nat /\ K \subseteq DOMAIN events
  BY DEF InRound
<1>2. steered \in Seq(Nat) /\ \A j \in DOMAIN steered : steered[j] \in DOMAIN events
  BY <1>1, ListedOrder
<1>3. \A j \in DOMAIN events : UserTurn(events[j].value) \in Turns /\ UserTurn(events[j].value).role # "tool"
  <2>1. \A j \in DOMAIN events : events[j].value \in Int
    BY DEF LogEvents
  <2>2. QED
    BY <2>1, TurnKinds
<1>4. Reasked(events, k, s) = [s EXCEPT !.over = FALSE, !.history = (@ \o <<asked>>) \o users]
  BY DEF Reasked
<1> HIDE DEF K, steered, asked
<1>5. \A j \in DOMAIN steered : users[j] \in Turns /\ users[j].role # "tool"
  BY <1>2, <1>3
<1>6. users \in Seq(Turns)
  <2>1. DOMAIN users = 1..Len(steered) /\ Len(steered) \in Nat
    BY <1>2
  <2>2. QED
    BY <1>2, <1>5, <2>1
<1>7. \A j \in DOMAIN users : users[j].role # "tool"
  BY <1>5
<1> HIDE DEF users
<1>8. s.history \in Seq(Turns) /\ asked \in Turns /\ asked.role # "tool"
  BY <1>3 DEF States, asked
<1>9. h \in Seq(Turns) /\ (AskedFirst(s.history) => AskedFirst(h)) /\ s.history \o <<asked>> = h
  BY <1>8, AddedTurn
<1>10. Reasked(events, k, s) = [s EXCEPT !.over = FALSE, !.history = h \o users]
  BY <1>4, <1>9 DEF States
<1> HIDE DEF h
<1>11. h \o users \in Seq(Turns) /\ (AskedFirst(h) => AskedFirst(h \o users))
  BY <1>6, <1>7, <1>9, AddedUsers
<1>12. Reasked(events, k, s) \in States /\ Reasked(events, k, s).history = h \o users
  BY <1>10, <1>11 DEF States
<1>13. QED
  BY <1>9, <1>11, <1>12 DEF Sound

(* The loop over the turns of a round.                                     *)
TurnsOf(f, events, k, s) ==
  /\ f \in [0..MaxTurns -> States] /\ f[0] = Reasked(events, k, s)
  /\ RebuiltRound(events, s, k) = f[MaxTurns]
  /\ \A t \in 1..MaxTurns : f[t] = RebuiltTurn(events, k, f[t - 1], t - 1)

LEMMA TurnsDef ==
  ASSUME NEW events \in Seq(LogEvents), NEW k \in DOMAIN events, NEW s \in States
  PROVE  \E f : TurnsOf(f, events, k, s)
<1> DEFINE base == Reasked(events, k, s)
           Step(t, r) == RebuiltTurn(events, k, r, t - 1)
           turned[t \in 0..MaxTurns] == IF t = 0 THEN base ELSE Step(t, turned[t - 1])
           F == [t \in 1..MaxTurns |-> [r \in States |-> Step(t, r)]]
<1>1. PICK n \in Nat : n = MaxTurns
  BY ReplayAssumption
<1>2. base \in States /\ \A t \in 1..n : \A r \in States : Step(t, r) \in States
  BY ReaskedWell, RebuiltTurnWell
<1>3. RebuiltRound(events, s, k) = turned[n]
  BY <1>1 DEF RebuiltRound
<1> HIDE DEF Step, base
<1>4. \A t \in 1..n : \A r \in States : F[t][r] = Step(t, r) /\ F[t][r] \in States
  BY <1>1, <1>2
<1> HIDE DEF F
<1>5. PICK f : Loop(f, base, F, n, States)
  BY <1>2, <1>4, Recursion DEF Steps
<1>6. f = [t \in 0..n |-> IF t = 0 THEN base ELSE Step(t, f[t - 1])]
  BY <1>4, <1>5 DEF Loop
<1>7. turned = [t \in 0..n |-> IF t = 0 THEN base ELSE Step(t, turned[t - 1])]
  BY <1>1, <1>6
<1> HIDE DEF turned
<1>8. turned[0] = base /\ \A t \in 1..n : turned[t] = Step(t, turned[t - 1])
  BY <1>7
<1>9. \A t \in 0..n : turned[t] \in States
  <2> DEFINE T == {t \in 0..n : turned[t] \in States}
  <2>1. 0 \in T
    BY <1>2, <1>8
  <2>2. \A t \in 1..n : t - 1 \in T => t \in T
    BY <1>2, <1>8
  <2> HIDE DEF T
  <2>3. \A t \in 0..n : t \in T
    BY <2>1, <2>2, UpTo
  <2>4. QED
    BY <2>3 DEF T
<1>10. turned \in [0..n -> States]
  BY <1>7, <1>9
<1>11. TurnsOf(turned, events, k, s)
  BY <1>1, <1>3, <1>8, <1>10 DEF TurnsOf, Step, base
<1>12. QED
  BY <1>11

LEMMA RebuiltRoundWell ==
  ASSUME NEW events \in Seq(LogEvents), NEW k \in DOMAIN events, NEW s \in States
  PROVE  /\ RebuiltRound(events, s, k) \in States
         /\ Sound(s) => Sound(RebuiltRound(events, s, k))
<1>1. PICK f : TurnsOf(f, events, k, s)
  BY TurnsDef
<1>2. PICK n \in Nat : n = MaxTurns
  BY ReplayAssumption
<1>3. RebuiltRound(events, s, k) = f[n] /\ f \in [0..n -> States]
  BY <1>1, <1>2 DEF TurnsOf
<1>4. ASSUME Sound(s) PROVE Sound(f[n])
  <2> DEFINE T == {t \in 0..n : Sound(f[t])}
  <2>1. 0 \in T
    BY <1>1, <1>2, <1>4, ReaskedWell DEF TurnsOf
  <2>2. ASSUME NEW t \in 1..n, t - 1 \in T PROVE t \in T
    <3>1. Sound(f[t - 1]) /\ f[t - 1] \in States /\ f[t] = RebuiltTurn(events, k, f[t - 1], t - 1)
      BY <1>1, <1>2, <1>3, <2>2 DEF TurnsOf
    <3>2. Sound(f[t])
      BY <3>1, RebuiltTurnWell
    <3>3. QED
      BY <3>2
  <2> HIDE DEF T
  <2>3. n \in T
    BY <2>1, <2>2, UpTo
  <2>4. QED
    BY <2>3 DEF T
<1>5. QED
  BY <1>3, <1>4

(* The loop over the rounds.                                               *)
Queries(events) == Listed(Len(events), RoundsOf(events))
RebuiltOf(f, events) ==
  /\ f \in [0..Len(Queries(events)) -> States] /\ f[0] = Blank
  /\ Rebuilt(events) = f[Len(Queries(events))]
  /\ \A n \in 1..Len(Queries(events)) : f[n] = RebuiltRound(events, f[n - 1], Queries(events)[n])

LEMMA QueriesIn ==
  ASSUME NEW events \in Seq(LogEvents)
  PROVE  /\ Queries(events) \in Seq(Nat) /\ Len(Queries(events)) \in Nat
         /\ \A n \in 1..Len(Queries(events)) : Queries(events)[n] \in RoundsOf(events)
         /\ RoundsOf(events) \subseteq DOMAIN events
<1>1. Len(events) \in Nat
  OBVIOUS
<1>2. /\ Queries(events) \in Seq(Nat)
      /\ \A n \in DOMAIN Queries(events) : Queries(events)[n] \in RoundsOf(events)
  BY <1>1, ListedOrder DEF Queries
<1>3. QED
  BY <1>2 DEF RoundsOf

LEMMA BlankSound == Blank \in States /\ Sound(Blank)
  BY DEF Blank, States, Sound, AskedFirst

LEMMA RebuiltDef ==
  ASSUME NEW events \in Seq(LogEvents)
  PROVE  \E f : RebuiltOf(f, events)
<1> DEFINE asked == Queries(events)
           Step(m, r) == RebuiltRound(events, r, asked[m])
           rebuilt[m \in 0..Len(asked)] == IF m = 0 THEN Blank ELSE Step(m, rebuilt[m - 1])
           F == [m \in 1..Len(asked) |-> [r \in States |-> Step(m, r)]]
<1>1. PICK n \in Nat : n = Len(asked)
  BY QueriesIn
<1>2. Blank \in States /\ \A m \in 1..n : \A r \in States : Step(m, r) \in States
  BY <1>1, BlankSound, QueriesIn, RebuiltRoundWell
<1>3. Rebuilt(events) = rebuilt[n]
  BY <1>1 DEF Rebuilt, Queries
<1> HIDE DEF Step, asked
<1>4. \A m \in 1..n : \A r \in States : F[m][r] = Step(m, r) /\ F[m][r] \in States
  BY <1>1, <1>2
<1> HIDE DEF F
<1>5. PICK f : Loop(f, Blank, F, n, States)
  BY <1>2, <1>4, Recursion DEF Steps
<1>6. f = [m \in 0..n |-> IF m = 0 THEN Blank ELSE Step(m, f[m - 1])]
  BY <1>4, <1>5 DEF Loop
<1>7. rebuilt = [m \in 0..n |-> IF m = 0 THEN Blank ELSE Step(m, rebuilt[m - 1])]
  BY <1>1, <1>6
<1> HIDE DEF rebuilt
<1>8. rebuilt[0] = Blank /\ \A m \in 1..n : rebuilt[m] = Step(m, rebuilt[m - 1])
  BY <1>7
<1>9. \A m \in 0..n : rebuilt[m] \in States
  <2> DEFINE T == {m \in 0..n : rebuilt[m] \in States}
  <2>1. 0 \in T
    BY <1>2, <1>8
  <2>2. \A m \in 1..n : m - 1 \in T => m \in T
    BY <1>2, <1>8
  <2> HIDE DEF T
  <2>3. \A m \in 0..n : m \in T
    BY <2>1, <2>2, UpTo
  <2>4. QED
    BY <2>3 DEF T
<1>10. rebuilt \in [0..n -> States]
  BY <1>7, <1>9
<1>11. RebuiltOf(rebuilt, events)
  BY <1>1, <1>3, <1>8, <1>10 DEF RebuiltOf, Step, asked
<1>12. QED
  BY <1>11

LEMMA RebuiltWell == ASSUME NEW events \in Seq(LogEvents) PROVE Sound(Rebuilt(events))
<1>1. PICK f : RebuiltOf(f, events)
  BY RebuiltDef
<1>2. PICK n \in Nat : n = Len(Queries(events))
  BY QueriesIn
<1>3. Rebuilt(events) = f[n] /\ f \in [0..n -> States]
  BY <1>1, <1>2 DEF RebuiltOf
<1> DEFINE T == {m \in 0..n : Sound(f[m])}
<1>4. 0 \in T
  BY <1>1, BlankSound DEF RebuiltOf
<1>5. ASSUME NEW m \in 1..n, m - 1 \in T PROVE m \in T
  <2>1. Sound(f[m - 1]) /\ f[m - 1] \in States /\ f[m] = RebuiltRound(events, f[m - 1], Queries(events)[m])
    BY <1>1, <1>2, <1>3, <1>5 DEF RebuiltOf
  <2>2. Queries(events)[m] \in DOMAIN events
    BY <1>2, QueriesIn
  <2>3. Sound(f[m])
    BY <2>1, <2>2, RebuiltRoundWell
  <2>4. QED
    BY <2>3
<1> HIDE DEF T
<1>6. \A m \in 0..n : m \in T
  BY <1>4, <1>5, UpTo
<1>7. QED
  BY <1>3, <1>6 DEF T

-----------------------------------------------------------------------------
(* What is known of a conversation at any time: its turns, events and      *)
(* values are such, its tool turns stand behind their calls, and so does   *)
(* the reply in the works.                                                 *)
Talk ==
  /\ history \in Seq(Turns) /\ AskedFirst(history) /\ notes \in Nat
  /\ log \in Seq(LogEvents)
  /\ reply \in Seq(SoundCalls) /\ \A k \in DOMAIN reply : Called(history, reply[k].id)
  /\ inbox \in Seq(Nat) /\ steers \in Nat /\ rounds \in Nat /\ turn \in Nat

Placed ==
  /\ phase = "idle" => reply = <<>>
  /\ phase = "inline" => pos \in DOMAIN reply
  /\ phase = "executing" => told <= Len(batch) /\ pos + told - 1 <= Len(reply)

Values ==
  /\ cache \in [Keys -> Miss..MaxVersion]
  /\ \A k \in DOMAIN outcome : outcome[k].value \in Miss..MaxVersion

NameInv == Shaped /\ Talk /\ Placed /\ Values

LEMMA MissFits == MaxVersion \in Nat /\ Miss \in Miss..MaxVersion /\ Error \in Miss..MaxVersion
  BY ToolAssumption DEF Miss, Error

LEMMA InitNames == Init => NameInv
<1> SUFFICES ASSUME Init PROVE NameInv
  OBVIOUS
<1>1. Shaped
  BY InitShaped
<1>2. DOMAIN history = {} /\ history \in Seq(Turns) /\ AskedFirst(history)
  BY DEF Init, AskedFirst
<1>3. Talk
  BY <1>2 DEF Init, Talk
<1>4. Placed
  BY DEF Init, Placed
<1>5. Values
  BY MissFits DEF Init, BatchInit, Values
<1>6. QED
  BY <1>1, <1>3, <1>4, <1>5 DEF NameInv

(* An event of this turn.                                                  *)
LEMMA EventWell ==
  ASSUME NEW t \in Nat
  PROVE  /\ \A kind \in {"query", "steer", "final"}, v \in Int :
              [kind |-> kind, turn |-> t, call |-> NoCall, id |-> <<>>, value |-> v] \in LogEvents
         /\ \A id \in Ids, v \in Int :
              [kind |-> "result", turn |-> t, call |-> NoCall, id |-> id, value |-> v] \in LogEvents
         /\ \A call \in SoundCalls :
              [kind |-> "call", turn |-> t, call |-> call, id |-> call.id, value |-> Ok] \in LogEvents
  BY DEF LogEvents, SoundCalls, RealCalls, Ids, Ok

LEMMA ReplyIds ==
  ASSUME NameInv, NEW k \in DOMAIN reply
  PROVE  reply[k] \in SoundCalls /\ reply[k].id \in Ids /\ Called(history, reply[k].id)
  BY DEF NameInv, Talk, SoundCalls, RealCalls, Ids

(* The group is a stretch of the reply.                                    *)
LEMMA GroupWithin ==
  ASSUME Shaped
  PROVE  /\ Cardinality(Group) \in Nat /\ IsFiniteSet(Group)
         /\ \A k \in pos..(pos + Cardinality(Group) - 1) : k \in DOMAIN reply /\ ~Intercepted(reply[k])
<1>1. Group \subseteq 1..Len(reply) /\ Len(reply) \in Nat /\ DOMAIN reply = 1..Len(reply)
  BY DEF Group, Shaped
<1>2. IsFiniteSet(1..Len(reply))
  BY <1>1, FS_Interval
<1>3. IsFiniteSet(Group) /\ Cardinality(Group) \in Nat
  BY <1>1, <1>2, FS_Subset, FS_CardinalityType
<1>4. ASSUME NEW k \in pos..(pos + Cardinality(Group) - 1) PROVE k \in DOMAIN reply /\ ~Intercepted(reply[k])
  <2>1. k \in Group
    BY GroupIsNext
  <2>2. k \in pos..k
    BY <1>3 DEF Shaped
  <2>3. QED
    BY <2>1, <2>2 DEF Group
<1>5. QED
  BY <1>3, <1>4

(* Values of the tools.                                                    *)
LEMMA ValuesStep == ASSUME NameInv, RanKnown, [Next]_vars PROVE Values'
<1>1. CASE UNCHANGED <<cache, outcome>>
  BY <1>1 DEF NameInv, Values
<1>2. CASE Ask \/ Accept \/ Steer \/ Drain \/ ModelAnswers \/ ModelFails \/ AnnouncePseudo
           \/ AnswerPseudo \/ AnnounceCall \/ EndTurn \/ Quiet \/ UNCHANGED vars
  BY <1>1, <1>2 DEF Ask, Accept, Steer, Drain, ModelAnswers, ModelFails, AnnouncePseudo,
                    AnswerPseudo, AnnounceCall, EndTurn, Quiet, vars, batchVars
<1>3. ASSUME NEW calls \in Replies, ModelReplies(calls) PROVE Values'
  BY <1>1, <1>3 DEF ModelReplies, batchVars
<1>4. CASE EditFile
  BY <1>1, <1>4 DEF EditFile, Edit
<1>5. CASE Execute
  <2>1. cache' = cache /\ outcome' = [k \in DOMAIN batch' |-> Pending]
    BY <1>5 DEF Execute, StartBatch
  <2>2. Pending.value \in Miss..MaxVersion
    BY MissFits DEF Pending, Result
  <2>3. QED
    BY <2>1, <2>2 DEF NameInv, Values
<1>6. CASE Deliver \/ Cancel
  <2>1. cache' = cache /\ (outcome' = <<>> \/ outcome' = outcome)
    BY <1>6 DEF Deliver, Cancel, DropBatch, batchVars
  <2>2. QED
    BY <2>1, EmptyWell DEF NameInv, Values
<1>7. CASE Resume
  BY <1>7, MissFits DEF Resume, NameInv, Values
<1>8. CASE RunBatch
  <2>1. PICK k \in DOMAIN batch : Refuse(k) \/ Hit(k) \/ Begin(k) \/ Succeed(k) \/ Fail(k)
    BY <1>8 DEF RunBatch, BatchStep
  <2>2. /\ batch[k] \in RealCalls /\ HasFile(batch[k]) /\ world \in [Files -> Nat]
        /\ DOMAIN outcome = DOMAIN batch
    BY DEF NameInv, Shaped
  <2>3. CASE Refuse(k) \/ Fail(k)
    <3>1. cache' = cache /\ outcome' = [outcome EXCEPT ![k] = Result(Error, FALSE, TRUE)]
      BY <2>3 DEF Refuse, Fail, Done
    <3>2. Result(Error, FALSE, TRUE).value \in Miss..MaxVersion
      BY MissFits DEF Result
    <3>3. QED
      BY <2>2, <3>1, <3>2 DEF NameInv, Values
  <2>4. CASE Hit(k)
    <3>1. Key(batch[k]) \in Keys
      BY <2>2, <2>4 DEF Hit, Readonly, Tools, HasFile, Key, Keys
    <3>2. cache' = cache /\ outcome' = [outcome EXCEPT ![k] = Result(cache[Key(batch[k])], TRUE, FALSE)]
      BY <2>4 DEF Hit, Done
    <3>3. Result(cache[Key(batch[k])], TRUE, FALSE).value \in Miss..MaxVersion
      BY <3>1 DEF Result, NameInv, Values
    <3>4. QED
      BY <2>2, <3>2, <3>3 DEF NameInv, Values
  <2>5. CASE Begin(k)
    BY <2>5, <1>1 DEF Begin
  <2>6. CASE Succeed(k)
    <3>1. PICK v : /\ v = IF Readonly(batch[k]) THEN world[batch[k].file] ELSE world[batch[k].file] + 1
                   /\ outcome' = [outcome EXCEPT ![k] = Result(v, FALSE, FALSE)]
                   /\ Put(batch[k], v) /\ v <= MaxVersion
                   /\ at[k] = "running"
      BY <2>6 DEF Succeed, Done
    <3>2. batch[k].tool \in Tools
      BY <3>1 DEF RanKnown
    <3>3. batch[k].file \in Files /\ Key(batch[k]) \in Keys
      BY <2>2, <3>2 DEF HasFile, Key, Keys
    <3>4. v \in Miss..MaxVersion
      BY <2>2, <3>1, <3>3, MissFits DEF Miss
    <3>5. Result(v, FALSE, FALSE).value \in Miss..MaxVersion
      BY <3>4 DEF Result
    <3>6. cache' \in [Keys -> Miss..MaxVersion]
      BY <3>1, <3>3, <3>4 DEF Put, NameInv, Values
    <3>7. QED
      BY <2>2, <3>1, <3>5, <3>6 DEF NameInv, Values
  <2>7. QED
    BY <2>1, <2>3, <2>4, <2>5, <2>6
<1>9. QED
  BY <1>2, <1>3, <1>4, <1>5, <1>6, <1>7, <1>8 DEF Next

(* Where the loop is in a reply.                                           *)
LEMMA PlacedStep == ASSUME NameInv, [Next]_vars PROVE Placed'
<1>1. CASE UNCHANGED <<phase, reply, pos, told, batch>>
  BY <1>1 DEF NameInv, Placed
<1>2. CASE Ask \/ Accept \/ Drain \/ ModelAnswers \/ ModelFails \/ EndTurn \/ Cancel
  <2>1. phase' \in {"asked", "ready", "idle"} /\ (phase' = "idle" => reply' = <<>>)
    BY <1>2 DEF Ask, Accept, Drain, ModelAnswers, ModelFails, EndTurn, Cancel, Goto, Clear,
                NameInv, Placed
  <2>2. QED
    BY <2>1 DEF Placed
<1>3. CASE Steer \/ Quiet \/ EditFile \/ Resume \/ UNCHANGED vars
  BY <1>1, <1>3 DEF Steer, Quiet, EditFile, Edit, Resume, vars, batchVars, loopVars
<1>4. ASSUME NEW calls \in Replies, ModelReplies(calls) PROVE Placed'
  BY <1>4 DEF ModelReplies, Goto, Placed
<1>5. CASE AnnouncePseudo
  <2>1. pos \in DOMAIN reply
    BY <1>5 DEF AnnouncePseudo, NameInv, Shaped
  <2>2. QED
    BY <1>5, <2>1 DEF AnnouncePseudo, Goto, Placed
<1>6. CASE AnswerPseudo
  <2>1. phase' = "dispatch" \/ (phase' = "idle" /\ reply' = <<>>)
    BY <1>6 DEF AnswerPseudo, Goto, Clear
  <2>2. QED
    BY <2>1 DEF Placed
<1>7. CASE AnnounceCall
  BY <1>7 DEF AnnounceCall, Placed
<1>8. CASE Execute
  <2>1. /\ batch' = SubSeq(reply, pos, pos + told - 1) /\ told = Cardinality(Group)
        /\ Group # {} /\ UNCHANGED <<reply, pos, told>> /\ phase' = "executing"
    BY <1>8 DEF Execute, StartBatch, Goto
  <2>2. \A k \in pos..(pos + told - 1) : k \in DOMAIN reply
    BY <2>1, GroupWithin DEF NameInv
  <2>3. told # 0
    BY <2>1, GroupWithin, FS_EmptySet DEF NameInv
  <2>4. pos \in Nat \ {0} /\ told \in Nat \ {0} /\ Len(reply) \in Nat /\ DOMAIN reply = 1..Len(reply)
    BY <2>3 DEF NameInv, Shaped
  <2>5. pos + told - 1 <= Len(reply)
    BY <2>2, <2>4
  <2>6. Len(batch') = told
    <3>1. pos \in Int /\ pos + told - 1 \in Int /\ \A k \in pos..(pos + told - 1) : reply[k] \in RealCalls
      BY <2>2, <2>4 DEF NameInv, Shaped
    <3>2. Len(batch') = IF pos <= pos + told - 1 THEN (pos + told - 1) - pos + 1 ELSE 0
      BY <2>1, <3>1, SubSeqProperties
    <3>3. QED
      BY <2>4, <3>2
  <2>7. QED
    BY <2>1, <2>4, <2>5, <2>6 DEF Placed
<1>9. CASE RunBatch
  <2>1. UNCHANGED <<phase, reply, pos, told, batch>>
    BY <1>9 DEF RunBatch, BatchStep, Refuse, Hit, Begin, Succeed, Fail, loopVars
  <2>2. QED
    BY <1>1, <2>1
<1>10. CASE Deliver
  <2>1. /\ phase = "executing" /\ told > 0 /\ pos' = pos + 1 /\ told' = told - 1 /\ reply' = reply
    BY <1>10 DEF Deliver
  <2>2. told <= Len(batch) /\ pos + told - 1 <= Len(reply) /\ pos \in Nat /\ told \in Nat
        /\ Len(batch) \in Nat /\ Len(reply) \in Nat
    BY <2>1 DEF NameInv, Placed, Shaped
  <2>3. CASE told = 1
    <3>1. phase' = "dispatch"
      BY <1>10, <2>3 DEF Deliver, Goto
    <3>2. QED
      BY <3>1 DEF Placed
  <2>4. CASE told # 1
    <3>1. phase' = phase /\ batch' = batch
      BY <1>10, <2>4 DEF Deliver, batchVars
    <3>2. QED
      BY <2>1, <2>2, <3>1 DEF Placed
  <2>5. QED
    BY <2>3, <2>4
<1>11. QED
  BY <1>2, <1>3, <1>4, <1>5, <1>6, <1>7, <1>8, <1>9, <1>10 DEF Next

-----------------------------------------------------------------------------
(* The turns and events, action by action.  What is added to the history   *)
(* takes nothing from it, so that a reply that is kept stays called.       *)
LEMMA TalkAdds ==
  ASSUME NameInv,
         history' \in Seq(Turns), AskedFirst(history'), notes' \in Nat, log' \in Seq(LogEvents),
         \A id : Called(history, id) => Called(history', id),
         reply' = reply \/ reply' = <<>>,
         inbox' \in Seq(Nat), steers' \in Nat, rounds' \in Nat, turn' \in Nat
  PROVE  Talk'
<1>1. DOMAIN <<>> = {} /\ <<>> \in Seq(SoundCalls)
  OBVIOUS
<1>2. reply' \in Seq(SoundCalls) /\ \A k \in DOMAIN reply' : Called(history', reply'[k].id)
  BY <1>1 DEF NameInv, Talk
<1>3. QED
  BY <1>2 DEF Talk

LEMMA TalkStep == ASSUME NameInv, [Next]_vars PROVE Talk'
<1>0. /\ history \in Seq(Turns) /\ AskedFirst(history) /\ notes \in Nat /\ log \in Seq(LogEvents)
      /\ inbox \in Seq(Nat) /\ steers \in Nat /\ rounds \in Nat /\ turn \in Nat
  BY DEF NameInv, Talk
<1>1. CASE Ask
  <2>1. [Event("query", NoCall, <<>>, rounds + 1) EXCEPT !.turn = 0] \in LogEvents
    <3>1. [Event("query", NoCall, <<>>, rounds + 1) EXCEPT !.turn = 0]
            = [kind |-> "query", turn |-> 0, call |-> NoCall, id |-> <<>>, value |-> rounds + 1]
      BY DEF Event
    <3>2. rounds + 1 \in Int /\ 0 \in Nat
      BY <1>0
    <3>3. QED
      BY <3>1, <3>2, EventWell
  <2>2. log' \in Seq(LogEvents) /\ rounds' \in Nat /\ turn' \in Nat
        /\ UNCHANGED <<history, notes, reply, inbox, steers>>
    BY <1>0, <1>1, <2>1 DEF Ask
  <2>3. QED
    BY <1>0, <2>2, TalkAdds
<1>2. CASE Accept
  <2>1. history' = Append(history, UserTurn(rounds)) /\ UNCHANGED <<notes, log, reply, inbox, steers, rounds, turn>>
    BY <1>2 DEF Accept, Remember
  <2>2. UserTurn(rounds) \in Turns /\ UserTurn(rounds).role # "tool"
    BY <1>0, TurnKinds
  <2>3. history' \in Seq(Turns) /\ AskedFirst(history') /\ \A id : Called(history, id) => Called(history', id)
    BY <1>0, <2>1, <2>2, AddedTurn
  <2>4. QED
    BY <1>0, <2>1, <2>3, TalkAdds
<1>3. CASE Steer
  <2>1. inbox' \in Seq(Nat) /\ steers' \in Nat /\ UNCHANGED <<history, notes, log, reply, rounds, turn>>
    BY <1>0, <1>3 DEF Steer, Steering
  <2>2. QED
    BY <1>0, <2>1, TalkAdds
<1>4. CASE Drain
  <2>1. /\ history' = Append(history, UserTurn(Head(inbox))) /\ inbox' = Tail(inbox) /\ inbox # <<>>
        /\ log' = Append(log, Event("steer", NoCall, <<>>, Head(inbox)))
        /\ UNCHANGED <<notes, reply, rounds, turn, steers>>
    BY <1>4 DEF Drain, Remember, Log
  <2>2. Head(inbox) \in Nat /\ Tail(inbox) \in Seq(Nat)
    BY <1>0, <2>1
  <2>3. UserTurn(Head(inbox)) \in Turns /\ UserTurn(Head(inbox)).role # "tool"
    BY <2>2, TurnKinds
  <2>4. history' \in Seq(Turns) /\ AskedFirst(history') /\ \A id : Called(history, id) => Called(history', id)
    BY <1>0, <2>1, <2>3, AddedTurn
  <2>5. Event("steer", NoCall, <<>>, Head(inbox)) \in LogEvents
    <3>1. Head(inbox) \in Int
      BY <2>2
    <3>2. QED
      BY <1>0, <3>1, EventWell DEF Event
  <2>6. log' \in Seq(LogEvents)
    BY <1>0, <2>1, <2>5
  <2>7. QED
    BY <1>0, <2>1, <2>2, <2>4, <2>6, TalkAdds
<1>5. CASE ModelAnswers
  <2>1. /\ history' = Append(history, TextTurn) /\ log' = Append(log, Event("final", NoCall, <<>>, Ok))
        /\ reply' = <<>> /\ turn' = 0 /\ UNCHANGED <<notes, inbox, rounds, steers>>
    BY <1>5 DEF ModelAnswers, Remember, Log, Clear
  <2>2. history' \in Seq(Turns) /\ AskedFirst(history') /\ \A id : Called(history, id) => Called(history', id)
    BY <1>0, <2>1, TurnKinds, AddedTurn
  <2>3. Event("final", NoCall, <<>>, Ok) \in LogEvents
    BY <1>0, EventWell DEF Event, Ok
  <2>4. log' \in Seq(LogEvents)
    BY <1>0, <2>1, <2>3
  <2>5. QED
    BY <1>0, <2>1, <2>2, <2>4, TalkAdds
<1>6. CASE ModelFails \/ Cancel
  <2>1. reply' = <<>> /\ turn' = 0 /\ UNCHANGED <<history, log, notes, inbox, rounds, steers>>
    BY <1>6 DEF ModelFails, Cancel, Clear
  <2>2. QED
    BY <1>0, <2>1, TalkAdds
<1>7. ASSUME NEW calls \in Replies, ModelReplies(calls) PROVE Talk'
  <2> DEFINE asked == [k \in DOMAIN calls |-> [id |-> SynthId(calls[k].tool, minted + k),
                                                 tool |-> calls[k].tool, file |-> calls[k].file]]
  <2> DEFINE signed == {k \in DOMAIN calls : calls[k].signed}
  <2>1. /\ history' = Append(history, CallTurn(asked, signed)) /\ reply' = asked
        /\ UNCHANGED <<notes, log, inbox, rounds, steers, turn>>
    BY <1>7 DEF ModelReplies, Remember
  <2>0. signed \in SUBSET Nat
    <3>1. calls \in Seq(Range(calls))
      BY ReplayAssumption
    <3>2. DOMAIN calls = 1..Len(calls)
      BY <3>1
    <3>3. QED
      BY <3>2
  <2>2. asked \in Seq(RealCalls)
    BY AskedWell DEF NameInv, Shaped
  <2>3. \A k \in DOMAIN asked : asked[k].id[1] = asked[k].tool
    BY DEF SynthId
  <2> HIDE DEF asked, signed
  <2>4. asked \in Seq(SoundCalls)
    BY <2>2, <2>3 DEF SoundCalls
  <2>5. CallTurn(asked, signed) \in Turns /\ CallTurn(asked, signed).role # "tool" /\ CallTurn(asked, signed).calls = asked
    BY <2>0, <2>4, TurnKinds
  <2>6. /\ history' \in Seq(Turns) /\ AskedFirst(history')
        /\ \A c \in DOMAIN CallTurn(asked, signed).calls : Called(history', CallTurn(asked, signed).calls[c].id)
    BY <1>0, <2>1, <2>5, AddedTurn
  <2>7. QED
    BY <1>0, <2>1, <2>4, <2>5, <2>6 DEF Talk
<1>8. CASE AnnouncePseudo \/ AnnounceCall
  <2>1. PICK k \in DOMAIN reply : log' = Append(log, Event("call", reply[k], reply[k].id, Ok))
    <3>1. CASE AnnouncePseudo
      <4>1. pos \in DOMAIN reply
        BY <3>1 DEF AnnouncePseudo, NameInv, Shaped
      <4>2. QED
        BY <3>1, <4>1 DEF AnnouncePseudo, Log
    <3>2. CASE AnnounceCall
      <4>1. Cardinality(Group) \in Nat /\ told < Cardinality(Group) /\ told \in Nat /\ pos \in Nat
        BY <3>2, GroupWithin DEF AnnounceCall, NameInv, Shaped
      <4>2. pos + told \in pos..(pos + Cardinality(Group) - 1)
        BY <4>1
      <4>3. pos + told \in DOMAIN reply
        BY <4>2, GroupWithin DEF NameInv
      <4>4. QED
        BY <3>2, <4>3 DEF AnnounceCall, Log
    <3>3. QED
      BY <1>8, <3>1, <3>2
  <2>2. UNCHANGED <<history, notes, reply, inbox, rounds, steers, turn>>
    BY <1>8 DEF AnnouncePseudo, AnnounceCall
  <2>3. Event("call", reply[k], reply[k].id, Ok) \in LogEvents
    BY <1>0, ReplyIds, EventWell DEF Event
  <2>4. log' \in Seq(LogEvents)
    BY <1>0, <2>1, <2>3
  <2>5. QED
    BY <1>0, <2>2, <2>4, TalkAdds
<1>9. CASE AnswerPseudo
  <2> DEFINE v == AnswerTo(reply[pos], Oracle)
             t == ToolTurn(reply[pos].id, v)
             h == Append(history, t)
  <2>1. pos \in DOMAIN reply
    BY <1>9 DEF AnswerPseudo, NameInv, Placed
  <2>2. reply[pos].id \in Ids /\ Called(history, reply[pos].id) /\ v \in Int /\ v \in Contents
    BY <2>1, ReplyIds, AnswersAre
  <2>3. t \in Turns /\ t.id = reply[pos].id
    BY <2>2, TurnKinds
  <2>4. /\ h \in Seq(Turns) /\ AskedFirst(h) /\ \A id : Called(history, id) => Called(h, id)
        /\ history \o <<t>> = h
    BY <1>0, <2>2, <2>3, AddedTurn
  <2>5. TextTurn \in Turns /\ TextTurn.role # "tool"
    BY TurnKinds
  <2>6. history \o <<t, TextTurn>> = Append(h, TextTurn)
    BY <1>0, <2>3, <2>5
  <2>7. history' = h \/ history' = Append(h, TextTurn)
    BY <1>9, <2>4, <2>6 DEF AnswerPseudo
  <2> HIDE DEF t, h, v
  <2>8. history' \in Seq(Turns) /\ AskedFirst(history') /\ \A id : Called(history, id) => Called(history', id)
    BY <2>4, <2>5, <2>7, AddedTurn
  <2>9. \E e \in LogEvents : log' = Append(log, e)
    <3>1. Event("final", NoCall, <<>>, Ok) \in LogEvents /\ Event("result", NoCall, reply[pos].id, v) \in LogEvents
      BY <1>0, <2>2, EventWell DEF Event, Ok
    <3>2. QED
      BY <1>9, <3>1 DEF AnswerPseudo, Log, v
  <2>10. log' \in Seq(LogEvents)
    BY <1>0, <2>9
  <2>11. notes' \in Nat /\ (reply' = reply \/ reply' = <<>>) /\ turn' \in Nat
         /\ UNCHANGED <<inbox, rounds, steers>>
    BY <1>0, <1>9 DEF AnswerPseudo, Clear
  <2>12. QED
    BY <1>0, <2>8, <2>10, <2>11, TalkAdds
<1>10. CASE Deliver
  <2>1. PICK k, v : /\ k = Len(batch) - told + 1 /\ phase = "executing" /\ told > 0
                    /\ v = Truncate(outcome[k].value)
                    /\ history' = Append(history, ToolTurn(reply[pos].id, v))
                    /\ log' = Append(log, Event("result", NoCall, reply[pos].id, v))
    BY <1>10 DEF Deliver, Remember, Log
  <2>2. UNCHANGED <<notes, reply, inbox, rounds, steers, turn>>
    BY <1>10 DEF Deliver
  <2>3. told <= Len(batch) /\ pos + told - 1 <= Len(reply) /\ pos \in Nat \ {0} /\ told \in Nat
        /\ Len(batch) \in Nat /\ Len(reply) \in Nat /\ DOMAIN reply = 1..Len(reply)
        /\ DOMAIN outcome = 1..Len(batch)
    BY <2>1 DEF NameInv, Placed, Shaped
  <2>4. pos \in DOMAIN reply /\ k \in DOMAIN outcome
    BY <2>1, <2>3
  <2>5. v \in Int /\ v \in Contents
    <3>1. outcome[k].value \in Miss..MaxVersion
      BY <2>4 DEF NameInv, Values
    <3>2. v \in Int
      BY <2>1, <3>1, ReplayAssumption
    <3>3. QED
      BY <3>2, AnswersAre
  <2>6. reply[pos].id \in Ids /\ Called(history, reply[pos].id)
    BY <2>4, ReplyIds
  <2>7. ToolTurn(reply[pos].id, v) \in Turns /\ ToolTurn(reply[pos].id, v).id = reply[pos].id
    BY <2>5, <2>6, TurnKinds
  <2>8. history' \in Seq(Turns) /\ AskedFirst(history') /\ \A id : Called(history, id) => Called(history', id)
    BY <1>0, <2>1, <2>6, <2>7, AddedTurn
  <2>9. Event("result", NoCall, reply[pos].id, v) \in LogEvents
    BY <1>0, <2>5, <2>6, EventWell DEF Event
  <2>10. log' \in Seq(LogEvents)
    BY <1>0, <2>1, <2>9
  <2>11. QED
    BY <1>0, <2>2, <2>8, <2>10, TalkAdds
<1>11. CASE EndTurn
  <2>1. turn' \in Nat /\ (reply' = reply \/ reply' = <<>>) /\ UNCHANGED <<history, log, notes, inbox, rounds, steers>>
    BY <1>0, <1>11 DEF EndTurn, Clear
  <2>2. QED
    BY <1>0, <2>1, TalkAdds
<1>12. CASE Resume
  <2>1. /\ history' = Rebuilt(log).history /\ notes' = Rebuilt(log).notes /\ inbox' = <<>>
        /\ UNCHANGED <<log, reply, rounds, steers, turn>> /\ phase = "idle"
    BY <1>12 DEF Resume
  <2>2. Sound(Rebuilt(log))
    BY <1>0, RebuiltWell
  <2>3. history' \in Seq(Turns) /\ AskedFirst(history') /\ notes' \in Nat
    BY <2>1, <2>2 DEF Sound, States
  <2>4. reply' = <<>> /\ DOMAIN <<>> = {}
    BY <2>1 DEF NameInv, Placed
  <2>5. reply' \in Seq(SoundCalls) /\ \A k \in DOMAIN reply' : Called(history', reply'[k].id)
    BY <2>4
  <2>6. QED
    BY <1>0, <2>1, <2>3, <2>5 DEF Talk
<1>13. CASE Execute \/ RunBatch \/ EditFile \/ Quiet \/ UNCHANGED vars
  <2>1. UNCHANGED <<history, notes, log, reply, inbox, steers, rounds, turn>>
    BY <1>13 DEF Execute, RunBatch, EditFile, Quiet, vars, loopVars
  <2>2. QED
    BY <1>0, <2>1, TalkAdds
<1>14. QED
  BY <1>1, <1>2, <1>3, <1>4, <1>5, <1>6, <1>7, <1>8, <1>9, <1>10, <1>11, <1>12, <1>13 DEF Next

(* Every result in a prompt is sent under the name of the very call it     *)
(* answers, whichever processes gave out the ids (harness/adapters/gemini  *)
(* .py): the first call of an id and the last one before the result need   *)
(* not be the same, but their tool is.                                     *)
THEOREM ResultsNamed == Spec => []NamedResults
<1>1. ASSUME NameInv PROVE NamedResults
  <2>1. SUFFICES ASSUME NEW k \in DOMAIN history, history[k].role = "tool"
        PROVE LET asking(j) == {c \in DOMAIN history[j].calls : history[j].calls[c].id = history[k].id}
                  last == Max({j \in 1..k : asking(j) # {}})
              IN ToolNameFromCallId(history[k].id, history) = history[last].calls[Max(asking(last))].tool
    BY DEF NamedResults
  <2> DEFINE id == history[k].id
             asking(j) == {c \in DOMAIN history[j].calls : history[j].calls[c].id = id}
             before_k == {j \in 1..k : asking(j) # {}}
             naming == {j \in DOMAIN history : asking(j) # {}}
  <2>2. /\ history \in Seq(Turns) /\ AskedFirst(history) /\ k \in Nat /\ 1..k \subseteq DOMAIN history
    BY <1>1 DEF NameInv, Talk
  <2>3. \A j \in DOMAIN history : history[j].calls \in Seq(SoundCalls)
    <3>1. \A j \in DOMAIN history : history[j] \in Turns
      BY <2>2
    <3>2. QED
      BY <3>1 DEF Turns
  <2>4. ASSUME NEW j \in DOMAIN history, NEW c \in asking(j) PROVE history[j].calls[c].tool = id[1]
    <3>1. history[j].calls[c] \in SoundCalls /\ history[j].calls[c].id = id
      BY <2>3, <2>4
    <3>2. QED
      BY <3>1 DEF SoundCalls
  <2>5. \A j \in DOMAIN history : asking(j) # {} =>
          Max(asking(j)) \in asking(j) /\ Min(asking(j)) \in asking(j)
    <3>1. SUFFICES ASSUME NEW j \in DOMAIN history, asking(j) # {}
                   PROVE  Max(asking(j)) \in asking(j) /\ Min(asking(j)) \in asking(j)
      OBVIOUS
    <3>2. PICK n \in Nat : DOMAIN history[j].calls = 1..n
      BY <2>3
    <3>3. asking(j) \in SUBSET (1..n)
      BY <3>2
    <3>4. asking(j) \in SUBSET Nat
      BY <3>3
    <3> HIDE DEF asking
    <3>5. Max(asking(j)) \in asking(j)
      BY <3>1, <3>3, GreatestOf
    <3>6. Min(asking(j)) \in asking(j)
      BY <3>1, <3>4, LeastOf
    <3>7. QED
      BY <3>5, <3>6
  <2>6. before_k # {}
    BY <2>1, <2>2 DEF AskedFirst
  <2>7. before_k \in SUBSET (1..k) /\ before_k \subseteq naming
    BY <2>2
  <2>8. naming \in SUBSET Nat /\ naming # {}
    BY <2>2, <2>6, <2>7
  <2>9. Max(before_k) \in before_k
    BY <2>2, <2>6, <2>7, GreatestOf
  <2>10. Min(naming) \in naming
    BY <2>8, LeastOf
  <2>11. ToolNameFromCallId(id, history) = history[Min(naming)].calls[Min(asking(Min(naming)))].tool
    BY <2>8 DEF ToolNameFromCallId
  <2>12. history[Min(naming)].calls[Min(asking(Min(naming)))].tool = id[1]
    BY <2>4, <2>5, <2>10
  <2>13. history[Max(before_k)].calls[Max(asking(Max(before_k)))].tool = id[1]
    BY <2>4, <2>5, <2>7, <2>9
  <2>14. QED
    BY <2>11, <2>12, <2>13
<1>2. NameInv /\ BatchInv /\ [Next]_vars => NameInv'
  BY ShapeStep, TalkStep, PlacedStep, ValuesStep DEF NameInv, BatchInv
<1>3. QED
  BY <1>1, <1>2, InitNames, InitBatch, BatchStepKept, PTL DEF Spec
-----------------------------------------------------------------------------
(* Rebuilding.  A log is whole but for the results of some owed calls if   *)
(* every other real call has its result, the results in the order of their *)
(* calls, the turns of a round go up, and no call stands behind what ended *)
(* its round.  If nothing is owed, the loop that rebuilds serves each call *)
(* the result that answered it.                                            *)
Terminal(call) == call.tool \in Ending
Ends(e) == e.kind = "final" \/ (e.kind = "call" /\ Terminal(e.call))
RealPlaces(L) == {j \in CallPlaces(L) : ~Intercepted(L[j].call)}

Whole(L, owed) ==
  /\ \A k \in DOMAIN L : L[k].kind = "result" => CallPlace(L, k) \in CallPlaces(L) \cap (1..(k - 1))
  /\ \A k \in Recorded(L) : CallPlace(L, k) \notin owed
  /\ \A k, l \in Recorded(L) : k < l => CallPlace(L, k) < CallPlace(L, l)
  /\ \A j \in RealPlaces(L) \ owed : \E k \in Recorded(L) : CallPlace(L, k) = j
  /\ \A k \in RoundsOf(L) : \A i, j \in InRound(L, k) :
       i < j => L[i].turn <= L[j].turn /\ (L[j].kind = "call" => ~Ends(L[i]))
  /\ \A j \in CallPlaces(L) : L[j].turn < MaxTurns /\ \E k \in RoundsOf(L) : j \in InRound(L, k)

(* The results served once the calls at some places are.                   *)
ServedBy(L, D) == {r \in Recorded(L) : CallPlace(L, r) \in D}
Again(call, value) == IF Intercepted(call) THEN AnswerTo(call, TRUE) ELSE Truncate(value)
ValueOf(L, j) == Again(L[j].call, L[CHOOSE r \in Recorded(L) : CallPlace(L, r) = j].value)

(* The calls before a turn of a round.                                     *)
Before(L, k, t) == {x \in CallPlaces(L) : x < k \/ (x \in InRound(L, k) /\ L[x].turn < t)}

LEMMA Places ==
  ASSUME NEW L \in Seq(LogEvents)
  PROVE  /\ Len(L) \in Nat /\ DOMAIN L = 1..Len(L)
         /\ Recorded(L) \subseteq DOMAIN L /\ RoundsOf(L) \subseteq DOMAIN L /\ CallPlaces(L) \subseteq DOMAIN L
         /\ RealPlaces(L) \subseteq CallPlaces(L)
         /\ \A k : InRound(L, k) \subseteq DOMAIN L
         /\ \A j \in DOMAIN L : L[j] \in LogEvents /\ L[j].turn \in Nat
         /\ \A j \in CallPlaces(L) : L[j].kind = "call" /\ L[j].call \in SoundCalls /\ L[j].id = L[j].call.id
         /\ \A j \in CallPlaces(L) : j \notin RoundsOf(L)
<1>1. \A j \in DOMAIN L : L[j] \in LogEvents /\ L[j].turn \in Nat
  <2>1. \A j \in DOMAIN L : L[j] \in LogEvents
    OBVIOUS
  <2>2. QED
    BY <2>1 DEF LogEvents
<1>2. \A j \in CallPlaces(L) : L[j].kind = "call" /\ L[j].call \in SoundCalls /\ L[j].id = L[j].call.id
  BY <1>1 DEF CallPlaces, LogEvents
<1>3. QED
  BY <1>1, <1>2 DEF Recorded, RoundsOf, CallPlaces, RealPlaces, InRound

(* A result is of one call, and a call has one result.                     *)
LEMMA AnsweredOnce ==
  ASSUME NEW L \in Seq(LogEvents), NEW owed, Whole(L, owed), NEW r \in Recorded(L)
  PROVE  /\ CallPlace(L, r) \in RealPlaces(L) \ owed
         /\ r \in Nat /\ CallPlace(L, r) \in Nat /\ CallPlace(L, r) < r
         /\ \A x \in Recorded(L) : CallPlace(L, x) = CallPlace(L, r) => x = r
         /\ ~Intercepted(L[CallPlace(L, r)].call) /\ ValueOf(L, CallPlace(L, r)) = Truncate(L[r].value)
<1>0. \A x \in Recorded(L) : x \in Nat /\ CallPlace(L, x) \in Nat /\ CallPlace(L, x) < x
  <2>1. SUFFICES ASSUME NEW x \in Recorded(L)
                 PROVE  x \in Nat /\ CallPlace(L, x) \in Nat /\ CallPlace(L, x) < x
    OBVIOUS
  <2>2. x \in Nat
    BY Places
  <2>3. CallPlace(L, x) \in 1..(x - 1)
    BY DEF Whole, Recorded
  <2>4. QED
    BY <2>2, <2>3
<1>1. CallPlace(L, r) \in RealPlaces(L) \ owed
  BY DEF Whole, RealPlaces, Recorded, CallOf
<1>2. ASSUME NEW x \in Recorded(L), CallPlace(L, x) = CallPlace(L, r) PROVE x = r
  <2>1. ~(x < r) /\ ~(r < x)
    BY <1>0, <1>2 DEF Whole
  <2>2. QED
    BY <1>0, <2>1
<1>3. (CHOOSE x \in Recorded(L) : CallPlace(L, x) = CallPlace(L, r)) = r
  BY <1>2
<1>4. QED
  BY <1>0, <1>1, <1>2, <1>3 DEF ValueOf, Again, RealPlaces

LEMMA ServedAnswer ==
  ASSUME NEW L \in Seq(LogEvents), Whole(L, {}), NEW r \in Recorded(L), NEW D,
         \A x \in RealPlaces(L) : x \in D <=> x < CallPlace(L, r)
  PROVE  Served(L, ServedBy(L, D), L[CallPlace(L, r)].call) = {r}
<1> DEFINE call == L[CallPlace(L, r)].call
           served == ServedBy(L, D)
           asks(k) == Asks(CallOf(L, k))
           left == {k \in Recorded(L) \ served : asks(k).tool = call.tool}
           first(k) == Min({j \in Recorded(L) : asks(j) = asks(k)})
           own == {k \in left : asks(k) = Asks(call)}
           others == {k \in left : \A j \in left : first(k) <= first(j)}
<1>1. Served(L, served, call) =
        IF own # {} THEN {Min(own)} ELSE IF others # {} THEN {Min(others)} ELSE {}
  BY DEF Served, Serving
<1>2. asks(r) = Asks(call) /\ asks(r).tool = call.tool
  BY DEF CallOf, Asks
<1>3. CallPlace(L, r) \in RealPlaces(L) /\ CallPlace(L, r) \in Nat /\ r \in Nat
  BY AnsweredOnce
<1>4. r \notin served
  BY <1>3 DEF ServedBy
<1>5. r \in own
  BY <1>2, <1>4
<1>6. ASSUME NEW y \in own PROVE r <= y
  <2>1. y \in Recorded(L) /\ y \notin served /\ y \in Nat
    BY Places
  <2>2. CallPlace(L, y) \in RealPlaces(L) /\ CallPlace(L, y) \in Nat
    BY <2>1, AnsweredOnce
  <2>3. ~(CallPlace(L, y) < CallPlace(L, r))
    BY <2>1, <2>2 DEF ServedBy
  <2>4. ~(y < r)
    BY <2>1, <2>3 DEF Whole
  <2>5. QED
    BY <1>3, <2>1, <2>4
<1>7. own \in SUBSET Nat
  BY Places
<1> HIDE DEF own, others, served, call
<1>8. Min(own) \in own /\ Min(own) <= r /\ Min(own) \in Nat
  BY <1>5, <1>7, LeastOf
<1>9. Min(own) = r
  BY <1>3, <1>6, <1>8
<1>10. QED
  BY <1>1, <1>5, <1>9 DEF served, call

(* One call, the ones before it served.                                    *)
LEMMA CallTold ==
  ASSUME NEW L \in Seq(LogEvents), Whole(L, {}), NEW j \in CallPlaces(L), NEW D,
         \A x \in CallPlaces(L) : x \in D <=> x < j,
         NEW s \in States, ~s.over, s.served = ServedBy(L, D)
  PROVE  RebuiltCall(L, s, L[j]) =
           [Answer(s, L[j], ValueOf(L, j)) EXCEPT !.served = ServedBy(L, D \cup {j})]
<1> DEFINE e == L[j]
           taken == Served(L, s.served, e.call)
           value == IF taken = {} THEN Error ELSE L[Max(taken)].value
<1>1. e \in LogEvents /\ e.kind = "call" /\ RealPlaces(L) \subseteq CallPlaces(L)
  BY Places
<1>2. \A v \in Contents : Answer(s, e, v) \in States /\ Answer(s, e, v).served = s.served
  BY <1>1, AnswerWell
<1>3. RebuiltCall(L, s, e) =
        IF Intercepted(e.call) THEN Answer(s, e, AnswerTo(e.call, TRUE))
        ELSE [Answer(s, e, Truncate(value)) EXCEPT !.served = @ \cup taken]
  BY DEF RebuiltCall
<1>4. CASE Intercepted(e.call)
  <2>1. ServedBy(L, D \cup {j}) = ServedBy(L, D)
    <3>1. \A r \in Recorded(L) : CallPlace(L, r) # j
      BY <1>4, AnsweredOnce DEF RealPlaces
    <3>2. QED
      BY <3>1 DEF ServedBy
  <2>2. Answer(s, e, AnswerTo(e.call, TRUE)) \in States /\ Answer(s, e, AnswerTo(e.call, TRUE)).served = ServedBy(L, D)
    BY <1>2, AnswersAre
  <2>3. [Answer(s, e, AnswerTo(e.call, TRUE)) EXCEPT !.served = ServedBy(L, D)] = Answer(s, e, AnswerTo(e.call, TRUE))
    BY <2>2 DEF States
  <2>4. ValueOf(L, j) = AnswerTo(e.call, TRUE)
    BY <1>4 DEF ValueOf, Again
  <2>5. QED
    BY <1>3, <1>4, <2>1, <2>3, <2>4
<1>5. CASE ~Intercepted(e.call)
  <2>1. PICK r \in Recorded(L) : CallPlace(L, r) = j
    BY <1>5 DEF Whole, RealPlaces
  <2>2. taken = {r}
    <3>1. \A x \in RealPlaces(L) : x \in D <=> x < CallPlace(L, r)
      BY <1>1, <2>1
    <3>2. Served(L, ServedBy(L, D), L[CallPlace(L, r)].call) = {r}
      BY <3>1, ServedAnswer
    <3>3. QED
      BY <2>1, <3>2
  <2>3. r \in Nat /\ Max(taken) = r /\ value = L[r].value
    BY <2>2, GreatestOne, Places
  <2>4. ValueOf(L, j) = Truncate(value)
    BY <1>5, <2>1, <2>3, AnsweredOnce DEF Again
  <2>5. ServedBy(L, D) \cup {r} = ServedBy(L, D \cup {j})
    BY <2>1, AnsweredOnce DEF ServedBy
  <2>6. Truncate(value) \in Contents
    <3>1. L[r] \in LogEvents
      BY Places
    <3>2. value \in Int
      BY <2>3, <3>1 DEF LogEvents
    <3>3. QED
      BY <3>2, AnswersAre
  <2>7. Answer(s, e, Truncate(value)).served = ServedBy(L, D) /\ Answer(s, e, Truncate(value)) \in States
    BY <1>2, <2>6
  <2> HIDE DEF taken, value
  <2>8. RebuiltCall(L, s, e) = [Answer(s, e, Truncate(value)) EXCEPT !.served = ServedBy(L, D) \cup {r}]
    BY <1>3, <1>5, <2>2, <2>7 DEF States
  <2>9. QED
    BY <2>4, <2>5, <2>8
<1>6. QED
  BY <1>4, <1>5

(* The calls of a turn stand behind all calls of the turns before.         *)
CallsAt(L, k, t) == Listed(Len(L), Bucket(L, k, t, "call"))
Passed(L, k, t, n) == Before(L, k, t) \cup {CallsAt(L, k, t)[i] : i \in 1..n}

LEMMA CallsAtWell ==
  ASSUME NEW L \in Seq(LogEvents), NEW k, NEW t
  PROVE  /\ CallsAt(L, k, t) \in Seq(CallPlaces(L)) /\ Len(CallsAt(L, k, t)) \in Nat
         /\ DOMAIN CallsAt(L, k, t) = 1..Len(CallsAt(L, k, t))
         /\ Ascending(CallsAt(L, k, t))
         /\ \A i \in 1..Len(CallsAt(L, k, t)) : CallsAt(L, k, t)[i] \in Bucket(L, k, t, "call")
         /\ \A x \in Bucket(L, k, t, "call") : \E i \in 1..Len(CallsAt(L, k, t)) : CallsAt(L, k, t)[i] = x
<1>1. CallsAt(L, k, t) \in Seq(CallPlaces(L))
  BY CallsInPlace DEF CallsAt
<1>2. Len(CallsAt(L, k, t)) \in Nat /\ DOMAIN CallsAt(L, k, t) = 1..Len(CallsAt(L, k, t))
  BY <1>1
<1>3. Len(L) \in Nat /\ Bucket(L, k, t, "call") \subseteq 1..Len(L)
  BY Places DEF Bucket
<1>4. /\ Ascending(CallsAt(L, k, t))
      /\ \A i \in DOMAIN CallsAt(L, k, t) : CallsAt(L, k, t)[i] \in Bucket(L, k, t, "call")
      /\ \A x \in Bucket(L, k, t, "call") \cap (1..Len(L)) :
           \E i \in DOMAIN CallsAt(L, k, t) : CallsAt(L, k, t)[i] = x
  BY <1>3, ListedOrder DEF CallsAt
<1>5. QED
  BY <1>1, <1>2, <1>3, <1>4

LEMMA TurnOrder ==
  ASSUME NEW L \in Seq(LogEvents), Whole(L, {}), NEW k \in RoundsOf(L), NEW t \in Nat,
         NEW i \in 1..Len(CallsAt(L, k, t)), NEW x \in CallPlaces(L)
  PROVE  x \in Passed(L, k, t, i - 1) <=> x < CallsAt(L, k, t)[i]
<1> DEFINE cs == CallsAt(L, k, t)
           j == cs[i]
<1>1. j \in InRound(L, k) /\ L[j].turn = t /\ j \in CallPlaces(L)
  <2>1. j \in Bucket(L, k, t, "call")
    BY CallsAtWell
  <2>2. QED
    BY <2>1, Places DEF Bucket, CallPlaces
<1>2. /\ j \in Nat /\ x \in Nat /\ k \in Nat /\ i \in Nat /\ L[x].turn \in Nat
      /\ x \in DOMAIN L /\ L[x].kind = "call" /\ x # k
  <2>1. j \in DOMAIN L /\ x \in DOMAIN L /\ k \in DOMAIN L /\ DOMAIN L = 1..Len(L) /\ Len(L) \in Nat
    BY <1>1, Places
  <2>2. L[x].turn \in Nat /\ L[x].kind = "call" /\ x # k
    BY <2>1, Places
  <2>3. i \in Nat
    BY CallsAtWell
  <2> HIDE DEF j
  <2>4. QED
    BY <2>1, <2>2, <2>3
<1>3. k < j /\ \A q \in RoundsOf(L) : q <= k \/ j < q
  BY <1>1 DEF InRound
<1>4. \A q \in RoundsOf(L) : q \in Nat
  BY Places
<1>5. ASSUME x \in Passed(L, k, t, i - 1) PROVE x < j
  <2>1. CASE x < k
    BY <1>2, <1>3, <2>1
  <2>2. CASE x \in InRound(L, k) /\ L[x].turn < t
    <3>1. ~(j < x) /\ x # j
      BY <1>1, <1>2, <2>2 DEF Whole
    <3>2. QED
      BY <1>2, <3>1
  <2>3. CASE \E y \in 1..(i - 1) : x = cs[y]
    <3>1. PICK y \in 1..(i - 1) : x = cs[y]
      BY <2>3
    <3>2. y \in DOMAIN cs /\ i \in DOMAIN cs /\ y < i
      BY CallsAtWell
    <3>3. QED
      BY <3>1, <3>2, CallsAtWell DEF Ascending
  <2>4. QED
    BY <1>5, <2>1, <2>2, <2>3 DEF Passed, Before
<1>6. ASSUME x < j PROVE x \in Passed(L, k, t, i - 1)
  <2>1. CASE x < k
    BY <2>1 DEF Passed, Before
  <2>2. CASE k < x
    <3>1. x \in InRound(L, k)
      <4>1. \A q \in RoundsOf(L) : q <= k \/ x < q
        BY <1>2, <1>3, <1>4, <1>6
      <4>2. QED
        BY <1>2, <2>2, <4>1 DEF InRound
    <3>2. L[x].turn <= t
      BY <1>1, <1>6, <3>1 DEF Whole
    <3>3. CASE L[x].turn < t
      BY <3>1, <3>3 DEF Passed, Before
    <3>4. CASE L[x].turn = t
      <4>1. x \in Bucket(L, k, t, "call")
        BY <1>2, <3>1, <3>4 DEF Bucket
      <4>2. PICK y \in 1..Len(cs) : cs[y] = x
        BY <4>1, CallsAtWell
      <4>3. y \in DOMAIN cs /\ i \in DOMAIN cs
        BY CallsAtWell
      <4>4. ~(i < y) /\ y # i
        <5>1. i < y => cs[i] < cs[y]
          BY <4>3, CallsAtWell DEF Ascending
        <5>2. QED
          BY <1>2, <1>6, <4>2, <5>1
      <4>5. y \in 1..(i - 1)
        BY <4>4, CallsAtWell
      <4>6. QED
        BY <4>2, <4>5 DEF Passed
    <3>5. QED
      BY <1>2, <3>2, <3>3, <3>4
  <2>3. QED
    BY <1>2, <2>1, <2>2
<1>7. QED
  BY <1>5, <1>6

LEMMA PassedTurn ==
  ASSUME NEW L \in Seq(LogEvents), Whole(L, {}), NEW k \in RoundsOf(L), NEW t \in Nat
  PROVE  /\ Passed(L, k, t, 0) = Before(L, k, t)
         /\ Passed(L, k, t, Len(CallsAt(L, k, t))) = Before(L, k, t + 1)
         /\ \A i \in 1..Len(CallsAt(L, k, t)) :
              Passed(L, k, t, i) = Passed(L, k, t, i - 1) \cup {CallsAt(L, k, t)[i]}
<1> DEFINE cs == CallsAt(L, k, t)
<1>1. Len(cs) \in Nat /\ (\A i \in 1..Len(cs) : cs[i] \in Bucket(L, k, t, "call"))
      /\ (\A x \in Bucket(L, k, t, "call") : \E i \in 1..Len(cs) : cs[i] = x)
  BY CallsAtWell
<1> HIDE DEF cs
<1>2. Passed(L, k, t, 0) = Before(L, k, t)
  BY DEF Passed
<1>3. {cs[i] : i \in 1..Len(cs)} = Bucket(L, k, t, "call")
  BY <1>1
<1>4. Before(L, k, t) \cup Bucket(L, k, t, "call") = Before(L, k, t + 1)
  <2>1. ASSUME NEW x \in CallPlaces(L)
        PROVE  x \in Before(L, k, t + 1) <=> x \in Before(L, k, t) \/ x \in Bucket(L, k, t, "call")
    <3>1. L[x].turn \in Nat /\ L[x].kind = "call"
      BY Places
    <3>2. L[x].turn < t + 1 <=> L[x].turn < t \/ L[x].turn = t
      BY <3>1
    <3>3. QED
      BY <3>1, <3>2 DEF Before, Bucket
  <2>2. Bucket(L, k, t, "call") \subseteq CallPlaces(L)
    BY Places DEF Bucket, CallPlaces
  <2>3. QED
    BY <2>1, <2>2 DEF Before
<1>5. ASSUME NEW i \in 1..Len(cs)
      PROVE  Passed(L, k, t, i) = Passed(L, k, t, i - 1) \cup {cs[i]}
  <2>1. 1..i = 1..(i - 1) \cup {i}
    BY <1>1
  <2>2. {cs[y] : y \in 1..i} = {cs[y] : y \in 1..(i - 1)} \cup {cs[i]}
    BY <2>1
  <2>3. QED
    BY <2>2 DEF Passed, cs
<1>6. QED
  BY <1>2, <1>3, <1>4, <1>5 DEF Passed, cs

(* A turn's calls, each answered as it was.                                *)
Told(L, s, j, D) == [Answer(s, L[j], ValueOf(L, j)) EXCEPT !.served = ServedBy(L, D)]

LEMMA CallsTold ==
  ASSUME NEW L \in Seq(LogEvents), Whole(L, {}), NEW k \in RoundsOf(L), NEW t \in Nat,
         NEW s \in States, ~s.over, s.served = ServedBy(L, Before(L, k, t)),
         NEW g, CallsOf(g, L, CallsAt(L, k, t), s)
  PROVE  /\ \A i \in 1..Len(CallsAt(L, k, t)) :
              /\ ~g[i - 1].over
              /\ g[i] = Told(L, g[i - 1], CallsAt(L, k, t)[i], Passed(L, k, t, i))
         /\ g[Len(CallsAt(L, k, t))].served = ServedBy(L, Before(L, k, t + 1))
         /\ g[Len(CallsAt(L, k, t))].over =>
              \E i \in InRound(L, k) : Ends(L[i]) /\ L[i].turn = t
<1> DEFINE cs == CallsAt(L, k, t)
           Fine(i) == /\ g[i].served = ServedBy(L, Passed(L, k, t, i))
                      /\ g[i].over => i > 0 /\ Ends(L[cs[i]])
<1>1. PICK n \in Nat : n = Len(cs) /\ DOMAIN cs = 1..n
  BY CallsAtWell
<1>2. /\ g \in [0..n -> States] /\ g[0] = Begun(L, cs, s)
      /\ \A i \in 1..n : g[i] = RebuiltCall(L, g[i - 1], L[cs[i]])
  BY <1>1 DEF CallsOf
<1>3. \A i \in 1..n : cs[i] \in CallPlaces(L) /\ cs[i] \in InRound(L, k) /\ L[cs[i]].turn = t /\ L[cs[i]].kind = "call"
  BY <1>1, CallsAtWell, Places DEF Bucket
<1>4. Fine(0)
  <2>1. g[0].served = s.served /\ g[0].over = s.over
    BY <1>2 DEF Begun, States
  <2>2. QED
    BY <2>1, PassedTurn
<1>5. ASSUME NEW i \in 1..n, Fine(i - 1)
      PROVE  ~g[i - 1].over /\ g[i] = Told(L, g[i - 1], cs[i], Passed(L, k, t, i)) /\ Fine(i)
  <2>1. ~g[i - 1].over
    <3>1. SUFFICES ASSUME i - 1 > 0, Ends(L[cs[i - 1]]) PROVE FALSE
      BY <1>5
    <3>2. i - 1 \in 1..n /\ i - 1 < i
      BY <3>1
    <3>3. cs[i - 1] < cs[i]
      BY <1>1, <3>2, CallsAtWell DEF Ascending
    <3>4. cs[i - 1] \in InRound(L, k) /\ cs[i] \in InRound(L, k) /\ L[cs[i]].kind = "call"
      BY <1>3, <3>2
    <3>5. QED
      BY <3>1, <3>3, <3>4 DEF Whole
  <2>2. g[i - 1] \in States /\ cs[i] \in CallPlaces(L)
    BY <1>2, <1>3
  <2>0. i \in 1..Len(CallsAt(L, k, t))
    BY <1>1
  <2>3. \A x \in CallPlaces(L) : x \in Passed(L, k, t, i - 1) <=> x < cs[i]
    BY <2>0, TurnOrder
  <2>4. Passed(L, k, t, i) = Passed(L, k, t, i - 1) \cup {cs[i]}
    BY <2>0, PassedTurn
  <2> DEFINE D == Passed(L, k, t, i - 1)
  <2>4a. g[i - 1].served = ServedBy(L, D)
    BY <1>5
  <2> HIDE DEF cs, D, Fine
  <2>5. g[i] = Told(L, g[i - 1], cs[i], Passed(L, k, t, i))
    <3>1. \A x \in CallPlaces(L) : x \in D <=> x < cs[i]
      BY <2>3 DEF D
    <3>2. RebuiltCall(L, g[i - 1], L[cs[i]]) =
            [Answer(g[i - 1], L[cs[i]], ValueOf(L, cs[i])) EXCEPT !.served = ServedBy(L, D \cup {cs[i]})]
      <4>1. PICK j \in CallPlaces(L), u \in States : j = cs[i] /\ u = g[i - 1]
        BY <2>2
      <4>2. ~u.over /\ u.served = ServedBy(L, D) /\ \A x \in CallPlaces(L) : x \in D <=> x < j
        BY <2>1, <2>4a, <3>1, <4>1
      <4>3. RebuiltCall(L, u, L[j]) =
              [Answer(u, L[j], ValueOf(L, j)) EXCEPT !.served = ServedBy(L, D \cup {j})]
        BY <4>2, CallTold
      <4>4. QED
        BY <4>1, <4>3
    <3>3. QED
      BY <1>2, <2>4, <3>2 DEF Told, D
  <2>6. ValueOf(L, cs[i]) \in Contents
    <3>1. CASE Intercepted(L[cs[i]].call)
      BY <3>1, AnswersAre DEF ValueOf, Again
    <3>2. CASE ~Intercepted(L[cs[i]].call)
      <4>1. PICK r \in Recorded(L) : CallPlace(L, r) = cs[i]
        BY <2>2, <3>2 DEF Whole, RealPlaces
      <4>2. L[r] \in LogEvents
        BY Places
      <4>3. ValueOf(L, cs[i]) = Truncate(L[r].value) /\ L[r].value \in Int
        BY <4>1, <4>2, AnsweredOnce DEF LogEvents
      <4>4. QED
        BY <4>3, AnswersAre
    <3>3. QED
      BY <3>1, <3>2
  <2>7. L[cs[i]] \in LogEvents
    BY <2>2, Places
  <2>8. Answer(g[i - 1], L[cs[i]], ValueOf(L, cs[i])) \in States
    BY <1>3, <2>2, <2>6, <2>7, AnswerWell
  <2>9. /\ g[i].served = ServedBy(L, Passed(L, k, t, i))
        /\ g[i].over = (L[cs[i]].call.tool \in Ending)
    <3>1. /\ g[i].served = ServedBy(L, Passed(L, k, t, i))
          /\ g[i].over = Answer(g[i - 1], L[cs[i]], ValueOf(L, cs[i])).over
      BY <2>5, <2>8 DEF Told, States
    <3>2. Answer(g[i - 1], L[cs[i]], ValueOf(L, cs[i])).over
            = (L[cs[i]].call.tool \in Ending)
      BY <2>2 DEF Answer, States
    <3>3. QED
      BY <3>1, <3>2
  <2>10. g[i].over => i > 0 /\ Ends(L[cs[i]])
    <3>1. SUFFICES ASSUME g[i].over PROVE i > 0 /\ Ends(L[cs[i]])
      OBVIOUS
    <3>2. L[cs[i]].call.tool \in Ending /\ L[cs[i]].kind = "call"
      BY <1>3, <2>9, <3>1
    <3>3. QED
      BY <3>2 DEF Ends, Terminal
  <2>11. Fine(i)
    BY <2>9, <2>10 DEF Fine
  <2>12. QED
    BY <2>1, <2>5, <2>11
<1> DEFINE T == {i \in 0..n : Fine(i)}
<1>6. 0 \in T
  BY <1>4
<1>7. \A i \in 1..n : i - 1 \in T => i \in T
  <2>1. SUFFICES ASSUME NEW i \in 1..n, Fine(i - 1) PROVE i \in T
    OBVIOUS
  <2>2. Fine(i) /\ i \in 0..n
    BY <1>5, <2>1
  <2>3. QED
    BY <2>2
<1> HIDE DEF T
<1>8. \A i \in 0..n : i \in T
  BY <1>6, <1>7, UpTo
<1>9. \A i \in 0..n : Fine(i)
  BY <1>8 DEF T
<1> HIDE DEF Fine
<1>10. \A i \in 1..n : ~g[i - 1].over /\ g[i] = Told(L, g[i - 1], cs[i], Passed(L, k, t, i))
  <2>1. \A i \in 1..n : i - 1 \in 0..n
    OBVIOUS
  <2>2. QED
    BY <1>5, <1>9, <2>1
<1>11. Fine(n)
  BY <1>9
<1>12. g[n].served = ServedBy(L, Before(L, k, t + 1))
  BY <1>1, <1>11, PassedTurn DEF Fine
<1>13. g[n].over => \E i \in InRound(L, k) : Ends(L[i]) /\ L[i].turn = t
  <2>1. SUFFICES ASSUME g[n].over PROVE \E i \in InRound(L, k) : Ends(L[i]) /\ L[i].turn = t
    OBVIOUS
  <2>2. n \in 1..n /\ Ends(L[cs[n]])
    BY <1>11, <2>1 DEF Fine
  <2>3. QED
    BY <1>3, <2>2
<1>14. QED
  BY <1>1, <1>10, <1>12, <1>13

-----------------------------------------------------------------------------
(* A log and what it was before.  What happened since changes nothing of   *)
(* how the earlier calls are served.                                       *)
Starts(L0, L) ==
  /\ L0 \in Seq(LogEvents) /\ L \in Seq(LogEvents) /\ Len(L0) <= Len(L)
  /\ \A j \in 1..Len(L0) : L0[j] = L[j]

LEMMA StartSame ==
  ASSUME NEW L0, NEW L, Starts(L0, L)
  PROVE  /\ Len(L0) \in Nat /\ DOMAIN L0 = 1..Len(L0)
         /\ RoundsOf(L0) = RoundsOf(L) \cap (1..Len(L0))
         /\ CallPlaces(L0) = CallPlaces(L) \cap (1..Len(L0))
         /\ RealPlaces(L0) = RealPlaces(L) \cap (1..Len(L0))
         /\ \A k \in 1..Len(L0) : CallPlace(L0, k) = CallPlace(L, k)
         /\ \A k \in 1..Len(L0) : InRound(L0, k) = InRound(L, k) \cap (1..Len(L0))
<1>1. PICK n \in Nat : n = Len(L0) /\ DOMAIN L0 = 1..n
  BY DEF Starts
<1>2. /\ 1..n \subseteq DOMAIN L /\ (\A j \in 1..n : L0[j] = L[j]) /\ n <= Len(L)
      /\ DOMAIN L = 1..Len(L) /\ Len(L) \in Nat
  BY <1>1 DEF Starts
<1>3. RoundsOf(L0) = RoundsOf(L) \cap (1..n)
  BY <1>1, <1>2 DEF RoundsOf
<1>4. CallPlaces(L0) = CallPlaces(L) \cap (1..n)
  BY <1>1, <1>2 DEF CallPlaces
<1>5. RealPlaces(L0) = RealPlaces(L) \cap (1..n)
  BY <1>2, <1>4 DEF RealPlaces
<1>6. ASSUME NEW k \in 1..n PROVE CallPlace(L0, k) = CallPlace(L, k)
  <2>1. \A j \in 1..(k - 1) : j \in 1..n
    OBVIOUS
  <2>2. {j \in 1..(k - 1) : L0[j].kind = "call" /\ L0[j].id = L0[k].id}
          = {j \in 1..(k - 1) : L[j].kind = "call" /\ L[j].id = L[k].id}
    BY <1>2, <2>1
  <2>3. QED
    BY <2>2 DEF CallPlace
<1>7. ASSUME NEW k \in 1..n PROVE InRound(L0, k) = InRound(L, k) \cap (1..n)
  <2>1. ASSUME NEW j \in 1..n
        PROVE  (\A i \in RoundsOf(L0) : i <= k \/ j < i) <=> (\A i \in RoundsOf(L) : i <= k \/ j < i)
    <3>1. \A i \in RoundsOf(L) : i \in RoundsOf(L0) \/ j < i
      BY <1>2, <1>3 DEF RoundsOf
    <3>2. QED
      BY <1>3, <3>1
  <2>2. QED
    BY <1>1, <1>2, <2>1 DEF InRound
<1>8. QED
  BY <1>1, <1>3, <1>4, <1>5, <1>6, <1>7

LEMMA StartServed ==
  ASSUME NEW L0, NEW L, Starts(L0, L), NEW o0, Whole(L0, o0)
  PROVE  /\ Recorded(L0) = Recorded(L) \cap (1..Len(L0))
         /\ \A o : Whole(L, o) =>
              /\ \A r \in Recorded(L) : CallPlace(L, r) \in CallPlaces(L0) \ o0 => r \in Recorded(L0)
              /\ \A j \in CallPlaces(L0) \ o0 : ValueOf(L, j) = ValueOf(L0, j)
<1>1. PICK n \in Nat : n = Len(L0) /\ DOMAIN L0 = 1..n
  BY StartSame
<1>2. /\ 1..n \subseteq DOMAIN L /\ (\A j \in 1..n : L0[j] = L[j])
      /\ L0 \in Seq(LogEvents) /\ L \in Seq(LogEvents)
  BY <1>1 DEF Starts
<1>3. /\ \A k \in 1..n : CallPlace(L0, k) = CallPlace(L, k)
      /\ CallPlaces(L0) = CallPlaces(L) \cap (1..n) /\ RealPlaces(L0) = RealPlaces(L) \cap (1..n)
  BY <1>1, StartSame
<1>4. ASSUME NEW k \in 1..n
      PROVE  k \in Recorded(L0) <=> k \in Recorded(L)
  <2>1. L0[k] = L[k] /\ k \in DOMAIN L0 /\ k \in DOMAIN L
    BY <1>1, <1>2
  <2>2. CASE L[k].kind = "result"
    <3>1. CallPlace(L0, k) \in CallPlaces(L0)
      BY <2>1, <2>2 DEF Whole
    <3>2. CallPlace(L0, k) \in 1..n /\ CallPlace(L, k) = CallPlace(L0, k)
      BY <1>3, <3>1
    <3>3. CallOf(L0, k) = CallOf(L, k)
      BY <1>2, <3>2 DEF CallOf
    <3>4. QED
      BY <2>1, <3>3 DEF Recorded
  <2>3. CASE L[k].kind # "result"
    BY <2>1, <2>3 DEF Recorded
  <2>4. QED
    BY <2>2, <2>3
<1>5. Recorded(L0) = Recorded(L) \cap (1..n)
  <2>1. Recorded(L0) \subseteq 1..n
    BY <1>1 DEF Recorded
  <2>2. QED
    BY <1>4, <2>1
<1>6. SUFFICES ASSUME NEW o, Whole(L, o)
      PROVE  /\ \A r \in Recorded(L) : CallPlace(L, r) \in CallPlaces(L0) \ o0 => r \in Recorded(L0)
             /\ \A j \in CallPlaces(L0) \ o0 : ValueOf(L, j) = ValueOf(L0, j)
  BY <1>1, <1>5
<1>7. ASSUME NEW j \in RealPlaces(L0) \ o0
      PROVE  \E r \in Recorded(L0) : CallPlace(L0, r) = j /\ CallPlace(L, r) = j
  <2>1. PICK r \in Recorded(L0) : CallPlace(L0, r) = j
    BY <1>7 DEF Whole
  <2>2. r \in 1..n
    BY <1>5
  <2>3. QED
    BY <1>3, <2>1, <2>2
<1>8. ASSUME NEW r \in Recorded(L), CallPlace(L, r) \in CallPlaces(L0) \ o0
      PROVE  r \in Recorded(L0)
  <2>1. CallPlace(L, r) \in RealPlaces(L)
    BY <1>2, <1>6, AnsweredOnce
  <2>2. CallPlace(L, r) \in RealPlaces(L0) \ o0
    BY <1>3, <1>8, <2>1
  <2>3. PICK x \in Recorded(L0) : CallPlace(L, x) = CallPlace(L, r)
    BY <1>7, <2>2
  <2>4. x \in Recorded(L)
    BY <1>5
  <2>5. x = r
    BY <1>2, <1>6, <2>3, <2>4, AnsweredOnce
  <2>6. QED
    BY <2>5
<1>9. ASSUME NEW j \in CallPlaces(L0) \ o0 PROVE ValueOf(L, j) = ValueOf(L0, j)
  <2>1. j \in 1..n /\ L0[j] = L[j]
    BY <1>2, <1>3
  <2>2. CASE Intercepted(L[j].call)
    BY <2>1, <2>2 DEF ValueOf, Again
  <2>3. CASE ~Intercepted(L[j].call)
    <3>1. j \in RealPlaces(L0) \ o0
      BY <2>1, <2>3 DEF RealPlaces
    <3>2. PICK r \in Recorded(L0) : CallPlace(L0, r) = j /\ CallPlace(L, r) = j
      BY <1>7, <3>1
    <3>3. r \in Recorded(L) /\ r \in 1..n
      BY <1>5
    <3>4. ValueOf(L0, j) = Truncate(L0[r].value)
      BY <1>2, <3>2, AnsweredOnce
    <3>5. ValueOf(L, j) = Truncate(L[r].value)
      BY <1>2, <1>6, <3>2, <3>3, AnsweredOnce
    <3>6. QED
      BY <1>2, <3>3, <3>4, <3>5
  <2>4. QED
    BY <2>2, <2>3
<1>10. QED
  BY <1>8, <1>9

LEMMA ListedCut ==
  ASSUME NEW n \in Nat, NEW m \in 0..n, NEW K, K \cap (1..n) \subseteq 1..m
  PROVE  Listed(n, K) = Listed(m, K)
<1> DEFINE T == {d \in 0..(n - m) : Listed(m + d, K) = Listed(m, K)}
<1>1. 0 \in T
  BY DEF T
<1>2. ASSUME NEW d \in 1..(n - m), d - 1 \in T PROVE d \in T
  <2>1. PICK p \in Nat : p = m + (d - 1) /\ p + 1 = m + d /\ p + 1 \in 1..n /\ p + 1 > m
    OBVIOUS
  <2>2. p + 1 \notin K
    BY <2>1
  <2>3. Listed(p + 1, K) = Listed(p, K)
    BY <2>2, ListedNext
  <2>4. Listed(p, K) = Listed(m, K)
    BY <1>2, <2>1
  <2>5. QED
    BY <2>1, <2>3, <2>4
<1>3. n - m \in Nat
  OBVIOUS
<1> HIDE DEF T
<1>4. n - m \in T
  BY <1>1, <1>2, <1>3, UpTo
<1>5. m + (n - m) = n
  OBVIOUS
<1>6. QED
  BY <1>4, <1>5 DEF T

-----------------------------------------------------------------------------
(* The walk over the turns of a round: what has been served are the        *)
(* results of the calls before, and the round is over only if it was.      *)
Walked(L, k, t, s) ==
  /\ s \in States /\ s.served = ServedBy(L, Before(L, k, t))
  /\ s.over => \E i \in InRound(L, k) : Ends(L[i]) /\ L[i].turn < t

LEMMA NoneBehind ==
  ASSUME NEW L \in Seq(LogEvents), Whole(L, {}), NEW k \in RoundsOf(L), NEW t \in Nat,
         NEW i \in InRound(L, k), Ends(L[i]), L[i].turn < t
  PROVE  Bucket(L, k, t, "call") = {} /\ Before(L, k, t + 1) = Before(L, k, t)
<1>1. ASSUME NEW x \in InRound(L, k), L[x].kind = "call" PROVE ~(L[x].turn >= t)
  <2>1. /\ i \in Nat /\ x \in Nat /\ L[i].turn \in Nat /\ L[x].turn \in Nat
    <3>1. i \in DOMAIN L /\ x \in DOMAIN L
      BY Places
    <3>2. QED
      BY <3>1, Places
  <2>2. ~(i < x)
    BY <1>1 DEF Whole
  <2>3. x < i => L[x].turn <= L[i].turn
    BY DEF Whole
  <2>4. QED
    BY <2>1, <2>2, <2>3
<1>2. Bucket(L, k, t, "call") = {}
  <2>1. ASSUME NEW x \in Bucket(L, k, t, "call") PROVE FALSE
    BY <1>1 DEF Bucket
  <2>2. QED
    BY <2>1
<1>3. ASSUME NEW x \in CallPlaces(L), x \in InRound(L, k) PROVE L[x].turn < t + 1 <=> L[x].turn < t
  <2>1. L[x].kind = "call" /\ L[x].turn \in Nat
    BY Places
  <2>2. ~(L[x].turn >= t)
    BY <1>1, <1>3, <2>1
  <2>3. QED
    BY <2>1, <2>2
<1>4. Before(L, k, t + 1) = Before(L, k, t)
  BY <1>3 DEF Before
<1>5. QED
  BY <1>2, <1>4

LEMMA TurnWalked ==
  ASSUME NEW L \in Seq(LogEvents), Whole(L, {}), NEW k \in RoundsOf(L), NEW t \in Nat,
         NEW s, Walked(L, k, t, s)
  PROVE  Walked(L, k, t + 1, RebuiltTurn(L, k, s, t))
<1> DEFINE cs == CallsAt(L, k, t)
           r == RebuiltTurn(L, k, s, t)
<1>1. s \in States /\ s.served = ServedBy(L, Before(L, k, t)) /\ k \in DOMAIN L
  BY Places DEF Walked
<1>2. r = IF s.over THEN s
          ELSE IF cs # <<>> THEN RebuiltCalls(L, cs, s)
          ELSE IF Bucket(L, k, t, "final") # {}
          THEN [s EXCEPT !.history = Append(@, TextTurn), !.over = TRUE] ELSE s
  BY DEF RebuiltTurn, CallsAt
<1>3. \A i \in InRound(L, k) : L[i].turn \in Nat /\ (L[i].turn <= t => L[i].turn < t + 1)
  BY Places
<1>4. CASE s.over
  <2>1. PICK i \in InRound(L, k) : Ends(L[i]) /\ L[i].turn < t
    BY <1>4 DEF Walked
  <2>2. Before(L, k, t + 1) = Before(L, k, t)
    BY <2>1, NoneBehind
  <2>3. L[i].turn < t + 1
    BY <1>3, <2>1
  <2>4. QED
    BY <1>1, <1>2, <1>4, <2>1, <2>2, <2>3 DEF Walked
<1>5. CASE ~s.over /\ cs # <<>>
  <2>1. cs \in Seq(CallPlaces(L))
    BY CallsAtWell
  <2>2. PICK g : CallsOf(g, L, cs, s)
    BY <1>1, <2>1, CallsDef
  <2>3. /\ g[Len(cs)].served = ServedBy(L, Before(L, k, t + 1))
        /\ g[Len(cs)].over => \E i \in InRound(L, k) : Ends(L[i]) /\ L[i].turn = t
    BY <1>1, <1>5, <2>2, CallsTold
  <2>4. r = g[Len(cs)]
    BY <1>2, <1>5, <2>2 DEF CallsOf
  <2>5. r \in States
    BY <1>1, RebuiltTurnWell
  <2> HIDE DEF cs, r
  <2>6. ASSUME r.over PROVE \E i \in InRound(L, k) : Ends(L[i]) /\ L[i].turn < t + 1
    <3>1. PICK i \in InRound(L, k) : Ends(L[i]) /\ L[i].turn = t
      BY <2>3, <2>4, <2>6
    <3>2. L[i].turn < t + 1
      BY <3>1
    <3>3. QED
      BY <3>1, <3>2
  <2>7. Walked(L, k, t + 1, r)
    BY <2>3, <2>4, <2>5, <2>6 DEF Walked
  <2>8. QED
    BY <2>7 DEF r
<1>6. CASE ~s.over /\ cs = <<>>
  <2>1. Before(L, k, t + 1) = Before(L, k, t)
    <3>1. Len(CallsAt(L, k, t)) = 0
      BY <1>6
    <3>2. QED
      BY <3>1, PassedTurn
  <2>2. CASE Bucket(L, k, t, "final") # {}
    <3>1. PICK i \in Bucket(L, k, t, "final") : TRUE
      BY <2>2
    <3>2. i \in InRound(L, k) /\ L[i].turn = t /\ Ends(L[i])
      BY <3>1 DEF Bucket, Ends
    <3>3. L[i].turn < t + 1
      BY <3>2
    <3>4. r \in States
      BY <1>1, RebuiltTurnWell
    <3>5. r.served = s.served
      BY <1>1, <1>2, <1>6, <2>2 DEF States
    <3> HIDE DEF r
    <3>6. Walked(L, k, t + 1, r)
      BY <1>1, <2>1, <3>2, <3>3, <3>4, <3>5 DEF Walked
    <3>7. QED
      BY <3>6 DEF r
  <2>3. CASE Bucket(L, k, t, "final") = {}
    <3>1. r = s
      BY <1>2, <1>6, <2>3
    <3> HIDE DEF r, cs
    <3>2. Walked(L, k, t + 1, r)
      BY <1>1, <1>6, <2>1, <3>1 DEF Walked
    <3>3. QED
      BY <3>2 DEF r
  <2>4. QED
    BY <2>2, <2>3
<1>7. QED
  BY <1>4, <1>5, <1>6

(* Of a turn of which the earlier log had all, nothing is made that was    *)
(* not made before.                                                        *)
TurnsIn(L0, L, k, t) == \A j \in InRound(L, k) : L[j].turn < t => j \in DOMAIN L0

LEMMA TurnsInSame ==
  ASSUME NEW L0, NEW L, Starts(L0, L), NEW k \in RoundsOf(L0), NEW t \in Nat,
         TurnsIn(L0, L, k, t + 1)
  PROVE  /\ k \in RoundsOf(L) /\ k \in 1..Len(L0)
         /\ \A kind : Bucket(L, k, t, kind) = Bucket(L0, k, t, kind)
         /\ \A kind : Listed(Len(L), Bucket(L, k, t, kind)) = Listed(Len(L0), Bucket(L0, k, t, kind))
         /\ Before(L, k, t) = Before(L0, k, t) /\ Before(L, k, t + 1) = Before(L0, k, t + 1)
<1>1. PICK n \in Nat : n = Len(L0) /\ DOMAIN L0 = 1..n
  BY StartSame
<1>2. /\ \A j \in 1..n : L0[j] = L[j]
      /\ L0 \in Seq(LogEvents) /\ L \in Seq(LogEvents) /\ n <= Len(L) /\ Len(L) \in Nat
  BY <1>1 DEF Starts
<1>3. /\ RoundsOf(L0) = RoundsOf(L) \cap (1..n) /\ CallPlaces(L0) = CallPlaces(L) \cap (1..n)
      /\ \A i \in 1..n : InRound(L0, i) = InRound(L, i) \cap (1..n)
  BY <1>1, StartSame
<1>4. k \in 1..n /\ k \in RoundsOf(L)
  BY <1>3
<1>5. ASSUME NEW j \in InRound(L, k), L[j].turn < t + 1 PROVE j \in 1..n /\ j \in InRound(L0, k) /\ L0[j] = L[j]
  BY <1>1, <1>2, <1>3, <1>4, <1>5 DEF TurnsIn
<1>6. \A j \in InRound(L0, k) : j \in InRound(L, k) /\ L0[j] = L[j] /\ j \in 1..n
  BY <1>2, <1>3, <1>4
<1>7. \A j \in InRound(L, k) : L[j].turn = t => L[j].turn < t + 1
  OBVIOUS
<1>8. ASSUME NEW kind PROVE Bucket(L, k, t, kind) = Bucket(L0, k, t, kind)
  BY <1>5, <1>6, <1>7 DEF Bucket
<1>9. ASSUME NEW kind
      PROVE  Listed(Len(L), Bucket(L, k, t, kind)) = Listed(Len(L0), Bucket(L0, k, t, kind))
  <2>1. Bucket(L, k, t, kind) \subseteq 1..n
    BY <1>6, <1>8 DEF Bucket
  <2>2. Listed(Len(L), Bucket(L, k, t, kind)) = Listed(n, Bucket(L, k, t, kind))
    BY <1>2, <2>1, ListedCut
  <2>3. QED
    BY <1>1, <1>8, <2>2
<1>10. ASSUME NEW u \in Nat, u <= t + 1 PROVE Before(L, k, u) = Before(L0, k, u)
  <2>1. ASSUME NEW x \in Before(L, k, u) PROVE x \in Before(L0, k, u)
    <3>1. x \in CallPlaces(L) /\ x \in Nat /\ L[x].turn \in Nat /\ k \in Nat
      BY <1>2, <1>4, Places DEF Before
    <3>2. CASE x < k
      <4>1. x \in 1..n
        BY <1>2, <1>4, <3>1, <3>2, Places
      <4>2. QED
        BY <1>3, <3>1, <3>2, <4>1 DEF Before
    <3>3. CASE x \in InRound(L, k) /\ L[x].turn < u
      <4>1. L[x].turn < t + 1
        BY <1>10, <3>1, <3>3
      <4>2. x \in 1..n /\ x \in InRound(L0, k) /\ L0[x] = L[x]
        BY <1>5, <3>3, <4>1
      <4>3. QED
        BY <1>3, <3>1, <3>3, <4>2 DEF Before
    <3>4. QED
      BY <2>1, <3>2, <3>3 DEF Before
  <2>2. ASSUME NEW x \in Before(L0, k, u) PROVE x \in Before(L, k, u)
    BY <1>3, <1>6, <2>2 DEF Before
  <2>3. QED
    BY <2>1, <2>2
<1>11. Before(L, k, t) = Before(L0, k, t) /\ Before(L, k, t + 1) = Before(L0, k, t + 1)
  BY <1>10
<1>12. QED
  BY <1>1, <1>4, <1>8, <1>9, <1>11

LEMMA TurnSame ==
  ASSUME NEW L0, NEW L, Starts(L0, L), Whole(L0, {}), Whole(L, {}),
         NEW k \in RoundsOf(L0), NEW t \in Nat, TurnsIn(L0, L, k, t + 1),
         NEW s, Walked(L0, k, t, s)
  PROVE  RebuiltTurn(L, k, s, t) = RebuiltTurn(L0, k, s, t)
<1> DEFINE cs == CallsAt(L0, k, t)
<1>1. L0 \in Seq(LogEvents) /\ L \in Seq(LogEvents) /\ k \in RoundsOf(L) /\ k \in 1..Len(L0)
  BY TurnsInSame DEF Starts
<1>2. /\ Bucket(L, k, t, "final") = Bucket(L0, k, t, "final")
      /\ CallsAt(L, k, t) = cs
      /\ Before(L, k, t) = Before(L0, k, t) /\ Before(L, k, t + 1) = Before(L0, k, t + 1)
  BY TurnsInSame DEF CallsAt
<1>3. s \in States /\ s.served = ServedBy(L0, Before(L0, k, t))
  BY DEF Walked
<1>4. ASSUME NEW D, D \subseteq CallPlaces(L0) PROVE ServedBy(L, D) = ServedBy(L0, D)
  <2>1. Recorded(L0) = Recorded(L) \cap (1..Len(L0))
    BY StartServed
  <2>2. \A r \in Recorded(L) : CallPlace(L, r) \in D => r \in Recorded(L0)
    BY <1>4, StartServed
  <2>3. \A r \in Recorded(L0) : CallPlace(L0, r) = CallPlace(L, r)
    BY <2>1, StartSame
  <2>4. QED
    BY <2>1, <2>2, <2>3 DEF ServedBy
<1>5. Before(L0, k, t) \subseteq CallPlaces(L0)
  BY DEF Before
<1>6. s.served = ServedBy(L, Before(L, k, t))
  BY <1>2, <1>3, <1>4, <1>5
<1>7. cs \in Seq(CallPlaces(L0)) /\ cs \in Seq(CallPlaces(L)) /\ Len(cs) \in Nat
      /\ DOMAIN cs = 1..Len(cs) /\ \A i \in 1..Len(cs) : cs[i] \in CallPlaces(L0)
  <2>1. cs \in Seq(CallPlaces(L0)) /\ Len(cs) \in Nat
    BY <1>1, CallsAtWell
  <2>2. CallPlaces(L0) \subseteq CallPlaces(L)
    BY StartSame
  <2> HIDE DEF cs
  <2>3. QED
    BY <2>1, <2>2
<1>8. \A j \in CallPlaces(L0) : L[j] = L0[j] /\ ValueOf(L, j) = ValueOf(L0, j)
  <2>1. \A j \in CallPlaces(L0) : j \in 1..Len(L0)
    BY StartSame
  <2>2. QED
    BY <2>1, StartServed DEF Starts
<1>9. CASE s.over \/ cs = <<>>
  BY <1>2, <1>9 DEF RebuiltTurn, CallsAt
<1>10. CASE ~s.over /\ cs # <<>>
  <2>1. PICK g0 : CallsOf(g0, L0, cs, s)
    BY <1>1, <1>3, <1>7, CallsDef
  <2>2. PICK g : CallsOf(g, L, cs, s)
    BY <1>1, <1>3, <1>7, CallsDef
  <2>3. \A i \in 1..Len(cs) : g0[i] = Told(L0, g0[i - 1], cs[i], Passed(L0, k, t, i))
    BY <1>1, <1>3, <1>10, <2>1, CallsTold
  <2>4. CallsOf(g, L, CallsAt(L, k, t), s)
    BY <1>2, <2>2
  <2>5. \A i \in 1..Len(cs) : g[i] = Told(L, g[i - 1], cs[i], Passed(L, k, t, i))
    <3>1. \A i \in 1..Len(CallsAt(L, k, t)) :
            g[i] = Told(L, g[i - 1], CallsAt(L, k, t)[i], Passed(L, k, t, i))
      BY <1>1, <1>3, <1>6, <1>10, <2>4, CallsTold
    <3>2. QED
      BY <1>2, <3>1
  <2>6. \A i \in 1..Len(cs) : Passed(L, k, t, i) = Passed(L0, k, t, i) /\ Passed(L0, k, t, i) \subseteq CallPlaces(L0)
    <3>1. SUFFICES ASSUME NEW i \in 1..Len(cs)
          PROVE  Passed(L, k, t, i) = Passed(L0, k, t, i) /\ Passed(L0, k, t, i) \subseteq CallPlaces(L0)
      OBVIOUS
    <3>2. \A y \in 1..i : cs[y] \in CallPlaces(L0)
      BY <1>7
    <3>3. Passed(L0, k, t, i) = Before(L0, k, t) \cup {cs[y] : y \in 1..i}
      BY DEF Passed
    <3>4. Passed(L, k, t, i) = Before(L0, k, t) \cup {cs[y] : y \in 1..i}
      BY <1>2 DEF Passed
    <3> HIDE DEF cs
    <3>5. QED
      BY <1>5, <3>2, <3>3, <3>4
  <2> HIDE DEF cs
  <2>7. Begun(L, cs, s) = Begun(L0, cs, s)
    <3>1. \A c \in DOMAIN cs : L[cs[c]] = L0[cs[c]]
      BY <1>7, <1>8
    <3>2. [c \in DOMAIN cs |-> L[cs[c]].call] = [c \in DOMAIN cs |-> L0[cs[c]].call]
      BY <3>1
    <3>3. QED
      BY <3>2 DEF Begun
  <2> DEFINE T == {i \in 0..Len(cs) : g[i] = g0[i]}
  <2>8. 0 \in T
    BY <1>7, <2>1, <2>2, <2>7 DEF CallsOf
  <2>9. ASSUME NEW i \in 1..Len(cs), i - 1 \in T PROVE i \in T
    <3>1. g[i - 1] = g0[i - 1] /\ cs[i] \in CallPlaces(L0)
      BY <1>7, <2>9
    <3>2. ServedBy(L, Passed(L, k, t, i)) = ServedBy(L0, Passed(L0, k, t, i))
      BY <1>4, <2>6
    <3>3. Told(L, g[i - 1], cs[i], Passed(L, k, t, i)) = Told(L0, g0[i - 1], cs[i], Passed(L0, k, t, i))
      BY <1>8, <3>1, <3>2 DEF Told
    <3>4. g[i] = g0[i]
      BY <2>3, <2>5, <3>3
    <3>5. QED
      BY <1>7, <3>4
  <2> HIDE DEF T
  <2>10. Len(cs) \in T
    <3>1. PICK n \in Nat : n = Len(cs)
      BY <1>7
    <3>2. \A i \in 0..n : i \in T
      BY <2>8, <2>9, <3>1, UpTo
    <3>3. QED
      BY <3>1, <3>2
  <2>11. RebuiltCalls(L, cs, s) = RebuiltCalls(L0, cs, s)
    BY <2>1, <2>2, <2>10 DEF T, CallsOf
  <2>12. QED
    BY <1>2, <1>10, <2>11 DEF RebuiltTurn, CallsAt, cs
<1>11. QED
  BY <1>9, <1>10

(* The steering of a round.                                                *)
SteerPlaces(L, k) == {j \in InRound(L, k) : L[j].kind = "steer"}

LEMMA ReaskedSame ==
  ASSUME NEW L0, NEW L, Starts(L0, L), NEW k \in RoundsOf(L0), NEW s,
         SteerPlaces(L, k) \subseteq DOMAIN L0
  PROVE  Reasked(L, k, s) = Reasked(L0, k, s)
<1> DEFINE K == SteerPlaces(L, k)
           steered == Listed(Len(L0), K)
<1>1. PICK n \in Nat : n = Len(L0) /\ DOMAIN L0 = 1..n
  BY StartSame
<1>2. /\ \A j \in 1..n : L0[j] = L[j]
      /\ L0 \in Seq(LogEvents) /\ L \in Seq(LogEvents) /\ n <= Len(L) /\ Len(L) \in Nat
  BY <1>1 DEF Starts
<1>3. k \in 1..n
  BY <1>1, StartSame
<1>4. InRound(L0, k) = InRound(L, k) \cap (1..n)
  BY <1>1, <1>3, StartSame
<1>5. SteerPlaces(L0, k) = K /\ K \subseteq 1..n
  BY <1>1, <1>2, <1>4 DEF SteerPlaces
<1> HIDE DEF K
<1>6. Listed(Len(L), K) = steered
  BY <1>1, <1>2, <1>5, ListedCut
<1>7. \A j \in DOMAIN steered : steered[j] \in 1..n
  BY <1>1, ListedOrder
<1>8. Reasked(L0, k, s) = [s EXCEPT !.over = FALSE, !.history =
        @ \o <<UserTurn(L0[k].value)>> \o [j \in DOMAIN steered |-> UserTurn(L0[steered[j]].value)]]
  BY <1>5 DEF Reasked, SteerPlaces
<1>9. Reasked(L, k, s) = [s EXCEPT !.over = FALSE, !.history =
        @ \o <<UserTurn(L[k].value)>> \o [j \in DOMAIN steered |-> UserTurn(L[steered[j]].value)]]
  BY <1>6 DEF Reasked, SteerPlaces, K
<1> HIDE DEF steered
<1>10. [j \in DOMAIN steered |-> UserTurn(L0[steered[j]].value)]
         = [j \in DOMAIN steered |-> UserTurn(L[steered[j]].value)]
  BY <1>2, <1>7
<1>11. UserTurn(L0[k].value) = UserTurn(L[k].value)
  BY <1>2, <1>3
<1>12. QED
  BY <1>8, <1>9, <1>10, <1>11

LEMMA ReaskedWalked ==
  ASSUME NEW L \in Seq(LogEvents), NEW k \in RoundsOf(L), NEW s \in States,
         s.served = ServedBy(L, Before(L, k, 0))
  PROVE  Walked(L, k, 0, Reasked(L, k, s)) /\ ~Reasked(L, k, s).over
<1>1. k \in DOMAIN L
  BY Places
<1>2. Reasked(L, k, s) \in States
  BY <1>1, ReaskedWell
<1>3. Reasked(L, k, s).served = s.served /\ ~Reasked(L, k, s).over
  BY DEF Reasked, States
<1>4. QED
  BY <1>2, <1>3 DEF Walked

(* A round that has no more than the earlier log had until some turn.      *)
LEMMA RoundSame ==
  ASSUME NEW L0, NEW L, Starts(L0, L), Whole(L0, {}), Whole(L, {}),
         NEW k \in RoundsOf(L0), SteerPlaces(L, k) \subseteq DOMAIN L0,
         NEW T \in 0..MaxTurns, TurnsIn(L0, L, k, T),
         NEW s \in States, s.served = ServedBy(L0, Before(L0, k, 0)),
         NEW f0, TurnsOf(f0, L0, k, s), NEW f, TurnsOf(f, L, k, s)
  PROVE  /\ \A t \in 0..T : f[t] = f0[t]
         /\ \A t \in 0..MaxTurns : Walked(L0, k, t, f0[t])
<1>1. PICK N \in Nat : N = MaxTurns
  BY ReplayAssumption
<1>2. L0 \in Seq(LogEvents) /\ L \in Seq(LogEvents)
  BY DEF Starts
<1> DEFINE S0 == {t \in 0..N : Walked(L0, k, t, f0[t])}
<1>3. 0 \in S0
  <2>1. Walked(L0, k, 0, f0[0])
    BY <1>2, ReaskedWalked DEF TurnsOf
  <2>2. QED
    BY <2>1
<1>4. ASSUME NEW t \in 1..N, t - 1 \in S0 PROVE t \in S0
  <2>1. PICK u \in Nat : u = t - 1 /\ u + 1 = t
    OBVIOUS
  <2>2. f0[t] = RebuiltTurn(L0, k, f0[u], u) /\ Walked(L0, k, u, f0[u])
    BY <1>1, <1>4, <2>1 DEF TurnsOf
  <2>3. Walked(L0, k, u + 1, f0[t])
    BY <1>2, <2>2, TurnWalked
  <2>4. QED
    BY <2>1, <2>3
<1> HIDE DEF S0
<1>5. \A t \in 0..N : t \in S0
  BY <1>3, <1>4, UpTo
<1>6. \A t \in 0..N : Walked(L0, k, t, f0[t])
  BY <1>5 DEF S0
<1> DEFINE S == {t \in 0..T : f[t] = f0[t]}
<1>7. T \in Nat /\ T <= N
  BY <1>1
<1>8. 0 \in S
  BY <1>7, ReaskedSame DEF TurnsOf
<1>9. ASSUME NEW t \in 1..T, t - 1 \in S PROVE t \in S
  <2>1. PICK u \in Nat : u = t - 1 /\ u + 1 = t /\ u \in 0..N /\ t \in 1..N
    BY <1>7
  <2>2. f0[t] = RebuiltTurn(L0, k, f0[u], u) /\ f[t] = RebuiltTurn(L, k, f[u], u)
    BY <1>1, <2>1 DEF TurnsOf
  <2>3. f[u] = f0[u]
    BY <1>9, <2>1
  <2>4. TurnsIn(L0, L, k, u + 1)
    <3>1. \A j \in InRound(L, k) : L[j].turn \in Nat /\ (L[j].turn < t => L[j].turn < T)
      BY <1>2, <1>7, Places
    <3>2. QED
      BY <2>1, <3>1 DEF TurnsIn
  <2>5. RebuiltTurn(L, k, f0[u], u) = RebuiltTurn(L0, k, f0[u], u)
    BY <1>6, <2>1, <2>4, TurnSame
  <2>6. QED
    BY <2>2, <2>3, <2>5
<1> HIDE DEF S
<1>10. \A t \in 0..T : t \in S
  BY <1>7, <1>8, <1>9, UpTo
<1>11. QED
  BY <1>1, <1>6, <1>10 DEF S

(* Turns of which nothing is logged make nothing.                          *)
Resting(L, k, T) ==
  T \in 0..MaxTurns /\ \A t \in Nat : t >= T => Bucket(L, k, t, "call") = {} /\ Bucket(L, k, t, "final") = {}

LEMMA RestIdle ==
  ASSUME NEW L \in Seq(LogEvents), NEW k, NEW s, NEW f, TurnsOf(f, L, k, s), NEW T, Resting(L, k, T)
  PROVE  f[MaxTurns] = f[T]
<1>1. PICK N \in Nat : N = MaxTurns
  BY ReplayAssumption
<1> DEFINE S == {d \in 0..(N - T) : f[T + d] = f[T]}
<1>2. T \in Nat /\ N - T \in Nat /\ T + (N - T) = N
  BY <1>1 DEF Resting
<1>3. 0 \in S
  BY <1>2
<1>4. ASSUME NEW d \in 1..(N - T), d - 1 \in S PROVE d \in S
  <2>1. PICK t \in Nat : t = T + (d - 1) /\ t + 1 = T + d /\ t + 1 \in 1..N /\ t >= T /\ (t + 1) - 1 = t
    BY <1>2
  <2>2. f[t + 1] = RebuiltTurn(L, k, f[t], t)
    BY <1>1, <2>1 DEF TurnsOf
  <2>3. Listed(Len(L), Bucket(L, k, t, "call")) = <<>>
    <3>1. Bucket(L, k, t, "call") = {} /\ Len(L) \in Nat
      BY <2>1 DEF Resting
    <3>2. Listed(Len(L), {}) = Listed(0, {})
      BY <3>1, ListedCut
    <3>3. QED
      BY <3>1, <3>2, ListedNone
  <2>4. RebuiltTurn(L, k, f[t], t) = f[t]
    BY <2>1, <2>3 DEF RebuiltTurn, Resting
  <2>5. f[t] = f[T]
    BY <1>4, <2>1
  <2>6. QED
    BY <2>1, <2>2, <2>4, <2>5
<1> HIDE DEF S
<1>5. N - T \in S
  <2>1. PICK n \in Nat : n = N - T
    BY <1>2
  <2>2. \A d \in 0..n : d \in S
    BY <1>3, <1>4, <2>1, UpTo
  <2>3. QED
    BY <2>1, <2>2
<1>6. QED
  BY <1>1, <1>2, <1>5 DEF S

-----------------------------------------------------------------------------
(* The walk over the rounds.                                               *)
Passing(L, n) ==
  {x \in CallPlaces(L) : \A i \in (n + 1)..Len(Queries(L)) : x < Queries(L)[i]}

LEMMA QueriesWell ==
  ASSUME NEW L \in Seq(LogEvents)
  PROVE  /\ Len(Queries(L)) \in Nat /\ DOMAIN Queries(L) = 1..Len(Queries(L))
         /\ \A i \in 1..Len(Queries(L)) : Queries(L)[i] \in RoundsOf(L) /\ Queries(L)[i] \in Nat
         /\ \A i, j \in 1..Len(Queries(L)) : i < j => Queries(L)[i] < Queries(L)[j]
         /\ \A k \in RoundsOf(L) : \E i \in 1..Len(Queries(L)) : Queries(L)[i] = k
<1>1. Len(L) \in Nat /\ RoundsOf(L) \subseteq 1..Len(L)
  BY DEF RoundsOf
<1>2. /\ Queries(L) \in Seq(Nat) /\ Ascending(Queries(L))
      /\ \A k \in RoundsOf(L) \cap (1..Len(L)) : \E i \in DOMAIN Queries(L) : Queries(L)[i] = k
  <2>1. Queries(L) \in Seq(Nat) /\ Ascending(Queries(L))
    BY <1>1, ListedOrder DEF Queries
  <2>2. /\ Ascending(Queries(L))
        /\ \A i \in DOMAIN Queries(L) : Queries(L)[i] \in RoundsOf(L)
        /\ \A k \in RoundsOf(L) \cap (1..Len(L)) : \E i \in DOMAIN Queries(L) : Queries(L)[i] = k
    BY <1>1, ListedOrder DEF Queries
  <2>3. QED
    BY <2>1, <2>2
<1>3. Len(Queries(L)) \in Nat /\ DOMAIN Queries(L) = 1..Len(Queries(L))
  BY <1>2
<1>4. \A i \in 1..Len(Queries(L)) : Queries(L)[i] \in RoundsOf(L) /\ Queries(L)[i] \in Nat
  BY <1>1, QueriesIn
<1>5. QED
  BY <1>1, <1>2, <1>3, <1>4 DEF Ascending

LEMMA PassingRounds ==
  ASSUME NEW L \in Seq(LogEvents), Whole(L, {})
  PROVE  /\ Passing(L, 0) = {}
         /\ Passing(L, Len(Queries(L))) = CallPlaces(L)
         /\ \A n \in 1..Len(Queries(L)) :
              /\ Passing(L, n - 1) = Before(L, Queries(L)[n], 0)
              /\ Passing(L, n) = Before(L, Queries(L)[n], MaxTurns)
<1> DEFINE Q == Queries(L)
<1>1. PICK N \in Nat : N = Len(Q)
  BY QueriesWell
<1>2. /\ \A i \in 1..N : Q[i] \in RoundsOf(L) /\ Q[i] \in Nat
      /\ \A i, j \in 1..N : i < j => Q[i] < Q[j]
      /\ \A k \in RoundsOf(L) : \E i \in 1..N : Q[i] = k
  BY <1>1, QueriesWell
<1> HIDE DEF Q
<1>3. \A n : Passing(L, n) = {x \in CallPlaces(L) : \A i \in (n + 1)..N : x < Q[i]}
  BY <1>1 DEF Passing, Q
<1>4. \A x \in CallPlaces(L) : x \in Nat /\ x \in DOMAIN L /\ L[x].turn \in Nat /\ x \notin RoundsOf(L)
  <2>1. DOMAIN L = 1..Len(L) /\ Len(L) \in Nat
    BY Places
  <2>2. QED
    BY <2>1, Places
<1>5. Passing(L, 0) = {}
  <2>1. SUFFICES ASSUME NEW x \in CallPlaces(L), \A i \in (0 + 1)..N : x < Q[i] PROVE FALSE
    BY <1>3
  <2>2. PICK k \in RoundsOf(L) : x \in InRound(L, k)
    BY DEF Whole
  <2>3. PICK i \in 1..N : Q[i] = k
    BY <1>2
  <2>4. x > k /\ x < k
    BY <2>1, <2>2, <2>3 DEF InRound
  <2>5. QED
    BY <1>2, <1>4, <2>3, <2>4
<1>6. Passing(L, N) = CallPlaces(L)
  <2>1. (N + 1)..N = {}
    OBVIOUS
  <2>2. QED
    BY <1>3, <2>1
<1>7. ASSUME NEW n \in 1..N PROVE Passing(L, n - 1) = Before(L, Q[n], 0)
  <2>1. ASSUME NEW x \in CallPlaces(L)
        PROVE  (\A i \in ((n - 1) + 1)..N : x < Q[i]) <=> x < Q[n]
    <3>1. x \in Nat /\ \A i \in n..N : i = n \/ (n < i /\ i \in 1..N)
      BY <1>4
    <3>2. \A i \in n..N : Q[i] \in Nat /\ Q[n] \in Nat /\ (i = n \/ Q[n] < Q[i])
      BY <1>2, <3>1
    <3>3. n \in ((n - 1) + 1)..N /\ \A i \in ((n - 1) + 1)..N : i \in n..N
      OBVIOUS
    <3>4. QED
      BY <3>1, <3>2, <3>3
  <2>2. \A x \in CallPlaces(L) : ~(L[x].turn < 0)
    BY <1>4
  <2>3. QED
    BY <1>3, <2>1, <2>2 DEF Before
<1>8. ASSUME NEW n \in 1..N PROVE Passing(L, n) = Before(L, Q[n], MaxTurns)
  <2>1. ASSUME NEW x \in CallPlaces(L)
        PROVE  (\A i \in (n + 1)..N : x < Q[i]) <=> x < Q[n] \/ x \in InRound(L, Q[n])
    <3>1. x \in Nat /\ x \in DOMAIN L /\ Q[n] \in Nat /\ x # Q[n]
      BY <1>2, <1>4
    <3>2. ASSUME \A i \in (n + 1)..N : x < Q[i], ~(x < Q[n]) PROVE x \in InRound(L, Q[n])
      <4>1. ASSUME NEW k \in RoundsOf(L) PROVE k <= Q[n] \/ x < k
        <5>1. PICK i \in 1..N : Q[i] = k
          BY <1>2
        <5>2. CASE i \in (n + 1)..N
          BY <3>2, <5>1, <5>2
        <5>3. CASE i = n
          BY <1>2, <5>1, <5>3
        <5>4. CASE i < n
          <6>1. Q[i] < Q[n] /\ Q[i] \in Nat
            BY <1>2, <5>4
          <6>2. QED
            BY <3>1, <5>1, <6>1
        <5>5. QED
          BY <5>2, <5>3, <5>4
      <4>2. QED
        BY <3>1, <3>2, <4>1 DEF InRound
    <3>3. ASSUME x < Q[n] \/ x \in InRound(L, Q[n]), NEW i \in (n + 1)..N PROVE x < Q[i]
      <4>1. i \in 1..N /\ n < i
        OBVIOUS
      <4>2. Q[n] < Q[i] /\ Q[i] \in Nat /\ Q[i] \in RoundsOf(L)
        BY <1>2, <4>1
      <4>3. CASE x < Q[n]
        BY <3>1, <4>2, <4>3
      <4>4. CASE x \in InRound(L, Q[n])
        BY <3>1, <4>2, <4>4 DEF InRound
      <4>5. QED
        BY <3>3, <4>3, <4>4
    <3>4. QED
      BY <3>2, <3>3
  <2>2. \A x \in CallPlaces(L) : L[x].turn < MaxTurns
    BY DEF Whole
  <2>3. QED
    BY <1>3, <2>1, <2>2 DEF Before
<1>9. QED
  BY <1>1, <1>5, <1>6, <1>7, <1>8 DEF Q

LEMMA StartsSelf == ASSUME NEW L \in Seq(LogEvents) PROVE Starts(L, L)
  BY DEF Starts

LEMMA RoundsServed ==
  ASSUME NEW L \in Seq(LogEvents), Whole(L, {}), NEW f, RebuiltOf(f, L)
  PROVE  \A n \in 0..Len(Queries(L)) : f[n] \in States /\ f[n].served = ServedBy(L, Passing(L, n))
<1>1. PICK N \in Nat : N = Len(Queries(L))
  BY QueriesWell
<1>2. f \in [0..N -> States] /\ f[0] = Blank
  BY <1>1 DEF RebuiltOf
<1> DEFINE T == {n \in 0..N : f[n].served = ServedBy(L, Passing(L, n))}
<1>3. 0 \in T
  <2>1. ServedBy(L, {}) = {} /\ Blank.served = {}
    BY DEF ServedBy, Blank
  <2>2. Passing(L, 0) = {}
    BY PassingRounds
  <2>3. QED
    BY <1>2, <2>1, <2>2
<1>4. ASSUME NEW n \in 1..N, n - 1 \in T PROVE n \in T
  <2>1. PICK k \in RoundsOf(L), s \in States : k = Queries(L)[n] /\ s = f[n - 1]
    <3>1. Queries(L)[n] \in RoundsOf(L)
      BY <1>1, QueriesWell
    <3>2. n - 1 \in 0..N
      OBVIOUS
    <3>3. f[n - 1] \in States
      BY <1>2, <3>2
    <3>4. QED
      BY <3>1, <3>3
  <2>2. f[n] = RebuiltRound(L, s, k)
    BY <1>1, <2>1 DEF RebuiltOf
  <2>3. s.served = ServedBy(L, Before(L, k, 0))
    BY <1>1, <1>4, <2>1, PassingRounds
  <2>4. k \in DOMAIN L
    BY Places
  <2>5. PICK g : TurnsOf(g, L, k, s)
    BY <2>4, TurnsDef
  <2>6. \A t \in 0..MaxTurns : Walked(L, k, t, g[t])
    <3>1. 0 \in 0..MaxTurns
      BY ReplayAssumption
    <3>2. TurnsIn(L, L, k, 0) /\ SteerPlaces(L, k) \subseteq DOMAIN L
      BY Places DEF TurnsIn, SteerPlaces
    <3>3. QED
      BY <2>3, <2>5, <3>1, <3>2, StartsSelf, RoundSame
  <2>7. MaxTurns \in 0..MaxTurns
    BY ReplayAssumption
  <2>8. f[n].served = ServedBy(L, Before(L, k, MaxTurns))
    BY <2>2, <2>5, <2>6, <2>7 DEF TurnsOf, Walked
  <2>9. QED
    BY <1>1, <2>1, <2>8, PassingRounds
<1> HIDE DEF T
<1>5. \A n \in 0..N : n \in T
  BY <1>3, <1>4, UpTo
<1>6. QED
  BY <1>1, <1>2, <1>5 DEF T

LEMMA RoundsSame ==
  ASSUME NEW L0, NEW L, Starts(L0, L), Whole(L0, {}), Whole(L, {}),
         NEW N \in 0..Len(Queries(L0)), N <= Len(Queries(L)),
         \A n \in 1..N : /\ Queries(L)[n] = Queries(L0)[n]
                         /\ InRound(L, Queries(L0)[n]) \subseteq DOMAIN L0,
         NEW f0, RebuiltOf(f0, L0), NEW f, RebuiltOf(f, L)
  PROVE  f[N] = f0[N]
<1>1. L0 \in Seq(LogEvents) /\ L \in Seq(LogEvents)
  BY DEF Starts
<1>2. N \in Nat /\ \A n \in 1..N : n \in 1..Len(Queries(L0)) /\ n \in 1..Len(Queries(L))
                                    /\ n - 1 \in 0..Len(Queries(L0))
  BY <1>1, QueriesWell
<1> DEFINE T == {n \in 0..N : f[n] = f0[n]}
<1>3. 0 \in T
  BY <1>2 DEF RebuiltOf
<1>4. ASSUME NEW n \in 1..N, n - 1 \in T PROVE n \in T
  <2>1. PICK k \in RoundsOf(L0) : k = Queries(L0)[n] /\ k = Queries(L)[n]
    BY <1>1, <1>2, QueriesWell
  <2>2. PICK s \in States : s = f0[n - 1] /\ s.served = ServedBy(L0, Passing(L0, n - 1))
    BY <1>1, <1>2, RoundsServed
  <2>3. f0[n] = RebuiltRound(L0, s, k) /\ f[n] = RebuiltRound(L, s, k)
    BY <1>2, <1>4, <2>1, <2>2 DEF RebuiltOf
  <2>4. s.served = ServedBy(L0, Before(L0, k, 0))
    BY <1>1, <1>2, <2>1, <2>2, PassingRounds
  <2>5. k \in DOMAIN L0 /\ k \in DOMAIN L
    BY <1>1, StartSame, Places DEF Starts
  <2>6. PICK g0 : TurnsOf(g0, L0, k, s)
    BY <1>1, <2>5, TurnsDef
  <2>7. PICK g : TurnsOf(g, L, k, s)
    BY <1>1, <2>5, TurnsDef
  <2>8. MaxTurns \in 0..MaxTurns
    BY ReplayAssumption
  <2>9. TurnsIn(L0, L, k, MaxTurns) /\ SteerPlaces(L, k) \subseteq DOMAIN L0
    BY <2>1 DEF TurnsIn, SteerPlaces
  <2>10. \A t \in 0..MaxTurns : g[t] = g0[t]
    BY <2>4, <2>6, <2>7, <2>8, <2>9, RoundSame
  <2>11. f[n] = f0[n]
    BY <2>3, <2>6, <2>7, <2>8, <2>10 DEF TurnsOf
  <2>12. QED
    BY <2>11
<1> HIDE DEF T
<1>5. \A n \in 0..N : n \in T
  BY <1>2, <1>3, <1>4, UpTo
<1>6. QED
  BY <1>2, <1>5 DEF T

-----------------------------------------------------------------------------
(* What a log is rebuilt to as it grows.                                   *)
AddedUser(s, r, value) ==
  r.history = Append(s.history, UserTurn(value)) /\ r.notes = s.notes /\ ~r.over

LEMMA RebuiltStates == ASSUME NEW L \in Seq(LogEvents) PROVE Rebuilt(L) \in States
  BY RebuiltWell DEF Sound

Grown(L0, e, L) == L0 \in Seq(LogEvents) /\ e \in LogEvents /\ L = Append(L0, e)

LEMMA AppendStarts ==
  ASSUME NEW L0, NEW e, NEW L, Grown(L0, e, L)
  PROVE  /\ L0 \in Seq(LogEvents) /\ e \in LogEvents
         /\ Starts(L0, L) /\ L \in Seq(LogEvents) /\ Len(L0) \in Nat /\ Len(L) = Len(L0) + 1
         /\ L[Len(L0) + 1] = e /\ DOMAIN L = 1..(Len(L0) + 1) /\ DOMAIN L0 = 1..Len(L0)
         /\ \A j \in 1..Len(L0) : L[j] = L0[j]
         /\ e.kind # "query" => RoundsOf(L) = RoundsOf(L0)
         /\ e.kind = "query" => RoundsOf(L) = RoundsOf(L0) \cup {Len(L0) + 1}
<1>0. L0 \in Seq(LogEvents) /\ e \in LogEvents
  BY DEF Grown
<1>1. /\ L \in Seq(LogEvents) /\ Len(L0) \in Nat /\ Len(L) = Len(L0) + 1
      /\ L[Len(L0) + 1] = e /\ DOMAIN L = 1..(Len(L0) + 1) /\ DOMAIN L0 = 1..Len(L0)
      /\ \A j \in 1..Len(L0) : L[j] = L0[j]
  BY DEF Grown
<1>2. Starts(L0, L)
  BY <1>0, <1>1 DEF Starts
<1>3. e.kind # "query" => RoundsOf(L) = RoundsOf(L0)
  BY <1>1 DEF RoundsOf
<1>4. e.kind = "query" => RoundsOf(L) = RoundsOf(L0) \cup {Len(L0) + 1}
  BY <1>1 DEF RoundsOf
<1>5. QED
  BY <1>0, <1>1, <1>2, <1>3, <1>4

(* A round of nothing but its query and steering.                          *)
LEMMA RestedRound ==
  ASSUME NEW L \in Seq(LogEvents), NEW k \in RoundsOf(L), NEW s \in States, Resting(L, k, 0)
  PROVE  RebuiltRound(L, s, k) = Reasked(L, k, s)
<1>1. PICK g : TurnsOf(g, L, k, s)
  <2>1. k \in DOMAIN L
    BY Places
  <2>2. QED
    BY <2>1, TurnsDef
<1>2. g[MaxTurns] = g[0]
  BY <1>1, RestIdle
<1>3. QED
  BY <1>1, <1>2 DEF TurnsOf

(* The next query begins a round of nothing but itself.                    *)
LEMMA AddQuery ==
  ASSUME NEW L0, NEW e, NEW L, Grown(L0, e, L), e.kind = "query", Whole(L0, {}), Whole(L, {})
  PROVE  AddedUser(Rebuilt(L0), Rebuilt(L), e.value)
<1>0. L0 \in Seq(LogEvents) /\ e \in LogEvents
  BY DEF Grown
<1>1. PICK n \in Nat : n = Len(L0) /\ DOMAIN L0 = 1..n
  BY AppendStarts
<1>2. /\ Starts(L0, L) /\ L \in Seq(LogEvents) /\ Len(L) = n + 1 /\ L[n + 1] = e /\ DOMAIN L = 1..(n + 1)
      /\ RoundsOf(L) = RoundsOf(L0) \cup {n + 1}
  BY <1>1, AppendStarts
<1>3. PICK N \in Nat : N = Len(Queries(L0))
  BY <1>0, QueriesWell
<1>4. RoundsOf(L0) \subseteq 1..n
  BY <1>0, <1>1, Places
<1>5. Queries(L) = Append(Queries(L0), n + 1)
  <2>1. Listed(n + 1, RoundsOf(L)) = Append(Listed(n, RoundsOf(L)), n + 1)
    BY <1>2, ListedNext
  <2>2. RoundsOf(L) \cap (1..n) = RoundsOf(L0) \cap (1..n)
    BY <1>2
  <2>3. Listed(n, RoundsOf(L)) = Listed(n, RoundsOf(L0))
    BY <2>2, ListedSame
  <2>4. QED
    BY <1>1, <1>2, <2>1, <2>3 DEF Queries
<1>6. /\ Len(Queries(L)) = N + 1 /\ Queries(L)[N + 1] = n + 1
      /\ \A i \in 1..N : Queries(L)[i] = Queries(L0)[i]
  <2>1. Queries(L0) \in Seq(Nat)
    BY <1>0, QueriesIn
  <2>2. QED
    BY <1>3, <1>5, <2>1
<1>7. \A i \in 1..N : InRound(L, Queries(L0)[i]) \subseteq 1..n
  <2>1. SUFFICES ASSUME NEW i \in 1..N, NEW j \in InRound(L, Queries(L0)[i]) PROVE j \in 1..n
    OBVIOUS
  <2>2. Queries(L0)[i] \in 1..n
    BY <1>0, <1>3, <1>4, QueriesWell
  <2>3. j \in 1..(n + 1) /\ (n + 1 <= Queries(L0)[i] \/ j < n + 1)
    BY <1>2 DEF InRound
  <2>4. QED
    BY <2>2, <2>3
<1>8. PICK f0 : RebuiltOf(f0, L0)
  BY <1>0, RebuiltDef
<1>9. PICK f : RebuiltOf(f, L)
  BY <1>2, RebuiltDef
<1>10. f[N] = f0[N] /\ f0[N] = Rebuilt(L0)
  <2>1. N \in 0..Len(Queries(L0)) /\ N <= Len(Queries(L))
    BY <1>3, <1>6
  <2>2. \A i \in 1..N : Queries(L)[i] = Queries(L0)[i] /\ InRound(L, Queries(L0)[i]) \subseteq DOMAIN L0
    BY <1>1, <1>6, <1>7
  <2>3. f[N] = f0[N]
    BY <1>2, <1>8, <1>9, <2>1, <2>2, RoundsSame
  <2>4. QED
    BY <1>3, <1>8, <2>3 DEF RebuiltOf
<1>11. PICK s \in States : s = Rebuilt(L0)
  BY <1>0, RebuiltStates
<1>12. Rebuilt(L) = RebuiltRound(L, s, n + 1)
  <2>1. N + 1 \in 1..Len(Queries(L)) /\ (N + 1) - 1 = N
    BY <1>6
  <2>2. f[N + 1] = RebuiltRound(L, f[N], Queries(L)[N + 1])
    BY <1>9, <2>1 DEF RebuiltOf
  <2>3. QED
    BY <1>6, <1>9, <1>10, <1>11, <2>2 DEF RebuiltOf
<1>13. InRound(L, n + 1) = {}
  BY <1>2 DEF InRound
<1>14. Resting(L, n + 1, 0)
  BY <1>13, ReplayAssumption DEF Bucket, Resting
<1>15. Rebuilt(L) = Reasked(L, n + 1, s)
  <2>1. PICK k \in RoundsOf(L) : k = n + 1
    BY <1>2
  <2>2. RebuiltRound(L, s, k) = Reasked(L, k, s)
    BY <1>2, <1>14, <2>1, RestedRound
  <2>3. QED
    BY <1>12, <2>1, <2>2
<1>16. Listed(Len(L), {j \in InRound(L, n + 1) : L[j].kind = "steer"}) = <<>>
  <2>1. {j \in InRound(L, n + 1) : L[j].kind = "steer"} = {} /\ Len(L) \in Nat
    BY <1>2, <1>13
  <2>2. Listed(Len(L), {}) = Listed(0, {})
    BY <2>1, ListedCut
  <2>3. QED
    BY <2>1, <2>2, ListedNone
<1>17. Reasked(L, n + 1, s) = [s EXCEPT !.over = FALSE, !.history = @ \o <<UserTurn(e.value)>> \o <<>>]
  <2>1. [j \in DOMAIN <<>> |-> UserTurn(L[<<>>[j]].value)] = <<>>
    OBVIOUS
  <2>2. QED
    BY <1>2, <1>16, <2>1 DEF Reasked
<1>18. s.history \in Seq(Turns) /\ UserTurn(e.value) \in Turns
  <2>1. e.value \in Int
    BY <1>0 DEF LogEvents
  <2>2. QED
    BY <2>1, TurnKinds DEF States
<1>19. s.history \o <<UserTurn(e.value)>> \o <<>> = Append(s.history, UserTurn(e.value))
  BY <1>18
<1>20. QED
  BY <1>11, <1>15, <1>17, <1>19 DEF AddedUser, States

(* No query since: only the last round differs.                            *)
Newest(L, q) == q \in RoundsOf(L) /\ \A i \in RoundsOf(L) : i <= q

LEMMA LastRound ==
  ASSUME NEW L0, NEW L, Starts(L0, L), Whole(L0, {}), Whole(L, {}),
         RoundsOf(L) = RoundsOf(L0), NEW q, Newest(L0, q)
  PROVE  \E s \in States : /\ s.served = ServedBy(L0, Before(L0, q, 0))
                           /\ s.served = ServedBy(L, Before(L, q, 0))
                           /\ Rebuilt(L0) = RebuiltRound(L0, s, q)
                           /\ Rebuilt(L) = RebuiltRound(L, s, q)
<1>1. L0 \in Seq(LogEvents) /\ L \in Seq(LogEvents)
  BY DEF Starts
<1>2. PICK n \in Nat : n = Len(L0) /\ DOMAIN L0 = 1..n /\ n <= Len(L) /\ Len(L) \in Nat
  BY <1>1 DEF Starts
<1>3. RoundsOf(L0) \subseteq 1..n
  BY <1>1, <1>2, Places
<1>4. Queries(L) = Queries(L0)
  <2>1. RoundsOf(L0) \cap (1..Len(L)) \subseteq 1..n
    BY <1>3
  <2>2. n \in 0..Len(L)
    BY <1>2
  <2>3. Listed(Len(L), RoundsOf(L0)) = Listed(n, RoundsOf(L0))
    BY <1>2, <2>1, <2>2, ListedCut
  <2>4. QED
    BY <1>2, <2>3 DEF Queries
<1>5. PICK N \in Nat : N = Len(Queries(L0))
  BY <1>1, QueriesWell
<1>6. N \in 1..N /\ Queries(L0)[N] = q
  <2>1. PICK i \in 1..N : Queries(L0)[i] = q
    BY <1>1, <1>5, QueriesWell DEF Newest
  <2>2. N \in 1..N
    OBVIOUS
  <2>3. i < N => Queries(L0)[i] < Queries(L0)[N]
    BY <1>1, <1>5, <2>2, QueriesWell
  <2>4. Queries(L0)[N] \in RoundsOf(L0) /\ Queries(L0)[N] \in Nat /\ Queries(L0)[i] \in Nat
    BY <1>1, <1>5, <2>2, QueriesWell
  <2>5. Queries(L0)[N] <= q
    BY <2>4 DEF Newest
  <2>6. QED
    BY <2>1, <2>2, <2>3, <2>4, <2>5
<1>7. PICK f0 : RebuiltOf(f0, L0)
  BY <1>1, RebuiltDef
<1>8. PICK f : RebuiltOf(f, L)
  BY <1>1, RebuiltDef
<1>9. f[N - 1] = f0[N - 1]
  <2>1. PICK M \in Nat : M = N - 1 /\ M \in 0..N /\ M < N
    BY <1>6
  <2>2. ASSUME NEW i \in 1..M PROVE InRound(L, Queries(L0)[i]) \subseteq DOMAIN L0
    <3>1. Queries(L0)[i] < q /\ Queries(L0)[i] \in Nat /\ q \in 1..n
      <4>1. i \in 1..N /\ i < N
        BY <2>1
      <4>2. Queries(L0)[i] < Queries(L0)[N] /\ Queries(L0)[i] \in Nat /\ Queries(L0)[N] \in RoundsOf(L0)
        BY <1>1, <1>5, <1>6, <4>1, QueriesWell
      <4>3. QED
        BY <1>3, <1>6, <4>2
    <3>2. SUFFICES ASSUME NEW j \in InRound(L, Queries(L0)[i]) PROVE j \in 1..n
      BY <1>2
    <3>3. j \in DOMAIN L /\ (q <= Queries(L0)[i] \/ j < q)
      BY DEF InRound, Newest
    <3>4. j \in Nat /\ j > 0
      BY <1>1, <3>3
    <3>5. QED
      BY <3>1, <3>3, <3>4
  <2>3. M \in 0..Len(Queries(L0)) /\ M <= Len(Queries(L))
    BY <1>4, <1>5, <2>1
  <2>4. \A i \in 1..M : Queries(L)[i] = Queries(L0)[i] /\ InRound(L, Queries(L0)[i]) \subseteq DOMAIN L0
    BY <1>4, <2>2
  <2>5. f[M] = f0[M]
    BY <1>7, <1>8, <2>3, <2>4, RoundsSame
  <2>6. QED
    BY <2>1, <2>5
<1>10. PICK s \in States : s = f0[N - 1] /\ s.served = ServedBy(L0, Passing(L0, N - 1))
  <2>1. N - 1 \in 0..Len(Queries(L0))
    BY <1>5, <1>6
  <2>2. QED
    BY <1>1, <1>7, <2>1, RoundsServed
<1>11. s.served = ServedBy(L0, Before(L0, q, 0))
  BY <1>1, <1>5, <1>6, <1>10, PassingRounds
<1>12. Rebuilt(L0) = RebuiltRound(L0, s, q)
  BY <1>5, <1>6, <1>7, <1>10 DEF RebuiltOf
<1>13. Rebuilt(L) = RebuiltRound(L, s, q)
  BY <1>4, <1>5, <1>6, <1>8, <1>9, <1>10 DEF RebuiltOf
<1>14. s.served = ServedBy(L, Before(L, q, 0))
  <2>1. N - 1 \in 0..Len(Queries(L)) /\ N \in 1..Len(Queries(L)) /\ Queries(L)[N] = q
    BY <1>4, <1>5, <1>6
  <2>2. f[N - 1].served = ServedBy(L, Passing(L, N - 1))
    BY <1>1, <1>8, <2>1, RoundsServed
  <2>3. Passing(L, N - 1) = Before(L, q, 0)
    BY <1>1, <2>1, PassingRounds
  <2>4. QED
    BY <1>9, <1>10, <2>2, <2>3
<1>15. QED
  BY <1>11, <1>12, <1>13, <1>14

(* An event behind the newest query is of its round.                       *)
LEMMA GrownRound ==
  ASSUME NEW L0, NEW e, NEW L, Grown(L0, e, L), e.kind # "query", NEW q, Newest(L0, q)
  PROVE  /\ RoundsOf(L) = RoundsOf(L0) /\ Newest(L, q)
         /\ InRound(L, q) = InRound(L0, q) \cup {Len(L0) + 1}
         /\ \A k \in RoundsOf(L0) : k # q => InRound(L, k) = InRound(L0, k)
<1>1. PICK n \in Nat : n = Len(L0) /\ DOMAIN L0 = 1..n
  BY AppendStarts
<1>2. RoundsOf(L) = RoundsOf(L0) /\ DOMAIN L = 1..(n + 1) /\ L0 \in Seq(LogEvents)
  BY <1>1, AppendStarts
<1>3. RoundsOf(L0) \subseteq 1..n /\ q \in 1..n /\ \A i \in RoundsOf(L0) : i <= q
  BY <1>1, <1>2, Places DEF Newest
<1>4. InRound(L, q) = InRound(L0, q) \cup {n + 1}
  BY <1>1, <1>2, <1>3 DEF InRound
<1>5. ASSUME NEW k \in RoundsOf(L0), k # q PROVE InRound(L, k) = InRound(L0, k)
  <2>1. k < q /\ q \in RoundsOf(L0) /\ k \in 1..n
    BY <1>3, <1>5 DEF Newest
  <2>2. ~(n + 1 < q)
    BY <1>3
  <2>3. QED
    BY <1>1, <1>2, <2>1, <2>2 DEF InRound
<1>6. QED
  BY <1>1, <1>2, <1>4, <1>5 DEF Newest

(* Steering that comes before the first turn.                              *)
LEMMA AddSteer ==
  ASSUME NEW L0, NEW e, NEW L, Grown(L0, e, L), e.kind = "steer", Whole(L0, {}), Whole(L, {}),
         NEW q, Newest(L0, q), Resting(L0, q, 0)
  PROVE  AddedUser(Rebuilt(L0), Rebuilt(L), e.value) /\ Resting(L, q, 0)
<1>1. PICK n \in Nat : n = Len(L0) /\ DOMAIN L0 = 1..n
  BY AppendStarts
<1>2. /\ L0 \in Seq(LogEvents) /\ e \in LogEvents /\ L \in Seq(LogEvents) /\ Starts(L0, L)
      /\ Len(L) = n + 1 /\ L[n + 1] = e /\ \A j \in 1..n : L[j] = L0[j]
  BY <1>1, AppendStarts
<1>3. RoundsOf(L) = RoundsOf(L0) /\ InRound(L, q) = InRound(L0, q) \cup {n + 1}
  BY <1>1, GrownRound
<1>4. q \in RoundsOf(L0) /\ q \in 1..n /\ InRound(L0, q) \subseteq 1..n
  BY <1>1, <1>2, Places DEF Newest
<1>5. Resting(L, q, 0)
  <2>1. \A t, kind : kind \in {"call", "final"} => Bucket(L, q, t, kind) = Bucket(L0, q, t, kind)
    BY <1>2, <1>3, <1>4 DEF Bucket
  <2>2. QED
    BY <2>1 DEF Resting
<1>6. PICK s \in States : Rebuilt(L0) = RebuiltRound(L0, s, q) /\ Rebuilt(L) = RebuiltRound(L, s, q)
  BY <1>2, <1>3, LastRound
<1>7. Rebuilt(L0) = Reasked(L0, q, s) /\ Rebuilt(L) = Reasked(L, q, s)
  BY <1>2, <1>3, <1>4, <1>5, <1>6, RestedRound
<1> DEFINE K0 == {j \in InRound(L0, q) : L0[j].kind = "steer"}
           K == {j \in InRound(L, q) : L[j].kind = "steer"}
           steered0 == Listed(n, K0)
           steered == Listed(n + 1, K)
           users0 == [j \in DOMAIN steered0 |-> UserTurn(L0[steered0[j]].value)]
           users == [j \in DOMAIN steered |-> UserTurn(L[steered[j]].value)]
           asked == UserTurn(L0[q].value)
<1>8. /\ Reasked(L0, q, s) = [s EXCEPT !.over = FALSE, !.history = @ \o <<asked>> \o users0]
      /\ Reasked(L, q, s) = [s EXCEPT !.over = FALSE, !.history = @ \o <<asked>> \o users]
  <2>1. L[q].value = L0[q].value
    BY <1>2, <1>4
  <2>2. QED
    BY <1>1, <1>2, <2>1 DEF Reasked
<1>9. K = K0 \cup {n + 1} /\ K0 \subseteq 1..n
  BY <1>2, <1>3, <1>4
<1> HIDE DEF K, K0
<1>10. steered = Append(steered0, n + 1)
  <2>1. n + 1 \in K /\ K \cap (1..n) = K0 \cap (1..n)
    BY <1>9
  <2>2. Listed(n, K) = Listed(n, K0)
    BY <2>1, ListedSame
  <2>3. QED
    BY <2>1, <2>2, ListedNext
<1>11. steered0 \in Seq(Nat) /\ \A j \in DOMAIN steered0 : steered0[j] \in 1..n
  BY <1>9, ListedOrder
<1> HIDE DEF steered, steered0
<1>12. \A j \in 1..n : UserTurn(L0[j].value) \in Turns
  <2>1. \A j \in 1..n : L0[j].value \in Int
    BY <1>1, <1>2 DEF LogEvents
  <2>2. QED
    BY <2>1, TurnKinds
<1>13. UserTurn(e.value) \in Turns
  <2>1. e.value \in Int
    BY <1>2 DEF LogEvents
  <2>2. QED
    BY <2>1, TurnKinds
<1>14. PICK m \in Nat : m = Len(steered0) /\ DOMAIN steered0 = 1..m
  BY <1>11
<1>15. DOMAIN users0 = 1..m /\ \A j \in 1..m : users0[j] = UserTurn(L0[steered0[j]].value)
  BY <1>14
<1>16. users0 \in Seq(Turns) /\ Len(users0) = m
  <2>1. \A j \in 1..m : users0[j] \in Turns
    BY <1>11, <1>12, <1>14, <1>15
  <2>2. users0 = [j \in 1..m |-> users0[j]]
    BY <1>15
  <2> HIDE DEF users0
  <2>3. users0 \in Seq(Turns)
    BY <2>1, <2>2
  <2>4. QED
    BY <1>15, <2>3
<1>17. users = [j \in 1..(m + 1) |-> IF j = m + 1 THEN UserTurn(e.value) ELSE users0[j]]
  <2>1. /\ DOMAIN steered = 1..(m + 1) /\ steered[m + 1] = n + 1
        /\ \A j \in 1..m : steered[j] = steered0[j]
    BY <1>10, <1>11, <1>14
  <2>2. \A j \in 1..m : L[steered0[j]] = L0[steered0[j]]
    BY <1>2, <1>11, <1>14
  <2>3. ASSUME NEW j \in 1..(m + 1)
        PROVE  UserTurn(L[steered[j]].value) = IF j = m + 1 THEN UserTurn(e.value) ELSE users0[j]
    BY <1>2, <1>15, <2>1, <2>2
  <2> HIDE DEF users0
  <2>4. QED
    BY <2>1, <2>3
<1> HIDE DEF users, users0
<1>18. users = Append(users0, UserTurn(e.value))
  <2>1. Append(users0, UserTurn(e.value)) = [j \in 1..(m + 1) |-> IF j = m + 1 THEN UserTurn(e.value) ELSE users0[j]]
    BY <1>13, <1>16
  <2>2. QED
    BY <1>17, <2>1
<1>19. s.history \in Seq(Turns) /\ asked \in Turns
  BY <1>4, <1>12 DEF States
<1> HIDE DEF asked
<1>20. (s.history \o <<asked>>) \o users = Append((s.history \o <<asked>>) \o users0, UserTurn(e.value))
  <2>0. s.history \o <<asked>> \in Seq(Turns)
    BY <1>19
  <2>1. PICK h \in Seq(Turns) : h = s.history \o <<asked>>
    BY <2>0
  <2>2. h \o Append(users0, UserTurn(e.value)) = Append(h \o users0, UserTurn(e.value))
    BY <1>13, <1>16
  <2>3. QED
    BY <1>18, <2>1, <2>2
<1>21. QED
  BY <1>5, <1>7, <1>8, <1>20 DEF AddedUser, States

(* A turn that is logged on top of a round that was not over.              *)
Ongoing(L, q, t) ==
  /\ Newest(L, q)
  /\ \A j \in InRound(L, q) : L[j].turn <= t /\ ~Ends(L[j]) /\ (L[j].kind = "call" => L[j].turn < t)

LEMMA AddTurn ==
  ASSUME NEW L0, NEW L, Starts(L0, L), Whole(L0, {}), Whole(L, {}), RoundsOf(L) = RoundsOf(L0),
         NEW q, NEW t \in Nat, t < MaxTurns, Ongoing(L0, q, t),
         \A j \in DOMAIN L \ DOMAIN L0 : L[j].turn = t /\ L[j].kind # "steer"
  PROVE  /\ Rebuilt(L0) \in States /\ ~Rebuilt(L0).over
         /\ Rebuilt(L0).served = ServedBy(L, Before(L, q, t))
         /\ Rebuilt(L) = RebuiltTurn(L, q, Rebuilt(L0), t)
<1>1. L0 \in Seq(LogEvents) /\ L \in Seq(LogEvents) /\ q \in RoundsOf(L0) /\ q \in RoundsOf(L)
  BY DEF Starts, Ongoing, Newest
<1>2. PICK n \in Nat : n = Len(L0) /\ DOMAIN L0 = 1..n
  BY <1>1
<1>3. q \in 1..n /\ q \in DOMAIN L /\ InRound(L0, q) = InRound(L, q) \cap (1..n)
      /\ (\A j \in 1..n : L0[j] = L[j]) /\ InRound(L, q) \subseteq DOMAIN L
      /\ \A j \in DOMAIN L : L[j].turn \in Nat
  BY <1>1, <1>2, StartSame, Places DEF Starts
<1>4. PICK s \in States : /\ s.served = ServedBy(L0, Before(L0, q, 0))
                          /\ s.served = ServedBy(L, Before(L, q, 0))
                          /\ Rebuilt(L0) = RebuiltRound(L0, s, q)
                          /\ Rebuilt(L) = RebuiltRound(L, s, q)
  BY LastRound DEF Ongoing
<1>5. PICK g0 : TurnsOf(g0, L0, q, s)
  BY <1>1, <1>2, <1>3, TurnsDef
<1>6. PICK g : TurnsOf(g, L, q, s)
  BY <1>1, <1>3, TurnsDef
<1>7. ASSUME NEW j \in InRound(L, q)
      PROVE  /\ j \in InRound(L0, q) => L[j] = L0[j] /\ L[j].turn <= t /\ ~Ends(L[j])
                                         /\ (L[j].kind = "call" => L[j].turn < t)
             /\ j \notin InRound(L0, q) => L[j].turn = t /\ L[j].kind # "steer" /\ j \notin 1..n
  BY <1>2, <1>3 DEF Ongoing
<1>8. t \in 0..MaxTurns /\ t + 1 \in 1..MaxTurns /\ 0 \in 0..MaxTurns /\ t + 1 \in 0..MaxTurns
  BY ReplayAssumption
<1>9. TurnsIn(L0, L, q, t) /\ SteerPlaces(L, q) \subseteq DOMAIN L0
  BY <1>2, <1>3, <1>7 DEF TurnsIn, SteerPlaces
<1>10. g[t] = g0[t]
  <2>1. \A u \in 0..t : g[u] = g0[u]
    BY <1>1, <1>4, <1>5, <1>6, <1>8, <1>9, RoundSame
  <2>2. QED
    BY <2>1
<1>11. Walked(L, q, t, g[t])
  <2>1. TurnsIn(L, L, q, 0) /\ SteerPlaces(L, q) \subseteq DOMAIN L
    BY <1>3 DEF TurnsIn, SteerPlaces
  <2>2. \A u \in 0..MaxTurns : Walked(L, q, u, g[u])
    BY <1>1, <1>4, <1>6, <1>8, <2>1, StartsSelf, RoundSame
  <2>3. QED
    BY <1>8, <2>2
<1>12. ~g[t].over
  <2>1. SUFFICES ASSUME g[t].over PROVE FALSE
    OBVIOUS
  <2>2. PICK i \in InRound(L, q) : Ends(L[i]) /\ L[i].turn < t
    BY <1>11, <2>1 DEF Walked
  <2>3. QED
    BY <1>7, <2>2
<1>13. Resting(L0, q, t)
  <2>1. ASSUME NEW u \in Nat, u >= t, NEW j \in InRound(L0, q), L0[j].turn = u
        PROVE  L0[j].kind # "call" /\ L0[j].kind # "final"
    BY <2>1 DEF Ongoing, Ends
  <2>2. QED
    BY <1>8, <2>1 DEF Resting, Bucket
<1>14. Resting(L, q, t + 1)
  <2>1. ASSUME NEW u \in Nat, u >= t + 1, NEW j \in InRound(L, q), L[j].turn = u PROVE FALSE
    BY <1>7, <2>1
  <2>2. QED
    BY <1>8, <2>1 DEF Resting, Bucket
<1>15. Rebuilt(L0) = g[t]
  <2>1. g0[MaxTurns] = g0[t]
    BY <1>1, <1>5, <1>13, RestIdle
  <2>2. QED
    BY <1>4, <1>5, <1>10, <2>1 DEF TurnsOf
<1>16. Rebuilt(L) = g[t + 1]
  <2>1. PICK u : u = t + 1
    OBVIOUS
  <2>2. Resting(L, q, u)
    BY <1>14, <2>1
  <2>3. g[MaxTurns] = g[u]
    BY <1>1, <1>6, <2>2, RestIdle
  <2>4. QED
    BY <1>4, <1>6, <2>1, <2>3 DEF TurnsOf
<1>17. g[t + 1] = RebuiltTurn(L, q, g[t], t)
  <2>1. PICK u \in 1..MaxTurns : u = t + 1 /\ u - 1 = t
    BY <1>8
  <2>2. g[u] = RebuiltTurn(L, q, g[u - 1], u - 1)
    BY <1>6 DEF TurnsOf
  <2>3. QED
    BY <2>1, <2>2
<1>18. QED
  BY <1>11, <1>12, <1>15, <1>16, <1>17 DEF Walked

-----------------------------------------------------------------------------
(* A whole log that grows stays whole, but for what is owed.               *)
LEMMA GrownPlaces ==
  ASSUME NEW L0, NEW e, NEW L, Grown(L0, e, L), NEW owed, Whole(L0, owed), NEW n, n = Len(L0)
  PROVE  /\ \A k \in 1..n : CallPlace(L, k) = CallPlace(L0, k)
         /\ CallPlaces(L) = IF e.kind = "call" THEN CallPlaces(L0) \cup {n + 1} ELSE CallPlaces(L0)
         /\ RealPlaces(L) = IF e.kind = "call" /\ ~Intercepted(e.call)
                            THEN RealPlaces(L0) \cup {n + 1} ELSE RealPlaces(L0)
         /\ Recorded(L) = IF e.kind = "result" /\ ~Intercepted(CallOf(L, n + 1))
                          THEN Recorded(L0) \cup {n + 1} ELSE Recorded(L0)
         /\ CallPlaces(L0) \subseteq 1..n /\ Recorded(L0) \subseteq 1..n /\ RealPlaces(L0) \subseteq CallPlaces(L0)
<1>1. /\ n \in Nat /\ DOMAIN L = 1..(n + 1) /\ DOMAIN L0 = 1..n /\ L[n + 1] = e /\ L0 \in Seq(LogEvents)
      /\ Starts(L0, L) /\ \A j \in 1..n : L[j] = L0[j]
  BY AppendStarts
<1>2. \A k \in 1..n : CallPlace(L, k) = CallPlace(L0, k)
  BY <1>1, StartSame
<1>3. CallPlaces(L) = IF e.kind = "call" THEN CallPlaces(L0) \cup {n + 1} ELSE CallPlaces(L0)
  BY <1>1 DEF CallPlaces
<1>4. CallPlaces(L0) \subseteq 1..n /\ Recorded(L0) \subseteq 1..n /\ RealPlaces(L0) \subseteq CallPlaces(L0)
  BY <1>1, Places
<1>5. RealPlaces(L) = IF e.kind = "call" /\ ~Intercepted(e.call)
                      THEN RealPlaces(L0) \cup {n + 1} ELSE RealPlaces(L0)
  BY <1>1, <1>3, <1>4 DEF RealPlaces
<1>6. Recorded(L0) = Recorded(L) \cap (1..n)
  BY <1>1, StartServed
<1>7. n + 1 \in Recorded(L) <=> e.kind = "result" /\ ~Intercepted(CallOf(L, n + 1))
  BY <1>1 DEF Recorded
<1>8. Recorded(L) \subseteq 1..(n + 1)
  BY <1>1 DEF Recorded
<1>9. Recorded(L) = IF e.kind = "result" /\ ~Intercepted(CallOf(L, n + 1))
                    THEN Recorded(L0) \cup {n + 1} ELSE Recorded(L0)
  BY <1>1, <1>6, <1>7, <1>8
<1>10. QED
  BY <1>2, <1>3, <1>4, <1>5, <1>9

InOrder(L) ==
  \A k \in RoundsOf(L) : \A i, j \in InRound(L, k) :
    i < j => L[i].turn <= L[j].turn /\ (L[j].kind = "call" => ~Ends(L[i]))
Housed(L) ==
  \A j \in CallPlaces(L) : L[j].turn < MaxTurns /\ \E k \in RoundsOf(L) : j \in InRound(L, k)

(* An event that may come next in a round.                                 *)
Follows(L0, q, e) ==
  /\ Newest(L0, q) /\ e.kind # "query" /\ (e.kind = "call" => e.turn < MaxTurns)
  /\ \A j \in InRound(L0, q) : L0[j].turn <= e.turn /\ (e.kind = "call" => ~Ends(L0[j]))

LEMMA OrderGrows ==
  ASSUME NEW L0, NEW e, NEW L, Grown(L0, e, L), NEW owed, Whole(L0, owed), NEW q, Follows(L0, q, e)
  PROVE  InOrder(L) /\ Housed(L)
<1>1. PICK n \in Nat : n = Len(L0) /\ DOMAIN L0 = 1..n
  BY AppendStarts
<1>2. /\ DOMAIN L = 1..(n + 1) /\ L[n + 1] = e /\ L0 \in Seq(LogEvents)
      /\ \A j \in 1..n : L[j] = L0[j]
  BY <1>1, AppendStarts
<1>3. /\ RoundsOf(L) = RoundsOf(L0) /\ InRound(L, q) = InRound(L0, q) \cup {n + 1}
      /\ \A k \in RoundsOf(L0) : k # q => InRound(L, k) = InRound(L0, k)
      /\ \A k : InRound(L0, k) \subseteq 1..n
      /\ q \in RoundsOf(L0)
  BY <1>1, <1>2, GrownRound, Places DEF Follows, Newest
<1>4. InOrder(L0) /\ Housed(L0)
  BY DEF Whole, InOrder, Housed
<1>5. InOrder(L)
  <2>1. SUFFICES ASSUME NEW k \in RoundsOf(L0), NEW i \in InRound(L, k), NEW j \in InRound(L, k), i < j
                 PROVE  L[i].turn <= L[j].turn /\ (L[j].kind = "call" => ~Ends(L[i]))
    BY <1>3 DEF InOrder
  <2>2. CASE i \in InRound(L0, k) /\ j \in InRound(L0, k)
    <3>1. L[i] = L0[i] /\ L[j] = L0[j]
      BY <1>2, <1>3, <2>2
    <3>2. QED
      BY <1>4, <2>1, <2>2, <3>1 DEF InOrder
  <2>3. CASE ~(i \in InRound(L0, k) /\ j \in InRound(L0, k))
    <3>1. k = q
      BY <1>3, <2>3
    <3>2. i \in InRound(L0, q) /\ j = n + 1
      BY <1>3, <2>1, <2>3, <3>1
    <3>3. L[i] = L0[i] /\ L[j] = e
      BY <1>2, <1>3, <3>2
    <3>4. QED
      BY <3>2, <3>3 DEF Follows
  <2>4. QED
    BY <2>2, <2>3
<1>6. Housed(L)
  <2>1. SUFFICES ASSUME NEW j \in CallPlaces(L)
                 PROVE  L[j].turn < MaxTurns /\ \E k \in RoundsOf(L) : j \in InRound(L, k)
    BY DEF Housed
  <2>2. CASE j = n + 1
    BY <1>2, <1>3, <2>2 DEF Follows, CallPlaces
  <2>3. CASE j # n + 1
    <3>1. j \in 1..n /\ j \in CallPlaces(L0) /\ L[j] = L0[j]
      BY <1>1, <1>2, <2>3 DEF CallPlaces
    <3>2. PICK k \in RoundsOf(L0) : j \in InRound(L0, k)
      BY <1>4, <3>1 DEF Housed
    <3>3. j \in InRound(L, k)
      BY <1>3, <3>2
    <3>4. QED
      BY <1>3, <1>4, <3>1, <3>3 DEF Housed
  <2>4. QED
    BY <2>2, <2>3
<1>7. QED
  BY <1>5, <1>6

LEMMA WholeQuery ==
  ASSUME NEW L0, NEW e, NEW L, Grown(L0, e, L), e.kind = "query", Whole(L0, {})
  PROVE  Whole(L, {}) /\ Newest(L, Len(L0) + 1) /\ InRound(L, Len(L0) + 1) = {}
<1>1. PICK n \in Nat : n = Len(L0) /\ DOMAIN L0 = 1..n
  BY AppendStarts
<1>2. /\ DOMAIN L = 1..(n + 1) /\ L[n + 1] = e /\ L0 \in Seq(LogEvents)
      /\ (\A j \in 1..n : L[j] = L0[j]) /\ RoundsOf(L) = RoundsOf(L0) \cup {n + 1}
  BY <1>1, AppendStarts
<1>3. /\ \A k \in 1..n : CallPlace(L, k) = CallPlace(L0, k)
      /\ CallPlaces(L) = CallPlaces(L0) /\ RealPlaces(L) = RealPlaces(L0) /\ Recorded(L) = Recorded(L0)
      /\ CallPlaces(L0) \subseteq 1..n /\ Recorded(L0) \subseteq 1..n
  BY <1>1, GrownPlaces
<1>4. RoundsOf(L0) \subseteq 1..n
  BY <1>1, <1>2, Places
<1>5. InRound(L, n + 1) = {} /\ \A k \in RoundsOf(L0) : InRound(L, k) = InRound(L0, k)
  BY <1>1, <1>2, <1>4 DEF InRound
<1>6. \A k \in RoundsOf(L0) : InRound(L0, k) \subseteq 1..n
  BY <1>1 DEF InRound
<1>7. InOrder(L0) /\ Housed(L0)
  BY DEF Whole, InOrder, Housed
<1>8. InOrder(L)
  <2>1. SUFFICES ASSUME NEW k \in RoundsOf(L0), NEW i \in InRound(L0, k), NEW j \in InRound(L0, k), i < j
                 PROVE  L[i].turn <= L[j].turn /\ (L[j].kind = "call" => ~Ends(L[i]))
    BY <1>2, <1>5 DEF InOrder
  <2>2. L[i] = L0[i] /\ L[j] = L0[j]
    BY <1>2, <1>6
  <2>3. QED
    BY <1>7, <2>1, <2>2 DEF InOrder
<1>9. Housed(L)
  BY <1>2, <1>3, <1>5, <1>7 DEF Housed
<1>10. \A k \in DOMAIN L : L[k].kind = "result" => CallPlace(L, k) \in CallPlaces(L) \cap (1..(k - 1))
  <2>1. SUFFICES ASSUME NEW k \in 1..n, L0[k].kind = "result"
                 PROVE  CallPlace(L0, k) \in CallPlaces(L0) \cap (1..(k - 1))
    BY <1>2, <1>3
  <2>2. QED
    BY <1>1, <2>1 DEF Whole
<1>11. \A k, l \in Recorded(L) : k < l => CallPlace(L, k) < CallPlace(L, l)
  BY <1>3 DEF Whole
<1>12. \A j \in RealPlaces(L) \ {} : \E k \in Recorded(L) : CallPlace(L, k) = j
  BY <1>3 DEF Whole
<1>13. Whole(L, {})
  BY <1>8, <1>9, <1>10, <1>11, <1>12 DEF Whole, InOrder, Housed
<1>14. Newest(L, n + 1)
  BY <1>2, <1>4 DEF Newest
<1>15. QED
  BY <1>1, <1>5, <1>13, <1>14

LEMMA WholeOther ==
  ASSUME NEW L0, NEW e, NEW L, Grown(L0, e, L), e.kind \in {"steer", "final"},
         NEW owed, Whole(L0, owed), NEW q, Follows(L0, q, e)
  PROVE  Whole(L, owed)
<1>1. PICK n \in Nat : n = Len(L0) /\ DOMAIN L0 = 1..n
  BY AppendStarts
<1>2. DOMAIN L = 1..(n + 1) /\ L[n + 1] = e /\ \A j \in 1..n : L[j] = L0[j]
  BY <1>1, AppendStarts
<1>3. /\ \A k \in 1..n : CallPlace(L, k) = CallPlace(L0, k)
      /\ CallPlaces(L) = CallPlaces(L0) /\ RealPlaces(L) = RealPlaces(L0) /\ Recorded(L) = Recorded(L0)
      /\ CallPlaces(L0) \subseteq 1..n /\ Recorded(L0) \subseteq 1..n
  BY <1>1, GrownPlaces
<1>4. \A k \in DOMAIN L : L[k].kind = "result" => CallPlace(L, k) \in CallPlaces(L) \cap (1..(k - 1))
  <2>1. SUFFICES ASSUME NEW k \in 1..n, L0[k].kind = "result"
                 PROVE  CallPlace(L0, k) \in CallPlaces(L0) \cap (1..(k - 1))
    BY <1>2, <1>3
  <2>2. QED
    BY <1>1, <2>1 DEF Whole
<1>5. \A k \in Recorded(L) : CallPlace(L, k) \notin owed
  BY <1>3 DEF Whole
<1>6. \A k, l \in Recorded(L) : k < l => CallPlace(L, k) < CallPlace(L, l)
  BY <1>3 DEF Whole
<1>7. \A j \in RealPlaces(L) \ owed : \E k \in Recorded(L) : CallPlace(L, k) = j
  BY <1>3 DEF Whole
<1>8. InOrder(L) /\ Housed(L)
  BY OrderGrows
<1>9. QED
  BY <1>4, <1>5, <1>6, <1>7, <1>8 DEF Whole, InOrder, Housed

LEMMA WholeCall ==
  ASSUME NEW L0, NEW e, NEW L, Grown(L0, e, L), e.kind = "call",
         NEW owed, Whole(L0, owed), NEW q, Follows(L0, q, e)
  PROVE  Whole(L, owed \cup {Len(L0) + 1}) /\ Recorded(L) = Recorded(L0)
<1>1. PICK n \in Nat : n = Len(L0) /\ DOMAIN L0 = 1..n
  BY AppendStarts
<1>2. DOMAIN L = 1..(n + 1) /\ L[n + 1] = e /\ \A j \in 1..n : L[j] = L0[j]
  BY <1>1, AppendStarts
<1>3. /\ \A k \in 1..n : CallPlace(L, k) = CallPlace(L0, k)
      /\ CallPlaces(L) = CallPlaces(L0) \cup {n + 1} /\ Recorded(L) = Recorded(L0)
      /\ RealPlaces(L) \subseteq RealPlaces(L0) \cup {n + 1}
      /\ CallPlaces(L0) \subseteq 1..n /\ Recorded(L0) \subseteq 1..n
  BY <1>1, GrownPlaces
<1>4. \A k \in DOMAIN L : L[k].kind = "result" => CallPlace(L, k) \in CallPlaces(L) \cap (1..(k - 1))
  <2>1. SUFFICES ASSUME NEW k \in 1..n, L0[k].kind = "result"
                 PROVE  CallPlace(L0, k) \in CallPlaces(L0) \cap (1..(k - 1))
    BY <1>2, <1>3
  <2>2. QED
    BY <1>1, <2>1 DEF Whole
<1>5. ASSUME NEW k \in Recorded(L) PROVE CallPlace(L, k) \notin owed \cup {n + 1}
  <2>1. CallPlace(L, k) = CallPlace(L0, k) /\ k \in 1..n /\ L0[k].kind = "result" /\ k \in Recorded(L0)
    BY <1>3 DEF Recorded
  <2>2. CallPlace(L0, k) \in 1..(k - 1)
    BY <1>1, <2>1 DEF Whole
  <2>3. QED
    BY <2>1, <2>2 DEF Whole
<1>6. \A k, l \in Recorded(L) : k < l => CallPlace(L, k) < CallPlace(L, l)
  BY <1>3 DEF Whole
<1>7. \A j \in RealPlaces(L) \ (owed \cup {n + 1}) : \E k \in Recorded(L) : CallPlace(L, k) = j
  BY <1>3 DEF Whole
<1>8. InOrder(L) /\ Housed(L)
  BY OrderGrows
<1>9. QED
  BY <1>1, <1>3, <1>4, <1>5, <1>6, <1>7, <1>8 DEF Whole, InOrder, Housed

(* The result of a call that no later one was answered before.             *)
Due(L0, L, owed, p) ==
  /\ p \in CallPlaces(L0) /\ CallPlace(L, Len(L0) + 1) = p /\ p \in owed
  /\ \A k \in Recorded(L0) : CallPlace(L0, k) < p

LEMMA WholeResult ==
  ASSUME NEW L0, NEW e, NEW L, Grown(L0, e, L), e.kind = "result",
         NEW owed, Whole(L0, owed), NEW q, Follows(L0, q, e),
         NEW p, Due(L0, L, owed, p)
  PROVE  /\ Whole(L, owed \ {p})
         /\ ValueOf(L, p) = Again(L0[p].call, e.value)
         /\ \A k \in Recorded(L) : CallPlace(L, k) <= p
<1>0. /\ p \in CallPlaces(L0) /\ CallPlace(L, Len(L0) + 1) = p /\ p \in owed
      /\ \A k \in Recorded(L0) : CallPlace(L0, k) < p
  BY DEF Due
<1>1. PICK n \in Nat : n = Len(L0) /\ DOMAIN L0 = 1..n
  BY AppendStarts
<1>2. /\ DOMAIN L = 1..(n + 1) /\ L[n + 1] = e /\ (\A j \in 1..n : L[j] = L0[j])
      /\ L \in Seq(LogEvents) /\ L0 \in Seq(LogEvents)
  BY <1>1, AppendStarts
<1>3. /\ \A k \in 1..n : CallPlace(L, k) = CallPlace(L0, k)
      /\ CallPlaces(L) = CallPlaces(L0) /\ RealPlaces(L) = RealPlaces(L0)
      /\ Recorded(L) = IF ~Intercepted(CallOf(L, n + 1)) THEN Recorded(L0) \cup {n + 1} ELSE Recorded(L0)
      /\ CallPlaces(L0) \subseteq 1..n /\ Recorded(L0) \subseteq 1..n
  BY <1>1, GrownPlaces
<1>4. p \in 1..n /\ CallPlace(L, n + 1) = p /\ L[p] = L0[p] /\ CallOf(L, n + 1) = L0[p].call
  BY <1>0, <1>1, <1>2, <1>3 DEF CallOf
<1>5. \A k \in DOMAIN L : L[k].kind = "result" => CallPlace(L, k) \in CallPlaces(L) \cap (1..(k - 1))
  <2>1. SUFFICES ASSUME NEW k \in 1..(n + 1), L[k].kind = "result"
                 PROVE  CallPlace(L, k) \in CallPlaces(L0) \cap (1..(k - 1))
    BY <1>2, <1>3
  <2>2. CASE k = n + 1
    BY <1>0, <1>4, <2>2
  <2>3. CASE k # n + 1
    <3>1. k \in 1..n /\ L0[k].kind = "result" /\ CallPlace(L, k) = CallPlace(L0, k)
      BY <1>2, <1>3, <2>1, <2>3
    <3>2. QED
      BY <1>1, <3>1 DEF Whole
  <2>4. QED
    BY <2>2, <2>3
<1>6. \A k \in Recorded(L) : k = n + 1 \/ (k \in Recorded(L0) /\ k \in 1..n /\ CallPlace(L, k) = CallPlace(L0, k))
  BY <1>3
<1>7. \A k \in Recorded(L) : CallPlace(L, k) \notin owed \ {p}
  BY <1>0, <1>4, <1>6 DEF Whole
<1>8. ASSUME NEW k \in Recorded(L), NEW l \in Recorded(L), k < l PROVE CallPlace(L, k) < CallPlace(L, l)
  <2>1. k \in Recorded(L0) /\ k \in 1..n /\ CallPlace(L, k) = CallPlace(L0, k)
    BY <1>6, <1>8, <1>3
  <2>2. CASE l = n + 1
    BY <1>0, <1>4, <2>1, <2>2
  <2>3. CASE l # n + 1
    BY <1>6, <1>8, <2>1, <2>3 DEF Whole
  <2>4. QED
    BY <2>2, <2>3
<1>9. ASSUME NEW j \in RealPlaces(L) \ (owed \ {p}) PROVE \E k \in Recorded(L) : CallPlace(L, k) = j
  <2>1. CASE j = p
    <3>1. ~Intercepted(L0[p].call)
      BY <1>3, <1>9, <2>1 DEF RealPlaces
    <3>2. n + 1 \in Recorded(L)
      BY <1>3, <1>4, <3>1
    <3>3. QED
      BY <1>4, <2>1, <3>2
  <2>2. CASE j # p
    <3>1. PICK k \in Recorded(L0) : CallPlace(L0, k) = j
      BY <1>3, <1>9, <2>2 DEF Whole
    <3>2. k \in Recorded(L) /\ CallPlace(L, k) = CallPlace(L0, k)
      BY <1>3
    <3>3. QED
      BY <3>1, <3>2
  <2>3. QED
    BY <2>1, <2>2
<1>10. InOrder(L) /\ Housed(L)
  BY OrderGrows
<1>11. Whole(L, owed \ {p})
  BY <1>5, <1>7, <1>8, <1>9, <1>10 DEF Whole, InOrder, Housed
<1>12. ValueOf(L, p) = Again(L0[p].call, e.value)
  <2>1. CASE Intercepted(L0[p].call)
    BY <1>4, <2>1 DEF ValueOf, Again
  <2>2. CASE ~Intercepted(L0[p].call)
    <3>1. n + 1 \in Recorded(L)
      BY <1>3, <1>4, <2>2
    <3>2. ValueOf(L, CallPlace(L, n + 1)) = Truncate(L[n + 1].value)
      BY <1>2, <1>11, <3>1, AnsweredOnce
    <3>3. QED
      BY <1>2, <1>4, <2>2, <3>2 DEF Again
  <2>3. QED
    BY <2>1, <2>2
<1>13. \A k \in Recorded(L) : CallPlace(L, k) <= p
  <2>1. SUFFICES ASSUME NEW k \in Recorded(L) PROVE CallPlace(L, k) <= p
    OBVIOUS
  <2>2. CASE k = n + 1
    BY <1>0, <1>4, <2>2
  <2>3. CASE k # n + 1
    <3>1. k \in Recorded(L0) /\ CallPlace(L, k) = CallPlace(L0, k) /\ CallPlace(L0, k) < p /\ p \in Nat
      BY <1>0, <1>4, <1>6, <2>3
    <3>2. CallPlace(L0, k) \in Nat
      BY <1>2, <3>1, AnsweredOnce
    <3>3. QED
      BY <3>1, <3>2
  <2>4. QED
    BY <2>2, <2>3
<1>14. QED
  BY <1>11, <1>12, <1>13

-----------------------------------------------------------------------------
(* A turn in the works: its calls are logged one by one and answered in    *)
(* their order.                                                            *)
Distinct(calls) ==
  calls \in Seq(SoundCalls) /\ calls # <<>> /\ \A i, j \in DOMAIN calls : calls[i].id = calls[j].id => i = j

Turning(L0, q, L, t, calls, cs) ==
  /\ Starts(L0, L) /\ Whole(L0, {}) /\ RoundsOf(L) = RoundsOf(L0) /\ Ongoing(L0, q, t)
  /\ t \in Nat /\ t < MaxTurns
  /\ \A j \in DOMAIN L \ DOMAIN L0 : L[j].turn = t /\ L[j].kind \in {"call", "result"}
  /\ cs = CallsAt(L, q, t) /\ Len(cs) <= Len(calls)
  /\ \A i \in 1..Len(cs) : L[cs[i]].call = calls[i]

(* The calls from a position on are still to be answered.                  *)
Owing(cs, p) == {cs[i] : i \in p..Len(cs)}
Owed(L, cs, p) ==
  /\ Whole(L, Owing(cs, p)) /\ p \in Nat \ {0} /\ p - 1 <= Len(cs)
  /\ \A k \in Recorded(L) : \A i \in p..Len(cs) : CallPlace(L, k) < cs[i]

(* What the answers before it have made of a state.                        *)
Said(e, value) ==
  IF e.call.tool = "stop" THEN <<ToolTurn(e.id, value), TextTurn>> ELSE <<ToolTurn(e.id, value)>>
Extended(r, e, value) ==
  [history |-> r.history \o Said(e, value),
   notes |-> IF e.call.tool = "save_note" THEN r.notes + 1 ELSE r.notes]
Chain(f, L, cs, base, calls, n) ==
  /\ f[0] = [history |-> Append(base.history, CallTurn(calls, {})), notes |-> base.notes]
  /\ \A i \in 1..n : f[i] = Extended(f[i - 1], L[cs[i]], ValueOf(L, cs[i]))

LEMMA TurningWell ==
  ASSUME NEW L0, NEW q, NEW L, NEW t, NEW calls, NEW cs, Turning(L0, q, L, t, calls, cs)
  PROVE  /\ L0 \in Seq(LogEvents) /\ L \in Seq(LogEvents) /\ Newest(L, q)
         /\ Len(cs) \in Nat /\ DOMAIN cs = 1..Len(cs) /\ cs \in Seq(Nat)
         /\ \A i, j \in 1..Len(cs) : i < j => cs[i] < cs[j]
         /\ \A i \in 1..Len(cs) :
              /\ cs[i] \in CallPlaces(L) /\ cs[i] \in Nat /\ cs[i] \in 1..Len(L) /\ cs[i] \in InRound(L, q)
              /\ L[cs[i]].turn = t /\ L[cs[i]].call = calls[i]
              /\ L[cs[i]].id = calls[i].id /\ L[cs[i]].kind = "call"
         /\ \A j \in InRound(L, q) :
              /\ L[j].turn <= t
              /\ L[j].kind = "call" /\ L[j].turn = t => \E i \in 1..Len(cs) : cs[i] = j
              /\ Ends(L[j]) => L[j].kind = "call" /\ L[j].turn = t
<1>1. L0 \in Seq(LogEvents) /\ L \in Seq(LogEvents) /\ Newest(L, q)
  BY DEF Turning, Starts, Ongoing, Newest
<1>2. /\ cs \in Seq(CallPlaces(L)) /\ Len(cs) \in Nat /\ DOMAIN cs = 1..Len(cs) /\ Ascending(cs)
      /\ (\A i \in 1..Len(cs) : cs[i] \in Bucket(L, q, t, "call"))
      /\ \A x \in Bucket(L, q, t, "call") : \E i \in 1..Len(cs) : cs[i] = x
  <2>1. cs = CallsAt(L, q, t)
    BY DEF Turning
  <2>2. QED
    BY <1>1, <2>1, CallsAtWell
<1>3. DOMAIN L = 1..Len(L) /\ Len(L) \in Nat /\ CallPlaces(L) \subseteq 1..Len(L)
  BY <1>1, Places
<1>4. cs \in Seq(Nat)
  BY <1>2, <1>3
<1>5. \A i, j \in 1..Len(cs) : i < j => cs[i] < cs[j]
  BY <1>2 DEF Ascending
<1>6. ASSUME NEW i \in 1..Len(cs)
      PROVE  /\ cs[i] \in CallPlaces(L) /\ cs[i] \in Nat /\ cs[i] \in 1..Len(L) /\ cs[i] \in InRound(L, q)
             /\ L[cs[i]].turn = t /\ L[cs[i]].call = calls[i]
             /\ L[cs[i]].id = calls[i].id /\ L[cs[i]].kind = "call"
  <2>1. cs[i] \in CallPlaces(L) /\ cs[i] \in 1..Len(L)
    BY <1>2, <1>3
  <2>2. cs[i] \in InRound(L, q) /\ L[cs[i]].turn = t
    BY <1>2 DEF Bucket
  <2>3. L[cs[i]].call = calls[i] /\ L[cs[i]].kind = "call" /\ L[cs[i]].id = L[cs[i]].call.id
    BY <1>1, <2>1, Places DEF Turning
  <2>4. QED
    BY <2>1, <2>2, <2>3
<1>7. ASSUME NEW j \in InRound(L, q)
      PROVE  /\ L[j].turn <= t
             /\ L[j].kind = "call" /\ L[j].turn = t => \E i \in 1..Len(cs) : cs[i] = j
             /\ Ends(L[j]) => L[j].kind = "call" /\ L[j].turn = t
  <2>1. j \in DOMAIN L /\ t \in Nat
    BY DEF InRound, Turning
  <2>2. CASE j \in DOMAIN L0
    <3>1. j \in 1..Len(L0) /\ q \in 1..Len(L0) /\ L[j] = L0[j]
      BY <1>1, <2>2, Places DEF Turning, Starts, Ongoing, Newest
    <3>2. j \in InRound(L0, q)
      BY <3>1, StartSame DEF Turning
    <3>3. L[j].turn <= t /\ ~Ends(L[j]) /\ ~(L[j].kind = "call" /\ L[j].turn = t)
      BY <2>1, <3>1, <3>2 DEF Turning, Ongoing
    <3>4. QED
      BY <3>3
  <2>3. CASE j \notin DOMAIN L0
    <3>1. L[j].turn = t /\ L[j].kind \in {"call", "result"}
      BY <2>1, <2>3 DEF Turning
    <3>2. L[j].kind = "call" => j \in Bucket(L, q, t, "call")
      BY <3>1 DEF Bucket
    <3>3. QED
      BY <1>2, <2>1, <3>1, <3>2 DEF Ends
  <2>4. QED
    BY <2>2, <2>3
<1>8. QED
  BY <1>1, <1>2, <1>4, <1>5, <1>6, <1>7

LEMMA CallsGrow ==
  ASSUME NEW P, NEW e, NEW L, Grown(P, e, L), e.kind # "query", NEW q, Newest(P, q), NEW t
  PROVE  CallsAt(L, q, t) = IF e.kind = "call" /\ e.turn = t
                            THEN Append(CallsAt(P, q, t), Len(P) + 1) ELSE CallsAt(P, q, t)
<1>1. PICK n \in Nat : n = Len(P) /\ DOMAIN P = 1..n
  BY AppendStarts
<1>2. Len(L) = n + 1 /\ L[n + 1] = e /\ \A j \in 1..n : L[j] = P[j]
  BY <1>1, AppendStarts
<1>3. InRound(L, q) = InRound(P, q) \cup {n + 1} /\ InRound(P, q) \subseteq 1..n
  <2>1. InRound(P, q) \subseteq 1..n
    BY <1>1 DEF InRound
  <2>2. QED
    BY <1>1, <2>1, GrownRound
<1> DEFINE K == Bucket(L, q, t, "call")
           K0 == Bucket(P, q, t, "call")
<1>4. K \cap (1..n) = K0 \cap (1..n) /\ (n + 1 \in K <=> e.kind = "call" /\ e.turn = t)
  BY <1>2, <1>3 DEF Bucket
<1> HIDE DEF K, K0
<1>5. Listed(n, K) = Listed(n, K0)
  BY <1>4, ListedSame
<1>6. Listed(n + 1, K) = IF e.kind = "call" /\ e.turn = t THEN Append(Listed(n, K0), n + 1) ELSE Listed(n, K0)
  BY <1>4, <1>5, ListedNext
<1>7. QED
  BY <1>1, <1>2, <1>6 DEF CallsAt, K, K0

LEMMA ChainKept ==
  ASSUME NEW P, NEW L, Starts(P, L), NEW o, Whole(P, o), NEW o2, Whole(L, o2),
         NEW f, NEW cs, NEW cs2, NEW base, NEW calls, NEW n \in Nat, Chain(f, P, cs, base, calls, n),
         \A i \in 1..n : cs2[i] = cs[i] /\ cs[i] \in CallPlaces(P) \ o
  PROVE  Chain(f, L, cs2, base, calls, n)
<1>1. ASSUME NEW i \in 1..n
      PROVE  L[cs2[i]] = P[cs[i]] /\ ValueOf(L, cs2[i]) = ValueOf(P, cs[i])
  <2>1. ValueOf(L, cs[i]) = ValueOf(P, cs[i])
    BY StartServed
  <2>2. cs[i] \in 1..Len(P)
    <3>1. CallPlaces(P) \subseteq 1..Len(P)
      BY Places DEF Starts
    <3>2. QED
      BY <3>1
  <2>3. QED
    BY <2>1, <2>2 DEF Starts
<1>2. QED
  BY <1>1 DEF Chain

After(n, m) == n \in Nat /\ m = n + 1

LEMMA ChainMore ==
  ASSUME NEW f, NEW L, NEW cs, NEW base, NEW calls, NEW n, Chain(f, L, cs, base, calls, n), NEW m, After(n, m)
  PROVE  \E g : /\ Chain(g, L, cs, base, calls, m)
                /\ g[m] = Extended(f[n], L[cs[m]], ValueOf(L, cs[m]))
<1> DEFINE x == Extended(f[n], L[cs[m]], ValueOf(L, cs[m]))
           g == [i \in 0..m |-> IF i = m THEN x ELSE f[i]]
<1>0. n \in Nat /\ m \in Nat /\ m = n + 1
  BY DEF After
<1> HIDE DEF x
<1>1. g[m] = x /\ \A i \in 0..n : g[i] = f[i]
  BY <1>0
<1> HIDE DEF g
<1>2. ASSUME NEW i \in 1..m PROVE g[i] = Extended(g[i - 1], L[cs[i]], ValueOf(L, cs[i]))
  <2>1. CASE i = m
    <3>1. g[n] = f[n] /\ i - 1 = n
      BY <1>0, <1>1, <2>1
    <3>2. QED
      BY <1>1, <2>1, <3>1 DEF x
  <2>2. CASE i # m
    <3>1. i \in 1..n /\ i - 1 \in 0..n /\ i \in 0..n
      BY <1>0, <2>2
    <3>2. QED
      BY <1>1, <3>1 DEF Chain
  <2>3. QED
    BY <2>1, <2>2
<1>3. g[0] = f[0]
  BY <1>0, <1>1
<1>4. Chain(g, L, cs, base, calls, m)
  BY <1>2, <1>3 DEF Chain
<1>5. QED
  BY <1>1, <1>4 DEF x

LEMMA TurnGrows ==
  ASSUME NEW L0, NEW q, NEW P, NEW t, NEW calls, NEW cs, Turning(L0, q, P, t, calls, cs),
         NEW e, NEW L, Grown(P, e, L), e.kind \in {"call", "result", "final"}, e.turn = t
  PROVE  /\ Starts(L0, L) /\ RoundsOf(L) = RoundsOf(L0) /\ Newest(P, q)
         /\ \A j \in DOMAIN L \ DOMAIN L0 : L[j].turn = t /\ (L[j].kind \in {"call", "result"} \/ L[j] = e)
         /\ CallsAt(L, q, t) = IF e.kind = "call" THEN Append(cs, Len(P) + 1) ELSE cs
<1>1. PICK n \in Nat : n = Len(P) /\ DOMAIN P = 1..n
  BY AppendStarts
<1>2. /\ DOMAIN L = 1..(n + 1) /\ L[n + 1] = e /\ (\A j \in 1..n : L[j] = P[j]) /\ Len(L) = n + 1
      /\ L \in Seq(LogEvents) /\ RoundsOf(L) = RoundsOf(P)
  BY <1>1, AppendStarts
<1>3. Newest(P, q)
  BY TurningWell
<1>4. /\ L0 \in Seq(LogEvents) /\ Len(L0) <= n /\ (\A j \in 1..Len(L0) : L0[j] = P[j])
      /\ RoundsOf(P) = RoundsOf(L0) /\ cs = CallsAt(P, q, t)
      /\ \A j \in DOMAIN P \ DOMAIN L0 : P[j].turn = t /\ P[j].kind \in {"call", "result"}
  BY <1>1 DEF Turning, Starts
<1>5. Starts(L0, L)
  <2>1. Len(L0) \in Nat
    BY <1>4
  <2>2. \A j \in 1..Len(L0) : L0[j] = L[j]
    BY <1>2, <1>4, <2>1
  <2>3. QED
    BY <1>2, <1>4, <2>1, <2>2 DEF Starts
<1>6. \A j \in DOMAIN L \ DOMAIN L0 : L[j].turn = t /\ (L[j].kind \in {"call", "result"} \/ L[j] = e)
  BY <1>1, <1>2, <1>4
<1>7. CallsAt(L, q, t) = IF e.kind = "call" THEN Append(cs, Len(P) + 1) ELSE cs
  BY <1>3, <1>4, CallsGrow
<1>8. QED
  BY <1>2, <1>3, <1>4, <1>5, <1>6, <1>7

(* The next call of the reply is logged.                                   *)
Longer(cs, P, cs2) == cs2 = Append(cs, Len(P) + 1)

LEMMA Announced ==
  ASSUME NEW L0, NEW q, NEW P, NEW t, NEW calls, NEW cs, Turning(L0, q, P, t, calls, cs),
         Distinct(calls), NEW p, Owed(P, cs, p),
         NEW e, NEW L, Grown(P, e, L), e.kind = "call", e.turn = t,
         Len(cs) + 1 \in DOMAIN calls, e.call = calls[Len(cs) + 1],
         \A i \in 1..Len(cs) : ~Terminal(calls[i]),
         NEW cs2, Longer(cs, P, cs2),
         NEW f, NEW base, Chain(f, P, cs, base, calls, p - 1)
  PROVE  /\ Turning(L0, q, L, t, calls, cs2) /\ Owed(L, cs2, p) /\ Len(cs2) = Len(cs) + 1
         /\ Chain(f, L, cs2, base, calls, p - 1)
<1>1. PICK n \in Nat : n = Len(P) /\ DOMAIN P = 1..n
  BY AppendStarts
<1>2. /\ DOMAIN L = 1..(n + 1) /\ L[n + 1] = e /\ (\A j \in 1..n : L[j] = P[j]) /\ Len(L) = n + 1
      /\ L \in Seq(LogEvents) /\ P \in Seq(LogEvents) /\ Starts(P, L)
  BY <1>1, AppendStarts
<1>3. PICK m \in Nat : m = Len(cs) /\ DOMAIN cs = 1..m /\ cs \in Seq(Nat)
  <2>1. Len(cs) \in Nat /\ DOMAIN cs = 1..Len(cs) /\ cs \in Seq(Nat)
    BY TurningWell
  <2>2. QED
    BY <2>1
<1>4. \A i \in 1..m : cs[i] \in CallPlaces(P) /\ cs[i] \in 1..n /\ P[cs[i]].call = calls[i]
  BY <1>1, <1>3, TurningWell
<1>5. /\ Len(cs2) = m + 1 /\ DOMAIN cs2 = 1..(m + 1) /\ cs2[m + 1] = n + 1
      /\ \A i \in 1..m : cs2[i] = cs[i]
  BY <1>1, <1>3 DEF Longer
<1>6. Turning(L0, q, L, t, calls, cs2)
  <2>1. /\ Starts(L0, L) /\ RoundsOf(L) = RoundsOf(L0) /\ cs2 = CallsAt(L, q, t)
        /\ \A j \in DOMAIN L \ DOMAIN L0 : L[j].turn = t /\ L[j].kind \in {"call", "result"}
    BY TurnGrows DEF Longer
  <2>2. Whole(L0, {}) /\ Ongoing(L0, q, t) /\ t \in Nat /\ t < MaxTurns
    BY DEF Turning
  <2>3. Len(cs2) <= Len(calls)
    <3>1. calls \in Seq(SoundCalls) /\ m + 1 \in DOMAIN calls
      BY <1>3 DEF Distinct
    <3>2. QED
      BY <1>5, <3>1
  <2>4. \A i \in 1..(m + 1) : L[cs2[i]].call = calls[i]
    <3>1. \A i \in 1..m : L[cs2[i]].call = calls[i]
      BY <1>2, <1>4, <1>5
    <3>2. L[cs2[m + 1]].call = calls[m + 1]
      BY <1>2, <1>3, <1>5
    <3>3. QED
      BY <3>1, <3>2
  <2>5. QED
    BY <1>5, <2>1, <2>2, <2>3, <2>4 DEF Turning
<1>7. Follows(P, q, e)
  <2>0. Newest(P, q)
    BY TurningWell
  <2>1. Newest(P, q) /\ t < MaxTurns
    BY <2>0 DEF Turning
  <2>2. ASSUME NEW j \in InRound(P, q) PROVE P[j].turn <= t /\ ~Ends(P[j])
    <3>1. SUFFICES ASSUME Ends(P[j]) PROVE FALSE
      BY TurningWell
    <3>2. PICK i \in 1..m : cs[i] = j
      BY <1>3, <3>1, TurningWell
    <3>3. P[j].call = calls[i] /\ P[j].kind = "call" /\ ~Terminal(calls[i])
      BY <1>3, <1>4, <3>1, <3>2, TurningWell
    <3>4. QED
      BY <3>1, <3>3 DEF Ends
  <2>3. QED
    BY <2>1, <2>2 DEF Follows
<1>8. p \in Nat \ {0} /\ p - 1 <= m /\ Whole(P, Owing(cs, p))
      /\ \A k \in Recorded(P) : \A i \in p..m : CallPlace(P, k) < cs[i]
  BY <1>3 DEF Owed
<1>9. Whole(L, Owing(cs, p) \cup {n + 1}) /\ Recorded(L) = Recorded(P)
  BY <1>1, <1>7, <1>8, WholeCall
<1>10. Owing(cs2, p) = Owing(cs, p) \cup {n + 1}
  <2>1. p..(m + 1) = (p..m) \cup {m + 1}
    BY <1>8
  <2>2. \A i \in p..m : cs2[i] = cs[i]
    BY <1>5, <1>8
  <2>3. {cs2[i] : i \in p..(m + 1)} = {cs2[i] : i \in p..m} \cup {cs2[m + 1]}
    BY <2>1
  <2>4. {cs2[i] : i \in p..m} = {cs[i] : i \in p..m}
    BY <2>2
  <2>5. QED
    BY <1>3, <1>5, <2>3, <2>4 DEF Owing
<1>11. Owed(L, cs2, p)
  <2>1. ASSUME NEW k \in Recorded(L), NEW i \in p..(m + 1) PROVE CallPlace(L, k) < cs2[i]
    <3>1. k \in Recorded(P) /\ k \in 1..n
      BY <1>1, <1>9, <1>2, Places
    <3>2. CallPlace(L, k) = CallPlace(P, k)
      BY <1>1, <1>2, <3>1, StartSame
    <3>3. CASE i = m + 1
      <4>1. CallPlace(P, k) < k /\ CallPlace(P, k) \in Nat
        BY <1>2, <1>8, <3>1, AnsweredOnce
      <4>2. QED
        BY <1>5, <3>1, <3>2, <3>3, <4>1
    <3>4. CASE i # m + 1
      <4>1. i \in p..m /\ i \in 1..m
        BY <1>8, <3>4
      <4>2. QED
        BY <1>5, <1>8, <3>1, <3>2, <4>1
    <3>5. QED
      BY <3>3, <3>4
  <2>2. p - 1 <= Len(cs2)
    BY <1>5, <1>8
  <2>3. Whole(L, Owing(cs2, p))
    BY <1>9, <1>10
  <2>4. QED
    BY <1>5, <1>8, <2>1, <2>2, <2>3 DEF Owed
<1>12. Chain(f, L, cs2, base, calls, p - 1)
  <2>1. p - 1 \in Nat
    BY <1>8
  <2>2. ASSUME NEW i \in 1..(p - 1) PROVE cs2[i] = cs[i] /\ cs[i] \in CallPlaces(P) \ Owing(cs, p)
    <3>1. i \in 1..m /\ \A j \in p..m : j \in 1..m /\ i < j
      BY <1>8
    <3>2. \A j \in p..m : cs[i] < cs[j] /\ cs[i] \in Nat
      BY <1>3, <3>1, TurningWell
    <3>3. cs[i] \notin Owing(cs, p)
      BY <1>3, <3>2 DEF Owing
    <3>4. QED
      BY <1>4, <1>5, <3>1, <3>3
  <2>3. PICK r \in Nat : r = p - 1
    BY <2>1
  <2>4. Chain(f, P, cs, base, calls, r) /\ \A i \in 1..r : cs2[i] = cs[i] /\ cs[i] \in CallPlaces(P) \ Owing(cs, p)
    BY <2>2, <2>3
  <2>5. Chain(f, L, cs2, base, calls, r)
    BY <1>2, <1>8, <1>9, <2>4, ChainKept
  <2>6. QED
    BY <2>3, <2>5
<1>13. QED
  BY <1>3, <1>5, <1>6, <1>11, <1>12

(* The next result is that of the first call that has none.                *)
LEMMA NextAnswered ==
  ASSUME NEW L0, NEW q, NEW P, NEW t, NEW calls, NEW cs, Turning(L0, q, P, t, calls, cs),
         Distinct(calls), NEW owed, Whole(P, owed), NEW p \in 1..Len(cs),
         NEW e, NEW L, Grown(P, e, L), e.id = calls[p].id
  PROVE  CallPlace(L, Len(P) + 1) = cs[p]
<1>1. PICK n \in Nat : n = Len(P) /\ DOMAIN P = 1..n
  BY AppendStarts
<1>2. L[n + 1] = e /\ (\A j \in 1..n : L[j] = P[j]) /\ P \in Seq(LogEvents) /\ \A j \in 1..n : P[j].turn \in Nat
  BY <1>1, AppendStarts, Places
<1>3. /\ p \in Nat /\ cs[p] \in 1..n /\ cs[p] \in InRound(P, q) /\ P[cs[p]].turn = t /\ P[cs[p]].kind = "call"
      /\ P[cs[p]].id = calls[p].id /\ Newest(P, q) /\ t \in Nat
  <2>1. Len(cs) \in Nat /\ Newest(P, q)
    BY TurningWell
  <2>2. /\ cs[p] \in 1..Len(P) /\ cs[p] \in InRound(P, q) /\ P[cs[p]].turn = t /\ P[cs[p]].kind = "call"
        /\ P[cs[p]].id = calls[p].id
    BY TurningWell
  <2>3. t \in Nat
    BY DEF Turning
  <2>4. QED
    BY <1>1, <2>1, <2>2, <2>3
<1> DEFINE S == {j \in 1..n : L[j].kind = "call" /\ L[j].id = L[n + 1].id}
<1>4. CallPlace(L, n + 1) = Max(S)
  <2>1. (n + 1) - 1 = n
    OBVIOUS
  <2>2. QED
    BY <2>1 DEF CallPlace
<1>5. cs[p] \in S /\ S \in SUBSET (1..n)
  BY <1>2, <1>3
<1>6. ASSUME NEW y \in S, cs[p] < y PROVE FALSE
  <2>1. y \in 1..n /\ P[y].kind = "call" /\ P[y].id = calls[p].id
    BY <1>2, <1>6
  <2>2. y \in InRound(P, q)
    <3>1. q < cs[p] /\ q \in Nat /\ \A i \in RoundsOf(P) : i <= q
      BY <1>2, <1>3, Places DEF InRound, Newest
    <3>2. QED
      BY <1>1, <1>3, <1>6, <2>1, <3>1 DEF InRound
  <2>3. P[cs[p]].turn <= P[y].turn
    BY <1>3, <1>6, <2>2 DEF Whole, Newest
  <2>4. P[y].turn <= t
    BY <2>2, TurningWell
  <2>5. P[y].turn = t
    BY <1>2, <1>3, <2>1, <2>3, <2>4
  <2>6. PICK i \in 1..Len(cs) : cs[i] = y
    BY <2>1, <2>2, <2>5, TurningWell
  <2>7. calls[i].id = calls[p].id
    BY <2>1, <2>6, TurningWell
  <2>8. i \in DOMAIN calls /\ p \in DOMAIN calls
    <3>1. Len(cs) <= Len(calls) /\ Len(cs) \in Nat /\ calls \in Seq(SoundCalls)
      BY TurningWell DEF Turning, Distinct
    <3>2. QED
      BY <3>1
  <2>9. i = p
    BY <2>7, <2>8 DEF Distinct
  <2>10. QED
    BY <1>3, <1>6, <2>6, <2>9
<1> HIDE DEF S
<1>7. Max(S) \in S /\ \A y \in S : Max(S) >= y
  BY <1>5, GreatestOf
<1>8. Max(S) = cs[p]
  <2>1. PICK x \in S : x = Max(S) /\ x >= cs[p]
    BY <1>5, <1>7
  <2>2. ~(cs[p] < x)
    BY <1>6
  <2>3. x \in Nat /\ cs[p] \in Nat
    BY <1>3, <1>5
  <2>4. QED
    BY <2>1, <2>2, <2>3
<1>9. QED
  BY <1>1, <1>4, <1>8

LEMMA Answered ==
  ASSUME NEW L0, NEW q, NEW P, NEW t, NEW calls, NEW cs, Turning(L0, q, P, t, calls, cs),
         Distinct(calls), NEW p \in 1..Len(cs), Owed(P, cs, p),
         NEW e, NEW L, Grown(P, e, L), e.kind = "result", e.turn = t, e.id = calls[p].id,
         NEW f, NEW base, Chain(f, P, cs, base, calls, p - 1)
  PROVE  /\ Turning(L0, q, L, t, calls, cs) /\ Owed(L, cs, p + 1)
         /\ \E g : /\ Chain(g, L, cs, base, calls, p)
                   /\ g[p] = Extended(f[p - 1], P[cs[p]],
                                      Again(calls[p], e.value))
<1>1. PICK n \in Nat : n = Len(P) /\ DOMAIN P = 1..n
  BY AppendStarts
<1>2. /\ DOMAIN L = 1..(n + 1) /\ L[n + 1] = e /\ (\A j \in 1..n : L[j] = P[j]) /\ Len(L) = n + 1
      /\ L \in Seq(LogEvents) /\ P \in Seq(LogEvents) /\ Starts(P, L)
  BY <1>1, AppendStarts
<1>3. PICK m \in Nat : m = Len(cs) /\ DOMAIN cs = 1..m
  BY TurningWell
<1>4. \A i \in 1..m : cs[i] \in CallPlaces(P) /\ cs[i] \in 1..n /\ P[cs[i]].call = calls[i]
  BY <1>1, <1>3, TurningWell
<1>5. \A i, j \in 1..m : i < j => cs[i] < cs[j]
  BY <1>3, TurningWell
<1>6. Turning(L0, q, L, t, calls, cs)
  <2>1. /\ Starts(L0, L) /\ RoundsOf(L) = RoundsOf(L0) /\ cs = CallsAt(L, q, t)
        /\ \A j \in DOMAIN L \ DOMAIN L0 : L[j].turn = t /\ L[j].kind \in {"call", "result"}
    BY TurnGrows
  <2>2. Whole(L0, {}) /\ Ongoing(L0, q, t) /\ t \in Nat /\ t < MaxTurns /\ Len(cs) <= Len(calls)
    BY DEF Turning
  <2>3. \A i \in 1..m : L[cs[i]].call = calls[i]
    BY <1>2, <1>4
  <2>4. QED
    BY <1>3, <2>1, <2>2, <2>3 DEF Turning
<1>7. Follows(P, q, e)
  BY TurningWell DEF Follows
<1>8. Whole(P, Owing(cs, p)) /\ (\A k \in Recorded(P) : \A i \in p..m : CallPlace(P, k) < cs[i])
  BY <1>3 DEF Owed
<1>9. CallPlace(L, n + 1) = cs[p]
  BY <1>1, <1>8, NextAnswered
<1>10. /\ Whole(L, Owing(cs, p) \ {cs[p]})
       /\ ValueOf(L, cs[p]) = Again(P[cs[p]].call, e.value)
       /\ \A k \in Recorded(L) : CallPlace(L, k) <= cs[p]
  <2>1. PICK c \in CallPlaces(P) : c = cs[p]
    BY <1>3, <1>4
  <2>2. Due(P, L, Owing(cs, p), c)
    BY <1>1, <1>3, <1>8, <1>9, <2>1 DEF Owing, Due
  <2>3. /\ Whole(L, Owing(cs, p) \ {c})
        /\ ValueOf(L, c) = Again(P[c].call, e.value)
        /\ \A k \in Recorded(L) : CallPlace(L, k) <= c
    BY <1>7, <1>8, <2>2, WholeResult
  <2>4. QED
    BY <2>1, <2>3
<1>11. Owing(cs, p) \ {cs[p]} = Owing(cs, p + 1)
  <2>1. \A i \in p..m : i = p \/ i \in (p + 1)..m
    BY <1>3
  <2>2. \A i \in (p + 1)..m : i \in p..m /\ cs[i] # cs[p]
    <3>1. SUFFICES ASSUME NEW i \in (p + 1)..m PROVE i \in p..m /\ cs[i] # cs[p]
      OBVIOUS
    <3>2. i \in 1..m /\ p \in 1..m /\ p < i
      BY <1>3
    <3>3. cs[p] < cs[i] /\ cs[p] \in Nat
      BY <1>4, <1>5, <3>2
    <3>4. QED
      BY <3>2, <3>3
  <2>3. QED
    BY <1>3, <2>1, <2>2 DEF Owing
<1>12. Owed(L, cs, p + 1)
  <2>1. ASSUME NEW k \in Recorded(L), NEW i \in (p + 1)..m PROVE CallPlace(L, k) < cs[i]
    <3>1. CallPlace(L, k) <= cs[p] /\ CallPlace(L, k) \in Nat
      BY <1>2, <1>10, AnsweredOnce
    <3>2. i \in 1..m /\ p \in 1..m /\ p < i
      BY <1>3
    <3>3. cs[p] < cs[i] /\ cs[p] \in Nat /\ cs[i] \in Nat
      BY <1>4, <1>5, <3>2
    <3>4. QED
      BY <3>1, <3>3
  <2>2. p + 1 \in Nat \ {0} /\ (p + 1) - 1 <= m
    BY <1>3
  <2>3. QED
    BY <1>3, <1>10, <1>11, <2>1, <2>2 DEF Owed
<1>13. \E g : /\ Chain(g, L, cs, base, calls, p)
              /\ g[p] = Extended(f[p - 1], P[cs[p]], Again(calls[p], e.value))
  <2>1. PICK r \in Nat : r = p - 1 /\ r + 1 = p
    BY <1>3
  <2>2. ASSUME NEW i \in 1..r PROVE cs[i] \in CallPlaces(P) \ Owing(cs, p)
    <3>1. i \in 1..m /\ \A j \in p..m : j \in 1..m /\ i < j
      BY <1>3, <2>1
    <3>2. \A j \in p..m : cs[i] < cs[j] /\ cs[i] \in Nat
      BY <1>4, <1>5, <3>1
    <3>3. QED
      BY <1>3, <1>4, <3>1, <3>2 DEF Owing
  <2>3. Chain(f, L, cs, base, calls, r)
    <3>1. Chain(f, P, cs, base, calls, r)
      BY <2>1
    <3>2. QED
      BY <1>2, <1>8, <1>10, <2>2, <3>1, ChainKept
  <2>4. PICK g : /\ Chain(g, L, cs, base, calls, p)
                 /\ g[p] = Extended(f[r], L[cs[p]], ValueOf(L, cs[p]))
    <3>1. After(r, p)
      BY <1>3, <2>1 DEF After
    <3>2. QED
      BY <2>3, <3>1, ChainMore
  <2>5. L[cs[p]] = P[cs[p]] /\ P[cs[p]].call = calls[p]
    BY <1>2, <1>3, <1>4
  <2>6. QED
    BY <1>10, <2>1, <2>4, <2>5
<1>14. QED
  BY <1>6, <1>12, <1>13

(* A turn that is logged to its last call, all of them answered, is        *)
(* rebuilt as the chain of its answers.                                    *)
Written(L0, q, L, t, calls, cs) ==
  /\ Starts(L0, L) /\ Whole(L0, {}) /\ RoundsOf(L) = RoundsOf(L0) /\ Ongoing(L0, q, t)
  /\ t \in Nat /\ t < MaxTurns
  /\ \A j \in DOMAIN L \ DOMAIN L0 : L[j].turn = t /\ L[j].kind # "steer"
  /\ cs = CallsAt(L, q, t) /\ Len(cs) = Len(calls)
  /\ \A i \in 1..Len(cs) : L[cs[i]].call = calls[i]

Filled(cs, calls, n) == n = Len(cs) /\ n = Len(calls)

LEMMA Closed ==
  ASSUME NEW L0, NEW q, NEW L, NEW t, NEW calls, NEW cs, Written(L0, q, L, t, calls, cs),
         Whole(L, {}), Distinct(calls), NEW n, Filled(cs, calls, n),
         NEW f, Chain(f, L, cs, Rebuilt(L0), calls, n)
  PROVE  Rebuilt(L).history = f[n].history /\ Rebuilt(L).notes = f[n].notes
<1>1. L0 \in Seq(LogEvents) /\ L \in Seq(LogEvents) /\ q \in RoundsOf(L) /\ t \in Nat
  BY DEF Written, Starts, Ongoing, Newest
<1>2. PICK s : /\ s = Rebuilt(L0) /\ s \in States /\ ~s.over /\ s.served = ServedBy(L, Before(L, q, t))
               /\ Rebuilt(L) = RebuiltTurn(L, q, s, t)
  BY AddTurn DEF Written
<1>3. /\ cs = CallsAt(L, q, t) /\ cs \in Seq(CallPlaces(L)) /\ n \in Nat /\ DOMAIN cs = 1..n
      /\ n = Len(calls) /\ \A i \in 1..n : L[cs[i]].call = calls[i]
  <2>1. cs = CallsAt(L, q, t) /\ n = Len(calls) /\ \A i \in 1..n : L[cs[i]].call = calls[i]
    BY DEF Written, Filled
  <2>2. CallsAt(L, q, t) \in Seq(CallPlaces(L))
    BY <1>1, CallsAtWell
  <2>3. n = Len(cs)
    BY DEF Filled
  <2>4. QED
    BY <2>1, <2>2, <2>3
<1>4. calls \in Seq(SoundCalls) /\ DOMAIN calls = 1..n /\ n > 0
  BY <1>3 DEF Distinct
<1>5. Rebuilt(L) = RebuiltCalls(L, cs, s)
  <2>1. cs # <<>>
    BY <1>3, <1>4
  <2>2. cs = Listed(Len(L), Bucket(L, q, t, "call"))
    BY <1>3 DEF CallsAt
  <2>3. QED
    BY <1>2, <2>1, <2>2 DEF RebuiltTurn
<1>6. PICK g : CallsOf(g, L, cs, s)
  BY <1>1, <1>2, <1>3, CallsDef
<1>7. /\ g \in [0..n -> States] /\ g[0] = Begun(L, cs, s) /\ Rebuilt(L) = g[n]
      /\ \A i \in 1..n : g[i] = Told(L, g[i - 1], cs[i], Passed(L, q, t, i))
  <2>1. \A i \in 1..n : g[i] = Told(L, g[i - 1], cs[i], Passed(L, q, t, i))
    <3>1. CallsOf(g, L, CallsAt(L, q, t), s)
      BY <1>3, <1>6
    <3>2. \A i \in 1..Len(CallsAt(L, q, t)) : g[i] = Told(L, g[i - 1], CallsAt(L, q, t)[i], Passed(L, q, t, i))
      BY <1>1, <1>2, <3>1, CallsTold
    <3>3. QED
      BY <1>3, <3>2
  <2>2. QED
    BY <1>3, <1>5, <1>6, <2>1 DEF CallsOf
<1>8. f[0] = [history |-> Append(s.history, CallTurn(calls, {})), notes |-> s.notes]
      /\ \A i \in 1..n : f[i] = Extended(f[i - 1], L[cs[i]], ValueOf(L, cs[i]))
  BY <1>2 DEF Chain
<1> DEFINE T == {i \in 0..n : g[i].history = f[i].history /\ g[i].notes = f[i].notes}
<1>9. 0 \in T
  <2>1. [c \in DOMAIN cs |-> L[cs[c]].call] = calls
    BY <1>3, <1>4
  <2>2. g[0] = [s EXCEPT !.history = Append(@, CallTurn(calls, {}))]
    BY <1>7, <2>1 DEF Begun
  <2>3. g[0].history = f[0].history /\ g[0].notes = f[0].notes
    BY <1>2, <1>8, <2>2 DEF States
  <2>4. QED
    BY <1>3, <2>3
<1>10. ASSUME NEW i \in 1..n, i - 1 \in T PROVE i \in T
  <2>1. PICK u \in States : u = g[i - 1] /\ u.history = f[i - 1].history /\ u.notes = f[i - 1].notes
    BY <1>3, <1>7, <1>10
  <2>2. g[i] = [Answer(u, L[cs[i]], ValueOf(L, cs[i])) EXCEPT !.served = ServedBy(L, Passed(L, q, t, i))]
    BY <1>7, <2>1 DEF Told
  <2>3. /\ g[i].history = Answer(u, L[cs[i]], ValueOf(L, cs[i])).history
        /\ g[i].notes = Answer(u, L[cs[i]], ValueOf(L, cs[i])).notes
    BY <2>2 DEF Answer, States
  <2>4. f[i] = Extended(f[i - 1], L[cs[i]], ValueOf(L, cs[i]))
    BY <1>8
  <2>5. /\ Answer(u, L[cs[i]], ValueOf(L, cs[i])).history = f[i].history
        /\ Answer(u, L[cs[i]], ValueOf(L, cs[i])).notes = f[i].notes
    <3>1. PICK e, v, w : e = L[cs[i]] /\ v = ValueOf(L, cs[i]) /\ w = f[i - 1]
      OBVIOUS
    <3>2. u.history = w.history /\ u.notes = w.notes /\ f[i] = Extended(w, e, v)
      BY <2>1, <2>4, <3>1
    <3>3. Answer(u, e, v).history = u.history \o Said(e, v)
          /\ Answer(u, e, v).notes = IF e.call.tool = "save_note" THEN u.notes + 1 ELSE u.notes
      BY DEF Answer, Said, States
    <3>4. f[i].history = w.history \o Said(e, v)
          /\ f[i].notes = IF e.call.tool = "save_note" THEN w.notes + 1 ELSE w.notes
      BY <3>2 DEF Extended
    <3>5. QED
      BY <3>1, <3>2, <3>3, <3>4
  <2>6. QED
    BY <2>3, <2>5
<1> HIDE DEF T
<1>11. \A i \in 0..n : i \in T
  BY <1>3, <1>9, <1>10, UpTo
<1>12. n \in T
  BY <1>3, <1>11
<1>13. QED
  BY <1>7, <1>12 DEF T

LEMMA TurningWritten ==
  ASSUME NEW L0, NEW q, NEW L, NEW t, NEW calls, NEW cs, Turning(L0, q, L, t, calls, cs), Len(cs) = Len(calls)
  PROVE  Written(L0, q, L, t, calls, cs)
  BY DEF Turning, Written

(* A turn that is the model's answer.                                      *)
LEMMA AnsweredText ==
  ASSUME NEW L0, NEW e, NEW L, Grown(L0, e, L), e.kind = "final", Whole(L0, {}),
         NEW q, NEW t, Ongoing(L0, q, t), t \in Nat, t < MaxTurns, e.turn = t
  PROVE  /\ Whole(L, {})
         /\ Rebuilt(L).history = Append(Rebuilt(L0).history, TextTurn)
         /\ Rebuilt(L).notes = Rebuilt(L0).notes
<1>1. PICK n \in Nat : n = Len(L0) /\ DOMAIN L0 = 1..n
  BY AppendStarts
<1>2. /\ DOMAIN L = 1..(n + 1) /\ L[n + 1] = e /\ (\A j \in 1..n : L[j] = L0[j]) /\ Len(L) = n + 1
      /\ L \in Seq(LogEvents) /\ L0 \in Seq(LogEvents) /\ Starts(L0, L) /\ RoundsOf(L) = RoundsOf(L0)
  BY <1>1, AppendStarts
<1>3. Newest(L0, q) /\ Follows(L0, q, e)
  BY DEF Ongoing, Follows
<1>4. Whole(L, {})
  BY <1>3, WholeOther
<1>5. \A j \in DOMAIN L \ DOMAIN L0 : L[j].turn = t /\ L[j].kind # "steer"
  BY <1>1, <1>2
<1>6. PICK s \in States : s = Rebuilt(L0) /\ ~s.over /\ Rebuilt(L) = RebuiltTurn(L, q, s, t)
  BY <1>2, <1>4, <1>5, AddTurn
<1>7. InRound(L, q) = InRound(L0, q) \cup {n + 1} /\ InRound(L0, q) \subseteq 1..n
  <2>1. InRound(L0, q) \subseteq 1..n
    BY <1>1 DEF InRound
  <2>2. QED
    BY <1>1, <1>3, <2>1, GrownRound
<1>8. Bucket(L, q, t, "call") = {} /\ n + 1 \in Bucket(L, q, t, "final")
  BY <1>2, <1>7 DEF Bucket, Ongoing
<1>9. Listed(Len(L), Bucket(L, q, t, "call")) = <<>>
  <2>1. Listed(n + 1, {}) = Listed(0, {})
    <3>1. n + 1 \in Nat
      OBVIOUS
    <3>2. QED
      BY <3>1, ListedCut
  <2>2. QED
    BY <1>2, <1>8, <2>1, ListedNone
<1>10. Rebuilt(L) = [s EXCEPT !.history = Append(@, TextTurn), !.over = TRUE]
  BY <1>6, <1>8, <1>9 DEF RebuiltTurn
<1>11. QED
  BY <1>4, <1>6, <1>10 DEF States

-----------------------------------------------------------------------------
(* What is known of a session of which nothing is lost, at any time: the   *)
(* log is whole but for the calls that wait for their results, and what it *)
(* is rebuilt to is the live state, or, while a turn is in the works, the  *)
(* state the turn began with, on which its answers so far make a chain.    *)
Matching == Rebuilt(log).history = Recalled /\ Rebuilt(log).notes = notes
LoadedWell == loaded \in 0..Len(history)

Works(L0, q, f, cs) ==
  /\ Turning(L0, q, log, turn, reply, cs) /\ Distinct(reply)
  /\ Owed(log, cs, pos) /\ Chain(f, log, cs, Rebuilt(L0), reply, pos - 1)
  /\ Recalled = f[pos - 1].history /\ notes = f[pos - 1].notes
  /\ \A i \in 1..(pos - 1) : ~Terminal(reply[i])
Announcing(cs) ==
  /\ phase = "inline" => told = 0 /\ Len(cs) = pos /\ Intercepted(reply[pos])
  /\ phase # "inline" => Len(cs) = pos - 1 + told /\ \A i \in pos..Len(cs) : ~Intercepted(reply[i])
Working == \E L0, q, f, cs : Works(L0, q, f, cs) /\ Announcing(cs)

AskedLive ==
  /\ Whole(log, {}) /\ turn = 0 /\ Newest(log, Len(log))
  /\ Rebuilt(log).history = Append(Recalled, UserTurn(rounds)) /\ Rebuilt(log).notes = notes
ReadyLive == Whole(log, {}) /\ turn < MaxTurns /\ Matching /\ \E q : Ongoing(log, q, turn)

LiveInv ==
  exact => /\ phase = "idle" => Whole(log, {}) /\ Matching
           /\ phase = "asked" => AskedLive
           /\ phase = "ready" => ReadyLive
           /\ phase \in {"dispatch", "inline", "executing"} => Working

LEMMA EmptyWhole ==
  ASSUME NEW L, L = <<>> PROVE Whole(L, {}) /\ Rebuilt(L).history = <<>> /\ Rebuilt(L).notes = 0
<1>1. L \in Seq(LogEvents) /\ DOMAIN L = {} /\ Len(L) = 0
  OBVIOUS
<1>2. Recorded(L) = {} /\ RoundsOf(L) = {} /\ CallPlaces(L) = {} /\ RealPlaces(L) = {}
  BY <1>1 DEF Recorded, RoundsOf, CallPlaces, RealPlaces
<1>3. Whole(L, {})
  BY <1>1, <1>2 DEF Whole
<1>4. Queries(L) = <<>>
  BY <1>1, ListedNone DEF Queries
<1>5. PICK f : RebuiltOf(f, L)
  BY <1>1, RebuiltDef
<1>6. Rebuilt(L) = Blank
  BY <1>4, <1>5 DEF RebuiltOf
<1>7. QED
  BY <1>3, <1>6 DEF Blank

(* What a rebuild makes of each kind of turn, and of a history that has    *)
(* grown by a turn, or by the two of a stop.                               *)
LEMMA RetoldKinds ==
  /\ \A v : Retold(UserTurn(v)) = UserTurn(v)
  /\ Retold(TextTurn) = TextTurn
  /\ \A calls, signed : Retold(CallTurn(calls, signed)) = CallTurn(calls, {})
  /\ \A id, call, oracle : Retold(ToolTurn(id, AnswerTo(call, oracle))) = ToolTurn(id, AnswerTo(call, TRUE))
  /\ \A id, v : v \notin {Ok, Armed, Refused} => Retold(ToolTurn(id, v)) = ToolTurn(id, Truncate(v))
<1>1. ASSUME NEW v PROVE Retold(UserTurn(v)) = UserTurn(v)
  <2>1. PICK t : t = UserTurn(v)
    OBVIOUS
  <2>2. /\ t = [role |-> "user", calls |-> <<>>, signed |-> {}, id |-> <<>>, value |-> v]
        /\ t.role # "tool" /\ t.value = v
    BY <2>1 DEF UserTurn
  <2>3. Retold(t) = [t EXCEPT !.signed = {}, !.value = t.value]
    BY <2>2 DEF Retold
  <2>4. Retold(t) = t
    BY <2>2, <2>3
  <2>5. QED
    BY <2>1, <2>4
<1>2. ASSUME NEW calls, NEW signed PROVE Retold(CallTurn(calls, signed)) = CallTurn(calls, {})
  <2>1. PICK t : t = CallTurn(calls, signed)
    OBVIOUS
  <2>2. /\ t = [role |-> "assistant", calls |-> calls, signed |-> signed, id |-> <<>>, value |-> Ok]
        /\ t.role # "tool" /\ t.value = Ok
    BY <2>1 DEF CallTurn
  <2>3. Retold(t) = [t EXCEPT !.signed = {}, !.value = t.value]
    BY <2>2 DEF Retold
  <2>4. Retold(t) = [role |-> "assistant", calls |-> calls, signed |-> {}, id |-> <<>>, value |-> Ok]
    BY <2>2, <2>3
  <2>5. QED
    BY <2>1, <2>4 DEF CallTurn
<1>3. Retold(TextTurn) = TextTurn
  BY <1>2 DEF TextTurn
<1>4. ASSUME NEW id, NEW v
      PROVE  Retold(ToolTurn(id, v)) =
               ToolTurn(id, IF v \in {Ok, Armed} THEN v ELSE IF v = Refused THEN Armed ELSE Truncate(v))
  <2>1. PICK t : t = ToolTurn(id, v)
    OBVIOUS
  <2>2. PICK x : x = IF v \in {Ok, Armed} THEN v ELSE IF v = Refused THEN Armed ELSE Truncate(v)
    OBVIOUS
  <2>3. /\ t = [role |-> "tool", calls |-> <<>>, signed |-> {}, id |-> id, value |-> v]
        /\ t.role = "tool" /\ t.value = v
    BY <2>1 DEF ToolTurn
  <2>4. Retold(t) = [t EXCEPT !.signed = {}, !.value = x]
    BY <2>2, <2>3 DEF Retold
  <2>5. Retold(t) = [role |-> "tool", calls |-> <<>>, signed |-> {}, id |-> id, value |-> x]
    BY <2>3, <2>4
  <2>6. QED
    BY <2>1, <2>2, <2>5 DEF ToolTurn
<1>5. ASSUME NEW call, NEW oracle, NEW v, v = AnswerTo(call, oracle)
      PROVE  (IF v \in {Ok, Armed} THEN v ELSE IF v = Refused THEN Armed ELSE Truncate(v)) = AnswerTo(call, TRUE)
  BY <1>5 DEF AnswerTo, Ok, Armed, Refused
<1>6. \A id, call, oracle : Retold(ToolTurn(id, AnswerTo(call, oracle))) = ToolTurn(id, AnswerTo(call, TRUE))
  BY <1>4, <1>5
<1>7. QED
  BY <1>1, <1>2, <1>3, <1>4, <1>6

Kinds == Turns \cup {Retold(t) : t \in Turns}

LEMMA RecalledAdds ==
  ASSUME NameInv, LoadedWell, UNCHANGED loaded, NEW t \in Turns, history' = Append(history, t)
  PROVE  Recalled' = Append(Recalled, Retold(t)) /\ LoadedWell'
<1>1. history \in Seq(Turns) /\ loaded \in 0..Len(history) /\ Len(history) \in Nat
  BY DEF NameInv, Talk, LoadedWell
<1>2. PICK n \in Nat : n = Len(history) /\ DOMAIN history = 1..n /\ loaded \in 0..n
  BY <1>1
<1>3. /\ DOMAIN history' = 1..(n + 1) /\ history'[n + 1] = t /\ Len(history') = n + 1
      /\ \A k \in 1..n : history'[k] = history[k]
  BY <1>1, <1>2
<1>4. Recalled = [k \in 1..n |-> IF k <= loaded THEN history[k] ELSE Retold(history[k])]
  BY <1>2 DEF Recalled
<1>5. Recalled' = [k \in 1..(n + 1) |-> IF k <= loaded THEN history'[k] ELSE Retold(history'[k])]
  BY <1>3 DEF Recalled
<1>6. Recalled \in Seq(Kinds) /\ Len(Recalled) = n
  <2>1. \A k \in 1..n : history[k] \in Turns
    BY <1>1, <1>2
  <2>2. \A k \in 1..n : (IF k <= loaded THEN history[k] ELSE Retold(history[k])) \in Kinds
    BY <2>1 DEF Kinds
  <2>3. QED
    BY <1>2, <1>4, <2>2
<1>7. Retold(t) \in Kinds
  BY DEF Kinds
<1>8. PICK A : A = Append(Recalled, Retold(t))
  OBVIOUS
<1>9. /\ A \in [1..(n + 1) -> Kinds] /\ A[n + 1] = Retold(t) /\ \A k \in 1..n : A[k] = Recalled[k]
  <2>1. PICK R, u : R = Recalled /\ u = Retold(t)
    OBVIOUS
  <2>2. R \in Seq(Kinds) /\ Len(R) = n /\ u \in Kinds /\ A = Append(R, u)
    BY <1>6, <1>7, <1>8, <2>1
  <2>3. /\ A \in Seq(Kinds) /\ Len(A) = n + 1 /\ A[n + 1] = u /\ \A k \in 1..n : A[k] = R[k]
    BY <2>2, AppendProperties
  <2>4. QED
    BY <2>1, <2>3
<1>10. \A k \in 1..(n + 1) : A[k] = IF k <= loaded THEN history'[k] ELSE Retold(history'[k])
  <2>1. SUFFICES ASSUME NEW k \in 1..(n + 1) PROVE A[k] = IF k <= loaded THEN history'[k] ELSE Retold(history'[k])
    OBVIOUS
  <2>2. CASE k = n + 1
    BY <1>2, <1>3, <1>9, <2>2
  <2>3. CASE k # n + 1
    <3>1. k \in 1..n
      BY <2>3
    <3>2. QED
      BY <1>3, <1>4, <1>9, <3>1
  <2>4. QED
    BY <2>2, <2>3
<1>11. A = Recalled'
  BY <1>5, <1>9, <1>10
<1>12. QED
  BY <1>2, <1>3, <1>8, <1>11 DEF LoadedWell

LEMMA RecalledTwo ==
  ASSUME NameInv, LoadedWell, UNCHANGED loaded, NEW t \in Turns, NEW u \in Turns, history' = history \o <<t, u>>
  PROVE  Recalled' = Recalled \o <<Retold(t), Retold(u)>> /\ LoadedWell'
<1>1. history \in Seq(Turns) /\ loaded \in 0..Len(history) /\ Len(history) \in Nat
  BY DEF NameInv, Talk, LoadedWell
<1>2. PICK n \in Nat : n = Len(history) /\ DOMAIN history = 1..n /\ loaded \in 0..n
  BY <1>1
<1>3. /\ DOMAIN history' = 1..(n + 2) /\ history'[n + 1] = t /\ history'[n + 2] = u /\ Len(history') = n + 2
      /\ \A k \in 1..n : history'[k] = history[k]
  BY <1>1, <1>2
<1>4. Recalled = [k \in 1..n |-> IF k <= loaded THEN history[k] ELSE Retold(history[k])]
  BY <1>2 DEF Recalled
<1>5. Recalled' = [k \in 1..(n + 2) |-> IF k <= loaded THEN history'[k] ELSE Retold(history'[k])]
  BY <1>3 DEF Recalled
<1>6. Recalled \in Seq(Kinds) /\ Len(Recalled) = n
  <2>1. \A k \in 1..n : history[k] \in Turns
    BY <1>1, <1>2
  <2>2. \A k \in 1..n : (IF k <= loaded THEN history[k] ELSE Retold(history[k])) \in Kinds
    BY <2>1 DEF Kinds
  <2>3. QED
    BY <1>2, <1>4, <2>2
<1>7. Retold(t) \in Kinds /\ Retold(u) \in Kinds
  BY DEF Kinds
<1>8. PICK A : A = Recalled \o <<Retold(t), Retold(u)>>
  OBVIOUS
<1>9. /\ A \in [1..(n + 2) -> Kinds] /\ A[n + 1] = Retold(t) /\ A[n + 2] = Retold(u)
      /\ \A k \in 1..n : A[k] = Recalled[k]
  <2>1. PICK R, x, y : R = Recalled /\ x = Retold(t) /\ y = Retold(u)
    OBVIOUS
  <2>2. R \in Seq(Kinds) /\ Len(R) = n /\ x \in Kinds /\ y \in Kinds /\ A = R \o <<x, y>>
    BY <1>6, <1>7, <1>8, <2>1
  <2>3. <<x, y>> \in Seq(Kinds) /\ Len(<<x, y>>) = 2 /\ <<x, y>>[1] = x /\ <<x, y>>[2] = y
    BY <2>2
  <2>4. /\ A \in Seq(Kinds) /\ Len(A) = n + 2
        /\ \A k \in 1..(n + 2) : A[k] = IF k <= n THEN R[k] ELSE <<x, y>>[k - n]
    BY <2>2, <2>3, ConcatProperties
  <2>5. A[n + 1] = x /\ A[n + 2] = y /\ \A k \in 1..n : A[k] = R[k]
    BY <1>2, <2>3, <2>4
  <2>6. QED
    BY <2>1, <2>4, <2>5
<1>10. \A k \in 1..(n + 2) : A[k] = IF k <= loaded THEN history'[k] ELSE Retold(history'[k])
  <2>1. SUFFICES ASSUME NEW k \in 1..(n + 2) PROVE A[k] = IF k <= loaded THEN history'[k] ELSE Retold(history'[k])
    OBVIOUS
  <2>2. CASE k \in {n + 1, n + 2}
    BY <1>2, <1>3, <1>9, <2>2
  <2>3. CASE k \notin {n + 1, n + 2}
    <3>1. k \in 1..n
      BY <2>3
    <3>2. QED
      BY <1>3, <1>4, <1>9, <3>1
  <2>4. QED
    BY <2>2, <2>3
<1>11. A = Recalled'
  BY <1>5, <1>9, <1>10
<1>12. QED
  BY <1>2, <1>3, <1>8, <1>11 DEF LoadedWell

LEMMA RecalledWell == ASSUME history \in Seq(Turns) PROVE Recalled \in Seq(Kinds)
<1>1. PICK n \in Nat : n = Len(history) /\ DOMAIN history = 1..n
  OBVIOUS
<1>2. \A k \in 1..n : history[k] \in Turns
  BY <1>1
<1>3. \A k \in 1..n : (IF k <= loaded THEN history[k] ELSE Retold(history[k])) \in Kinds
  BY <1>2 DEF Kinds
<1>4. Recalled = [k \in 1..n |-> IF k <= loaded THEN history[k] ELSE Retold(history[k])]
  BY <1>1 DEF Recalled
<1>5. QED
  BY <1>1, <1>3, <1>4

LEMMA LoadedAll ==
  ASSUME history' \in Seq(Turns), loaded' = Len(history') PROVE Recalled' = history' /\ LoadedWell'
<1>1. PICK n \in Nat : n = Len(history') /\ DOMAIN history' = 1..n
  OBVIOUS
<1>2. \A k \in 1..n : k <= loaded'
  BY <1>1
<1>3. Recalled' = [k \in 1..n |-> history'[k]]
  BY <1>1, <1>2 DEF Recalled
<1>4. history' = [k \in 1..n |-> history'[k]]
  BY <1>1
<1>5. QED
  BY <1>1, <1>3, <1>4 DEF LoadedWell

LEMMA RecalledStays == ASSUME UNCHANGED <<history, loaded>> PROVE Recalled' = Recalled /\ (LoadedWell => LoadedWell')
  BY DEF Recalled, LoadedWell

LEMMA InitLive == Init => LiveInv /\ LoadedWell
<1> SUFFICES ASSUME Init PROVE LiveInv /\ LoadedWell
  OBVIOUS
<1>1. history = <<>> /\ DOMAIN history = {} /\ Len(history) = 0 /\ loaded = 0
  BY DEF Init
<1>2. Recalled = <<>>
  BY <1>1 DEF Recalled
<1>3. QED
  BY <1>1, <1>2, EmptyWhole DEF Init, LiveInv, Matching, LoadedWell

(* A step that leaves all of it alone.                                     *)
LEMMA StillLive ==
  ASSUME LiveInv, exact' => exact,
         UNCHANGED <<history, loaded, notes, log, reply, pos, told, turn, rounds>>,
         phase' = phase \/ (phase = "dispatch" /\ phase' = "executing")
  PROVE  LiveInv'
<1>1. SUFFICES ASSUME exact, exact' PROVE LiveInv'
  BY DEF LiveInv
<1>0. Recalled' = Recalled
  BY RecalledStays
<1>2. phase \in {"dispatch", "executing"} \/ phase' = phase
  OBVIOUS
<1>3. ASSUME Working PROVE Working'
  <2>1. PICK L0, q, f, cs : Works(L0, q, f, cs) /\ Announcing(cs)
    BY <1>3 DEF Working
  <2>2. Works(L0, q, f, cs)'
    BY <1>0, <2>1 DEF Works
  <2>3. Announcing(cs)'
    BY <2>1 DEF Announcing
  <2>4. QED
    BY <2>2, <2>3 DEF Working
<1>4. Matching => Matching'
  BY <1>0 DEF Matching
<1>5. AskedLive => AskedLive'
  BY <1>0 DEF AskedLive
<1>6. ReadyLive => ReadyLive'
  BY <1>4 DEF ReadyLive
<1>7. QED
  BY <1>1, <1>3, <1>4, <1>5, <1>6 DEF LiveInv

LEMMA AskLive == ASSUME NameInv, LoadedWell, LiveInv, Ask, exact' PROVE LiveInv'
<1> DEFINE e == [kind |-> "query", turn |-> 0, call |-> NoCall, id |-> <<>>, value |-> rounds + 1]
<1>1. log \in Seq(LogEvents) /\ rounds \in Nat
  BY DEF NameInv, Talk
<1>2. e \in LogEvents
  <2>1. rounds + 1 \in Int /\ 0 \in Nat
    BY <1>1
  <2>2. QED
    BY <2>1, EventWell
<1>3. /\ phase = "idle" /\ phase' = "asked" /\ turn' = 0 /\ rounds' = rounds + 1 /\ exact
      /\ log' = Append(log, e) /\ notes' = notes /\ Recalled' = Recalled
  BY RecalledStays DEF Ask, Goto, Event
<1>4. e.kind = "query" /\ e.value = rounds + 1
  OBVIOUS
<1> HIDE DEF e
<1>5. Grown(log, e, log')
  BY <1>1, <1>2, <1>3 DEF Grown
<1>6. Whole(log, {}) /\ Matching
  BY <1>3 DEF LiveInv
<1>7. Whole(log', {}) /\ Newest(log', Len(log) + 1)
  BY <1>4, <1>5, <1>6, WholeQuery
<1>8. AddedUser(Rebuilt(log), Rebuilt(log'), e.value)
  BY <1>4, <1>5, <1>6, <1>7, AddQuery
<1>9. Len(log') = Len(log) + 1
  BY <1>5, AppendStarts
<1>10. AskedLive'
  BY <1>3, <1>4, <1>6, <1>7, <1>8, <1>9 DEF AskedLive, AddedUser, Matching
<1>11. QED
  BY <1>3, <1>10 DEF LiveInv

LEMMA AcceptLive == ASSUME NameInv, LoadedWell, LiveInv, Accept, exact' PROVE LiveInv'
<1>1. /\ phase = "asked" /\ phase' = "ready" /\ exact /\ history' = Append(history, UserTurn(rounds))
      /\ UNCHANGED <<notes, log, turn, loaded, rounds>>
  BY DEF Accept, Remember, Goto
<1>0. Recalled' = Append(Recalled, UserTurn(rounds))
  <2>1. UserTurn(rounds) \in Turns
    BY TurnKinds DEF NameInv, Talk
  <2>2. QED
    BY <1>1, <2>1, RecalledAdds, RetoldKinds
<1>2. AskedLive
  BY <1>1 DEF LiveInv
<1>3. Matching'
  BY <1>0, <1>1, <1>2 DEF AskedLive, Matching
<1>4. InRound(log, Len(log)) = {}
  <2>1. log \in Seq(LogEvents)
    BY DEF NameInv, Talk
  <2>2. DOMAIN log = 1..Len(log) /\ Len(log) \in Nat
    BY <2>1
  <2>3. QED
    BY <2>2 DEF InRound
<1>5. Ongoing(log, Len(log), turn)
  BY <1>2, <1>4 DEF AskedLive, Ongoing
<1>6. 0 < MaxTurns
  BY ReplayAssumption
<1>7. ReadyLive'
  BY <1>1, <1>2, <1>3, <1>5, <1>6 DEF ReadyLive, AskedLive
<1>8. QED
  BY <1>1, <1>7 DEF LiveInv

LEMMA DrainLive == ASSUME NameInv, LoadedWell, LiveInv, Drain, exact' PROVE LiveInv'
<1> DEFINE e == Event("steer", NoCall, <<>>, Head(inbox))
<1>1. /\ phase = "ready" /\ phase' = "ready" /\ exact /\ turn = 0 /\ inbox # <<>>
      /\ history' = Append(history, UserTurn(Head(inbox))) /\ log' = Append(log, e)
      /\ UNCHANGED <<notes, turn, loaded>>
  BY DEF Drain, Remember, Log
<1>2. log \in Seq(LogEvents) /\ Head(inbox) \in Nat
  <2>1. log \in Seq(LogEvents) /\ inbox \in Seq(Nat)
    BY DEF NameInv, Talk
  <2>2. QED
    BY <1>1, <2>1
<1>0. Recalled' = Append(Recalled, UserTurn(Head(inbox)))
  <2>1. UserTurn(Head(inbox)) \in Turns
    BY <1>2, TurnKinds
  <2>2. QED
    BY <1>1, <2>1, RecalledAdds, RetoldKinds
<1>3. e \in LogEvents /\ e.kind = "steer" /\ e.turn = 0 /\ e.value = Head(inbox)
  <2>1. Head(inbox) \in Int
    BY <1>2
  <2>2. QED
    BY <1>1, <2>1, EventWell DEF Event
<1> HIDE DEF e
<1>4. Grown(log, e, log')
  BY <1>1, <1>2, <1>3 DEF Grown
<1>5. Whole(log, {}) /\ Matching /\ \E q : Ongoing(log, q, 0)
  BY <1>1 DEF LiveInv, ReadyLive
<1>6. PICK q : Ongoing(log, q, 0)
  BY <1>5
<1>7. \A j \in InRound(log, q) : log[j].turn \in Nat /\ log[j].turn <= 0 /\ ~Ends(log[j]) /\ log[j].kind # "call"
  <2>1. \A j \in InRound(log, q) : log[j].turn \in Nat
    BY <1>2, Places
  <2>2. QED
    BY <1>6, <2>1 DEF Ongoing
<1>8. Newest(log, q) /\ Resting(log, q, 0) /\ Follows(log, q, e)
  <2>1. Newest(log, q)
    BY <1>6 DEF Ongoing
  <2>2. Resting(log, q, 0)
    BY <1>7, ReplayAssumption DEF Resting, Bucket, Ends
  <2>3. Follows(log, q, e)
    BY <1>3, <1>7, <2>1 DEF Follows
  <2>4. QED
    BY <2>1, <2>2, <2>3
<1>9. Whole(log', {})
  BY <1>3, <1>4, <1>5, <1>8, WholeOther
<1>10. AddedUser(Rebuilt(log), Rebuilt(log'), e.value)
  BY <1>3, <1>4, <1>5, <1>8, <1>9, AddSteer
<1>11. Ongoing(log', q, 0)
  <2>1. Newest(log', q) /\ InRound(log', q) = InRound(log, q) \cup {Len(log) + 1}
    BY <1>3, <1>4, <1>8, GrownRound
  <2>2. \A j \in InRound(log, q) : log'[j] = log[j]
    BY <1>2, <1>4, AppendStarts, Places
  <2>3. log'[Len(log) + 1] = e
    BY <1>4, AppendStarts
  <2>4. ~Ends(e) /\ e.kind # "call"
    BY <1>3 DEF Ends
  <2>5. QED
    BY <1>3, <1>7, <2>1, <2>2, <2>3, <2>4 DEF Ongoing
<1>12. Matching'
  BY <1>0, <1>1, <1>3, <1>5, <1>10 DEF Matching, AddedUser
<1>13. ReadyLive'
  BY <1>1, <1>9, <1>11, <1>12, ReplayAssumption DEF ReadyLive
<1>14. QED
  BY <1>1, <1>13 DEF LiveInv

LEMMA ModelAnswersLive == ASSUME NameInv, LoadedWell, LiveInv, ModelAnswers, exact' PROVE LiveInv'
<1> DEFINE e == Event("final", NoCall, <<>>, Ok)
<1>1. /\ phase = "ready" /\ phase' = "idle" /\ exact
      /\ history' = Append(history, TextTurn) /\ log' = Append(log, e)
      /\ UNCHANGED <<notes, loaded>>
  BY DEF ModelAnswers, Remember, Log, Goto
<1>0. Recalled' = Append(Recalled, TextTurn)
  BY <1>1, TurnKinds, RecalledAdds, RetoldKinds
<1>2. log \in Seq(LogEvents) /\ turn \in Nat
  BY DEF NameInv, Talk
<1>3. e \in LogEvents /\ e.kind = "final" /\ e.turn = turn
  BY <1>2, EventWell DEF Event, Ok
<1> HIDE DEF e
<1>4. Grown(log, e, log')
  BY <1>1, <1>2, <1>3 DEF Grown
<1>5. Whole(log, {}) /\ Matching /\ turn < MaxTurns /\ \E q : Ongoing(log, q, turn)
  BY <1>1 DEF LiveInv, ReadyLive
<1>6. PICK q : Ongoing(log, q, turn)
  BY <1>5
<1>7. /\ Whole(log', {}) /\ Rebuilt(log').history = Append(Rebuilt(log).history, TextTurn)
      /\ Rebuilt(log').notes = Rebuilt(log).notes
  BY <1>2, <1>3, <1>4, <1>5, <1>6, AnsweredText
<1>8. Matching'
  BY <1>0, <1>1, <1>5, <1>7 DEF Matching
<1>9. QED
  BY <1>1, <1>7, <1>8 DEF LiveInv

(* A reply is the beginning of a turn.                                     *)
LEMMA RepliesLive ==
  ASSUME NameInv, LoadedWell, LiveInv, NEW calls \in Replies, ModelReplies(calls), Talk', exact' PROVE LiveInv'
<1> DEFINE base == [history |-> Append(Rebuilt(log).history, CallTurn(reply', {})), notes |-> Rebuilt(log).notes]
<1> DEFINE signed == {k \in DOMAIN calls : calls[k].signed}
<1>1. /\ phase = "ready" /\ phase' = "dispatch" /\ exact /\ history' = Append(history, CallTurn(reply', signed))
      /\ pos' = 1 /\ told' = 0 /\ UNCHANGED <<notes, log, turn, loaded>>
      /\ reply' = [k \in DOMAIN calls |-> [id |-> SynthId(calls[k].tool, minted + k),
                                            tool |-> calls[k].tool, file |-> calls[k].file]]
  BY DEF ModelReplies, Remember, Goto
<1>2. log \in Seq(LogEvents) /\ turn \in Nat /\ minted \in Nat /\ reply' \in Seq(SoundCalls)
  BY DEF NameInv, Talk, Shaped
<1>0. Recalled' = Append(Recalled, CallTurn(reply', {}))
  <2>1. signed \in SUBSET Nat
    <3>1. calls \in Seq(Range(calls))
      BY ReplayAssumption
    <3>2. DOMAIN calls = 1..Len(calls)
      BY <3>1
    <3>3. QED
      BY <3>2
  <2> HIDE DEF signed
  <2>2. CallTurn(reply', signed) \in Turns
    BY <1>2, <2>1, TurnKinds
  <2>3. QED
    BY <1>1, <2>2, RecalledAdds, RetoldKinds
<1> HIDE DEF signed
<1>3. Distinct(reply')
  <2>1. calls \in Seq(Range(calls)) /\ calls # <<>>
    BY ReplayAssumption
  <2>2. PICK n \in Nat : DOMAIN calls = 1..n /\ n > 0
    BY <2>1
  <2>3. reply' # <<>>
    <3>1. 1 \in DOMAIN reply' /\ DOMAIN <<>> = {}
      BY <1>1, <2>2
    <3>2. QED
      BY <3>1
  <2>4. \A k \in 1..n : reply'[k].id = <<calls[k].tool, minted + k>>
    BY <1>1, <2>2 DEF SynthId
  <2>5. \A i, j \in DOMAIN reply' : reply'[i].id = reply'[j].id => i = j
    <3>1. SUFFICES ASSUME NEW i \in 1..n, NEW j \in 1..n, reply'[i].id = reply'[j].id PROVE i = j
      BY <1>1, <2>2
    <3>2. minted + i = minted + j
      BY <2>4, <3>1
    <3>3. QED
      BY <1>2, <3>2
  <2>6. QED
    BY <1>2, <2>3, <2>5 DEF Distinct
<1>4. Whole(log, {}) /\ Matching /\ turn < MaxTurns /\ \E q : Ongoing(log, q, turn)
  BY <1>1 DEF LiveInv, ReadyLive
<1>5. PICK q : Ongoing(log, q, turn)
  BY <1>4
<1>6. CallsAt(log, q, turn) = <<>> /\ Len(CallsAt(log, q, turn)) = 0
  <2>1. Bucket(log, q, turn, "call") = {}
    BY <1>2, <1>5 DEF Ongoing, Bucket
  <2>2. Len(log) \in Nat
    BY <1>2
  <2>3. Listed(Len(log), {}) = Listed(0, {})
    BY <2>2, ListedCut
  <2>4. CallsAt(log, q, turn) = <<>>
    BY <2>1, <2>3, ListedNone DEF CallsAt
  <2>5. QED
    BY <2>4
<1>7. Turning(log, q, log, turn, reply', <<>>)
  <2>1. Starts(log, log)
    BY <1>2, StartsSelf
  <2>2. Len(reply') \in Nat
    BY <1>2
  <2>3. QED
    BY <1>2, <1>4, <1>5, <1>6, <2>1, <2>2 DEF Turning
<1>8. Owed(log, <<>>, 1)
  <2>1. Owing(<<>>, 1) = {}
    BY DEF Owing
  <2>2. PICK e : e = <<>> /\ Len(e) = 0 /\ 1..Len(e) = {}
    OBVIOUS
  <2>3. Whole(log, Owing(e, 1)) /\ 1 - 1 <= Len(e) /\ \A i \in 1..Len(e) : FALSE
    <3>1. Whole(log, Owing(e, 1))
      BY <1>4, <2>1, <2>2
    <3>2. QED
      BY <2>2, <3>1
  <2>30. Owed(log, e, 1)
    BY <2>3 DEF Owed
  <2>4. QED
    BY <2>2, <2>30
<1>9. PICK L0, f, cs : L0 = log /\ cs = <<>> /\ f[0] = base
  <2>1. [i \in {0} |-> base][0] = base
    OBVIOUS
  <2>2. QED
    BY <2>1
<1>10. Chain(f, log, <<>>, Rebuilt(log), reply', 0)
  BY <1>9 DEF Chain
<1>11. Recalled' = f[0].history /\ notes' = f[0].notes
  BY <1>0, <1>1, <1>4, <1>9 DEF Matching
<1>12. Works(L0, q, f, cs)'
  <2>1. pos' - 1 = 0 /\ pos' = 1
    BY <1>1
  <2>2. /\ Turning(L0, q, log', turn', reply', cs) /\ Owed(log', cs, pos')
        /\ Chain(f, log', cs, Rebuilt(L0), reply', pos' - 1)
    BY <1>1, <1>7, <1>8, <1>9, <1>10, <2>1
  <2>3. QED
    BY <1>3, <1>11, <2>1, <2>2 DEF Works
<1>13. Announcing(cs)'
  BY <1>1, <1>9 DEF Announcing
<1>14. Working'
  BY <1>12, <1>13 DEF Working
<1>15. QED
  BY <1>1, <1>14 DEF LiveInv

(* The call that is yielded next.                                          *)
LEMMA AnnounceLive ==
  ASSUME NameInv, LoadedWell, LiveInv, AnnouncePseudo \/ AnnounceCall, exact' PROVE LiveInv'
<1>1. /\ phase = "dispatch" /\ exact /\ Recalled' = Recalled /\ UNCHANGED <<notes, reply, pos, turn>>
  BY RecalledStays DEF AnnouncePseudo, AnnounceCall
<1>2. PICK L0, q, f, cs : Works(L0, q, f, cs) /\ Announcing(cs)
  BY <1>1 DEF LiveInv, Working
<1>3. /\ Turning(L0, q, log, turn, reply, cs) /\ Distinct(reply)
      /\ Owed(log, cs, pos) /\ Chain(f, log, cs, Rebuilt(L0), reply, pos - 1)
      /\ Recalled = f[pos - 1].history /\ notes = f[pos - 1].notes
      /\ \A i \in 1..(pos - 1) : ~Terminal(reply[i])
  BY <1>2 DEF Works
<1>4. Len(cs) = pos - 1 + told /\ \A i \in pos..Len(cs) : ~Intercepted(reply[i])
  BY <1>1, <1>2 DEF Announcing
<1>5. /\ log \in Seq(LogEvents) /\ turn \in Nat /\ pos \in Nat \ {0} /\ told \in Nat
      /\ reply \in Seq(SoundCalls) /\ Len(reply) \in Nat /\ DOMAIN reply = 1..Len(reply) /\ Shaped
  <2>1. log \in Seq(LogEvents) /\ turn \in Nat /\ reply \in Seq(SoundCalls)
    BY DEF NameInv, Talk
  <2>2. Shaped /\ pos \in Nat \ {0} /\ told \in Nat
    BY DEF NameInv, Shaped
  <2>3. QED
    BY <2>1, <2>2
<1>6. \A i \in 1..Len(cs) : ~Terminal(reply[i])
  <2>1. SUFFICES ASSUME NEW i \in 1..Len(cs) PROVE ~Terminal(reply[i])
    OBVIOUS
  <2>2. i \in 1..(pos - 1) \/ i \in pos..Len(cs)
    BY <1>4, <1>5
  <2>3. QED
    BY <1>3, <1>4, <2>2 DEF Terminal, Intercepted
<1>7. PICK m \in DOMAIN reply : /\ m = Len(cs) + 1 /\ log' = Append(log, Event("call", reply[m], reply[m].id, Ok))
                                /\ \/ phase' = "inline" /\ told' = told /\ told = 0 /\ Intercepted(reply[m]) /\ m = pos
                                   \/ phase' = "dispatch" /\ told' = told + 1 /\ ~Intercepted(reply[m])
  <2>1. CASE AnnouncePseudo
    <3>1. /\ pos <= Len(reply) /\ Intercepted(reply[pos]) /\ phase' = "inline" /\ told' = told
          /\ log' = Append(log, Event("call", reply[pos], reply[pos].id, Ok))
      BY <2>1 DEF AnnouncePseudo, Log, Goto
    <3>2. told = 0
      <4>1. pos \notin pos..Len(cs)
        BY <1>4, <3>1
      <4>2. QED
        BY <1>4, <1>5, <4>1
    <3>3. pos \in DOMAIN reply /\ pos = Len(cs) + 1
      BY <1>4, <1>5, <3>1, <3>2
    <3>4. QED
      BY <3>1, <3>2, <3>3
  <2>2. CASE AnnounceCall
    <3>1. /\ Cardinality(Group) > told /\ phase' = "dispatch" /\ told' = told + 1
          /\ log' = Append(log, Event("call", reply[pos + told], reply[pos + told].id, Ok))
      BY <1>1, <2>2 DEF AnnounceCall, Log
    <3>2. pos + told \in pos..(pos + Cardinality(Group) - 1)
      <4>1. Cardinality(Group) \in Nat
        BY <1>5, GroupWithin
      <4>2. QED
        BY <1>5, <3>1, <4>1
    <3>3. pos + told \in DOMAIN reply /\ ~Intercepted(reply[pos + told])
      BY <1>5, <3>2, GroupWithin
    <3>4. pos + told = Len(cs) + 1
      BY <1>4, <1>5
    <3>5. QED
      BY <3>1, <3>3, <3>4
  <2>3. QED
    BY <2>1, <2>2
<1> DEFINE e == Event("call", reply[m], reply[m].id, Ok)
<1>8. e \in LogEvents /\ e.kind = "call" /\ e.turn = turn /\ e.call = reply[m]
  <2>1. reply[m] \in SoundCalls
    BY ReplyIds
  <2>2. QED
    BY <1>5, <2>1, EventWell DEF Event
<1>9. log' = Append(log, e)
  BY <1>7
<1> HIDE DEF e
<1>10. Grown(log, e, log')
  BY <1>5, <1>8, <1>9 DEF Grown
<1>11. PICK cs2 : Longer(cs, log, cs2)
  BY DEF Longer
<1>12. /\ Turning(L0, q, log', turn, reply, cs2) /\ Owed(log', cs2, pos) /\ Len(cs2) = Len(cs) + 1
       /\ Chain(f, log', cs2, Rebuilt(L0), reply, pos - 1)
  <2>1. Len(cs) + 1 \in DOMAIN reply /\ e.call = reply[Len(cs) + 1]
    BY <1>7, <1>8
  <2>2. QED
    BY <1>3, <1>6, <1>8, <1>10, <1>11, <2>1, Announced
<1>13. Works(L0, q, f, cs2)'
  BY <1>1, <1>3, <1>12 DEF Works
<1>14. Announcing(cs2)'
  <2>1. CASE phase' = "inline" /\ told = 0 /\ told' = told /\ Intercepted(reply[m]) /\ m = pos
    BY <1>1, <1>7, <1>12, <2>1 DEF Announcing
  <2>2. CASE phase' = "dispatch" /\ told' = told + 1 /\ ~Intercepted(reply[m])
    <3>1. Len(cs2) = pos - 1 + (told + 1) /\ Len(cs2) = m
      BY <1>4, <1>5, <1>7, <1>12
    <3>2. \A i \in pos..Len(cs2) : ~Intercepted(reply[i])
      <4>1. SUFFICES ASSUME NEW i \in pos..m PROVE ~Intercepted(reply[i])
        BY <3>1
      <4>2. i = m \/ i \in pos..Len(cs)
        <5>1. Len(cs) \in Nat
          BY <1>3, TurningWell
        <5>2. QED
          BY <1>5, <1>7, <5>1
      <4>3. QED
        BY <1>4, <2>2, <4>2
    <3>3. QED
      BY <1>1, <2>2, <3>1, <3>2 DEF Announcing
  <2>3. QED
    BY <1>7, <2>1, <2>2
<1>15. Working'
  BY <1>13, <1>14 DEF Working
<1>16. QED
  BY <1>7, <1>15 DEF LiveInv

(* What follows a turn of which every call has been answered.              *)
LEMMA TurnOver ==
  ASSUME NameInv, LiveInv, exact, phase = "dispatch", pos > Len(reply)
  PROVE  Whole(log, {}) /\ Matching /\ \E q : Ongoing(log, q, turn + 1)
<1>1. PICK L0, q, f, cs : Works(L0, q, f, cs)
  BY DEF LiveInv, Working
<1>2. /\ Turning(L0, q, log, turn, reply, cs) /\ Distinct(reply)
      /\ Owed(log, cs, pos) /\ Chain(f, log, cs, Rebuilt(L0), reply, pos - 1)
      /\ Recalled = f[pos - 1].history /\ notes = f[pos - 1].notes
      /\ \A i \in 1..(pos - 1) : ~Terminal(reply[i])
  BY <1>1 DEF Works
<1>3. log \in Seq(LogEvents) /\ turn \in Nat /\ pos \in Nat \ {0} /\ Len(reply) \in Nat
  <2>1. log \in Seq(LogEvents) /\ turn \in Nat /\ reply \in Seq(SoundCalls)
    BY DEF NameInv, Talk
  <2>2. QED
    BY <2>1 DEF NameInv, Shaped
<1>4. Len(cs) = pos - 1 /\ Len(reply) = pos - 1 /\ Len(cs) \in Nat
  <2>1. Len(cs) \in Nat
    BY <1>2, TurningWell
  <2>2. pos - 1 <= Len(cs) /\ Len(cs) <= Len(reply)
    BY <1>2 DEF Owed, Turning
  <2>3. QED
    BY <1>3, <2>1, <2>2
<1>5. Whole(log, {})
  <2>1. Owing(cs, pos) = {}
    BY <1>3, <1>4 DEF Owing
  <2>2. QED
    BY <1>2, <2>1 DEF Owed
<1>6. Matching
  <2>1. Written(L0, q, log, turn, reply, cs)
    BY <1>2, <1>4, TurningWritten
  <2>2. PICK n, t, h, m : n = Len(cs) /\ n = pos - 1 /\ t = turn /\ h = log /\ m = reply
    BY <1>4
  <2>3. /\ Written(L0, q, h, t, m, cs) /\ Whole(h, {}) /\ Distinct(m)
        /\ Chain(f, h, cs, Rebuilt(L0), m, n) /\ Filled(cs, m, n)
    BY <1>2, <1>4, <1>5, <2>1, <2>2 DEF Filled
  <2>4. Rebuilt(h).history = f[n].history /\ Rebuilt(h).notes = f[n].notes
    BY <2>3, Closed
  <2>5. QED
    BY <1>2, <2>2, <2>4 DEF Matching
<1>7. Ongoing(log, q, turn + 1)
  <2>1. Newest(log, q)
    BY <1>2, TurningWell
  <2>2. ASSUME NEW j \in InRound(log, q)
        PROVE  /\ log[j].turn <= turn /\ log[j].turn \in Nat
               /\ log[j].kind = "call" /\ log[j].turn = turn => \E i \in 1..Len(cs) : cs[i] = j
               /\ Ends(log[j]) => log[j].kind = "call" /\ log[j].turn = turn
    BY <1>2, <1>3, <2>2, TurningWell, Places
  <2>3. ASSUME NEW j \in InRound(log, q), Ends(log[j]) PROVE FALSE
    <3>1. log[j].kind = "call" /\ \E i \in 1..Len(cs) : cs[i] = j
      BY <2>2, <2>3
    <3>2. PICK i \in 1..Len(cs) : cs[i] = j
      BY <3>1
    <3>3. log[j].call = reply[i] /\ ~Terminal(reply[i])
      BY <1>2, <1>4, <3>2 DEF Turning
    <3>4. QED
      BY <2>3, <3>1, <3>3 DEF Ends
  <2>4. \A j \in InRound(log, q) : log[j].turn <= turn + 1 /\ log[j].turn < turn + 1
    BY <1>3, <2>2
  <2>5. QED
    BY <2>1, <2>3, <2>4 DEF Ongoing
<1>8. QED
  BY <1>5, <1>6, <1>7

(* Calls that are intercepted wait for no result of a tool.                *)
LEMMA NoneReal ==
  ASSUME NEW L, NEW owed, Whole(L, owed), \A j \in owed : j \notin RealPlaces(L)
  PROVE  Whole(L, {})
  BY DEF Whole

(* The last call of a turn is answered and the round ends with it.         *)
LEMMA LastAnswered ==
  ASSUME NEW L0, NEW q, NEW L, NEW t, NEW calls, NEW cs, Turning(L0, q, L, t, calls, cs), Distinct(calls),
         NEW n, Filled(cs, calls, n), NEW p, After(n, p), Owed(L, cs, p),
         NEW f, Chain(f, L, cs, Rebuilt(L0), calls, n)
  PROVE  Whole(L, {}) /\ Rebuilt(L).history = f[n].history /\ Rebuilt(L).notes = f[n].notes
<1>1. Owing(cs, p) = {}
  <2>1. n \in Nat /\ p = n + 1 /\ n = Len(cs)
    BY DEF After, Filled
  <2>2. QED
    BY <2>1 DEF Owing
<1>2. Whole(L, {})
  BY <1>1 DEF Owed
<1>3. Written(L0, q, L, t, calls, cs)
  BY TurningWritten DEF Filled
<1>4. QED
  BY <1>2, <1>3, Closed

(* stop is answered by the final answer of its round.                      *)
Stopping(L0, q, P, t, calls, cs, p, e, L, n, f, w) ==
  /\ Turning(L0, q, P, t, calls, cs) /\ Distinct(calls)
  /\ Filled(cs, calls, p) /\ Intercepted(calls[p]) /\ Owed(P, cs, p)
  /\ Grown(P, e, L) /\ e.kind = "final" /\ e.turn = t
  /\ After(n, p) /\ Chain(f, P, cs, Rebuilt(L0), calls, n)
  /\ w = AnswerTo(calls[p], TRUE)

LEMMA Stopped ==
  ASSUME NEW L0, NEW q, NEW P, NEW t, NEW calls, NEW cs, NEW p, NEW e, NEW L, NEW n, NEW f, NEW w,
         Stopping(L0, q, P, t, calls, cs, p, e, L, n, f, w)
  PROVE  /\ Whole(L, {})
         /\ Rebuilt(L).history = Extended(f[n], P[cs[p]], w).history
         /\ Rebuilt(L).notes = Extended(f[n], P[cs[p]], w).notes
<1>0. /\ Turning(L0, q, P, t, calls, cs) /\ Distinct(calls)
      /\ Filled(cs, calls, p) /\ Intercepted(calls[p]) /\ Owed(P, cs, p)
      /\ Grown(P, e, L) /\ e.kind = "final" /\ e.turn = t
      /\ After(n, p) /\ Chain(f, P, cs, Rebuilt(L0), calls, n)
      /\ w = AnswerTo(calls[p], TRUE)
  BY DEF Stopping
<1> USE <1>0
<1>1. PICK m \in Nat : m = Len(P) /\ DOMAIN P = 1..m
  BY AppendStarts
<1>2. /\ DOMAIN L = 1..(m + 1) /\ L[m + 1] = e /\ (\A j \in 1..m : L[j] = P[j]) /\ Len(L) = m + 1
      /\ L \in Seq(LogEvents) /\ P \in Seq(LogEvents) /\ Starts(P, L)
  BY <1>1, AppendStarts
<1>3. n \in Nat /\ p = n + 1 /\ p \in Nat
  BY DEF After
<1>4. \A i \in 1..p : cs[i] \in CallPlaces(P) /\ cs[i] \in 1..m /\ P[cs[i]].call = calls[i]
  <2>1. \A i \in 1..Len(cs) : cs[i] \in CallPlaces(P) /\ cs[i] \in 1..Len(P) /\ P[cs[i]].call = calls[i]
    BY TurningWell
  <2>2. QED
    BY <1>1, <2>1 DEF Filled
<1>5. Owing(cs, p) = {cs[p]}
  <2>1. p..p = {p}
    BY <1>3
  <2>2. QED
    BY <2>1 DEF Owing, Filled
<1>6. Whole(P, {})
  <2>1. cs[p] \notin RealPlaces(P)
    BY <1>3, <1>4 DEF RealPlaces
  <2>2. \A j \in Owing(cs, p) : j \notin RealPlaces(P)
    BY <1>5, <2>1
  <2>3. Whole(P, Owing(cs, p))
    BY DEF Owed
  <2>4. QED
    BY <2>2, <2>3, NoneReal
<1>7. Follows(P, q, e)
  BY TurningWell DEF Follows
<1>8. Whole(L, {})
  BY <1>6, <1>7, WholeOther
<1>9. Written(L0, q, L, t, calls, cs)
  <2>1. /\ Starts(L0, L) /\ RoundsOf(L) = RoundsOf(L0) /\ CallsAt(L, q, t) = cs
        /\ \A j \in DOMAIN L \ DOMAIN L0 : L[j].turn = t /\ (L[j].kind \in {"call", "result"} \/ L[j] = e)
    BY TurnGrows
  <2>2. Whole(L0, {}) /\ Ongoing(L0, q, t) /\ t \in Nat /\ t < MaxTurns
    BY DEF Turning
  <2>3. \A j \in DOMAIN L \ DOMAIN L0 : L[j].turn = t /\ L[j].kind # "steer"
    BY <2>1
  <2>4. \A i \in 1..Len(cs) : L[cs[i]].call = calls[i]
    BY <1>2, <1>4 DEF Filled
  <2>5. QED
    BY <2>1, <2>2, <2>3, <2>4 DEF Written, Filled
<1>10. Chain(f, L, cs, Rebuilt(L0), calls, n)
  <2>1. \A i \in 1..n : cs[i] = cs[i] /\ cs[i] \in CallPlaces(P) \ {}
    BY <1>3, <1>4
  <2>2. QED
    BY <1>2, <1>3, <1>6, <1>8, <2>1, ChainKept
<1>11. PICK g : /\ Chain(g, L, cs, Rebuilt(L0), calls, p)
                /\ g[p] = Extended(f[n], L[cs[p]], ValueOf(L, cs[p]))
  BY <1>10, ChainMore
<1>12. g[p] = Extended(f[n], P[cs[p]], w)
  <2>1. L[cs[p]] = P[cs[p]] /\ Intercepted(L[cs[p]].call) /\ L[cs[p]].call = calls[p]
    BY <1>2, <1>3, <1>4
  <2>2. ValueOf(L, cs[p]) = AnswerTo(calls[p], TRUE)
    BY <2>1 DEF ValueOf, Again
  <2>3. QED
    BY <1>11, <2>1, <2>2
<1>13. Rebuilt(L).history = g[p].history /\ Rebuilt(L).notes = g[p].notes
  BY <1>8, <1>9, <1>11, Closed
<1>14. QED
  BY <1>8, <1>12, <1>13

(* The answer to an intercepted call.                                      *)
LEMMA AnswerLive == ASSUME NameInv, LoadedWell, LiveInv, AnswerPseudo, exact' PROVE LiveInv'
<1> DEFINE v == AnswerTo(reply[pos], Oracle)
           w == AnswerTo(reply[pos], TRUE)
<1>1. /\ phase = "inline" /\ exact /\ (~Terminal(reply[pos]) \/ pos = Len(reply))
      /\ history' = history \o (IF reply[pos].tool = "stop" THEN <<ToolTurn(reply[pos].id, v), TextTurn>>
                                ELSE <<ToolTurn(reply[pos].id, v)>>)
      /\ notes' = IF reply[pos].tool = "save_note" THEN notes + 1 ELSE notes
      /\ log' = Append(log, IF reply[pos].tool = "stop" THEN Event("final", NoCall, <<>>, Ok)
                            ELSE Event("result", NoCall, reply[pos].id, v))
      /\ IF ~Terminal(reply[pos])
         THEN phase' = "dispatch" /\ pos' = pos + 1 /\ UNCHANGED <<reply, told, turn>>
         ELSE phase' = "idle"
      /\ UNCHANGED loaded
  BY DEF AnswerPseudo, Goto, Log, Terminal
<1>2. PICK L0, q, f, cs : Works(L0, q, f, cs) /\ Announcing(cs)
  BY <1>1 DEF LiveInv, Working
<1>3. /\ Turning(L0, q, log, turn, reply, cs) /\ Distinct(reply)
      /\ Owed(log, cs, pos) /\ Chain(f, log, cs, Rebuilt(L0), reply, pos - 1)
      /\ Recalled = f[pos - 1].history /\ notes = f[pos - 1].notes
      /\ \A i \in 1..(pos - 1) : ~Terminal(reply[i])
  BY <1>2 DEF Works
<1>4. told = 0 /\ Len(cs) = pos /\ Intercepted(reply[pos])
  BY <1>1, <1>2 DEF Announcing
<1>5. log \in Seq(LogEvents) /\ turn \in Nat /\ pos \in Nat \ {0} /\ pos \in DOMAIN reply
  <2>1. log \in Seq(LogEvents) /\ turn \in Nat
    BY DEF NameInv, Talk
  <2>2. QED
    BY <1>1, <2>1 DEF NameInv, Shaped, Placed
<1>6. reply[pos].id \in Ids /\ pos \in 1..Len(cs)
  BY <1>4, <1>5, ReplyIds
<1>7. log[cs[pos]].call = reply[pos] /\ log[cs[pos]].id = reply[pos].id
  BY <1>3, <1>6, TurningWell
<1>0. Recalled' = Recalled \o (IF reply[pos].tool = "stop" THEN <<ToolTurn(reply[pos].id, w), TextTurn>>
                               ELSE <<ToolTurn(reply[pos].id, w)>>)
  <2>1. ToolTurn(reply[pos].id, v) \in Turns /\ TextTurn \in Turns /\ history \in Seq(Turns)
    BY <1>6, TurnKinds, AnswersAre DEF NameInv, Talk
  <2>2. Retold(ToolTurn(reply[pos].id, v)) = ToolTurn(reply[pos].id, w) /\ Retold(TextTurn) = TextTurn
    BY RetoldKinds
  <2> HIDE DEF v, w
  <2>3. CASE reply[pos].tool = "stop"
    BY <1>1, <2>1, <2>2, <2>3, RecalledTwo
  <2>4. CASE reply[pos].tool # "stop"
    <3>1. history' = Append(history, ToolTurn(reply[pos].id, v))
      BY <1>1, <2>1, <2>4
    <3>2. Recalled' = Append(Recalled, ToolTurn(reply[pos].id, w))
      BY <1>1, <2>1, <2>2, <3>1, RecalledAdds
    <3>3. Recalled \in Seq(Kinds) /\ ToolTurn(reply[pos].id, w) \in Kinds
      BY <2>1, <2>2, RecalledWell DEF Kinds
    <3>4. QED
      BY <2>4, <3>2, <3>3
  <2>5. QED
    BY <2>3, <2>4
<1> HIDE DEF v, w
<1>8. PICK p, n, P, t, calls : p = pos /\ n = pos - 1 /\ P = log /\ t = turn /\ calls = reply
  OBVIOUS
<1>80. w = AnswerTo(calls[p], TRUE)
  BY <1>8 DEF w
<1>9. /\ Turning(L0, q, P, t, calls, cs) /\ Distinct(calls) /\ p \in 1..Len(cs)
      /\ Owed(P, cs, p) /\ Chain(f, P, cs, Rebuilt(L0), calls, n)
      /\ Chain(f, P, cs, Rebuilt(L0), calls, p - 1)
      /\ After(n, p) /\ p = Len(cs)
  <2>1. n \in Nat /\ p = n + 1
    BY <1>5, <1>8
  <2>2. QED
    BY <1>3, <1>4, <1>6, <1>8, <2>1 DEF After
<1>10. Recalled' = Extended(f[n], P[cs[p]], w).history /\ notes' = Extended(f[n], P[cs[p]], w).notes
  <2>1. Recalled = f[n].history /\ notes = f[n].notes
    BY <1>3, <1>8
  <2>2. P[cs[p]].call = reply[pos] /\ P[cs[p]].id = reply[pos].id
    BY <1>7, <1>8
  <2>3. QED
    BY <1>0, <1>1, <2>1, <2>2 DEF Extended, Said
<1>11. CASE reply[pos].tool = "stop"
  <2> DEFINE e == Event("final", NoCall, <<>>, Ok)
  <2>1. e \in LogEvents /\ e.kind = "final" /\ e.turn = t
    BY <1>5, <1>8, EventWell DEF Event, Ok
  <2>2. log' = Append(P, e) /\ phase' = "idle" /\ Filled(cs, calls, p) /\ Intercepted(calls[p])
    <3>1. Terminal(reply[pos])
      BY <1>11 DEF Terminal, Ending
    <3>2. QED
      BY <1>1, <1>4, <1>8, <1>11, <3>1 DEF Filled
  <2> HIDE DEF e
  <2>3. Grown(P, e, log')
    BY <1>5, <1>8, <2>1, <2>2 DEF Grown
  <2>4. PICK L : L = log'
    OBVIOUS
  <2>5. /\ Whole(L, {})
        /\ Rebuilt(L).history = Extended(f[n], P[cs[p]], w).history
        /\ Rebuilt(L).notes = Extended(f[n], P[cs[p]], w).notes
    <3>1. /\ Turning(L0, q, P, t, calls, cs) /\ Distinct(calls) /\ Filled(cs, calls, p)
          /\ Intercepted(calls[p]) /\ Owed(P, cs, p) /\ Grown(P, e, L) /\ e.kind = "final" /\ e.turn = t
          /\ After(n, p) /\ Chain(f, P, cs, Rebuilt(L0), calls, n)
      BY <1>9, <2>1, <2>2, <2>3, <2>4
    <3>2. PICK ev, a : ev = e /\ a = w
      OBVIOUS
    <3>3. Grown(P, ev, L) /\ ev.kind = "final" /\ ev.turn = t /\ a = AnswerTo(calls[p], TRUE)
      BY <1>80, <3>1, <3>2
    <3>30. Stopping(L0, q, P, t, calls, cs, p, ev, L, n, f, a)
      BY <3>1, <3>3 DEF Stopping
    <3>4. /\ Whole(L, {})
          /\ Rebuilt(L).history = Extended(f[n], P[cs[p]], a).history
          /\ Rebuilt(L).notes = Extended(f[n], P[cs[p]], a).notes
      BY <3>30, Stopped
    <3>5. QED
      BY <3>2, <3>4
  <2>6. Matching'
    BY <1>10, <2>4, <2>5 DEF Matching
  <2>7. QED
    BY <2>2, <2>4, <2>5, <2>6 DEF LiveInv
<1>12. CASE reply[pos].tool # "stop"
  <2> DEFINE e == Event("result", NoCall, reply[pos].id, v)
  <2>1. e \in LogEvents /\ e.kind = "result" /\ e.turn = t /\ e.id = calls[p].id
    BY <1>5, <1>6, <1>8, EventWell, AnswersAre DEF Event, v
  <2>2. log' = Append(P, e) /\ Again(calls[p], e.value) = w
    BY <1>1, <1>4, <1>8, <1>12 DEF Event, Again, w
  <2> HIDE DEF e
  <2>3. Grown(P, e, log')
    BY <1>5, <1>8, <2>1, <2>2 DEF Grown
  <2>4. PICK L : L = log'
    OBVIOUS
  <2>5. /\ Turning(L0, q, L, t, calls, cs) /\ Owed(L, cs, p + 1)
        /\ \E g : /\ Chain(g, L, cs, Rebuilt(L0), calls, p)
                  /\ g[p] = Extended(f[p - 1], P[cs[p]], Again(calls[p], e.value))
    BY <1>9, <2>1, <2>3, <2>4, Answered
  <2>6. PICK g : Chain(g, L, cs, Rebuilt(L0), calls, p) /\ g[p] = Extended(f[n], P[cs[p]], w)
    BY <1>8, <2>2, <2>5
  <2>7. Recalled' = g[p].history /\ notes' = g[p].notes
    BY <1>10, <2>6
  <2>8. CASE ~Terminal(reply[pos])
    <3>1. phase' = "dispatch" /\ pos' = p + 1 /\ UNCHANGED <<reply, told, turn>> /\ p \in Nat
      BY <1>1, <1>5, <1>8, <2>8
    <3>2. (p + 1) - 1 = p
      BY <3>1
    <3>3. \A i \in 1..p : ~Terminal(reply[i])
      BY <1>3, <1>5, <1>8, <2>8
    <3>4. Works(L0, q, g, cs)'
      <4>1. /\ Turning(L0, q, log', turn', reply', cs) /\ Distinct(reply')
            /\ Owed(log', cs, pos') /\ Chain(g, log', cs, Rebuilt(L0), reply', pos' - 1)
            /\ Recalled' = g[pos' - 1].history /\ notes' = g[pos' - 1].notes
            /\ \A i \in 1..(pos' - 1) : ~Terminal(reply'[i])
        BY <1>8, <1>9, <2>4, <2>5, <2>6, <2>7, <3>1, <3>2, <3>3
      <4>2. QED
        BY <4>1 DEF Works
    <3>5. Announcing(cs)'
      <4>1. Len(cs) = pos' - 1 + told' /\ pos'..Len(cs) = {}
        BY <1>4, <1>8, <3>1
      <4>2. QED
        BY <3>1, <4>1 DEF Announcing
    <3>6. Working'
      BY <3>4, <3>5 DEF Working
    <3>7. QED
      BY <3>1, <3>6 DEF LiveInv
  <2>9. CASE Terminal(reply[pos])
    <3>1. phase' = "idle" /\ Filled(cs, calls, p)
      BY <1>1, <1>4, <1>8, <2>9 DEF Filled
    <3>2. PICK r : After(p, r) /\ r = p + 1
      BY <1>5, <1>8 DEF After
    <3>3. Owed(L, cs, r)
      BY <2>5, <3>2
    <3>4. Whole(L, {}) /\ Rebuilt(L).history = g[p].history /\ Rebuilt(L).notes = g[p].notes
      BY <1>9, <2>5, <2>6, <3>1, <3>2, <3>3, LastAnswered
    <3>5. Matching'
      BY <2>4, <2>7, <3>4 DEF Matching
    <3>6. QED
      BY <2>4, <3>1, <3>4, <3>5 DEF LiveInv
  <2>10. QED
    BY <2>8, <2>9
<1>13. QED
  BY <1>11, <1>12

(* The result of a real call.                                              *)
LEMMA DeliverLive == ASSUME NameInv, LoadedWell, LiveInv, Deliver, exact' PROVE LiveInv'
<1>1. PICK v : /\ v = Truncate(outcome[Len(batch) - told + 1].value) /\ phase = "executing" /\ told > 0 /\ exact
               /\ history' = Append(history, ToolTurn(reply[pos].id, v))
               /\ log' = Append(log, Event("result", NoCall, reply[pos].id, v))
               /\ pos' = pos + 1 /\ told' = told - 1 /\ phase' \in {"dispatch", "executing"}
               /\ UNCHANGED <<notes, reply, turn, loaded>>
  BY DEF Deliver, Remember, Log, Goto
<1>2. PICK L0, q, f, cs : Works(L0, q, f, cs) /\ Announcing(cs)
  BY <1>1 DEF LiveInv, Working
<1>3. /\ Turning(L0, q, log, turn, reply, cs) /\ Distinct(reply)
      /\ Owed(log, cs, pos) /\ Chain(f, log, cs, Rebuilt(L0), reply, pos - 1)
      /\ Recalled = f[pos - 1].history /\ notes = f[pos - 1].notes
      /\ \A i \in 1..(pos - 1) : ~Terminal(reply[i])
  BY <1>2 DEF Works
<1>4. Len(cs) = pos - 1 + told /\ \A i \in pos..Len(cs) : ~Intercepted(reply[i])
  BY <1>1, <1>2 DEF Announcing
<1>5. /\ log \in Seq(LogEvents) /\ history \in Seq(Turns) /\ turn \in Nat /\ pos \in Nat \ {0} /\ told \in Nat
      /\ pos \in DOMAIN reply /\ v \in Int /\ v \notin {Ok, Armed, Refused}
  <2>1. log \in Seq(LogEvents) /\ history \in Seq(Turns) /\ turn \in Nat
    BY DEF NameInv, Talk
  <2>2. told <= Len(batch) /\ pos + told - 1 <= Len(reply) /\ pos \in Nat \ {0} /\ told \in Nat
        /\ Len(batch) \in Nat /\ Len(reply) \in Nat /\ DOMAIN reply = 1..Len(reply)
        /\ DOMAIN outcome = 1..Len(batch)
    BY <1>1 DEF NameInv, Placed, Shaped
  <2>3. pos \in DOMAIN reply /\ Len(batch) - told + 1 \in DOMAIN outcome
    BY <1>1, <2>2
  <2>4. v \in Int /\ v \notin {Ok, Armed, Refused}
    <3>1. outcome[Len(batch) - told + 1].value \in Miss..MaxVersion
      BY <2>3 DEF NameInv, Values
    <3>2. v \in Int /\ v > Ok
      BY <1>1, <3>1, ReplayAssumption
    <3>3. QED
      BY <3>2 DEF Ok, Armed, Refused
  <2>5. QED
    BY <2>1, <2>2, <2>3, <2>4
<1>6. reply[pos].id \in Ids /\ pos \in 1..Len(cs) /\ ~Intercepted(reply[pos])
  <2>1. pos \in 1..Len(cs) /\ pos \in pos..Len(cs)
    BY <1>1, <1>4, <1>5
  <2>2. QED
    BY <1>4, <1>5, <2>1, ReplyIds
<1>7. log[cs[pos]].call = reply[pos] /\ log[cs[pos]].id = reply[pos].id
  BY <1>3, <1>6, TurningWell
<1>8. PICK p, P, t, calls : p = pos /\ P = log /\ t = turn /\ calls = reply
  OBVIOUS
<1>9. /\ Turning(L0, q, P, t, calls, cs) /\ Distinct(calls) /\ p \in 1..Len(cs)
      /\ Owed(P, cs, p) /\ Chain(f, P, cs, Rebuilt(L0), calls, p - 1)
  BY <1>3, <1>6, <1>8
<1> DEFINE e == Event("result", NoCall, reply[pos].id, v)
<1>10. e \in LogEvents /\ e.kind = "result" /\ e.turn = t /\ e.id = calls[p].id /\ e.value = v
  BY <1>5, <1>6, <1>8, EventWell DEF Event
<1>11. log' = Append(P, e)
  BY <1>1, <1>8
<1> HIDE DEF e
<1>12. Grown(P, e, log')
  BY <1>5, <1>8, <1>10, <1>11 DEF Grown
<1>13. PICK L : L = log'
  OBVIOUS
<1>14. /\ Turning(L0, q, L, t, calls, cs) /\ Owed(L, cs, p + 1)
       /\ \E g : /\ Chain(g, L, cs, Rebuilt(L0), calls, p)
                 /\ g[p] = Extended(f[p - 1], P[cs[p]], Again(calls[p], e.value))
  BY <1>9, <1>10, <1>12, <1>13, Answered
<1>0. Again(calls[p], e.value) = Truncate(v)
  BY <1>6, <1>8, <1>10 DEF Again
<1>15. PICK g : Chain(g, L, cs, Rebuilt(L0), calls, p) /\ g[p] = Extended(f[p - 1], P[cs[p]], Truncate(v))
  BY <1>0, <1>14
<1>16. Recalled' = g[p].history /\ notes' = g[p].notes
  <2>1. Recalled = f[p - 1].history /\ notes = f[p - 1].notes
    BY <1>3, <1>8
  <2>2. P[cs[p]].call = reply[pos] /\ P[cs[p]].id = reply[pos].id
    BY <1>7, <1>8
  <2>3. reply[pos].tool # "stop" /\ reply[pos].tool # "save_note"
    BY <1>6 DEF Intercepted, Ending
  <2>4. ToolTurn(reply[pos].id, v) \in Turns
    BY <1>5, <1>6, TurnKinds, AnswersAre
  <2>5. Recalled' = Recalled \o <<ToolTurn(reply[pos].id, Truncate(v))>>
    <3>1. Retold(ToolTurn(reply[pos].id, v)) = ToolTurn(reply[pos].id, Truncate(v))
      BY <1>5, RetoldKinds
    <3>2. Recalled' = Append(Recalled, ToolTurn(reply[pos].id, Truncate(v)))
      BY <1>1, <2>4, <3>1, RecalledAdds
    <3>3. Recalled \in Seq(Kinds) /\ ToolTurn(reply[pos].id, Truncate(v)) \in Kinds
      BY <2>4, <3>1, RecalledWell DEF Kinds, NameInv, Talk
    <3>4. QED
      BY <3>2, <3>3
  <2>6. g[p].history = f[p - 1].history \o <<ToolTurn(reply[pos].id, Truncate(v))>> /\ g[p].notes = f[p - 1].notes
    BY <1>15, <2>2, <2>3 DEF Extended, Said
  <2>7. QED
    BY <1>1, <2>1, <2>5, <2>6
<1>17. pos' = p + 1 /\ (p + 1) - 1 = p /\ p \in Nat \ {0}
  BY <1>1, <1>5, <1>8
<1>18. \A i \in 1..p : ~Terminal(reply[i])
  <2>1. ~Terminal(reply[p])
    BY <1>6, <1>8 DEF Terminal, Intercepted
  <2>2. \A i \in 1..p : i = p \/ i \in 1..(pos - 1)
    BY <1>5, <1>8
  <2>3. QED
    BY <1>3, <2>1, <2>2
<1>19. Works(L0, q, g, cs)'
  <2>1. /\ Turning(L0, q, log', turn', reply', cs) /\ Distinct(reply')
        /\ Owed(log', cs, pos') /\ Chain(g, log', cs, Rebuilt(L0), reply', pos' - 1)
        /\ Recalled' = g[pos' - 1].history /\ notes' = g[pos' - 1].notes
        /\ \A i \in 1..(pos' - 1) : ~Terminal(reply'[i])
    BY <1>1, <1>8, <1>9, <1>13, <1>14, <1>15, <1>16, <1>17, <1>18
  <2>2. QED
    BY <2>1 DEF Works
<1>20. Announcing(cs)'
  <2>1. Len(cs) = pos' - 1 + told' /\ \A i \in pos'..Len(cs) : i \in pos..Len(cs)
    BY <1>1, <1>4, <1>5
  <2>2. QED
    BY <1>1, <1>4, <2>1 DEF Announcing
<1>21. Working'
  BY <1>19, <1>20 DEF Working
<1>22. QED
  BY <1>1, <1>21 DEF LiveInv

LEMMA LiveStep == ASSUME NameInv, LoadedWell, LiveInv, [Next]_vars, Talk' PROVE LiveInv'
<1>0. SUFFICES ASSUME exact' PROVE LiveInv'
  BY DEF LiveInv
<1>1. CASE Ask
  BY <1>0, <1>1, AskLive
<1>2. CASE Accept
  BY <1>0, <1>2, AcceptLive
<1>3. CASE Drain
  BY <1>0, <1>3, DrainLive
<1>4. CASE ModelAnswers
  BY <1>0, <1>4, ModelAnswersLive
<1>5. CASE ModelFails
  <2>1. phase = "ready" /\ phase' = "idle" /\ UNCHANGED <<notes, log>> /\ Recalled' = Recalled /\ exact
    BY <1>0, <1>5, RecalledStays DEF ModelFails, Goto
  <2>2. Whole(log, {}) /\ Matching
    BY <2>1 DEF LiveInv, ReadyLive
  <2>3. QED
    BY <2>1, <2>2 DEF LiveInv, Matching
<1>6. ASSUME NEW calls \in Replies, ModelReplies(calls) PROVE LiveInv'
  BY <1>0, <1>6, RepliesLive
<1>7. CASE AnnouncePseudo \/ AnnounceCall
  BY <1>0, <1>7, AnnounceLive
<1>8. CASE AnswerPseudo
  BY <1>0, <1>8, AnswerLive
<1>9. CASE Deliver
  BY <1>0, <1>9, DeliverLive
<1>10. CASE EndTurn
  <2>1. /\ phase = "dispatch" /\ pos > Len(reply) /\ exact /\ UNCHANGED <<notes, log>> /\ Recalled' = Recalled
        /\ \/ phase' = "ready" /\ turn' = turn + 1 /\ turn + 1 < MaxTurns
           \/ phase' = "idle"
    BY <1>0, <1>10, RecalledStays DEF EndTurn, Goto
  <2>2. Whole(log, {}) /\ Matching /\ \E q : Ongoing(log, q, turn + 1)
    BY <2>1, TurnOver
  <2>3. Whole(log', {}) /\ Matching'
    BY <2>1, <2>2 DEF Matching
  <2>4. phase' = "ready" => ReadyLive'
    BY <2>1, <2>2, <2>3 DEF ReadyLive
  <2>5. QED
    BY <2>1, <2>3, <2>4 DEF LiveInv
<1>11. CASE Cancel
  <2>1. /\ phase' = "idle" /\ exact /\ UNCHANGED <<notes, log>> /\ Recalled' = Recalled
        /\ phase = "ready" \/ (phase = "dispatch" /\ pos > Len(reply))
    BY <1>0, <1>11, RecalledStays DEF Cancel, Goto
  <2>2. Whole(log, {}) /\ Matching
    BY <2>1, TurnOver DEF LiveInv, ReadyLive
  <2>3. QED
    BY <2>1, <2>2 DEF LiveInv, Matching
<1>12. CASE Resume
  <2>1. /\ phase = "idle" /\ phase' = "idle" /\ exact /\ log' = log
        /\ history' = Rebuilt(log).history /\ notes' = Rebuilt(log).notes /\ loaded' = Len(history')
    BY <1>0, <1>12 DEF Resume
  <2>2. Recalled' = history'
    BY <2>1, LoadedAll DEF Talk
  <2>3. Whole(log, {}) /\ Rebuilt(log) = Rebuilt(log')
    BY <2>1 DEF LiveInv
  <2>4. QED
    BY <2>1, <2>2, <2>3 DEF LiveInv, Matching
<1>13. CASE Steer \/ Execute \/ RunBatch \/ EditFile \/ Quiet \/ UNCHANGED vars
  <2>1. /\ UNCHANGED <<history, loaded, notes, log, reply, pos, told, turn, rounds, exact>>
        /\ phase' = phase \/ (phase = "dispatch" /\ phase' = "executing")
    BY <1>13 DEF Steer, Execute, RunBatch, EditFile, Quiet, Goto, vars, loopVars
  <2>2. QED
    BY <2>1, StillLive
<1>14. QED
  BY <1>1, <1>2, <1>3, <1>4, <1>5, <1>6, <1>7, <1>8, <1>9, <1>10, <1>11, <1>12, <1>13 DEF Next

(* The turns a rebuild made are the first of the history.                  *)
LEMMA LoadedStep == ASSUME NameInv, LoadedWell, [Next]_vars PROVE LoadedWell'
<1>1. history \in Seq(Turns) /\ Talk'
  BY TalkStep DEF NameInv, Talk
<1>2. CASE UNCHANGED <<history, loaded>>
  BY <1>2, RecalledStays
<1>3. CASE UNCHANGED loaded /\ \E t \in Turns : history' = Append(history, t)
  BY <1>3, RecalledAdds
<1>4. CASE UNCHANGED loaded /\ \E t, u \in Turns : history' = history \o <<t, u>>
  BY <1>4, RecalledTwo
<1>5. CASE Resume
  <2>1. history' \in Seq(Turns) /\ loaded' = Len(history')
    BY <1>1, <1>5 DEF Resume, Talk
  <2>2. QED
    BY <2>1, LoadedAll
<1>6. CASE Ask \/ Steer \/ ModelFails \/ AnnouncePseudo \/ AnnounceCall \/ Execute \/ RunBatch \/ EndTurn
           \/ Cancel \/ EditFile \/ Quiet \/ UNCHANGED vars
  <2>1. UNCHANGED <<history, loaded>>
    BY <1>6 DEF Ask, Steer, ModelFails, AnnouncePseudo, AnnounceCall, Execute, RunBatch, EndTurn,
                Cancel, EditFile, Quiet, vars, loopVars
  <2>2. QED
    BY <1>2, <2>1
<1>7. CASE Accept \/ Drain \/ ModelAnswers \/ Deliver \/ \E calls \in Replies : ModelReplies(calls)
  <2>1. PICK t : history' = Append(history, t) /\ UNCHANGED loaded
    BY <1>7 DEF Accept, Drain, ModelAnswers, Deliver, ModelReplies, Remember
  <2>2. t \in Turns
    <3>1. history' \in Seq(Turns)
      BY <1>1 DEF Talk
    <3>2. Len(history) + 1 \in DOMAIN history' /\ history'[Len(history) + 1] = t
      BY <1>1, <2>1
    <3>3. QED
      BY <3>1, <3>2
  <2>3. QED
    BY <1>3, <2>1, <2>2
<1>8. CASE AnswerPseudo
  <2>1. pos \in DOMAIN reply
    BY <1>8 DEF AnswerPseudo, NameInv, Placed
  <2>2. PICK t \in Turns : t = ToolTurn(reply[pos].id, AnswerTo(reply[pos], Oracle))
    BY <2>1, ReplyIds, TurnKinds, AnswersAre
  <2>3. history' = history \o (IF reply[pos].tool = "stop" THEN <<t, TextTurn>> ELSE <<t>>) /\ UNCHANGED loaded
    BY <1>8, <2>2 DEF AnswerPseudo
  <2>4. history \o <<t>> = Append(history, t)
    BY <1>1
  <2>5. QED
    BY <1>3, <1>4, <2>3, <2>4, TurnKinds
<1>9. QED
  BY <1>5, <1>6, <1>7, <1>8 DEF Next

(* A session is rebuilt from its log turn by turn as it was but for what   *)
(* Retold names: signatures, a second truncation, an oracle refused        *)
(* (sessions/replay.py beside harness/loop.py).  What goes on from a       *)
(* rebuilt one is in the log as what goes on from the live one: whatever   *)
(* the model answered and the tools returned, and however often it was     *)
(* loaded again, as long as nothing happened that the log cannot tell.     *)
THEOREM HistoryRebuilt == Spec => []RebuiltHistory
<1>1. LiveInv => RebuiltHistory
  BY DEF LiveInv, Matching, RebuiltHistory
<1>2. NameInv /\ BatchInv /\ [Next]_vars => NameInv'
  BY ShapeStep, TalkStep, PlacedStep, ValuesStep DEF NameInv, BatchInv
<1>3. NameInv /\ LoadedWell /\ LiveInv /\ [Next]_vars => LiveInv'
  BY TalkStep, LiveStep
<1>4. NameInv /\ LoadedWell /\ [Next]_vars => LoadedWell'
  BY LoadedStep
<1>5. QED
  BY <1>1, <1>2, <1>3, <1>4, InitNames, InitBatch, InitLive, BatchStepKept, PTL DEF Spec

-----------------------------------------------------------------------------
(* The wire.  Sizes are sums, a dict is cut by a loop over its values, and *)
(* a part of a response is kept or passed over.                            *)

LEMMA TotalAdds ==
  ASSUME NEW sizes \in Seq(Nat)
  PROVE  /\ Total(sizes) \in Nat /\ (sizes = <<>> => Total(sizes) = 0)
         /\ \A w \in Widths : sizes \in Seq(1..w) => Total(sizes) <= w * Len(sizes)
<1> DEFINE n == Len(sizes)
           V == Nat
           Step(k, t) == t + sizes[k]
           total[k \in 0..n] == IF k = 0 THEN 0 ELSE Step(k, total[k - 1])
           F == [k \in 1..n |-> [t \in V |-> Step(k, t)]]
<1>1. n \in Nat /\ 0 \in V /\ \A k \in 1..n : \A t \in V : Step(k, t) \in V
  OBVIOUS
<1>2. Total(sizes) = total[n]
  BY DEF Total
<1>3. sizes = <<>> => n = 0
  OBVIOUS
<1> HIDE DEF Step, n, V
<1>4. \A k \in 1..n : \A t \in V : F[k][t] = Step(k, t) /\ F[k][t] \in V
  BY <1>1
<1> HIDE DEF F
<1>5. PICK f : Loop(f, 0, F, n, V)
  BY <1>1, <1>4, Recursion DEF Steps
<1>6. f = [k \in 0..n |-> IF k = 0 THEN 0 ELSE Step(k, f[k - 1])]
  BY <1>1, <1>4, <1>5 DEF Loop
<1>7. total = [k \in 0..n |-> IF k = 0 THEN 0 ELSE Step(k, total[k - 1])]
  BY <1>6
<1> HIDE DEF total
<1> DEFINE T == {k \in 0..n : total[k] \in V}
<1>8. 0 \in T
  BY <1>1, <1>7
<1>9. ASSUME NEW k \in 1..n, k - 1 \in T
      PROVE  k \in T
  <2>1. k \in 0..n /\ total[k] = Step(k, total[k - 1])
    BY <1>1, <1>7, <1>9
  <2>2. QED
    BY <1>1, <1>9, <2>1
<1> HIDE DEF T
<1>10. \A k \in 0..n : k \in T
  BY <1>1, <1>8, <1>9, UpTo
<1>11. total[n] \in V /\ (n = 0 => total[n] = 0)
  BY <1>1, <1>7, <1>10 DEF T
<1>12. ASSUME NEW w \in Widths, sizes \in Seq(1..w)
       PROVE  Total(sizes) <= w * Len(sizes)
  <2> DEFINE U == {k \in 0..n : total[k] <= w * k}
  <2>1. w \in Nat /\ \A k \in 1..n : sizes[k] \in Nat /\ sizes[k] <= w
    BY <1>12 DEF Widths, n
  <2>2. 0 \in U
    BY <1>1, <1>7, <2>1
  <2>3. ASSUME NEW k \in 1..n, k - 1 \in U
        PROVE  k \in U
    <3>1. k \in 0..n /\ k \in Nat /\ k - 1 \in 0..n /\ total[k - 1] <= w * (k - 1)
      BY <1>1, <2>3
    <3>2. total[k - 1] \in Nat /\ sizes[k] \in Nat /\ sizes[k] <= w
      BY <1>10, <2>1, <3>1 DEF T, V
    <3>3. total[k] = total[k - 1] + sizes[k]
      BY <1>7, <3>1 DEF Step
    <3>4. w * (k - 1) + w = w * k
      BY <2>1, <3>1
    <3>5. w * (k - 1) \in Int /\ w * k \in Int
      BY <2>1, <3>1
    <3>6. total[k] <= w * k
      BY <2>1, <3>1, <3>2, <3>3, <3>4, <3>5
    <3>7. QED
      BY <3>1, <3>6
  <2> HIDE DEF U
  <2>4. \A k \in 0..n : k \in U
    BY <1>1, <2>2, <2>3, UpTo
  <2>5. n \in U
    BY <1>1, <2>4
  <2>6. QED
    BY <1>2, <2>5 DEF U, n
<1>13. QED
  BY <1>2, <1>3, <1>11, <1>12 DEF V

(* A truncated string is of no more characters than the limit, none wider  *)
(* than before.                                                            *)
LEMMA Shortened ==
  ASSUME NEW text \in Seq(Nat), NEW limit \in Int
  PROVE  /\ TruncatedStr(text, limit) \in Seq(Nat)
         /\ limit >= Suffix => Len(TruncatedStr(text, limit)) <= limit
         /\ \A w \in Widths : text \in Seq(1..w) => TruncatedStr(text, limit) \in Seq(1..w)
<1> DEFINE keep == Smaller(Larger(0, limit - Suffix), Len(text))
           kept == SubSeq(text, 1, keep)
<1>1. keep \in 0..Len(text) /\ (limit >= Suffix => keep <= limit - Suffix)
  BY DEF Smaller, Larger, Suffix
<1>2. TruncatedStr(text, limit) = kept \o Marker
  BY DEF TruncatedStr
<1> HIDE DEF keep
<1>3. kept \in Seq(Nat) /\ Len(kept) = keep /\ \A k \in 1..keep : kept[k] = text[k]
  BY <1>1
<1> HIDE DEF kept
<1>4. Marker \in Seq(Nat) /\ Len(Marker) = Suffix
  BY DEF Marker, Suffix
<1>5. TruncatedStr(text, limit) \in Seq(Nat) /\ Len(TruncatedStr(text, limit)) = keep + Suffix
  <2>1. kept \o Marker \in Seq(Nat) /\ Len(kept \o Marker) = Len(kept) + Len(Marker)
    BY <1>3, <1>4, ConcatProperties
  <2>2. QED
    BY <1>2, <1>3, <1>4, <2>1
<1>6. ASSUME NEW w \in Widths, text \in Seq(1..w)
      PROVE  TruncatedStr(text, limit) \in Seq(1..w)
  <2>1. w \in Nat /\ 1 \in 1..w
    BY DEF Widths
  <2>2. \A k \in 1..keep : text[k] \in 1..w
    <3>1. \A k \in 1..Len(text) : text[k] \in 1..w
      BY <1>6, ElementOfSeq
    <3>2. QED
      BY <1>1, <3>1
  <2>3. kept \in Seq(1..w)
    BY <1>1, <2>2, SubSeqProperties DEF kept
  <2>4. Marker \in Seq(1..w)
    BY <2>1 DEF Marker, Suffix
  <2>5. QED
    BY <1>2, <2>3, <2>4, ConcatProperties
<1>7. QED
  BY <1>1, <1>5, <1>6 DEF Suffix

(* What is left of a dict never outgrows the limit while its values are    *)
(* taken, and loses at most a key for each.                                *)
Within(limit, n) == [size : {x \in Int : x <= limit}, dropped : 0..n]

LEMMA TakeFits ==
  ASSUME NEW limit \in Int, NEW n \in Nat, NEW acc \in Within(limit, n), NEW text \in Seq(Nat)
  PROVE  TakeValue(limit, acc, text) \in Within(limit, n + 1)
<1> DEFINE room == limit - acc.size - KeySize - 2
           cut == TruncatedStr(text, room)
           size == acc.size + 2 + Entry(StrSize(text))
           cutSize == acc.size + 2 + Entry(StrSize(cut))
<1>1. acc.size \in Int /\ acc.size <= limit /\ acc.dropped \in 0..n
  BY DEF Within
<1>2. acc = [size |-> acc.size, dropped |-> acc.dropped]
  BY DEF Within
<1>3. size \in Int /\ room \in Int
  BY <1>1, TotalAdds DEF Entry, StrSize, KeySize
<1>4. Total(cut) \in Nat
  BY <1>3, Shortened, TotalAdds
<1>5. cutSize \in Int
  BY <1>1, <1>4 DEF Entry, StrSize, KeySize
<1>6. TakeValue(limit, acc, text) =
        IF size <= limit THEN [acc EXCEPT !.size = size]
        ELSE IF room > 0 /\ cutSize <= limit THEN [acc EXCEPT !.size = cutSize]
        ELSE [acc EXCEPT !.dropped = @ + 1]
  BY DEF TakeValue
<1> HIDE DEF size, room, cutSize, cut
<1>7. [acc EXCEPT !.size = size] = [size |-> size, dropped |-> acc.dropped]
  BY <1>2
<1>8. [acc EXCEPT !.size = cutSize] = [size |-> cutSize, dropped |-> acc.dropped]
  BY <1>2
<1>9. [acc EXCEPT !.dropped = @ + 1] = [size |-> acc.size, dropped |-> acc.dropped + 1]
  BY <1>2
<1>10. QED
  BY <1>1, <1>3, <1>5, <1>6, <1>7, <1>8, <1>9 DEF Within

LEMMA DictFits ==
  ASSUME NEW limit \in Int, NEW values, Len(values) \in Nat, \A k \in 1..Len(values) : values[k] \in Seq(Nat),
         DictEnvelope + KeyList(Len(values)) <= limit
  PROVE  TruncatedDict(values, limit) \in Within(limit, Len(values))
<1> DEFINE n == Len(values)
           base == [size |-> DictEnvelope + KeyList(n), dropped |-> 0]
           Step(k, t) == TakeValue(limit, t, values[k])
           left[k \in 0..n] == IF k = 0 THEN base ELSE Step(k, left[k - 1])
           V == [size : {x \in Int : x <= limit}, dropped : Nat]
           F == [k \in 1..n |-> [t \in V |-> Step(k, t)]]
<1>1. n \in Nat /\ \A k \in 1..n : values[k] \in Seq(Nat)
  OBVIOUS
<1>2. base \in Within(limit, 0) /\ base \in V
  <2>1. DictEnvelope + KeyList(n) \in Int
    BY <1>1 DEF DictEnvelope, KeyList, KeySize, Commas, Larger
  <2>2. QED
    BY <2>1 DEF Within
<1>3. \A k \in 1..n : \A m \in Nat : \A t \in Within(limit, m) : Step(k, t) \in Within(limit, m + 1)
  BY <1>1, TakeFits
<1>4. TruncatedDict(values, limit) = left[n]
  BY DEF TruncatedDict
<1> HIDE DEF Step, base, n
<1>5. ASSUME NEW t \in V
      PROVE  t \in Within(limit, t.dropped)
  <2>1. t = [size |-> t.size, dropped |-> t.dropped] /\ t.dropped \in Nat /\ t.size \in Int /\ t.size <= limit
    OBVIOUS
  <2>2. QED
    BY <2>1 DEF Within
<1>6. \A k \in 1..n : \A t \in V : Step(k, t) \in V
  <2>1. ASSUME NEW k \in 1..n, NEW t \in V
        PROVE  Step(k, t) \in V
    <3>1. t.dropped \in Nat
      OBVIOUS
    <3>2. Step(k, t) \in Within(limit, t.dropped + 1)
      BY <1>3, <1>5, <3>1
    <3>3. QED
      BY <3>1, <3>2 DEF Within
  <2>2. QED
    BY <2>1
<1> HIDE DEF V
<1>7. \A k \in 1..n : \A t \in V : F[k][t] = Step(k, t) /\ F[k][t] \in V
  BY <1>1, <1>6
<1> HIDE DEF F
<1>8. PICK f : Loop(f, base, F, n, V)
  BY <1>1, <1>2, <1>7, Recursion DEF Steps
<1>9. f = [k \in 0..n |-> IF k = 0 THEN base ELSE Step(k, f[k - 1])]
  <2>1. f \in [0..n -> V] /\ f[0] = base /\ \A k \in 1..n : f[k] = F[k][f[k - 1]]
    BY <1>8 DEF Loop
  <2>2. \A k \in 1..n : f[k - 1] \in V
    BY <1>1, <2>1
  <2>3. \A k \in 1..n : f[k] = Step(k, f[k - 1])
    BY <1>7, <2>1, <2>2
  <2>4. \A k \in 0..n : f[k] = IF k = 0 THEN base ELSE Step(k, f[k - 1])
    BY <1>1, <2>1, <2>3
  <2>5. QED
    BY <2>1, <2>4
<1>10. left = [k \in 0..n |-> IF k = 0 THEN base ELSE Step(k, left[k - 1])]
  BY <1>9
<1> HIDE DEF left
<1> DEFINE T == {k \in 0..n : left[k] \in Within(limit, k)}
<1>11. 0 \in T
  BY <1>1, <1>2, <1>10
<1>12. ASSUME NEW k \in 1..n, k - 1 \in T
       PROVE  k \in T
  <2>1. k - 1 \in Nat /\ k \in 0..n /\ (k - 1) + 1 = k
    BY <1>1
  <2>2. left[k] = Step(k, left[k - 1])
    BY <1>1, <1>10, <2>1
  <2>3. QED
    BY <1>3, <1>12, <2>1, <2>2
<1> HIDE DEF T
<1>13. \A k \in 0..n : k \in T
  BY <1>1, <1>11, <1>12, UpTo
<1>14. n \in T
  BY <1>1, <1>13
<1>15. QED
  BY <1>4, <1>14 DEF T, n

LEMMA KeyListGrows ==
  ASSUME NEW n \in Nat, NEW m \in 0..n
  PROVE  KeyList(n) \in Int /\ KeyList(m) \in Int /\ KeyList(m) <= KeyList(n)
<1>1. KeyList(n) = 3 * n + Larger(0, 2 * (n - 1)) /\ KeyList(m) = 3 * m + Larger(0, 2 * (m - 1))
  BY DEF KeyList, KeySize, Commas
<1>2. QED
  BY <1>1 DEF Larger

LEMMA BoundedAlways ==
  ASSUME NEW limit \in Int, NEW text \in Seq(Nat), NEW items \in Seq(Nat), NEW values \in Seq(Seq(Nat))
  PROVE  Bounded(limit, text, items, values)
<1>1. ASSUME limit >= Suffix, NEW w \in Widths, text \in Seq(1..w)
      PROVE  StrSize(TruncatedStr(text, limit)) <= 2 + w * limit
  <2> DEFINE cut == TruncatedStr(text, limit)
  <2>1. cut \in Seq(Nat) /\ cut \in Seq(1..w) /\ Len(cut) <= limit /\ Len(cut) \in Nat
    BY <1>1, Shortened
  <2> HIDE DEF cut
  <2>2. Total(cut) \in Nat /\ Total(cut) <= w * Len(cut)
    BY <2>1, TotalAdds
  <2>3. w * Len(cut) <= w * limit
    <3>1. w \in {1, 2, 6, 12}
      BY DEF Widths
    <3>2. QED
      BY <2>1, <3>1
  <2>4. QED
    <3>1. w * Len(cut) \in Int /\ w * limit \in Int
      BY <2>1 DEF Widths
    <3>2. Total(cut) <= w * limit
      BY <2>2, <2>3, <3>1
    <3>3. QED
      BY <2>2, <3>1, <3>2 DEF StrSize, cut
<1>2. ASSUME limit >= ListEnvelope, NEW k \in KeptItems(items, limit)
      PROVE  TruncatedListSize(items, k) <= limit + Larger(0, k - 2)
  <2> DEFINE prefix == SubSeq(items, 1, k)
  <2>1. k \in 0..Len(items) /\ Len(items) \in Nat
    BY <1>2 DEF KeptItems
  <2>2. prefix \in Seq(Nat) /\ (k = 0 => prefix = <<>>)
    BY <2>1
  <2>3. Total(prefix) \in Nat /\ (k = 0 => Total(prefix) = 0)
    BY <2>2, TotalAdds
  <2>4. k >= 1 => ListEnvelope + Total(prefix) + k <= limit
    <3>1. k >= 1 => k \in 1..k
      BY <2>1
    <3>2. QED
      BY <1>2, <3>1 DEF KeptItems, Room
  <2>5. TruncatedListSize(items, k) = ListEnvelope + Total(prefix) + Commas(k)
    BY DEF TruncatedListSize
  <2> HIDE DEF prefix
  <2>6. QED
    BY <1>2, <2>1, <2>3, <2>4, <2>5 DEF Commas, Larger, ListEnvelope
<1>3. ASSUME limit >= DictEnvelope + KeyList(Len(values))
      PROVE  LET left == TruncatedDict(values, limit)
             IN left.size + KeyList(left.dropped) <= limit + KeyList(Len(values))
  <2> DEFINE left == TruncatedDict(values, limit)
             n == Len(values)
  <2>1. n \in Nat /\ 0 \in 0..n /\ \A k \in 1..n : values[k] \in Seq(Nat)
    OBVIOUS
  <2>2. KeyList(n) \in Int /\ \A m \in 0..n : KeyList(m) \in Int /\ KeyList(m) <= KeyList(n)
    BY <2>1, KeyListGrows
  <2>3. left \in Within(limit, n)
    BY <1>3, <2>1, <2>2, DictFits DEF DictEnvelope
  <2>4. left.size \in Int /\ left.size <= limit /\ left.dropped \in 0..n
    BY <2>3 DEF Within
  <2> HIDE DEF left, n
  <2>5. left.size + KeyList(left.dropped) <= limit + KeyList(n)
    BY <2>2, <2>4
  <2>6. QED
    BY <2>5 DEF left, n
<1>4. QED
  BY <1>1, <1>2, <1>3 DEF Bounded

LEMMA CharsOf ==
  ASSUME NEW length \in Int, NEW width \in Nat
  PROVE  Chars(length, width) \in Seq(Nat)
<1>1. CASE length >= 0
  BY <1>1 DEF Chars
<1>2. CASE length < 0
  <2>1. Chars(length, width) = <<>>
    BY <1>2 DEF Chars
  <2>2. QED
    BY <2>1
<1>3. QED
  BY <1>1, <1>2

(* "The budget is measured against the JSON-serialized form" (truncation.  *)
(* py), for any limit and a string, list or dict of any size: what is left *)
(* of a result is over the limit by the quotes and the escapes of its      *)
(* characters, the blanks behind commas and the names of lost keys at      *)
(* most.                                                                   *)
THEOREM ResultsBounded == Spec => []TruncationBounded
<1>1. TruncationBounded
  <2> SUFFICES ASSUME NEW limit \in Limits, NEW n \in 0..MaxParts, NEW width \in Widths,
                      NEW sizes \in [1..n -> Sizes], NEW length \in {limit \div width + n, limit + n}
               PROVE  Bounded(limit, Chars(length, width), sizes, [k \in 1..n |-> Chars(sizes[k], width)])
    BY DEF TruncationBounded
  <2> DEFINE values == [k \in 1..n |-> Chars(sizes[k], width)]
  <2>1. limit \in Int /\ n \in Nat /\ Sizes \subseteq Nat
    BY WireAssumption
  <2>2. \A k \in 1..n : sizes[k] \in Nat
    BY <2>1
  <2>3. sizes = [k \in 1..n |-> sizes[k]]
    OBVIOUS
  <2>4. sizes \in Seq(Nat)
    BY <2>1, <2>2, <2>3
  <2>5. width \in Nat /\ length \in Int
    BY <2>1 DEF Widths
  <2>6. \A l \in Int : Chars(l, width) \in Seq(Nat)
    BY <2>5, CharsOf
  <2>7. values \in Seq(Seq(Nat))
    BY <2>1, <2>2, <2>6
  <2> HIDE DEF values
  <2>8. Bounded(limit, Chars(length, width), sizes, values)
    BY <2>1, <2>4, <2>5, <2>6, <2>7, BoundedAlways
  <2>9. QED
    BY <2>8 DEF values
<1>2. QED
  BY <1>1, PTL

LEMMA PartsKept ==
  ASSUME NEW kind, NEW parts \in Seq(Parts)
  PROVE  PartsOf(kind, parts) \in Seq({p \in Parts : p.kind = kind})
<1> DEFINE n == Len(parts)
           V == Seq({p \in Parts : p.kind = kind})
           Step(k, t) == IF parts[k].kind = kind THEN Append(t, parts[k]) ELSE t
           kept[k \in 0..n] == IF k = 0 THEN <<>> ELSE Step(k, kept[k - 1])
           F == [k \in 1..n |-> [t \in V |-> Step(k, t)]]
<1>1. n \in Nat /\ \A k \in 1..n : parts[k] \in Parts
  OBVIOUS
<1>2. <<>> \in V /\ \A k \in 1..n : \A t \in V : Step(k, t) \in V
  BY <1>1
<1>3. PartsOf(kind, parts) = kept[n]
  BY DEF PartsOf
<1> HIDE DEF Step, n, V
<1>4. \A k \in 1..n : \A t \in V : F[k][t] = Step(k, t) /\ F[k][t] \in V
  BY <1>1, <1>2
<1> HIDE DEF F
<1>5. PICK f : Loop(f, <<>>, F, n, V)
  BY <1>1, <1>2, <1>4, Recursion DEF Steps
<1>6. f = [k \in 0..n |-> IF k = 0 THEN <<>> ELSE Step(k, f[k - 1])]
  BY <1>1, <1>4, <1>5 DEF Loop
<1>7. kept = [k \in 0..n |-> IF k = 0 THEN <<>> ELSE Step(k, kept[k - 1])]
  BY <1>6
<1> HIDE DEF kept
<1> DEFINE T == {k \in 0..n : kept[k] \in V}
<1>8. 0 \in T
  BY <1>1, <1>2, <1>7
<1>9. ASSUME NEW k \in 1..n, k - 1 \in T
      PROVE  k \in T
  <2>1. k \in 0..n /\ kept[k] = Step(k, kept[k - 1])
    BY <1>1, <1>7, <1>9
  <2>2. QED
    BY <1>2, <1>9, <2>1
<1> HIDE DEF T
<1>10. \A k \in 0..n : k \in T
  BY <1>1, <1>8, <1>9, UpTo
<1>11. n \in T
  BY <1>1, <1>10
<1>12. QED
  BY <1>3, <1>11 DEF T, V

Providers == {"anthropic", "openai", "gemini"}

Changed(call, id, args, signature) == [call EXCEPT !.args = args, !.id = id, !.signature = signature]

LEMMA CallChanged ==
  ASSUME NEW i, NEW n, NEW a, NEW s, NEW id, NEW args, NEW signature
  PROVE  Changed(Call(i, n, a, s), id, args, signature) = Call(id, n, args, signature)
<1>1. [Call(i, n, a, s) EXCEPT !.args = args] = Call(i, n, args, s)
  BY DEF Call
<1>2. [Call(i, n, args, s) EXCEPT !.id = id] = Call(id, n, args, s)
  BY DEF Call
<1>3. [Call(id, n, args, s) EXCEPT !.signature = signature] = Call(id, n, args, signature)
  BY DEF Call
<1>4. Changed(Call(i, n, a, s), id, args, signature)
        = [[[Call(i, n, a, s) EXCEPT !.args = args] EXCEPT !.id = id] EXCEPT !.signature = signature]
  BY DEF Changed
<1>5. QED
  BY <1>1, <1>2, <1>3, <1>4

(* A call of a response as it is sent back.                                *)
Back(provider, p) ==
  [p EXCEPT !.args = Args(@), !.id = IF provider = "gemini" THEN <<>> ELSE @,
            !.signature = IF provider = "gemini" THEN @ ELSE NoSignature]

LEMMA CallEchoed ==
  ASSUME NEW provider \in Providers, NEW p \in Parts, p.kind = "call"
  PROVE  Sent(provider, Record(ToolCall(provider, p))) = Back(provider, p)
<1> DEFINE signature == IF provider = "gemini" THEN p.signature ELSE NoSignature
           id == IF provider = "gemini" THEN <<>> ELSE p.id
           args == Args(p.args)
<1>1. p = Call(p.id, p.name, p.args, p.signature)
  BY WireAssumption DEF Text
<1>2. Back(provider, p) = Changed(p, id, args, signature)
  BY DEF Back, Changed
<1>3. Record(ToolCall(provider, p)) = Call(p.id, p.name, args, signature)
  BY DEF ToolCall, Record
<1> HIDE DEF args, id, signature
<1>4. Changed(Call(p.id, p.name, p.args, p.signature), id, args, signature)
        = Call(id, p.name, args, signature)
  BY CallChanged
<1>5. Sent(provider, Call(p.id, p.name, args, signature)) = Call(id, p.name, args, signature)
  <2>1. CASE provider = "gemini"
    BY <2>1 DEF Sent, Call, id
  <2>2. CASE provider # "gemini"
    BY <2>2 DEF Sent, Call, id, signature
  <2>3. QED
    BY <2>1, <2>2
<1>6. QED
  BY <1>1, <1>2, <1>3, <1>4, <1>5

LEMMA ReplyEchoed ==
  ASSUME NEW provider \in Providers, NEW response, response.parts \in Seq(Parts)
  PROVE  EchoedTo(provider, response)
<1> DEFINE parts == response.parts
           calls == CallParts(parts)
           text == Joined(parts)
           made == ToolCalls(provider, parts)
           action == ModelAction(provider, response)
           turned == TurnOf(action)
           back == [k \in DOMAIN calls |-> Back(provider, calls[k])]
           said == IF text = <<>> /\ calls # <<>> THEN <<>> ELSE <<[kind |-> "text", text |-> text]>>
<1>1. calls \in Seq({p \in Parts : p.kind = "call"})
  BY PartsKept DEF CallParts
<1>2. PICK n \in Nat : n = Len(calls) /\ DOMAIN calls = 1..n
  BY <1>1
<1>3. \A k \in 1..n : calls[k] \in Parts /\ calls[k].kind = "call"
  BY <1>1, <1>2
<1>4. calls = <<>> <=> n = 0
  BY <1>1, <1>2
<1>5. made = [k \in 1..n |-> ToolCall(provider, calls[k])]
  BY <1>2 DEF ToolCalls
<1>6. action = [final |-> IsFinal(provider, response), text |-> text, calls |-> made]
  BY DEF ModelAction
<1>7. IsFinal(provider, response) => calls = <<>>
  BY DEF IsFinal
<1>8. Expected(provider, response) = said \o back
  BY DEF Expected, Joined, Back
<1>9. turned.content = text
  BY <1>6 DEF TurnOf
<1>10. turned.calls = IF IsFinal(provider, response) THEN <<>> ELSE [k \in 1..n |-> Record(made[k])]
  BY <1>5, <1>6 DEF TurnOf
<1> HIDE DEF text, back, said
<1>11. EchoedTo(provider, response) <=>
         /\ AssistantParts(provider, turned) = said \o back
         /\ ~(action.final /\ action.calls # <<>>)
  BY <1>8 DEF EchoedTo
<1> HIDE DEF calls, made, action, turned
<1>12. ASSUME NEW k \in 1..n
       PROVE  Sent(provider, Record(made[k])) = Back(provider, calls[k])
  <2>1. made[k] = ToolCall(provider, calls[k])
    BY <1>5
  <2>2. QED
    BY <1>3, <2>1, CallEchoed
<1>13. back = [k \in 1..n |-> Back(provider, calls[k])]
  BY <1>2 DEF back
<1>14. CASE n = 0
  <2>1. back = <<>> /\ made = <<>> /\ turned.calls = <<>>
    BY <1>5, <1>10, <1>13, <1>14
  <2>2. said = <<[kind |-> "text", text |-> text]>>
    BY <1>4, <1>14 DEF said
  <2>3. AssistantParts(provider, turned) = said
    BY <1>9, <2>1, <2>2 DEF AssistantParts
  <2>4. said \o back = said
    BY <2>1, <2>2
  <2>5. action.calls = <<>>
    BY <1>6, <2>1
  <2>6. QED
    BY <1>11, <2>3, <2>4, <2>5
<1>15. CASE n # 0
  <2>1. ~IsFinal(provider, response) /\ ~action.final
    BY <1>4, <1>6, <1>7, <1>15
  <2>2. turned.calls = [k \in 1..n |-> Record(made[k])]
    BY <1>10, <2>1
  <2>3. turned.calls # <<>> /\ DOMAIN turned.calls = 1..n
    BY <1>15, <2>2
  <2>4. [k \in DOMAIN turned.calls |-> Sent(provider, turned.calls[k])] = back
    BY <1>12, <1>13, <2>2, <2>3
  <2>5. Content(turned) = said
    BY <1>4, <1>9, <1>15 DEF Content, said
  <2>6. AssistantParts(provider, turned) = said \o back
    BY <2>3, <2>4, <2>5 DEF AssistantParts
  <2>7. QED
    BY <1>11, <2>1, <2>6
<1>16. QED
  BY <1>14, <1>15

(* What a provider said is what it is told it has said, for any response:  *)
(* its text, and its calls in order with their ids or signatures.          *)
THEOREM ProvidersHeard == Spec => []RepliesEchoed
<1>1. RepliesEchoed
  <2> SUFFICES ASSUME NEW provider \in Providers, NEW response \in Responses
               PROVE  EchoedTo(provider, response)
    BY DEF RepliesEchoed, Providers
  <2>1. response.parts \in Seq(Parts)
    <3>1. PICK n \in 0..MaxParts : response.parts \in [1..n -> Parts]
      BY DEF Responses
    <3>2. n \in Nat
      BY WireAssumption
    <3>3. QED
      BY <3>1, <3>2
  <2>2. QED
    BY <2>1, ReplyEchoed
<1>2. QED
  BY <1>1, PTL
=============================================================================
