-------------------------- MODULE IngestionProofs --------------------------
(***************************************************************************)
(* Machine-checked proofs about Ingestion, for every set of drafts, every  *)
(* number of concurrent loads and normalizations, every batch size, retry  *)
(* limit and fault budget.                                                 *)
(***************************************************************************)
EXTENDS Ingestion, FiniteSetTheorems, TLAPS

(* A raw in an open batch is locked: it waits to be processed and may      *)
(* still fail once more.                                                   *)
BatchIsOpen ==
  \A n \in Normalizers : \A d \in InBatch(n) :
    status[d] \in {"raw", "failed"} /\ retries[d] < MaxRetries

BatchesDisjoint ==
  \A n, m \in Normalizers : n # m => InBatch(n) \cap InBatch(m) = {}

(* Uncommitted raws are absent for everybody else, and of one load only.   *)
LoadsInsertAbsent ==
  \A l \in Loaders : load[l].phase = "inserted" =>
    /\ \A d \in load[l].drafts : status[d] = "absent"
    /\ \A m \in Loaders \ {l} :
         load[m].phase = "inserted" => load[l].drafts \cap load[m].drafts = {}

(* The uncommitted writes of t would make the tables agree.                *)
WritesAgree(t) ==
  /\ t.madeVectors \subseteq t.made
  /\ t.near \subseteq events \cup t.made
  /\ \A d \in t.todo : t.verdict[d] = "none"
  /\ \A d \in t.made : t.verdict[d] = "normalized"
  /\ \A d \in Drafts : t.verdict[d] = "normalized" =>
       \E e \in events \cup t.made : UrlOf[e] = UrlOf[d]
  /\ \A d \in Drafts : t.verdict[d] = "duplicate" =>
       \E e \in (events \cup t.made) \ {d} : Alike(d, e)

WritesMatch == \A n \in Normalizers : tx[n].phase = "working" => WritesAgree(tx[n])

IInv ==
  /\ TypeOK
  /\ BatchIsOpen
  /\ BatchesDisjoint
  /\ LoadsInsertAbsent
  /\ WritesMatch
  /\ RawsMatchEvents

-----------------------------------------------------------------------------
LEMMA NoTxType == NoTx \in TxStates
  BY DEF NoTx, TxStates

(* Concluding a raw keeps the transaction's type.                          *)
LEMMA ConcludedType ==
  ASSUME NEW t \in TxStates, NEW d \in Drafts, NEW v \in Verdicts,
         NEW counts \in BOOLEAN
  PROVE  Concluded(t, d, v, counts) \in TxStates
<1>1. [t.verdict EXCEPT ![d] = v] \in [Drafts -> Verdicts \cup {"none"}]
  BY DEF TxStates
<1>2. (IF counts THEN TRUE ELSE t.progress) \in BOOLEAN
  BY DEF TxStates
<1>3. QED
  BY <1>1, <1>2 DEF TxStates, Concluded

(* Replacing the transaction of n by one of the type keeps the table's.    *)
LEMMA TxUpdate ==
  ASSUME TypeOK, NEW n \in Normalizers, NEW t \in TxStates,
         tx' = [tx EXCEPT ![n] = t]
  PROVE  tx' \in [Normalizers -> TxStates]
  BY DEF TypeOK

LEMMA StepTypes ==
  ASSUME NEW t \in TxStates, NEW d \in Drafts, NEW b \in BOOLEAN
  PROVE  /\ \A stage \in {"novel", "distinct", "linked"} : Staged(t, stage, b) \in TxStates
         /\ \A C \in SUBSET Drafts : Judging(t, C) \in TxStates
         /\ WithTopic(t, TopicOf[d]) \in TxStates
         /\ WithEvent(t, d, b) \in TxStates
<1>1. TopicOf[d] \in Topics
  BY DEF Topics
<1>2. ASSUME NEW stage \in {"novel", "distinct", "linked"}
      PROVE  Staged(t, stage, b) \in TxStates
  BY <1>2 DEF TxStates, Staged
<1>3. ASSUME NEW C \in SUBSET Drafts PROVE Judging(t, C) \in TxStates
  BY DEF TxStates, Judging
<1>4. WithTopic(t, TopicOf[d]) \in TxStates
  BY <1>1 DEF TxStates, WithTopic
<1>5. WithEvent(t, d, b) \in TxStates
  BY DEF TxStates, WithEvent
<1>6. QED
  BY <1>2, <1>3, <1>4, <1>5

LEMMA LinkTopicType ==
  ASSUME TypeOK, NEW n \in Normalizers, NEW d \in Drafts, NEW b \in BOOLEAN,
         LinkTopic(n, d, b)
  PROVE  tx' \in [Normalizers -> TxStates]
<1>1. tx[n] \in TxStates
  BY DEF TypeOK
<1>2. PICK stage \in {"linked", "distinct"} : tx' = [tx EXCEPT ![n] = Staged(tx[n], stage, b)]
  BY DEF LinkTopic
<1>3. QED
  BY <1>1, <1>2, StepTypes, TxUpdate

LEMMA JudgeRestType ==
  ASSUME TypeOK, NEW n \in Normalizers, NEW d \in Drafts, NEW C \in SUBSET Drafts,
         JudgeRest(n, d, C)
  PROVE  tx' \in [Normalizers -> TxStates]
<1>1. tx[n] \in TxStates
  BY DEF TypeOK
<1>2. CASE LinkTopic(n, d, TRUE)
  BY <1>2, LinkTopicType
<1>3. CASE Conclude(n, d, "duplicate", TRUE)
  BY <1>1, <1>3, ConcludedType, TxUpdate DEF Conclude, Verdicts, Closed
<1>4. CASE tx' = [tx EXCEPT ![n] = Judging(tx[n], C)]
  BY <1>1, <1>4, StepTypes, TxUpdate
<1>5. QED
  BY <1>2, <1>3, <1>4 DEF JudgeRest

LEMMA OpenedType ==
  ASSUME NEW B \in SUBSET Drafts, NEW b \in BOOLEAN
  PROVE  Opened(B, b) \in TxStates
<1>1. (Cardinality(B) = Limit) \in BOOLEAN
  OBVIOUS
<1>2. QED
  BY <1>1, NoTxType DEF TxStates, Opened

-----------------------------------------------------------------------------
(* No step leaves the types, given what the batches hold.                  *)
LEMMA NextKeepsType ==
  ASSUME TypeOK, BatchIsOpen, WritesMatch, Next
  PROVE  TypeOK'
<1> USE DEF rawVars, idVars, eventVars, history
<1> /\ IsFiniteSet(Drafts) /\ Drafts \subseteq Nat
    /\ Limit \in Nat \ {0} /\ MaxRetries \in Nat \ {0}
  BY IngestionAssumption
<1>1. ASSUME NEW k \in Occasions, Spend(k) PROVE spent' \in [Occasions -> Nat]
  BY <1>1 DEF TypeOK, Spend
<1>2. ASSUME NEW l \in Loaders, LoadStep(l) PROVE TypeOK'
  <2>1. CASE CheckAbsent(l)
    <3>1. PICK D \in SUBSET Drafts :
            load' = [load EXCEPT ![l] = [phase |-> "checked",
                       drafts |-> {d \in D : status[d] = "absent"}]]
      BY <2>1 DEF CheckAbsent
    <3>2. load' \in [Loaders -> LoadStates]
      BY <3>1 DEF TypeOK, LoadStates
    <3>3. QED
      BY <2>1, <3>2, <1>1 DEF CheckAbsent, TypeOK, Occasions
  <2>2. CASE InsertRaws(l)
    <3> DEFINE D == load[l].drafts
    <3>1. D \subseteq Drafts /\ load[l] \in LoadStates
      BY DEF TypeOK, LoadStates
    <3>2. Cardinality(D) \in Nat
      BY <3>1, FS_Subset, FS_CardinalityType
    <3>3. ASSUME NEW d PROVE Cardinality({e \in D : e < d}) \in Nat
      BY <3>1, FS_Subset, FS_CardinalityType
    <3>4. id' \in [Drafts -> Nat] /\ nextId' \in Nat \ {0}
      <4> DEFINE NewId(d) == IF d \in D THEN nextId + Cardinality({e \in D : e < d})
                                        ELSE id[d]
      <4>1. ASSUME NEW d \in Drafts PROVE NewId(d) \in Nat
        <5> DEFINE before == Cardinality({e \in D : e < d})
        <5>1. before \in Nat
          BY <3>3, Zenon
        <5> HIDE DEF before
        <5>2. nextId + before \in Nat /\ id[d] \in Nat
          BY <5>1 DEF TypeOK
        <5>3. QED
          BY <5>2 DEF before
      <4>2. id' = [d \in Drafts |-> NewId(d)] /\ nextId' = nextId + Cardinality(D)
        BY <2>2 DEF InsertRaws
      <4> HIDE DEF NewId, D
      <4>3. QED
        BY <3>2, <4>1, <4>2 DEF TypeOK
    <3>5. load' \in [Loaders -> LoadStates]
      <4>1. [load[l] EXCEPT !.phase = "inserted"] \in LoadStates
        BY <3>1 DEF LoadStates
      <4>2. load' = [load EXCEPT ![l] = [load[l] EXCEPT !.phase = "inserted"]]
        BY <2>2 DEF InsertRaws
      <4>3. QED
        BY <4>1, <4>2 DEF TypeOK
    <3>6. QED
      BY <2>2, <3>4, <3>5 DEF InsertRaws, TypeOK
  <2>3. CASE LoadClash(l)
    BY <2>3 DEF LoadClash, TypeOK, NoLoad, LoadStates
  <2>4. CASE LoadFails(l)
    <3>1. load' \in [Loaders -> LoadStates] /\ id' \in [Drafts -> Nat]
      BY <2>4 DEF LoadFails, TypeOK, NoLoad, LoadStates
    <3>2. QED
      BY <2>4, <3>1, <1>1 DEF LoadFails, TypeOK, Occasions
  <2>5. CASE CommitLoad(l)
    <3>1. load' \in [Loaders -> LoadStates] /\ status' \in [Drafts -> Statuses]
      BY <2>5 DEF CommitLoad, TypeOK, NoLoad, LoadStates, Statuses
    <3>2. QED
      BY <2>5, <3>1 DEF CommitLoad, TypeOK
  <2>6. CASE EnqueueNormalize(l)
    BY <2>6 DEF EnqueueNormalize, TypeOK, NoLoad, LoadStates
  <2>7. CASE LoseNormalize(l)
    BY <2>7, <1>1 DEF LoseNormalize, TypeOK, NoLoad, LoadStates, Occasions
  <2>8. QED
    BY <1>2, <2>1, <2>2, <2>3, <2>4, <2>5, <2>6, <2>7 DEF LoadStep
<1>3. ASSUME NEW n \in Normalizers, NormalizeStep(n) PROVE TypeOK'
  <2> tx[n] \in TxStates
    BY DEF TypeOK
  <2>1. ASSUME NEW S, NEW b \in BOOLEAN, Open(n, S, b)
        PROVE  tx' \in [Normalizers -> TxStates]
    <3>1. PICK B \in SUBSET Fetchable(S) : tx' = [tx EXCEPT ![n] = Opened(B, b)]
      BY <2>1 DEF Open
    <3>2. B \in SUBSET Drafts
      BY DEF Fetchable
    <3>3. QED
      BY <3>1, <3>2, OpenedType, TxUpdate
  <2>2. ASSUME RollBack(n) PROVE tx' \in [Normalizers -> TxStates] /\ rollbacks' \in Nat
    BY <2>2, NoTxType DEF RollBack, TypeOK
  <2>3. CASE StartJob(n)
    <3>1. tx' \in [Normalizers -> TxStates]
      BY <2>3, <2>1 DEF StartJob
    <3>2. jobs' \in Nat
      BY <2>3 DEF StartJob, TypeOK
    <3>3. QED
      BY <2>3, <3>1, <3>2 DEF StartJob, Open, TypeOK
  <2>4. CASE StartManual(n)
    <3>1. tx' \in [Normalizers -> TxStates]
      BY <2>4, <2>1 DEF StartManual
    <3>2. QED
      BY <2>4, <3>1, <1>1 DEF StartManual, Open, TypeOK, Occasions
  <2>5. ASSUME NEW d \in Drafts, ProcessOne(n, d) PROVE TypeOK'
    <3>1. ASSUME NEW stage, CallLlm(n, d, stage) PROVE asked' \in [Drafts -> Nat]
      BY <3>1 DEF CallLlm, TypeOK
    <3>2. ASSUME NEW v \in Verdicts, NEW b \in BOOLEAN, Conclude(n, d, v, b)
          PROVE  tx' \in [Normalizers -> TxStates]
      BY <3>2, ConcludedType, TxUpdate DEF Conclude
    <3>3. CASE LlmFails(n, d)
      BY <3>3, <3>1, <3>2, <1>1 DEF LlmFails, Ask, CallLlm, TypeOK, Verdicts, Occasions
    <3>4. CASE NotAnEvent(n, d)
      BY <3>4, <3>1, <3>2 DEF NotAnEvent, Ask, CallLlm, TypeOK, Verdicts, Closed
    <3>5. CASE IsEvent(n, d)
      <4>1. Staged(tx[n], "novel", FALSE) \in TxStates
        BY StepTypes
      <4>2. tx' \in [Normalizers -> TxStates]
        BY <3>5, <3>2, <4>1, TxUpdate DEF IsEvent, Verdicts, Closed
      <4>3. QED
        BY <3>5, <3>1, <4>2 DEF IsEvent, Ask, CallLlm, TypeOK
    <3>6. CASE Compare(n, d)
      <4>1. PICK C \in SUBSET Near(n, d) :
              /\ JudgeRest(n, d, {e \in C : Judge[d][e] # "distinct"})
              /\ unsure' = IF C = Near(n, d) THEN unsure \ {d} ELSE unsure \cup {d}
        BY <3>6 DEF Compare
      <4>2. Near(n, d) \subseteq Drafts
        BY DEF Near, Visible, TypeOK, TxStates
      <4>3. tx' \in [Normalizers -> TxStates] /\ unsure' \subseteq Drafts
        BY <4>1, <4>2, JudgeRestType DEF TypeOK
      <4>4. QED
        BY <3>6, <4>3 DEF Compare, TypeOK
    <3>11. CASE Arbitrate(n, d)
      <4>1. PICK e \in tx[n].near : ArbiterSaysSame(n, d, e) \/ ArbiterSaysOther(n, d, e)
        BY <3>11 DEF Arbitrate
      <4>2. tx[n].near \ {e} \in SUBSET Drafts
        BY DEF TxStates
      <4>3. tx' \in [Normalizers -> TxStates] /\ asked' \in [Drafts -> Nat]
            /\ unsure' \subseteq Drafts /\ spent' \in [Occasions -> Nat]
        <5>1. asked' \in [Drafts -> Nat]
          BY <3>1, <4>1 DEF ArbiterSaysSame, ArbiterSaysOther, AskArbiter
        <5>2. CASE ArbiterSaysSame(n, d, e)
          BY <5>1, <5>2, <3>2, <1>1 DEF ArbiterSaysSame, TypeOK, Verdicts, Closed, Occasions
        <5>3. CASE ArbiterSaysOther(n, d, e)
          BY <5>1, <5>3, <4>2, JudgeRestType, <1>1 DEF ArbiterSaysOther, TypeOK, Occasions
        <5>4. QED
          BY <4>1, <5>2, <5>3
      <4>4. QED
        BY <4>1, <4>3 DEF ArbiterSaysSame, ArbiterSaysOther, AskArbiter, CallLlm, TypeOK
    <3>7. CASE CompareBlind(n, d)
      BY <3>7, LinkTopicType, <1>1 DEF CompareBlind, TypeOK, Occasions
    <3>8. CASE InsertTopic(n, d)
      BY <3>8, StepTypes, TxUpdate DEF InsertTopic, TypeOK
    <3>9. CASE InsertEvent(n, d)
      <4>1. Concluded(tx[n], d, "normalized", TRUE) \in TxStates
        BY ConcludedType DEF Verdicts, Closed
      <4>2. tx[n].vector \in BOOLEAN
        BY DEF TxStates
      <4>3. tx' \in [Normalizers -> TxStates]
        BY <3>9, <4>1, <4>2, StepTypes, TxUpdate DEF InsertEvent
      <4>4. QED
        BY <3>9, <4>3 DEF InsertEvent, TypeOK
    <3>10. QED
      BY <2>5, <3>3, <3>4, <3>5, <3>6, <3>7, <3>8, <3>9, <3>11 DEF ProcessOne
  <2>6. CASE Clash(n)
    BY <2>6, <2>2 DEF Clash, RollBack, TypeOK
  <2>7. CASE DeadlockVictim(n)
    BY <2>7, <2>2 DEF DeadlockVictim, RollBack, TypeOK
  <2>8. CASE TimesOut(n)
    BY <2>8, <2>2, <1>1 DEF TimesOut, RollBack, TypeOK, Occasions
  <2>9. CASE Crash(n)
    <3>1. tx' \in [Normalizers -> TxStates]
      BY <2>9, <2>2, NoTxType, TxUpdate DEF Crash
    <3>2. jobs' \in Nat /\ rollbacks' \in Nat
      BY <2>9 DEF Crash, RollBack, TypeOK
    <3>3. QED
      BY <2>9, <3>1, <3>2, <1>1 DEF Crash, RollBack, TypeOK, Occasions
  <2>10. CASE Commit(n)
    <3>1. events' \subseteq Drafts /\ vectors' \subseteq events' /\ topics' \subseteq Topics
      <4>1. WritesAgree(tx[n])
        BY <2>10 DEF WritesMatch, Commit
      <4>2. QED
        BY <2>10, <4>1 DEF Commit, TypeOK, TxStates, WritesAgree
    <3>2. status' \in [Drafts -> Statuses]
      BY <2>10 DEF Commit, TypeOK, TxStates, Statuses
    <3>3. ASSUME NEW d \in Drafts, tx[n].verdict[d] = "failed" PROVE retries[d] < MaxRetries
      BY <2>10, <3>3 DEF BatchIsOpen, InBatch, Commit
    <3>4. retries' \in [Drafts -> 0..MaxRetries]
      BY <2>10, <3>3 DEF Commit, RetriesAfter, TypeOK
    <3>5. AwaitsSuccessor \in TxStates
      BY NoTxType DEF AwaitsSuccessor, TxStates
    <3>6. tx' \in [Normalizers -> TxStates]
      BY <2>10, <3>5, NoTxType, TxUpdate DEF Commit
    <3>7. QED
      BY <2>10, <3>1, <3>2, <3>4, <3>6 DEF Commit, TypeOK
  <2>11. CASE EnqueueNext(n)
    BY <2>11, NoTxType, TxUpdate DEF EnqueueNext, TypeOK
  <2>12. CASE LoseNext(n)
    BY <2>12, NoTxType, TxUpdate, <1>1 DEF LoseNext, TypeOK, Occasions
  <2>13. QED
    BY <1>3, <2>3, <2>4, <2>5, <2>6, <2>7, <2>8, <2>9, <2>10, <2>11, <2>12
    DEF NormalizeStep
<1>4. CASE Backfill
  BY <1>4 DEF Backfill, TypeOK
<1>5. QED
  BY <1>2, <1>3, <1>4 DEF Next

-----------------------------------------------------------------------------
(* Loads touch only absent rows, so no batch notices them.                 *)
LEMMA LoadKeepsIInv ==
  ASSUME IInv, TypeOK', NEW l \in Loaders, LoadStep(l)
  PROVE  IInv'
<1> USE DEF rawVars, idVars, eventVars, history
<1>1. UNCHANGED <<retries, events, vectors, tx>>
  BY DEF LoadStep, CheckAbsent, InsertRaws, LoadClash, LoadFails, CommitLoad,
         EnqueueNormalize, LoseNormalize
<1>2. \A n \in Normalizers : InBatch(n)' = InBatch(n)
  BY <1>1 DEF InBatch
<1>3. \A d \in Drafts : status[d] # "absent" => status'[d] = status[d]
  <2>1. CASE CommitLoad(l)
    BY <2>1 DEF CommitLoad, IInv, TypeOK, LoadsInsertAbsent, LoadStates
  <2>2. CASE ~CommitLoad(l)
    BY <2>2 DEF LoadStep, CheckAbsent, InsertRaws, LoadClash, LoadFails,
                EnqueueNormalize, LoseNormalize
  <2>3. QED
    BY <2>1, <2>2
<1>4. \A d \in Drafts : status'[d] = status[d] \/ status'[d] = "raw"
  BY DEF LoadStep, CheckAbsent, InsertRaws, LoadClash, LoadFails, CommitLoad,
         EnqueueNormalize, LoseNormalize, IInv, TypeOK
<1>5. \A n \in Normalizers : InBatch(n) \subseteq Drafts
  BY DEF InBatch, IInv, TypeOK, TxStates
<1>6. BatchIsOpen' /\ BatchesDisjoint'
  <2>1. BatchIsOpen'
    BY <1>1, <1>2, <1>3, <1>5 DEF IInv, BatchIsOpen
  <2>2. QED
    BY <1>2, <2>1 DEF IInv, BatchesDisjoint
<1>7. LoadsInsertAbsent'
  <2>1. CASE InsertRaws(l)
    BY <2>1 DEF InsertRaws, IInv, TypeOK, LoadsInsertAbsent, LoadStates
  <2>2. CASE CommitLoad(l)
    BY <2>2 DEF CommitLoad, NoLoad, IInv, TypeOK, LoadsInsertAbsent, LoadStates
  <2>3. CASE CheckAbsent(l)
    BY <2>3 DEF CheckAbsent, IInv, TypeOK, LoadsInsertAbsent
  <2>4. CASE LoadClash(l) \/ LoadFails(l) \/ EnqueueNormalize(l) \/ LoseNormalize(l)
    BY <2>4 DEF LoadClash, LoadFails, EnqueueNormalize, LoseNormalize, NoLoad,
                IInv, TypeOK, LoadsInsertAbsent
  <2>5. QED
    BY <2>1, <2>2, <2>3, <2>4 DEF LoadStep
<1>8. WritesMatch'
  BY <1>1 DEF IInv, WritesMatch, WritesAgree
<1>9. RawsMatchEvents'
  BY <1>1, <1>3, <1>4 DEF IInv, RawsMatchEvents
<1>10. QED
  BY <1>6, <1>7, <1>8, <1>9 DEF IInv

(* What a transaction writes for itself changes no table and no batch.     *)
LEMMA OwnWritesKeepIInv ==
  ASSUME IInv, TypeOK', NEW n \in Normalizers, NEW t \in TxStates,
         tx[n].phase = "working", t.phase = "working",
         tx' = [tx EXCEPT ![n] = t],
         UNCHANGED <<status, retries, events, load>>,
         t.todo \cup {d \in Drafts : t.verdict[d] # "none"} = InBatch(n),
         WritesAgree(t)
  PROVE  IInv'
<1>1. \A m \in Normalizers : InBatch(m)' = InBatch(m)
  BY DEF InBatch, IInv, TypeOK
<1>2. BatchIsOpen' /\ BatchesDisjoint'
  BY <1>1 DEF IInv, BatchIsOpen, BatchesDisjoint
<1>3. LoadsInsertAbsent'
  BY DEF IInv, LoadsInsertAbsent
<1>4. WritesMatch'
  BY DEF IInv, TypeOK, WritesMatch, WritesAgree
<1>5. RawsMatchEvents'
  BY DEF IInv, RawsMatchEvents
<1>6. QED
  BY <1>2, <1>3, <1>4, <1>5 DEF IInv

(* The transaction of n ends without a commit.                             *)
LEMMA EndKeepsIInv ==
  ASSUME IInv, TypeOK', NEW n \in Normalizers, tx' = [tx EXCEPT ![n] = NoTx],
         UNCHANGED <<status, retries, events, load>>
  PROVE  IInv'
<1>1. \A m \in Normalizers : InBatch(m)' = IF m = n THEN {} ELSE InBatch(m)
  BY DEF InBatch, IInv, TypeOK, NoTx
<1>2. BatchIsOpen' /\ BatchesDisjoint'
  BY <1>1 DEF IInv, BatchIsOpen, BatchesDisjoint
<1>3. LoadsInsertAbsent' /\ RawsMatchEvents'
  BY DEF IInv, LoadsInsertAbsent, RawsMatchEvents
<1>4. WritesMatch'
  BY DEF IInv, TypeOK, WritesMatch, WritesAgree, NoTx
<1>5. QED
  BY <1>2, <1>3, <1>4 DEF IInv

(* SKIP LOCKED: the batch of a new transaction is nobody else's.           *)
LEMMA OpenKeepsIInv ==
  ASSUME IInv, TypeOK', NEW n \in Normalizers, NEW S \in SUBSET {"raw", "failed"},
         NEW b \in BOOLEAN, Open(n, S, b)
  PROVE  IInv'
<1> USE DEF rawVars, idVars, eventVars, history
<1>1. PICK B \in SUBSET Fetchable(S) : tx' = [tx EXCEPT ![n] = Opened(B, b)]
  BY DEF Open
<1>2. UNCHANGED <<status, retries, events, load>>
  BY DEF Open
<1>3. \A m \in Normalizers : InBatch(m)' = IF m = n THEN B ELSE InBatch(m)
  BY <1>1 DEF InBatch, IInv, TypeOK, Opened, NoTx
<1>4. \A d \in B : /\ d \in Drafts /\ status[d] \in {"raw", "failed"}
                   /\ retries[d] < MaxRetries
                   /\ \A m \in Normalizers : d \notin InBatch(m)
  BY DEF Fetchable, Locked
<1>5. BatchIsOpen' /\ BatchesDisjoint'
  BY <1>2, <1>3, <1>4 DEF IInv, BatchIsOpen, BatchesDisjoint
<1>6. LoadsInsertAbsent' /\ RawsMatchEvents'
  BY <1>2 DEF IInv, LoadsInsertAbsent, RawsMatchEvents
<1>7. WritesAgree(Opened(B, b))
  BY <1>4 DEF WritesAgree, Opened, NoTx
<1>8. WritesMatch'
  BY <1>1, <1>2, <1>7 DEF IInv, TypeOK, WritesMatch, WritesAgree
<1>9. QED
  BY <1>5, <1>6, <1>8 DEF IInv

(* The commit turns what the transaction wrote into what the tables say.   *)
LEMMA CommitKeepsIInv ==
  ASSUME IInv, TypeOK', NEW n \in Normalizers, Commit(n)
  PROVE  /\ IInv'
         /\ \A d \in Drafts : status[d] \in Closed => status'[d] = status[d]
<1> USE DEF rawVars, idVars, eventVars, history
<1>1. WritesAgree(tx[n]) /\ tx[n] \in TxStates /\ tx[n].made \subseteq Drafts
  BY DEF IInv, WritesMatch, Commit, TypeOK, TxStates
<1>2. \A m \in Normalizers : InBatch(m)' = IF m = n THEN {} ELSE InBatch(m)
  BY DEF Commit, InBatch, IInv, TypeOK, NoTx, AwaitsSuccessor
<1>3. \A d \in Drafts : tx[n].verdict[d] # "none" => d \in InBatch(n)
  BY DEF Commit, InBatch
<1>4. \A d \in Drafts : d \notin InBatch(n) =>
        status'[d] = status[d] /\ retries'[d] = retries[d]
  BY <1>3, <1>1 DEF Commit, RetriesAfter, IInv, TypeOK
<1>5. \A m \in Normalizers : InBatch(m) \subseteq Drafts
  BY DEF InBatch, IInv, TypeOK, TxStates
<1>6. BatchesDisjoint'
  BY <1>2 DEF IInv, BatchesDisjoint
<1>7. BatchIsOpen'
  BY <1>2, <1>4, <1>5 DEF IInv, BatchIsOpen, BatchesDisjoint
<1>8. \A d \in Drafts : (status[d] \in Closed \/ status[d] = "absent") => status'[d] = status[d]
  BY <1>4 DEF IInv, BatchIsOpen, Closed
<1>9. LoadsInsertAbsent'
  BY <1>8 DEF Commit, IInv, LoadsInsertAbsent, TypeOK, LoadStates
<1>10. events \subseteq events'
  BY DEF Commit
<1>11. WritesMatch'
  <2>1. ASSUME NEW m \in Normalizers, m # n, tx[m].phase = "working"
        PROVE  WritesAgree(tx[m])'
    <3>1. tx'[m] = tx[m] /\ WritesAgree(tx[m])
      BY <2>1 DEF Commit, IInv, TypeOK, WritesMatch
    <3>2. QED
      BY <3>1, <1>10 DEF WritesAgree
  <2>2. tx'[n].phase # "working"
    BY DEF Commit, IInv, TypeOK, NoTx, AwaitsSuccessor
  <2>3. QED
    BY <2>1, <2>2 DEF Commit, IInv, TypeOK, WritesMatch
<1>12. RawsMatchEvents'
  <2>1. \A d \in Drafts : status'[d] =
          IF tx[n].verdict[d] = "none" THEN status[d] ELSE tx[n].verdict[d]
    BY DEF Commit
  <2>2. events' = events \cup tx[n].made
    BY DEF Commit
  <2>3. \A d \in Drafts : d \in events' => status'[d] = "normalized"
    BY <2>1, <2>2, <1>1, <1>8 DEF IInv, RawsMatchEvents, WritesAgree, Closed
  <2>4. \A d \in Drafts : status'[d] = "normalized" =>
          \E e \in events' : UrlOf[e] = UrlOf[d]
    BY <2>1, <2>2, <1>1 DEF IInv, RawsMatchEvents, WritesAgree
  <2>5. \A d \in Drafts : status'[d] = "duplicate" =>
          \E e \in events' \ {d} : Alike(d, e)
    BY <2>1, <2>2, <1>1 DEF IInv, RawsMatchEvents, WritesAgree
  <2>6. QED
    BY <2>3, <2>4, <2>5 DEF RawsMatchEvents
<1>13. QED
  BY <1>6, <1>7, <1>8, <1>9, <1>11, <1>12 DEF IInv

-----------------------------------------------------------------------------
(* A raw concluded without an event of its own.                            *)
LEMMA ConcludeKeepsIInv ==
  ASSUME IInv, TypeOK', NEW n \in Normalizers, NEW d \in Drafts, NEW v \in Verdicts,
         NEW b \in BOOLEAN, Current(n, d), Conclude(n, d, v, b),
         UNCHANGED <<status, retries, events, load>>,
         v = "normalized" => \E e \in Visible(n) : UrlOf[e] = UrlOf[d],
         v = "duplicate" => \E e \in Visible(n) \ {d} : Alike(d, e)
  PROVE  IInv'
<1> DEFINE t == Concluded(tx[n], d, v, b)
<1>1. tx[n] \in TxStates /\ tx[n].phase = "working" /\ d \in tx[n].todo
  BY DEF IInv, TypeOK, Current
<1>2. t \in TxStates /\ tx' = [tx EXCEPT ![n] = t]
  BY <1>1, ConcludedType DEF Conclude
<1>3. /\ t.phase = "working" /\ t.todo = tx[n].todo \ {d} /\ t.near = {}
      /\ t.made = tx[n].made /\ t.madeVectors = tx[n].madeVectors
      /\ t.verdict = [tx[n].verdict EXCEPT ![d] = v]
  BY <1>1 DEF Concluded, TxStates
<1>4. tx[n].verdict \in [Drafts -> Verdicts \cup {"none"}] /\ v # "none"
      /\ tx[n].todo \subseteq Drafts
  BY <1>1 DEF TxStates, Verdicts, Closed
<1>5. WritesAgree(tx[n])
  BY <1>1 DEF IInv, WritesMatch
<1>6. WritesAgree(t)
  <2> HIDE DEF t
  <2>1. tx[n].verdict[d] = "none"
    BY <1>1, <1>5 DEF WritesAgree
  <2>2. d \notin t.made
    BY <1>3, <1>5, <2>1 DEF WritesAgree
  <2>3. \A e \in t.made : t.verdict[e] = "normalized"
    BY <1>3, <1>4, <1>5, <2>2 DEF WritesAgree
  <2>4. \A e \in Drafts : t.verdict[e] = "normalized" =>
          \E f \in events \cup t.made : UrlOf[f] = UrlOf[e]
    BY <1>3, <1>4, <1>5 DEF WritesAgree, Visible
  <2>5. \A e \in Drafts : t.verdict[e] = "duplicate" =>
          \E f \in (events \cup t.made) \ {e} : Alike(e, f)
    BY <1>3, <1>4, <1>5 DEF WritesAgree, Visible
  <2>6. QED
    BY <1>3, <1>4, <1>5, <2>3, <2>4, <2>5 DEF WritesAgree
<1>7. t.todo \cup {e \in Drafts : t.verdict[e] # "none"} = InBatch(n)
  <2> HIDE DEF t
  <2>1. InBatch(n) = tx[n].todo \cup {e \in Drafts : tx[n].verdict[e] # "none"}
    BY <1>1 DEF InBatch
  <2>2. QED
    BY <1>1, <1>3, <1>4, <2>1
<1> HIDE DEF t
<1>8. QED
  BY <1>1, <1>2, <1>3, <1>6, <1>7, OwnWritesKeepIInv

(* A step that leaves batch, verdicts and events of the transaction alone. *)
LEMMA StageKeepsIInv ==
  ASSUME IInv, TypeOK', NEW n \in Normalizers, NEW t \in TxStates,
         tx[n].phase = "working", tx' = [tx EXCEPT ![n] = t],
         UNCHANGED <<status, retries, events, load>>,
         t.phase = tx[n].phase, t.todo = tx[n].todo, t.verdict = tx[n].verdict,
         t.made = tx[n].made, t.madeVectors = tx[n].madeVectors,
         t.near \subseteq Visible(n)
  PROVE  IInv'
<1>1. WritesAgree(t)
  BY DEF IInv, WritesMatch, WritesAgree, Visible
<1>2. t.todo \cup {e \in Drafts : t.verdict[e] # "none"} = InBatch(n)
  BY DEF InBatch
<1>3. QED
  BY <1>1, <1>2, OwnWritesKeepIInv

LEMMA InsertKeepsIInv ==
  ASSUME IInv, TypeOK', NEW n \in Normalizers, NEW d \in Drafts, InsertEvent(n, d)
  PROVE  IInv'
<1> DEFINE t == Concluded(tx[n], d, "normalized", TRUE)
           u == WithEvent(t, d, tx[n].vector)
<1>1. tx[n] \in TxStates /\ tx[n].phase = "working" /\ d \in tx[n].todo
      /\ tx[n].vector \in BOOLEAN
  BY DEF IInv, TypeOK, InsertEvent, CanInsert, Current, TxStates
<1>2. t \in TxStates
  BY <1>1, ConcludedType DEF Verdicts, Closed
<1>3. u \in TxStates /\ tx' = [tx EXCEPT ![n] = u]
  BY <1>1, <1>2, StepTypes DEF InsertEvent
<1>4. /\ t.phase = "working" /\ t.todo = tx[n].todo \ {d} /\ t.near = {}
      /\ t.made = tx[n].made /\ t.madeVectors = tx[n].madeVectors
      /\ t.verdict = [tx[n].verdict EXCEPT ![d] = "normalized"]
  BY <1>1 DEF Concluded, TxStates
<1>5. /\ u.phase = "working" /\ u.todo = t.todo /\ u.verdict = t.verdict /\ u.near = {}
      /\ u.made = t.made \cup {d}
      /\ u.madeVectors \subseteq t.madeVectors \cup {d}
  <2>1. ASSUME NEW r \in TxStates, NEW b \in BOOLEAN
        PROVE  /\ WithEvent(r, d, b).phase = r.phase
               /\ WithEvent(r, d, b).todo = r.todo
               /\ WithEvent(r, d, b).near = r.near
               /\ WithEvent(r, d, b).verdict = r.verdict
               /\ WithEvent(r, d, b).made = r.made \cup {d}
               /\ WithEvent(r, d, b).madeVectors \subseteq r.madeVectors \cup {d}
    BY <2>1 DEF WithEvent, TxStates
  <2> HIDE DEF t
  <2>2. QED
    BY <1>1, <1>2, <1>4, <2>1
<1>6. tx[n].verdict \in [Drafts -> Verdicts \cup {"none"}] /\ tx[n].todo \subseteq Drafts
  BY <1>1 DEF TxStates
<1>7. WritesAgree(tx[n])
  BY <1>1 DEF IInv, WritesMatch
<1>8. WritesAgree(u)
  <2> HIDE DEF u, t
  <2>1. \A e \in u.made : u.verdict[e] = "normalized"
    BY <1>1, <1>4, <1>5, <1>6, <1>7 DEF WritesAgree
  <2>2. \A e \in Drafts : u.verdict[e] = "normalized" =>
          \E f \in events \cup u.made : UrlOf[f] = UrlOf[e]
    BY <1>4, <1>5, <1>6, <1>7 DEF WritesAgree
  <2>3. \A e \in Drafts : u.verdict[e] = "duplicate" =>
          \E f \in (events \cup u.made) \ {e} : Alike(e, f)
    BY <1>4, <1>5, <1>6, <1>7 DEF WritesAgree
  <2>4. u.madeVectors \subseteq u.made /\ u.near = {} /\ \A e \in u.todo : u.verdict[e] = "none"
    BY <1>4, <1>5, <1>6, <1>7 DEF WritesAgree
  <2>5. QED
    BY <2>1, <2>2, <2>3, <2>4 DEF WritesAgree
<1>9. u.todo \cup {e \in Drafts : u.verdict[e] # "none"} = InBatch(n)
  <2> HIDE DEF u, t
  <2>1. InBatch(n) = tx[n].todo \cup {e \in Drafts : tx[n].verdict[e] # "none"}
    BY <1>1 DEF InBatch
  <2>2. QED
    BY <1>1, <1>4, <1>5, <1>6, <2>1
<1>10. UNCHANGED <<status, retries, events, load>>
  BY DEF InsertEvent, rawVars, eventVars
<1> HIDE DEF u, t
<1>11. QED
  BY <1>1, <1>3, <1>5, <1>8, <1>9, <1>10, OwnWritesKeepIInv

(* The current raw is not an event, for its transaction or the others.     *)
LEMMA CurrentIsNoEvent ==
  ASSUME IInv, NEW n \in Normalizers, NEW d \in Drafts, Current(n, d)
  PROVE  /\ d \in InBatch(n) /\ tx[n].verdict[d] = "none"
         /\ status[d] \in {"raw", "failed"} /\ d \notin Visible(n)
<1>1. d \in InBatch(n)
  BY DEF InBatch, Current
<1>2. tx[n].verdict[d] = "none" /\ WritesAgree(tx[n])
  BY DEF IInv, WritesMatch, WritesAgree, Current
<1>3. status[d] \in {"raw", "failed"}
  BY <1>1 DEF IInv, BatchIsOpen
<1>4. QED
  BY <1>1, <1>2, <1>3 DEF IInv, RawsMatchEvents, WritesAgree, Visible

(* A step of the current raw to another stage.                             *)
LEMMA StagedKeepsIInv ==
  ASSUME IInv, TypeOK', NEW n \in Normalizers, tx[n].phase = "working",
         UNCHANGED <<status, retries, events, load>>,
         NEW stage \in {"novel", "distinct", "linked"}, NEW b \in BOOLEAN,
         tx' = [tx EXCEPT ![n] = Staged(tx[n], stage, b)]
  PROVE  IInv'
<1>1. tx[n] \in TxStates
  BY DEF IInv, TypeOK
<1>2. Staged(tx[n], stage, b) \in TxStates
  BY <1>1 DEF TxStates, Staged
<1>3. /\ Staged(tx[n], stage, b).phase = tx[n].phase
      /\ Staged(tx[n], stage, b).todo = tx[n].todo
      /\ Staged(tx[n], stage, b).verdict = tx[n].verdict
      /\ Staged(tx[n], stage, b).made = tx[n].made
      /\ Staged(tx[n], stage, b).madeVectors = tx[n].madeVectors
      /\ Staged(tx[n], stage, b).near = {}
  BY <1>1 DEF Staged, TxStates
<1>4. QED
  BY <1>2, <1>3, StageKeepsIInv

(* Judging on against events that the transaction can see.                 *)
LEMMA JudgeRestKeepsIInv ==
  ASSUME IInv, TypeOK', NEW n \in Normalizers, NEW d \in Drafts, Current(n, d),
         UNCHANGED <<status, retries, events, load>>,
         NEW C, C \subseteq Visible(n), JudgeRest(n, d, C)
  PROVE  IInv'
<1>1. tx[n] \in TxStates /\ tx[n].phase = "working" /\ Visible(n) \subseteq Drafts
  BY DEF IInv, TypeOK, Current, Visible, TxStates
<1>2. CASE LinkTopic(n, d, TRUE)
  BY <1>1, <1>2, StagedKeepsIInv DEF LinkTopic
<1>3. CASE \E e \in C : Judge[d][e] = "duplicate" /\ Conclude(n, d, "duplicate", TRUE)
  <2>1. \E e \in Visible(n) \ {d} : Alike(d, e)
    BY <1>3, CurrentIsNoEvent DEF Alike
  <2>2. QED
    BY <1>3, <2>1, ConcludeKeepsIInv DEF Verdicts, Closed
<1>4. CASE tx' = [tx EXCEPT ![n] = Judging(tx[n], C)]
  <2>1. Judging(tx[n], C) \in TxStates
    BY <1>1, StepTypes
  <2>2. /\ Judging(tx[n], C).phase = tx[n].phase
        /\ Judging(tx[n], C).todo = tx[n].todo
        /\ Judging(tx[n], C).verdict = tx[n].verdict
        /\ Judging(tx[n], C).made = tx[n].made
        /\ Judging(tx[n], C).madeVectors = tx[n].madeVectors
        /\ Judging(tx[n], C).near = C
    BY <1>1 DEF Judging, TxStates
  <2>3. QED
    BY <1>1, <1>4, <2>1, <2>2, StageKeepsIInv
<1>5. QED
  BY <1>2, <1>3, <1>4 DEF JudgeRest

(* One raw of a batch: every way _process_one can go on or end.            *)
LEMMA ProcessOneKeepsIInv ==
  ASSUME IInv, TypeOK', NEW n \in Normalizers, NEW d \in Drafts, ProcessOne(n, d)
  PROVE  IInv'
<1> USE DEF rawVars, idVars, eventVars, history
<1>1. tx[n] \in TxStates
  BY DEF IInv, TypeOK
<1>2. UNCHANGED <<status, retries, events, load>> /\ Current(n, d) /\ tx[n].phase = "working"
  BY DEF ProcessOne, LlmFails, NotAnEvent, IsEvent, Ask, CallLlm, Compare, Arbitrate,
         ArbiterSaysSame, ArbiterSaysOther, AskArbiter, CompareBlind,
         InsertTopic, InsertEvent, CanInsert, Current
<1>3. tx[n].near \subseteq Visible(n)
  BY <1>2 DEF IInv, WritesMatch, WritesAgree, Visible
<1>4. CASE LlmFails(n, d)
  BY <1>2, <1>4, ConcludeKeepsIInv DEF LlmFails, Verdicts
<1>5. CASE NotAnEvent(n, d)
  BY <1>2, <1>5, ConcludeKeepsIInv DEF NotAnEvent, Verdicts, Closed
<1>6. CASE IsEvent(n, d)
  BY <1>2, <1>6, StagedKeepsIInv, ConcludeKeepsIInv DEF IsEvent, Verdicts, Closed
<1>7. CASE Compare(n, d)
  <2>1. PICK C \in SUBSET Near(n, d) : JudgeRest(n, d, {e \in C : Judge[d][e] # "distinct"})
    BY <1>7 DEF Compare
  <2>2. {e \in C : Judge[d][e] # "distinct"} \subseteq Visible(n)
    BY DEF Near
  <2>3. QED
    BY <1>2, <2>1, <2>2, JudgeRestKeepsIInv
<1>8. CASE Arbitrate(n, d)
  <2>1. PICK e \in tx[n].near : ArbiterSaysSame(n, d, e) \/ ArbiterSaysOther(n, d, e)
    BY <1>8 DEF Arbitrate
  <2>2. CASE ArbiterSaysSame(n, d, e)
    <3>1. e \in Visible(n) \ {d} /\ Alike(d, e)
      BY <1>2, <1>3, <2>2, CurrentIsNoEvent DEF ArbiterSaysSame, AskArbiter, Alike
    <3>2. QED
      BY <1>2, <2>2, <3>1, ConcludeKeepsIInv DEF ArbiterSaysSame, Verdicts, Closed
  <2>3. CASE ArbiterSaysOther(n, d, e)
    <3>1. tx[n].near \ {e} \subseteq Visible(n)
      BY <1>3
    <3>2. QED
      BY <1>2, <2>3, <3>1, JudgeRestKeepsIInv DEF ArbiterSaysOther
  <2>4. QED
    BY <2>1, <2>2, <2>3
<1>9. CASE CompareBlind(n, d)
  BY <1>2, <1>9, StagedKeepsIInv DEF CompareBlind, LinkTopic
<1>10. CASE InsertTopic(n, d)
  <2>1. WithTopic(tx[n], TopicOf[d]) \in TxStates
    BY <1>1, StepTypes
  <2>2. /\ WithTopic(tx[n], TopicOf[d]).phase = tx[n].phase
        /\ WithTopic(tx[n], TopicOf[d]).todo = tx[n].todo
        /\ WithTopic(tx[n], TopicOf[d]).verdict = tx[n].verdict
        /\ WithTopic(tx[n], TopicOf[d]).made = tx[n].made
        /\ WithTopic(tx[n], TopicOf[d]).madeVectors = tx[n].madeVectors
        /\ WithTopic(tx[n], TopicOf[d]).near = tx[n].near
    BY <1>1 DEF WithTopic, TxStates
  <2>3. QED
    BY <1>2, <1>3, <1>10, <2>1, <2>2, StageKeepsIInv DEF InsertTopic
<1>11. CASE InsertEvent(n, d)
  BY <1>11, InsertKeepsIInv
<1>12. QED
  BY <1>4, <1>5, <1>6, <1>7, <1>8, <1>9, <1>10, <1>11 DEF ProcessOne

-----------------------------------------------------------------------------
(* Every step keeps the invariant and leaves closed raws closed.           *)
LEMMA NextKeepsIInv ==
  ASSUME IInv, Next
  PROVE  /\ IInv'
         /\ \A d \in Drafts : status[d] \in Closed => status'[d] = status[d]
<1> USE DEF rawVars, idVars, eventVars, history
<1>1. TypeOK'
  BY NextKeepsType DEF IInv
<1>2. ASSUME NEW l \in Loaders, LoadStep(l)
      PROVE  IInv' /\ \A d \in Drafts : status[d] \in Closed => status'[d] = status[d]
  <2>1. ASSUME CommitLoad(l)
        PROVE  \A d \in Drafts : status[d] \in Closed => status'[d] = status[d]
    BY <2>1 DEF CommitLoad, IInv, TypeOK, LoadsInsertAbsent, Closed
  <2>2. ASSUME ~CommitLoad(l) PROVE status' = status
    BY <1>2, <2>2 DEF LoadStep, CheckAbsent, InsertRaws, LoadClash, LoadFails,
                      EnqueueNormalize, LoseNormalize
  <2>3. QED
    BY <1>1, <1>2, <2>1, <2>2, LoadKeepsIInv
<1>3. ASSUME NEW n \in Normalizers, NormalizeStep(n)
      PROVE  IInv' /\ \A d \in Drafts : status[d] \in Closed => status'[d] = status[d]
  <2>1. CASE Commit(n)
    BY <1>1, <2>1, CommitKeepsIInv
  <2>2. CASE StartJob(n)
    <3>1. Open(n, {"raw", "failed"}, FALSE)
      BY <2>2 DEF StartJob
    <3>2. IInv'
      BY <1>1, <3>1, OpenKeepsIInv
    <3>3. status' = status
      BY <3>1 DEF Open
    <3>4. QED
      BY <3>2, <3>3
  <2>3. CASE StartManual(n)
    <3>1. PICK S \in {{"raw", "failed"}, {"failed"}} : Open(n, S, TRUE)
      BY <2>3 DEF StartManual
    <3>2. S \in SUBSET {"raw", "failed"}
      OBVIOUS
    <3>3. IInv'
      BY <1>1, <3>1, <3>2, OpenKeepsIInv
    <3>4. status' = status
      BY <3>1 DEF Open
    <3>5. QED
      BY <3>3, <3>4
  <2>4. CASE \E d \in Drafts : ProcessOne(n, d)
    <3>1. status' = status
      BY <2>4 DEF ProcessOne, LlmFails, NotAnEvent, IsEvent, Ask, CallLlm, Compare,
                  Arbitrate, ArbiterSaysSame, ArbiterSaysOther, AskArbiter, CompareBlind,
                  InsertTopic, InsertEvent
    <3>2. QED
      BY <1>1, <2>4, <3>1, ProcessOneKeepsIInv
  <2>5. CASE Clash(n) \/ DeadlockVictim(n) \/ TimesOut(n) \/ Crash(n)
             \/ EnqueueNext(n) \/ LoseNext(n)
    <3>1. tx' = [tx EXCEPT ![n] = NoTx] /\ UNCHANGED <<status, retries, events, load>>
      BY <2>5 DEF Clash, DeadlockVictim, TimesOut, Crash, RollBack, EnqueueNext, LoseNext
    <3>2. QED
      BY <1>1, <3>1, EndKeepsIInv
  <2>6. QED
    BY <1>3, <2>1, <2>2, <2>3, <2>4, <2>5 DEF NormalizeStep
<1>4. CASE Backfill
  BY <1>1, <1>4 DEF Backfill, IInv, BatchIsOpen, BatchesDisjoint, InBatch,
     LoadsInsertAbsent, WritesMatch, WritesAgree, RawsMatchEvents
<1>5. QED
  BY <1>2, <1>3, <1>4 DEF Next

LEMMA StutterKeepsIInv ==
  ASSUME IInv, UNCHANGED vars
  PROVE  IInv'
  BY DEF vars, IInv, TypeOK, BatchIsOpen, BatchesDisjoint, InBatch,
     LoadsInsertAbsent, WritesMatch, WritesAgree, RawsMatchEvents

LEMMA InitIInv == Init => IInv
<1> SUFFICES ASSUME Init PROVE IInv
  OBVIOUS
<1>1. TypeOK
  BY NoTxType, IngestionAssumption
  DEF Init, TypeOK, Statuses, NoLoad, LoadStates
<1>2. \A n \in Normalizers : InBatch(n) = {} /\ tx[n].phase = "idle"
  BY DEF Init, InBatch, NoTx
<1>3. QED
  BY <1>1, <1>2 DEF Init, IInv, BatchIsOpen, BatchesDisjoint, LoadsInsertAbsent,
     WritesMatch, RawsMatchEvents, NoLoad

LEMMA InvariantHolds == Spec => []IInv
<1>1. IInv /\ [Next]_vars => IInv'
  BY NextKeepsIInv, StutterKeepsIInv
<1>2. QED
  BY <1>1, InitIInv, PTL DEF Spec

(* Type correctness: tables, transactions and histories keep their shape   *)
(* whatever loads, batches, operators and faults do; in particular no      *)
(* retry count passes the limit.                                           *)
THEOREM TypeCorrect == Spec => []TypeOK
<1>1. IInv => TypeOK
  BY DEF IInv
<1>2. QED
  BY <1>1, InvariantHolds, PTL

(* raw_events and events agree after every commit and every rollback.      *)
THEOREM RawsAndEventsAgree == Spec => []RawsMatchEvents
<1>1. IInv => RawsMatchEvents
  BY DEF IInv
<1>2. QED
  BY <1>1, InvariantHolds, PTL

(* A closed raw is never written again, however many loads, jobs and       *)
(* operators run at once.                                                  *)
THEOREM ClosedStaysClosed == Spec => ClosedIsFinal
<1>1. IInv /\ [Next]_vars =>
        [\A d \in Drafts : status[d] \in Closed => status'[d] = status[d]]_vars
  BY NextKeepsIInv
<1>2. QED
  BY <1>1, InvariantHolds, PTL DEF Spec, ClosedIsFinal

-----------------------------------------------------------------------------
(* Primary keys.                                                           *)

(* A row that is there, if only for its own load.                          *)
Keyed(d) ==
  \/ status[d] # "absent"
  \/ \E l \in Loaders : load[l].phase = "inserted" /\ d \in load[l].drafts

KeysAreKeys ==
  /\ \A d \in Drafts : id[d] < nextId /\ (Keyed(d) => id[d] > 0)
  /\ \A d, e \in Drafts : (id[d] = id[e] /\ id[d] > 0) => d = e

(* What a raw has cost.  n has asked about d and not yet committed what    *)
(* came of it.                                                             *)
AskedIn(n, d) ==
  /\ tx[n].phase = "working"
  /\ \/ tx[n].verdict[d] # "none"
     \/ Current(n, d) /\ tx[n].stage # "next"

(* The calls n can have made about d: one until it was compared, and one   *)
(* for every candidate it need not be judged against any more.             *)
CallsIn(n, d) ==
  IF \/ tx[n].verdict[d] = "failed"
     \/ tx[n].verdict[d] = "none" /\ tx[n].stage = "novel"
    THEN 1
  ELSE IF tx[n].verdict[d] = "none" /\ tx[n].stage = "judging"
    THEN 1 + Candidates - Cardinality(tx[n].near)
  ELSE 1 + Candidates

(* What retries and rollbacks pay for.                                     *)
Paid(d) == (Candidates + 1) * rollbacks + retries[d]

(* Every call was about a raw that is closed by it, counted by a retry,    *)
(* undone by a rollback or still open.                                     *)
CallsAccountedFor ==
  /\ \A n \in Normalizers : tx[n].stage = "judging" => Cardinality(tx[n].near) <= Candidates
  /\ \A d \in Drafts :
       /\ status[d] \in Closed =>
            retries[d] < MaxRetries /\ asked[d] <= Paid(d) + 1 + Candidates
       /\ \A n \in Normalizers : AskedIn(n, d) => asked[d] <= Paid(d) + CallsIn(n, d)
       /\ (status[d] \notin Closed /\ \A n \in Normalizers : ~AskedIn(n, d)) =>
            asked[d] <= Paid(d)

(* Events in flight with a vector: inserted by n, or about to be unless n  *)
(* finds that it is a duplicate.                                           *)
Linking(n, d) ==
  /\ Current(n, d)
  /\ \/ tx[n].stage = "judging"
     \/ tx[n].stage \in {"distinct", "linked"} /\ tx[n].vector

SeenIn(n) == {d \in InBatch(n) : d \in tx[n].madeVectors \/ Linking(n, d)}

Sure == (events \cup UNION {SeenIn(n) : n \in Normalizers}) \ unsure

(* d is still to be judged against e.                                      *)
Unjudged(d, e) ==
  \E n \in Normalizers :
    Current(n, d) /\ tx[n].stage = "judging" /\ e \in tx[n].near

(* Twins that no judgement under way can still set right.                  *)
Missed(S) == AreTwins(S) /\ \A d, e \in S : ~Unjudged(d, e)

(* An event without a vector was not compared in full.                     *)
VectorlessUnsure ==
  /\ events \ vectors \subseteq unsure
  /\ \A n \in Normalizers : tx[n].phase = "working" =>
       /\ tx[n].made \ tx[n].madeVectors \subseteq unsure
       /\ \A d \in Drafts :
            (Current(n, d) /\ tx[n].stage \in {"distinct", "linked"} /\ ~tx[n].vector)
              => d \in unsure

(* One normalization compares with its own events, so it has no two missed *)
(* twins in flight; and missed twins are no more than normalizations.      *)
TwinsAccountedFor ==
  /\ VectorlessUnsure
  /\ \A n \in Normalizers : \A d, e \in SeenIn(n) \ unsure : Missed({d, e}) => d = e
  /\ \A S \in SUBSET Sure : Missed(S) => Cardinality(S) <= Cardinality(Normalizers)

-----------------------------------------------------------------------------
(* How many drafts of D come before one of them.                           *)
LEMMA PlacesDiffer ==
  ASSUME NEW D, D \subseteq Drafts, NEW d \in D
  PROVE  /\ Cardinality({x \in D : x < d}) \in Nat
         /\ Cardinality({x \in D : x < d}) < Cardinality(D)
         /\ Cardinality(D) \in Nat
         /\ \A e \in D : d < e => Cardinality({x \in D : x < d}) < Cardinality({x \in D : x < e})
<1> DEFINE Before(e) == {x \in D : x < e}
<1>1. IsFiniteSet(D) /\ D \subseteq Nat /\ Cardinality(D) \in Nat
  BY IngestionAssumption, FS_Subset, FS_CardinalityType
<1>2. ASSUME NEW e \in D PROVE IsFiniteSet(Before(e)) /\ Cardinality(Before(e)) \in Nat
  BY <1>1, FS_Subset, FS_CardinalityType
<1>3. d \notin Before(d)
  BY <1>1
<1>4. /\ IsFiniteSet(Before(d) \cup {d})
      /\ Cardinality(Before(d) \cup {d}) = Cardinality(Before(d)) + 1
  BY <1>2, <1>3, FS_AddElement
<1>5. Cardinality(Before(d) \cup {d}) <= Cardinality(D)
  BY <1>1, FS_Subset
<1>6. ASSUME NEW e \in D, d < e
      PROVE  Cardinality(Before(d)) < Cardinality(Before(e))
  <2>1. Before(d) \cup {d} \subseteq Before(e)
    <3>1. d \in Nat /\ e \in Nat /\ \A x \in D : x \in Nat
      BY <1>1
    <3>2. \A x \in D : x < d => x < e
      BY <1>6, <3>1
    <3>3. QED
      BY <1>6, <3>2
  <2>2. /\ IsFiniteSet(Before(e)) /\ Cardinality(Before(e)) \in Nat
        /\ Cardinality(Before(d)) \in Nat
    BY <1>2, <1>6
  <2> HIDE DEF Before
  <2>3. Cardinality(Before(d) \cup {d}) <= Cardinality(Before(e))
    BY <2>1, <2>2, FS_Subset
  <2>4. QED
    BY <1>4, <2>2, <2>3
<1>7. QED
  BY <1>1, <1>2, <1>4, <1>5, <1>6

LEMMA LoadKeepsKeys ==
  ASSUME IInv, KeysAreKeys, NEW l \in Loaders, LoadStep(l)
  PROVE  /\ KeysAreKeys'
         /\ \A d \in Drafts : status[d] # "absent" => id'[d] = id[d]
<1> USE DEF rawVars, idVars, eventVars, history
<1>0. /\ load \in [Loaders -> LoadStates] /\ id \in [Drafts -> Nat] /\ nextId \in Nat \ {0}
      /\ load[l] \in LoadStates /\ load[l].drafts \subseteq Drafts
  BY DEF IInv, TypeOK, LoadStates
<1>1. CASE InsertRaws(l)
  <2> DEFINE D == load[l].drafts
             place(d) == Cardinality({x \in D : x < d})
  <2>1. /\ \A d \in D : status[d] = "absent"
        /\ \A d \in Drafts : id'[d] = IF d \in D THEN nextId + place(d) ELSE id[d]
        /\ nextId' = nextId + Cardinality(D)
        /\ status' = status
    BY <1>1 DEF InsertRaws
  <2>2. \A d \in Drafts : Keyed(d)' => Keyed(d) \/ d \in D
    <3>1. \A m \in Loaders \ {l} : load'[m] = load[m]
      BY <1>0, <1>1 DEF InsertRaws
    <3>2. load'[l].drafts = D
      BY <1>0, <1>1 DEF InsertRaws, LoadStates
    <3>3. QED
      BY <2>1, <3>1, <3>2 DEF Keyed
  <2>3. \A d \in D : /\ place(d) \in Nat /\ place(d) < Cardinality(D) /\ Cardinality(D) \in Nat
                     /\ \A e \in D : d < e => place(d) < place(e)
    BY <1>0, PlacesDiffer, Zenon
  <2>4. Cardinality(D) \in Nat
    BY <1>0, IngestionAssumption, FS_Subset, FS_CardinalityType
  <2>5. \A d, e \in D : d # e => d < e \/ e < d
    <3>1. \A d \in D : d \in Nat
      BY <1>0, IngestionAssumption
    <3>2. QED
      BY <3>1
  <2> HIDE DEF D, place
  <2>6. \A d \in Drafts : id'[d] < nextId' /\ (Keyed(d)' => id'[d] > 0)
    BY <1>0, <2>1, <2>2, <2>3, <2>4 DEF KeysAreKeys
  <2>7. ASSUME NEW d \in Drafts, NEW e \in Drafts, id'[d] = id'[e], id'[d] > 0
        PROVE  d = e
    <3>1. CASE d \in D /\ e \in D
      BY <1>0, <2>1, <2>3, <2>5, <2>7, <3>1
    <3>2. CASE d \notin D /\ e \notin D
      BY <2>1, <2>7, <3>2 DEF KeysAreKeys
    <3>3. CASE (d \in D /\ e \notin D) \/ (d \notin D /\ e \in D)
      BY <1>0, <2>1, <2>3, <2>7, <3>3 DEF KeysAreKeys
    <3>4. QED
      BY <3>1, <3>2, <3>3
  <2>8. QED
    BY <2>1, <2>6, <2>7 DEF KeysAreKeys, D
<1>2. CASE LoadFails(l)
  <2>1. \A d \in Drafts :
          id'[d] = IF load[l].phase = "inserted" /\ d \in load[l].drafts THEN 0 ELSE id[d]
    BY <1>2 DEF LoadFails
  <2>2. status' = status /\ nextId' = nextId /\ load' = [load EXCEPT ![l] = NoLoad]
    BY <1>2 DEF LoadFails
  <2>3. \A d \in Drafts : Keyed(d)' =>
          Keyed(d) /\ ~(load[l].phase = "inserted" /\ d \in load[l].drafts)
    <3>1. load'[l].phase = "idle" /\ \A m \in Loaders \ {l} : load'[m] = load[m]
      BY <1>0, <2>2 DEF NoLoad
    <3>2. ASSUME NEW d \in Drafts, Keyed(d)'
          PROVE  \/ status[d] # "absent"
                 \/ \E m \in Loaders \ {l} : load[m].phase = "inserted" /\ d \in load[m].drafts
      BY <2>2, <3>1, <3>2 DEF Keyed
    <3>3. QED
      BY <3>2 DEF Keyed, IInv, LoadsInsertAbsent
  <2>4. \A d \in Drafts : id'[d] < nextId' /\ (Keyed(d)' => id'[d] > 0)
    BY <1>0, <2>1, <2>2, <2>3 DEF KeysAreKeys
  <2>5. \A d, e \in Drafts : (id'[d] = id'[e] /\ id'[d] > 0) => d = e
    BY <2>1 DEF KeysAreKeys
  <2>6. \A d \in Drafts : status[d] # "absent" => id'[d] = id[d]
    BY <2>1 DEF IInv, LoadsInsertAbsent
  <2>7. QED
    BY <2>4, <2>5, <2>6 DEF KeysAreKeys
<1>3. CASE ~InsertRaws(l) /\ ~LoadFails(l)
  <2>1. id' = id /\ nextId' = nextId
    BY <1>3 DEF LoadStep, CheckAbsent, LoadClash, CommitLoad, EnqueueNormalize, LoseNormalize
  <2>2. \A d \in Drafts : Keyed(d)' => Keyed(d)
    <3>1. CASE CommitLoad(l)
      BY <1>0, <3>1 DEF CommitLoad, Keyed, NoLoad
    <3>2. CASE ~CommitLoad(l)
      BY <1>0, <1>3, <3>2
      DEF LoadStep, CheckAbsent, LoadClash, EnqueueNormalize, LoseNormalize, Keyed, NoLoad
    <3>3. QED
      BY <3>1, <3>2
  <2>3. QED
    BY <2>1, <2>2 DEF KeysAreKeys
<1>4. QED
  BY <1>1, <1>2, <1>3

LEMMA NextKeepsKeys ==
  ASSUME IInv, KeysAreKeys, Next
  PROVE  /\ KeysAreKeys'
         /\ \A d \in Drafts : status[d] # "absent" => id'[d] = id[d]
<1> USE DEF rawVars, idVars, eventVars, history
<1>1. ASSUME NEW l \in Loaders, LoadStep(l)
      PROVE  /\ KeysAreKeys'
             /\ \A d \in Drafts : status[d] # "absent" => id'[d] = id[d]
  BY <1>1, LoadKeepsKeys
<1>2. ASSUME UNCHANGED <<id, nextId, load>>,
             \A d \in Drafts : status[d] = "absent" => status'[d] = "absent"
      PROVE  /\ KeysAreKeys'
             /\ \A d \in Drafts : status[d] # "absent" => id'[d] = id[d]
  BY <1>2 DEF KeysAreKeys, Keyed
<1>3. ASSUME NEW n \in Normalizers, Commit(n)
      PROVE  \A d \in Drafts : status[d] = "absent" => status'[d] = "absent"
  BY <1>3 DEF Commit, IInv, BatchIsOpen, InBatch
<1>4. ASSUME NEW n \in Normalizers, NormalizeStep(n), ~Commit(n)
      PROVE  UNCHANGED <<id, nextId, load, status>>
  BY <1>4 DEF NormalizeStep, StartJob, StartManual, Open, ProcessOne, LlmFails, NotAnEvent,
     IsEvent, Ask, CallLlm, Compare, Arbitrate, ArbiterSaysSame, ArbiterSaysOther, AskArbiter,
     CompareBlind, InsertTopic, InsertEvent, Clash, DeadlockVictim,
     TimesOut, Crash, RollBack, EnqueueNext, LoseNext
<1>5. ASSUME NEW n \in Normalizers, Commit(n) PROVE UNCHANGED <<id, nextId, load>>
  BY <1>5 DEF Commit
<1>6. ASSUME NEW n \in Normalizers, NormalizeStep(n)
      PROVE  /\ KeysAreKeys'
             /\ \A d \in Drafts : status[d] # "absent" => id'[d] = id[d]
  BY <1>2, <1>3, <1>4, <1>5, <1>6
<1>7. CASE Backfill
  BY <1>2, <1>7 DEF Backfill
<1>8. QED
  BY <1>1, <1>6, <1>7 DEF Next

(* One raw of a batch is current.                                          *)
LEMMA CurrentIsUnique ==
  ASSUME IInv, KeysAreKeys, NEW n \in Normalizers, NEW d \in Drafts, NEW e \in Drafts,
         Current(n, d), Current(n, e)
  PROVE  d = e
<1>1. d \in InBatch(n) /\ e \in InBatch(n)
  BY DEF Current, InBatch
<1>2. Keyed(d)
  BY <1>1 DEF IInv, BatchIsOpen, Keyed
<1>3. id[d] = id[e]
  BY DEF Current, IInv, TypeOK
<1>4. QED
  BY <1>2, <1>3 DEF KeysAreKeys

(* Rows that loads write are in no batch, and nobody but n changes what is *)
(* current in the batch of n.                                              *)
LEMMA OthersKeepCurrent ==
  ASSUME IInv, KeysAreKeys, Next, NEW n \in Normalizers, tx'[n] = tx[n]
  PROVE  \A d \in Drafts : Current(n, d)' <=> Current(n, d)
<1>1. \A d \in Drafts : status[d] # "absent" => id'[d] = id[d]
  BY NextKeepsKeys
<1>2. tx[n].phase = "working" =>
        \A d \in tx[n].todo : d \in Drafts /\ status[d] # "absent"
  BY DEF IInv, TypeOK, TxStates, BatchIsOpen, InBatch
<1>3. QED
  BY <1>1, <1>2 DEF Current

-----------------------------------------------------------------------------
(* The transaction t of n after one more step about d: the raw is done, or *)
(* goes on to another stage.                                               *)
IsDone(t, n, d) ==
  /\ t.phase = "working" /\ t.stage = "next"
  /\ t.verdict[d] # "none"
  /\ \A e \in Drafts \ {d} : t.verdict[e] = tx[n].verdict[e]
  /\ t.todo = tx[n].todo \ {d}

GoesOn(t, n) ==
  /\ t.phase = "working" /\ t.stage # "next"
  /\ t.todo = tx[n].todo /\ t.verdict = tx[n].verdict
  /\ t.made = tx[n].made /\ t.madeVectors = tx[n].madeVectors

(* ... as a duplicate or after all failed, and without an event.           *)
Closes(t, n, d, v) ==
  IsDone(t, n, d) /\ t.verdict[d] = v
  /\ t.made = tx[n].made /\ t.madeVectors = tx[n].madeVectors

(* ... after judging d up to the candidates C that are left.               *)
JudgedOn(t, n, d, C) ==
  \/ Closes(t, n, d, "duplicate")
  \/ GoesOn(t, n) /\ t.stage = "judging" /\ t.near = C
  \/ GoesOn(t, n) /\ t.stage \in {"distinct", "linked"} /\ t.vector /\ C = {}

(* Only the transaction of n changes.                                      *)
Only(n) == \A m \in Normalizers \ {n} : tx'[m] = tx[m]

LEMMA ConcludedFields ==
  ASSUME IInv, NEW n \in Normalizers, NEW d \in Drafts, Current(n, d),
         NEW v \in Verdicts, NEW counts \in BOOLEAN
  PROVE  LET t == Concluded(tx[n], d, v, counts)
         IN  t \in TxStates /\ Closes(t, n, d, v)
<1> DEFINE t == Concluded(tx[n], d, v, counts)
<1>1. tx[n] \in TxStates /\ tx[n].phase = "working"
  BY DEF IInv, TypeOK, Current
<1>2. t \in TxStates
  BY <1>1, ConcludedType
<1>3. /\ t.phase = "working" /\ t.stage = "next" /\ t.todo = tx[n].todo \ {d}
      /\ t.made = tx[n].made /\ t.madeVectors = tx[n].madeVectors
      /\ t.verdict = [tx[n].verdict EXCEPT ![d] = v]
  BY <1>1 DEF Concluded, TxStates
<1>4. tx[n].verdict \in [Drafts -> Verdicts \cup {"none"}] /\ v # "none"
  BY <1>1 DEF TxStates, Verdicts, Closed
<1> HIDE DEF t
<1>5. Closes(t, n, d, v)
  BY <1>3, <1>4 DEF Closes, IsDone
<1>6. QED
  BY <1>2, <1>5 DEF t

LEMMA ConcludeFields ==
  ASSUME IInv, NEW n \in Normalizers, NEW d \in Drafts, Current(n, d),
         NEW v \in Verdicts, NEW b \in BOOLEAN, Conclude(n, d, v, b)
  PROVE  Only(n) /\ Closes(tx'[n], n, d, v)
BY ConcludedFields DEF Conclude, Only, IInv, TypeOK

LEMMA StagedFields ==
  ASSUME IInv, NEW n \in Normalizers, tx[n].phase = "working",
         NEW stage \in {"novel", "distinct", "linked"}, NEW b \in BOOLEAN,
         tx' = [tx EXCEPT ![n] = Staged(tx[n], stage, b)]
  PROVE  Only(n) /\ GoesOn(tx'[n], n) /\ tx'[n].stage = stage /\ tx'[n].vector = b
<1>1. tx[n] \in TxStates
  BY DEF IInv, TypeOK
<1>2. /\ GoesOn(Staged(tx[n], stage, b), n)
      /\ Staged(tx[n], stage, b).stage = stage /\ Staged(tx[n], stage, b).vector = b
  BY <1>1 DEF Staged, TxStates, GoesOn
<1>3. QED
  BY <1>2 DEF Only, IInv, TypeOK

LEMMA LinkTopicFields ==
  ASSUME IInv, NEW n \in Normalizers, NEW d \in Drafts, tx[n].phase = "working",
         NEW b \in BOOLEAN, LinkTopic(n, d, b)
  PROVE  /\ Only(n) /\ GoesOn(tx'[n], n)
         /\ tx'[n].stage \in {"distinct", "linked"} /\ tx'[n].vector = b
<1>1. PICK stage \in {"linked", "distinct"} : tx' = [tx EXCEPT ![n] = Staged(tx[n], stage, b)]
  BY DEF LinkTopic
<1>2. QED
  BY <1>1, StagedFields

LEMMA JudgeRestFields ==
  ASSUME IInv, NEW n \in Normalizers, NEW d \in Drafts, Current(n, d),
         NEW C, JudgeRest(n, d, C)
  PROVE  Only(n) /\ JudgedOn(tx'[n], n, d, C)
<1>1. tx[n] \in TxStates /\ tx[n].phase = "working"
  BY DEF IInv, TypeOK, Current
<1>2. CASE C = {} /\ LinkTopic(n, d, TRUE)
  BY <1>1, <1>2, LinkTopicFields DEF JudgedOn
<1>3. CASE Conclude(n, d, "duplicate", TRUE)
  BY <1>3, ConcludeFields DEF JudgedOn, Verdicts, Closed
<1>4. CASE tx' = [tx EXCEPT ![n] = Judging(tx[n], C)]
  <2>1. /\ GoesOn(Judging(tx[n], C), n)
        /\ Judging(tx[n], C).stage = "judging" /\ Judging(tx[n], C).near = C
    BY <1>1 DEF Judging, TxStates, GoesOn
  <2>2. QED
    BY <1>4, <2>1 DEF JudgedOn, Only, IInv, TypeOK
<1>5. QED
  BY <1>2, <1>3, <1>4 DEF JudgeRest

(* The steps of _process_one, by what they do to the transaction.          *)
LEMMA AskFields ==
  ASSUME IInv, NEW n \in Normalizers, NEW d \in Drafts,
         LlmFails(n, d) \/ NotAnEvent(n, d) \/ IsEvent(n, d)
  PROVE  /\ Current(n, d) /\ Only(n) /\ tx[n].stage = "next"
         /\ \/ \E v \in Verdicts : Closes(tx'[n], n, d, v)
            \/ GoesOn(tx'[n], n) /\ tx'[n].stage = "novel"
         /\ asked' = [asked EXCEPT ![d] = @ + 1] /\ unsure' = unsure
<1>1. /\ Current(n, d) /\ tx[n].stage = "next" /\ tx[n].phase = "working"
      /\ asked' = [asked EXCEPT ![d] = @ + 1] /\ unsure' = unsure
  BY DEF LlmFails, NotAnEvent, IsEvent, Ask, CallLlm, Current
<1>2. CASE \E v \in Verdicts, b \in BOOLEAN : Conclude(n, d, v, b)
  BY <1>1, <1>2, ConcludeFields
<1>3. CASE tx' = [tx EXCEPT ![n] = Staged(tx[n], "novel", FALSE)]
  BY <1>1, <1>3, StagedFields
<1>4. QED
  BY <1>2, <1>3 DEF LlmFails, NotAnEvent, IsEvent, Verdicts, Closed

LEMMA CompareFields ==
  ASSUME IInv, NEW n \in Normalizers, NEW d \in Drafts, Compare(n, d)
  PROVE  /\ Current(n, d) /\ Only(n) /\ tx[n].stage = "novel" /\ asked' = asked
         /\ \E C \in SUBSET Near(n, d) :
              /\ Cardinality(C) <= Candidates
              /\ JudgedOn(tx'[n], n, d, {e \in C : Judge[d][e] # "distinct"})
              /\ unsure' = IF C = Near(n, d) THEN unsure \ {d} ELSE unsure \cup {d}
<1>1. Current(n, d) /\ tx[n].stage = "novel" /\ asked' = asked
  BY DEF Compare
<1>2. PICK C \in SUBSET Near(n, d) :
        /\ Cardinality(C) <= Candidates
        /\ JudgeRest(n, d, {e \in C : Judge[d][e] # "distinct"})
        /\ unsure' = IF C = Near(n, d) THEN unsure \ {d} ELSE unsure \cup {d}
  BY DEF Compare, AreCandidates
<1>3. Only(n) /\ JudgedOn(tx'[n], n, d, {e \in C : Judge[d][e] # "distinct"})
  BY <1>1, <1>2, JudgeRestFields
<1>4. QED
  BY <1>1, <1>2, <1>3

LEMMA ArbitrateFields ==
  ASSUME IInv, NEW n \in Normalizers, NEW d \in Drafts, Arbitrate(n, d)
  PROVE  /\ Current(n, d) /\ Only(n) /\ tx[n].stage = "judging"
         /\ asked' = [asked EXCEPT ![d] = @ + 1]
         /\ \E e \in tx[n].near :
              \/ Closes(tx'[n], n, d, "duplicate") /\ unsure' = unsure
              \/ /\ JudgedOn(tx'[n], n, d, tx[n].near \ {e})
                 /\ \/ StoryOf[d] # StoryOf[e] /\ unsure' = unsure
                    \/ unsure' = unsure \cup {d}
<1>1. PICK e \in tx[n].near : ArbiterSaysSame(n, d, e) \/ ArbiterSaysOther(n, d, e)
  BY DEF Arbitrate
<1>2. /\ Current(n, d) /\ tx[n].stage = "judging"
      /\ asked' = [asked EXCEPT ![d] = @ + 1]
  BY <1>1 DEF ArbiterSaysSame, ArbiterSaysOther, AskArbiter, CallLlm
<1>3. CASE ArbiterSaysSame(n, d, e)
  BY <1>2, <1>3, ConcludeFields DEF ArbiterSaysSame, Verdicts, Closed
<1>4. CASE ArbiterSaysOther(n, d, e)
  <2>1. Only(n) /\ JudgedOn(tx'[n], n, d, tx[n].near \ {e})
    BY <1>2, <1>4, JudgeRestFields DEF ArbiterSaysOther
  <2>2. QED
    BY <1>2, <1>4, <2>1 DEF ArbiterSaysOther
<1>5. QED
  BY <1>1, <1>3, <1>4

LEMMA BlindFields ==
  ASSUME IInv, NEW n \in Normalizers, NEW d \in Drafts, CompareBlind(n, d)
  PROVE  /\ Current(n, d) /\ Only(n) /\ tx[n].stage = "novel"
         /\ GoesOn(tx'[n], n) /\ tx'[n].stage \in {"distinct", "linked"}
         /\ asked' = asked /\ unsure' = unsure \cup {d}
BY LinkTopicFields DEF CompareBlind, Current

LEMMA TopicFields ==
  ASSUME IInv, NEW n \in Normalizers, NEW d \in Drafts, InsertTopic(n, d)
  PROVE  /\ Current(n, d) /\ Only(n) /\ tx[n].stage = "distinct"
         /\ GoesOn(tx'[n], n) /\ tx'[n].stage = "linked" /\ tx'[n].vector = tx[n].vector
         /\ asked' = asked /\ unsure' = unsure
<1> DEFINE t == WithTopic(tx[n], TopicOf[d])
<1>1. /\ Current(n, d) /\ tx[n].stage = "distinct" /\ tx' = [tx EXCEPT ![n] = t]
      /\ asked' = asked /\ unsure' = unsure
  BY DEF InsertTopic, CanInsert, history
<1>2. tx[n] \in TxStates /\ tx[n].phase = "working"
  BY <1>1 DEF IInv, TypeOK, Current
<1>3. GoesOn(t, n) /\ t.stage = "linked" /\ t.vector = tx[n].vector
  BY <1>2 DEF WithTopic, TxStates, GoesOn
<1> HIDE DEF t
<1>4. QED
  BY <1>1, <1>3 DEF Only, IInv, TypeOK

LEMMA EventFields ==
  ASSUME IInv, NEW n \in Normalizers, NEW d \in Drafts, InsertEvent(n, d)
  PROVE  /\ Current(n, d) /\ Only(n) /\ tx[n].stage = "linked"
         /\ IsDone(tx'[n], n, d) /\ tx'[n].verdict[d] = "normalized"
         /\ tx'[n].made = tx[n].made \cup {d}
         /\ tx'[n].madeVectors = IF tx[n].vector THEN tx[n].madeVectors \cup {d}
                                                 ELSE tx[n].madeVectors
         /\ asked' = asked /\ unsure' = unsure
<1> DEFINE c == Concluded(tx[n], d, "normalized", TRUE)
           t == WithEvent(c, d, tx[n].vector)
<1>1. /\ Current(n, d) /\ tx[n].stage = "linked" /\ tx' = [tx EXCEPT ![n] = t]
      /\ asked' = asked /\ unsure' = unsure
  BY DEF InsertEvent, CanInsert, history
<1>2. c \in TxStates /\ Closes(c, n, d, "normalized")
  BY <1>1, ConcludedFields DEF Verdicts, Closed
<1> HIDE DEF c
<1>3. /\ t.phase = c.phase /\ t.stage = c.stage /\ t.verdict = c.verdict /\ t.todo = c.todo
      /\ t.made = c.made \cup {d}
      /\ t.madeVectors = IF tx[n].vector THEN c.madeVectors \cup {d} ELSE c.madeVectors
  BY <1>2 DEF WithEvent, TxStates
<1> HIDE DEF t
<1>4. QED
  BY <1>1, <1>2, <1>3 DEF Closes, IsDone, Only, IInv, TypeOK

-----------------------------------------------------------------------------
(* LLM calls.                                                              *)

(* The price of one normalization, paid once more.                         *)
LEMMA Product ==
  ASSUME NEW c \in Nat, NEW r \in Nat
  PROVE  /\ (c + 1) * r \in Nat
         /\ (c + 1) * (r + 1) = (c + 1) * r + c + 1
         /\ (c + 1) * r = c * r + r
         /\ c * (r + 1) = c * r + c
  OBVIOUS

LEMMA CostTypes ==
  ASSUME IInv, NEW d \in Drafts
  PROVE  /\ Paid(d) \in Nat /\ asked[d] \in Nat /\ retries[d] \in Nat
         /\ Candidates \in Nat /\ MaxRetries \in Nat /\ rollbacks \in Nat
<1>1. /\ asked[d] \in Nat /\ retries[d] \in Nat /\ rollbacks \in Nat
      /\ Candidates \in Nat /\ MaxRetries \in Nat
  BY IngestionAssumption DEF IInv, TypeOK
<1>2. (Candidates + 1) * rollbacks \in Nat
  BY <1>1, Product
<1>3. QED
  BY <1>1, <1>2 DEF Paid

(* An open batch's rows have not been charged by their status, and no two  *)
(* normalizations have asked about the same raw.                           *)
LEMMA AskedIsOpen ==
  ASSUME IInv, NEW n \in Normalizers, NEW d \in Drafts, AskedIn(n, d)
  PROVE  d \in InBatch(n) /\ status[d] \in {"raw", "failed"} /\ retries[d] < MaxRetries
<1>1. d \in InBatch(n)
  BY DEF AskedIn, InBatch, Current
<1>2. QED
  BY <1>1 DEF IInv, BatchIsOpen

LEMMA AskedByOne ==
  ASSUME IInv, NEW n \in Normalizers, NEW d \in Drafts, d \in InBatch(n)
  PROVE  \A m \in Normalizers \ {n} : ~AskedIn(m, d)
BY AskedIsOpen DEF IInv, BatchesDisjoint

(* Steps of others leave what n has asked alone.                           *)
LEMMA OthersKeepAsked ==
  ASSUME IInv, KeysAreKeys, Next, NEW n \in Normalizers, tx'[n] = tx[n]
  PROVE  \A d \in Drafts : (AskedIn(n, d)' <=> AskedIn(n, d)) /\ CallsIn(n, d)' = CallsIn(n, d)
BY OthersKeepCurrent DEF AskedIn, CallsIn

(* The current raw has no verdict yet.                                     *)
LEMMA CurrentIsOpen ==
  ASSUME IInv, NEW n \in Normalizers, NEW d \in Drafts, Current(n, d)
  PROVE  /\ tx[n].verdict[d] = "none" /\ d \in InBatch(n) /\ status[d] \notin Closed
         /\ tx[n].phase = "working" /\ tx[n] \in TxStates
BY CurrentIsNoEvent DEF Closed, Current, IInv, TypeOK

(* A step about d keeps the accounts when d is not overcharged.            *)
LEMMA OneRawKeepsCost ==
  ASSUME IInv, KeysAreKeys, CallsAccountedFor, Next,
         NEW n \in Normalizers, NEW d \in Drafts, Current(n, d), Only(n),
         UNCHANGED <<status, retries, rollbacks, id>>,
         \A e \in Drafts \ {d} : asked'[e] = asked[e],
         IsDone(tx'[n], n, d) \/ GoesOn(tx'[n], n),
         tx'[n].stage = "judging" => Cardinality(tx'[n].near) <= Candidates,
         asked'[d] <= Paid(d) + CallsIn(n, d)'
  PROVE  CallsAccountedFor'
<1>1. \A m \in Normalizers \ {n} : \A e \in Drafts :
        (AskedIn(m, e)' <=> AskedIn(m, e)) /\ CallsIn(m, e)' = CallsIn(m, e)
  BY OthersKeepAsked DEF Only
<1>2. d \in InBatch(n) /\ status[d] \notin Closed
  BY CurrentIsOpen
<1>3. AskedIn(n, d)'
  <2>1. CASE IsDone(tx'[n], n, d)
    BY <2>1 DEF AskedIn, IsDone
  <2>2. CASE GoesOn(tx'[n], n)
    BY <2>2 DEF AskedIn, GoesOn, Current
  <2>3. QED
    BY <2>1, <2>2
<1>4. ASSUME NEW e \in Drafts, e # d
      PROVE  /\ AskedIn(n, e)' <=> AskedIn(n, e)
             /\ AskedIn(n, e) => CallsIn(n, e)' = CallsIn(n, e)
  <2>1. ~Current(n, e)
    BY <1>4, CurrentIsUnique
  <2>2. AskedIn(n, e) <=> tx[n].verdict[e] # "none"
    BY <2>1 DEF AskedIn, Current
  <2>3. tx'[n].verdict[e] = tx[n].verdict[e] /\ tx'[n].phase = "working"
    BY <1>4 DEF IsDone, GoesOn
  <2>4. Current(n, e)' => tx'[n].stage = "next"
    BY <2>1 DEF IsDone, GoesOn, Current
  <2>5. QED
    BY <2>2, <2>3, <2>4 DEF AskedIn, CallsIn
<1>5. \A e \in Drafts : Paid(e)' = Paid(e)
  BY DEF Paid
<1>6. \A m \in Normalizers : tx'[m].stage = "judging" => Cardinality(tx'[m].near) <= Candidates
  BY DEF Only, CallsAccountedFor
<1>7. ASSUME NEW e \in Drafts
      PROVE  /\ (status[e] \in Closed)' =>
                  (retries[e] < MaxRetries)' /\ asked'[e] <= Paid(e)' + 1 + Candidates
             /\ \A m \in Normalizers : AskedIn(m, e)' => asked'[e] <= Paid(e)' + CallsIn(m, e)'
             /\ ((status[e] \notin Closed)' /\ \A m \in Normalizers : ~AskedIn(m, e)') =>
                  asked'[e] <= Paid(e)'
  <2>1. CASE e = d
    BY <1>1, <1>2, <1>3, <1>5, <2>1, AskedByOne
  <2>2. CASE e # d
    <3>1. \A m \in Normalizers : /\ AskedIn(m, e)' <=> AskedIn(m, e)
                                 /\ AskedIn(m, e) => CallsIn(m, e)' = CallsIn(m, e)
      BY <1>1, <1>4, <2>2
    <3>2. asked'[e] = asked[e] /\ status'[e] = status[e] /\ retries'[e] = retries[e]
      BY <2>2
    <3>3. QED
      BY <1>5, <3>1, <3>2 DEF CallsAccountedFor
  <2>3. QED
    BY <2>1, <2>2
<1>8. QED
  BY <1>6, <1>7 DEF CallsAccountedFor

(* What a raw judged up to the candidates C may have cost.                 *)
LEMMA JudgedOnCost ==
  ASSUME IInv, NEW n \in Normalizers, NEW d \in Drafts, Current(n, d),
         NEW C, Cardinality(C) \in Nat, Cardinality(C) <= Candidates, JudgedOn(tx'[n], n, d, C)
  PROVE  /\ IsDone(tx'[n], n, d) \/ GoesOn(tx'[n], n)
         /\ tx'[n].stage = "judging" => Cardinality(tx'[n].near) <= Candidates
         /\ CallsIn(n, d)' \in Nat /\ CallsIn(n, d)' >= 1 + Candidates - Cardinality(C)
<1>1. tx[n].verdict[d] = "none" /\ Candidates \in Nat
  BY CurrentIsOpen, CostTypes
<1>2. CASE Closes(tx'[n], n, d, "duplicate")
  BY <1>1, <1>2 DEF Closes, IsDone, CallsIn
<1>3. CASE GoesOn(tx'[n], n) /\ tx'[n].stage = "judging" /\ tx'[n].near = C
  BY <1>1, <1>3 DEF GoesOn, CallsIn
<1>4. CASE GoesOn(tx'[n], n) /\ tx'[n].stage \in {"distinct", "linked"}
  BY <1>1, <1>4 DEF GoesOn, CallsIn
<1>5. QED
  BY <1>2, <1>3, <1>4 DEF JudgedOn

LEMMA NearIsFinite ==
  ASSUME IInv, NEW n \in Normalizers
  PROVE  Cardinality(tx[n].near) \in Nat
<1>1. tx[n].near \subseteq Drafts
  BY DEF IInv, TypeOK, TxStates
<1>2. QED
  BY <1>1, IngestionAssumption, FS_Subset, FS_CardinalityType

LEMMA ProcessOneKeepsCost ==
  ASSUME IInv, KeysAreKeys, CallsAccountedFor, Next,
         NEW n \in Normalizers, NEW d \in Drafts, ProcessOne(n, d)
  PROVE  CallsAccountedFor'
<1>1. UNCHANGED <<status, retries, rollbacks, id>>
  BY DEF rawVars, idVars, eventVars, history, ProcessOne, LlmFails, NotAnEvent, IsEvent, Ask,
     CallLlm, Compare, Arbitrate, ArbiterSaysSame, ArbiterSaysOther, AskArbiter, CompareBlind,
     InsertTopic, InsertEvent
<1>2. Current(n, d)
  BY AskFields, CompareFields, ArbitrateFields, BlindFields, TopicFields, EventFields
  DEF ProcessOne
<1>3. /\ tx[n].verdict[d] = "none" /\ d \in InBatch(n) /\ status[d] \notin Closed
      /\ tx[n].phase = "working" /\ tx[n] \in TxStates
  BY <1>2, CurrentIsOpen
<1>4. /\ Paid(d) \in Nat /\ asked[d] \in Nat /\ Candidates \in Nat
      /\ asked \in [Drafts -> Nat]
  BY CostTypes DEF IInv, TypeOK
<1>5. CASE LlmFails(n, d) \/ NotAnEvent(n, d) \/ IsEvent(n, d)
  <2>1. /\ Only(n) /\ tx[n].stage = "next" /\ asked' = [asked EXCEPT ![d] = @ + 1]
        /\ \/ \E v \in Verdicts : Closes(tx'[n], n, d, v)
           \/ GoesOn(tx'[n], n) /\ tx'[n].stage = "novel"
    BY <1>5, AskFields
  <2>2. \A m \in Normalizers : ~AskedIn(m, d)
    BY <1>3, <2>1, AskedByOne DEF AskedIn
  <2>3. asked[d] <= Paid(d)
    BY <1>3, <2>2 DEF CallsAccountedFor
  <2>4. CallsIn(n, d)' \in {1, 1 + Candidates} /\ tx'[n].stage # "judging"
        /\ (IsDone(tx'[n], n, d) \/ GoesOn(tx'[n], n))
    BY <1>3, <2>1 DEF CallsIn, Closes, IsDone, GoesOn
  <2>5. asked'[d] <= Paid(d) + CallsIn(n, d)'
    BY <1>4, <2>1, <2>3, <2>4
  <2>6. QED
    BY <1>1, <1>2, <1>4, <2>1, <2>4, <2>5, OneRawKeepsCost
<1>6. CASE Compare(n, d)
  <2>1. PICK C \in SUBSET Near(n, d) :
          /\ Cardinality(C) <= Candidates
          /\ JudgedOn(tx'[n], n, d, {e \in C : Judge[d][e] # "distinct"})
    BY <1>6, CompareFields
  <2>2. Only(n) /\ tx[n].stage = "novel" /\ asked' = asked
    BY <1>6, CompareFields
  <2> DEFINE A == {e \in C : Judge[d][e] # "distinct"}
  <2>3. IsFiniteSet(C)
    <3>1. C \subseteq Drafts
      BY <1>3 DEF Near, Visible, IInv, TypeOK, TxStates
    <3>2. QED
      BY <3>1, IngestionAssumption, FS_Subset
  <2>4. Cardinality(A) \in Nat /\ Cardinality(A) <= Cardinality(C) /\ Cardinality(C) \in Nat
    BY <2>3, FS_Subset, FS_CardinalityType
  <2> HIDE DEF A
  <2>5. Cardinality(A) <= Candidates
    BY <1>4, <2>1, <2>4
  <2>6. /\ IsDone(tx'[n], n, d) \/ GoesOn(tx'[n], n)
        /\ tx'[n].stage = "judging" => Cardinality(tx'[n].near) <= Candidates
        /\ CallsIn(n, d)' \in Nat /\ CallsIn(n, d)' >= 1 + Candidates - Cardinality(A)
    BY <1>2, <2>1, <2>4, <2>5, JudgedOnCost DEF A
  <2>7. asked[d] <= Paid(d) + 1
    BY <1>2, <1>3, <2>2 DEF CallsAccountedFor, AskedIn, CallsIn
  <2>8. asked'[d] <= Paid(d) + CallsIn(n, d)'
    BY <1>4, <2>2, <2>4, <2>5, <2>6, <2>7
  <2>9. QED
    BY <1>1, <1>2, <2>2, <2>6, <2>8, OneRawKeepsCost
<1>7. CASE Arbitrate(n, d)
  <2>1. Only(n) /\ tx[n].stage = "judging" /\ asked' = [asked EXCEPT ![d] = @ + 1]
    BY <1>7, ArbitrateFields
  <2>2. PICK e \in tx[n].near : \/ Closes(tx'[n], n, d, "duplicate")
                                \/ JudgedOn(tx'[n], n, d, tx[n].near \ {e})
    BY <1>7, ArbitrateFields
  <2>3. JudgedOn(tx'[n], n, d, tx[n].near \ {e})
    BY <2>2 DEF JudgedOn
  <2>4. IsFiniteSet(tx[n].near)
    BY <1>3, IngestionAssumption, FS_Subset DEF TxStates
  <2>5. /\ Cardinality(tx[n].near) \in Nat
        /\ Cardinality(tx[n].near \ {e}) = Cardinality(tx[n].near) - 1
        /\ Cardinality(tx[n].near \ {e}) \in Nat
    BY <2>4, FS_RemoveElement, FS_CardinalityType
  <2>6. Cardinality(tx[n].near) <= Candidates
    BY <2>1 DEF CallsAccountedFor
  <2>7. Cardinality(tx[n].near \ {e}) <= Candidates
    BY <1>4, <2>5, <2>6
  <2>8. /\ IsDone(tx'[n], n, d) \/ GoesOn(tx'[n], n)
        /\ tx'[n].stage = "judging" => Cardinality(tx'[n].near) <= Candidates
        /\ CallsIn(n, d)' \in Nat
        /\ CallsIn(n, d)' >= 1 + Candidates - Cardinality(tx[n].near \ {e})
    BY <1>2, <2>3, <2>5, <2>7, JudgedOnCost
  <2>9. asked[d] <= Paid(d) + (1 + Candidates - Cardinality(tx[n].near))
    BY <1>2, <1>3, <2>1 DEF CallsAccountedFor, AskedIn, CallsIn
  <2>10. asked'[d] <= Paid(d) + CallsIn(n, d)'
    BY <1>4, <2>1, <2>5, <2>6, <2>8, <2>9
  <2>11. QED
    BY <1>1, <1>2, <1>4, <2>1, <2>8, <2>10, OneRawKeepsCost
<1>8. CASE CompareBlind(n, d) \/ InsertTopic(n, d) \/ InsertEvent(n, d)
  <2>1. /\ Only(n) /\ tx[n].stage \notin {"next", "judging"} /\ asked' = asked
        /\ \/ IsDone(tx'[n], n, d) /\ tx'[n].verdict[d] = "normalized"
           \/ GoesOn(tx'[n], n) /\ tx'[n].stage \in {"distinct", "linked"}
    BY <1>8, BlindFields, TopicFields, EventFields
  <2>2. asked[d] <= Paid(d) + 1 + Candidates
    <3>1. AskedIn(n, d) /\ CallsIn(n, d) \in {1, 1 + Candidates}
      BY <1>2, <1>3, <2>1 DEF AskedIn, CallsIn
    <3>2. asked[d] <= Paid(d) + CallsIn(n, d)
      BY <3>1 DEF CallsAccountedFor
    <3>3. QED
      BY <1>4, <3>1, <3>2
  <2>3. CallsIn(n, d)' = 1 + Candidates /\ tx'[n].stage # "judging"
    BY <1>3, <2>1 DEF CallsIn, IsDone, GoesOn
  <2>4. asked'[d] <= Paid(d) + CallsIn(n, d)'
    BY <1>4, <2>1, <2>2, <2>3
  <2>5. QED
    BY <1>1, <1>2, <2>1, <2>3, <2>4, OneRawKeepsCost
<1>9. QED
  BY <1>5, <1>6, <1>7, <1>8 DEF ProcessOne

(* A rollback pays for all it forgets.                                     *)
LEMMA EndKeepsCost ==
  ASSUME IInv, KeysAreKeys, CallsAccountedFor, Next, NEW n \in Normalizers,
         tx'[n].phase # "working", tx'[n].stage = "next", Only(n),
         UNCHANGED <<status, retries, asked>>,
         \/ tx[n].phase # "working" /\ rollbacks' = rollbacks
         \/ rollbacks' = rollbacks + 1
  PROVE  CallsAccountedFor'
<1>1. \A m \in Normalizers \ {n} : \A d \in Drafts :
        (AskedIn(m, d)' <=> AskedIn(m, d)) /\ CallsIn(m, d)' = CallsIn(m, d)
  BY OthersKeepAsked DEF Only
<1>2. \A d \in Drafts : ~AskedIn(n, d)' /\ (AskedIn(n, d) => tx[n].phase = "working")
  BY DEF AskedIn
<1>3. \A m \in Normalizers : tx'[m].stage = "judging" => Cardinality(tx'[m].near) <= Candidates
  BY DEF Only, CallsAccountedFor
<1>4. ASSUME NEW d \in Drafts
      PROVE  /\ Paid(d)' \in Nat /\ Paid(d) <= Paid(d)'
             /\ rollbacks' = rollbacks + 1 => Paid(d)' = Paid(d) + 1 + Candidates
  BY CostTypes, Product DEF Paid
<1>5. ASSUME NEW d \in Drafts
      PROVE  /\ (status[d] \in Closed)' =>
                  (retries[d] < MaxRetries)' /\ asked'[d] <= Paid(d)' + 1 + Candidates
             /\ \A m \in Normalizers : AskedIn(m, d)' => asked'[d] <= Paid(d)' + CallsIn(m, d)'
             /\ ((status[d] \notin Closed)' /\ \A m \in Normalizers : ~AskedIn(m, d)') =>
                  asked'[d] <= Paid(d)'
  <2>1. /\ Paid(d) \in Nat /\ asked[d] \in Nat /\ Candidates \in Nat
        /\ \A m \in Normalizers : AskedIn(m, d) => CallsIn(m, d) \in Int
                                                   /\ CallsIn(m, d) <= 1 + Candidates
    BY CostTypes, NearIsFinite DEF CallsIn
  <2>2. ASSUME NEW m \in Normalizers, AskedIn(m, d)' PROVE asked'[d] <= Paid(d)' + CallsIn(m, d)'
    <3>1. m # n /\ AskedIn(m, d) /\ CallsIn(m, d)' = CallsIn(m, d)
      BY <1>1, <1>2, <2>2
    <3>2. asked[d] <= Paid(d) + CallsIn(m, d)
      BY <3>1 DEF CallsAccountedFor
    <3>3. QED
      BY <1>4, <2>1, <3>1, <3>2
  <2>3. ASSUME status[d] \notin Closed, \A m \in Normalizers : ~AskedIn(m, d)'
        PROVE  asked[d] <= Paid(d)'
    <3>1. CASE AskedIn(n, d)
      <4>1. rollbacks' = rollbacks + 1 /\ asked[d] <= Paid(d) + CallsIn(n, d)
        BY <1>2, <3>1 DEF CallsAccountedFor
      <4>2. QED
        BY <1>4, <2>1, <3>1, <4>1
    <3>2. CASE ~AskedIn(n, d)
      <4>1. asked[d] <= Paid(d)
        BY <1>1, <2>3, <3>2 DEF CallsAccountedFor
      <4>2. QED
        BY <1>4, <2>1, <4>1
    <3>3. QED
      BY <3>1, <3>2
  <2>4. ASSUME status[d] \in Closed
        PROVE  retries[d] < MaxRetries /\ asked[d] <= Paid(d)' + 1 + Candidates
    <3>1. retries[d] < MaxRetries /\ asked[d] <= Paid(d) + 1 + Candidates
      BY <2>4 DEF CallsAccountedFor
    <3>2. QED
      BY <1>4, <2>1, <3>1
  <2>5. QED
    BY <2>2, <2>3, <2>4
<1>6. QED
  BY <1>3, <1>5 DEF CallsAccountedFor

(* A commit turns what was asked into a status or a retry.                 *)
LEMMA CommitKeepsCost ==
  ASSUME IInv, KeysAreKeys, CallsAccountedFor, Next, NEW n \in Normalizers, Commit(n)
  PROVE  CallsAccountedFor'
<1>1. /\ tx[n].phase = "working" /\ tx[n].todo = {}
      /\ UNCHANGED <<asked, rollbacks>>
      /\ \A d \in Drafts : status'[d] = IF tx[n].verdict[d] = "none" THEN status[d]
                                                                    ELSE tx[n].verdict[d]
      /\ \A d \in Drafts : retries'[d] = IF tx[n].verdict[d] = "failed" THEN retries[d] + 1
                                                                       ELSE retries[d]
  BY DEF Commit, RetriesAfter, history
<1>2. Only(n) /\ tx'[n].phase # "working" /\ tx'[n].stage = "next"
  BY DEF Commit, IInv, TypeOK, Only, AwaitsSuccessor, NoTx
<1>3. \A m \in Normalizers \ {n} : \A d \in Drafts :
        (AskedIn(m, d)' <=> AskedIn(m, d)) /\ CallsIn(m, d)' = CallsIn(m, d)
  BY <1>2, OthersKeepAsked DEF Only
<1>4. \A d \in Drafts : ~AskedIn(n, d)' /\ (AskedIn(n, d) <=> tx[n].verdict[d] # "none")
  BY <1>1, <1>2 DEF AskedIn, Current
<1>5. \A m \in Normalizers : tx'[m].stage = "judging" => Cardinality(tx'[m].near) <= Candidates
  BY <1>2 DEF Only, CallsAccountedFor
<1>6. ASSUME NEW d \in Drafts
      PROVE  /\ (status[d] \in Closed)' =>
                  (retries[d] < MaxRetries)' /\ asked'[d] <= Paid(d)' + 1 + Candidates
             /\ \A m \in Normalizers : AskedIn(m, d)' => asked'[d] <= Paid(d)' + CallsIn(m, d)'
             /\ ((status[d] \notin Closed)' /\ \A m \in Normalizers : ~AskedIn(m, d)') =>
                  asked'[d] <= Paid(d)'
  <2>1. CASE tx[n].verdict[d] = "none"
    <3>1. Paid(d)' = Paid(d) /\ status'[d] = status[d] /\ retries'[d] = retries[d]
      BY <1>1, <2>1 DEF Paid
    <3>2. QED
      BY <1>1, <1>3, <1>4, <2>1, <3>1 DEF CallsAccountedFor
  <2>2. CASE tx[n].verdict[d] # "none"
    <3>1. /\ AskedIn(n, d) /\ d \in InBatch(n) /\ retries[d] < MaxRetries
          /\ asked[d] <= Paid(d) + CallsIn(n, d)
      BY <1>4, <2>2, AskedIsOpen DEF CallsAccountedFor
    <3>2. \A m \in Normalizers : ~AskedIn(m, d)'
      BY <1>3, <1>4, <3>1, AskedByOne
    <3>3. /\ Paid(d) \in Nat /\ asked[d] \in Nat /\ retries[d] \in Nat
          /\ Candidates \in Nat /\ (Candidates + 1) * rollbacks \in Nat
          /\ tx[n].verdict[d] \in Closed \cup {"failed"}
      BY <2>2, CostTypes, Product DEF IInv, TypeOK, TxStates, Verdicts
    <3>4. CASE tx[n].verdict[d] = "failed"
      <4>1. CallsIn(n, d) = 1
        BY <3>4 DEF CallsIn
      <4>2. Paid(d)' = Paid(d) + 1 /\ status'[d] \notin Closed
        BY <1>1, <3>3, <3>4 DEF Paid, Closed
      <4>3. QED
        BY <1>1, <3>1, <3>2, <3>3, <4>1, <4>2
    <3>5. CASE tx[n].verdict[d] \in Closed
      <4>1. CallsIn(n, d) = 1 + Candidates
        BY <3>5 DEF CallsIn, Closed
      <4>2. Paid(d)' = Paid(d) /\ status'[d] \in Closed /\ retries'[d] = retries[d]
        BY <1>1, <3>5 DEF Paid, Closed
      <4>3. QED
        BY <1>1, <3>1, <3>2, <3>3, <4>1, <4>2
    <3>6. QED
      BY <3>3, <3>4, <3>5
  <2>3. QED
    BY <2>1, <2>2
<1>7. QED
  BY <1>5, <1>6 DEF CallsAccountedFor

LEMMA NextKeepsCost ==
  ASSUME IInv, KeysAreKeys, CallsAccountedFor, Next
  PROVE  CallsAccountedFor'
<1> USE DEF rawVars, idVars, eventVars, history
<1>1. ASSUME UNCHANGED <<retries, asked, rollbacks>>,
             \A n \in Normalizers : tx'[n] = tx[n] \/ tx'[n].stage = "next",
             \A n \in Normalizers : \A d \in Drafts :
               /\ AskedIn(n, d)' <=> AskedIn(n, d)
               /\ AskedIn(n, d) => CallsIn(n, d)' = CallsIn(n, d),
             \A d \in Drafts : status'[d] = status[d]
                                 \/ (status[d] \notin Closed /\ status'[d] \notin Closed)
      PROVE  CallsAccountedFor'
  <2>1. \A d \in Drafts : Paid(d)' = Paid(d)
    BY <1>1 DEF Paid
  <2>2. QED
    BY <1>1, <2>1 DEF CallsAccountedFor
<1>2. ASSUME NEW l \in Loaders, LoadStep(l) PROVE CallsAccountedFor'
  <2>1. UNCHANGED <<retries, asked, rollbacks, tx>>
    BY <1>2 DEF LoadStep, CheckAbsent, InsertRaws, LoadClash, LoadFails, CommitLoad,
       EnqueueNormalize, LoseNormalize
  <2>2. \A d \in Drafts : status'[d] = status[d]
                            \/ (status[d] = "absent" /\ status'[d] = "raw")
    <3>1. CASE CommitLoad(l)
      BY <3>1 DEF CommitLoad, IInv, LoadsInsertAbsent
    <3>2. CASE ~CommitLoad(l)
      BY <1>2, <3>2 DEF LoadStep, CheckAbsent, InsertRaws, LoadClash, LoadFails,
         EnqueueNormalize, LoseNormalize
    <3>3. QED
      BY <3>1, <3>2
  <2>3. \A n \in Normalizers : \A d \in Drafts :
          (AskedIn(n, d)' <=> AskedIn(n, d)) /\ CallsIn(n, d)' = CallsIn(n, d)
    BY <2>1, OthersKeepAsked
  <2>4. QED
    BY <1>1, <2>1, <2>2, <2>3 DEF Closed
<1>3. ASSUME NEW n \in Normalizers, NormalizeStep(n) PROVE CallsAccountedFor'
  <2>1. CASE StartJob(n) \/ StartManual(n)
    <3>1. PICK S \in SUBSET {"raw", "failed"}, b \in BOOLEAN : Open(n, S, b)
      <4>1. CASE StartJob(n)
        BY <4>1 DEF StartJob
      <4>2. CASE StartManual(n)
        BY <4>2 DEF StartManual
      <4>3. QED
        BY <2>1, <4>1, <4>2
    <3>2. PICK B \in SUBSET Fetchable(S) : tx' = [tx EXCEPT ![n] = Opened(B, b)]
      BY <3>1 DEF Open
    <3>3. tx[n].phase = "idle" /\ UNCHANGED <<status, retries, asked, rollbacks>>
      BY <3>1 DEF Open
    <3>4. /\ Only(n) /\ tx'[n].stage = "next"
          /\ \A d \in Drafts : tx'[n].verdict[d] = "none"
      BY <3>2 DEF IInv, TypeOK, Only, Opened, NoTx
    <3>5. \A m \in Normalizers \ {n} : \A d \in Drafts :
            (AskedIn(m, d)' <=> AskedIn(m, d)) /\ CallsIn(m, d)' = CallsIn(m, d)
      BY <3>4, OthersKeepAsked DEF Only
    <3>6. \A d \in Drafts : ~AskedIn(n, d) /\ ~AskedIn(n, d)'
      BY <3>3, <3>4 DEF AskedIn
    <3>7. QED
      BY <1>1, <3>3, <3>4, <3>5, <3>6 DEF Only
  <2>2. CASE \E d \in Drafts : ProcessOne(n, d)
    BY <2>2, ProcessOneKeepsCost
  <2>3. CASE Clash(n) \/ DeadlockVictim(n) \/ TimesOut(n) \/ Crash(n)
             \/ EnqueueNext(n) \/ LoseNext(n)
    <3>1. /\ tx' = [tx EXCEPT ![n] = NoTx] /\ UNCHANGED <<status, retries, asked>>
          /\ \/ tx[n].phase # "working" /\ rollbacks' = rollbacks
             \/ rollbacks' = rollbacks + 1
      BY <2>3 DEF Clash, DeadlockVictim, TimesOut, Crash, RollBack, EnqueueNext, LoseNext
    <3>2. tx'[n].phase # "working" /\ tx'[n].stage = "next" /\ Only(n)
      BY <3>1 DEF IInv, TypeOK, NoTx, Only
    <3>3. QED
      BY <3>1, <3>2, EndKeepsCost
  <2>4. CASE Commit(n)
    BY <2>4, CommitKeepsCost
  <2>5. QED
    BY <1>3, <2>1, <2>2, <2>3, <2>4 DEF NormalizeStep
<1>4. CASE Backfill
  <2>1. UNCHANGED <<status, retries, asked, rollbacks, tx>>
    BY <1>4 DEF Backfill
  <2>2. QED
    BY <1>1, <2>1, OthersKeepAsked
<1>5. QED
  BY <1>2, <1>3, <1>4 DEF Next

LEMMA KeysHold == Spec => []KeysAreKeys
<1>1. Init => KeysAreKeys
  BY DEF Init, KeysAreKeys, Keyed, NoLoad
<1>2. KeysAreKeys /\ UNCHANGED vars => KeysAreKeys'
  BY DEF vars, KeysAreKeys, Keyed
<1>3. QED
  BY <1>1, <1>2, NextKeepsKeys, InvariantHolds, PTL DEF Spec

(* A raw costs one LLM call per retry and, for every rollback and for the  *)
(* attempt that closes it, one and one more per candidate the arbiter is   *)
(* asked about, however many jobs, operators and faults there are.         *)
THEOREM LlmCostIsBounded == Spec => []LlmCostBounded
<1>1. Init => CallsAccountedFor
  <2> SUFFICES ASSUME Init PROVE CallsAccountedFor
    OBVIOUS
  <2>1. \A d \in Drafts : asked[d] = 0 /\ Paid(d) = 0 /\ status[d] \notin Closed
    BY IngestionAssumption DEF Init, Paid, Closed
  <2>2. \A n \in Normalizers : tx[n].stage = "next" /\ \A d \in Drafts : ~AskedIn(n, d)
    BY DEF Init, NoTx, AskedIn
  <2>3. QED
    BY <2>1, <2>2 DEF CallsAccountedFor
<1>2. CallsAccountedFor /\ UNCHANGED vars => CallsAccountedFor'
  BY DEF vars, CallsAccountedFor, Paid, CallsIn, AskedIn, Current
<1>3. IInv /\ CallsAccountedFor => LlmCostBounded
  <2> SUFFICES ASSUME IInv, CallsAccountedFor, NEW d \in Drafts
               PROVE  asked[d] <= MaxRetries + rollbacks + Candidates * (rollbacks + 1)
    BY DEF LlmCostBounded
  <2>1. /\ asked[d] \in Nat /\ Paid(d) \in Nat /\ retries[d] \in 0..MaxRetries
        /\ MaxRetries \in Nat /\ Candidates \in Nat /\ rollbacks \in Nat
    BY CostTypes DEF IInv, TypeOK
  <2>2. /\ Paid(d) = Candidates * rollbacks + rollbacks + retries[d]
        /\ Candidates * (rollbacks + 1) = Candidates * rollbacks + Candidates
        /\ Candidates * rollbacks \in Nat
    BY <2>1, Product DEF Paid
  <2>3. \A n \in Normalizers : AskedIn(n, d) =>
          /\ CallsIn(n, d) \in Int /\ CallsIn(n, d) <= 1 + Candidates
          /\ retries[d] < MaxRetries
    BY <2>1, NearIsFinite, AskedIsOpen DEF CallsIn
  <2>4. \/ asked[d] <= Paid(d)
        \/ retries[d] < MaxRetries /\ asked[d] <= Paid(d) + 1 + Candidates
    BY <2>1, <2>3 DEF CallsAccountedFor
  <2>5. QED
    BY <2>1, <2>2, <2>4
<1>4. QED
  BY <1>1, <1>2, <1>3, NextKeepsCost, KeysHold, InvariantHolds, PTL DEF Spec

-----------------------------------------------------------------------------
(* Twins.                                                                  *)

(* If every normalizer has at most one of them, there are no more of them  *)
(* than normalizers.                                                       *)
LEMMA OnePerNormalizer ==
  ASSUME NEW S, NEW G, S \subseteq UNION {G[n] : n \in Normalizers},
         \A n \in Normalizers : \A d, e \in S \cap G[n] : d = e
  PROVE  Cardinality(S) <= Cardinality(Normalizers)
<1> DEFINE f == [d \in S |-> CHOOSE n \in Normalizers : d \in G[n]]
<1>1. \A d \in S : f[d] \in Normalizers /\ d \in G[f[d]]
  OBVIOUS
<1>2. f \in Injection(S, Normalizers)
  BY <1>1 DEF Injection, IsInjective
<1> HIDE DEF f
<1>3. QED
  BY <1>2, IngestionAssumption, FS_Injection

(* The current raw of n is in nobody's flight but its own.                 *)
LEMMA CurrentIsMine ==
  ASSUME IInv, NEW n \in Normalizers, NEW d \in Drafts, Current(n, d)
  PROVE  /\ d \notin events /\ d \notin tx[n].made /\ d \notin tx[n].madeVectors
         /\ \A m \in Normalizers \ {n} : d \notin InBatch(m)
<1>1. d \in InBatch(n) /\ d \notin Visible(n)
  BY CurrentIsNoEvent
<1>2. tx[n].madeVectors \subseteq tx[n].made
  BY DEF Current, IInv, WritesMatch, WritesAgree
<1>3. QED
  BY <1>1, <1>2 DEF Visible, IInv, BatchesDisjoint

(* Steps of others leave what n has in flight alone.                       *)
LEMMA OthersKeepFlight ==
  ASSUME IInv, KeysAreKeys, Next, NEW n \in Normalizers, tx'[n] = tx[n]
  PROVE  SeenIn(n)' = SeenIn(n)
<1>1. \A d \in Drafts : Current(n, d)' <=> Current(n, d)
  BY OthersKeepCurrent
<1>2. \A d \in Drafts : Linking(n, d)' <=> Linking(n, d)
  BY <1>1 DEF Linking
<1>3. InBatch(n)' = InBatch(n) /\ InBatch(n) \subseteq Drafts
  BY DEF InBatch, IInv, TypeOK, TxStates
<1>4. QED
  BY <1>2, <1>3 DEF SeenIn

(* The accounts hold when nothing is added to what they count.             *)
LEMMA LessToMiss ==
  ASSUME TwinsAccountedFor, VectorlessUnsure',
         \A n \in Normalizers : (SeenIn(n) \ unsure)' \subseteq SeenIn(n) \ unsure,
         Sure' \subseteq Sure,
         \A d, e \in Sure' : AreTwins({d, e}) /\ Unjudged(d, e) => Unjudged(d, e)'
  PROVE  TwinsAccountedFor'
<1>1. ASSUME NEW S, S \subseteq Sure', Missed(S)' PROVE Missed(S)
  <2>1. \A d, e \in S : AreTwins({d, e})
    BY <1>1 DEF Missed, AreTwins
  <2>2. QED
    BY <1>1, <2>1 DEF Missed
<1>2. ASSUME NEW n \in Normalizers, NEW d \in SeenIn(n)' \ unsure', NEW e \in SeenIn(n)' \ unsure',
             Missed({d, e})'
      PROVE  d = e
  <2>1. d \in Sure' /\ e \in Sure'
    BY DEF Sure
  <2>2. Missed({d, e})
    BY <1>1, <1>2, <2>1
  <2>3. QED
    BY <1>2, <2>2 DEF TwinsAccountedFor
<1>3. ASSUME NEW S \in SUBSET Sure', Missed(S)'
      PROVE  Cardinality(S) <= Cardinality(Normalizers)
  BY <1>1, <1>3 DEF TwinsAccountedFor
<1>4. QED
  BY <1>2, <1>3 DEF TwinsAccountedFor

(* What others keep when n takes a step about d.                           *)
LEMMA OthersKeepTwins ==
  ASSUME IInv, KeysAreKeys, TwinsAccountedFor, Next,
         NEW n \in Normalizers, NEW d \in Drafts, Current(n, d), Only(n),
         UNCHANGED <<events, vectors>>, unsure \ {d} \subseteq unsure'
  PROVE  /\ events' \ vectors' \subseteq unsure'
         /\ \A m \in Normalizers \ {n} :
              /\ SeenIn(m)' = SeenIn(m) /\ d \notin SeenIn(m)
              /\ tx'[m].phase = "working" =>
                   /\ tx'[m].made \ tx'[m].madeVectors \subseteq unsure'
                   /\ \A e \in Drafts :
                        (Current(m, e)' /\ tx'[m].stage \in {"distinct", "linked"}
                           /\ ~tx'[m].vector) => e \in unsure'
         /\ \A e, f \in Drafts : e # d /\ Unjudged(e, f) => Unjudged(e, f)'
<1>1. /\ d \notin events /\ \A m \in Normalizers \ {n} : d \notin InBatch(m)
  BY CurrentIsMine
<1>2. events' \ vectors' \subseteq unsure'
  BY <1>1 DEF TwinsAccountedFor, VectorlessUnsure
<1>3. ASSUME NEW m \in Normalizers \ {n}
      PROVE  /\ SeenIn(m)' = SeenIn(m) /\ d \notin SeenIn(m)
             /\ tx'[m].phase = "working" =>
                  /\ tx'[m].made \ tx'[m].madeVectors \subseteq unsure'
                  /\ \A e \in Drafts :
                       (Current(m, e)' /\ tx'[m].stage \in {"distinct", "linked"}
                          /\ ~tx'[m].vector) => e \in unsure'
  <2>1. tx'[m] = tx[m] /\ SeenIn(m)' = SeenIn(m) /\ d \notin SeenIn(m)
    BY <1>1, OthersKeepFlight DEF Only, SeenIn
  <2>2. tx[m].phase = "working" => d \notin tx[m].made
    BY <1>1 DEF IInv, TypeOK, TxStates, WritesMatch, WritesAgree, InBatch
  <2>3. \A e \in Drafts : (Current(m, e)' <=> Current(m, e)) /\ (Current(m, e) => e # d)
    BY <1>1, <2>1, OthersKeepCurrent DEF Current, InBatch
  <2>4. QED
    BY <2>1, <2>2, <2>3 DEF TwinsAccountedFor, VectorlessUnsure
<1>4. ASSUME NEW e \in Drafts, NEW f \in Drafts, e # d, Unjudged(e, f)
      PROVE  Unjudged(e, f)'
  <2>1. PICK m \in Normalizers : Current(m, e) /\ tx[m].stage = "judging" /\ f \in tx[m].near
    BY <1>4 DEF Unjudged
  <2>2. m # n
    BY <1>4, <2>1, CurrentIsUnique
  <2>3. tx'[m] = tx[m] /\ Current(m, e)'
    BY <2>1, <2>2, OthersKeepCurrent DEF Only
  <2>4. QED
    BY <2>1, <2>3 DEF Unjudged
<1>5. QED
  BY <1>2, <1>3, <1>4

LEMMA SureAreDrafts ==
  ASSUME IInv
  PROVE  Sure \subseteq Drafts /\ \A n \in Normalizers : InBatch(n) \subseteq Drafts
BY DEF Sure, SeenIn, InBatch, IInv, TypeOK, TxStates

(* A step about d keeps the accounts when it makes nothing surer than it   *)
(* was and passes over no twin of a sure d.                                *)
LEMMA OneRawKeepsTwins ==
  ASSUME IInv, KeysAreKeys, TwinsAccountedFor, Next,
         NEW n \in Normalizers, NEW d \in Drafts, Current(n, d), Only(n),
         UNCHANGED <<events, vectors>>, unsure \ {d} \subseteq unsure',
         tx'[n].made \ tx'[n].madeVectors \subseteq unsure',
         \A e \in Drafts : (Current(n, e)' /\ tx'[n].stage \in {"distinct", "linked"}
                              /\ ~tx'[n].vector) => e \in unsure',
         (SeenIn(n) \ unsure)' \subseteq SeenIn(n) \ unsure,
         \A e \in Drafts : d \in (SeenIn(n) \ unsure)' /\ AreTwins({d, e}) /\ Unjudged(d, e)
                             => Unjudged(d, e)'
  PROVE  TwinsAccountedFor'
<1>1. d \notin events
  BY CurrentIsMine
<1>2. VectorlessUnsure'
  BY OthersKeepTwins DEF VectorlessUnsure
<1>3. \A m \in Normalizers : (SeenIn(m) \ unsure)' \subseteq SeenIn(m) \ unsure
  BY OthersKeepTwins
<1>4. Sure' \subseteq Sure
  BY <1>1, <1>3 DEF Sure
<1>5. ASSUME NEW x \in Sure', NEW y \in Sure', AreTwins({x, y}), Unjudged(x, y)
      PROVE  Unjudged(x, y)'
  <2>1. x \in Drafts /\ y \in Drafts
    BY <1>4, SureAreDrafts
  <2>2. CASE x # d
    BY <1>5, <2>1, <2>2, OthersKeepTwins
  <2>3. CASE x = d
    <3>1. d \in (SeenIn(n) \ unsure)'
      BY <1>1, <2>3, OthersKeepTwins DEF Sure
    <3>2. QED
      BY <1>5, <2>1, <2>3, <3>1
  <2>4. QED
    BY <2>2, <2>3
<1>6. QED
  BY <1>2, <1>3, <1>4, <1>5, LessToMiss

(* After a comparison in full every sure twin among the events, and among  *)
(* what n itself has in flight, is left to be judged; so the missed twins  *)
(* of d are in flight at other normalizations, one at each.                *)
LEMMA CompareKeepsTwins ==
  ASSUME IInv, KeysAreKeys, TwinsAccountedFor, Next,
         NEW n \in Normalizers, NEW d \in Drafts, Current(n, d), Only(n),
         UNCHANGED <<events, vectors, id>>, unsure' = unsure \ {d},
         tx[n].stage = "novel",
         GoesOn(tx'[n], n),
         LET A == {e \in Near(n, d) : Judge[d][e] # "distinct"}
         IN  \/ tx'[n].stage = "judging" /\ tx'[n].near = A
             \/ tx'[n].stage \in {"distinct", "linked"} /\ tx'[n].vector /\ A = {}
  PROVE  TwinsAccountedFor'
<1>1. d \notin events /\ d \notin tx[n].made /\ d \notin tx[n].madeVectors
      /\ tx[n].phase = "working"
  BY CurrentIsMine DEF Current
<1>2. \A e \in Drafts : Current(n, e)' <=> e = d
  <2>1. \A e \in Drafts : Current(n, e)' <=> Current(n, e)
    BY DEF GoesOn, Current
  <2>2. QED
    BY <2>1, CurrentIsUnique
<1>3. InBatch(n)' = InBatch(n) /\ InBatch(n) \subseteq Drafts
  BY <1>1, SureAreDrafts DEF InBatch, GoesOn
<1>4. SeenIn(n) \subseteq tx[n].madeVectors /\ SeenIn(n)' \subseteq SeenIn(n) \cup {d}
  <2>1. \A e \in Drafts : ~Linking(n, e) /\ (Linking(n, e)' => e = d)
    BY <1>2 DEF Linking
  <2>2. tx'[n].madeVectors = tx[n].madeVectors
    BY DEF GoesOn
  <2>3. QED
    BY <1>3, <2>1, <2>2 DEF SeenIn
<1>5. ASSUME NEW e \in (events \cup SeenIn(n)) \ unsure, AreTwins({d, e})
      PROVE  Unjudged(d, e)'
  <2>1. e \in Visible(n) \cap (vectors \cup tx[n].madeVectors)
    <3>1. tx[n].madeVectors \subseteq tx[n].made
      BY <1>1 DEF IInv, WritesMatch, WritesAgree
    <3>2. QED
      BY <1>4, <3>1 DEF Visible, TwinsAccountedFor, VectorlessUnsure
  <2>2. e # d
    BY <1>1, <1>4
  <2>3. Judge[d][e] \in {"uncertain", "duplicate"}
    BY <1>5, <2>2 DEF AreTwins, Alike
  <2>4. e \in {x \in Near(n, d) : Judge[d][x] # "distinct"}
    BY <2>1, <2>3 DEF Near
  <2>5. tx'[n].stage = "judging" /\ e \in tx'[n].near
    BY <2>4
  <2>6. QED
    BY <1>2, <2>5 DEF Unjudged
<1>6. /\ \A m \in Normalizers \ {n} : SeenIn(m)' = SeenIn(m) /\ d \notin SeenIn(m)
      /\ \A e, f \in Drafts : e # d /\ Unjudged(e, f) => Unjudged(e, f)'
  BY OthersKeepTwins
<1>7. VectorlessUnsure'
  <2>1. tx'[n].made \ tx'[n].madeVectors \subseteq unsure'
    BY <1>1 DEF GoesOn, TwinsAccountedFor, VectorlessUnsure
  <2>2. \A e \in Drafts : (Current(n, e)' /\ tx'[n].stage \in {"distinct", "linked"}
                             /\ ~tx'[n].vector) => e \in unsure'
    OBVIOUS
  <2>3. QED
    BY <2>1, <2>2, OthersKeepTwins DEF VectorlessUnsure
<1>8. ASSUME NEW S, S \subseteq Sure, d \notin S, Missed(S)' PROVE Missed(S)
  <2>1. \A x, y \in S : x \in Drafts /\ y \in Drafts /\ x # d
    BY <1>8, SureAreDrafts
  <2>2. QED
    BY <1>6, <1>8, <2>1 DEF Missed, AreTwins
<1>9. ASSUME NEW m \in Normalizers,
             NEW x \in SeenIn(m)' \ unsure', NEW y \in SeenIn(m)' \ unsure', Missed({x, y})'
      PROVE  x = y
  <2>1. CASE x # d /\ y # d
    <3>1. x \in SeenIn(m) \ unsure /\ y \in SeenIn(m) \ unsure
      BY <1>4, <1>6, <2>1
    <3>2. Missed({x, y})
      BY <1>8, <1>9, <2>1, <3>1 DEF Sure
    <3>3. QED
      BY <3>1, <3>2 DEF TwinsAccountedFor
  <2>2. ASSUME NEW z \in SeenIn(m)' \ unsure', z # d, d \in SeenIn(m)', Missed({d, z})'
        PROVE  FALSE
    <3>1. m = n /\ z \in SeenIn(n) \ unsure
      BY <1>4, <1>6, <2>2
    <3>2. AreTwins({d, z}) /\ ~Unjudged(d, z)'
      BY <2>2 DEF Missed, AreTwins
    <3>3. QED
      BY <1>5, <3>1, <3>2
  <2>3. {x, y} = {y, x}
    OBVIOUS
  <2>4. QED
    BY <1>9, <2>1, <2>2, <2>3
<1>10. ASSUME NEW S \in SUBSET Sure', Missed(S)'
       PROVE  Cardinality(S) <= Cardinality(Normalizers)
  <2>1. Sure' \subseteq Sure \cup {d}
    BY <1>4, <1>6 DEF Sure
  <2>2. CASE d \notin S
    <3>1. S \subseteq Sure /\ Missed(S)
      BY <1>8, <1>10, <2>1, <2>2
    <3>2. QED
      BY <3>1 DEF TwinsAccountedFor
  <2>3. CASE d \in S
    <3>1. \A x, y \in S : Missed({x, y})'
      BY <1>10 DEF Missed, AreTwins
    <3>2. ASSUME NEW e \in S PROVE e \notin events
      <4>1. AreTwins({d, e}) /\ ~Unjudged(d, e)'
        BY <2>3, <3>1 DEF Missed
      <4>2. e # d => e \notin unsure
        BY DEF Sure
      <4>3. QED
        BY <1>1, <1>5, <4>1, <4>2
    <3> DEFINE G == [m \in Normalizers |-> SeenIn(m)' \ unsure']
    <3>3. S \subseteq UNION {G[m] : m \in Normalizers}
      BY <3>2 DEF Sure
    <3>4. \A m \in Normalizers : \A x, y \in S \cap G[m] : x = y
      BY <1>9, <3>1
    <3> HIDE DEF G
    <3>5. QED
      BY <3>3, <3>4, OnePerNormalizer
  <2>4. QED
    BY <2>2, <2>3
<1>11. QED
  BY <1>7, <1>9, <1>10 DEF TwinsAccountedFor

(* What is in flight at n after it is done with d, or has d at a stage.    *)
LEMMA FlightAfter ==
  ASSUME IInv, KeysAreKeys, NEW n \in Normalizers, NEW d \in Drafts, Current(n, d),
         UNCHANGED id, IsDone(tx'[n], n, d) \/ GoesOn(tx'[n], n)
  PROVE  /\ \A e \in SeenIn(n)' : \/ e \in tx'[n].madeVectors
                                  \/ e = d /\ GoesOn(tx'[n], n) /\ tx'[n].stage # "novel"
         /\ \A e \in SeenIn(n)' \ {d} : e \in tx[n].madeVectors => e \in SeenIn(n)
         /\ \A e \in Drafts : Current(n, e)' /\ tx'[n].stage # "next"
                                => e = d /\ GoesOn(tx'[n], n)
         /\ Linking(n, d) => d \in SeenIn(n)
<1>1. d \in InBatch(n) /\ tx[n].phase = "working" /\ InBatch(n) \subseteq Drafts
  BY SureAreDrafts DEF Current, InBatch
<1>2. InBatch(n)' = InBatch(n)
  BY <1>1 DEF InBatch, IsDone, GoesOn
<1>3. \A e \in Drafts : Current(n, e)' /\ tx'[n].stage # "next" => e = d /\ GoesOn(tx'[n], n)
  <2>1. IsDone(tx'[n], n, d) => tx'[n].stage = "next"
    BY DEF IsDone
  <2>2. \A e \in Drafts : GoesOn(tx'[n], n) /\ Current(n, e)' => Current(n, e)
    BY DEF GoesOn, Current
  <2>3. QED
    BY <2>1, <2>2, CurrentIsUnique
<1>4. QED
  BY <1>1, <1>2, <1>3 DEF SeenIn, Linking

LEMMA ProcessOneKeepsTwins ==
  ASSUME IInv, KeysAreKeys, TwinsAccountedFor, Next,
         NEW n \in Normalizers, NEW d \in Drafts, ProcessOne(n, d)
  PROVE  TwinsAccountedFor'
<1>1. UNCHANGED <<events, vectors, id>>
  BY DEF idVars, eventVars, ProcessOne, LlmFails, NotAnEvent, IsEvent, Ask, CallLlm, Compare,
     Arbitrate, ArbiterSaysSame, ArbiterSaysOther, AskArbiter, CompareBlind, InsertTopic,
     InsertEvent
<1>2. Current(n, d) /\ Only(n) /\ tx[n].phase = "working"
  BY AskFields, CompareFields, ArbitrateFields, BlindFields, TopicFields, EventFields
  DEF ProcessOne, Current
<1>3. /\ d \notin events /\ d \notin tx[n].made /\ d \notin tx[n].madeVectors
      /\ tx[n].made \ tx[n].madeVectors \subseteq unsure
      /\ (tx[n].stage \in {"distinct", "linked"} /\ ~tx[n].vector) => d \in unsure
  BY <1>2, CurrentIsMine DEF TwinsAccountedFor, VectorlessUnsure
<1>4. \A e \in Drafts : Unjudged(d, e) => tx[n].stage = "judging" /\ e \in tx[n].near
  <2>1. \A m \in Normalizers \ {n} : ~Current(m, d)
    BY <1>2, CurrentIsMine DEF Current, InBatch
  <2>2. QED
    BY <2>1 DEF Unjudged
(* d stays sure or becomes unsure, and is done without an event or goes on. *)
<1>5. ASSUME \/ \E v \in Verdicts : Closes(tx'[n], n, d, v)
             \/ GoesOn(tx'[n], n) /\ tx'[n].stage = "novel"
             \/ GoesOn(tx'[n], n) /\ (Linking(n, d) \/ d \in unsure'),
             (GoesOn(tx'[n], n) /\ tx'[n].stage \in {"distinct", "linked"} /\ ~tx'[n].vector)
               => d \in unsure',
             unsure \ {d} \subseteq unsure', d \in unsure \ unsure' => ~GoesOn(tx'[n], n),
             \A e \in Drafts : (GoesOn(tx'[n], n) /\ d \notin unsure' /\ AreTwins({d, e})
                                  /\ Unjudged(d, e)) => Unjudged(d, e)'
      PROVE  TwinsAccountedFor'
  <2>1. IsDone(tx'[n], n, d) \/ GoesOn(tx'[n], n)
    BY <1>5 DEF Closes
  <2>2. tx'[n].made = tx[n].made /\ tx'[n].madeVectors = tx[n].madeVectors
    BY <1>5 DEF Closes, GoesOn
  <2>3. tx'[n].made \ tx'[n].madeVectors \subseteq unsure'
    BY <1>3, <1>5, <2>2
  <2>4. \A e \in Drafts : (Current(n, e)' /\ tx'[n].stage \in {"distinct", "linked"}
                             /\ ~tx'[n].vector) => e \in unsure'
    BY <1>1, <1>2, <1>5, <2>1, FlightAfter
  <2>5. (SeenIn(n) \ unsure)' \subseteq SeenIn(n) \ unsure
    <3>1. ASSUME NEW e \in SeenIn(n)', e \notin unsure' PROVE e \in SeenIn(n) \ unsure
      <4>1. CASE e # d
        <5>1. e \in tx[n].madeVectors
          BY <1>1, <1>2, <2>1, <2>2, <3>1, <4>1, FlightAfter
        <5>2. e \in SeenIn(n)
          BY <1>1, <1>2, <2>1, <3>1, <4>1, <5>1, FlightAfter
        <5>3. QED
          BY <1>5, <3>1, <4>1, <5>2
      <4>2. CASE e = d
        <5>1. GoesOn(tx'[n], n) /\ tx'[n].stage # "novel"
          BY <1>1, <1>2, <1>3, <2>1, <2>2, <3>1, <4>2, FlightAfter
        <5>2. Linking(n, d) /\ d \notin unsure
          BY <1>5, <3>1, <4>2, <5>1 DEF Closes, IsDone, GoesOn
        <5>3. d \in InBatch(n)
          BY <1>2 DEF InBatch, Current
        <5>4. QED
          BY <4>2, <5>2, <5>3 DEF SeenIn
      <4>3. QED
        BY <4>1, <4>2
    <3>2. QED
      BY <3>1
  <2>6. d \in SeenIn(n)' => GoesOn(tx'[n], n)
    BY <1>1, <1>2, <1>3, <2>1, <2>2, FlightAfter
  <2>7. \A e \in Drafts : d \in (SeenIn(n) \ unsure)' /\ AreTwins({d, e}) /\ Unjudged(d, e)
                            => Unjudged(d, e)'
    BY <1>5, <2>6
  <2>8. QED
    BY <1>1, <1>2, <1>5, <2>3, <2>4, <2>5, <2>7, OneRawKeepsTwins
<1>6. CASE LlmFails(n, d) \/ NotAnEvent(n, d) \/ IsEvent(n, d)
  <2>1. /\ tx[n].stage = "next" /\ unsure' = unsure
        /\ \/ \E v \in Verdicts : Closes(tx'[n], n, d, v)
           \/ GoesOn(tx'[n], n) /\ tx'[n].stage = "novel"
    BY <1>6, AskFields
  <2>2. \A e \in Drafts : ~Unjudged(d, e)
    BY <1>4, <2>1
  <2>3. tx'[n].stage \notin {"distinct", "linked"}
    BY <2>1 DEF Closes, IsDone
  <2>4. QED
    BY <1>5, <2>1, <2>2, <2>3
<1>7. CASE Compare(n, d)
  <2>1. PICK C \in SUBSET Near(n, d) :
          /\ JudgedOn(tx'[n], n, d, {e \in C : Judge[d][e] # "distinct"})
          /\ unsure' = IF C = Near(n, d) THEN unsure \ {d} ELSE unsure \cup {d}
    BY <1>7, CompareFields
  <2>2. tx[n].stage = "novel"
    BY <1>7, CompareFields
  <2>3. CASE Closes(tx'[n], n, d, "duplicate")
    <3>1. ~GoesOn(tx'[n], n) /\ "duplicate" \in Verdicts
      BY <2>3 DEF Closes, IsDone, GoesOn, Verdicts, Closed
    <3>2. QED
      BY <1>5, <2>1, <2>3, <3>1
  <2>4. CASE ~Closes(tx'[n], n, d, "duplicate") /\ C # Near(n, d)
    BY <1>5, <2>1, <2>4 DEF JudgedOn
  <2>5. CASE ~Closes(tx'[n], n, d, "duplicate") /\ C = Near(n, d)
    BY <1>1, <1>2, <2>1, <2>2, <2>5, CompareKeepsTwins DEF JudgedOn
  <2>6. QED
    BY <2>3, <2>4, <2>5
<1>8. CASE Arbitrate(n, d)
  <2>1. PICK e \in tx[n].near :
          \/ Closes(tx'[n], n, d, "duplicate") /\ unsure' = unsure
          \/ /\ JudgedOn(tx'[n], n, d, tx[n].near \ {e})
             /\ \/ StoryOf[d] # StoryOf[e] /\ unsure' = unsure
                \/ unsure' = unsure \cup {d}
    BY <1>8, ArbitrateFields
  <2>2. Linking(n, d)
    BY <1>2, <1>8, ArbitrateFields DEF Linking
  <2>3. CASE Closes(tx'[n], n, d, "duplicate")
    <3>1. ~GoesOn(tx'[n], n) /\ "duplicate" \in Verdicts
      BY <2>3 DEF Closes, IsDone, GoesOn, Verdicts, Closed
    <3>2. QED
      BY <1>5, <2>1, <2>3, <3>1
  <2>4. CASE ~Closes(tx'[n], n, d, "duplicate")
    <3>1. /\ GoesOn(tx'[n], n)
          /\ \/ tx'[n].stage = "judging" /\ tx'[n].near = tx[n].near \ {e}
             \/ /\ tx'[n].stage \in {"distinct", "linked"} /\ tx'[n].vector
                /\ tx[n].near \ {e} = {}
      BY <2>1, <2>4 DEF JudgedOn
    <3>2. ASSUME NEW f \in Drafts, d \notin unsure', AreTwins({d, f}), Unjudged(d, f)
          PROVE  Unjudged(d, f)'
      <4>1. f \in tx[n].near /\ StoryOf[d] # StoryOf[e]
        BY <1>4, <2>1, <2>4, <3>2
      <4>2. f # e
        BY <3>2, <4>1 DEF AreTwins
      <4>3. Current(n, d)' /\ tx'[n].stage = "judging" /\ f \in tx'[n].near
        BY <1>1, <1>2, <3>1, <4>1, <4>2 DEF GoesOn, Current
      <4>4. QED
        BY <4>3 DEF Unjudged
    <3>3. QED
      BY <1>5, <2>1, <2>2, <3>1, <3>2
  <2>5. QED
    BY <2>3, <2>4
<1>9. CASE CompareBlind(n, d)
  BY <1>5, <1>9, BlindFields
<1>10. CASE InsertTopic(n, d)
  <2>1. /\ tx[n].stage = "distinct" /\ unsure' = unsure
        /\ GoesOn(tx'[n], n) /\ tx'[n].stage = "linked" /\ tx'[n].vector = tx[n].vector
    BY <1>10, TopicFields
  <2>2. Linking(n, d) \/ d \in unsure'
    BY <1>2, <1>3, <2>1 DEF Linking
  <2>3. QED
    BY <1>3, <1>4, <1>5, <2>1, <2>2
<1>11. CASE InsertEvent(n, d)
  <2>1. /\ tx[n].stage = "linked" /\ unsure' = unsure /\ IsDone(tx'[n], n, d)
        /\ tx'[n].made = tx[n].made \cup {d}
        /\ tx'[n].madeVectors = IF tx[n].vector THEN tx[n].madeVectors \cup {d}
                                                ELSE tx[n].madeVectors
    BY <1>11, EventFields
  <2>2. tx'[n].made \ tx'[n].madeVectors \subseteq unsure'
    BY <1>3, <2>1
  <2>3. tx'[n].stage = "next" /\ ~GoesOn(tx'[n], n)
    BY <2>1 DEF IsDone, GoesOn
  <2>4. SeenIn(n)' \subseteq SeenIn(n)
    <3>1. tx[n].vector => Linking(n, d)
      BY <1>2, <2>1 DEF Linking
    <3>2. tx[n].vector => d \in SeenIn(n)
      BY <1>2, <3>1 DEF SeenIn, InBatch, Current
    <3>3. \A e \in SeenIn(n)' : e \in tx'[n].madeVectors
      BY <1>1, <1>2, <2>1, <2>3, FlightAfter
    <3>4. \A e \in SeenIn(n)' \ {d} : e \in SeenIn(n)
      BY <1>1, <1>2, <2>1, <3>3, FlightAfter
    <3>5. d \in SeenIn(n)' => tx[n].vector
      BY <1>3, <2>1, <3>3
    <3>6. QED
      BY <3>2, <3>4, <3>5
  <2>5. QED
    BY <1>1, <1>2, <1>4, <2>1, <2>2, <2>3, <2>4, OneRawKeepsTwins
<1>12. QED
  BY <1>6, <1>7, <1>8, <1>9, <1>10, <1>11 DEF ProcessOne

(* What a commit takes out of flight it puts into the tables.              *)
LEMMA CommitKeepsTwins ==
  ASSUME IInv, KeysAreKeys, TwinsAccountedFor, Next, NEW n \in Normalizers, Commit(n)
  PROVE  TwinsAccountedFor'
<1>1. /\ events' = events \cup tx[n].made /\ vectors' = vectors \cup tx[n].madeVectors
      /\ unsure' = unsure /\ tx[n].phase = "working" /\ tx[n].todo = {}
  BY DEF Commit, history
<1>2. /\ Only(n) /\ tx'[n].phase # "working"
      /\ \A d \in Drafts : ~Current(n, d) /\ ~Current(n, d)'
  BY <1>1 DEF Commit, IInv, TypeOK, Only, AwaitsSuccessor, NoTx, Current
<1>3. \A m \in Normalizers \ {n} :
        /\ tx'[m] = tx[m] /\ SeenIn(m)' = SeenIn(m)
        /\ \A d \in Drafts : Current(m, d)' <=> Current(m, d)
  BY <1>2, OthersKeepFlight, OthersKeepCurrent DEF Only
<1>4. SeenIn(n)' = {}
  BY <1>2 DEF SeenIn, InBatch
<1>5. tx[n].made \ unsure \subseteq SeenIn(n)
  <2>1. tx[n].made \ unsure \subseteq tx[n].madeVectors
    BY <1>1 DEF TwinsAccountedFor, VectorlessUnsure
  <2>2. tx[n].made \subseteq InBatch(n)
    BY <1>1 DEF IInv, TypeOK, TxStates, WritesMatch, WritesAgree, InBatch
  <2>3. QED
    BY <2>1, <2>2 DEF SeenIn
<1>6. VectorlessUnsure'
  <2>1. events' \ vectors' \subseteq unsure'
    BY <1>1 DEF TwinsAccountedFor, VectorlessUnsure
  <2>2. QED
    BY <1>1, <1>2, <1>3, <2>1 DEF TwinsAccountedFor, VectorlessUnsure
<1>7. \A m \in Normalizers : (SeenIn(m) \ unsure)' \subseteq SeenIn(m) \ unsure
  BY <1>1, <1>3, <1>4
<1>8. Sure' \subseteq Sure
  BY <1>1, <1>5, <1>7 DEF Sure
<1>9. \A d, e \in Sure' : Unjudged(d, e) => Unjudged(d, e)'
  BY <1>2, <1>3, <1>8, SureAreDrafts DEF Unjudged
<1>10. QED
  BY <1>6, <1>7, <1>8, <1>9, LessToMiss

(* A normalization that begins or ends has nothing in flight.              *)
LEMMA DropKeepsTwins ==
  ASSUME IInv, KeysAreKeys, TwinsAccountedFor, Next, NEW n \in Normalizers, Only(n),
         UNCHANGED <<events, vectors, unsure>>,
         tx'[n].made = {}, tx'[n].madeVectors = {}, tx'[n].stage = "next"
  PROVE  TwinsAccountedFor'
<1>1. \A m \in Normalizers \ {n} :
        /\ tx'[m] = tx[m] /\ SeenIn(m)' = SeenIn(m)
        /\ \A d \in Drafts : Current(m, d)' <=> Current(m, d)
  BY OthersKeepFlight, OthersKeepCurrent DEF Only
<1>2. SeenIn(n)' = {}
  BY DEF SeenIn, Linking
<1>3. VectorlessUnsure'
  BY <1>1 DEF TwinsAccountedFor, VectorlessUnsure
<1>4. \A m \in Normalizers : (SeenIn(m) \ unsure)' \subseteq SeenIn(m) \ unsure
  BY <1>1, <1>2
<1>5. Sure' \subseteq Sure
  BY <1>4 DEF Sure
<1>6. ASSUME NEW d \in Sure', NEW e \in Sure', Unjudged(d, e) PROVE Unjudged(d, e)'
  <2>1. PICK m \in Normalizers : Current(m, d) /\ tx[m].stage = "judging" /\ e \in tx[m].near
    BY <1>6 DEF Unjudged
  <2>2. d \in Drafts
    BY <1>5, SureAreDrafts
  <2>3. m # n
    <3>1. SUFFICES ASSUME Current(n, d) PROVE FALSE
      BY <2>1
    <3>2. d \notin events /\ \A o \in Normalizers \ {n} : d \notin InBatch(o)
      BY <2>2, <3>1, CurrentIsMine
    <3>3. QED
      BY <1>1, <1>2, <3>2 DEF Sure, SeenIn
  <2>4. QED
    BY <1>1, <2>1, <2>2, <2>3 DEF Unjudged
<1>7. QED
  BY <1>3, <1>4, <1>5, <1>6, LessToMiss

LEMMA NextKeepsTwins ==
  ASSUME IInv, KeysAreKeys, TwinsAccountedFor, Next
  PROVE  TwinsAccountedFor'
<1> USE DEF rawVars, idVars, eventVars, history
<1>1. ASSUME UNCHANGED <<tx, events, unsure>>, vectors \subseteq vectors' PROVE TwinsAccountedFor'
  <2>1. \A n \in Normalizers :
          /\ tx'[n] = tx[n] /\ SeenIn(n)' = SeenIn(n)
          /\ \A d \in Drafts : Current(n, d)' <=> Current(n, d)
    BY <1>1, OthersKeepFlight, OthersKeepCurrent
  <2>2. VectorlessUnsure'
    BY <1>1, <2>1 DEF TwinsAccountedFor, VectorlessUnsure
  <2>3. Sure' \subseteq Sure
    BY <1>1, <2>1 DEF Sure
  <2>4. \A d, e \in Sure' : Unjudged(d, e) => Unjudged(d, e)'
    BY <2>1, <2>3, SureAreDrafts DEF Unjudged
  <2>5. \A n \in Normalizers : (SeenIn(n) \ unsure)' \subseteq SeenIn(n) \ unsure
    BY <1>1, <2>1
  <2>6. QED
    BY <2>2, <2>3, <2>4, <2>5, LessToMiss
<1>2. ASSUME NEW l \in Loaders, LoadStep(l) PROVE TwinsAccountedFor'
  <2>1. UNCHANGED <<events, vectors, tx, unsure>>
    BY <1>2 DEF LoadStep, CheckAbsent, InsertRaws, LoadClash, LoadFails, CommitLoad,
       EnqueueNormalize, LoseNormalize
  <2>2. QED
    BY <1>1, <2>1
<1>3. ASSUME NEW n \in Normalizers, NormalizeStep(n) PROVE TwinsAccountedFor'
  <2>1. CASE StartJob(n) \/ StartManual(n)
    <3>1. PICK S \in SUBSET {"raw", "failed"}, b \in BOOLEAN : Open(n, S, b)
      <4>1. CASE StartJob(n)
        BY <4>1 DEF StartJob
      <4>2. CASE StartManual(n)
        BY <4>2 DEF StartManual
      <4>3. QED
        BY <2>1, <4>1, <4>2
    <3>2. PICK B \in SUBSET Fetchable(S) : tx' = [tx EXCEPT ![n] = Opened(B, b)]
      BY <3>1 DEF Open
    <3>3. /\ Only(n)
          /\ tx'[n].made = {} /\ tx'[n].madeVectors = {} /\ tx'[n].stage = "next"
      BY <3>2 DEF IInv, TypeOK, Only, Opened, NoTx
    <3>4. UNCHANGED <<events, vectors, unsure>>
      BY <3>1 DEF Open
    <3>5. QED
      BY <3>3, <3>4, DropKeepsTwins
  <2>2. CASE \E d \in Drafts : ProcessOne(n, d)
    BY <2>2, ProcessOneKeepsTwins
  <2>3. CASE Clash(n) \/ DeadlockVictim(n) \/ TimesOut(n) \/ Crash(n)
             \/ EnqueueNext(n) \/ LoseNext(n)
    <3>1. tx' = [tx EXCEPT ![n] = NoTx] /\ UNCHANGED <<events, vectors, unsure>>
      BY <2>3 DEF Clash, DeadlockVictim, TimesOut, Crash, RollBack, EnqueueNext, LoseNext
    <3>2. /\ Only(n)
          /\ tx'[n].made = {} /\ tx'[n].madeVectors = {} /\ tx'[n].stage = "next"
      BY <3>1 DEF IInv, TypeOK, Only, NoTx
    <3>3. QED
      BY <3>1, <3>2, DropKeepsTwins
  <2>4. CASE Commit(n)
    BY <2>4, CommitKeepsTwins
  <2>5. QED
    BY <1>3, <2>1, <2>2, <2>3, <2>4 DEF NormalizeStep
<1>4. CASE Backfill
  <2>1. UNCHANGED <<events, tx, unsure>> /\ vectors \subseteq vectors'
    BY <1>4 DEF Backfill
  <2>2. QED
    BY <1>1, <2>1
<1>5. QED
  BY <1>2, <1>3, <1>4 DEF Next

(* Twins that were compared in full are no more than normalizations, and   *)
(* none when one runs at a time, whatever the loads, batches, rollbacks,   *)
(* answers of the arbiter and backfills in between.                        *)
THEOREM TwinsAreBounded == Spec => []TwinsBounded
<1>1. Init => TwinsAccountedFor
  <2> SUFFICES ASSUME Init PROVE TwinsAccountedFor
    OBVIOUS
  <2>1. events = {} /\ \A n \in Normalizers : tx[n] = NoTx
    BY DEF Init
  <2>2. \A n \in Normalizers : SeenIn(n) = {}
    BY <2>1 DEF SeenIn, InBatch, NoTx
  <2>3. VectorlessUnsure
    BY <2>1 DEF VectorlessUnsure, NoTx
  <2>4. Sure = {}
    BY <2>1, <2>2 DEF Sure
  <2>5. Cardinality({}) = 0 /\ Cardinality(Normalizers) \in Nat
    BY IngestionAssumption, FS_CardinalityType, FS_EmptySet
  <2>6. QED
    BY <2>2, <2>3, <2>4, <2>5 DEF TwinsAccountedFor
<1>2. IInv /\ TwinsAccountedFor /\ UNCHANGED vars => TwinsAccountedFor'
  <2> SUFFICES ASSUME TwinsAccountedFor, UNCHANGED vars PROVE TwinsAccountedFor'
    OBVIOUS
  <2>1. \A n, d : (Current(n, d)' <=> Current(n, d)) /\ InBatch(n)' = InBatch(n)
    BY DEF vars, Current, InBatch
  <2>2. /\ \A n, d : Linking(n, d)' <=> Linking(n, d)
        /\ \A d, e : Unjudged(d, e)' <=> Unjudged(d, e)
    BY <2>1 DEF vars, Linking, Unjudged
  <2>3. \A n : SeenIn(n)' = SeenIn(n)
    BY <2>1, <2>2 DEF vars, SeenIn
  <2>4. Sure' = Sure /\ VectorlessUnsure'
    BY <2>1, <2>3 DEF vars, Sure, TwinsAccountedFor, VectorlessUnsure
  <2>5. \A S : Missed(S)' <=> Missed(S)
    BY <2>2 DEF Missed, AreTwins
  <2>6. QED
    BY <2>3, <2>4, <2>5 DEF vars, TwinsAccountedFor
<1>3. IInv /\ TwinsAccountedFor => TwinsBounded
  <2> SUFFICES ASSUME IInv, TwinsAccountedFor, NEW S \in SUBSET (events \ unsure), AreTwins(S)
               PROVE  Cardinality(S) <= Cardinality(Normalizers)
    BY DEF TwinsBounded
  <2>1. S \subseteq Sure
    BY DEF Sure
  <2>2. \A d \in events : d \in Drafts /\ \A n \in Normalizers : ~Current(n, d)
    BY CurrentIsMine DEF IInv, TypeOK
  <2>3. Missed(S)
    BY <2>2 DEF Missed, Unjudged
  <2>4. QED
    BY <2>1, <2>3 DEF TwinsAccountedFor
<1>4. QED
  BY <1>1, <1>2, <1>3, NextKeepsTwins, KeysHold, InvariantHolds,
     PTL DEF Spec
=============================================================================
