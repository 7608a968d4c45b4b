--------------------------- MODULE OutboxProofs ---------------------------
(***************************************************************************)
(* Machine-checked proofs about Outbox, for every set of requests, emails  *)
(* and job slots, every handler table and every fault budget.              *)
(***************************************************************************)
EXTENDS Outbox, FiniteSetTheorems, TLAPS

(* Every letter the account owes or ever sent is backed by its account.    *)
RowsAreCommitted ==
  \A r \in Requests : row[r] # "none" =>
    /\ pc[r] \in {"committed", "done", "failed"}
    /\ accounts[EmailOf[r]] # NoAccount
    /\ KindOf[r] = "register" => accounts[EmailOf[r]] = r

(* An uncommitted INSERT excludes every other one on its address.          *)
InsertIsExclusive ==
  \A r \in Requests : pc[r] = "inserted" =>
    /\ KindOf[r] = "register"
    /\ accounts[EmailOf[r]] = NoAccount
    /\ \A q \in Requests : (EmailOf[q] = EmailOf[r] /\ pc[q] = "inserted") => q = r

ResetKnowsAccount ==
  \A r \in Requests :
    (KindOf[r] = "reset" /\ pc[r] = "read") => accounts[EmailOf[r]] # NoAccount

(* Primary keys are distinct and were all drawn from the sequence.         *)
IdsAreKeys ==
  /\ \A r \in Requests : row[r] # "none" => id[r] < nextId
  /\ \A r, q \in Requests :
       (row[r] # "none" /\ row[q] # "none" /\ id[r] = id[q]) => r = q

BatchesHoldRows ==
  /\ \A w \in Workers : \A r \in batch[w] : row[r] # "none"
  /\ \A w \in Workers : wpc[w] = "idle" => batch[w] = {} /\ outcome[w] = "none"
  /\ \A w \in Workers : wpc[w] = "fetching" => outcome[w] = "none"

OnlyOwedIsSent == \A r \in Requests : sent[r] > 0 => row[r] # "none"

(* A handler that returned has sent the letter of the current message.     *)
OkMeansSent ==
  \A w \in Workers, r \in Requests :
    (Current(w, r) /\ outcome[w] = "ok" /\ KindOf[r] \in Handlers) => sent[r] > 0

IInv ==
  /\ RowsAreCommitted
  /\ InsertIsExclusive
  /\ ResetKnowsAccount
  /\ IdsAreKeys
  /\ BatchesHoldRows
  /\ OnlyOwedIsSent
  /\ OkMeansSent
  /\ ProcessedWasMailed

-----------------------------------------------------------------------------
(* Type correctness: the state of the outbox keeps its shape whatever the  *)
(* API calls, job slots and faults do.                                     *)
THEOREM TypeCorrect == Spec => []TypeOK
<1>1. Init => TypeOK
  BY OutboxAssumption DEF Init, TypeOK, Kinds, FaultKinds
<1>2. ASSUME TypeOK, Next PROVE TypeOK'
  <2> USE <1>2 DEF TypeOK, apiVars, tableVars, workerVars
  <2>1. ASSUME NEW r \in Requests, ApiStep(r) PROVE TypeOK'
    <3> EmailOf[r] \in Emails
      BY OutboxAssumption
    <3>1. CASE ReadEmail(r)
      BY <3>1 DEF ReadEmail
    <3>2. CASE InsertUser(r)
      BY <3>2 DEF InsertUser
    <3>3. CASE CommitRegister(r)
      BY <3>3 DEF CommitRegister, AddOutboxRow, Statuses
    <3>4. CASE CommitReset(r)
      BY <3>4 DEF CommitReset, AddOutboxRow, Statuses
    <3>5. CASE RollBack(r)
      BY <3>5 DEF RollBack
    <3>6. CASE Enqueue(r)
      BY <3>6 DEF Enqueue
    <3>7. CASE LoseEnqueue(r)
      BY <3>7 DEF LoseEnqueue, Fault, FaultKinds
    <3>8. QED
      BY <2>1, <3>1, <3>2, <3>3, <3>4, <3>5, <3>6, <3>7 DEF ApiStep
  <2>2. ASSUME NEW w \in Workers, JobStep(w) PROVE TypeOK'
    <3>1. CASE Fetch(w)
      <4>1. PICK B \in SUBSET FetchableRows(w) : batch' = [batch EXCEPT ![w] = B]
        BY <3>1 DEF Fetch
      <4>2. B \subseteq Requests
        BY <4>1 DEF FetchableRows
      <4>3. QED
        BY <3>1, <4>1, <4>2 DEF Fetch
    <3>2. CASE CloseFetch(w)
      BY <3>2 DEF CloseFetch
    <3>3. ASSUME NEW r \in Requests, HandleOk(w, r) PROVE TypeOK'
      BY <3>3 DEF HandleOk
    <3>4. ASSUME NEW r \in Requests, HandleError(w, r) PROVE TypeOK'
      BY <3>4 DEF HandleError, Fault, FaultKinds
    <3>5. ASSUME NEW r \in Requests, Mark(w, r) PROVE TypeOK'
      BY <3>5 DEF Mark, Statuses
    <3>6. CASE Finish(w)
      BY <3>6 DEF Finish, Release
    <3>7. CASE Crash(w)
      BY <3>7 DEF Crash, Release, Fault, FaultKinds
    <3>8. CASE Abort(w)
      BY <3>8 DEF Abort, Release, Fault, FaultKinds
    <3>9. QED
      BY <2>2, <3>1, <3>2, <3>3, <3>4, <3>5, <3>6, <3>7, <3>8 DEF JobStep
  <2>3. QED
    BY <2>1, <2>2 DEF Next
<1>3. TypeOK /\ UNCHANGED vars => TypeOK'
  BY DEF TypeOK, vars
<1>4. QED
  BY <1>1, <1>2, <1>3, PTL DEF Spec

-----------------------------------------------------------------------------
(* One lemma per side: the API's steps, then those of a job slot.          *)
LEMMA ApiKeepsIInv ==
  ASSUME TypeOK, IInv, NEW r \in Requests, ApiStep(r)
  PROVE  IInv'
<1> EmailOf[r] \in Emails
  BY OutboxAssumption
<1> USE DEF apiVars, tableVars, workerVars
<1>1. CASE ReadEmail(r)
  BY <1>1, OutboxAssumption DEF ReadEmail, IInv, TypeOK, RowsAreCommitted, InsertIsExclusive,
     ResetKnowsAccount, IdsAreKeys, BatchesHoldRows, OnlyOwedIsSent, OkMeansSent,
     ProcessedWasMailed, Current
<1>2. CASE InsertUser(r)
  BY <1>2, OutboxAssumption DEF InsertUser, IInv, TypeOK, RowsAreCommitted, InsertIsExclusive,
     ResetKnowsAccount, IdsAreKeys, BatchesHoldRows, OnlyOwedIsSent, OkMeansSent,
     ProcessedWasMailed, Current
<1>3. CASE CommitRegister(r)
  BY <1>3, OutboxAssumption DEF CommitRegister, AddOutboxRow, IInv, TypeOK, RowsAreCommitted,
     InsertIsExclusive, ResetKnowsAccount, IdsAreKeys, BatchesHoldRows, OnlyOwedIsSent,
     OkMeansSent, ProcessedWasMailed, Current
<1>4. CASE CommitReset(r)
  <2> USE <1>4 DEF CommitReset, AddOutboxRow, IInv, TypeOK
  <2>1. row[r] = "none"
    BY DEF RowsAreCommitted
  <2>2. RowsAreCommitted' /\ InsertIsExclusive' /\ ResetKnowsAccount'
    BY DEF RowsAreCommitted, InsertIsExclusive, ResetKnowsAccount
  <2>3. IdsAreKeys' /\ BatchesHoldRows' /\ OnlyOwedIsSent'
    BY DEF IdsAreKeys, BatchesHoldRows, OnlyOwedIsSent
  <2>4. OkMeansSent'
    BY <2>1 DEF BatchesHoldRows, OkMeansSent, Current
  <2>5. QED
    BY <2>2, <2>3, <2>4 DEF ProcessedWasMailed
<1>5. CASE RollBack(r)
  BY <1>5, OutboxAssumption DEF RollBack, IInv, TypeOK, RowsAreCommitted, InsertIsExclusive,
     ResetKnowsAccount, IdsAreKeys, BatchesHoldRows, OnlyOwedIsSent, OkMeansSent,
     ProcessedWasMailed, Current
<1>6. CASE Enqueue(r)
  BY <1>6, OutboxAssumption DEF Enqueue, IInv, TypeOK, RowsAreCommitted, InsertIsExclusive,
     ResetKnowsAccount, IdsAreKeys, BatchesHoldRows, OnlyOwedIsSent, OkMeansSent,
     ProcessedWasMailed, Current
<1>7. CASE LoseEnqueue(r)
  BY <1>7, OutboxAssumption DEF LoseEnqueue, IInv, TypeOK, RowsAreCommitted, InsertIsExclusive,
     ResetKnowsAccount, IdsAreKeys, BatchesHoldRows, OnlyOwedIsSent, OkMeansSent,
     ProcessedWasMailed, Current
<1>8. QED
  BY <1>1, <1>2, <1>3, <1>4, <1>5, <1>6, <1>7 DEF ApiStep

LEMMA JobKeepsIInv ==
  ASSUME TypeOK, IInv, NEW w \in Workers, JobStep(w)
  PROVE  IInv'
<1> USE DEF apiVars, tableVars, workerVars
<1>1. CASE Fetch(w)
  <2>1. PICK B \in SUBSET FetchableRows(w) : batch' = [batch EXCEPT ![w] = B]
    BY <1>1 DEF Fetch
  <2>2. \A q \in B : q \in Requests /\ row[q] = "pending"
    BY <2>1 DEF FetchableRows
  <2>3. OkMeansSent'
    BY <1>1 DEF Fetch, IInv, TypeOK, BatchesHoldRows, OkMeansSent, Current
  <2>4. QED
    BY <1>1, <2>1, <2>2, <2>3 DEF Fetch, IInv, TypeOK, RowsAreCommitted, InsertIsExclusive,
       ResetKnowsAccount, IdsAreKeys, BatchesHoldRows, OnlyOwedIsSent, ProcessedWasMailed
<1>2. CASE CloseFetch(w)
  BY <1>2 DEF CloseFetch, IInv, TypeOK, RowsAreCommitted, InsertIsExclusive,
     ResetKnowsAccount, IdsAreKeys, BatchesHoldRows, OnlyOwedIsSent, OkMeansSent,
     ProcessedWasMailed, Current
<1>3. ASSUME NEW r \in Requests, HandleOk(w, r) PROVE IInv'
  <2>1. OkMeansSent'
    BY <1>3 DEF HandleOk, IInv, TypeOK, IdsAreKeys, BatchesHoldRows, OkMeansSent, Current
  <2>2. QED
    BY <1>3, <2>1 DEF HandleOk, IInv, TypeOK, RowsAreCommitted, InsertIsExclusive,
       ResetKnowsAccount, IdsAreKeys, BatchesHoldRows, OnlyOwedIsSent, ProcessedWasMailed,
       Current
<1>4. ASSUME NEW r \in Requests, HandleError(w, r) PROVE IInv'
  <2>1. OkMeansSent'
    BY <1>4 DEF HandleError, IInv, TypeOK, IdsAreKeys, BatchesHoldRows, OkMeansSent, Current
  <2>2. QED
    BY <1>4, <2>1 DEF HandleError, IInv, TypeOK, RowsAreCommitted, InsertIsExclusive,
       ResetKnowsAccount, IdsAreKeys, BatchesHoldRows, OnlyOwedIsSent, ProcessedWasMailed,
       Current
<1>5. ASSUME NEW r \in Requests, Mark(w, r) PROVE IInv'
  <2>1. ProcessedWasMailed'
    BY <1>5 DEF Mark, IInv, TypeOK, OkMeansSent, ProcessedWasMailed, Current
  <2>2. QED
    BY <1>5, <2>1 DEF Mark, IInv, TypeOK, RowsAreCommitted, InsertIsExclusive,
       ResetKnowsAccount, IdsAreKeys, BatchesHoldRows, OnlyOwedIsSent, OkMeansSent, Current
<1>6. ASSUME Release(w), UNCHANGED <<accounts, pc, row, id, nextId, sent>> PROVE IInv'
  BY <1>6 DEF Release, IInv, TypeOK, RowsAreCommitted, InsertIsExclusive,
     ResetKnowsAccount, IdsAreKeys, BatchesHoldRows, OnlyOwedIsSent, OkMeansSent,
     ProcessedWasMailed, Current
<1>7. CASE Finish(w) \/ Crash(w) \/ Abort(w)
  BY <1>6, <1>7 DEF Finish, Crash, Abort
<1>8. QED
  BY <1>1, <1>2, <1>3, <1>4, <1>5, <1>7 DEF JobStep

LEMMA InvariantHolds == Spec => []IInv
<1>1. Init => IInv
  BY OutboxAssumption DEF Init, IInv, RowsAreCommitted, InsertIsExclusive, ResetKnowsAccount,
     IdsAreKeys, BatchesHoldRows, OnlyOwedIsSent, OkMeansSent, ProcessedWasMailed, Current
<1>2. TypeOK /\ IInv /\ [Next]_vars => IInv'
  <2>1. ASSUME TypeOK, IInv, Next PROVE IInv'
    BY <2>1, ApiKeepsIInv, JobKeepsIInv DEF Next
  <2>2. ASSUME IInv, UNCHANGED vars PROVE IInv'
    BY <2>2 DEF vars, IInv, RowsAreCommitted, InsertIsExclusive, ResetKnowsAccount,
       IdsAreKeys, BatchesHoldRows, OnlyOwedIsSent, OkMeansSent, ProcessedWasMailed, Current
  <2>3. QED
    BY <2>1, <2>2
<1>3. QED
  BY <1>1, <1>2, TypeCorrect, PTL DEF Spec

(* No letter goes to an address without its account, and a registration's  *)
(* letter only to the account that registration created.                   *)
THEOREM LetterBelongs == Spec => []LetterBelongsToAccount
<1>1. IInv => LetterBelongsToAccount
  BY DEF IInv, OnlyOwedIsSent, RowsAreCommitted, LetterBelongsToAccount
<1>2. QED
  BY <1>1, InvariantHolds, PTL

(* No row is closed as processed before its letter was accepted.           *)
THEOREM ProcessedMailed == Spec => []ProcessedWasMailed
<1>1. IInv => ProcessedWasMailed
  BY DEF IInv
<1>2. QED
  BY <1>1, InvariantHolds, PTL

-----------------------------------------------------------------------------
(* While nothing dropped a wake-up, a job that reads the table reads every *)
(* pending row no other open read holds.                                   *)
LEMMA FetchTakesAll ==
  ASSUME Cardinality(Requests) <= Limit,
         NEW w \in Workers, NEW B, IsFirstRows(B, FetchableRows(w))
  PROVE  B = FetchableRows(w)
<1> DEFINE R == FetchableRows(w)
<1>1. IsFiniteSet(Requests) /\ Limit \in Nat
  BY OutboxAssumption
<1>2. R \subseteq Requests /\ B \subseteq R
  BY DEF FetchableRows, IsFirstRows
<1>3. IsFiniteSet(R) /\ Cardinality(R) <= Cardinality(Requests)
  BY <1>1, <1>2, FS_Subset
<1>4. IsFiniteSet(B) /\ Cardinality(B) <= Cardinality(R)
  BY <1>2, <1>3, FS_Subset
<1>5. Cardinality(R) = Cardinality(B) => R = B
  BY <1>2, <1>3, FS_Subset
<1>6. /\ Cardinality(B) \in Nat
      /\ Cardinality(R) \in Nat
      /\ Cardinality(Requests) \in Nat
  BY <1>1, <1>3, <1>4, FS_CardinalityType
<1>7. B # R => Cardinality(B) = Limit
  BY DEF IsFirstRows
<1>8. QED
  BY <1>1, <1>3, <1>4, <1>5, <1>6, <1>7

(* A pending row waits for ever only after a lost enqueue or an aborted    *)
(* job, unless a batch is too small for what is pending.                   *)
THEOREM WakeUpKept == Spec => []NoLostWakeUp
<1>1. Init => NoLostWakeUp
  BY DEF Init, NoLostWakeUp
<1>2. ASSUME TypeOK, IInv, NoLostWakeUp, Next PROVE NoLostWakeUp'
  <2> USE <1>2 DEF TypeOK, apiVars, tableVars, workerVars
  <2>1. ASSUME NEW r \in Requests, ApiStep(r) PROVE NoLostWakeUp'
    <3>1. CASE ReadEmail(r) \/ InsertUser(r) \/ RollBack(r)
      BY <3>1 DEF ReadEmail, InsertUser, RollBack, NoLostWakeUp, Awaited
    <3>2. CASE CommitRegister(r) \/ CommitReset(r)
      <4>1. pc'[r] = "committed"
        BY <3>2 DEF CommitRegister, CommitReset
      <4>2. QED
        BY <4>1 DEF NoLostWakeUp, Awaited
    <3>3. CASE Enqueue(r)
      BY <3>3 DEF Enqueue, NoLostWakeUp, Awaited
    <3>4. CASE LoseEnqueue(r)
      BY <3>4 DEF LoseEnqueue, Fault, FaultKinds, NoLostWakeUp
    <3>5. QED
      BY <2>1, <3>1, <3>2, <3>3, <3>4 DEF ApiStep
  <2>2. ASSUME NEW w \in Workers, JobStep(w) PROVE NoLostWakeUp'
    <3>0. CASE ~(Cardinality(Requests) <= Limit)
      BY <3>0 DEF NoLostWakeUp
    <3>1. ASSUME Fetch(w), Cardinality(Requests) <= Limit PROVE NoLostWakeUp'
      <4>1. PICK B \in SUBSET FetchableRows(w) :
               /\ IsFirstRows(B, FetchableRows(w))
               /\ batch' = [batch EXCEPT ![w] = B]
        BY <3>1 DEF Fetch
      <4>2. B = FetchableRows(w)
        BY <3>1, <4>1, FetchTakesAll
      <4>3. ASSUME NEW r \in Requests, row[r] = "pending"
            PROVE  \E v \in Workers : r \in batch'[v]
        BY <4>1, <4>2, <4>3 DEF FetchableRows, LockedRows
      <4>4. QED
        BY <3>1, <4>3 DEF Fetch, NoLostWakeUp, Awaited
    <3>2. CASE CloseFetch(w)
      BY <3>2 DEF CloseFetch, NoLostWakeUp, Awaited
    <3>3. ASSUME NEW r \in Requests, HandleOk(w, r) \/ HandleError(w, r)
          PROVE  NoLostWakeUp'
      BY <3>3 DEF HandleOk, HandleError, Fault, FaultKinds, NoLostWakeUp, Awaited
    <3>4. ASSUME NEW r \in Requests, Mark(w, r) PROVE NoLostWakeUp'
      BY <3>4 DEF Mark, NoLostWakeUp, Awaited
    <3>5. CASE Finish(w)
      BY <3>5 DEF Finish, Release, NoLostWakeUp, Awaited
    <3>6. CASE Crash(w)
      BY <3>6 DEF Crash, NoLostWakeUp, Awaited
    <3>7. CASE Abort(w)
      BY <3>7 DEF Abort, Fault, FaultKinds, NoLostWakeUp
    <3>8. QED
      BY <2>2, <3>0, <3>1, <3>2, <3>3, <3>4, <3>5, <3>6, <3>7 DEF JobStep
  <2>3. QED
    BY <2>1, <2>2 DEF Next
<1>3. NoLostWakeUp /\ UNCHANGED vars => NoLostWakeUp'
  BY DEF NoLostWakeUp, Awaited, vars
<1>4. QED
  BY <1>1, <1>2, <1>3, TypeCorrect, InvariantHolds, PTL DEF Spec

-----------------------------------------------------------------------------
(* Counting copies.  A slot that holds the row of r has either sent the    *)
(* letter and not marked it yet, or may still send it.                     *)
Sent(r) == {w \in Workers : outcome[w] # "none" /\ Current(w, r)}
Unsent(r) == {w \in Workers : r \in batch[w]} \ Sent(r)

Losses == faults["crash"] + faults["abort"]

(* Before any slot has marked the row, each copy is one a slot still       *)
(* answers for, or one whose slot was lost: this is what makes it safe to  *)
(* read the row once more.                                                 *)
CopiesAnsweredFor ==
  \A r \in Requests :
    row[r] \in {"none", "pending"} => sent[r] <= Losses + Cardinality(Sent(r))

(* The copies sent and those that can still go out without another read.   *)
CopiesToCome ==
  \A r \in Requests :
    sent[r] + Cardinality(Unsent(r)) <= Losses + Cardinality(Workers)

CopyInv == CopiesAnsweredFor /\ CopiesToCome

LEMMA CountsAreNat ==
  ASSUME NEW r \in Requests
  PROVE  /\ IsFiniteSet(Workers) /\ Cardinality(Workers) \in Nat
         /\ IsFiniteSet(Sent(r)) /\ Cardinality(Sent(r)) \in Nat
         /\ IsFiniteSet(Unsent(r)) /\ Cardinality(Unsent(r)) \in Nat
         /\ Cardinality(Sent(r)) + Cardinality(Unsent(r)) <= Cardinality(Workers)
<1>1. IsFiniteSet(Workers)
  BY OutboxAssumption
<1>2. Sent(r) \in SUBSET Workers /\ Unsent(r) \in SUBSET Workers
      /\ Sent(r) \cup Unsent(r) \in SUBSET Workers
  BY DEF Sent, Unsent
<1>3. IsFiniteSet(Sent(r)) /\ IsFiniteSet(Unsent(r))
  BY <1>1, <1>2, FS_Subset
<1>4. Sent(r) \cap Unsent(r) = {}
  BY DEF Unsent
<1>5. Cardinality(Sent(r) \cup Unsent(r)) = Cardinality(Sent(r)) + Cardinality(Unsent(r))
  <2>1. Cardinality(Sent(r) \cup Unsent(r))
          = Cardinality(Sent(r)) + Cardinality(Unsent(r)) - Cardinality(Sent(r) \cap Unsent(r))
    BY <1>3, FS_Union
  <2>2. Cardinality(Sent(r) \cap Unsent(r)) = 0
    BY <1>4, FS_EmptySet
  <2>3. QED
    BY <1>3, <2>1, <2>2, FS_CardinalityType
<1>6. Cardinality(Sent(r) \cup Unsent(r)) <= Cardinality(Workers)
  BY <1>1, <1>2, FS_Subset
<1>7. QED
  BY <1>1, <1>3, <1>5, <1>6, FS_CardinalityType

(* At most one row of a batch is current: primary keys are distinct.       *)
LEMMA CurrentIsUnique ==
  ASSUME TypeOK, IInv, NEW w \in Workers, NEW r \in Requests, NEW q \in Requests,
         Current(w, r), Current(w, q)
  PROVE  r = q
<1>1. row[r] # "none" /\ row[q] # "none"
  BY DEF Current, IInv, BatchesHoldRows
<1>2. id[r] = id[q]
  BY DEF Current, TypeOK
<1>3. QED
  BY <1>1, <1>2 DEF IInv, IdsAreKeys

(* A step that changes neither the copies nor the slots keeps the counts.  *)
LEMMA QuietStepKeepsCopies ==
  ASSUME TypeOK, IInv, CopyInv, UNCHANGED <<row, sent, wpc, batch, outcome>>,
         UNCHANGED id, Losses' = Losses
  PROVE  CopyInv'
<1>1. ASSUME NEW r \in Requests PROVE Sent(r)' = Sent(r) /\ Unsent(r)' = Unsent(r)
  BY DEF Sent, Unsent, Current
<1>2. QED
  BY <1>1 DEF CopyInv, CopiesAnsweredFor, CopiesToCome

LEMMA ApiKeepsCopies ==
  ASSUME TypeOK, IInv, CopyInv, NEW r \in Requests, ApiStep(r)
  PROVE  CopyInv'
<1> USE DEF apiVars, tableVars, workerVars
<1>0. Losses' = Losses
  BY DEF ApiStep, ReadEmail, InsertUser, CommitRegister, CommitReset, RollBack, Enqueue,
     LoseEnqueue, Fault, FaultKinds, Losses, TypeOK
<1>1. CASE CommitRegister(r) \/ CommitReset(r)
  <2>1. row[r] = "none"
    BY <1>1 DEF CommitRegister, CommitReset, IInv, RowsAreCommitted
  <2>2. /\ row' = [row EXCEPT ![r] = "pending"]
        /\ id' = [id EXCEPT ![r] = nextId]
        /\ UNCHANGED <<sent, wpc, batch, outcome>>
    BY <1>1 DEF CommitRegister, CommitReset, AddOutboxRow
  <2>3. \A w \in Workers : r \notin batch[w]
    BY <2>1 DEF IInv, BatchesHoldRows
  <2>4. ASSUME NEW q \in Requests PROVE Sent(q)' = Sent(q) /\ Unsent(q)' = Unsent(q)
    <3>1. ASSUME NEW w \in Workers PROVE Current(w, q)' <=> Current(w, q)
      <4>1. \A p \in batch[w] : p \in Requests /\ id'[p] = id[p]
        BY <2>2, <2>3 DEF TypeOK
      <4>2. QED
        BY <2>2, <4>1 DEF Current
    <3>2. QED
      BY <2>2, <3>1 DEF Sent, Unsent
  <2>5. QED
    BY <1>0, <2>1, <2>2, <2>4 DEF CopyInv, CopiesAnsweredFor, CopiesToCome, TypeOK
<1>2. CASE ~(CommitRegister(r) \/ CommitReset(r))
  <2>1. UNCHANGED <<row, id, sent, wpc, batch, outcome>>
    BY <1>2 DEF ApiStep, ReadEmail, InsertUser, RollBack, Enqueue, LoseEnqueue
  <2>2. QED
    BY <1>0, <2>1, QuietStepKeepsCopies
<1>3. QED
  BY <1>1, <1>2

(* A slot that is emptied answers for one copy less, and is paid for by    *)
(* the fault that emptied it, unless its batch was already done.           *)
LEMMA ReleaseKeepsCopies ==
  ASSUME TypeOK, IInv, CopyInv, NEW w \in Workers, Release(w),
         UNCHANGED <<row, id, sent>>,
         Losses' = Losses + 1 \/ (batch[w] = {} /\ Losses' = Losses)
  PROVE  CopyInv'
<1>1. ASSUME NEW r \in Requests
      PROVE  Sent(r)' = Sent(r) \ {w} /\ Unsent(r)' = Unsent(r) \ {w}
  <2>1. ASSUME NEW v \in Workers \ {w}
        PROVE  outcome'[v] = outcome[v] /\ batch'[v] = batch[v] /\ (Current(v, r)' <=> Current(v, r))
    BY <2>1 DEF Release, TypeOK, Current
  <2>2. outcome'[w] = "none" /\ batch'[w] = {}
    BY DEF Release, TypeOK
  <2>3. QED
    BY <2>1, <2>2 DEF Sent, Unsent
<1>2. batch[w] = {} => \A r \in Requests : w \notin Sent(r)
  BY DEF Sent, Current
<1>3. Losses \in Nat
  BY DEF Losses, TypeOK, FaultKinds
<1>4. ASSUME NEW r \in Requests
      PROVE  /\ Cardinality(Sent(r)') \in Nat
             /\ Cardinality(Unsent(r)') \in Nat
             /\ Cardinality(Unsent(r)') <= Cardinality(Unsent(r))
             /\ Cardinality(Sent(r)) <= Cardinality(Sent(r)') + 1
             /\ batch[w] = {} => Cardinality(Sent(r)) = Cardinality(Sent(r)')
  <2>1. IsFiniteSet(Sent(r)) /\ IsFiniteSet(Unsent(r))
        /\ Cardinality(Sent(r)) \in Nat /\ Cardinality(Unsent(r)) \in Nat
    BY CountsAreNat
  <2>2. /\ IsFiniteSet(Sent(r) \ {w}) /\ IsFiniteSet(Unsent(r) \ {w})
        /\ Cardinality(Sent(r) \ {w})
             = IF w \in Sent(r) THEN Cardinality(Sent(r)) - 1 ELSE Cardinality(Sent(r))
        /\ Cardinality(Unsent(r) \ {w})
             = IF w \in Unsent(r) THEN Cardinality(Unsent(r)) - 1 ELSE Cardinality(Unsent(r))
    BY <2>1, FS_RemoveElement
  <2>3. Cardinality(Sent(r) \ {w}) \in Nat /\ Cardinality(Unsent(r) \ {w}) \in Nat
    BY <2>2, FS_CardinalityType
  <2>4. Sent(r)' = Sent(r) \ {w} /\ Unsent(r)' = Unsent(r) \ {w}
    BY <1>1
  <2>5. batch[w] = {} => w \notin Sent(r)
    BY <1>2
  <2>6. Cardinality(Sent(r) \ {w}) <= Cardinality(Sent(r))
        /\ Cardinality(Sent(r)) <= Cardinality(Sent(r) \ {w}) + 1
        /\ Cardinality(Unsent(r) \ {w}) <= Cardinality(Unsent(r))
    BY <2>1, <2>2
  <2>7. batch[w] = {} => Cardinality(Sent(r)) = Cardinality(Sent(r) \ {w})
    BY <2>2, <2>5
  <2>8. QED
    BY <2>3, <2>4, <2>6, <2>7
<1>5. QED
  <2>1. ASSUME NEW r \in Requests
        PROVE  /\ row'[r] \in {"none", "pending"} =>
                     sent'[r] <= Losses' + Cardinality(Sent(r)')
               /\ sent'[r] + Cardinality(Unsent(r)') <= Losses' + Cardinality(Workers)
    <3>1. sent[r] \in Nat /\ Cardinality(Sent(r)) \in Nat /\ Cardinality(Unsent(r)) \in Nat
          /\ Cardinality(Workers) \in Nat
      BY CountsAreNat DEF TypeOK
    <3>2. /\ row[r] \in {"none", "pending"} => sent[r] <= Losses + Cardinality(Sent(r))
          /\ sent[r] + Cardinality(Unsent(r)) <= Losses + Cardinality(Workers)
      BY DEF CopyInv, CopiesAnsweredFor, CopiesToCome
    <3>3. QED
      BY <1>3, <1>4, <3>1, <3>2
  <2>2. QED
    BY <2>1 DEF CopyInv, CopiesAnsweredFor, CopiesToCome

LEMMA JobKeepsCopies ==
  ASSUME TypeOK, IInv, CopyInv, NEW w \in Workers, JobStep(w)
  PROVE  CopyInv'
<1> USE DEF apiVars, tableVars, workerVars
<1>0. Losses \in Nat
  BY DEF Losses, TypeOK, FaultKinds
<1>1. CASE Fetch(w)
  <2>1. PICK B \in SUBSET FetchableRows(w) : batch' = [batch EXCEPT ![w] = B]
    BY <1>1 DEF Fetch
  <2>2. /\ wpc[w] = "idle" /\ wpc' = [wpc EXCEPT ![w] = "fetching"]
        /\ UNCHANGED <<row, id, outcome, sent, faults>>
    BY <1>1 DEF Fetch
  <2>3. \A r \in B : row[r] = "pending"
    BY <2>1 DEF FetchableRows
  <2>4. batch[w] = {} /\ outcome[w] = "none"
    BY <2>2 DEF IInv, BatchesHoldRows
  <2>5. ASSUME NEW r \in Requests
        PROVE  /\ Sent(r)' = Sent(r)
               /\ r \notin B => Unsent(r)' = Unsent(r)
    <3>1. ASSUME NEW v \in Workers \ {w}
          PROVE  batch'[v] = batch[v] /\ (Current(v, r)' <=> Current(v, r))
      BY <2>1, <2>2, <3>1 DEF TypeOK, Current
    <3>2. ~Current(w, r) /\ ~Current(w, r)' /\ batch'[w] = B
      BY <2>1, <2>2 DEF TypeOK, Current
    <3>3. QED
      BY <2>2, <2>4, <3>1, <3>2 DEF Sent, Unsent
  <2>6. Losses' = Losses
    BY <2>2 DEF Losses
  <2>7. CopiesAnsweredFor'
    BY <2>2, <2>5, <2>6 DEF CopyInv, CopiesAnsweredFor
  <2>8. ASSUME NEW r \in Requests
        PROVE  sent'[r] + Cardinality(Unsent(r)') <= Losses' + Cardinality(Workers)
    <3>1. CASE r \notin B
      BY <2>2, <2>5, <2>6, <3>1 DEF CopyInv, CopiesToCome
    <3>2. CASE r \in B
      <4>1. sent[r] <= Losses + Cardinality(Sent(r))
        BY <2>3, <3>2 DEF CopyInv, CopiesAnsweredFor
      <4>2. IsFiniteSet(Unsent(r)') /\ Cardinality(Sent(r)) + Cardinality(Unsent(r)') <= Cardinality(Workers)
        <5>1. Unsent(r)' \in SUBSET Workers /\ Sent(r) \in SUBSET Workers
              /\ Sent(r) \cup Unsent(r)' \in SUBSET Workers /\ Sent(r) \cap Unsent(r)' = {}
          BY <2>5 DEF Sent, Unsent
        <5>2. IsFiniteSet(Workers) /\ IsFiniteSet(Sent(r)) /\ IsFiniteSet(Unsent(r)')
          BY <5>1, OutboxAssumption, FS_Subset
        <5>3. Cardinality(Sent(r) \cup Unsent(r)')
                = Cardinality(Sent(r)) + Cardinality(Unsent(r)') - Cardinality(Sent(r) \cap Unsent(r)')
          BY <5>2, FS_Union
        <5>4. Cardinality(Sent(r) \cap Unsent(r)') = 0
          BY <5>1, FS_EmptySet
        <5>5. Cardinality(Sent(r) \cup Unsent(r)') <= Cardinality(Workers)
          BY <5>1, <5>2, FS_Subset
        <5>6. QED
          BY <5>2, <5>3, <5>4, <5>5, FS_CardinalityType
      <4>3. /\ sent[r] \in Nat /\ Cardinality(Sent(r)) \in Nat
            /\ Cardinality(Unsent(r)') \in Nat /\ Cardinality(Workers) \in Nat
        BY <4>2, CountsAreNat, FS_CardinalityType DEF TypeOK
      <4>4. QED
        BY <1>0, <2>2, <2>6, <4>1, <4>2, <4>3
    <3>3. QED
      BY <3>1, <3>2
  <2>9. QED
    BY <2>7, <2>8 DEF CopyInv, CopiesToCome
<1>2. CASE CloseFetch(w)
  <2>1. outcome[w] = "none" /\ UNCHANGED <<row, id, batch, outcome, sent, faults>>
        /\ wpc' = [wpc EXCEPT ![w] = "relaying"]
    BY <1>2 DEF CloseFetch, IInv, BatchesHoldRows
  <2>2. ASSUME NEW r \in Requests PROVE Sent(r)' = Sent(r) /\ Unsent(r)' = Unsent(r)
    BY <2>1 DEF Sent, Unsent, Current, TypeOK
  <2>3. QED
    BY <2>1, <2>2 DEF CopyInv, CopiesAnsweredFor, CopiesToCome, Losses
<1>3. ASSUME NEW r \in Requests, HandleOk(w, r) \/ HandleError(w, r) PROVE CopyInv'
  <2>1. /\ Current(w, r) /\ outcome[w] = "none"
        /\ UNCHANGED <<row, id, wpc, batch>>
        /\ outcome' = [outcome EXCEPT ![w] = "ok"] \/ outcome' = [outcome EXCEPT ![w] = "error"]
        /\ sent' = sent \/ sent' = [sent EXCEPT ![r] = @ + 1]
    BY <1>3 DEF HandleOk, HandleError
  <2>2. Losses' = Losses
    BY <1>3 DEF HandleOk, HandleError, Fault, FaultKinds, Losses, TypeOK
  <2>3. ASSUME NEW q \in Requests, NEW v \in Workers PROVE Current(v, q)' <=> Current(v, q)
    BY <2>1 DEF Current
  <2>4. Sent(r)' = Sent(r) \cup {w} /\ w \notin Sent(r)
    BY <2>1, <2>3 DEF Sent, TypeOK
  <2>5. Unsent(r)' = Unsent(r) \ {w} /\ w \in Unsent(r)
    BY <2>1, <2>3, <2>4 DEF Unsent, Current, Sent, TypeOK
  <2>6. ASSUME NEW q \in Requests, q # r PROVE Sent(q)' = Sent(q) /\ Unsent(q)' = Unsent(q)
    <3>1. ~Current(w, q)
      BY <2>1, <2>6, CurrentIsUnique
    <3>2. QED
      BY <2>1, <2>3, <3>1 DEF Sent, Unsent, TypeOK
  <2>7. /\ Cardinality(Sent(r)') = Cardinality(Sent(r)) + 1
        /\ Cardinality(Unsent(r)') = Cardinality(Unsent(r)) - 1
    BY <2>4, <2>5, CountsAreNat, FS_AddElement, FS_RemoveElement
  <2>8. ASSUME NEW q \in Requests
        PROVE  /\ row'[q] \in {"none", "pending"} =>
                     sent'[q] <= Losses' + Cardinality(Sent(q)')
               /\ sent'[q] + Cardinality(Unsent(q)') <= Losses' + Cardinality(Workers)
    <3>1. sent[q] \in Nat /\ Cardinality(Sent(q)) \in Nat /\ Cardinality(Unsent(q)) \in Nat
          /\ Cardinality(Workers) \in Nat
      BY CountsAreNat DEF TypeOK
    <3>2. /\ row[q] \in {"none", "pending"} => sent[q] <= Losses + Cardinality(Sent(q))
          /\ sent[q] + Cardinality(Unsent(q)) <= Losses + Cardinality(Workers)
      BY DEF CopyInv, CopiesAnsweredFor, CopiesToCome
    <3>3. CASE q = r
      <4>1. sent'[r] <= sent[r] + 1 /\ sent'[r] \in Nat
        BY <2>1 DEF TypeOK
      <4>2. QED
        BY <1>0, <2>1, <2>2, <2>7, <3>1, <3>2, <3>3, <4>1
    <3>4. CASE q # r
      BY <2>1, <2>2, <2>6, <3>2, <3>4 DEF TypeOK
    <3>5. QED
      BY <3>3, <3>4
  <2>9. QED
    BY <2>8 DEF CopyInv, CopiesAnsweredFor, CopiesToCome
<1>4. ASSUME NEW r \in Requests, Mark(w, r) PROVE CopyInv'
  <2>1. /\ Current(w, r) /\ outcome[w] # "none"
        /\ row'[r] \in {"processed", "failed"} /\ \A q \in Requests \ {r} : row'[q] = row[q]
        /\ batch' = [batch EXCEPT ![w] = @ \ {r}] /\ outcome' = [outcome EXCEPT ![w] = "none"]
        /\ UNCHANGED <<id, wpc, sent, faults>>
    BY <1>4 DEF Mark, TypeOK
  <2>2. Losses' = Losses
    BY <2>1 DEF Losses
  <2>3. ASSUME NEW q \in Requests, NEW v \in Workers \ {w}
        PROVE  batch'[v] = batch[v] /\ outcome'[v] = outcome[v] /\ (Current(v, q)' <=> Current(v, q))
    BY <2>1, <2>3 DEF Current, TypeOK
  <2>4. outcome'[w] = "none" /\ batch'[w] = batch[w] \ {r}
    BY <2>1 DEF TypeOK
  <2>5. w \in Sent(r)
    BY <2>1 DEF Sent
  <2>6. ASSUME NEW q \in Requests PROVE Unsent(q)' = Unsent(q) /\ (q # r => Sent(q)' = Sent(q))
    <3>1. q # r => ~Current(w, q)
      BY <2>1, CurrentIsUnique
    <3>2. QED
      BY <2>3, <2>4, <2>5, <3>1 DEF Sent, Unsent
  <2>7. QED
    BY <2>1, <2>2, <2>6 DEF CopyInv, CopiesAnsweredFor, CopiesToCome
<1>5. CASE Finish(w)
  BY <1>5, ReleaseKeepsCopies DEF Finish, Losses
<1>6. CASE Crash(w)
  <2>1. Losses' = Losses + 1
    BY <1>6 DEF Crash, Fault, FaultKinds, Losses, TypeOK
  <2>2. QED
    BY <1>6, <2>1, ReleaseKeepsCopies DEF Crash
<1>7. CASE Abort(w)
  <2>1. Losses' = Losses + 1
    BY <1>7 DEF Abort, Fault, FaultKinds, Losses, TypeOK
  <2>2. QED
    BY <1>7, <2>1, ReleaseKeepsCopies DEF Abort
<1>8. QED
  BY <1>1, <1>2, <1>3, <1>4, <1>5, <1>6, <1>7 DEF JobStep

(* However many jobs relay a row and wherever they crash, no letter is     *)
(* sent more often than once per job slot and once per lost slot.          *)
THEOREM CopiesAreBounded == Spec => []CopiesBounded
<1>1. Init => CopyInv
  <2> SUFFICES ASSUME Init PROVE CopyInv
    OBVIOUS
  <2>1. Losses = 0
    BY DEF Init, Losses, FaultKinds
  <2>2. ASSUME NEW r \in Requests PROVE sent[r] = 0 /\ Unsent(r) = {}
    BY DEF Init, Unsent
  <2>3. Cardinality({}) = 0
    BY FS_EmptySet
  <2>4. QED
    BY <2>1, <2>2, <2>3, CountsAreNat DEF CopyInv, CopiesAnsweredFor, CopiesToCome
<1>2. TypeOK /\ IInv /\ CopyInv /\ [Next]_vars => CopyInv'
  <2>1. ASSUME TypeOK, IInv, CopyInv, Next PROVE CopyInv'
    BY <2>1, ApiKeepsCopies, JobKeepsCopies DEF Next
  <2>2. ASSUME TypeOK, IInv, CopyInv, UNCHANGED vars PROVE CopyInv'
    BY <2>2, QuietStepKeepsCopies DEF vars, Losses
  <2>3. QED
    BY <2>1, <2>2
<1>3. TypeOK /\ CopyInv => CopiesBounded
  <2> SUFFICES ASSUME TypeOK, CopyInv, NEW r \in Requests
               PROVE  sent[r] <= Cardinality(Workers) + faults["crash"] + faults["abort"]
    BY DEF CopiesBounded
  <2>1. sent[r] + Cardinality(Unsent(r)) <= Losses + Cardinality(Workers)
    BY DEF CopyInv, CopiesToCome
  <2>2. QED
    BY <2>1, CountsAreNat DEF Losses, TypeOK, FaultKinds
<1>4. QED
  BY <1>1, <1>2, <1>3, TypeCorrect, InvariantHolds, PTL DEF Spec

-----------------------------------------------------------------------------
(* The outbox implements the abstract promise: accounts and the letters    *)
(* they owe appear in one step and only owed letters are mailed, under     *)
(* every interleaving of calls, jobs and faults.                           *)
THEOREM OutboxKeepsPromise == Spec => KeepsPromise
<1> DEFINE owed == {r \in Requests : row[r] # "none"}
           mailed == {r \in Requests : sent[r] > 0}
<1>1. Init => Promise!PromiseInit
  BY DEF Init, Promise!PromiseInit
<1>2. ASSUME TypeOK, IInv, Next
      PROVE  Promise!PromiseNext \/ UNCHANGED Promise!promiseVars
  <2> USE <1>2 DEF TypeOK, apiVars, tableVars, workerVars
  <2>1. ASSUME UNCHANGED <<accounts, row, sent>>
        PROVE  UNCHANGED Promise!promiseVars
    BY <2>1 DEF Promise!promiseVars
  <2>2. ASSUME NEW r \in Requests, CommitRegister(r) PROVE Promise!Register(r)
    <3>1. row[r] = "none" /\ accounts[EmailOf[r]] = NoAccount
      BY <2>2 DEF CommitRegister, IInv, RowsAreCommitted, InsertIsExclusive
    <3>2. owed' = owed \cup {r}
      BY <2>2 DEF CommitRegister, AddOutboxRow
    <3>3. QED
      BY <2>2, <3>1, <3>2 DEF CommitRegister, Promise!Register
  <2>3. ASSUME NEW r \in Requests, CommitReset(r) PROVE Promise!RequestReset(r)
    <3>1. row[r] = "none" /\ accounts[EmailOf[r]] # NoAccount
      BY <2>3 DEF CommitReset, IInv, RowsAreCommitted, ResetKnowsAccount
    <3>2. owed' = owed \cup {r}
      BY <2>3 DEF CommitReset, AddOutboxRow
    <3>3. QED
      BY <2>3, <3>1, <3>2 DEF CommitReset, Promise!RequestReset
  <2>4. ASSUME NEW w \in Workers, NEW r \in Requests, HandleOk(w, r) \/ HandleError(w, r)
        PROVE  Promise!Mail(r) \/ UNCHANGED Promise!promiseVars
    <3>1. row[r] # "none"
      BY <2>4 DEF HandleOk, HandleError, Current, IInv, BatchesHoldRows
    <3>2. accounts' = accounts /\ owed' = owed
      BY <2>4 DEF HandleOk, HandleError
    <3>3. sent' = sent \/ sent' = [sent EXCEPT ![r] = @ + 1]
      BY <2>4 DEF HandleOk, HandleError
    <3>4. CASE r \in mailed
      <4>1. mailed' = mailed
        BY <3>3, <3>4
      <4>2. QED
        BY <3>2, <4>1 DEF Promise!promiseVars
    <3>5. CASE r \notin mailed
      <4>1. mailed' = mailed \/ mailed' = mailed \cup {r}
        BY <3>3, <3>5
      <4>2. QED
        BY <3>1, <3>2, <3>5, <4>1 DEF Promise!promiseVars, Promise!Mail
    <3>6. QED
      BY <3>4, <3>5
  <2>5. ASSUME NEW w \in Workers, NEW r \in Requests, Mark(w, r)
        PROVE  UNCHANGED Promise!promiseVars
    <3>1. row[r] # "none" /\ row'[r] # "none"
      BY <2>5 DEF Mark, Current, IInv, BatchesHoldRows
    <3>2. owed' = owed /\ UNCHANGED <<accounts, sent>>
      BY <2>5, <3>1 DEF Mark
    <3>3. QED
      BY <3>2 DEF Promise!promiseVars
  <2>6. ASSUME NEW r \in Requests, ApiStep(r)
        PROVE  Promise!PromiseNext \/ UNCHANGED Promise!promiseVars
    <3>1. CASE CommitRegister(r) \/ CommitReset(r)
      BY <2>2, <2>3, <3>1 DEF Promise!PromiseNext
    <3>2. CASE ~(CommitRegister(r) \/ CommitReset(r))
      <4>1. UNCHANGED <<accounts, row, sent>>
        BY <2>6, <3>2 DEF ApiStep, ReadEmail, InsertUser, RollBack, Enqueue, LoseEnqueue
      <4>2. QED
        BY <2>1, <4>1
    <3>3. QED
      BY <3>1, <3>2
  <2>7. ASSUME NEW w \in Workers, JobStep(w)
        PROVE  Promise!PromiseNext \/ UNCHANGED Promise!promiseVars
    <3>1. CASE \E r \in Requests : HandleOk(w, r) \/ HandleError(w, r) \/ Mark(w, r)
      BY <2>4, <2>5, <3>1 DEF Promise!PromiseNext
    <3>2. CASE Fetch(w) \/ CloseFetch(w) \/ Finish(w) \/ Crash(w) \/ Abort(w)
      <4>1. UNCHANGED <<accounts, row, sent>>
        BY <3>2 DEF Fetch, CloseFetch, Finish, Crash, Abort
      <4>2. QED
        BY <2>1, <4>1
    <3>3. QED
      BY <2>7, <3>1, <3>2 DEF JobStep
  <2>8. QED
    BY <2>6, <2>7 DEF Next
<1>3. UNCHANGED vars => UNCHANGED Promise!promiseVars
  BY DEF vars, Promise!promiseVars
<1>4. QED
  BY <1>1, <1>2, <1>3, TypeCorrect, InvariantHolds, PTL
  DEF Spec, KeepsPromise, Promise!PromiseSpec
=============================================================================
