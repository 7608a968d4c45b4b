------------------------------- MODULE Outbox -------------------------------
(***************************************************************************)
(* The transactional outbox of the accounts service.                       *)
(*                                                                         *)
(* API requests (RegisterUser, RequestPasswordReset) commit an aggregate   *)
(* and its outbox row in one transaction and only then enqueue a           *)
(* process_outbox job; arq jobs read a batch of pending rows, call the     *)
(* handler of each (one SMTP send) and mark the row, each mark in a        *)
(* transaction of its own.                                                 *)
(*                                                                         *)
(* PostgreSQL (unique keys, row locks, READ COMMITTED), the arq queue and  *)
(* the mail server are outside the repository; they are modelled from how  *)
(* the code uses them.                                                     *)
(***************************************************************************)
EXTENDS Naturals, FiniteSets

CONSTANTS Requests,   \* API calls, each executed once
          Emails,     \* addresses
          KindOf,     \* KindOf[r] \in Kinds: which use case r calls
          EmailOf,    \* EmailOf[r]: the (normalised) address of the call
          NoAccount,  \* the value of accounts[e] while e is free
          Workers,    \* arq job slots, over all worker processes
          Limit,      \* process_pending's batch size (100 in the code)
          Handlers,   \* kinds the composition root registers a handler for
          Budget      \* how many faults of each kind may happen

Kinds == {"register", "reset"}
FaultKinds == {"crash", "abort", "lost_enqueue", "smtp"}

ASSUME OutboxAssumption ==
  /\ IsFiniteSet(Requests)
  /\ IsFiniteSet(Workers)
  /\ KindOf \in [Requests -> Kinds]
  /\ EmailOf \in [Requests -> Emails]
  /\ NoAccount \notin Requests
  /\ Limit \in Nat \ {0}
  /\ Handlers \subseteq Kinds
  /\ Budget \in [FaultKinds -> Nat]

VARIABLES
  accounts,  \* accounts[e]: the request whose committed transaction created it
  pc,        \* pc[r]: how far the API call has come
  row,       \* row[r]: status of the outbox row of r, "none" before the commit
  id,        \* id[r]: primary key of that row, 0 while there is none
  nextId,    \* the next primary key
  jobs,      \* process_outbox jobs waiting in Redis
  wpc,       \* wpc[w]: idle, fetching (SELECT transaction open), relaying
  batch,     \* batch[w]: rows the job of w has read and not yet marked
  outcome,   \* outcome[w]: how the handler of the current message ended
  sent,      \* sent[r]: copies of the letter of r the mail server accepted
  faults     \* faults[k]: faults of kind k so far

apiVars == <<accounts, pc>>
tableVars == <<row, id, nextId>>
workerVars == <<wpc, batch, outcome>>
vars == <<accounts, pc, row, id, nextId, jobs, wpc, batch, outcome, sent, faults>>

Statuses == {"pending", "processed", "failed"}

TypeOK ==
  /\ accounts \in [Emails -> Requests \cup {NoAccount}]
  /\ pc \in [Requests -> {"start", "read", "inserted", "committed", "done", "failed"}]
  /\ row \in [Requests -> Statuses \cup {"none"}]
  /\ id \in [Requests -> Nat]
  /\ nextId \in Nat \ {0}
  /\ jobs \in Nat
  /\ wpc \in [Workers -> {"idle", "fetching", "relaying"}]
  /\ batch \in [Workers -> SUBSET Requests]
  /\ outcome \in [Workers -> {"none", "ok", "error"}]
  /\ sent \in [Requests -> Nat]
  /\ faults \in [FaultKinds -> Nat]

Init ==
  /\ accounts = [e \in Emails |-> NoAccount]
  /\ pc = [r \in Requests |-> "start"]
  /\ row = [r \in Requests |-> "none"]
  /\ id = [r \in Requests |-> 0]
  /\ nextId = 1
  /\ jobs = 0
  /\ wpc = [w \in Workers |-> "idle"]
  /\ batch = [w \in Workers |-> {}]
  /\ outcome = [w \in Workers |-> "none"]
  /\ sent = [r \in Requests |-> 0]
  /\ faults = [k \in FaultKinds |-> 0]

(* A fault of kind k, as long as the budget of its kind lasts.             *)
Fault(k) ==
  /\ faults[k] < Budget[k]
  /\ faults' = [faults EXCEPT ![k] = @ + 1]

-----------------------------------------------------------------------------
(* API side.                                                               *)

(* get_by_email: a registration stops on a taken address, a reset on an    *)
(* unknown one (silently, without enqueueing).                             *)
ReadEmail(r) ==
  /\ pc[r] = "start"
  /\ LET taken == accounts[EmailOf[r]] # NoAccount
         goesOn == IF KindOf[r] = "register" THEN ~taken ELSE taken
     IN pc' = [pc EXCEPT ![r] = IF goesOn THEN "read" ELSE "done"]
  /\ UNCHANGED <<accounts, tableVars, jobs, workerVars, sent, faults>>

(* Mutant: no unique key on users.email, the pre-check alone decides.      *)
InsertUserWithoutUniqueKey(r) ==
  /\ KindOf[r] = "register"
  /\ pc[r] = "read"
  /\ pc' = [pc EXCEPT ![r] = "inserted"]
  /\ UNCHANGED <<accounts, tableVars, jobs, workerVars, sent, faults>>

(* users.add flushes an INSERT: it waits while another open transaction    *)
(* holds the same unique email, and raises when that one has committed.    *)
InsertUser(r) ==
  /\ KindOf[r] = "register"
  /\ pc[r] = "read"
  /\ \A q \in Requests : EmailOf[q] = EmailOf[r] => pc[q] # "inserted"
  /\ pc' = [pc EXCEPT ![r] =
              IF accounts[EmailOf[r]] = NoAccount THEN "inserted" ELSE "failed"]
  /\ UNCHANGED <<accounts, tableVars, jobs, workerVars, sent, faults>>

(* The rows commit() adds: the domain event becomes a pending outbox row.  *)
AddOutboxRow(r) ==
  /\ row' = [row EXCEPT ![r] = "pending"]
  /\ id' = [id EXCEPT ![r] = nextId]
  /\ nextId' = nextId + 1

(* Mutant: the outbox row is committed in a transaction of its own, and    *)
(* the one with the aggregate is rolled back.                              *)
CommitRowOnly(r) ==
  /\ KindOf[r] = "register"
  /\ pc[r] = "inserted"
  /\ AddOutboxRow(r)
  /\ pc' = [pc EXCEPT ![r] = "committed"]
  /\ UNCHANGED <<accounts, jobs, workerVars, sent, faults>>

(* UnitOfWork.commit: aggregate and event in the same transaction.         *)
CommitRegister(r) ==
  /\ KindOf[r] = "register"
  /\ pc[r] = "inserted"
  /\ accounts' = [accounts EXCEPT ![EmailOf[r]] = r]
  /\ AddOutboxRow(r)
  /\ pc' = [pc EXCEPT ![r] = "committed"]
  /\ UNCHANGED <<jobs, workerVars, sent, faults>>

CommitReset(r) ==
  /\ KindOf[r] = "reset"
  /\ pc[r] = "read"
  /\ AddOutboxRow(r)
  /\ pc' = [pc EXCEPT ![r] = "committed"]
  /\ UNCHANGED <<accounts, jobs, workerVars, sent, faults>>

(* The API process dies, or the statement raises, before the commit.       *)
RollBack(r) ==
  /\ pc[r] \in {"read", "inserted"}
  /\ pc' = [pc EXCEPT ![r] = "failed"]
  /\ UNCHANGED <<accounts, tableVars, jobs, workerVars, sent, faults>>

(* Mutant: the job is enqueued under a fixed job id, so that the enqueue   *)
(* is dropped while such a job is running.                                 *)
EnqueueUnderFixedJobId(r) ==
  /\ pc[r] = "committed"
  /\ jobs' = IF \A w \in Workers : wpc[w] = "idle" THEN jobs + 1 ELSE jobs
  /\ pc' = [pc EXCEPT ![r] = "done"]
  /\ UNCHANGED <<accounts, tableVars, workerVars, sent, faults>>

(* queue.enqueue("process_outbox"), a separate call after the commit.      *)
Enqueue(r) ==
  /\ pc[r] = "committed"
  /\ jobs' = jobs + 1
  /\ pc' = [pc EXCEPT ![r] = "done"]
  /\ UNCHANGED <<accounts, tableVars, workerVars, sent, faults>>

(* Redis does not answer, or the API process dies between the commit and   *)
(* the enqueue: the caller sees an error, the row stays.                   *)
LoseEnqueue(r) ==
  /\ pc[r] = "committed"
  /\ Fault("lost_enqueue")
  /\ pc' = [pc EXCEPT ![r] = "failed"]
  /\ UNCHANGED <<accounts, tableVars, jobs, workerVars, sent>>

-----------------------------------------------------------------------------
(* Worker side.                                                            *)

(* Rows locked by a SELECT ... FOR UPDATE whose session is still open.     *)
LockedRows(w) ==
  UNION {batch[v] : v \in {v \in Workers \ {w} : wpc[v] = "fetching"}}

FetchableRows(w) == {r \in Requests : row[r] = "pending"} \ LockedRows(w)

(* B is what ORDER BY id LIMIT Limit keeps of the set R.                   *)
IsFirstRows(B, R) ==
  /\ B \subseteq R
  /\ Cardinality(B) <= Limit
  /\ B # R => Cardinality(B) = Limit
  /\ \A r \in B, q \in R \ B : id[r] < id[q]

(* A job starts: fetch_unprocessed locks the first pending rows.           *)
Fetch(w) ==
  /\ wpc[w] = "idle"
  /\ jobs > 0
  /\ jobs' = jobs - 1
  /\ \E B \in SUBSET FetchableRows(w) :
        /\ IsFirstRows(B, FetchableRows(w))
        /\ batch' = [batch EXCEPT ![w] = B]
  /\ wpc' = [wpc EXCEPT ![w] = "fetching"]
  /\ UNCHANGED <<apiVars, tableVars, outcome, sent, faults>>

(* The session of fetch_unprocessed closes: the row locks are gone before  *)
(* the first handler runs, the rows are still pending.                     *)
CloseFetch(w) ==
  /\ wpc[w] = "fetching"
  /\ wpc' = [wpc EXCEPT ![w] = "relaying"]
  /\ UNCHANGED <<apiVars, tableVars, jobs, batch, outcome, sent, faults>>

(* r is the message the loop of process_pending is at.                     *)
Current(w, r) ==
  /\ wpc[w] = "relaying"
  /\ r \in batch[w]
  /\ \A q \in batch[w] : id[r] <= id[q]

(* The handler sends the letter; without a handler nothing is sent and the *)
(* message counts as handled.                                              *)
HandleOk(w, r) ==
  /\ Current(w, r)
  /\ outcome[w] = "none"
  /\ outcome' = [outcome EXCEPT ![w] = "ok"]
  /\ sent' = IF KindOf[r] \in Handlers THEN [sent EXCEPT ![r] = @ + 1] ELSE sent
  /\ UNCHANGED <<apiVars, tableVars, jobs, wpc, batch, faults>>

(* Mutant: the handler's exception is swallowed.                           *)
HandleErrorSwallowed(w, r) ==
  /\ Current(w, r)
  /\ outcome[w] = "none"
  /\ KindOf[r] \in Handlers
  /\ Fault("smtp")
  /\ outcome' = [outcome EXCEPT ![w] = "ok"]
  /\ sent' \in {sent, [sent EXCEPT ![r] = @ + 1]}
  /\ UNCHANGED <<apiVars, tableVars, jobs, wpc, batch>>

(* Mutant: a handler that raised is called again at once.                  *)
HandleErrorRetried(w, r) ==
  /\ Current(w, r)
  /\ outcome[w] = "none"
  /\ KindOf[r] \in Handlers
  /\ Fault("smtp")
  /\ sent' \in {sent, [sent EXCEPT ![r] = @ + 1]}
  /\ UNCHANGED <<apiVars, tableVars, jobs, wpc, batch, outcome>>

(* The handler raises: the mail server refused the letter, or accepted it  *)
(* and the answer was lost.                                                *)
HandleError(w, r) ==
  /\ Current(w, r)
  /\ outcome[w] = "none"
  /\ KindOf[r] \in Handlers
  /\ Fault("smtp")
  /\ outcome' = [outcome EXCEPT ![w] = "error"]
  /\ sent' \in {sent, [sent EXCEPT ![r] = @ + 1]}
  /\ UNCHANGED <<apiVars, tableVars, jobs, wpc, batch>>

(* mark_processed / mark_failed: whatever the row says now is overwritten. *)
(* The UPDATE waits for a SELECT ... FOR UPDATE that holds the row.        *)
Mark(w, r) ==
  /\ Current(w, r)
  /\ outcome[w] # "none"
  /\ r \notin LockedRows(w)
  /\ row' = [row EXCEPT ![r] = IF outcome[w] = "ok" THEN "processed" ELSE "failed"]
  /\ batch' = [batch EXCEPT ![w] = @ \ {r}]
  /\ outcome' = [outcome EXCEPT ![w] = "none"]
  /\ UNCHANGED <<apiVars, id, nextId, jobs, wpc, sent, faults>>

(* The slot is empty again.                                                *)
Release(w) ==
  /\ wpc' = [wpc EXCEPT ![w] = "idle"]
  /\ batch' = [batch EXCEPT ![w] = {}]
  /\ outcome' = [outcome EXCEPT ![w] = "none"]

(* process_pending returns.                                                *)
Finish(w) ==
  /\ wpc[w] = "relaying"
  /\ batch[w] = {}
  /\ Release(w)
  /\ UNCHANGED <<apiVars, tableVars, jobs, sent, faults>>

(* The worker process dies or is redeployed: arq runs the job again.       *)
Crash(w) ==
  /\ wpc[w] # "idle"
  /\ Fault("crash")
  /\ jobs' = jobs + 1
  /\ Release(w)
  /\ UNCHANGED <<apiVars, tableVars, sent>>

(* The job itself raises (arq's job timeout, a failing mark): no try is    *)
(* left, what the batch still held stays pending.                          *)
Abort(w) ==
  /\ wpc[w] # "idle"
  /\ Fault("abort")
  /\ Release(w)
  /\ UNCHANGED <<apiVars, tableVars, jobs, sent>>

-----------------------------------------------------------------------------
ApiStep(r) ==
  \/ ReadEmail(r)
  \/ InsertUser(r)
  \/ CommitRegister(r)
  \/ CommitReset(r)
  \/ RollBack(r)
  \/ Enqueue(r)
  \/ LoseEnqueue(r)

JobStep(w) ==
  \/ Fetch(w)
  \/ CloseFetch(w)
  \/ \E r \in Requests : HandleOk(w, r) \/ HandleError(w, r) \/ Mark(w, r)
  \/ Finish(w)
  \/ Crash(w)
  \/ Abort(w)

Next == (\E r \in Requests : ApiStep(r)) \/ (\E w \in Workers : JobStep(w))

Spec == Init /\ [][Next]_vars

(* What the event loop and arq give: an enabled step of a call or of a job *)
(* is eventually taken.  Faults are never forced.                          *)
Fairness ==
  /\ \A r \in Requests :
        WF_vars(ReadEmail(r) \/ InsertUser(r) \/ CommitRegister(r)
                  \/ CommitReset(r) \/ Enqueue(r))
  /\ \A w \in Workers :
        WF_vars(Fetch(w) \/ CloseFetch(w) \/ Finish(w)
                  \/ \E r \in Requests : HandleOk(w, r) \/ Mark(w, r))

FairSpec == Spec /\ Fairness

-----------------------------------------------------------------------------
(* Properties.                                                             *)

(* A verification letter goes only to the account its own registration     *)
(* created: of two racing registrations of one address the loser's letter, *)
(* with a token nobody can redeem, is never sent (RegisterUser.execute,    *)
(* SqlAlchemyUnitOfWork.commit).                                           *)
LetterBelongsToAccount ==
  \A r \in Requests :
    sent[r] > 0 => /\ accounts[EmailOf[r]] # NoAccount
                   /\ KindOf[r] = "register" => accounts[EmailOf[r]] = r

(* A row is marked processed only after its letter was accepted by the     *)
(* mail server, however many workers relay it and wherever they crash      *)
(* (OutboxProcessor._handle marks after the handler, not before).          *)
ProcessedWasMailed ==
  \A r \in Requests :
    (row[r] = "processed" /\ KindOf[r] \in Handlers) => sent[r] > 0

(* Somebody still has to come for the row of r: a job that has it, a job   *)
(* in the queue, or a request about to put one there.                      *)
Awaited(r) ==
  \/ \E q \in Requests : pc[q] = "committed"
  \/ jobs > 0
  \/ \E w \in Workers : r \in batch[w]

(* No wake-up is lost except by the two faults that drop one: while no     *)
(* enqueue was lost and no job aborted, every pending row has a batch that *)
(* holds it, a queued job, or a request about to enqueue one.  Needs a     *)
(* batch large enough for every pending row (Limit): overlapping jobs may  *)
(* spend themselves on the first rows, read or skipped as locked, and      *)
(* process_pending enqueues no successor for the rows behind them.         *)
NoLostWakeUp ==
  (/\ faults["lost_enqueue"] = 0
   /\ faults["abort"] = 0
   /\ Cardinality(Requests) <= Limit) =>
    \A r \in Requests : row[r] = "pending" => Awaited(r)

(* How many copies of a letter can go out: one per job slot that read the  *)
(* row before the first of them marked it, and one more per crash or abort *)
(* between sending and marking.  A single slot without faults sends each   *)
(* letter once (process_pending, fetch_unprocessed).                       *)
CopiesBounded ==
  \A r \in Requests :
    sent[r] <= Cardinality(Workers) + faults["crash"] + faults["abort"]

(* Every committed letter is eventually dealt with.  Stated by README and  *)
(* ports/uow.py without a condition; the code needs the enqueue to succeed *)
(* and no job to abort.                                                    *)
EveryRowRelayed ==
  \A r \in Requests : row[r] = "pending" ~> row[r] # "pending"

(* What the code does give: while no enqueue is lost and no job aborts,    *)
(* every committed letter is dealt with, whatever crashes (arq runs the    *)
(* job again) and fails (its row is marked), if one batch has room for all *)
(* that is pending.                                                        *)
RelayedUnlessDropped ==
  Cardinality(Requests) <= Limit /\ [](faults["lost_enqueue"] = 0 /\ faults["abort"] = 0)
    => EveryRowRelayed

-----------------------------------------------------------------------------
(* The outbox keeps the promise of MailPromise.                            *)
Promise == INSTANCE MailPromise WITH
  owed <- {r \in Requests : row[r] # "none"},
  mailed <- {r \in Requests : sent[r] > 0}

(* Every behaviour of the outbox is one of the abstract promise: account   *)
(* and debt appear together, and nothing is mailed that is not owed.       *)
KeepsPromise == Promise!PromiseSpec
=============================================================================
