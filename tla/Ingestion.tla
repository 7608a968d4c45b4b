----------------------------- MODULE Ingestion -----------------------------
(***************************************************************************)
(* The ingestion pipeline: LoadSource writes the drafts of a source into   *)
(* raw_events and enqueues a normalize job; NormalizeRawEvents takes a     *)
(* batch of raws and, in ONE transaction for the whole batch, asks the LLM *)
(* about each, detects duplicates and inserts events and topics.           *)
(*                                                                         *)
(* PostgreSQL at READ COMMITTED (row locks, unique keys, deadlock victims) *)
(* and arq are outside the repository and modelled from their use.  A step *)
(* is what happens between two awaits that other transactions can notice.  *)
(***************************************************************************)
EXTENDS Naturals, FiniteSets

CONSTANTS Drafts,     \* items of the sources, numbered in site order
          SourceOf,   \* SourceOf[d]: the source that lists d
          UrlOf,      \* UrlOf[d]: its source_url (sources may share one)
          StoryOf,    \* StoryOf[d]: the real-world event it announces
          Judge,      \* Judge[d][e]: what the rule says of d against the event e
          Distance,   \* Distance[d][e]: of their embeddings
          TopicOf,    \* TopicOf[d]: the topic code the LLM gives it
          Loaders,    \* concurrent runs of LoadSource
          Normalizers,\* concurrent runs of NormalizeRawEvents
          Limit,      \* normalize_batch_size
          MaxRetries, \* max_normalize_retries
          Candidates, \* dedup_candidates
          Budget      \* how often each occasion may arise

(* Bounded occasions: loads, operator-run normalizations, and the faults;  *)
(* "arbiter" is a wrong answer of the duplicate arbiter, or none.          *)
Occasions == {"load", "manual", "llm", "embed", "arbiter", "crash", "timeout",
              "lost_enqueue", "broken_load"}

(* find_similar does not return a "far" event (similarity or dates); of    *)
(* the others judge_duplicate decides, and leaves the "uncertain" ones to  *)
(* the arbiter.  With the arbiter switched off they are "distinct", with   *)
(* semantic deduplication off all are "far".                               *)
Judgements == {"far", "distinct", "uncertain", "duplicate"}

ASSUME IngestionAssumption ==
  /\ Drafts \subseteq Nat /\ IsFiniteSet(Drafts)
  /\ IsFiniteSet(Normalizers)
  /\ Limit \in Nat \ {0}
  /\ MaxRetries \in Nat \ {0}
  /\ Candidates \in Nat
  /\ Judge \in [Drafts -> [Drafts -> Judgements]]
  /\ Distance \in [Drafts -> [Drafts -> Nat]]
  /\ Budget \in [Occasions -> Nat]

VARIABLES
  status,     \* status[d]: column of its raw_events row, "absent" without one
  retries,    \* retries[d]: retry_count
  id,         \* id[d]: primary key of the row, 0 while there is none
  nextId,     \* the next primary key
  events,     \* drafts that became committed events
  vectors,    \* committed events that have an embedding
  topics,     \* committed topic codes
  jobs,       \* normalize_raw_events jobs waiting in Redis
  load,       \* load[l]: the LoadSource run of l
  tx,         \* tx[n]: the normalization of n and its uncommitted writes
  asked,      \* asked[d]: LLM calls about d (history)
  unsure,     \* drafts whose last comparison may have missed a twin (history)
  rollbacks,  \* normalizations rolled back (history)
  spent       \* spent[k]: occasions of kind k so far

rawVars == <<status, retries>>
idVars == <<id, nextId>>
eventVars == <<events, vectors, topics>>
history == <<asked, unsure, rollbacks>>
vars == <<status, retries, id, nextId, events, vectors, topics, jobs, load, tx,
          asked, unsure, rollbacks, spent>>

Closed == {"normalized", "duplicate", "non_it"}
Verdicts == Closed \cup {"failed"}
Statuses == Verdicts \cup {"absent", "raw"}
Topics == {TopicOf[d] : d \in Drafts}

NoLoad == [phase |-> "idle", drafts |-> {}]
LoadStates == [phase : {"idle", "checked", "inserted", "loaded"}, drafts : SUBSET Drafts]

(* todo: raws of the batch still to process, the smallest id is current;   *)
(* stage: how far the current raw has come; vector: whether it has one;    *)
(* near: the candidates it is still to be judged against; made,            *)
(* madeVectors, madeTopics, verdict: the transaction's own writes.         *)
NoTx == [phase |-> "idle", manual |-> FALSE, full |-> FALSE, progress |-> FALSE,
         todo |-> {}, stage |-> "next", vector |-> FALSE, near |-> {},
         made |-> {}, madeVectors |-> {}, madeTopics |-> {},
         verdict |-> [d \in Drafts |-> "none"]]
TxStates ==
  [phase : {"idle", "working", "committed"}, manual : BOOLEAN, full : BOOLEAN,
   progress : BOOLEAN, todo : SUBSET Drafts,
   stage : {"next", "novel", "judging", "distinct", "linked"}, vector : BOOLEAN,
   near : SUBSET Drafts, made : SUBSET Drafts, madeVectors : SUBSET Drafts,
   madeTopics : SUBSET Topics,
   verdict : [Drafts -> Verdicts \cup {"none"}]]

TypeOK ==
  /\ status \in [Drafts -> Statuses]
  /\ retries \in [Drafts -> 0..MaxRetries]
  /\ id \in [Drafts -> Nat]
  /\ nextId \in Nat \ {0}
  /\ events \subseteq Drafts
  /\ vectors \subseteq events
  /\ topics \subseteq Topics
  /\ jobs \in Nat
  /\ load \in [Loaders -> LoadStates]
  /\ tx \in [Normalizers -> TxStates]
  /\ asked \in [Drafts -> Nat]
  /\ unsure \subseteq Drafts
  /\ rollbacks \in Nat
  /\ spent \in [Occasions -> Nat]

Init ==
  /\ status = [d \in Drafts |-> "absent"]
  /\ retries = [d \in Drafts |-> 0]
  /\ id = [d \in Drafts |-> 0]
  /\ nextId = 1
  /\ events = {} /\ vectors = {} /\ topics = {}
  /\ jobs = 0
  /\ load = [l \in Loaders |-> NoLoad]
  /\ tx = [n \in Normalizers |-> NoTx]
  /\ asked = [d \in Drafts |-> 0]
  /\ unsure = {}
  /\ rollbacks = 0
  /\ spent = [k \in Occasions |-> 0]

(* One more occasion of kind k, while its budget lasts.                    *)
Spend(k) ==
  /\ spent[k] < Budget[k]
  /\ spent' = [spent EXCEPT ![k] = @ + 1]

-----------------------------------------------------------------------------
(* LoadSource.                                                             *)

(* The source answers with some of its drafts; add_if_absent's SELECT      *)
(* keeps those with no committed row.                                      *)
CheckAbsent(l) ==
  /\ load[l].phase = "idle"
  /\ Spend("load")
  /\ \E D \in SUBSET Drafts :
       /\ D # {}
       /\ \A d, e \in D : SourceOf[d] = SourceOf[e]
       /\ load' = [load EXCEPT ![l] =
            [phase |-> "checked", drafts |-> {d \in D : status[d] = "absent"}]]
  /\ UNCHANGED <<rawVars, idVars, eventVars, jobs, tx, history>>

(* The INSERTs, in site order: they wait for another load that holds the   *)
(* same (source, source_url) and go through only while it is still free.   *)
InsertRaws(l) ==
  LET D == load[l].drafts
  IN /\ load[l].phase = "checked"
     /\ \A m \in Loaders : load[m].phase = "inserted" => load[m].drafts \cap D = {}
     /\ \A d \in D : status[d] = "absent"
     /\ id' = [d \in Drafts |->
                 IF d \in D THEN nextId + Cardinality({e \in D : e < d}) ELSE id[d]]
     /\ nextId' = nextId + Cardinality(D)
     /\ load' = [load EXCEPT ![l].phase = "inserted"]
     /\ UNCHANGED <<rawVars, eventVars, jobs, tx, history, spent>>

(* Another load has committed one of them: IntegrityError, the source is   *)
(* counted as failed and the others go on.                                 *)
LoadClash(l) ==
  /\ load[l].phase = "checked"
  /\ \E d \in load[l].drafts : status[d] # "absent"
  /\ load' = [load EXCEPT ![l] = NoLoad]
  /\ UNCHANGED <<rawVars, idVars, eventVars, jobs, tx, history, spent>>

(* The process dies, or a statement raises, before the commit.             *)
LoadFails(l) ==
  /\ load[l].phase \in {"checked", "inserted"}
  /\ Spend("broken_load")
  /\ id' = [d \in Drafts |->
              IF load[l].phase = "inserted" /\ d \in load[l].drafts THEN 0 ELSE id[d]]
  /\ load' = [load EXCEPT ![l] = NoLoad]
  /\ UNCHANGED <<rawVars, nextId, eventVars, jobs, tx, history>>

(* The commit; a load that added nothing has nothing to enqueue.           *)
CommitLoad(l) ==
  LET D == load[l].drafts
  IN /\ load[l].phase = "inserted"
     /\ status' = [d \in Drafts |-> IF d \in D THEN "raw" ELSE status[d]]
     /\ load' = [load EXCEPT ![l] =
                   IF D = {} THEN NoLoad ELSE [phase |-> "loaded", drafts |-> {}]]
     /\ UNCHANGED <<retries, idVars, eventVars, jobs, tx, history, spent>>

EnqueueNormalize(l) ==
  /\ load[l].phase = "loaded"
  /\ jobs' = jobs + 1
  /\ load' = [load EXCEPT ![l] = NoLoad]
  /\ UNCHANGED <<rawVars, idVars, eventVars, tx, history, spent>>

LoseNormalize(l) ==
  /\ load[l].phase = "loaded"
  /\ Spend("lost_enqueue")
  /\ load' = [load EXCEPT ![l] = NoLoad]
  /\ UNCHANGED <<rawVars, idVars, eventVars, jobs, tx, history>>

-----------------------------------------------------------------------------
(* NormalizeRawEvents: the batch.                                          *)

(* Rows of an open transaction: locked from fetch_for_processing until the *)
(* commit, those already processed included.                               *)
InBatch(n) ==
  IF tx[n].phase = "working"
    THEN tx[n].todo \cup {d \in Drafts : tx[n].verdict[d] # "none"} ELSE {}
Locked == UNION {InBatch(n) : n \in Normalizers}

(* Mutant: a plain SELECT, without FOR UPDATE SKIP LOCKED.                 *)
FetchableUnlocked(S) == {d \in Drafts : status[d] \in S /\ retries[d] < MaxRetries}

Fetchable(S) == {d \in Drafts : status[d] \in S /\ retries[d] < MaxRetries} \ Locked

(* B is what ORDER BY id LIMIT Limit keeps of the set R.                   *)
IsFirstRows(B, R) ==
  /\ B \subseteq R
  /\ Cardinality(B) <= Limit
  /\ B # R => Cardinality(B) = Limit
  /\ \A d \in B, e \in R \ B : id[d] < id[e]

Opened(B, manual) ==
  [NoTx EXCEPT !.phase = "working", !.manual = manual, !.todo = B,
               !.full = (Cardinality(B) = Limit)]

(* The transaction opens and locks its batch of raws with a status in S.   *)
Open(n, S, manual) ==
  /\ tx[n].phase = "idle"
  /\ \E B \in SUBSET Fetchable(S) :
       /\ IsFirstRows(B, Fetchable(S))
       /\ tx' = [tx EXCEPT ![n] = Opened(B, manual)]
  /\ UNCHANGED <<rawVars, idVars, eventVars, load, history>>

StartJob(n) ==
  /\ jobs > 0
  /\ jobs' = jobs - 1
  /\ Open(n, {"raw", "failed"}, FALSE)
  /\ UNCHANGED spent

(* An operator's POST /normalize or /retry-failed: no job, no successor.   *)
StartManual(n) ==
  /\ Spend("manual")
  /\ \E S \in {{"raw", "failed"}, {"failed"}} : Open(n, S, TRUE)
  /\ UNCHANGED jobs

Current(n, d) ==
  /\ tx[n].phase = "working"
  /\ d \in tx[n].todo
  /\ \A e \in tx[n].todo : id[d] <= id[e]

(* Steps of the transaction t: the current raw goes on to a stage; a topic *)
(* or an event is inserted; the raw d is done with verdict v and counts as *)
(* progress or not.                                                        *)
Staged(t, stage, hasVector) ==
  [t EXCEPT !.stage = stage, !.vector = hasVector, !.near = {}]

Judging(t, C) == [t EXCEPT !.stage = "judging", !.vector = TRUE, !.near = C]

WithTopic(t, topic) ==
  [t EXCEPT !.stage = "linked", !.madeTopics = @ \cup {topic}]

WithEvent(t, d, hasVector) ==
  [t EXCEPT !.made = @ \cup {d},
            !.madeVectors = IF hasVector THEN @ \cup {d} ELSE @]

Concluded(t, d, v, counts) ==
  [t EXCEPT !.todo = @ \ {d}, !.stage = "next", !.vector = FALSE, !.near = {},
            !.verdict = [@ EXCEPT ![d] = v],
            !.progress = IF counts THEN TRUE ELSE @]

Conclude(n, d, v, counts) ==
  tx' = [tx EXCEPT ![n] = Concluded(tx[n], d, v, counts)]

(* What the statements of n see: committed rows and its own.               *)
(* Mutant: other transactions' rows as well.                               *)
VisibleToAll(n) == events \cup UNION {tx[m].made : m \in Normalizers}

Visible(n) == events \cup tx[n].made

-----------------------------------------------------------------------------
(* NormalizeRawEvents._process_one, at its awaits.                         *)

(* One more LLM call about the current raw d, made at this stage of it.    *)
CallLlm(n, d, stage) ==
  /\ Current(n, d)
  /\ tx[n].stage = stage
  /\ asked' = [asked EXCEPT ![d] = @ + 1]
  /\ UNCHANGED <<rawVars, idVars, eventVars, jobs, load, rollbacks>>

(* The LLM is asked to normalize d.                                        *)
Ask(n, d) == CallLlm(n, d, "next") /\ UNCHANGED unsure

(* ... and the chain raises: the raw is marked failed.                     *)
LlmFails(n, d) ==
  /\ Ask(n, d)
  /\ Spend("llm")
  /\ Conclude(n, d, "failed", FALSE)

NotAnEvent(n, d) ==
  /\ Ask(n, d)
  /\ Conclude(n, d, "non_it", TRUE)
  /\ UNCHANGED spent

(* It is an event.  exists_by_source_url closes the raw of a known URL,    *)
(* which does not count as progress.                                       *)
IsEvent(n, d) ==
  /\ Ask(n, d)
  /\ IF \E e \in Visible(n) : UrlOf[e] = UrlOf[d]
       THEN Conclude(n, d, "normalized", FALSE)
       ELSE tx' = [tx EXCEPT ![n] = Staged(tx[n], "novel", FALSE)]
  /\ UNCHANGED spent

(* Mutant: the search is confined to the batch.                            *)
NearInBatch(n, d) == {e \in tx[n].madeVectors : Judge[d][e] # "far"}

(* What find_similar's SELECT can return.                                  *)
Near(n, d) ==
  {e \in Visible(n) \cap (vectors \cup tx[n].madeVectors) : Judge[d][e] # "far"}

(* C is what ORDER BY distance LIMIT Candidates keeps of the set R;        *)
(* equally distant events come in any order.                               *)
AreCandidates(C, R, d) ==
  /\ C \subseteq R
  /\ Cardinality(C) <= Candidates
  /\ C # R => Cardinality(C) = Candidates
  /\ \A e \in C, f \in R \ C : Distance[d][e] <= Distance[d][f]

IsNearest(e, C, d) == e \in C /\ \A f \in C : Distance[d][e] <= Distance[d][f]

(* ensure_codes' SELECT: is the topic of d there, or to be inserted?       *)
LinkTopic(n, d, hasVector) ==
  LET stage == IF TopicOf[d] \in topics \cup tx[n].madeTopics
                 THEN "linked" ELSE "distinct"
  IN tx' = [tx EXCEPT ![n] = Staged(tx[n], stage, hasVector)]

(* The loop over the candidates C, nearest first, up to its next await: a  *)
(* call of the arbiter, the end as a duplicate, or ensure_codes.           *)
JudgeRest(n, d, C) ==
  \/ C = {} /\ LinkTopic(n, d, TRUE)
  \/ \E e \in C :
       /\ IsNearest(e, C, d)
       /\ \/ Judge[d][e] = "duplicate" /\ Conclude(n, d, "duplicate", TRUE)
          \/ /\ Judge[d][e] = "uncertain"
             /\ tx' = [tx EXCEPT ![n] = Judging(tx[n], C)]

(* _safe_embed and find_similar.  "distinct" candidates are passed over.   *)
Compare(n, d) ==
  /\ Current(n, d)
  /\ tx[n].stage = "novel"
  /\ \E C \in SUBSET Near(n, d) :
       /\ AreCandidates(C, Near(n, d), d)
       /\ JudgeRest(n, d, {e \in C : Judge[d][e] # "distinct"})
       /\ unsure' = IF C = Near(n, d) THEN unsure \ {d} ELSE unsure \cup {d}
  /\ UNCHANGED <<rawVars, idVars, eventVars, jobs, load, asked, rollbacks, spent>>

(* The arbiter is asked whether d and the nearest candidate e are one.     *)
AskArbiter(n, d, e) ==
  /\ CallLlm(n, d, "judging")
  /\ IsNearest(e, tx[n].near, d)
  /\ Judge[d][e] = "uncertain"

ArbiterSaysSame(n, d, e) ==
  /\ AskArbiter(n, d, e)
  /\ IF StoryOf[d] = StoryOf[e] THEN UNCHANGED spent ELSE Spend("arbiter")
  /\ Conclude(n, d, "duplicate", TRUE)
  /\ UNCHANGED unsure

(* ... or the call fails, which same_event takes for "not a duplicate".    *)
ArbiterSaysOther(n, d, e) ==
  /\ AskArbiter(n, d, e)
  /\ IF StoryOf[d] # StoryOf[e]
       THEN UNCHANGED <<spent, unsure>>
       ELSE Spend("arbiter") /\ unsure' = unsure \cup {d}
  /\ JudgeRest(n, d, tx[n].near \ {e})

Arbitrate(n, d) ==
  \E e \in tx[n].near : ArbiterSaysSame(n, d, e) \/ ArbiterSaysOther(n, d, e)

(* The embedding provider fails: no comparison, an event without a vector. *)
CompareBlind(n, d) ==
  /\ Current(n, d)
  /\ tx[n].stage = "novel"
  /\ Spend("embed")
  /\ LinkTopic(n, d, FALSE)
  /\ unsure' = unsure \cup {d}
  /\ UNCHANGED <<rawVars, idVars, eventVars, jobs, load, asked, rollbacks>>

(* n waits for m: an uncommitted row of m holds the unique key n inserts.  *)
WaitsFor(n, m) ==
  /\ n # m
  /\ \E d \in Drafts :
       /\ Current(n, d)
       /\ \/ tx[n].stage = "distinct" /\ TopicOf[d] \in tx[m].madeTopics
          \/ tx[n].stage = "linked" /\ \E e \in tx[m].made : UrlOf[e] = UrlOf[d]

(* The key n inserts was committed by another since n looked for it.       *)
KeyTaken(n, d) ==
  \/ tx[n].stage = "distinct" /\ TopicOf[d] \in topics
  \/ tx[n].stage = "linked" /\ \E e \in events : UrlOf[e] = UrlOf[d]

CanInsert(n, d) ==
  /\ Current(n, d)
  /\ ~KeyTaken(n, d)
  /\ \A m \in Normalizers : ~WaitsFor(n, m)

InsertTopic(n, d) ==
  /\ tx[n].stage = "distinct"
  /\ CanInsert(n, d)
  /\ tx' = [tx EXCEPT ![n] = WithTopic(tx[n], TopicOf[d])]
  /\ UNCHANGED <<rawVars, idVars, eventVars, jobs, load, history, spent>>

(* events.add and mark_normalized.                                         *)
InsertEvent(n, d) ==
  /\ tx[n].stage = "linked"
  /\ CanInsert(n, d)
  /\ tx' = [tx EXCEPT ![n] = WithEvent(Concluded(tx[n], d, "normalized", TRUE),
                                       d, tx[n].vector)]
  /\ UNCHANGED <<rawVars, idVars, eventVars, jobs, load, history, spent>>

-----------------------------------------------------------------------------
(* The end of the batch.                                                   *)

(* The transaction of n is gone: verdicts, events, retry counts and all.   *)
RollBack(n) ==
  /\ tx' = [tx EXCEPT ![n] = NoTx]
  /\ rollbacks' = rollbacks + 1
  /\ UNCHANGED <<rawVars, idVars, eventVars, load, asked, unsure>>

(* A unique violation: nothing in _process_one catches it, the job fails   *)
(* and arq does not run it again.                                          *)
Clash(n) ==
  /\ \E d \in Drafts : Current(n, d) /\ KeyTaken(n, d)
  /\ RollBack(n)
  /\ UNCHANGED <<jobs, spent>>

(* Two transactions wait for each other: PostgreSQL fails one of them.     *)
DeadlockVictim(n) ==
  /\ \E m \in Normalizers : WaitsFor(n, m) /\ WaitsFor(m, n)
  /\ RollBack(n)
  /\ UNCHANGED <<jobs, spent>>

(* arq's job timeout, or a closed client connection.                       *)
TimesOut(n) ==
  /\ tx[n].phase = "working"
  /\ Spend("timeout")
  /\ RollBack(n)
  /\ UNCHANGED jobs

(* The process dies: arq runs the job again, nobody repeats a manual run.  *)
Crash(n) ==
  /\ tx[n].phase # "idle"
  /\ Spend("crash")
  /\ jobs' = IF tx[n].manual THEN jobs ELSE jobs + 1
  /\ IF tx[n].phase = "working"
       THEN RollBack(n)
       ELSE /\ tx' = [tx EXCEPT ![n] = NoTx]
            /\ UNCHANGED <<rawVars, idVars, eventVars, load, history>>

(* Mutant: a full batch ends without a successor.                          *)
NeverContinues(n) == FALSE

(* normalize_raw_events enqueues a successor after a full batch that made  *)
(* progress.                                                               *)
Continues(n) == ~tx[n].manual /\ tx[n].full /\ tx[n].progress

(* Mutant: the failed attempt is not counted.                              *)
RetriesForgotten(n) == retries

RetriesAfter(n) ==
  [d \in Drafts |-> IF tx[n].verdict[d] = "failed" THEN retries[d] + 1 ELSE retries[d]]

AwaitsSuccessor == [NoTx EXCEPT !.phase = "committed"]

Commit(n) ==
  /\ tx[n].phase = "working"
  /\ tx[n].todo = {}
  /\ status' = [d \in Drafts |->
                  IF tx[n].verdict[d] = "none" THEN status[d] ELSE tx[n].verdict[d]]
  /\ retries' = RetriesAfter(n)
  /\ events' = events \cup tx[n].made
  /\ vectors' = vectors \cup tx[n].madeVectors
  /\ topics' = topics \cup tx[n].madeTopics
  /\ tx' = [tx EXCEPT ![n] =
              IF Continues(n) THEN AwaitsSuccessor ELSE NoTx]
  /\ UNCHANGED <<idVars, jobs, load, history, spent>>

EnqueueNext(n) ==
  /\ tx[n].phase = "committed"
  /\ jobs' = jobs + 1
  /\ tx' = [tx EXCEPT ![n] = NoTx]
  /\ UNCHANGED <<rawVars, idVars, eventVars, load, history, spent>>

LoseNext(n) ==
  /\ tx[n].phase = "committed"
  /\ Spend("lost_enqueue")
  /\ tx' = [tx EXCEPT ![n] = NoTx]
  /\ UNCHANGED <<rawVars, idVars, eventVars, jobs, load, history>>

(* BackfillEventEmbeddings commits the vectors of a batch of events.       *)
Backfill ==
  /\ \E B \in SUBSET (events \ vectors) : B # {} /\ vectors' = vectors \cup B
  /\ UNCHANGED <<rawVars, idVars, events, topics, jobs, load, tx, history, spent>>

-----------------------------------------------------------------------------
LoadStep(l) ==
  \/ CheckAbsent(l)
  \/ InsertRaws(l)
  \/ LoadClash(l)
  \/ LoadFails(l)
  \/ CommitLoad(l)
  \/ EnqueueNormalize(l)
  \/ LoseNormalize(l)

ProcessOne(n, d) ==
  \/ LlmFails(n, d)
  \/ NotAnEvent(n, d)
  \/ IsEvent(n, d)
  \/ Compare(n, d)
  \/ Arbitrate(n, d)
  \/ CompareBlind(n, d)
  \/ InsertTopic(n, d)
  \/ InsertEvent(n, d)

NormalizeStep(n) ==
  \/ StartJob(n)
  \/ StartManual(n)
  \/ \E d \in Drafts : ProcessOne(n, d)
  \/ Clash(n)
  \/ DeadlockVictim(n)
  \/ TimesOut(n)
  \/ Crash(n)
  \/ Commit(n)
  \/ EnqueueNext(n)
  \/ LoseNext(n)

Next ==
  \/ \E l \in Loaders : LoadStep(l)
  \/ \E n \in Normalizers : NormalizeStep(n)
  \/ Backfill

Spec == Init /\ [][Next]_vars

(* The event loop, arq and PostgreSQL run what can run: a load that began, *)
(* a queued job, a statement that need not wait.  Loads and faults come or *)
(* do not come.                                                            *)
Fairness ==
  /\ \A l \in Loaders :
       WF_vars(InsertRaws(l) \/ LoadClash(l) \/ CommitLoad(l) \/ EnqueueNormalize(l))
  /\ \A n \in Normalizers :
       WF_vars(\/ StartJob(n) \/ Commit(n) \/ EnqueueNext(n)
               \/ Clash(n) \/ DeadlockVictim(n)
               \/ \E d \in Drafts : \/ NotAnEvent(n, d) \/ IsEvent(n, d)
                                    \/ Compare(n, d) \/ Arbitrate(n, d)
                                    \/ InsertTopic(n, d) \/ InsertEvent(n, d))

FairSpec == Spec /\ Fairness

-----------------------------------------------------------------------------
(* Properties.                                                             *)

(* find_similar returns e for d and the rule does not set them apart.      *)
Alike(d, e) == Judge[d][e] \in {"uncertain", "duplicate"}

(* The two tables agree whatever is rolled back, clashes or deadlocks: an  *)
(* event's own raw is normalized, a normalized raw has an event with its   *)
(* URL, and a duplicate has another event that is like it (_process_one,   *)
(* _find_duplicate, and the single commit of the batch).                   *)
RawsMatchEvents ==
  \A d \in Drafts :
    /\ d \in events => status[d] = "normalized"
    /\ status[d] = "normalized" => \E e \in events : UrlOf[e] = UrlOf[d]
    /\ status[d] = "duplicate" => \E e \in events \ {d} : Alike(d, e)

(* A raw that is closed stays as it was closed: no other batch, operator   *)
(* run, retry or repeated load writes it again, because its row is locked  *)
(* until the commit (fetch_for_processing, FOR UPDATE SKIP LOCKED).        *)
ClosedIsFinal ==
  [][\A d \in Drafts : status[d] \in Closed => status'[d] = status[d]]_vars

(* What a raw may cost, the arbiter's questions included: one LLM call per *)
(* retry; for every normalization that was rolled back with its retry      *)
(* counts, one and as many as there are candidates; and that many          *)
(* candidates once more for the attempt that closes it (mark_failed,       *)
(* fetch_for_processing, _find_duplicate).                                 *)
LlmCostBounded ==
  \A d \in Drafts :
    asked[d] <= MaxRetries + rollbacks + Candidates * (rollbacks + 1)

(* Closed, or given up in the dead-letter state.                           *)
Settled(d) ==
  \/ status[d] \in Closed
  \/ status[d] = "failed" /\ retries[d] = MaxRetries

(* Every raw is eventually settled, by the jobs the pipeline enqueues      *)
(* itself: one per load that added something, one per full batch.          *)
EveryRawSettled ==
  \A d \in Drafts : status[d] = "raw" ~> Settled(d)

(* Twins are of one story and alike.                                       *)
AreTwins(S) ==
  \A d, e \in S : d # e => StoryOf[d] = StoryOf[e] /\ Alike(d, e)

(* How far deduplication can fail.  Of the twins that were compared in     *)
(* full -- with a vector, against every near event, no answer of the       *)
(* arbiter wrong or missing -- there is at most one per normalization that *)
(* compared while the others' events were uncommitted; one normalization   *)
(* at a time leaves none (_find_duplicate, find_similar, same_event).      *)
TwinsBounded ==
  \A S \in SUBSET (events \ unsure) :
    AreTwins(S) => Cardinality(S) <= Cardinality(Normalizers)
=============================================================================
