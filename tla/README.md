# EventMind in TLA+

EventMind collects announcements of IT events, normalizes them with a chain of LLM providers, ranks them for each user
and talks to users through an HTTP API, a Telegram bot, a web client and mail. This directory holds TLA+ models of the
parts of the backend (`backend/src/eventmind`) whose correctness depends on the order in which things happen, the TLC
configurations that check small instances of them, and proofs for instances of any size.

Paths below are relative to `backend/src/eventmind`.

## 1. Inventory

The backend is one Python code base run as several processes: the API (FastAPI, one event loop per process), the
worker (arq: jobs and cron, several slots per process), the bot (aiogram). They share PostgreSQL (SQLAlchemy, one
transaction per unit of work, READ COMMITTED) and Redis (the arq queue, the recommendation cache, agent sessions, the
bot's dialogue state). The web client (Next.js) calls the API through a proxy of its own origin.

| Part | State | Operations | What is hard | What makes it correct | Module |
|---|---|---|---|---|---|
| Transactional outbox and letters: `application/accounts/use_cases.py`, `infrastructure/db/uow.py`, `infrastructure/db/outbox_store.py`, `application/outbox/processor.py`, `infrastructure/queue/arq_queue.py`, `interfaces/worker/main.py:74` | `users`, `outbox`, jobs in Redis, letters sent | register, request a reset, enqueue, fetch, handle, mark | racing registrations; the enqueue is outside the transaction; rows are read under locks that are released before the handlers run; worker crash between sending and marking | account and debt appear together; only owed letters go out, to the account that owes them; processed means sent; bounded copies; every row is relayed | `Outbox`, `MailPromise` |
| LLM chain: `infrastructure/llm` | failure counts, cooldowns, the breaker, links | run, fall back, fail fast, probe and replace links | coroutines interleave at each provider call; two cooldowns with different windows; `set_links` under calls in progress; cancelled calls | count and cooldown agree; the chain recovers | `LlmChain` |
| Ingestion: `application/ingestion`, `infrastructure/db/event_repositories.py`, `domain/events` | `raw_events`, `events`, `topics`, embeddings, jobs | load a source, normalize a batch, compare, insert, continue, retry, backfill | batches run at once; one transaction per batch with LLM calls in it; unique keys that clash or deadlock; rollback; who takes the rest; what repeats what when dates and cities are half known | raws and events agree; closed is final; bounded LLM cost; bounded twins; every raw is settled; a repeat is recognised and nothing else is swallowed | `Ingestion`, `Catalogue` |
| Recommendations and user model: `application/recommender`, `infrastructure/db/recommendation.py`, `domain/recommender` | interactions, topic statistics, profile, settings, interest vector; the cached list | recommend, rate, remove a save, edit the profile (by text, by single changes), edit settings (three clients), refresh after backfill | cache filled from a read that a commit overtakes; process dies between commit and cache delete; vector and profile computed from a read that another commit overtakes; a model that fails between | a stale list has a known reason and ends; the vector follows the history; the stored profile fits together | `Recommender`, `Profile` |
| Accounts and one-time tokens: `application/accounts/use_cases.py`, `infrastructure/db/repositories.py` | `users`, `channels`, tokens | verify, log in, reset, link Telegram (absorbing an account), Telegram and Google registration | tokens read without a lock; an account absorbed under another request; losers of a unique channel | a token is redeemed at most once per concurrent request; a chat identifies one account; an absorbed account loses nothing that came in time | `Accounts`; letters in `Outbox`, profile settings in `Recommender`, preferences in `Digest` |
| Agent: `application/agent`, the routes and pages that call it | session in Redis: history, shown events, pending change | turn, every tool, confirm by button or by word, history, reset | load, several LLM calls, save whole, without a lock; two clients; trimming; lost answers | history stays valid; a change that was resolved never waits again and is carried out once | `AgentSession` |
| Digest: `application/notifications`, `infrastructure/db/notifications.py`, the worker's cron | preferences, inbox, jobs | schedule (two lists), send, unsubscribe, update preferences; read and mark the inbox | a job run again after a partial send; a user in both lists; a wish that changes between scheduling, composing and sending; quiet hours over midnight | one digest a day; only over wanted channels; whoever is due gets one or a reason | `Digest`; the inbox in `Web` |
| Sources: `infrastructure/sources` | none | parse a page, a list, feeds | shares of feeds, repeated links, titles and links that are missing | no feed takes another's place, nothing twice | `Sources`, `Retrieval` |
| Search: `application/search`, `domain/search`, `infrastructure/db/search.py` | kept filters in Redis | extract, search, retrieve, fuse, relax; similar events | a cache that outlasts the day; relaxation; fusion; a depth eaten up by editions of one series | what is asked is searched for; no more is dropped than must be | `Retrieval`, `Ranking` |
| Ranking and explanation: `domain/recommender`, `application/recommender/ranker.py`, `explain.py` | none | score, diversify, limit series, explain | ties, order, signs, a topic that several signals speak for | each equals a reference definition; what the user is told is what moved the score | `Ranking`, `Scoring`, `Retrieval` |
| Telegram bot: `interfaces/bot`, `interfaces/api/routers/bot.py` | dialogue state in Redis, buttons in the chat | onboarding, settings, feed, reactions, saved list, linking | updates of one chat run at once; calls fail or answer too late; buttons stay in the chat | the feed goes on where it was, the saved list is whole, a reaction counts as often as it was pressed | `Bot`, `AgentSession` |
| Web client: `src/web` | page state | log in, saved list, settings (profile), search, inbox, assistant | answers in any order; a page left while calls run; an expired session | what a page shows agrees with the server | `Web`, `AgentSession` |
| JWT, configuration and wiring, embeddings, e-mail rendering, evaluation, migrations, deployment | | | | | not modelled |

How the parts meet: ingestion calls the LLM chain for every raw and the search index for duplicates; its events and
their vectors are the candidates of the recommender; the backfill job commits vectors and then refreshes users; the
accounts service owes letters through the outbox; the agent and the digest call the recommender's use cases; the bot
and the web client are clients of one API, and their users' data are changed by both. Each model takes what it needs of
its neighbours as a nondeterministic result (the LLM answers or fails, SMTP accepts or fails, an embedding comes or
does not, another client changes the data).

`PROJECT.json` lists the hazards at their lines, with the properties that would show them going wrong.

## 2. Modules

| Module | Stands for |
|---|---|
| `MailPromise` | what the outbox promises: `owed` and `mailed`, accounts and debts created in one step |
| `Outbox` | the accounts requests, the outbox table, the relay jobs; refines `MailPromise` |
| `LlmChain` | `LLMChain`, `CircuitBreaker`, `ProviderCooldown`, `build_links` |
| `Ingestion` | `LoadSource`, `NormalizeRawEvents`, the worker's continuation, the operator's endpoints, the backfill |
| `Recommender` | `GetRecommendations` and every writer of one user's model |
| `Accounts` | registrations, logins, tokens, links and `absorb`, and the bot's reaction |
| `AgentSession` | turns and confirmations of one user's dialogue with the agent, from the page and the chat |
| `Digest` | the cron job, a job per user, preferences, the link in a letter |
| `Profile` | the contents of a user's profile: texts, single edits, planned gaps, writes that overlap |
| `Bot` | one chat with the bot |
| `Web` | one tab of the web client |
| `Ranking` | rank fusion, MMR, one event per series: pure operators |
| `Scoring` | the components of an event's score, the reasons given to the user: pure operators |
| `Catalogue` | what of the model's answer makes an event, and which event an announcement repeats: pure operators |
| `Sources` | which events of a page or of feeds become drafts: pure operators |
| `Retrieval` | `NlSearch`, `SimilarEvents`, `HybridRanker`, `ExplainEvent`, announcements one after the other, and fetches; extends the four above |
| `Sublists` | parts of a list by the places they are taken from, the elements of a set in order: operators of the lists in `AgentSession`, `Profile`, `Web`, `Ranking`, `Scoring` and `Retrieval` |
| `MC*` | instances for TLC: values of the constants, symmetry sets |
| `*Proofs` | the theorems of a module and their proofs; `RequestProofs` those of `LlmChain`, `Profile`, `Web` and `Retrieval` together, whose names for that reason differ where they stand side by side (`ProfileSpec`, `WebSpec`, `RetrievalSpec`) |

A definition whose comment begins with "Mutant" is the variant of its neighbour that a plausible bug would give; no
specification uses it. It documents which mistake a property guards against, and `PROJECT.json` pairs them.

### Outbox

An API request has a program counter: it reads the address, inserts (the unique key of `users.email` decides a race),
commits account and row together, and enqueues in a separate step. A relay job opens the SELECT transaction (`Fetch`:
pending rows in key order, at most `Limit`, skipping those another open SELECT has locked), closes it (`CloseFetch`,
which releases the locks), then handles and marks row after row, each mark a transaction of its own. An exception of the
handler marks the row failed and the code never retries it; a kind without a handler is marked processed. Faults are
counted by kind: a lost enqueue, a worker crash (arq runs the job again), an abort (timeout or an exception that leaves
the job; arq does not run it again), an SMTP failure.

### LlmChain

All code between two awaits of a provider is one step. Time is counted in ticks and ages saturate at the cooldown they
are compared with, counts at their threshold: the code asks only whether these have been reached. `up` is the
environment's, `enabled` is the list set by `set_links`; a call keeps the links it began with. `CancelledError` is not an
`Exception`, so a cancelled call records nothing.

Since the providers' cooldown (600 s) is longer than the breaker's (120 s), the trial call after the breaker's cooldown
may ask no provider at all and be counted as one more failure; the model has this and `Recovers` still holds.

### Ingestion

One normalization is one transaction `tx[n]`: the rows it locked, and its own uncommitted events, vectors, topics and
verdicts, which other transactions do not see but whose unique keys they wait for. `Fetchable` is the query of
`fetch_for_processing`; its row locks are held to the commit. Each raw goes through the LLM call, the comparison with
visible events, the insert of its topic and the insert of its event. `Compare` takes the `Candidates` nearest of the
events that are `Near`; the loop over them (`JudgeRest`) passes over what the rule calls distinct, ends at a
duplicate, and in the grey zone waits for the arbiter, one await and one LLM call per question (`Arbitrate`). An
insert whose key another open transaction holds waits; if that commits, the insert fails and the batch is rolled back
(`Clash`), and two that wait for each other lose one (`DeadlockVictim`). `Continues` is the worker's rule for
enqueueing a successor.

Abstractions: drafts have a URL (those without are never deduplicated by it); each has one topic, which the LLM may
invent; `find_similar` and the SELECT of `ensure_codes` after it are one step; what the rule says of two texts
(`Judge`) and how near they are (`Distance`) are data, so a rule that is wrong is an instance like another. An arbiter
that errs or fails, which the code takes for "not a duplicate", is an occasion with a budget. `StoryOf` says what
really is one event; only the arbiter's budget and `TwinsBounded` look at it. `asked`, `unsure` and `rollbacks` are
history: `unsure` are the drafts whose comparison left near events out or had such an answer. A deadlock is a cycle of
two. A job that raises or times out is not run again; a job of a worker that died is.

### Recommender

One user. A write goes through the steps of its transaction: reading the row it will change, writing it (waiting for
the row lock), reading the user (`Recompute`), computing the vector from what READ COMMITTED shows together with its
own writes (`Gather`), committing, and deleting the cache entry in a step of its own. A commit writes the columns that
differ from the row as it was read (`Flushed`): of the profile the text, the topics and the embedding each on its own,
and a vector unless it is None over None (`FlushedVector`; two vectors, being arrays, never compare as equal).
Statistics are read before and written after, so concurrent reactions to one topic lose an increment or clash on the
first insert: `Stored` and `Clash`. A reader misses the cache, reads the user, reads the candidates in a session of
its own, and stores the list. A hit changes nothing and is a stutter.

Abstractions: one topic per event; the decay of the statistics is left out but for the columns it makes an UPDATE
write; an embedding is the text and topics it was made of, or None when the call failed; the SELECTs of profile and
reactions in one recomputation are one step; a profile's row is written with its commit, since no other can have its
lock; a backfill commits one event; what a list contains is identified with the model it was ranked from. `raced`,
`drift` and `excuse` are history variables: no guard reads them.

### Accounts

A request is one transaction `req[q]`: it begins with its reads, its writes stay in its record until it commits, and
statements of others wait for the rows and keys it has written (`Deleting`, `HoldsKey`). A request that writes one row
and depends on nothing but what it read is two steps, begin and commit; registrations have their INSERT in between, which
fails on a key committed meanwhile. `ConfirmTelegramLink` goes through its statements one by one: the owner of the chat
(`ReadOwner`), the UPDATEs of `absorb` (`MoveItems`), its DELETE (`DeleteSource`), the account's channel (`ReadChannel`,
`WriteChannel`, or `KeepChannel` when SQLAlchemy has nothing to write) and the commit. `Rate` is the bot's reaction: the
account is resolved in one transaction, the row inserted in the next. `users.update` writes the columns that differ from
the row as it was read, and no other (SQLAlchemy's unit of work), so a join with Google does not undo a reset.

Abstractions: passwords are values, and a verified login carries the one it read; only logins that rehash are
modelled, others write nothing; sessions, e-mail channels and preferences are left out; a token is named by the call
that made it, so guessing one is outside the model; the statements of `absorb` that move rows are one step; a fault
rolls back the transaction (`Fail`), which also stands for a deadlock's victim. `late`, `chosen`, `overtaken` and
`redeemed` are history: no guard reads them.

### AgentSession

The session is one value: a request loads it, works on its copy, and saves all of it; the model's request record is
that copy. A turn alternates `LlmAnswers` (text, or up to `MaxCalls` tool calls) and one action per kind of tool;
steps, calls and the history are limited as in `AgentConfig`. A proposed change waits in the session for a yes, by a
button (`Press`, which names the change) or by a word (`AnswerInText`, which takes whatever waits). `GiveUp` is a
client that stops waiting, `Crash` a process that dies, `Expire` the session's TTL. `applied`, `refused`, `contested`,
`offered` and `gone` are history. The page allows one request at a time (`busy`), the chat does not.

`stored` is the session, `Fresh` when Redis has none: that is what `AgentSessionStore.load` makes of nothing, so no
request tells the two apart.

A message is its role and its number of tool calls. `HistoryLimit` 4 is smaller than a turn, as 24 is smaller than the
26 messages of the longest turn of the code.

### Digest

A day has `HoursInDay` hours; the cron job asks for the daily users, enqueues one by one, and on a Monday asks again for
the weekly ones. arq names no job id, so a user may be queued twice. A job reads preferences and channels, files the
digest and commits, then sends over each channel, outside the transaction. `Crash` puts a job back, `Abort` drops it,
`CronFails` ends the cron job where it is. The cron job runs once a
day at most, also on a day when nobody is due (`Ended`). `due`, `settled` and `repeats` are history.

### Profile

`UpdateUserProfile` reads the row, asks the model, plans gaps, embeds, reads the row again and writes the columns that
differ from what this second read returned: SQLAlchemy's unit of work, as in `Recommender` and `Accounts`. Every await is
a step of its own. The lists are sequences of codes, cut and deduplicated where the code does. `may` notes what the lists
are excused from: a topic that one edit named twice, two writers at once, a planner that failed.

### Retrieval, Ranking, Scoring, Catalogue and Sources

`Ranking`, `Scoring`, `Catalogue` and `Sources` are operators, translated from pure functions; numbers are exact
(tenths, hundredths, fractions over a common denominator), where the code uses floats. `Retrieval` gives them their
callers. It has six uses that share nothing but the events, so a behaviour is about one of them (`use`): searching,
similar events, the feed, announcements, explanations, fetches. A search is a sequence of steps (cache, model, strict
retrieval, two retrievers, fusion, relaxation) while events arrive and midnight passes. In the other uses a behaviour
builds an input item by item, so that TLC meets every input within the bound, and answers it in one step; the
properties compare the answer with a definition that does not follow the code.

### Bot

aiogram handles the updates of a chat concurrently; `upd[s]` is one handler between two awaits. The dialogue's state
and the shown events are in Redis and are read and written where the handler does so. A call is done and answered,
done and not answered, or not done (`Calls`). Handlers that await once and touch nothing in between are one step
(`ShowCards`, `Unsave`). A page of the saved list is two, as its total is counted before its rows are read
(`CountSaved`, `ShowSaved`); when the call fails it is empty and the handler says that the list is over, and a message
that cannot be sent leaves out the rest. `run`, `list` and `count` are history; `list.cut` is set by a last page that
failed or counted too few.

### Web

One tab. `calls` are under way, in any number and order; `Serve` is the API doing one (the proxy and
`get_current_user` in front of it; a search needs no session), `Answer` its answer reaching the page, `CallFails` one
that fails before or after it was done. Leaving a page drops the answers it waits for. `OtherClient` stands for the
bot, the agent and the digests. `disturbed` is history: calls the page itself lets overlap, failures, and other
clients; `ListsAgree` speaks of the rest, `SearchAgrees` of all.

## 3. What the runs check

Every run finishes within four minutes on two workers.

| Run | Instance | Question and answer |
|---|---|---|
| `outbox` | 2 registrations and a reset on one address, 2 slots, one fault of each kind, `Limit` 3, every kind handled | Implements `MailPromise` (`KeepsPromise`; it implies that the loser's letter is never sent, the theorem `LetterBelongs`); processed means mailed; wake-ups are lost only to the two faults that drop one (`NoLostWakeUp`); copies at most one per slot, crash and abort (`CopiesBounded`); every committed row is relayed in the end unless such a fault hit (`RelayedUnlessDropped`). Holds. |
| `llm` | 2 providers, one of them probed, 2 callers, one cancelled call, provider cooldown longer than the breaker's | Count at threshold iff cooldown recorded (`CooldownIffThreshold`); calls succeed again and again once a configured provider stays up (`Recovers`). Holds. |
| `ingest_safety` | 3 drafts, the last two of one story, two with the same URL, a shared topic, neighbours in the grey zone, 1 candidate, 2 normalizations, batch 2, LLM, arbiter and embedding failures, timeout, lost enqueue, operator run | Raws and events agree (`RawsMatchEvents`), closed is final (`ClosedIsFinal`), LLM calls, the arbiter's among them, bounded by retries, rollbacks and candidates (`LlmCostBounded`). Holds. |
| `ingest_live` | 4 drafts of one story with distinct URLs, some certain duplicates, some in the grey zone, some set apart by the rule, 2 candidates, 1 loader, batch 1, a crash, a broken source, an error of the arbiter | Every raw is settled by the jobs the pipeline enqueues itself (`EveryRawSettled`); of twins that were compared in full there is one per normalization (`TwinsBounded`). Holds. |
| `accounts` | a web account with an outdated hash, a linked one, one the bot made; 3 addresses, 3 chats, 2 requests at a time, 3 calls | Chats identify accounts, what an absorbed account owned follows it unless it came too late, accounts with an e-mail are kept, a token is redeemed at most once per concurrent request, passwords are those chosen last unless a login rehashed a former one. Holds. |
| `reco` | 2 events of one topic, one at first without vector, 2 requests, 1 reader, 2 writes, 1 fault | A stale list is excused or about to be deleted (`StaleOnlyIfExcused`); no order of reactions, edits, removals, backfills and refreshes leaves the vector behind but a computation overtaken by a commit, a refresh that was lost, and a refresh that passes over users who only disliked (`VectorFollowsHistory`); every outdated list ends (`EventuallyFresh`). Holds. |
| `agent` | 2 requests at a time, 3 begun, 2 steps of one tool call, a history of 4 messages, from page and chat | Every tool call in what is sent and stored has its answer (`HistoryAnswered`); a change that left the session never waits again (`PendingNeverReturns`); it is carried out once, and not after it was reported as refused, unless two requests held it or the process died (`ResolvedOnce`). Holds. |
| `digest` | a Monday and the day after, 2 users with different channels, 1 slot, 3 hours a day, 2 troubles of any kind | A digest a day but for jobs run again (`OneDigestADay`); only over channels the user wanted since the job began (`ConsentRespected`); everyone due is settled (`EveryDueSettled`). Holds. |
| `bot` | 2 events, 2 updates at a time, 6 updates, 2 troubles, pages of one | The feed neither repeats nor leaves out unless its handlers overlapped, a card failed or the dialogue was cleared (`FeedGoesOn`); the saved list is complete unless its last page failed or was counted too early, or events were removed while it was paged (`SavedListComplete`); reactions count as pressed but for calls that were done and answered too late (`ReactionsCounted`). Holds. |
| `retrieval` | 2 events with every combination of filters met, 2 phrases, 1 search at a time, 2 days; lists of 7 neighbours, feeds of 4 candidates, 4 announcements out of 12, every explanation of a small set of users and events, pages of 3 cards, up to 3 feeds with links in common | What is asked on a day is searched for on that day (`AsAsked`); no filter is dropped while something matches without dropping it (`NearestIsFound`); fusion respects agreement of the rankings (`FusionAgrees`); similar events are complete unless the event's own series crowds them out (`SimilarComplete`); of a series the nearest edition is shown, and a better and less repetitive event comes first (`FeedWellOrdered`); repeats are recognised and no event is swallowed by one it differs from, unless that was silent on the difference, and each feed has its share of a fetch (both `CatalogueAgrees`); reasons and shares are those of the score (`ToldIsScored`). Holds. |
| `web` | 4 events, pages of 2, 1 topic, 2 texts, 1 notification, 4 calls, 1 trouble | Saved list and inbox agree with the server when nothing is under way (`ListsAgree`); so does the profile (`ProfileAgrees`); the results shown are those of the last query (`SearchAgrees`). Holds. |
| `profile` | 3 requests, topics spelled in several ways, two spellings of a goal, lists of 2 | Interests and anti-interests are apart and no skill is called missing that the user has (`ProfileConsistent`), but for the excuses `may` names. Holds. |

Nine more configurations reproduce findings (section 6); TLC finds their property violated: `OutboxLetterLost`,
`IngestStranded`, `RecoWeb`, `RecoSignal` (what is left when the last signal is gone; `-continue` shows both of its
properties violated), `AgentUnseen`, `BotRepeats`, `ProfileRace`, `CatalogueSwallows`, `WebUnread`. `OutboxLive` is
the live instance with a backlog larger than the relay's batch and a kind without handler; there every enqueue is
delivered and `EveryRowRelayed` holds without an exception.

Why the bounds are enough. The hazards of the outbox and of ingestion involve two workers and one fault; two slots, a
registration race and one fault of every kind give all their combinations. In ingestion the drafts are chosen so that
the same instance has a URL clash, a topic clash and a deadlock of two batches; batch size 2 makes full, partial and
empty batches; batch 1 makes the successor rule carry everything. One candidate of two near events makes the limit
bite, two let the arbiter be asked twice about one announcement; four twins are two more than two normalizations may
leave. In the chain, thresholds of 2 separate first and threshold failure, and the providers' cooldown is longer than
the breaker's, as in the code. In the recommender two writes suffice for a race between writers and with a reader;
what more writes could do is covered by the theorems, which have no bound. In the accounts two requests at a time make
every race of two transactions, and three calls let a third come before, between or after them; the initial accounts
stand for the calls that would have made them. The agent's hazards are two requests that hold one session and a third
that comes after them; two steps and a history shorter than a turn make the trimming cut inside a turn. A Monday and
the next day have both lists and the night between; two troubles let a crash meet a change of mind. In the bot six
updates are what the longest scenario needs (register, a feed of two pages that overlap another command). In a tab the
third and fourth call decide what two overlapping ones have left; it has one notification, since two and the rest do
not fit in five minutes, and so what the inbox shows of several marks under way in any order is said by the theorem
`ListsAreTrue` alone.

`TypeOK` is proved wherever it is stated and therefore in no configuration. `Profile`, `Web` and `Retrieval` state
none: their invariants (section 5) have the types that the proofs need.

`CHECK_DEADLOCK FALSE` is set where the modelled work is finite: requests are answered, budgets spent, and the system
rests. `LlmChain` never rests and is checked for deadlock.

## 4. Fairness

- Outbox: a request that began goes on to its enqueue (the event loop), and each slot takes a queued job and works
  through it (arq). Faults are never forced; crashed jobs are put back by `Crash` itself. SMTP may fail whenever its
  budget allows.
- LlmChain: time passes (`Tick`), callers keep calling, an awaited provider answers or hits the timeout of
  `asyncio.wait_for`. Providers are not forced up or down.
- Ingestion: a load that began goes on, a queued job starts, a statement that need not wait is executed; the database
  resolves deadlocks. New loads, operator runs and faults are not forced.
- Recommender: a request and a fill that began go on; Redis removes an entry when its TTL is over. New requests, misses
  and faults are not forced.
- Digest: a cron job that began goes on (`CronSteps`), each slot takes a queued job and works on it (`JobSteps`). The
  clock, users, crashes and failures are not forced.

Weak fairness is enough everywhere: no step needs to be taken that is only intermittently possible. The other modules
state safety only and have no fairness.

## 5. What is proved

Each theorem holds for all values of the constants that satisfy the module's assumption, which asks for types (budgets
are naturals, batch sizes and thresholds positive, `KindOf` and `EmailOf` functions, sentinel values distinct from
what they stand beside, `None` no key of a digest) and, where a theorem counts them, that a set is finite: the job
slots of the outbox and the digest, the concurrent normalizations and requests, the handlers at work in the bot, and
the events, topics and notifications of a catalogue or a user. arq's `max_jobs`, the processes and their memory bound
each of them.

What is assumed beyond types:

- `Retrieval`: a list has room for one event at least and the retrievers look as deep (`1 <= Limit <= Depth`: the
  routes ask for `ge=1`, and `application/search/use_cases.py:200` takes the larger of the two), closeness of two
  announcements is an integer, and a topic's counts are positive (they start at the prior of one and one and are never
  less, `domain/recommender/bayesian.py:65`).
- `Ranking`: cosines are integers of some unit, negative ones included; the weight of relevance is between 0 and 1.
  Its default is 0.7. `SCORING_WEIGHTS` may set it above 1, since `with_overrides` refuses negative numbers only;
  repetition would then be rewarded.
- `Catalogue`: an event is a certain duplicate from a closeness no lower than that from which the judge is asked
  (`UncertainFrom <= DuplicateFrom`: the grey zone of `domain/events/dedup.py:10`). The two are settings, 0.85 and
  0.92 by default, and nothing compares them.
- `ToldIsWhatCounts` has a hypothesis of its own: similarity weighs at least 3 and goals at least 2. By default they
  weigh 10 and 3 (`domain/recommender/weights.py`); `SCORING_WEIGHTS` may set either to nothing, and the code then
  still gives the reason although it has no share in the score.

All safety properties of all runs are theorems. `TypeCorrect` states type correctness.

| Theorem | Inductive invariant and argument |
|---|---|
| `OutboxProofs`: `TypeCorrect`, `LetterBelongs`, `ProcessedMailed`, `WakeUpKept`, `CopiesAreBounded`, `OutboxKeepsPromise` | `IInv` adds to the properties what links the parts of the state: a row exists only for a committed request, an insert in progress excludes others of its address, a reset knows an account, keys are unique, a batch holds rows that exist, what is sent is owed, an `ok` outcome means sent. `ProcessedWasMailed` alone is not inductive: the mark is written from `outcome`, so the link from `ok` to the letter is needed. Every action maps to one of the promise or to a stutter. `WakeUpKept` counts pending rows against the batch size with the cardinality lemmas of the library. `CopiesBounded` needs two counts (`CopyInv`): the copies sent and those still to come from slots that hold the row are at most the slots and the lost jobs; and while the row is pending each copy is one that a slot still answers for or whose job was lost, so that one more read of the row does no harm. |
| `RequestProofs`, the chain: `TypeCorrect`, `CooldownFollowsCount` | types and the equivalence together are inductive (`ChainInv`); the case that matters is a failure recorded after another call's reset. |
| `RequestProofs`, a profile: `ProfilesAreConsistent` | `ProfileInv`: what a request has read, has planned and is about to write keeps the lists apart already, or carries the excuse it will commit; a write whose row was not changed since it was read leaves the profile as it was planned, and one that overlaps another is excused (`may` becomes lists and gaps). The plan's case rests on what joining and removing make of a list (`JoinedProperties`, `WithoutProperties`). |
| `RequestProofs`, a tab: `SearchIsAnswered`, `ProfileIsShown`, `ListsAreTrue` | `FormsInv`: of the open page at most one call is under way, it is of the page's last text, and while the button can be pressed there is none; undisturbed, what that call was answered is what the API keeps. `ListsInv` says what the page shows in the middle of things: without what the done and unanswered removals have taken, it shows the beginning of the saved list (`ItemsAgree`), and the inbox is the one kept with the notifications still unread whose marking is done and unanswered (`InboxShown`). |
| `RequestProofs`, the search: `SearchesAreAsAsked`, `TheNearestIsFound`, `FusionKeepsAgreement` | `AskedInv`: the filters of a search are those of its phrase on its own day from the moment it has them, and every kept answer is the meaning of its key. `NearestInv`: when a level is tried, no event that was there when the search began fits any stricter one; the catalogue only grows. `MergedInv` says that the answer is the fusion of the rankings; that fusion keeps agreement is a lemma about sums: when each term of one sum is at most its counterpart of the other, and one is less, so are the sums. |
| `RequestProofs`, one answer each: `SimilarIsComplete`, `ToldIsWhatCounts`, `FeedIsWellOrdered`, `EventsAreAnnouncedOnce`, `CatalogueIsRight` | The invariants (`NearInv`, `ExplainedInv`, `FeedInv`, `AnnouncedInv`, `FetchedInv`) say from what the answer was made; the work is in the lemmas about the operators. Similar events: a list of twice the limit and one, less the event and at most `Limit` of its series, has `Limit` left (`SimilarCounts`). The feed: when MMR has picked some, none of the rest is worthier than any of them and the rest is still in the order of scores (`PickOneMore`), and the filter of series keeps the order and takes the nearest edition (`Thinned`, `RankFits`). Announcements: an event that says the same is overlooked only if at least `DedupCandidates` others are as near, and those were looked at instead (`LookedAtOthers`). Fetches: when k feeds are read the drafts are at most k shares, so there is room for the next one's (`RoomForFeed`). `EventsAreAnnouncedOnce` is the half of `CatalogueAgrees` about announcements. |
| `IngestionProofs`: `TypeCorrect`, `RawsAndEventsAgree`, `ClosedStaysClosed`, `LlmCostIsBounded`, `TwinsAreBounded` | `IInv`: a batch holds only open raws, batches of two transactions are disjoint (the row locks), loads insert only absent raws, and what a transaction is about to write agrees with the verdicts it has reached (`WritesMatch`). `ClosedIsFinal` follows for each step from openness and disjointness. The cost of a raw is bounded by induction on its committed retries, the rollbacks and what its open transaction has asked: one question for the raw, and as many to the arbiter as candidates have left its list (`CallsIn`, `CallsAccountedFor`). Twins are counted together with what is about to become one (`TwinsAccountedFor`): of a set of twins that no judgement under way can still set right, a normalization has at most one in flight, because it compares with its own events and left none out that is near, and all of them together, committed or in flight, are no more than the normalizations. `TwinsBounded` alone is not inductive: a draft that passed its comparison before a twin was committed will join it. |
| `RecommenderProofs`: `TypeCorrect`, `StaleListsExcused`, `VectorFollows` | `IInv`: a vector computed and not yet raced is the one of the state as it would be after the commit (`Sound`), a fill not raced has seen the current model (`SeesModel`). While refreshes are awaited the property says nothing; `VectorAccounted` says what stands then: unless it drifted, the vector is that of the history with the vectors of all events but those whose refresh is on its way. The key step is a commit while others are between computing and committing: it writes what it computed, or is noted as overtaken. |
| `AccountsProofs`: `TypeCorrect`, `ChatsAreIdentities`, `ItemsAreFollowed`, `FullAccountsStay`, `PasswordsAsChosen`, `RedemptionsAreBounded` | `IInv` says of each open transaction what its kind and phase imply (`Shape`), that what it read still holds (`Grounded`), that the keys it has written are its own (`KeyIsMine`), that after `absorb`'s UPDATEs the absorbed account has only rows that came late (`NothingLeft`); and of each pair that they do not write the same key or remove what the other relies on (`Apart`, `Bereaves`). `ItemsFollow` alone is not inductive: the DELETE is harmless only because of `NothingLeft` and because no row can be committed for an account whose DELETE is uncommitted. `Grounded` holds since accounts with an e-mail are never absorbed. `PasswordAsChosen` needs that whoever has chosen a password keeps an account of his own (`ChoosersAreFull`). The redemptions of a token and the requests that hold it are bounded together; a token that was redeemed gets no further holder (`RedeemersCounted`). |
| `DigestProofs`: `TypeCorrect`, `DigestsAreBounded`, `ConsentIsRespected` | Each digest that can still be filed is somewhere: in the inbox, in the queue, with a job that has not filed it, on the list of the cron job, or on the list it will make next. `DigestsAccountedFor` bounds the sum of the five by 1 and the repetitions, and by the repetitions alone before the user is listed; `OneDigestADay` is one of the summands and not inductive. That a cron job does not start twice on one day (`CronInTime`) is what keeps a second list away. `QuietHoursAgree` shows that the comparison of hours in the code, with its case for intervals over midnight, is the one of the clock. |
| `BotProofs`: `TypeCorrect`, `FeedIsGoneThrough`, `SavedListIsComplete`, `ReactionsAreCounted` | `FeedInStep`: unless excused, one handler at most is at work on the feed, and what the dialogue's data say was shown is what was shown, or what that handler is about to write. `ListInStep`: of the list as it was at its first page, all that is before the next page has been shown, and the page about to be read is cut from the list as it then is (`PageOfSaved`). Saving another event pushes the list back, by one place (`WithoutProperties`), and never forward over an event. `PressesAccountedFor` counts recorded reactions and presses still without an answer together. |
| `AgentProofs`: `TypeCorrect`, `PendingsNeverReturn`, `ChangesResolvedOnce`, `HistoriesAreAnswered` | `Shapes` says of each request what its phase implies. `NamesAreNew`: of the changes only the one a request proposed itself can wait in its copy, and that was never stored before: so no save of an older copy brings a change back, although it overwrites newer ones. `Resolutions` follows each change from the request that takes it out of the session: it alone can apply or refuse it unless two held it; afterwards the change waits nowhere. `Histories` is `HistoryAnswered` in the middle of a step, when the last `left` calls still lack their answers, and for every phase, not only those the property names; it rests on lemmas about the history that is extended, shortened by a message, or cut at a message of the user (`TrimHistory`). `TypeCorrect` includes the bounds on a session (`SessionsFit`): what `remember_shown` leaves of a list without repetitions has none (`ShownRemembered`), and a turn that goes back to the model has steps left. |

`LetterBelongs` states an invariant that no run checks on its own: it follows from `KeepsPromise`.

The library's induction theorems take an operator as a parameter, which the provers cannot instantiate. Where a list
or a sum needs induction, the proofs go another way: a set of numbers has a least element (`LeastOf`, from the
well-foundedness of the order on the naturals and `WFMin`), and from it follow induction over a *set* of numbers
(`Induction`), over the parts of a finite set (`SetsInduction`) and over the steps of a function that refers to itself
(`StepByStep`); that the fold by which `Sum` and the like are defined exists is `FoldExists`. What a list is filtered
to is defined by the places it is taken from (`Sublists`), and their count says how long it is.

Only model-checked are the liveness properties (`RelayedUnlessDropped`, `Recovers`, `EveryRawSettled`,
`EventuallyFresh`, `EveryDueSettled`), which are out of the prover's reach.

One attempt failed for a good reason: `DigestsAccountedFor` was not inductive because the model let the cron job run
twice on a day when nobody was due, which arq does not; the guard of `CronStart` and `Ended` now say what it does.

## 6. Findings

1. The outbox enqueues the relay after the commit and no cron starts it: an enqueue that is lost leaves the letter
   pending until some other request (`application/accounts/use_cases.py:99`; `OutboxLetterLost.cfg`), against the
   repository's README and ARCHITECTURE.
2. `SKIP LOCKED` protects the SELECT only; two jobs can send the same letter and `failed` can overwrite `processed`
   (`infrastructure/db/outbox_store.py:21`).
3. After its first cooldown the breaker never opens again before a success (`infrastructure/llm/breaker.py:50`).
4. A batch without progress is not repeated by any cron unless a source lists something new
   (`interfaces/worker/main.py:108`; `IngestStranded.cfg`).
5. A unique violation in one raw rolls back what the batch concluded about the others
   (`application/ingestion/use_cases.py:166`; the step `Clash` of `Ingestion`).
6. `PATCH /users/me` leaves the cached list ranked for the old settings (`interfaces/api/routers/users.py:48`;
   `RecoWeb.cfg`).
7. Two saves of an event and one removal leave interest in its topic (`infrastructure/db/recommendation.py:287`;
   `NoSignalLeft` in `RecoSignal.cfg`).
8. A login that upgrades an outdated hash writes back the old password over a reset that committed in between
   (`application/accounts/use_cases.py:164`; the exception of `PasswordAsChosen`).
9. Two concurrent requests can redeem the same one-time token (`infrastructure/db/repositories.py:303`; the bound of
   `RedemptionsBounded` is reached).
10. A reaction committed for the absorbed account between the UPDATEs and the DELETE of `absorb` is lost
    (`infrastructure/db/repositories.py:189`; the exception of `ItemsFollow`).
11. `ConfirmTelegramLink` changes the user model by absorption and leaves the cached recommendations and the embedding
    as they were (`application/accounts/use_cases.py:327`; found by reading).

12. A yes carries out whatever change waits in the agent's session, also one whose offer never reached the user
    (`application/agent/use_cases.py:219`; `AgentUnseen.cfg`).
13. A turn can leave more messages than the history keeps, and the trimmed history then begins with the assistant
    (`application/agent/session.py:60`; the case is in the run `agent`).
14. The agent may rate events that it found but that no card showed (`application/agent/use_cases.py:284`; found by
    reading).
15. Quiet hours are compared with the worker's UTC hour, not the user's (`application/notifications/use_cases.py:81`;
    found by reading).
16. «Ещё ▶» repeats events after a failed card, a cleared dialogue or an overlapping page
    (`interfaces/bot/handlers.py:282`; `BotRepeats.cfg`).
17. The saved list skips an event when one is removed between two pages (`interfaces/bot/handlers.py:390`); a page
    whose call failed says «Это всё.» or «В сохранённом пусто» although events are left
    (`interfaces/bot/api_client.py:115-124`); an event saved between the count and the rows hides the button to the
    last page (the exceptions of `SavedListComplete`).
18. An edit that names a topic both as interest and as anti-interest leaves it in both lists
    (`domain/recommender/user_model.py:180`; an exception of `ListsApart`).
19. Two overlapping edits of a profile leave a mixture of both (`infrastructure/db/recommendation.py:230`;
    `ProfileRace.cfg`).
20. An event that was announced without date (or city) takes in announcements with different dates (cities)
    (`domain/events/dedup.py:65`; `CatalogueSwallows.cfg`).
21. The inbox shows a notification as read although the call that marks it failed (`src/web/app/inbox/page.tsx:26`;
    `WebUnread.cfg`). The feed shows a failed reaction as given in the same way (`src/web/app/feed/page.tsx:33`; by
    reading).
22. Linking a chat revives faded interest: `absorb` adds or moves the stored alpha and beta, and the update sets their
    date to the present (`infrastructure/db/repositories.py:169`, `models.py:273`), which the docstring of
    `apply_feedback` (`domain/recommender/bayesian.py:59`) rules out (found by reading).
23. `users.embedding` is computed without a lock and written only where it differs from what was read: a vector can
    stay, or be written back, after the last signal is gone, against the docstring's «None — нет сигнала»
    (`infrastructure/db/recommendation.py:219`; `VectorMeansSignal` in `RecoSignal.cfg`, and the exception `overtaken`
    of `VectorFollowsHistory`).

Four limits that the properties state rather than deny: the refresh after a backfill is not repeated when its job dies
(`interfaces/worker/main.py:129`) and passes over users who only disliked an event
(`infrastructure/db/recommendation.py:186`); a backlog larger than the relay's batch gets no successor job
(`processor.py:25`), and a full batch made only of known URLs stops the continuation of ingestion
(`application/ingestion/use_cases.py:198`).

## 7. Not modelled

- JWT and password hashing, HTTP validation, configuration and the wiring of the container: no state of their own; what
  a request may do without a session is in `Web`.
- Embeddings and mail rendering: results that come or fail; of what a source says, the texts. Whether two texts are
  alike, the words a query matches and their order are data, and so is what the language model answers within what the
  code accepts.
- `absorb`'s merges of statistics, profile text, city and format; of a profile its role, level and text.
- Ranking: floating point, where sums of the same terms in another order may differ in the
  last bit; the Thompson sample in the score of the
  feed (a score is data there; the explanation uses the mean, which is modelled).
- Retrieval: the setting `hybrid=False`, which answers every phrase by the strict search alone, as the default answers
  a phrase without words.
- Sources: an answer a parser cannot read (`infrastructure/sources/kudago.py:67`) makes the load of that source raise
  before it has written anything; in `Ingestion` that is a load that never began.
- Bot: the limit of the list the server recommends (all unrated events stand for it, so that a feed can be gone through to
  its end), help texts, «Подробнее», the digest and quiet hours in /settings (one call each; `Digest` has what they do).
- Web: the feed, the event page, notification settings, registration and linking pages, which show one answer each.
- Evaluation, migrations, deployment: outside the running service.

## 8. What is left

- The rest of `absorb`: the merges of statistics and of the profile's text, which would join `Accounts` and `Recommender`.
- The feed of the web client beside that of the bot, over one list of recommendations.
- Liveness by proof, once a prover for it is at hand: for each of the five properties the runs show which steps must
  be fair.
