---------------------------- MODULE Recommender ----------------------------
(***************************************************************************)
(* The model of one user and the list of recommendations cached for him:   *)
(* interactions, topic statistics, text profile, settings and the interest *)
(* vector in PostgreSQL, the ranked list in Redis.  GetRecommendations     *)
(* fills the cache; feedback, removals, profile edits, settings and the    *)
(* refresh after a backfill change the model and then delete the entry.    *)
(*                                                                         *)
(* Every transaction runs at READ COMMITTED; a step is what happens        *)
(* between two awaits that another transaction or the cache can notice.    *)
(* Events have one topic each.  Decay of the statistics is left out but    *)
(* for the columns it makes a transaction write.                           *)
(***************************************************************************)
EXTENDS Naturals, FiniteSets

CONSTANTS Events,     \* events the user reacts to
          TopicOf,    \* TopicOf[e]: the topic of e
          Unembedded, \* events that have no vector at first
          Texts,      \* texts "about me"
          Formats,    \* values of the city and format settings
          Requests,   \* concurrent requests and jobs that write
          Readers,    \* concurrent GetRecommendations
          None,       \* no row, no vector, no cached list
          MaxUpdates, \* bound on the writes that begin
          MaxFaults   \* bound on the writes that die

Topics == {TopicOf[e] : e \in Events}

ASSUME RecommenderAssumption ==
  /\ Unembedded \subseteq Events
  /\ Formats # {}
  /\ MaxUpdates \in Nat /\ MaxFaults \in Nat
  /\ None \notin [alpha : Nat, beta : Nat]

VARIABLES
  log,      \* committed rows of interactions
  stat,     \* stat[t]: the user's row of user_topic_stats
  profile,  \* the row of user_profiles
  format,   \* users.city, users.preferred_format
  vec,      \* users.embedding
  embedded, \* events with a vector
  req,      \* req[q]: a write in progress
  reader,   \* reader[g]: a GetRecommendations in progress
  cache,    \* the entry of recommendation_cache_key
  drift,    \* why vec may not follow from the rest (history)
  updates, faults

userVars == <<log, stat, profile, format, vec, embedded, drift>>
vars == <<log, stat, profile, format, vec, embedded, req, reader, cache,
          drift, updates, faults>>

Prior == 1
Feedback == {"like", "dislike", "save"}
Positive == {"like", "save"}
OnStats == Feedback \cup {"remove"}
OnProfile == {"about", "changes"}
Recomputing == OnStats \cup OnProfile \cup {"refresh"}
Kinds == Recomputing \cup {"view", "format", "web"}

Rows == [id : Nat, event : Events, action : Feedback]
Stats == [alpha : Nat, beta : Nat] \cup {None}
Embeddings == [about : Texts \cup {None}, topics : SUBSET Topics] \cup {None}
ProfileRows == [about : Texts \cup {None}, topics : SUBSET Topics, embedding : Embeddings]
Profiles == ProfileRows \cup {None}
Vectors == [profile : Embeddings, liked : SUBSET Events, disliked : SUBSET Events]
             \cup {None}

(* What the candidate query and the ranker take from the user.             *)
Models == [vec : Vectors, stat : [Topics -> Stats], declared : SUBSET Topics,
           format : Formats, excluded : SUBSET Events]

Declared == IF profile = None THEN {} ELSE profile.topics
Excluded == {r.event : r \in log}
Model == [vec |-> vec, stat |-> stat, declared |-> Declared, format |-> format,
          excluded |-> Excluded]

(* Reasons why a cached list may be out of date until its TTL: its fill    *)
(* overlapped a commit, a process died before its delete, or the web form  *)
(* changed the settings.                                                   *)
Excuses == {"overlap", "lost", "web"}

(* Reasons why vec may be another than the one the rest gives: the last    *)
(* computation was overtaken by a commit, the job died between a backfill  *)
(* and its refresh, or the refresh leaves out who disliked the event.      *)
Reasons == {"overtaken", "lost", "disliked"}

(* rows: interactions the request inserts or deletes; read, fresh: the row *)
(* it is to change, as it was read; new: the profile or setting to save;   *)
(* seen: users.embedding as it was read; vec: the vector it computed;      *)
(* raced: whose inputs have changed since.                                 *)
Idle == [phase |-> "idle", kind |-> "view", event |-> None, rows |-> {}, read |-> None,
         fresh |-> FALSE, new |-> None, seen |-> None, vec |-> None, raced |-> FALSE]
ReqStates ==
  [phase : {"idle", "users", "delete", "read", "write", "recompute", "gather", "commit",
            "reset"},
   kind : Kinds, event : Events \cup {None}, rows : SUBSET Rows,
   read : Stats \cup Profiles \cup Formats, fresh : BOOLEAN,
   new : Profiles \cup Formats, seen : Vectors, vec : Vectors, raced : BOOLEAN]
ReaderStates == [phase : {"idle", "missed", "read", "ranked"}, seen : Models \cup {None},
                 raced : BOOLEAN]

TypeOK ==
  /\ log \in SUBSET Rows
  /\ stat \in [Topics -> Stats]
  /\ profile \in Profiles
  /\ format \in Formats
  /\ vec \in Vectors
  /\ embedded \in SUBSET Events
  /\ req \in [Requests -> ReqStates]
  /\ reader \in [Readers -> ReaderStates]
  /\ cache \in [list : Models, excuse : SUBSET Excuses] \cup {None}
  /\ drift \in SUBSET Reasons
  /\ updates \in 0..MaxUpdates
  /\ faults \in 0..MaxFaults

Init ==
  /\ log = {}
  /\ stat = [t \in Topics |-> None]
  /\ profile = None
  /\ format \in Formats
  /\ vec = None
  /\ embedded = Events \ Unembedded
  /\ req = [q \in Requests |-> Idle]
  /\ reader = [g \in Readers |-> [phase |-> "idle", seen |-> None, raced |-> FALSE]]
  /\ cache = None
  /\ drift = {}
  /\ updates = 0
  /\ faults = 0

-----------------------------------------------------------------------------
(* How a write begins.                                                     *)

Begin(q, started) ==
  /\ req[q].phase = "idle"
  /\ updates < MaxUpdates
  /\ updates' = updates + 1
  /\ req' = [req EXCEPT ![q] = started]

(* RecordInteraction, the INSERT of the interaction.                       *)
Rate(q, e, a) ==
  /\ Begin(q, [Idle EXCEPT !.phase = "read", !.kind = a, !.event = e,
                           !.rows = {[id |-> updates, event |-> e, action |-> a]}])
  /\ UNCHANGED <<userVars, reader, cache, faults>>

(* ... of a view, which nothing in the user's model reads.                 *)
View(q) ==
  /\ Begin(q, [Idle EXCEPT !.phase = "commit"])
  /\ UNCHANGED <<userVars, reader, cache, faults>>

Saves(e) == {r \in log : r.event = e /\ r.action = "save"}

(* RemoveSavedEvent counts the saves; without one it returns False.        *)
Remove(q, e) ==
  /\ Saves(e) # {}
  /\ Begin(q, [Idle EXCEPT !.phase = "delete", !.kind = "remove", !.event = e])
  /\ UNCHANGED <<userVars, reader, cache, faults>>

(* _embed_profile: None for a profile without text, or when the call fails. *)
EmbeddingsOf(x, T) ==
  {None, [about |-> x, topics |-> T]} \ {[about |-> None, topics |-> {}]}

(* UpdateUserProfile: whatever the LLM or the user makes of the text x,    *)
(* None for an empty one.                                                  *)
EditAbout(q, x, T) ==
  /\ \E v \in EmbeddingsOf(x, T) :
       Begin(q, [Idle EXCEPT !.phase = "read", !.kind = "about",
                             !.new = [about |-> x, topics |-> T, embedding |-> v]])
  /\ UNCHANGED <<userVars, reader, cache, faults>>

(* ApplyProfileChanges: the profile as read now, with other topics.        *)
EditTopics(q, T) ==
  LET x == IF profile = None THEN None ELSE profile.about
  IN /\ \E v \in EmbeddingsOf(x, T) :
          Begin(q, [Idle EXCEPT !.phase = "read", !.kind = "changes",
                                !.new = [about |-> x, topics |-> T, embedding |-> v]])
     /\ UNCHANGED <<userVars, reader, cache, faults>>

(* UpdateProfile, from the bot or the agent ("format"), which delete the   *)
(* cached list afterwards, or from PATCH /users/me ("web"); it reads the   *)
(* row in the session that writes it.                                      *)
ChangeFormat(q, f, k) ==
  /\ Begin(q, [Idle EXCEPT !.phase = "commit", !.kind = k, !.new = f, !.read = format])
  /\ UNCHANGED <<userVars, reader, cache, faults>>

(* The requests whose vector is computed and whose inputs change now.      *)
Raced == [q \in Requests |->
            IF req[q].phase = "commit" THEN [req[q] EXCEPT !.raced = TRUE] ELSE req[q]]

(* The backfill job commits the vector of e; the refresh is to follow.     *)
Backfill(q, e) ==
  /\ req[q].phase = "idle"
  /\ e \in Events \ embedded
  /\ updates < MaxUpdates
  /\ updates' = updates + 1
  /\ embedded' = embedded \cup {e}
  /\ req' = [Raced EXCEPT ![q] = [Idle EXCEPT !.phase = "users", !.kind = "refresh",
                                              !.event = e]]
  /\ UNCHANGED <<log, stat, profile, format, vec, drift, reader, cache, faults>>

-----------------------------------------------------------------------------
(* The steps of a write.                                                   *)

(* Mutant: only likes count as positive feedback.                          *)
ConcernedByLikes(r) == r.action = "like"

(* users_with_positive_feedback_on: a user who did not like or save e is   *)
(* not refreshed.                                                          *)
Concerned(r) == r.action \in Positive

FindUsers(q) ==
  LET e == req[q].event
      found == \E r \in log : r.event = e /\ Concerned(r)
  IN /\ req[q].phase = "users"
     /\ req' = [req EXCEPT ![q] = IF found THEN [req[q] EXCEPT !.phase = "recompute"]
                                           ELSE Idle]
     /\ drift' = IF \E r \in log : r.event = e /\ r.action = "dislike" /\ ~found
                   THEN drift \cup {"disliked"} ELSE drift
     /\ UNCHANGED <<log, stat, profile, format, vec, embedded, reader, cache, updates,
                    faults>>

(* remove_interactions' DELETE waits for one that holds the same rows.     *)
Delete(q) ==
  /\ req[q].phase = "delete"
  /\ \A p \in Requests :
       (req[p].kind = "remove" /\ req[p].event = req[q].event) => req[p].rows = {}
  /\ req' = [req EXCEPT ![q].phase = "read", ![q].rows = Saves(req[q].event)]
  /\ UNCHANGED <<userVars, reader, cache, updates, faults>>

Topic(q) == TopicOf[req[q].event]

(* The row of user_topic_stats or user_profiles a request changes.         *)
RowExists(q) ==
  IF req[q].kind \in OnStats THEN stat[Topic(q)] # None ELSE profile # None

SameRow(p, q) ==
  \/ req[p].kind \in OnProfile /\ req[q].kind \in OnProfile
  \/ /\ req[p].kind \in OnStats /\ req[q].kind \in OnStats
     /\ Topic(p) = Topic(q)

ReadRow(q) ==
  /\ req[q].phase = "read"
  /\ req' = [req EXCEPT ![q].phase = "write", ![q].fresh = ~RowExists(q),
               ![q].read = IF req[q].kind \in OnStats THEN stat[Topic(q)] ELSE profile]
  /\ UNCHANGED <<userVars, reader, cache, updates, faults>>

(* The INSERT or UPDATE waits for a transaction that has written the row.  *)
WriteRow(q) ==
  /\ req[q].phase = "write"
  /\ \A p \in Requests : req[p].phase \in {"recompute", "gather", "commit"} => ~SameRow(p, q)
  /\ ~(req[q].fresh /\ RowExists(q))
  /\ req' = [req EXCEPT ![q].phase = "recompute"]
  /\ UNCHANGED <<userVars, reader, cache, updates, faults>>

(* The row to insert was inserted by another: the request fails.           *)
Clash(q) ==
  /\ req[q].phase = "write"
  /\ req[q].fresh /\ RowExists(q)
  /\ req' = [req EXCEPT ![q] = Idle]
  /\ UNCHANGED <<userVars, reader, cache, updates, faults>>

(* The interactions with the transaction's own inserts and deletes.        *)
LogAfter(q) ==
  IF req[q].kind = "remove" THEN log \ req[q].rows ELSE log \cup req[q].rows

Rocchio(v, liked, disliked) ==
  IF v = None /\ liked = {}
    THEN None ELSE [profile |-> v, liked |-> liked, disliked |-> disliked]

(* combine_user_embedding of the profile's vector and of the reactions of  *)
(* L to events with a vector, each event once.                             *)
VectorOf(v, L, E) ==
  Rocchio(v,
          {r.event : r \in {s \in L : s.action \in Positive}} \cap E,
          {r.event : r \in {s \in L : s.action = "dislike"}} \cap E)

ProfileVector(p) == IF p = None THEN None ELSE p.embedding

(* The session's own profile, once save_profile has assigned its columns.  *)
VectorSeen(q) ==
  ProfileVector(IF req[q].kind \in OnProfile THEN req[q].new ELSE profile)

VectorRead(q) == VectorOf(VectorSeen(q), LogAfter(q), embedded)

(* recompute_user_embedding reads the user, then the profile and the       *)
(* reactions.                                                              *)
Recompute(q) ==
  /\ req[q].phase = "recompute"
  /\ req' = [req EXCEPT ![q].phase = "gather", ![q].seen = vec]
  /\ UNCHANGED <<userVars, reader, cache, updates, faults>>

Gather(q) ==
  /\ req[q].phase = "gather"
  /\ req' = [req EXCEPT ![q].phase = "commit", ![q].vec = VectorRead(q)]
  /\ UNCHANGED <<userVars, reader, cache, updates, faults>>

(* An assigned column is written when it differs from the row as it was    *)
(* read; two vectors always differ, None and None do not.                  *)
Flushed(now, read, new) == IF new = read THEN now ELSE new

FlushedVector(now, read, new) == IF new = None /\ read = None THEN now ELSE new

ProfileAfter(q) ==
  LET new == req[q].new
      read == req[q].read
  IN IF req[q].kind \notin OnProfile THEN profile
     ELSE IF req[q].fresh THEN new
     ELSE [about |-> Flushed(profile.about, read.about, new.about),
           topics |-> Flushed(profile.topics, read.topics, new.topics),
           embedding |-> FlushedVector(profile.embedding, read.embedding, new.embedding)]

FormatAfter(q) ==
  IF req[q].kind \in {"format", "web"}
    THEN Flushed(format, req[q].read, req[q].new) ELSE format

VecAfter(q) ==
  IF req[q].kind \in Recomputing
    THEN FlushedVector(vec, req[q].seen, req[q].vec) ELSE vec

(* The inputs of the vector have changed since they were read, or it or    *)
(* the profile's was not written where another transaction's now stands.   *)
Overtaken(q) ==
  \/ req[q].raced
  \/ VecAfter(q) # req[q].vec
  \/ ProfileVector(ProfileAfter(q)) # VectorSeen(q)

(* apply_feedback: (alpha, beta) after a reaction or a removed save, never *)
(* below the prior.                                                        *)
Weighed(s, k) ==
  [alpha |-> IF k = "like" THEN s.alpha + 3
             ELSE IF k = "save" THEN s.alpha + 1
             ELSE IF k = "remove" /\ s.alpha > Prior THEN s.alpha - 1 ELSE s.alpha,
   beta |-> IF k = "dislike" THEN s.beta + 2 ELSE s.beta]

(* The UPDATE sets the columns that differ from what was read: the decay   *)
(* up to now changes each that is above the prior.                         *)
Stored(s, read, k) ==
  LET new == Weighed(read, k)
  IN [alpha |-> IF new.alpha # read.alpha \/ read.alpha > Prior THEN new.alpha ELSE s.alpha,
      beta |-> IF new.beta # read.beta \/ read.beta > Prior THEN new.beta ELSE s.beta]

StatAfter(q) ==
  IF req[q].kind \notin OnStats THEN stat
  ELSE [stat EXCEPT ![Topic(q)] =
          IF req[q].fresh THEN Weighed([alpha |-> Prior, beta |-> Prior], req[q].kind)
                          ELSE Stored(stat[Topic(q)], req[q].read, req[q].kind)]

(* Mutant: the refresh job leaves the users' lists in the cache.           *)
ResetsButRefresh(k) == k \notin {"web", "refresh"}

ResetsAfter(k) == k # "web"

Excused(entry, why) ==
  IF entry = None THEN None ELSE [entry EXCEPT !.excuse = @ \cup {why}]

Commit(q) ==
  LET k == req[q].kind
      after == IF ResetsAfter(k) THEN [Idle EXCEPT !.phase = "reset"] ELSE Idle
  IN /\ req[q].phase = "commit"
     /\ log' = LogAfter(q)
     /\ stat' = StatAfter(q)
     /\ profile' = ProfileAfter(q)
     /\ format' = FormatAfter(q)
     /\ vec' = VecAfter(q)
     /\ drift' = IF k \notin Recomputing THEN drift
                 ELSE IF Overtaken(q) THEN {"overtaken"} ELSE {}
     /\ req' = [IF k \in OnStats \cup OnProfile THEN Raced ELSE req EXCEPT ![q] = after]
     /\ reader' = [g \in Readers |->
          IF k # "view" /\ reader[g].phase \in {"read", "ranked"}
            THEN [reader[g] EXCEPT !.raced = TRUE] ELSE reader[g]]
     /\ cache' = IF k = "web" THEN Excused(cache, "web") ELSE cache
     /\ UNCHANGED <<embedded, updates, faults>>

Reset(q) ==
  /\ req[q].phase = "reset"
  /\ cache' = None
  /\ req' = [req EXCEPT ![q] = Idle]
  /\ UNCHANGED <<userVars, reader, updates, faults>>

Refreshing(q) ==
  req[q].kind = "refresh" /\ req[q].phase \in {"users", "recompute", "gather", "commit"}

(* A request raises, or its process dies: the transaction is rolled back;  *)
(* a refresh or a delete that was still to come is lost.                   *)
Fail(q) ==
  /\ req[q].phase # "idle"
  /\ faults < MaxFaults
  /\ faults' = faults + 1
  /\ cache' = IF req[q].phase = "reset" THEN Excused(cache, "lost") ELSE cache
  /\ drift' = IF Refreshing(q) THEN drift \cup {"lost"} ELSE drift
  /\ req' = [req EXCEPT ![q] = Idle]
  /\ UNCHANGED <<log, stat, profile, format, vec, embedded, reader, updates>>

-----------------------------------------------------------------------------
(* GetRecommendations.  A hit returns the cached list and changes nothing. *)

Miss(g) ==
  /\ reader[g].phase = "idle"
  /\ cache = None
  /\ reader' = [reader EXCEPT ![g].phase = "missed"]
  /\ UNCHANGED <<userVars, req, cache, updates, faults>>

(* get_user_prefs and load_bayesian_stats.                                 *)
ReadModel(g) ==
  /\ reader[g].phase = "missed"
  /\ reader' = [reader EXCEPT ![g] =
       [phase |-> "read", seen |-> [Model EXCEPT !.excluded = {}], raced |-> FALSE]]
  /\ UNCHANGED <<userVars, req, cache, updates, faults>>

(* The candidates, in a session of their own, and the ranking.             *)
Generate(g) ==
  /\ reader[g].phase = "read"
  /\ reader' = [reader EXCEPT ![g].phase = "ranked", ![g].seen.excluded = Excluded]
  /\ UNCHANGED <<userVars, req, cache, updates, faults>>

Store(g) ==
  /\ reader[g].phase = "ranked"
  /\ cache' = [list |-> reader[g].seen,
               excuse |-> IF reader[g].raced THEN {"overlap"} ELSE {}]
  /\ reader' = [reader EXCEPT ![g] = [phase |-> "idle", seen |-> None, raced |-> FALSE]]
  /\ UNCHANGED <<userVars, req, updates, faults>>

(* Mutant: the list is stored without ttl_seconds.                         *)
ExpireNever == cache = None /\ UNCHANGED vars

(* The TTL of the entry runs out.                                          *)
Expire ==
  /\ cache # None
  /\ cache' = None
  /\ UNCHANGED <<userVars, req, reader, updates, faults>>

-----------------------------------------------------------------------------
Start(q) ==
  \/ \E e \in Events, a \in Feedback : Rate(q, e, a)
  \/ View(q)
  \/ \E e \in Events : Remove(q, e)
  \/ \E x \in Texts \cup {None}, T \in SUBSET Topics : EditAbout(q, x, T)
  \/ \E T \in SUBSET Topics : EditTopics(q, T)
  \/ \E f \in Formats, k \in {"format", "web"} : ChangeFormat(q, f, k)
  \/ \E e \in Events : Backfill(q, e)

Proceed(q) ==
  \/ FindUsers(q)
  \/ Delete(q)
  \/ ReadRow(q)
  \/ WriteRow(q)
  \/ Clash(q)
  \/ Recompute(q)
  \/ Gather(q)
  \/ Commit(q)
  \/ Reset(q)

Fill(g) == ReadModel(g) \/ Generate(g) \/ Store(g)

Next ==
  \/ \E q \in Requests : Start(q) \/ Proceed(q) \/ Fail(q)
  \/ \E g \in Readers : Miss(g) \/ Fill(g)
  \/ Expire

Spec == Init /\ [][Next]_vars

(* A request that began goes on, and the TTL of a list that nobody deletes *)
(* runs out.  Requests come or do not come.                                *)
Fairness ==
  /\ \A q \in Requests : WF_vars(Proceed(q))
  /\ \A g \in Readers : WF_vars(Fill(g))
  /\ WF_vars(Expire)

FairSpec == Spec /\ Fairness

-----------------------------------------------------------------------------
(* Properties.                                                             *)

Fresh == cache = None \/ cache.list = Model

(* Whatever interleaves, a cached list is the one the user's model gives   *)
(* now, or a request that has committed is about to delete it, or it has   *)
(* one of the three excuses (recommendation_cache_key and its deletes).    *)
StaleOnlyIfExcused ==
  \/ Fresh
  \/ \E q \in Requests : req[q].phase = "reset"
  \/ cache.excuse # {}

(* users.embedding is the Rocchio vector of the committed profile and      *)
(* reactions, duplicates and removed saves included, but while a refresh   *)
(* is on its way and for the three reasons: no other order of backfills,   *)
(* refreshes, edits and reactions leaves it behind                         *)
(* (recompute_user_embedding, backfill_embeddings).                        *)
VectorFollowsHistory ==
  \/ vec = VectorOf(ProfileVector(profile), log, embedded)
  \/ drift # {}
  \/ \E q \in Requests : Refreshing(q)

(* An outdated list does not stay: when the writes cease, every list that  *)
(* is served is in the end the current one, fills still under way and      *)
(* deletes that were lost notwithstanding (the TTL of cache.set).          *)
EventuallyFresh == <>[]Fresh

(* The docstring of recommendation_cache_key: the entry is dropped at any  *)
(* change of the user's model, settings included.                          *)
SettingsReset ==
  \/ cache = None
  \/ cache.list.format = format
  \/ \E q \in Requests : req[q].phase = "reset"
  \/ cache.excuse \cap {"overlap", "lost"} # {}

(* The docstring of recompute_user_embedding: a user without signal has no *)
(* vector.                                                                 *)
VectorMeansSignal ==
  (\A q \in Requests : req[q].phase = "idle") =>
    (vec # None => VectorOf(ProfileVector(profile), log, embedded) # None)

(* The docstring of RemoveSavedEvent: removing a save takes its signal     *)
(* back, so that with no request under way a topic without a like or a     *)
(* save has no more than the prior.                                        *)
NoSignalLeft ==
  (\A q \in Requests : req[q].phase = "idle") =>
    \A t \in Topics :
      (stat[t] # None /\ \A r \in log : TopicOf[r.event] = t => r.action = "dislike") =>
        stat[t].alpha = Prior
=============================================================================
