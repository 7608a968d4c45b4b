-------------------------- MODULE RecommenderProofs --------------------------
(***************************************************************************)
(* Type correctness of Recommender, and its two invariants: a cached list  *)
(* is out of date only with an excuse, and the interest vector follows the *)
(* history unless a computation was overtaken.  Both rest on what every    *)
(* request in progress (Sound) and every fill in progress (SeesModel) know *)
(* while nobody has marked them as raced, and the second on which events   *)
(* the vector may still lack (VectorAccounted).                            *)
(***************************************************************************)
EXTENDS Recommender, TLAPS

LogOf(x) == IF x.kind = "remove" THEN log \ x.rows ELSE log \cup x.rows
SeenBy(x) == ProfileVector(IF x.kind \in OnProfile THEN x.new ELSE profile)

Working == {"write", "recompute", "gather", "commit"}

Refreshes(x) ==
  x.kind = "refresh" /\ x.phase \in {"users", "recompute", "gather", "commit"}

(* Events with a new vector whose refresh is on its way.                   *)
Awaited == {req[q].event : q \in {p \in Requests : Refreshing(p)}}

(* What a request's record x may rely on.  A row it found it will find     *)
(* again; a vector nobody has raced is the one it would compute now.       *)
Sound(x) ==
  /\ x \in ReqStates
  /\ x.phase \in {"delete", "read", "write"} => x.kind \in OnStats \cup OnProfile
  /\ x.phase = "delete" => x.kind = "remove"
  /\ x.phase = "users" => x.kind = "refresh"
  /\ x.phase \in {"recompute", "gather"} => x.kind \in Recomputing
  /\ x.kind \in OnStats => x.event \in Events
  /\ x.kind \notin OnStats => x.rows = {}
  /\ x.kind \in OnProfile => x.new \in ProfileRows
  /\ x.kind \in {"format", "web"} => x.new \in Formats
  /\ (x.kind \in OnStats /\ x.phase \in Working /\ ~x.fresh) =>
       x.read \in Stats \ {None} /\ stat[TopicOf[x.event]] # None
  /\ (x.kind \in OnProfile /\ x.phase \in Working /\ ~x.fresh) =>
       x.read \in ProfileRows /\ profile \in ProfileRows
  /\ (x.phase = "commit" /\ x.kind \in Recomputing /\ ~x.raced) =>
       x.vec = VectorOf(SeenBy(x), LogOf(x), embedded)

(* What a fill y has read is still so, while nobody has raced it.          *)
SeesModel(y) ==
  /\ y \in ReaderStates
  /\ y.phase \in {"read", "ranked"} => y.seen \in Models
  /\ (y.phase = "read" /\ ~y.raced) => y.seen = [Model EXCEPT !.excluded = {}]
  /\ (y.phase = "ranked" /\ ~y.raced) => y.seen = Model

(* The stored vector lacks at most the events whose refresh is on its way. *)
VectorAccounted ==
  \/ drift # {}
  \/ \E M \in SUBSET Awaited :
       vec = VectorOf(ProfileVector(profile), log, embedded \ M)

IInv ==
  /\ TypeOK
  /\ \A q \in Requests : Sound(req[q])
  /\ \A g \in Readers : SeesModel(reader[g])
  /\ StaleOnlyIfExcused
  /\ VectorAccounted

-----------------------------------------------------------------------------
(* Facts about the operators.                                              *)

(* The idle record makes no claim.                                         *)
LEMMA IdleIsSound == Sound(Idle)
  BY DEF Sound, Idle, ReqStates, Kinds, Recomputing, OnStats, OnProfile, Feedback, Stats,
         Profiles, ProfileRows, Embeddings, Vectors, Working

(* The model a ranker takes from a well-typed state is one of Models.      *)
LEMMA ModelType == TypeOK => Model \in Models
  BY DEF TypeOK, Model, Models, Declared, Excluded, Profiles, ProfileRows, Rows

(* combine_user_embedding returns a vector of the model.                   *)
LEMMA VectorType ==
  ASSUME NEW v \in Embeddings, NEW L \in SUBSET Rows, NEW E \in SUBSET Events
  PROVE  VectorOf(v, L, E) \in Vectors
  <1> DEFINE liked == {r.event : r \in {s \in L : s.action \in Positive}} \cap E
             disliked == {r.event : r \in {s \in L : s.action = "dislike"}} \cap E
  <1>1. liked \in SUBSET Events /\ disliked \in SUBSET Events
    OBVIOUS
  <1>2. VectorOf(v, L, E) = Rocchio(v, liked, disliked)
    BY DEF VectorOf
  <1> QED  BY <1>1, <1>2 DEF Rocchio, Vectors

(* The profile's vector is one, and so is what a request has read of it.   *)
LEMMA EmbeddingType ==
  /\ \A p \in Profiles : ProfileVector(p) \in Embeddings
  /\ TypeOK => \A q \in Requests : Sound(req[q]) => VectorSeen(q) \in Embeddings
  <1>1. \A p \in Profiles : ProfileVector(p) \in Embeddings
    BY DEF ProfileVector, Profiles, ProfileRows, Embeddings
  <1> QED  BY <1>1 DEF VectorSeen, TypeOK, Sound, Profiles

(* A vector for an event nobody reacted to changes no user's vector.       *)
LEMMA UnseenEvent ==
  ASSUME NEW v, NEW L, NEW E, NEW F, NEW e,
         e \notin {r.event : r \in L}, E \cup {e} = F \cup {e}
  PROVE  VectorOf(v, L, E) = VectorOf(v, L, F)
  <1>1. ASSUME NEW R, R \subseteq {r.event : r \in L}
        PROVE  R \cap E = R \cap F
    BY <1>1
  <1> DEFINE liked == {r.event : r \in {s \in L : s.action \in Positive}}
             disliked == {r.event : r \in {s \in L : s.action = "dislike"}}
  <1>2. liked \cap E = liked \cap F /\ disliked \cap E = disliked \cap F
    <2>1. liked \subseteq {r.event : r \in L} /\ disliked \subseteq {r.event : r \in L}
      OBVIOUS
    <2> HIDE DEF liked, disliked
    <2> QED  BY <1>1, <2>1
  <1> QED  BY <1>2 DEF VectorOf

(* Since no vector is missing but of events still awaited, the stored one  *)
(* is right or a refresh is on its way.                                    *)
LEMMA AccountedFollows == VectorAccounted => VectorFollowsHistory
  <1> SUFFICES ASSUME VectorAccounted, drift = {}
               PROVE  VectorFollowsHistory
    BY DEF VectorFollowsHistory
  <1>1. PICK M \in SUBSET Awaited :
          vec = VectorOf(ProfileVector(profile), log, embedded \ M)
    BY DEF VectorAccounted
  <1>2. CASE M = {}
    <2>1. embedded \ M = embedded
      BY <1>2
    <2> QED  BY <1>1, <2>1 DEF VectorFollowsHistory
  <1>3. CASE M # {}
    <2>1. \E q \in Requests : Refreshing(q)
      BY <1>1, <1>3 DEF Awaited
    <2> QED  BY <2>1 DEF VectorFollowsHistory
  <1> QED  BY <1>2, <1>3

(* While the user's data stay and nobody gives an awaited refresh up, the  *)
(* account is still good.                                                  *)
LEMMA StillAccounted ==
  ASSUME VectorAccounted, UNCHANGED <<vec, profile, log, embedded>>, drift \subseteq drift',
         Awaited \subseteq Awaited'
  PROVE  VectorAccounted'
  <1>1. CASE drift # {}
    BY <1>1 DEF VectorAccounted
  <1>2. CASE drift = {}
    <2>1. PICK M \in SUBSET Awaited :
            vec = VectorOf(ProfileVector(profile), log, embedded \ M)
      BY <1>2 DEF VectorAccounted
    <2>2. M \in SUBSET Awaited'
      BY <2>1
    <2>3. vec' = VectorOf(ProfileVector(profile'), log', embedded' \ M)
      BY <2>1
    <2> QED  BY <2>2, <2>3 DEF VectorAccounted
  <1> QED  BY <1>1, <1>2

(* Statistics stay statistics, and a row stays a row.                      *)
LEMMA WeighedType ==
  ASSUME NEW s \in [alpha : Nat, beta : Nat], NEW k
  PROVE  Weighed(s, k) \in [alpha : Nat, beta : Nat]
  BY DEF Weighed, Prior

LEMMA StatAfterType ==
  ASSUME TypeOK, NEW q \in Requests, Sound(req[q]), req[q].phase = "commit"
  PROVE  /\ StatAfter(q) \in [Topics -> Stats]
         /\ \A t \in Topics : stat[t] # None => StatAfter(q)[t] # None
  <1> DEFINE x == req[q]
             t == Topic(q)
  <1>1. CASE x.kind \notin OnStats
    BY <1>1 DEF StatAfter, TypeOK
  <1>2. CASE x.kind \in OnStats
    <2>1. t \in Topics  BY <1>2 DEF Topic, Topics, Sound
    <2>2. ASSUME NEW new \in [alpha : Nat, beta : Nat], StatAfter(q) = [stat EXCEPT ![t] = new]
          PROVE  /\ StatAfter(q) \in [Topics -> Stats]
                 /\ \A u \in Topics : stat[u] # None => StatAfter(q)[u] # None
      BY <2>1, <2>2, RecommenderAssumption DEF Stats, TypeOK
    <2>3. CASE x.fresh
      <3>1. [alpha |-> Prior, beta |-> Prior] \in [alpha : Nat, beta : Nat]  BY DEF Prior
      <3> QED  BY <1>2, <2>2, <2>3, <3>1, WeighedType DEF StatAfter
    <2>4. CASE ~x.fresh
      <3>1. x.read \in Stats \ {None} /\ stat[t] # None
        BY <1>2, <2>4 DEF Sound, Topic, Working
      <3>2. x.read \in [alpha : Nat, beta : Nat]
        BY <3>1 DEF Stats
      <3>3. stat[t] \in [alpha : Nat, beta : Nat]
        BY <2>1, <3>1 DEF TypeOK, Stats
      <3>4. Weighed(x.read, x.kind) \in [alpha : Nat, beta : Nat]
        BY <3>2, WeighedType
      <3>5. Stored(stat[t], x.read, x.kind) \in [alpha : Nat, beta : Nat]
        BY <3>3, <3>4 DEF Stored
      <3> QED  BY <1>2, <2>2, <2>4, <3>5 DEF StatAfter
    <2> QED  BY <2>3, <2>4
  <1> QED  BY <1>1, <1>2

(* The profile after a commit is one, and a row stays a row.               *)
LEMMA ProfileAfterType ==
  ASSUME TypeOK, NEW q \in Requests, Sound(req[q]), req[q].phase = "commit"
  PROVE  /\ ProfileAfter(q) \in Profiles
         /\ profile \in ProfileRows => ProfileAfter(q) \in ProfileRows
  <1> DEFINE x == req[q]
  <1>1. CASE x.kind \notin OnProfile
    BY <1>1 DEF ProfileAfter, TypeOK
  <1>2. CASE x.kind \in OnProfile /\ x.fresh
    BY <1>2 DEF ProfileAfter, Sound, Profiles
  <1>3. CASE x.kind \in OnProfile /\ ~x.fresh
    <2>1. x.new \in ProfileRows /\ x.read \in ProfileRows /\ profile \in ProfileRows
      BY <1>3 DEF Sound, Working
    <2>2. Flushed(profile.about, x.read.about, x.new.about) \in Texts \cup {None}
      BY <2>1 DEF Flushed, ProfileRows
    <2>3. Flushed(profile.topics, x.read.topics, x.new.topics) \in SUBSET Topics
      BY <2>1 DEF Flushed, ProfileRows
    <2>4. FlushedVector(profile.embedding, x.read.embedding, x.new.embedding) \in Embeddings
      BY <2>1 DEF FlushedVector, ProfileRows
    <2> QED  BY <1>3, <2>2, <2>3, <2>4 DEF ProfileAfter, ProfileRows, Profiles
  <1> QED  BY <1>1, <1>2, <1>3

-----------------------------------------------------------------------------
(* Steps that change nothing but one request.                              *)

LEMMA OwnStep ==
  ASSUME IInv, NEW q \in Requests, NEW x, Sound(x),
         req' = [req EXCEPT ![q] = x],
         UNCHANGED <<userVars, reader, cache>>,
         req[q].phase # "reset",
         Refreshing(q) => Refreshes(x) /\ x.event = req[q].event,
         updates' \in 0..MaxUpdates, faults' \in 0..MaxFaults
  PROVE  IInv'
  <1> USE DEF userVars
  <1>1. TypeOK'
    BY DEF IInv, TypeOK, Sound
  <1>2. ASSUME NEW p \in Requests
        PROVE  Sound(req[p])'
    <2>1. Sound(req'[p])
      BY DEF IInv, TypeOK
    <2> QED  BY <2>1 DEF Sound, LogOf, SeenBy
  <1>5. (\A g \in Readers : SeesModel(reader[g]))'
    BY DEF IInv, SeesModel, Model, Declared, Excluded
  <1>6. StaleOnlyIfExcused'
    BY DEF IInv, StaleOnlyIfExcused, Fresh, Model, Declared, Excluded, TypeOK
  <1>7. VectorAccounted'
    <2>1. \A p \in Requests : Refreshing(p) => Refreshing(p)' /\ req'[p].event = req[p].event
      BY DEF IInv, TypeOK, Refreshing, Refreshes
    <2>2. Awaited \subseteq Awaited'
      BY <2>1 DEF Awaited
    <2> QED  BY <2>2, StillAccounted DEF IInv
  <1> QED  BY <1>1, <1>2, <1>5, <1>6, <1>7 DEF IInv

(* A request begins with a sound record.                                   *)
LEMMA StartStep ==
  ASSUME IInv, NEW q \in Requests, NEW x, Sound(x), Begin(q, x),
         UNCHANGED <<userVars, reader, cache, faults>>
  PROVE  IInv'
  <1>1. updates' \in 0..MaxUpdates /\ faults' \in 0..MaxFaults
    BY RecommenderAssumption DEF IInv, TypeOK, Begin
  <1>2. ~Refreshing(q)
    BY DEF Begin, Refreshing
  <1> QED  BY <1>1, <1>2, OwnStep DEF Begin

LEMMA RateStep ==
  ASSUME IInv, NEW q \in Requests, NEW e \in Events, NEW a \in Feedback, Rate(q, e, a)
  PROVE  IInv'
  <1> DEFINE x == [Idle EXCEPT !.phase = "read", !.kind = a, !.event = e,
                     !.rows = {[id |-> updates, event |-> e, action |-> a]}]
  <1>1. {[id |-> updates, event |-> e, action |-> a]} \in SUBSET Rows
    BY RecommenderAssumption DEF Rows, IInv, TypeOK
  <1>2. x \in ReqStates
    BY <1>1, IdleIsSound DEF Sound, ReqStates, Kinds, Recomputing, OnStats
  <1>3. Sound(x)
    BY <1>2 DEF Sound, Idle, OnStats, OnProfile, Feedback, Working
  <1> QED  BY <1>3, StartStep DEF Rate

LEMMA ViewStep ==
  ASSUME IInv, NEW q \in Requests, View(q)
  PROVE  IInv'
  <1>1. Sound([Idle EXCEPT !.phase = "commit"])
    BY IdleIsSound
    DEF Sound, Idle, ReqStates, Kinds, Recomputing, OnStats, OnProfile, Feedback
  <1> QED  BY <1>1, StartStep DEF View

LEMMA RemoveStep ==
  ASSUME IInv, NEW q \in Requests, NEW e \in Events, Remove(q, e)
  PROVE  IInv'
  <1>1. Sound([Idle EXCEPT !.phase = "delete", !.kind = "remove", !.event = e])
    BY IdleIsSound
    DEF Sound, Idle, ReqStates, Kinds, Recomputing, OnStats, OnProfile, Feedback, Working
  <1> QED  BY <1>1, StartStep DEF Remove

LEMMA EditStep ==
  ASSUME IInv, NEW q \in Requests, NEW T \in SUBSET Topics,
         EditTopics(q, T) \/ \E x \in Texts \cup {None} : EditAbout(q, x, T)
  PROVE  IInv'
  <1>1. ASSUME NEW p \in ProfileRows, NEW k \in OnProfile
        PROVE  Sound([Idle EXCEPT !.phase = "read", !.kind = k, !.new = p])
    BY <1>1, IdleIsSound
    DEF Sound, Idle, ReqStates, Kinds, Recomputing, OnStats, OnProfile, Feedback, Working,
        Profiles
  <1>2. ASSUME NEW x \in Texts \cup {None}, NEW v \in EmbeddingsOf(x, T)
        PROVE  [about |-> x, topics |-> T, embedding |-> v] \in ProfileRows
    BY <1>2 DEF EmbeddingsOf, Embeddings, ProfileRows
  <1>3. CASE EditTopics(q, T)
    <2> DEFINE x == IF profile = None THEN None ELSE profile.about
    <2>1. x \in Texts \cup {None}
      BY DEF IInv, TypeOK, Profiles, ProfileRows
    <2>2. PICK v \in EmbeddingsOf(x, T) :
            Begin(q, [Idle EXCEPT !.phase = "read", !.kind = "changes",
                                  !.new = [about |-> x, topics |-> T, embedding |-> v]])
      BY <1>3 DEF EditTopics
    <2> HIDE DEF x
    <2> QED  BY <1>1, <1>2, <1>3, <2>1, <2>2, StartStep DEF EditTopics, OnProfile
  <1>4. ASSUME NEW x \in Texts \cup {None}, EditAbout(q, x, T)
        PROVE  IInv'
    BY <1>1, <1>2, <1>4, StartStep DEF EditAbout, OnProfile
  <1> QED  BY <1>3, <1>4

LEMMA ChangeFormatStep ==
  ASSUME IInv, NEW q \in Requests, NEW f \in Formats, NEW k \in {"format", "web"},
         ChangeFormat(q, f, k)
  PROVE  IInv'
  <1>1. Sound([Idle EXCEPT !.phase = "commit", !.kind = k, !.new = f, !.read = format])
    BY IdleIsSound
    DEF Sound, Idle, ReqStates, Kinds, Recomputing, OnStats, OnProfile, Feedback, Working,
        IInv, TypeOK
  <1> QED  BY <1>1, StartStep DEF ChangeFormat

(* The steps of a write up to its commit.                                  *)
LEMMA WorkStep ==
  ASSUME IInv, NEW q \in Requests,
         \/ Delete(q) \/ ReadRow(q) \/ WriteRow(q) \/ Clash(q)
         \/ Recompute(q) \/ Gather(q)
  PROVE  IInv'
  <1>0. Sound(req[q]) /\ req[q] \in ReqStates /\ req \in [Requests -> ReqStates]
    BY DEF IInv, Sound, TypeOK
  <1>1. ASSUME NEW x, Sound(x), req' = [req EXCEPT ![q] = x], req[q].phase # "reset",
               Refreshing(q) => Refreshes(x) /\ x.event = req[q].event,
               UNCHANGED <<userVars, reader, cache, updates, faults>>
        PROVE  IInv'
    BY <1>1, OwnStep DEF IInv, TypeOK
  <1>2. req[q].phase \in {"delete", "read", "write"} => ~Refreshing(q)
    BY DEF Refreshing
  <1>3. CASE Delete(q)
    <2> DEFINE x == [req[q] EXCEPT !.phase = "read", !.rows = Saves(req[q].event)]
    <2>1. Saves(req[q].event) \in SUBSET Rows
      BY DEF Saves, IInv, TypeOK
    <2>2. Sound(x)
      BY <1>0, <1>3, <2>1
      DEF Delete, Sound, ReqStates, Working, OnStats
    <2>3. req' = [req EXCEPT ![q] = x]
      BY <1>0, <1>3 DEF Delete
    <2> QED  BY <1>1, <1>2, <1>3, <2>2, <2>3 DEF Delete
  <1>4. CASE ReadRow(q)
    <2> DEFINE x == [req[q] EXCEPT !.phase = "write", !.fresh = ~RowExists(q),
                       !.read = IF req[q].kind \in OnStats THEN stat[Topic(q)] ELSE profile]
    <2>1. req[q].kind \in OnStats => stat[Topic(q)] \in Stats
      BY <1>0 DEF IInv, TypeOK, Sound, Topic, Topics
    <2>2. profile \in Profiles
      BY DEF IInv, TypeOK
    <2>3. x \in ReqStates
      BY <1>0, <2>1, <2>2 DEF ReqStates
    <2>4. (x.kind \in OnStats /\ ~x.fresh) =>
            x.read \in Stats \ {None} /\ stat[TopicOf[x.event]] # None
      BY <1>0, <2>1 DEF RowExists, Topic, ReqStates
    <2>5. (x.kind \in OnProfile /\ ~x.fresh) =>
            x.read \in ProfileRows /\ profile \in ProfileRows
      BY <1>0, <2>2 DEF RowExists, ReqStates, Profiles, OnProfile, OnStats, Feedback
    <2>6. Sound(x)
      BY <1>0, <1>4, <2>3, <2>4, <2>5 DEF ReadRow, Sound, ReqStates
    <2>7. req' = [req EXCEPT ![q] = x]
      BY <1>0, <1>4 DEF ReadRow
    <2> QED  BY <1>1, <1>2, <1>4, <2>6, <2>7 DEF ReadRow
  <1>5. CASE WriteRow(q)
    <2> DEFINE x == [req[q] EXCEPT !.phase = "recompute"]
    <2>1. Sound(x)
      BY <1>0, <1>5
      DEF WriteRow, Sound, ReqStates, Working, Recomputing
    <2>2. req' = [req EXCEPT ![q] = x]
      BY <1>0, <1>5 DEF WriteRow
    <2> QED  BY <1>1, <1>2, <1>5, <2>1, <2>2 DEF WriteRow
  <1>6. CASE Clash(q)
    BY <1>1, <1>2, <1>6, IdleIsSound DEF Clash
  <1>7. CASE Recompute(q)
    <2> DEFINE x == [req[q] EXCEPT !.phase = "gather", !.seen = vec]
    <2>1. vec \in Vectors
      BY DEF IInv, TypeOK
    <2>2. Sound(x)
      BY <1>0, <1>7, <2>1 DEF Recompute, Sound, ReqStates, Working
    <2>3. req' = [req EXCEPT ![q] = x]
      BY <1>0, <1>7 DEF Recompute
    <2>4. Refreshing(q) => Refreshes(x) /\ x.event = req[q].event
      BY <1>0 DEF Refreshing, Refreshes, ReqStates
    <2> QED  BY <1>1, <1>7, <2>2, <2>3, <2>4 DEF Recompute
  <1>8. CASE Gather(q)
    <2> DEFINE x == [req[q] EXCEPT !.phase = "commit", !.vec = VectorRead(q)]
    <2>1. VectorSeen(q) \in Embeddings /\ LogAfter(q) \in SUBSET Rows
      BY <1>0, EmbeddingType DEF LogAfter, IInv, TypeOK, Sound, ReqStates
    <2>2. VectorRead(q) \in Vectors
      BY <2>1, VectorType DEF VectorRead, IInv, TypeOK
    <2>3. x.vec = VectorOf(SeenBy(x), LogOf(x), embedded)
      BY <1>0 DEF VectorRead, SeenBy, LogOf, VectorSeen, LogAfter, ReqStates
    <2>4. Sound(x)
      BY <1>0, <1>8, <2>2, <2>3 DEF Gather, Sound, ReqStates, Working
    <2>5. req' = [req EXCEPT ![q] = x]
      BY <1>0, <1>8 DEF Gather
    <2>6. Refreshing(q) => Refreshes(x) /\ x.event = req[q].event
      BY <1>0 DEF Refreshing, Refreshes, ReqStates
    <2> QED  BY <1>1, <1>8, <2>4, <2>5, <2>6 DEF Gather
  <1> QED  BY <1>3, <1>4, <1>5, <1>6, <1>7, <1>8

-----------------------------------------------------------------------------
(* Steps that change what the others rely on.                              *)

(* The refresh finds the user, or it leaves out one whose vector e does    *)
(* not change, or one who disliked e, which is a reason.                   *)
LEMMA FindUsersStep ==
  ASSUME IInv, NEW q \in Requests, FindUsers(q)
  PROVE  IInv'
  <1> DEFINE e == req[q].event
             found == \E r \in log : r.event = e /\ Concerned(r)
  <1>0. /\ Sound(req[q]) /\ req[q] \in ReqStates /\ req \in [Requests -> ReqStates]
        /\ req[q].phase = "users" /\ req[q].kind = "refresh"
        /\ UNCHANGED <<log, stat, profile, format, vec, embedded, reader, cache, updates, faults>>
    BY DEF IInv, Sound, TypeOK, FindUsers
  <1>1. CASE found
    <2> DEFINE x == [req[q] EXCEPT !.phase = "recompute"]
    <2>1. Sound(x)
      BY <1>0
      DEF Sound, ReqStates, Working, Recomputing, OnStats, OnProfile, Feedback
    <2>2. Refreshes(x) /\ x.event = req[q].event
      BY <1>0 DEF Refreshes, ReqStates
    <2>3. req' = [req EXCEPT ![q] = x] /\ drift' = drift
      BY <1>1 DEF FindUsers
    <2>4. updates' \in 0..MaxUpdates /\ faults' \in 0..MaxFaults
      BY <1>0 DEF IInv, TypeOK
    <2> HIDE DEF x
    <2> QED  BY <1>0, <2>1, <2>2, <2>3, <2>4, OwnStep DEF userVars
  <1>2. CASE ~found
    <2>1. req' = [req EXCEPT ![q] = Idle]
      BY <1>2 DEF FindUsers
    <2>2. drift' = IF \E r \in log : r.event = e /\ r.action = "dislike"
                     THEN drift \cup {"disliked"} ELSE drift
      BY <1>2 DEF FindUsers
    <2>3. ASSUME NEW p \in Requests
          PROVE  Sound(req[p])'
      <3>1. Sound(req'[p])
        BY <1>0, <2>1, IdleIsSound DEF IInv
      <3> QED  BY <1>0, <3>1 DEF Sound, LogOf, SeenBy
    <2>4. TypeOK'
      <3>1. req' \in [Requests -> ReqStates]
        BY <1>0, <2>1, IdleIsSound DEF Sound
      <3>2. drift' \in SUBSET Reasons
        BY <2>2 DEF IInv, TypeOK, Reasons
      <3> QED  BY <1>0, <3>1, <3>2 DEF IInv, TypeOK
    <2>5. (\A g \in Readers : SeesModel(reader[g]))'
      BY <1>0 DEF IInv, SeesModel, Model, Declared, Excluded
    <2>6. StaleOnlyIfExcused'
      <3>1. \A p \in Requests : req[p].phase = "reset" => req'[p].phase = "reset"
        BY <1>0, <2>1
      <3> QED  BY <1>0, <3>1 DEF IInv, StaleOnlyIfExcused, Fresh, Model, Declared, Excluded
    <2>7. VectorAccounted'
      <3>1. CASE drift' # {}
        BY <3>1 DEF VectorAccounted
      <3>2. CASE drift' = {}
        <4>1. drift = {} /\ ~\E r \in log : r.event = e /\ r.action = "dislike"
          BY <2>2, <3>2
        <4>2. e \notin {r.event : r \in log}
          <5>1. \A r \in log : r.action \in Feedback
            BY DEF IInv, TypeOK, Rows
          <5> QED  BY <1>2, <4>1, <5>1 DEF Concerned, Positive, Feedback
        <4>3. PICK M \in SUBSET Awaited :
                vec = VectorOf(ProfileVector(profile), log, embedded \ M)
          BY <4>1 DEF IInv, VectorAccounted
        <4>4. M \ {e} \in SUBSET Awaited'
          <5>1. \A p \in Requests : Refreshing(p) /\ p # q =>
                  Refreshing(p)' /\ req'[p].event = req[p].event
            BY <1>0, <2>1 DEF Refreshing
          <5> QED  BY <5>1 DEF Awaited
        <4>5. (embedded \ M) \cup {e} = (embedded \ (M \ {e})) \cup {e}
          OBVIOUS
        <4>6. VectorOf(ProfileVector(profile), log, embedded \ M)
                = VectorOf(ProfileVector(profile), log, embedded \ (M \ {e}))
          BY <4>2, <4>5, UnseenEvent
        <4>7. vec' = VectorOf(ProfileVector(profile'), log', embedded' \ (M \ {e}))
          BY <1>0, <4>3, <4>6
        <4> QED  BY <4>4, <4>7 DEF VectorAccounted
      <3> QED  BY <3>1, <3>2
    <2> QED  BY <2>3, <2>4, <2>5, <2>6, <2>7 DEF IInv
  <1> QED  BY <1>1, <1>2

(* The vector of e is missing in the user's until the refresh has come.    *)
LEMMA BackfillStep ==
  ASSUME IInv, NEW q \in Requests, NEW e \in Events, Backfill(q, e)
  PROVE  IInv'
  <1> DEFINE x == [Idle EXCEPT !.phase = "users", !.kind = "refresh", !.event = e]
  <1>0. UNCHANGED <<log, stat, profile, format, vec, drift, reader, cache, faults>>
    BY DEF Backfill
  <1>1. Sound(x)
    BY IdleIsSound
    DEF Sound, Idle, ReqStates, Kinds, Recomputing, OnStats, OnProfile, Feedback, Working
  <1>2. \A p \in Requests :
          req'[p] = IF p = q THEN x
                    ELSE IF req[p].phase = "commit" THEN [req[p] EXCEPT !.raced = TRUE]
                    ELSE req[p]
    BY DEF Backfill, Raced
  <1>3. ASSUME NEW p \in Requests
        PROVE  Sound(req[p])'
    <2>1. CASE p = q
      BY <1>0, <1>1, <1>2, <2>1 DEF Sound, Idle, LogOf, SeenBy, OnStats, OnProfile, Feedback
    <2>2. CASE p # q
      <3> HIDE DEF x
      <3>1. Sound(req[p])
        BY DEF IInv
      <3>2. req'[p] \in ReqStates
        BY <1>2, <2>2, <3>1 DEF Sound, ReqStates
      <3>3. /\ req'[p].phase = req[p].phase /\ req'[p].kind = req[p].kind
            /\ req'[p].event = req[p].event /\ req'[p].rows = req[p].rows
            /\ req'[p].read = req[p].read /\ req'[p].fresh = req[p].fresh
            /\ req'[p].new = req[p].new
            /\ req'[p].phase = "commit" => req'[p].raced = TRUE
        <4>1. req'[p] = IF req[p].phase = "commit" THEN [req[p] EXCEPT !.raced = TRUE]
                        ELSE req[p]
          BY <1>2, <2>2
        <4> QED  BY <3>1, <4>1 DEF Sound, ReqStates
      <3> QED  BY <1>0, <3>1, <3>2, <3>3 DEF Sound
    <2> QED  BY <2>1, <2>2
  <1>4. req' \in [Requests -> ReqStates]
    BY <1>3 DEF Sound, Backfill, Raced
  <1>5. TypeOK'
    BY <1>0, <1>4, RecommenderAssumption DEF IInv, TypeOK, Backfill
  <1>6. (\A g \in Readers : SeesModel(reader[g]))'
    BY <1>0 DEF IInv, SeesModel, Model, Declared, Excluded
  <1>7. StaleOnlyIfExcused'
    <2>1. \A p \in Requests : req[p].phase = "reset" => req'[p].phase = "reset"
      BY <1>2 DEF Backfill
    <2> QED  BY <1>0, <2>1 DEF IInv, StaleOnlyIfExcused, Fresh, Model, Declared, Excluded
  <1>8. VectorAccounted'
    <2>1. CASE drift # {}
      BY <1>0, <2>1 DEF VectorAccounted
    <2>2. CASE drift = {}
      <3>1. PICK M \in SUBSET Awaited :
              vec = VectorOf(ProfileVector(profile), log, embedded \ M)
        BY <2>2 DEF IInv, VectorAccounted
      <3>2. req[q].phase = "idle" /\ e \notin embedded /\ embedded' = embedded \cup {e}
        BY DEF Backfill
      <3>3. \A p \in Requests : Refreshing(p) => Refreshing(p)' /\ req'[p].event = req[p].event
        <4>1. \A p \in Requests : Refreshing(p) => p # q
          BY <3>2 DEF Refreshing
        <4>2. \A p \in Requests : req[p] \in ReqStates
          BY DEF IInv, TypeOK
        <4> QED  BY <1>2, <4>1, <4>2 DEF Refreshing, ReqStates
      <3>4. Refreshing(q)' /\ req'[q].event = e
        BY <1>2 DEF Refreshing, Idle
      <3>5. M \cup {e} \in SUBSET Awaited'
        BY <3>1, <3>3, <3>4 DEF Awaited
      <3>6. embedded' \ (M \cup {e}) = embedded \ M
        BY <3>2
      <3>7. vec' = VectorOf(ProfileVector(profile'), log', embedded' \ (M \cup {e}))
        BY <1>0, <3>1, <3>6
      <3> QED  BY <3>5, <3>7 DEF VectorAccounted
    <2> QED  BY <2>1, <2>2
  <1> QED  BY <1>3, <1>5, <1>6, <1>7, <1>8 DEF IInv

(* A commit: the vector it stores is the one of the state it leaves,       *)
(* unless it was raced, and every other claim is given up or still true.   *)
LEMMA CommitStep ==
  ASSUME IInv, NEW q \in Requests, Commit(q)
  PROVE  IInv'
  <1> DEFINE k == req[q].kind
             after == IF ResetsAfter(k) THEN [Idle EXCEPT !.phase = "reset"] ELSE Idle
  <1>0. /\ Sound(req[q]) /\ req[q] \in ReqStates /\ req[q].phase = "commit"
        /\ k \in Kinds /\ embedded' = embedded
    BY DEF IInv, Sound, ReqStates, Commit
  <1>1. Sound(after)
    BY IdleIsSound
    DEF Sound, Idle, ReqStates, Kinds, Recomputing, OnStats, OnProfile, Feedback, Working
  <1>2. /\ log' \in SUBSET Rows /\ profile' \in Profiles
        /\ profile \in ProfileRows => profile' \in ProfileRows
    BY <1>0, ProfileAfterType DEF Commit, LogAfter, IInv, TypeOK, Sound, ReqStates
  <1>3. stat' \in [Topics -> Stats] /\ \A t \in Topics : stat[t] # None => stat'[t] # None
    BY <1>0, StatAfterType DEF Commit, IInv
  <1>4. \A p \in Requests :
          req'[p] = IF p = q THEN after
                    ELSE IF k \in OnStats \cup OnProfile /\ req[p].phase = "commit"
                      THEN [req[p] EXCEPT !.raced = TRUE] ELSE req[p]
    BY DEF Commit, Raced, IInv, TypeOK
  <1>5. k \notin OnStats \cup OnProfile => log' = log /\ profile' = profile
    BY <1>0 DEF Commit, LogAfter, ProfileAfter, Sound, OnStats
  <1>6. ASSUME NEW p \in Requests
        PROVE  Sound(req[p])'
    <2>1. CASE p = q
      <3>1. /\ after \in ReqStates /\ after.phase \in {"reset", "idle"}
            /\ after.kind = "view" /\ after.rows = {}
        BY <1>1 DEF Sound, Idle
      <3>2. req'[p] = after
        BY <1>4, <2>1
      <3> HIDE DEF after
      <3> QED
        BY <3>1, <3>2 DEF Sound, OnStats, OnProfile, Feedback, Recomputing, Working
    <2>2. CASE p # q
      <3>1. Sound(req[p])
        BY DEF IInv
      <3>2. req'[p] \in ReqStates
        BY <1>4, <2>2, <3>1 DEF Sound, ReqStates
      <3>3. req'[p].raced = FALSE /\ req'[p].phase = "commit" =>
              log' = log /\ profile' = profile /\ req'[p] = req[p]
        <4>1. CASE k \in OnStats \cup OnProfile /\ req[p].phase = "commit"
          <5>1. req'[p] = [req[p] EXCEPT !.raced = TRUE] /\ req[p] \in ReqStates
            BY <1>4, <2>2, <3>1, <4>1 DEF Sound
          <5> QED  BY <5>1 DEF ReqStates
        <4>2. CASE k \in OnStats \cup OnProfile /\ req[p].phase # "commit"
          BY <1>4, <2>2, <4>2
        <4>3. CASE k \notin OnStats \cup OnProfile
          BY <1>4, <1>5, <2>2, <4>3
        <4> QED  BY <4>1, <4>2, <4>3
      <3>4. req'[p] = req[p] \/ req'[p] = [req[p] EXCEPT !.raced = TRUE]
        BY <1>4, <2>2
      <3>5. (req'[p].kind \in OnStats /\ req'[p].phase \in Working /\ ~req'[p].fresh) =>
              req'[p].read \in Stats \ {None} /\ stat'[TopicOf[req'[p].event]] # None
        BY <1>3, <3>1, <3>4 DEF Sound, ReqStates, Topics
      <3>6. (req'[p].phase = "commit" /\ req'[p].kind \in Recomputing /\ ~req'[p].raced) =>
              req'[p].vec = VectorOf(SeenBy(req[p]), LogOf(req[p]), embedded)'
        BY <1>0, <3>1, <3>2, <3>3 DEF Sound, ReqStates, LogOf, SeenBy
      <3>7. /\ req'[p].phase \in {"delete", "read", "write"} =>
                 req'[p].kind \in OnStats \cup OnProfile
            /\ req'[p].phase = "delete" => req'[p].kind = "remove"
            /\ req'[p].phase = "users" => req'[p].kind = "refresh"
            /\ req'[p].phase \in {"recompute", "gather"} => req'[p].kind \in Recomputing
            /\ req'[p].kind \in OnStats => req'[p].event \in Events
            /\ req'[p].kind \notin OnStats => req'[p].rows = {}
            /\ req'[p].kind \in OnProfile => req'[p].new \in ProfileRows
            /\ req'[p].kind \in {"format", "web"} => req'[p].new \in Formats
        BY <3>1, <3>4 DEF Sound, ReqStates
      <3>8. (req'[p].kind \in OnProfile /\ req'[p].phase \in Working /\ ~req'[p].fresh) =>
              req'[p].read \in ProfileRows /\ profile' \in ProfileRows
        BY <1>2, <3>1, <3>4 DEF Sound, ReqStates
      <3> QED  BY <3>2, <3>5, <3>6, <3>7, <3>8 DEF Sound
    <2> QED  BY <2>1, <2>2
  <1>7. TypeOK'
    <2>1. req' \in [Requests -> ReqStates]
      BY <1>6 DEF Sound, Commit, Raced, IInv, TypeOK
    <2>2. format' \in Formats /\ vec' \in Vectors /\ drift' \in SUBSET Reasons
      BY <1>0
      DEF Commit, FormatAfter, Flushed, VecAfter, FlushedVector, Reasons, Sound, ReqStates,
          IInv, TypeOK
    <2>3. reader' \in [Readers -> ReaderStates]
      BY DEF Commit, IInv, TypeOK, ReaderStates
    <2>4. cache' \in [list : Models, excuse : SUBSET Excuses] \cup {None}
      BY DEF Commit, IInv, TypeOK, Excused, Excuses
    <2> QED  BY <1>2, <1>3, <2>1, <2>2, <2>3, <2>4 DEF Commit, IInv, TypeOK
  <1>8. (\A g \in Readers : SeesModel(reader[g]))'
    <2> SUFFICES ASSUME NEW g \in Readers
                 PROVE  SeesModel(reader[g])'
      OBVIOUS
    <2>1. SeesModel(reader[g]) /\ reader'[g] \in ReaderStates
      BY <1>7 DEF IInv, TypeOK
    <2>2. CASE k = "view"
      <3>1. UNCHANGED <<log, stat, profile, format, vec>> /\ reader'[g] = reader[g]
        BY <1>0, <1>5, <2>2
        DEF Commit, StatAfter, FormatAfter, VecAfter, OnStats, OnProfile, Feedback,
            Recomputing
      <3> QED  BY <2>1, <3>1 DEF SeesModel, Model, Declared, Excluded
    <2>3. CASE k # "view"
      <3>1. reader'[g] = IF reader[g].phase \in {"read", "ranked"}
                           THEN [reader[g] EXCEPT !.raced = TRUE] ELSE reader[g]
        BY <2>3 DEF Commit
      <3> QED  BY <2>1, <3>1 DEF SeesModel, ReaderStates
    <2> QED  BY <2>2, <2>3
  <1>9. StaleOnlyIfExcused'
    <2>1. CASE k = "web"
      BY <2>1 DEF Commit, Excused, StaleOnlyIfExcused, Fresh, IInv, TypeOK
    <2>2. CASE k # "web"
      BY <1>4, <2>2 DEF ResetsAfter, StaleOnlyIfExcused, Idle
    <2> QED  BY <2>1, <2>2
  <1>10. VectorAccounted'
    <2>1. CASE k \in Recomputing /\ Overtaken(q)
      BY <2>1 DEF Commit, VectorAccounted
    <2>2. CASE k \in Recomputing /\ ~Overtaken(q)
      <3>1. /\ ~req[q].raced /\ vec' = req[q].vec
            /\ ProfileVector(profile') = VectorSeen(q) /\ log' = LogAfter(q)
        BY <2>2 DEF Commit, Overtaken
      <3>2. req[q].vec = VectorOf(VectorSeen(q), LogAfter(q), embedded)
        BY <1>0, <2>2, <3>1 DEF Sound, LogOf, SeenBy, LogAfter, VectorSeen
      <3>3. embedded' \ {} = embedded
        BY <1>0
      <3>4. vec' = VectorOf(ProfileVector(profile'), log', embedded' \ {})
        BY <3>1, <3>2, <3>3
      <3> QED  BY <3>4 DEF VectorAccounted
    <2>3. CASE k \notin Recomputing
      <3>1. UNCHANGED <<vec, drift, log, profile, embedded>>
        BY <1>0, <1>5, <2>3 DEF Commit, VecAfter, Recomputing
      <3>2. \A p \in Requests : Refreshing(p) => Refreshing(p)' /\ req'[p].event = req[p].event
        <4>1. ~Refreshing(q)
          BY <2>3 DEF Refreshing, Recomputing
        <4>2. \A p \in Requests : p # q => req'[p] = req[p]
          BY <1>4, <2>3 DEF Recomputing
        <4> QED  BY <4>1, <4>2 DEF Refreshing
      <3>3. Awaited \subseteq Awaited'
        BY <3>2 DEF Awaited
      <3> QED  BY <3>1, <3>3, StillAccounted DEF IInv
    <2> QED  BY <2>1, <2>2, <2>3
  <1> QED  BY <1>6, <1>7, <1>8, <1>9, <1>10 DEF IInv

(* The entry is deleted, expires, or a request dies before its delete.     *)
LEMMA EndStep ==
  ASSUME IInv, Expire \/ \E q \in Requests : Reset(q) \/ Fail(q)
  PROVE  IInv'
  <1>1. UNCHANGED <<log, stat, profile, format, vec, embedded, reader, updates>>
    BY DEF Expire, Reset, Fail, userVars
  <1>2. ASSUME NEW p \in Requests
        PROVE  Sound(req[p])'
    <2>1. req'[p] = req[p] \/ req'[p] = Idle
      BY DEF Expire, Reset, Fail, IInv, TypeOK
    <2>2. Sound(req'[p])
      BY <2>1, IdleIsSound DEF IInv
    <2> QED  BY <1>1, <2>2 DEF Sound, LogOf, SeenBy
  <1>3. TypeOK'
    <2>1. req' \in [Requests -> ReqStates]
      BY IdleIsSound DEF Expire, Reset, Fail, IInv, TypeOK, Sound
    <2>2. cache' \in [list : Models, excuse : SUBSET Excuses] \cup {None}
      BY DEF Expire, Reset, Fail, IInv, TypeOK, Excused, Excuses
    <2>3. faults' \in 0..MaxFaults
      BY RecommenderAssumption DEF Expire, Reset, Fail, IInv, TypeOK
    <2>4. drift' \in SUBSET Reasons
      BY DEF Expire, Reset, Fail, IInv, TypeOK, userVars, Reasons
    <2> QED  BY <1>1, <2>1, <2>2, <2>3, <2>4 DEF IInv, TypeOK
  <1>4. (\A g \in Readers : SeesModel(reader[g]))'
    BY <1>1 DEF IInv, SeesModel, Model, Declared, Excluded
  <1>5. VectorAccounted'
    <2>1. CASE \E q \in Requests : Fail(q) /\ Refreshing(q)
      BY <2>1 DEF Fail, VectorAccounted
    <2>2. CASE Expire \/ \E q \in Requests : (Reset(q) \/ Fail(q)) /\ ~Refreshing(q)
      <3>1. drift' = drift
        BY <2>2 DEF Expire, Reset, Fail, userVars
      <3>2. \A p \in Requests : Refreshing(p) => req'[p] = req[p]
        BY <2>2 DEF Expire, Reset, Fail, Refreshing, IInv, TypeOK
      <3>3. Awaited \subseteq Awaited'
        BY <3>2 DEF Awaited, Refreshing
      <3> QED  BY <1>1, <3>1, <3>3, StillAccounted DEF IInv
    <2>3. \A q \in Requests : Reset(q) => ~Refreshing(q)
      BY DEF Reset, Refreshing
    <2> QED  BY <2>1, <2>2, <2>3
  <1>6. StaleOnlyIfExcused'
    <2>1. CASE cache' = None
      BY <2>1 DEF StaleOnlyIfExcused, Fresh
    <2>2. CASE cache' # None
      <3>1. PICK q \in Requests : Fail(q)
        BY <2>2 DEF Expire, Reset
      <3>2. CASE req[q].phase = "reset"
        BY <2>2, <3>1, <3>2 DEF Fail, Excused, StaleOnlyIfExcused, IInv, TypeOK
      <3>3. CASE req[q].phase # "reset"
        <4>1. \A p \in Requests : req[p].phase = "reset" => req'[p].phase = "reset"
          BY <3>1, <3>3 DEF Fail, IInv, TypeOK
        <4> QED
          BY <1>1, <3>1, <3>3, <4>1
          DEF Fail, StaleOnlyIfExcused, Fresh, Model, Declared, Excluded, IInv
      <3> QED  BY <3>2, <3>3
    <2> QED  BY <2>1, <2>2
  <1> QED  BY <1>2, <1>3, <1>4, <1>5, <1>6 DEF IInv

(* A fill reads, ranks and stores.                                         *)
LEMMA ReaderStep ==
  ASSUME IInv, NEW g \in Readers, Miss(g) \/ Fill(g)
  PROVE  IInv'
  <1>1. UNCHANGED <<userVars, req, updates, faults>>
    BY DEF Miss, Fill, ReadModel, Generate, Store, userVars
  <1>2. SeesModel(reader[g]) /\ reader \in [Readers -> ReaderStates] /\ Model \in Models
    BY ModelType DEF IInv, TypeOK
  <1>3. ASSUME NEW y, SeesModel(y), reader' = [reader EXCEPT ![g] = y]
        PROVE  reader' \in [Readers -> ReaderStates] /\ \A f \in Readers : SeesModel(reader'[f])
    BY <1>2, <1>3 DEF IInv, SeesModel
  <1>4. /\ reader' \in [Readers -> ReaderStates] /\ \A f \in Readers : SeesModel(reader'[f])
        /\ cache' = cache \/ cache' \in [list : Models, excuse : SUBSET Excuses]
        /\ StaleOnlyIfExcused'
    <2>1. CASE cache' = cache
      <3>1. StaleOnlyIfExcused'
        BY <1>1, <2>1
        DEF IInv, StaleOnlyIfExcused, Fresh, Model, Declared, Excluded, userVars
      <3>2. CASE Miss(g)
        <4>1. SeesModel([reader[g] EXCEPT !.phase = "missed"])
          BY <1>2 DEF SeesModel, ReaderStates
        <4>2. reader' = [reader EXCEPT ![g] = [reader[g] EXCEPT !.phase = "missed"]]
          BY <1>2, <3>2 DEF Miss
        <4> QED  BY <1>3, <2>1, <3>1, <4>1, <4>2
      <3>3. CASE ReadModel(g)
        <4> DEFINE m == [Model EXCEPT !.excluded = {}]
        <4>1. m \in Models
          BY <1>2 DEF Models
        <4> HIDE DEF m
        <4>2. SeesModel([phase |-> "read", seen |-> m, raced |-> FALSE])
          BY <4>1 DEF SeesModel, ReaderStates, m
        <4> QED  BY <1>3, <2>1, <3>1, <3>3, <4>2 DEF ReadModel, m
      <3>4. CASE Generate(g)
        <4> DEFINE m == [reader[g].seen EXCEPT !.excluded = Excluded]
        <4>1. reader[g].phase = "read" /\ reader[g].seen \in Models
          BY <1>2, <3>4 DEF Generate, SeesModel
        <4>2. Excluded \in SUBSET Events /\ Model.excluded = Excluded
          BY DEF IInv, TypeOK, Excluded, Rows, Model
        <4>3. m \in Models
          BY <4>1, <4>2 DEF Models
        <4>4. ~reader[g].raced => m = Model
          <5>1. ~reader[g].raced => reader[g].seen = [Model EXCEPT !.excluded = {}]
            BY <1>2, <4>1 DEF SeesModel
          <5> QED  BY <1>2, <4>2, <5>1 DEF Models
        <4>5. reader' = [reader EXCEPT ![g] = [reader[g] EXCEPT !.phase = "ranked", !.seen = m]]
          BY <1>2, <3>4 DEF Generate, ReaderStates
        <4> HIDE DEF m
        <4>6. SeesModel([reader[g] EXCEPT !.phase = "ranked", !.seen = m])
          BY <1>2, <4>3, <4>4 DEF SeesModel, ReaderStates
        <4> QED  BY <1>3, <2>1, <3>1, <4>5, <4>6
      <3>5. CASE Store(g)
        <4>1. SeesModel([phase |-> "idle", seen |-> None, raced |-> FALSE])
          BY DEF SeesModel, ReaderStates
        <4> QED  BY <1>3, <2>1, <3>1, <3>5, <4>1 DEF Store
      <3> QED  BY <3>2, <3>3, <3>4, <3>5 DEF Fill
    <2>2. CASE cache' # cache
      <3>1. Store(g)
        BY <2>2 DEF Miss, Fill, ReadModel, Generate
      <3>2. SeesModel([phase |-> "idle", seen |-> None, raced |-> FALSE])
        BY DEF SeesModel, ReaderStates
      <3>3. reader[g].seen \in Models /\ (~reader[g].raced => reader[g].seen = Model)
        BY <1>2, <3>1 DEF Store, SeesModel
      <3>4. cache' \in [list : Models, excuse : SUBSET Excuses]
        BY <3>1, <3>3 DEF Store, Excuses
      <3>5. Model' = Model
        BY <1>1 DEF Model, Declared, Excluded, userVars
      <3>6. StaleOnlyIfExcused'
        BY <3>1, <3>3, <3>5 DEF Store, StaleOnlyIfExcused, Fresh
      <3> QED  BY <1>3, <3>1, <3>2, <3>4, <3>6 DEF Store
    <2> QED  BY <2>1, <2>2
  <1>5. TypeOK'
    BY <1>1, <1>4 DEF IInv, TypeOK, userVars
  <1>6. (\A f \in Readers : SeesModel(reader[f]))'
    BY <1>1, <1>4 DEF SeesModel, Model, Declared, Excluded, userVars
  <1>7. (\A p \in Requests : Sound(req[p]))'
    BY <1>1 DEF IInv, Sound, LogOf, SeenBy, userVars
  <1>8. VectorAccounted'
    <2>1. Awaited' = Awaited
      BY <1>1 DEF Awaited, Refreshing
    <2> QED  BY <1>1, <2>1, StillAccounted DEF IInv, userVars
  <1> QED  BY <1>4, <1>5, <1>6, <1>7, <1>8 DEF IInv

-----------------------------------------------------------------------------
(* The invariant.                                                          *)

LEMMA InitInv == Init => IInv
  <1> SUFFICES ASSUME Init PROVE IInv
    OBVIOUS
  <1>1. TypeOK
    <2>1. req \in [Requests -> ReqStates]
      BY IdleIsSound DEF Init, Sound
    <2>2. reader \in [Readers -> ReaderStates]
      BY DEF Init, ReaderStates
    <2>3. stat \in [Topics -> Stats] /\ profile \in Profiles /\ vec \in Vectors
      BY DEF Init, Stats, Profiles, Vectors
    <2>4. log \in SUBSET Rows /\ format \in Formats /\ embedded \in SUBSET Events
      BY DEF Init
    <2>5. updates \in 0..MaxUpdates /\ faults \in 0..MaxFaults
      <3>1. MaxUpdates \in Nat /\ MaxFaults \in Nat
        BY RecommenderAssumption
      <3>2. updates = 0 /\ faults = 0
        BY DEF Init
      <3> QED  BY <3>1, <3>2
    <2>7. drift \in SUBSET Reasons
      BY DEF Init
    <2>6. cache = None
      BY DEF Init
    <2> QED  BY <2>1, <2>2, <2>3, <2>4, <2>5, <2>6, <2>7 DEF TypeOK
  <1>2. (\A q \in Requests : Sound(req[q])) /\ StaleOnlyIfExcused
    BY IdleIsSound DEF Init, StaleOnlyIfExcused, Fresh
  <1>3. \A g \in Readers : SeesModel(reader[g])
    BY DEF Init, SeesModel, ReaderStates
  <1>4. VectorAccounted
    <2>1. vec = VectorOf(ProfileVector(profile), log, embedded \ {})
      BY DEF Init, VectorOf, Rocchio, ProfileVector
    <2> QED  BY <2>1 DEF VectorAccounted
  <1> QED  BY <1>1, <1>2, <1>3, <1>4 DEF IInv

LEMMA NextInv == IInv /\ [Next]_vars => IInv'
  <1> SUFFICES ASSUME IInv, [Next]_vars PROVE IInv'
    OBVIOUS
  <1>1. ASSUME NEW q \in Requests, Start(q)
        PROVE  IInv'
    BY <1>1, RateStep, ViewStep, RemoveStep, EditStep, ChangeFormatStep, BackfillStep DEF Start
  <1>2. ASSUME NEW q \in Requests, Proceed(q)
        PROVE  IInv'
    BY <1>2, WorkStep, FindUsersStep, CommitStep, EndStep DEF Proceed
  <1>3. CASE Expire \/ \E q \in Requests : Fail(q)
    BY <1>3, EndStep
  <1>4. ASSUME NEW g \in Readers, Miss(g) \/ Fill(g)
        PROVE  IInv'
    BY <1>4, ReaderStep
  <1>5. CASE UNCHANGED vars
    <2>1. UNCHANGED <<userVars, req, reader, cache, updates, faults>>
      BY <1>5 DEF vars, userVars
    <2>2. VectorAccounted'
      <3>1. Awaited' = Awaited
        BY <2>1 DEF Awaited, Refreshing
      <3> QED  BY <2>1, <3>1, StillAccounted DEF IInv, userVars
    <2> QED
      BY <2>1, <2>2
      DEF IInv, TypeOK, Sound, LogOf, SeenBy, SeesModel, StaleOnlyIfExcused, Fresh,
          Model, Declared, Excluded, userVars
  <1> QED  BY <1>1, <1>2, <1>3, <1>4, <1>5 DEF Next

LEMMA Invariance == Spec => []IInv
  BY InitInv, NextInv, PTL DEF Spec

(* Every reachable state is well typed, for any events, texts and settings *)
(* and any number of requests and readers.                                 *)
THEOREM TypeCorrect == Spec => []TypeOK
  <1>1. IInv => TypeOK
    BY DEF IInv
  <1> QED  BY <1>1, Invariance, PTL

(* A cached list that is not the current one has an excuse, or a committed *)
(* request about to delete it.                                             *)
THEOREM StaleListsExcused == Spec => []StaleOnlyIfExcused
  <1>1. IInv => StaleOnlyIfExcused
    BY DEF IInv
  <1> QED  BY <1>1, Invariance, PTL

(* The stored interest vector is that of the committed profile, reactions  *)
(* and event vectors, unless its last computation was overtaken, a refresh *)
(* is on its way or died, or the user disliked what was backfilled.        *)
THEOREM VectorFollows == Spec => []VectorFollowsHistory
  <1>1. IInv => VectorFollowsHistory
    BY AccountedFollows DEF IInv
  <1> QED  BY <1>1, Invariance, PTL
=============================================================================
