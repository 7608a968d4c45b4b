------------------------------- MODULE Retrieval -------------------------------
(***************************************************************************)
(* What is found: by a user's phrase (NlSearch), as similar to one event   *)
(* (SimilarEvents), for the feed (HybridRanker), by the ingestion on the   *)
(* pages of a source and as what an announcement repeats; and what is told *)
(* of an event (ExplainEvent).  They share nothing but the events, so a    *)
(* behaviour is about one of them.                                         *)
(*                                                                         *)
(* A search runs in steps, each a call of the database, the cache or the   *)
(* language model, while other searches run, events are added and days go  *)
(* by.  Which events the words of a query match, and in what order, is     *)
(* data; so is the score of an event.                                      *)
(***************************************************************************)
EXTENDS Ranking, Catalogue, Scoring, Sources

CONSTANTS
  Use,        \* what the behaviours are about
  Requests,   \* searches
  Events,     \* events of the catalogue
  Phrases,    \* what users ask
  KeysOf,     \* KeysOf[p]: the filters a phrase stands for
  OddOf,      \* OddOf[p]: those the model answers with a value outside its list
  LastDay,    \* bound on the days
  Limit,      \* results of a search, of similar events and of the feed
  Depth,      \* candidates of each retriever
  MaxNear,    \* bound on the events found near another
  MaxCandidates, \* bound on the candidates of the feed
  Announcements, \* the model's answers about announcements
  MaxAnnounced,  \* bound on the announcements
  Users,         \* what is known of those who ask why
  Features,      \* events they ask about
  NoUser,        \* nobody in particular asks
  Pages,         \* pages of a source, feeds when it is RSS
  Fetches        \* how many events are fetched at most

Uses == {"search", "similar", "rank", "announce", "explain", "fetch"}

(* _RELAX_ORDER.                                                           *)
RelaxOrder == <<"free_text", "topics", "format", "event_type", "city", "date">>
Keys == Range(RelaxOrder)
Hard == {"date", "city", "event_type", "format"}

ASSUME RetrievalAssumption ==
  /\ Use \subseteq Uses
  /\ {LastDay, Limit, Depth, MaxNear, MaxCandidates, MaxAnnounced} \subseteq Nat
  /\ 1 <= Limit /\ Limit <= Depth
  /\ IsFiniteSet(Events)
  /\ \A a, b \in Announcements : Alike[a.text, b.text] \in Int
  /\ Fetches \subseteq Nat \ {0}
  /\ Pages \subseteq Seq(Seq([title : BOOLEAN, link : DOMAIN Address \cup {NoLink}]))
  /\ \A user \in Users : IsUser(user)
  /\ \A event \in Features : IsScored(event)
  /\ \A p \in Phrases : OddOf[p] \subseteq KeysOf[p] /\ KeysOf[p] \subseteq Keys

VARIABLES
  use,        \* what this behaviour is about
  day,        \* the clock
  meets,      \* meets[e]: filters other than the date that e meets
  start,      \* start[e]: the day it begins
  catalogue,  \* events that are there
  cache,      \* filters kept under nls:v1:<day>:<phrase>
  req,        \* req[q]: search q
  found,      \* found near an event, candidates of the feed, or announced
  answer      \* what is made of it, <<>> while nothing is

retrievalVars == <<use, day, meets, start, catalogue, cache, req, found, answer>>
facts == <<use, meets, start>>
lists == <<found, answer>>

Days == 0..LastDay + 1
Dates == Days \cup {NoDate}

(* The filters of a query; date is the day they name.                      *)
None == [keys |-> {}, date |-> NoDate]

(* asked: the day of the phrase; now: that of the search; text: the user's *)
(* own words are known; before: the catalogue when the search began;       *)
(* level: filters dropped.                                                 *)
Idle == [at |-> "idle", phrase |-> "", asked |-> 0, now |-> 0, text |-> FALSE,
         failed |-> FALSE, filters |-> None, before |-> {}, rankings |-> <<>>,
         level |-> 0, results |-> <<>>]

RetrievalInit ==
  /\ use \in Use
  /\ day = 0
  /\ meets \in [Events -> SUBSET ((UNION {KeysOf[p] \ OddOf[p] : p \in Phrases}) \ {"date"})]
  /\ start \in [Events -> Dates]
  /\ use # "search" => meets = [e \in Events |-> {}] /\ start = [e \in Events |-> NoDate]
  /\ catalogue \in IF use = "search" THEN SUBSET Events ELSE {{}}
  /\ cache = << >>
  /\ req = [q \in Requests |-> Idle]
  /\ found = <<>> /\ answer = <<>>

-----------------------------------------------------------------------------
(* What the phrase means.                                                  *)

(* A phrase with a date means the day after it is said.                    *)
Meaning(phrase, today) ==
  [keys |-> KeysOf[phrase], date |-> IF "date" \in KeysOf[phrase] THEN today + 1 ELSE NoDate,
   odd |-> OddOf[phrase]]

(* When the model fails the phrase itself is searched for.                 *)
JustText == [keys |-> {"free_text"}, date |-> NoDate, odd |-> {}]

(* Mutant: the key of the cache has no day.                                *)
KeyOfPhrase(phrase, today) == <<phrase, 0>>

FiltersKey(phrase, today) == <<phrase, today>>

(* A type, a format or a date outside its list is no filter; a city, a     *)
(* topic or a word may be any.                                             *)
Canonicalize(raw) ==
  LET odd == raw.odd \cap {"event_type", "format", "date"}
  IN [keys |-> raw.keys \ odd, date |-> IF "date" \in odd THEN NoDate ELSE raw.date]

Becomes(q, r) == req' = [req EXCEPT ![q] = r]
At(q, step) == req[q].at = step

(* The search begins: the clock is read, and so begins what counts as      *)
(* there all along.                                                        *)
Begun(r, raw) ==
  [r EXCEPT !.at = "strict", !.filters = Canonicalize(raw), !.now = day, !.before = catalogue]

(* A cached answer of the model is as good as a new one.                   *)
Ask(q, p) ==
  /\ use = "search" /\ req[q] = Idle
  /\ LET r == [Idle EXCEPT !.phrase = p, !.asked = day, !.text = TRUE]
         key == FiltersKey(p, day)
     IN Becomes(q, IF key \in DOMAIN cache THEN Begun(r, cache[key])
                   ELSE [r EXCEPT !.at = "extract"])
  /\ UNCHANGED <<facts, day, catalogue, cache, lists>>

LlmAnswers(q) ==
  LET r == req[q]
      raw == Meaning(r.phrase, r.asked)
  IN /\ At(q, "extract")
     /\ Becomes(q, Begun(r, raw))
     /\ cache' = [k \in DOMAIN cache \cup {FiltersKey(r.phrase, r.asked)} |->
                    IF k = FiltersKey(r.phrase, r.asked) THEN raw ELSE cache[k]]
     /\ UNCHANGED <<facts, day, catalogue, lists>>

LlmFails(q) ==
  /\ At(q, "extract")
  /\ Becomes(q, Begun([req[q] EXCEPT !.failed = TRUE], JustText))
  /\ UNCHANGED <<facts, day, catalogue, cache, lists>>

(* The agent extracts the filters itself and has no phrase.                *)
SearchFilters(q, p) ==
  /\ use = "search" /\ req[q] = Idle
  /\ Becomes(q, Begun([Idle EXCEPT !.phrase = p, !.asked = day], Meaning(p, day)))
  /\ UNCHANGED <<facts, day, catalogue, cache, lists>>

-----------------------------------------------------------------------------
(* The retrievers.                                                         *)

(* An explicit date asks for that day; without one an event is upcoming or *)
(* has no date.                                                            *)
InTime(e, filters, now) ==
  IF "date" \in filters.keys THEN start[e] = filters.date
  ELSE start[e] = NoDate \/ start[e] >= now

Matching(events, filters, now) ==
  {e \in events : InTime(e, filters, now) /\ filters.keys \ {"date"} \subseteq meets[e]}

HardOf(filters) == [filters EXCEPT !.keys = @ \cap Hard]

(* Sooner first, no date last; equal ones in any order.                    *)
NotLater(e, f) == start[f] = NoDate \/ (start[e] # NoDate /\ start[e] <= start[f])

ByDate(events, limit) ==
  {Take(s, limit) : s \in {t \in SetToSeqs(events) :
                             \A i, j \in DOMAIN t : i < j => NotLater(t[i], t[j])}}

(* Some of the events, in an order of their own.                           *)
InSomeOrder(events, limit) ==
  {Take(s, limit) : s \in UNION {SetToSeqs(es) : es \in SUBSET events}}

Words(r) == r.filters.keys \cap {"topics", "free_text"} # {}

(* Without words only the filters count; otherwise this is the first of    *)
(* three rankings.                                                         *)
Strict(q) ==
  LET r == req[q]
      matching == Matching(catalogue, r.filters, r.now)
  IN /\ At(q, "strict")
     /\ IF Words(r) \/ r.text
        THEN \E s \in ByDate(matching, Depth) :
               Becomes(q, [r EXCEPT !.at = IF Words(r) THEN "text" ELSE "semantic",
                                    !.rankings = <<s>>])
        ELSE \E s \in ByDate(matching, Limit) :
               Becomes(q, [r EXCEPT !.at = IF s = <<>> THEN "relax" ELSE "done", !.results = s])
     /\ UNCHANGED <<facts, day, catalogue, cache, lists>>

TextSearch(q) ==
  LET r == req[q]
  IN /\ At(q, "text")
     /\ \E s \in InSomeOrder(Matching(catalogue, HardOf(r.filters), r.now), Depth) :
          Becomes(q, [r EXCEPT !.at = "semantic", !.rankings = Append(@, s)])
     /\ UNCHANGED <<facts, day, catalogue, cache, lists>>

(* What the vector of a query is of: with HyDE also what the model, or the *)
(* cache, says an ideal event would be; the model's failure leaves the     *)
(* query, that of the embedding nothing.                                   *)
QueryVectors == {"query", "query and document", "none"}

(* Which of the two it is shows in the ranking alone, which is data;       *)
(* without a vector two rankings are left.                                 *)
SemanticSearch(q) ==
  LET r == req[q]
  IN /\ At(q, "semantic")
     /\ \E vector \in QueryVectors :
          IF vector = "none" THEN Becomes(q, [r EXCEPT !.at = "fuse"])
          ELSE \E s \in InSomeOrder(Matching(catalogue, HardOf(r.filters), r.now), Depth) :
                 Becomes(q, [r EXCEPT !.at = "fuse", !.rankings = Append(@, s)])
     /\ UNCHANGED <<facts, day, catalogue, cache, lists>>

Fuse(q) ==
  LET r == req[q]
      results == Take(Fused(r.rankings), Limit)
  IN /\ At(q, "fuse")
     /\ Becomes(q, [r EXCEPT !.at = IF results = <<>> THEN "relax" ELSE "done",
                             !.results = results])
     /\ UNCHANGED <<facts, day, catalogue, cache, lists>>

(* Mutant: each filter is dropped from the whole query.                    *)
RelaxedByOne(filters, level) == [filters EXCEPT !.keys = @ \ {RelaxOrder[level]}]

Relaxed(filters, level) ==
  [filters EXCEPT !.keys = @ \ {RelaxOrder[i] : i \in 1..level}]

(* One more filter is dropped; the nearest event, if there is one, is it.  *)
Relax(q) ==
  LET r == req[q]
      level == r.level + 1
  IN /\ At(q, "relax")
     /\ \E s \in ByDate(Matching(catalogue, Relaxed(r.filters, level), r.now), 1) :
          Becomes(q, [r EXCEPT !.level = level, !.results = s,
                               !.at = IF s = <<>> /\ level < Len(RelaxOrder) THEN "relax"
                                      ELSE "done"])
     /\ UNCHANGED <<facts, day, catalogue, cache, lists>>

(* The answer is sent.                                                     *)
SendAnswer(q) ==
  /\ At(q, "done")
  /\ Becomes(q, Idle)
  /\ UNCHANGED <<facts, day, catalogue, cache, lists>>

-----------------------------------------------------------------------------
(* The world goes on.                                                      *)

Arrive(e) ==
  /\ use = "search" /\ e \notin catalogue
  /\ catalogue' = catalogue \cup {e}
  /\ UNCHANGED <<facts, day, cache, req, lists>>

(* Kept filters live for six hours.                                        *)
Expire(k) ==
  /\ k \in DOMAIN cache
  /\ cache' = [l \in DOMAIN cache \ {k} |-> cache[l]]
  /\ UNCHANGED <<facts, day, catalogue, req, lists>>

Midnight ==
  /\ use = "search" /\ day < LastDay
  /\ day' = day + 1
  /\ UNCHANGED <<facts, catalogue, cache, req, lists>>

-----------------------------------------------------------------------------
(* Similar events: "self" is the event, "edition" one of its series.       *)

(* Mutant: the event itself takes no place.                                *)
SimilarDepthForOthers(limit) == limit * 2

SimilarDepth(limit) == limit * 2 + 1

(* One more event near the one asked about, or one more candidate.         *)
Find(item) ==
  /\ answer = <<>>
  /\ found' = Append(found, item)
  /\ UNCHANGED <<facts, day, catalogue, cache, req, answer>>

FindNear ==
  \E kind \in {"self", "edition", "other"} :
    /\ use = "similar" /\ Len(found) < MaxNear
    /\ (kind = "self" => \A i \in DOMAIN found : found[i].kind # "self")
    /\ Find([id |-> Len(found) + 1, kind |-> kind])

Kinds(seq, kind) == {i \in DOMAIN seq : seq[i].kind = kind}

SimilarEvents ==
  LET near == Take(found, SimilarDepth(Limit))
  IN /\ use = "similar" /\ answer = <<>>
     /\ answer' = <<Take(Pick(near, Kinds(near, "other")), Limit)>>
     /\ UNCHANGED <<facts, day, catalogue, cache, req, found>>

FindCandidate(score, vector, series, distance) ==
  /\ use = "rank" /\ Len(found) < MaxCandidates
  /\ Find([id |-> Len(found) + 1, score |-> score, vector |-> vector, series |-> series,
           distance |-> distance])

RankCandidates ==
  /\ use = "rank" /\ found # <<>> /\ answer = <<>>
  /\ answer' = <<Rank(found, Limit)>>
  /\ UNCHANGED <<facts, day, catalogue, cache, req, found>>

(* One more announcement, with an embedding or, when that fails, without.  *)
Announce(raw, vector) ==
  /\ use = "announce" /\ Len(found) < MaxAnnounced
  /\ \E item \in Processed(found, raw, vector) : Find(item)

(* A source is fetched.                                                    *)
Fetch ==
  /\ use = "fetch" /\ answer = <<>>
  /\ \E pages \in Pages, limit \in Fetches : \E source \in Registry(pages) :
       /\ source = "rss" \/ Len(pages) = 1
       /\ found' = <<[source |-> source, pages |-> pages, limit |-> limit]>>
       /\ \E drafts \in Fetched(source, pages, limit) : answer' = <<drafts>>
  /\ UNCHANGED <<facts, day, catalogue, cache, req>>

(* The model's description of an event, shared by all who ask for six      *)
(* hours; when it fails or says nothing the event's own text does.         *)
Summaries(kept) == IF kept THEN {"llm"} ELSE {"llm", "description"}

(* The reasons and what each component adds are for a known user.          *)
Personal(user, event, closeness) ==
  IF user = NoUser THEN [reasons |-> {}, parts |-> <<>>]
  ELSE [reasons |-> ExplainMatch(user, event, closeness),
        parts |-> Contributions(Breakdown(user, event, closeness))]

(* Somebody asks why an event is shown; the agent does without a summary.  *)
Closenesses == {0, 3, 4, 6}

ExplainEvent ==
  /\ use = "explain" /\ answer = <<>>
  /\ \E user \in Users \cup {NoUser}, event \in Features, closeness \in Closenesses :
       /\ found' = <<[user |-> user, event |-> event, closeness |-> closeness]>>
       /\ \E kept, with_summary \in BOOLEAN :
            \E source \in IF with_summary THEN Summaries(kept) ELSE {"description"} :
              answer' = <<[source |-> source, why |-> Personal(user, event, closeness)]>>
  /\ UNCHANGED <<facts, day, catalogue, cache, req>>

Scores == 0..1
Series == {"s", NoSeries}
Distances == 0..1

RetrievalNext ==
  \/ \E q \in Requests :
       \/ \E p \in Phrases : Ask(q, p) \/ SearchFilters(q, p)
       \/ LlmAnswers(q) \/ LlmFails(q)
       \/ Strict(q) \/ TextSearch(q) \/ SemanticSearch(q) \/ Fuse(q) \/ Relax(q) \/ SendAnswer(q)
  \/ \E e \in Events : Arrive(e)
  \/ \E k \in DOMAIN cache : Expire(k)
  \/ Midnight
  \/ FindNear \/ SimilarEvents
  \/ \E score \in Scores, vector \in Vectors \cup {NoVector}, series \in Series,
        distance \in Distances : FindCandidate(score, vector, series, distance)
  \/ RankCandidates
  \/ \E raw \in Announcements, vector \in BOOLEAN : Announce(raw, vector)
  \/ Fetch
  \/ ExplainEvent

RetrievalSpec == RetrievalInit /\ [][RetrievalNext]_retrievalVars

-----------------------------------------------------------------------------
(* A phrase is searched for as the model understands it on the day it was  *)
(* said, unless the model failed for this very search: «завтра» of         *)
(* yesterday, and a failure of another search, are not in the cache.       *)
AsAsked ==
  \A q \in Requests :
    LET r == req[q]
    IN r.at \notin {"idle", "extract"} =>
         r.filters = Canonicalize(IF r.failed THEN JustText ELSE Meaning(r.phrase, r.asked))

(* Filters are dropped only while nothing else would do: an event that was *)
(* there all along and meets all of them is found, one that meets more of  *)
(* them than the answer is found before it, and of equals the nearest.     *)
NearestIsFound ==
  \A q \in Requests :
    LET r == req[q]
        fits(e, level) == e \in Matching(r.before,
                                         [r.filters EXCEPT !.keys =
                                            @ \ {RelaxOrder[i] : i \in 1..level}], r.now)
    IN r.at = "done" => \A e \in r.before :
         /\ r.level > 0 => ~\E level \in 0..r.level - 1 : fits(e, level)
         /\ r.results = <<>> => ~fits(e, Len(RelaxOrder))
         /\ r.level > 0 /\ r.results # <<>> /\ fits(e, r.level) => NotLater(r.results[1], e)

(* What every retriever that found b ranks before b comes before b.        *)
FusionAgrees ==
  \A q \in Requests :
    LET r == req[q]
        agreed(a, b) == \A i \in Lists(r.rankings, b) :
                          i \in Lists(r.rankings, a) /\ RankIn(r.rankings[i], a) < RankIn(r.rankings[i], b)
    IN r.at = "done" /\ r.level = 0 =>
         \A j \in DOMAIN r.results : \A a \in UNION {Range(r.rankings[i]) : i \in DOMAIN r.rankings} :
           agreed(a, r.results[j]) => \E i \in 1..j - 1 : r.results[i] = a

(* As many similar events as there are, up to the limit, unless more       *)
(* editions of the event's own series are near it than the limit allows.   *)
SimilarComplete ==
  use = "similar" /\ answer # <<>> /\ Cardinality(Kinds(found, "edition")) <= Limit =>
    Len(answer[1]) = Min({Limit, Cardinality(Kinds(found, "other"))})

(* Of every series the feed has one edition at most, none of the list was  *)
(* nearer, and when there is room nothing else is missing.                 *)
OneNearestPerSeries ==
  use = "rank" /\ answer # <<>> =>
    LET shown == Range(answer[1])
    IN /\ \A a \in shown, b \in Range(found) :
            a.series # NoSeries /\ a.series = b.series =>
              /\ a.distance <= b.distance
              /\ b \in shown => a = b
       /\ Len(answer[1]) < Limit => \A b \in Range(found) :
            \E a \in shown : a = b \/ (b.series # NoSeries /\ a.series = b.series)

Cosine(a, b) == IF NoVector \in {a.vector, b.vector} THEN 0 ELSE Similar[a.vector, b.vector]

(* Diversity never puts an event behind one that is not more relevant and  *)
(* not less similar to each of the others.                                 *)
BetterComesFirst ==
  use = "rank" /\ answer # <<>> =>
    \A i, j \in DOMAIN answer[1] :
      LET a == answer[1][i]  b == answer[1][j]
          better == /\ a.score > b.score \/ (a.score = b.score /\ a.id < b.id)
                    /\ \A c \in Range(found) \ {a, b} : Cosine(a, c) <= Cosine(b, c)
      IN better => i < j

(* The feed shows one issue of a series, the nearest, and of two events    *)
(* the better one first (both parts of it), although MMR and the series    *)
(* filter reorder and thin out what the scores had put in order.           *)
FeedWellOrdered == OneNearestPerSeries /\ BetterComesFirst

(* What a user is told about an event is what has moved it: an             *)
(* anti-interest is always named and never among the interests, even when  *)
(* the profile or the reactions also speak for the topic; all that counts  *)
(* for a topic is named; «по общей популярности» is said only when nothing *)
(* of the profile, goals or liked topics is in the event; and the shares   *)
(* are of the components that give the reasons.                            *)
ToldIsScored ==
  use = "explain" /\ answer # <<>> /\ found[1].user # NoUser =>
    LET user == found[1].user
        event == found[1].event
        told == answer[1].why.reasons
        adds(c) == {answer[1].why.parts[i].value : i \in
                      {n \in DOMAIN answer[1].why.parts : answer[1].why.parts[n].component = c}}
        liked == {t \in event.topics : WeightOf(user, t) > 0}
    IN /\ "disliked" \in told <=> event.topics \cap user.anti # {}
       /\ TopicsOf(user) \cap Disliked(user, event) = {}
       /\ liked # {} => "topics" \in told
       /\ (\E n \in adds("rule") : n < 0) => "disliked" \in told
       /\ "goals" \in told <=> adds("skill_gap") # {}
       /\ {"close", "very close"} \cap told # {} => adds("cosine") # {}
       /\ "popular" \in told =>
            (user.interests \cup user.gaps) \cap event.topics \subseteq user.anti

(* Of an event that is announced again in the same words, with nothing     *)
(* said against it, no second one is made, unless the first has no         *)
(* embedding or at least DedupCandidates other events, those in other      *)
(* cities included, are as near and within the window.                     *)
RepeatIsRecognised(i, j) ==
  LET a == found[j]
      before == [k \in 1..j - 1 |-> found[k]]
  IN /\ IsEvent(found, i) /\ IsEvent(found, j)
     /\ found[i].vector /\ a.vector
     /\ Alike[a.text, found[i].text] >= DuplicateFrom
     /\ DatesAgree(a, found[i]) /\ CitiesAgree(a, found[i])
     => DedupCandidates <= Cardinality({k \in Near(before, a) \ {i} : NoFarther(before, a, k, i)})

(* Announcements of one event disagree on date or city only as far as the  *)
(* event itself, which keeps the words of the first, leaves that open.     *)
NothingIsSwallowed(i, j) ==
  LET event == found[found[i].of]
  IN found[i].of = found[j].of /\ found[i].of # 0 =>
       /\ DatesAgree(found[i], found[j]) \/ event.date = NoDate
          \/ event.date \notin {found[i].date, found[j].date}
       /\ CitiesAgree(found[i], found[j]) \/ event.city \in NoCity

LinksOf(feed) == {feed[i].link : i \in {n \in DOMAIN feed : Usable(feed[n])}}

(* Of the feeds nothing is fetched twice and none takes the place of       *)
(* another: when there is a place for each, a feed has its share among the *)
(* drafts, or all of it, whatever the feeds before it hold or repeat.      *)
NoFeedStarves(feeds, limit, drafts) ==
  /\ IsInjective(drafts) /\ Len(drafts) <= limit
  /\ Len(feeds) <= limit => \A i \in DOMAIN feeds :
       Cardinality(LinksOf(feeds[i]) \cap Range(drafts)) >=
         Min({limit \div Len(feeds), Cardinality(LinksOf(feeds[i]))})

(* An event is in the catalogue once, and what differs is kept apart (both *)
(* parts of it): however near other events are and whatever the arbiter    *)
(* answers.                                                                *)
AnnouncedOnce ==
  use = "announce" => \A j \in DOMAIN found : \A i \in 1..j - 1 :
    RepeatIsRecognised(i, j) /\ NothingIsSwallowed(i, j)

(* So the catalogue agrees with what is announced, and every feed has its  *)
(* way into it.                                                            *)
CatalogueAgrees ==
  /\ AnnouncedOnce
  /\ use = "fetch" /\ answer # <<>> /\ found[1].source = "rss" =>
       NoFeedStarves(found[1].pages, found[1].limit, answer[1])

(* Not true: of two announcements with different dates, or in different    *)
(* cities, none is lost in the event of the other.                         *)
DifferentStayApart ==
  use = "announce" => \A i, j \in DOMAIN found :
    found[i].of = found[j].of /\ found[i].of # 0 =>
      DatesAgree(found[i], found[j]) /\ CitiesAgree(found[i], found[j])
=============================================================================
