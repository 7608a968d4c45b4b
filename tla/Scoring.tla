-------------------------------- MODULE Scoring --------------------------------
(***************************************************************************)
(* What HybridRanker adds up for one user and one event, and what the user *)
(* is told about it («Почему рекомендовано»).  Scores are whole hundredths *)
(* of a point, similarities tenths, alpha and beta tenths.                 *)
(*                                                                         *)
(* A user has interests, anti, gaps (sets of topics), format, city and     *)
(* stats (topic to [alpha, beta]); an event topics, stack, format, city,   *)
(* quality, hype and days (from now, or Undated).  closeness is the cosine *)
(* of their vectors, 0 unless both are known.                              *)
(***************************************************************************)
EXTENDS Integers, Sequences, FiniteSets, SequencesExt, Sublists

CONSTANTS Weight,     \* Weight[c]: hundredths for a unit of component c
          Freshness,  \* Freshness[d]: hundredths left d days away
          Undated     \* days of an event without a date

(* COMPONENT_LABELS, in the order of the alphabet.                         *)
Components == <<"bayesian", "cosine", "freshness", "hype", "quality", "rule", "skill_gap">>

ASSUME ScoringAssumption == Weight \in [Range(Components) -> Nat]

(* The counts of a topic start from one success and one failure.           *)
IsUser(user) ==
  /\ IsFiniteSet(user.gaps) /\ IsFiniteSet(user.interests)
  /\ IsFiniteSet(DOMAIN user.stats)
  /\ \A t \in DOMAIN user.stats : {user.stats[t].alpha, user.stats[t].beta} \subseteq Nat \ {0}

IsScored(event) ==
  /\ IsFiniteSet(event.topics) /\ IsFiniteSet(event.stack)
  /\ {event.quality, event.hype} \subseteq Nat
  /\ event.days # Undated => Freshness[event.days] \in Nat

DeclaredInterest == 3
AntiPenalty == 6
VeryClose == 6
Close == 4
HighQuality == 8
SoonDays == 14

Abs(n) == IF n < 0 THEN 0 - n ELSE n
Total(f) == FoldFunction(LAMBDA a, b : a + b, 0, f)

-----------------------------------------------------------------------------
(* build_user_context.                                                     *)

(* Topics that worked more often than not, rounded to whole points; the    *)
(* stored values are never half way.                                       *)
Learned(user) ==
  [t \in {s \in DOMAIN user.stats : user.stats[s].alpha > user.stats[s].beta} |->
     (user.stats[t].alpha - user.stats[t].beta + 5) \div 10]

(* Mutant: the two loops in the other order.                               *)
InterestsLast(learned, interests, anti) ==
  LET was(t) == IF t \in anti THEN 0 - AntiPenalty
                ELSE IF t \in DOMAIN learned THEN learned[t] ELSE 0
  IN [t \in DOMAIN learned \cup interests \cup anti |->
        IF t \in interests THEN Max({was(t), DeclaredInterest}) ELSE was(t)]

MergeDeclaredTopics(learned, interests, anti) ==
  LET was(t) == IF t \in DOMAIN learned THEN learned[t] ELSE 0
  IN [t \in DOMAIN learned \cup interests \cup anti |->
        IF t \in anti THEN 0 - AntiPenalty
        ELSE IF t \in interests THEN Max({was(t), DeclaredInterest}) ELSE was(t)]

Weights(user) == MergeDeclaredTopics(Learned(user), user.interests, user.anti)
WeightOf(user, topic) == IF topic \in DOMAIN Weights(user) THEN Weights(user)[topic] ELSE 0

TopicsOf(user) == (DOMAIN Learned(user) \cup user.interests) \ user.anti

-----------------------------------------------------------------------------
(* The components.                                                         *)

FormatPoints(user, event) ==
  IF user.format = "any" THEN 1
  ELSE IF user.format # "" /\ user.format = event.format THEN 3 ELSE 0

CityPoints(user, event) ==
  IF "any" \in {user.city, event.city} THEN 1
  ELSE IF user.city # "" /\ user.city = event.city THEN 2 ELSE 0

RuleScore(user, event) ==
  Total([t \in event.topics |-> WeightOf(user, t)])
    + 2 * Cardinality(TopicsOf(user) \cap event.topics)
    + FormatPoints(user, event) + CityPoints(user, event)

(* Gaps are what the goals need and the user has not ruled out.            *)
SkillGapMatches(user, event) ==
  (user.gaps \ user.anti) \cap (event.topics \cup event.stack)

SkillGapHalves(user, event) == Min({2, Cardinality(SkillGapMatches(user, event))})

(* The best topic's share of successes; nothing before the first reaction, *)
(* one half for a topic without any.                                       *)
PosteriorMean(user, event, unit) ==
  IF DOMAIN user.stats = {} THEN 0
  ELSE Max({0} \cup
           {IF t \in DOMAIN user.stats
            THEN (unit * user.stats[t].alpha) \div (user.stats[t].alpha + user.stats[t].beta)
            ELSE unit \div 2 : t \in event.topics})

FreshnessOf(event) == IF event.days = Undated THEN 50 ELSE Freshness[event.days]

Breakdown(user, event, closeness) ==
  [c \in Range(Components) |->
     CASE c = "rule" -> Weight[c] * RuleScore(user, event)
       [] c = "cosine" -> (Weight[c] * closeness) \div 10
       [] c = "bayesian" -> PosteriorMean(user, event, Weight[c])
       [] c = "skill_gap" -> (Weight[c] * SkillGapHalves(user, event)) \div 2
       [] c = "quality" -> Weight[c] * event.quality
       [] c = "hype" -> Weight[c] * event.hype
       [] c = "freshness" -> (Weight[c] * FreshnessOf(event)) \div 100]

-----------------------------------------------------------------------------
(* What is told.                                                           *)

(* The components that count, the weightiest first, with their share.      *)
Contributions(parts) ==
  LET counts == {i \in DOMAIN Components : parts[Components[i]] # 0}
      heavy(i) == Abs(parts[Components[i]])
      before(i, j) == heavy(i) > heavy(j) \/ (heavy(i) = heavy(j) /\ i < j)
      all == Total([i \in counts |-> heavy(i)])
      order == Ordered(counts, before)
  IN [n \in DOMAIN order |->
        [component |-> Components[order[n]], value |-> parts[Components[order[n]]],
         share |-> (100 * heavy(order[n])) \div all]]

Disliked(user, event) == {t \in event.topics : WeightOf(user, t) < 0}

(* Each reason is a kind; the topics it names follow from user and event.  *)
Reasons(user, event, closeness) ==
  {kind \in {"topics", "disliked", "very close", "close", "goals", "format", "city", "quality",
             "soon"} :
     CASE kind = "topics" -> TopicsOf(user) \cap event.topics # {}
       [] kind = "disliked" -> Disliked(user, event) # {}
       [] kind = "very close" -> closeness >= VeryClose
       [] kind = "close" -> closeness >= Close /\ closeness < VeryClose
       [] kind = "goals" -> SkillGapMatches(user, event) # {}
       [] kind = "format" -> user.format # "" /\ user.format = event.format
       [] kind = "city" -> user.city \notin {"", "any", "unknown"} /\ user.city = event.city
       [] kind = "quality" -> event.quality >= HighQuality
       [] kind = "soon" -> event.days # Undated /\ event.days \in 0..SoonDays}

(* Where nothing speaks for it the event is popular.                       *)
ExplainMatch(user, event, closeness) ==
  LET reasons == Reasons(user, event, closeness)
  IN IF reasons \subseteq {"disliked"} THEN reasons \cup {"popular"} ELSE reasons
=============================================================================
