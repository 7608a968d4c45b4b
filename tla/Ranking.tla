-------------------------------- MODULE Ranking --------------------------------
(***************************************************************************)
(* The pure algorithms behind search and the feed: reciprocal rank fusion, *)
(* reranking by maximal marginal relevance (MMR) and one event per series. *)
(*                                                                         *)
(* Numbers are exact: a score is an integer, a similarity a number of      *)
(* tenths, a fused score a numerator over a common denominator.  The code  *)
(* computes in floating point, where sums of the same terms in another     *)
(* order may differ in their last bit.                                     *)
(***************************************************************************)
EXTENDS Integers, Sequences, FiniteSets, SequencesExt, Sublists

CONSTANTS RrfK,       \* k of the fusion
          Lambda,     \* weight of relevance in MMR, in tenths
          MmrHead,    \* DEFAULT_MMR_TOP_N
          Vectors,    \* embeddings
          NoVector,   \* an event without one
          NoSeries,   \* an event that belongs to no series
          Similar     \* Similar[v, w]: cosine of two embeddings, in tenths

ASSUME RankingAssumption ==
  /\ RrfK \in Nat /\ MmrHead \in Nat
  /\ Lambda \in 0..10

ASSUME SimilarAssumption == \A v, w \in Vectors : Similar[v, w] \in Int

Drop(seq, n) == SubSeq(seq, n + 1, Len(seq))

-----------------------------------------------------------------------------
(* reciprocal_rank_fusion.                                                 *)

(* The place of item in a ranking is that of its first mention.            *)
RankIn(ranking, item) == Min({i \in DOMAIN ranking : ranking[i] = item})

Lists(rankings, item) == {i \in DOMAIN rankings : item \in Range(rankings[i])}

Longest(rankings) == Max({0} \cup {Len(rankings[i]) : i \in DOMAIN rankings})

(* All 1 / (k + rank) over one denominator.                                *)
Denominator(rankings) == FoldFunction(LAMBDA a, b : a * b, 1,
                                      [r \in 1..Longest(rankings) |-> RrfK + r])

(* Mutant: ranks are added, and an item pays nothing for being missed.     *)
MinusRanks(rankings, item) ==
  FoldFunction(LAMBDA a, b : a + b, 0,
    [i \in Lists(rankings, item) |-> 0 - RankIn(rankings[i], item)])

FusedScore(rankings, item) ==
  FoldFunction(LAMBDA a, b : a + b, 0,
    [i \in Lists(rankings, item) |->
       Denominator(rankings) \div (RrfK + RankIn(rankings[i], item))])

BestRank(rankings, item) == Min({RankIn(rankings[i], item) : i \in Lists(rankings, item)})

(* In which order the loop meets the items: by list, then by rank.         *)
SeenBefore(rankings, a, b) ==
  LET i == Min(Lists(rankings, a))
      j == Min(Lists(rankings, b))
  IN i < j \/ (i = j /\ RankIn(rankings[i], a) < RankIn(rankings[i], b))

Fused(rankings) ==
  LET better(a, b) ==
        LET sa == FusedScore(rankings, a)  sb == FusedScore(rankings, b)
            ra == BestRank(rankings, a)    rb == BestRank(rankings, b)
        IN \/ sa > sb
           \/ sa = sb /\ ra < rb
           \/ sa = sb /\ ra = rb /\ SeenBefore(rankings, a, b)
  IN Ordered(UNION {Range(rankings[i]) : i \in DOMAIN rankings}, better)

-----------------------------------------------------------------------------
(* mmr_rerank.  An item has id, score, vector, series and distance, how    *)
(* far from now it starts.                                                 *)

(* The similarities to what is picked, of events that both have a vector.  *)
Penalty(item, picked) ==
  LET known == {i \in DOMAIN picked : picked[i].vector # NoVector}
  IN IF item.vector = NoVector \/ known = {} THEN 0
     ELSE Max({Similar[item.vector, picked[i].vector] : i \in known})

(* lambda * relevance - (1 - lambda) * penalty, times ten times the range  *)
(* of the scores.                                                          *)
Marginal(head, item, picked) ==
  LET scores == {head[i].score : i \in DOMAIN head}
      spread == Max(scores) - Min(scores)
      range == IF spread = 0 THEN 1 ELSE spread
  IN Lambda * 10 * (item.score - Min(scores)) - (10 - Lambda) * range * Penalty(item, picked)

(* Mutant: of equal ones the last is picked.                               *)
LastBest(value) ==
  Max({i \in DOMAIN value : \A j \in DOMAIN value : value[j] <= value[i]})

(* The first of the best.                                                  *)
Best(value) ==
  Min({i \in DOMAIN value : \A j \in DOMAIN value : value[j] <= value[i]})

(* The best of the rest is picked.                                         *)
PickNext(head, was) ==
  LET best == Best([i \in DOMAIN was.rest |-> Marginal(head, was.rest[i], was.picked)])
  IN [picked |-> Append(was.picked, was.rest[best]),
      rest |-> Pick(was.rest, DOMAIN was.rest \ {best})]

MmrRerank(items) ==
  LET head == Take(items, MmrHead)
      pick[n \in 0..Len(head)] ==
        IF n = 0 THEN [picked |-> <<>>, rest |-> head] ELSE PickNext(head, pick[n - 1])
  IN pick[Len(head)].picked \o Drop(items, MmrHead)

-----------------------------------------------------------------------------
(* series_anti_flood keeps the edition of a series that is nearest to now, *)
(* of equally near ones the first.                                         *)

(* Mutant: the first edition in the list.                                  *)
WinnerFirst(items, series) == Min({i \in DOMAIN items : items[i].series = series})

Winner(items, series) ==
  LET editions == {i \in DOMAIN items : items[i].series = series}
      nearest == Min({items[i].distance : i \in editions})
  IN Min({i \in editions : items[i].distance = nearest})

SeriesAntiFlood(items) ==
  Pick(items, {i \in DOMAIN items : \/ items[i].series = NoSeries
                                    \/ items[i] = items[Winner(items, items[i].series)]})

(* HybridRanker.rank, after the components have scored the events.  Equal  *)
(* scores keep the order of the candidates.                                *)
Rank(candidates, limit) ==
  LET first(i, j) == \/ candidates[i].score > candidates[j].score
                     \/ candidates[i].score = candidates[j].score /\ i < j
      order == Ordered(DOMAIN candidates, first)
      scored == [i \in DOMAIN candidates |-> candidates[order[i]]]
  IN Take(SeriesAntiFlood(MmrRerank(scored)), limit)
=============================================================================
