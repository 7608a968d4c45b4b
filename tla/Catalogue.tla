------------------------------- MODULE Catalogue -------------------------------
(***************************************************************************)
(* How an announcement becomes an event of the catalogue or is found to    *)
(* repeat one: what is kept of the language model's answer (postprocess),  *)
(* which events are near it (find_similar) and which of those it repeats   *)
(* (judge_duplicate and the arbiter).  Announcements come one after        *)
(* another here; module Ingestion has the batches that overlap.            *)
(*                                                                         *)
(* A text stands for title, description and embedding of an announcement;  *)
(* how alike two texts are is data, as is the share of their titles' words.*)
(***************************************************************************)
EXTENDS Integers, FiniteSets

CONSTANTS
  CityOf,         \* CityOf[name]: code of a city as the model writes it, "" if it is none
  Alike,          \* Alike[t, u]: cosine of the embeddings of two texts, in hundredths
  TitlesOverlap,  \* pairs of texts with much the same words in the title
  DuplicateFrom,  \* DedupPolicy.duplicate_similarity
  UncertainFrom,  \* DedupPolicy.uncertain_similarity
  MaxDaysApart,   \* DedupPolicy.max_days_apart
  DedupCandidates,\* dedup_candidates
  ValidDates,     \* the calendar, in the years the normalizer believes
  NoDate          \* no date is known

ASSUME CatalogueAssumption ==
  /\ {MaxDaysApart, DedupCandidates, DuplicateFrom, UncertainFrom} \subseteq Nat
  /\ UncertainFrom <= DuplicateFrom
  /\ ValidDates \subseteq Nat /\ NoDate \notin ValidDates

-----------------------------------------------------------------------------
(* postprocess.                                                            *)

Formats == {"online", "offline", "hybrid", "any"}
EventTypes == {"meetup", "conference", "webinar", "workshop", "hackathon", "lecture"}
NoCity == {"any", "unknown"}

(* A value outside its list is unknown.                                    *)
Known(value, allowed) == IF value \in allowed THEN value ELSE "unknown"

ValidDate(date) == IF date \in ValidDates THEN date ELSE NoDate

City(name) == IF CityOf[name] = "" THEN "unknown" ELSE CityOf[name]

(* Topics alone make no event: date, format, city or type must be known.   *)
Postprocess(raw) ==
  LET date == ValidDate(raw.date)
      city == City(raw.city)
  IN [text |-> raw.text, date |-> date, city |-> city,
      isEvent |-> /\ raw.topics
                  /\ \/ date # NoDate
                     \/ city \notin NoCity
                     \/ Known(raw.format, Formats) # "unknown"
                     \/ Known(raw.type, EventTypes) # "unknown"]

-----------------------------------------------------------------------------
(* find_similar and judge_duplicate.  of says which event an announcement  *)
(* belongs to: its own number for a new one, 0 for what is no event.       *)

IsEvent(seen, k) == seen[k].of = k

DatesAgree(a, b) ==
  NoDate \in {a.date, b.date} \/ (a.date - b.date) \in -MaxDaysApart..MaxDaysApart

CitiesAgree(a, b) == a.city = b.city \/ {a.city, b.city} \cap NoCity # {}

Near(seen, a) ==
  {k \in DOMAIN seen :
     /\ IsEvent(seen, k) /\ seen[k].vector
     /\ Alike[a.text, seen[k].text] >= UncertainFrom
     /\ DatesAgree(a, seen[k])}

NoFarther(seen, a, j, k) == Alike[a.text, seen[j].text] >= Alike[a.text, seen[k].text]

(* ORDER BY distance LIMIT, as the sets of events this may keep.           *)
FindSimilar(seen, a) ==
  {S \in SUBSET Near(seen, a) :
     /\ Cardinality(S) <= DedupCandidates
     /\ S # Near(seen, a) => Cardinality(S) = DedupCandidates
     /\ \A j \in S, k \in Near(seen, a) \ S : NoFarther(seen, a, j, k)}

(* Mutant: another city is as good.                                        *)
JudgeByText(a, event) ==
  IF ~DatesAgree(a, event) THEN "distinct"
  ELSE IF Alike[a.text, event.text] >= DuplicateFrom THEN "duplicate" ELSE "uncertain"

JudgeDuplicate(a, event) ==
  LET alike == Alike[a.text, event.text]
  IN IF ~DatesAgree(a, event) \/ ~CitiesAgree(a, event) \/ alike < UncertainFrom
     THEN "distinct"
     ELSE IF alike >= DuplicateFrom \/ <<a.text, event.text>> \in TitlesOverlap
     THEN "duplicate"
     ELSE "uncertain"

(* The arbiter: the model says yes or no, and its failure is a no.         *)
SameEvent(a, event) == BOOLEAN

(* Is it the same event?                                                   *)
Answers(a, event) ==
  LET verdict == JudgeDuplicate(a, event)
  IN IF verdict = "uncertain" THEN SameEvent(a, event) ELSE {verdict = "duplicate"}

(* The loop over the candidates, nearest first, equally near ones in any   *)
(* order, and 0 when it finds no duplicate: all it may return.             *)
FindDuplicate(seen, a) ==
  UNION {
    LET yes == {k \in S : TRUE \in Answers(a, seen[k])}
        no == {k \in S : FALSE \in Answers(a, seen[k])}
    IN {k \in yes : \A j \in S \ no : NoFarther(seen, a, k, j)} \cup {k \in {0} : no = S}
    : S \in FindSimilar(seen, a)}

-----------------------------------------------------------------------------
(* The outcomes of one more announcement; without an embedding nothing is  *)
(* compared.                                                               *)
Processed(seen, raw, vector) ==
  LET a == Postprocess(raw)
      n == Cardinality(DOMAIN seen) + 1
      item(of) == [text |-> a.text, date |-> a.date, city |-> a.city, vector |-> vector, of |-> of]
  IN IF ~a.isEvent THEN {item(0)}
     ELSE IF ~vector THEN {item(n)}
     ELSE {item(IF k = 0 THEN n ELSE k) : k \in FindDuplicate(seen, a)}
=============================================================================
