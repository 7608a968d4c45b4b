----------------------------- MODULE MCRetrieval -----------------------------
(***************************************************************************)
(* An instance of Retrieval for TLC: a phrase with a topic, a city and a   *)
(* date, another with an odd type, two embeddings that are close, and      *)
(* announcements in three wordings: two much alike, of which one shares    *)
(* its title with a third that is less so.                                 *)
(***************************************************************************)
EXTENDS Retrieval, TLC

CONSTANTS e1, e2, q1, v, w

TwoKeys == "p" :> {"topics", "city", "date"} @@ "o" :> {"city", "event_type"}
OneOdd == "p" :> {} @@ "o" :> {"event_type"}
Interchangeable == Permutations(Events) \cup Permutations(Requests)

Cosines == [p \in Vectors \X Vectors |-> IF p[1] = p[2] THEN 10 ELSE 4]

Cities == "Moscow" :> "moscow" @@ "msk" :> "moscow" @@ "Perm" :> "perm" @@
          "online" :> "any" @@ "a b" :> ""

Wordings == {"t", "u", "x"}
Likeness == [p \in Wordings \X Wordings |->
               IF p[1] = p[2] THEN 100
               ELSE IF p[1] # "x" /\ p[2] # "x" THEN 93 ELSE 88]
SameTitle == {<<"t", "x">>, <<"x", "t">>}

Said(text, date, city) ==
  [text |-> text, topics |-> TRUE, date |-> date, city |-> city, format |-> "odd", type |-> ""]
ModelAnswers == {Said("t", 2, "msk"), Said("t", 2, "Moscow"), Said("t", 2, "Perm"), Said("t", 4, "Moscow"),
            Said("t", 99, "Moscow"), Said("u", 3, "online"), Said("u", 2, "a b"), Said("u", 3, "Perm"),
            Said("x", 2, "Moscow"), Said("x", 99, "Perm"), Said("t", 99, "a b"),
            [Said("t", 99, "a b") EXCEPT !.type = "meetup"]}

(* Everything about topics with one format and city, and the reverse.      *)
Topics == {"go", "ml"}
Stat(alpha, beta) == [alpha |-> alpha, beta |-> beta]
AllStats == {<< >>, "go" :> Stat(40, 10), "go" :> Stat(10, 30),
             "go" :> Stat(14, 10) @@ "ml" :> Stat(310, 10)}
Person(interests, anti, gaps, stats, format, city) ==
  [interests |-> interests, anti |-> anti, gaps |-> gaps, stats |-> stats,
   format |-> format, city |-> city]
Event(topics, stack, format, city, quality, days) ==
  [topics |-> topics, stack |-> stack, format |-> format, city |-> city,
   quality |-> quality, hype |-> 0, days |-> days]
People ==
  {Person(i, a, g, s, "", "") : i \in SUBSET Topics, a \in SUBSET Topics,
                                g \in SUBSET Topics, s \in AllStats}
  \cup {Person({}, {"ml"}, {}, << >>, f, c) : f \in {"online", "any"}, c \in {"perm", "any", ""}}
Shown ==
  {Event(t, s, "online", "perm", 0, 99) : t \in SUBSET Topics, s \in {{}, {"ml"}}}
  \cup {Event({"ml"}, {}, f, c, q, d) : f \in {"online", "offline"}, c \in {"perm", "any"},
                                       q \in {0, 8}, d \in {0, 15}}

(* One, two or three pages, with a link in two forms and a title missing.  *)
Cards == {[title |-> TRUE, link |-> "/a"], [title |-> TRUE, link |-> "h/a"],
          [title |-> TRUE, link |-> "b"], [title |-> FALSE, link |-> "c"]}
ShortPages == UNION {[1..n -> Cards] : n \in 0..3}
PagesUsed == UNION {[1..n -> ShortPages] : n \in 1..2}
             \cup [1..3 -> UNION {[1..n -> Cards \ {[title |-> FALSE, link |-> "c"]}] : n \in 0..2}]
Addresses == "/a" :> "h/a" @@ "h/a" :> "h/a" @@ "b" :> "b" @@ "c" :> "c"

WeightsUsed == [bayesian |-> 500, cosine |-> 1000, freshness |-> 200, hype |-> 30,
                quality |-> 50, rule |-> 50, skill_gap |-> 300]
FreshnessUsed == 0 :> 100 @@ 15 :> 71
=============================================================================
