-------------------------------- MODULE Profile --------------------------------
(***************************************************************************)
(* The profile of one user: what the text "about me" is taken apart into   *)
(* by the language model (UpdateUserProfile), edits of single topics and   *)
(* goals (ApplyProfileChanges) and the skills missing for the goals        *)
(* (GoalPlanner).  Requests of the web client, the bot and the agent run   *)
(* in steps: one transaction reads, the model is asked for seconds, a      *)
(* second transaction reads the row again and writes the columns that      *)
(* differ from what it has read.                                           *)
(*                                                                         *)
(* Topics are written in many ways; Slug is the code each stands for.      *)
(* Role, level and the text itself are left out, and so are the vectors    *)
(* and the cache (module Recommender).                                     *)
(***************************************************************************)
EXTENDS Naturals, Sequences, SequencesExt, Sublists

CONSTANTS
  Updates,    \* calls of the two use cases
  Names,      \* topics and technologies as people and models write them
  Slug,       \* Slug[n]: the code of n, "" when nothing is left of it
  LongSlugs,  \* codes longer than a model may invent
  Goals,      \* goals as written
  Fold,       \* Fold[g]: g regardless of case
  Extracts,   \* answers of the model about a text
  Plans,      \* answers of the model about missing skills
  Pickings,   \* topics a user picks along with the text
  Changes,    \* edits of single topics and goals
  MaxTopics, MaxGoals,        \* what a profile holds
  MaxExtracted, MaxGoalsRead, \* what is taken from a text
  MaxGaps,
  NotGiven    \* the lists of topics come from the text

ASSUME ProfileAssumption ==
  /\ {MaxTopics, MaxGoals, MaxExtracted, MaxGoalsRead, MaxGaps} \subseteq Nat
  /\ Names \subseteq DOMAIN Slug
  /\ \A n \in Names : Slug[n] # "" => Slug[n] \in Names /\ Slug[Slug[n]] = Slug[n]
  /\ Fold \in [Goals -> Goals]
  /\ Extracts \subseteq [stack : Seq(Names), interests : Seq(Names), anti : Seq(Names),
                         goals : Seq(Goals)]
  /\ Plans \subseteq Seq(Names)
  /\ Pickings \subseteq {NotGiven} \cup [interests : Seq(Names) \cup {NotGiven},
                                        anti : Seq(Names) \cup {NotGiven}]
  /\ Changes \subseteq [addInterests : Seq(Names), removeInterests : Seq(Names),
                        addAnti : Seq(Names), removeAnti : Seq(Names),
                        addGoals : Seq(Goals), removeGoals : Seq(Goals)]

VARIABLES
  row,     \* the row of user_profiles
  updates  \* updates[r]: request r

profileVars == <<row, updates>>

Columns == {"stack", "interests", "anti", "goals", "gaps"}

(* may (history): what the lists, or the gaps, of a profile are excused    *)
(* from, see ListsApart and GapsOpen.                                      *)
Empty == [stored |-> FALSE, stack |-> <<>>, interests |-> <<>>, anti |-> <<>>,
          goals |-> <<>>, gaps |-> <<>>, may |-> {}]

(* picks: topics chosen by the user; prev: the profile that was read;      *)
(* next: the one to be saved; seen: the row before it is written.          *)
NoUpdate ==
  [at |-> "idle", picks |-> NotGiven, prev |-> Empty, next |-> Empty, seen |-> Empty]

ProfileInit == row = Empty /\ updates = [r \in Updates |-> NoUpdate]

-----------------------------------------------------------------------------
(* Lists of codes and texts.                                               *)

(* base and, behind it, what more has and base has not yet.                *)
Joined(base, more, Key(_)) ==
  LET known(x) == \E i \in DOMAIN base : Key(base[i]) = Key(x)
  IN base \o Pick(more, {i \in DOMAIN more :
                           /\ ~known(more[i])
                           /\ \A j \in 1..i - 1 : Key(more[j]) # Key(more[i])})

Itself(x) == x

Codes(names) ==
  Joined(<<>>, Without([i \in DOMAIN names |-> Slug[names[i]]], {""}), Itself)

(* What a model wrote: not too long, not too many.                         *)
TopicSlugs(names) == Take(Without(Codes(names), LongSlugs), MaxExtracted)

ManualTopics(names) == Take(Codes(names), MaxTopics)

Folded(g) == Fold[g]
DedupeTexts(texts) == Take(Joined(<<>>, texts, Folded), MaxGoalsRead)

-----------------------------------------------------------------------------
(* The model's answers, and edits.                                         *)

(* A topic named as interesting and as not interesting is not.             *)
PostprocessProfile(x) ==
  LET anti == TopicSlugs(x.anti)
  IN [stack |-> x.stack, interests |-> Without(TopicSlugs(x.interests), Range(anti)),
      anti |-> anti, goals |-> DedupeTexts(x.goals)]

Nothing == [stack |-> <<>>, interests |-> <<>>, anti |-> <<>>, goals |-> <<>>]

(* The new profile of UpdateUserProfile: lists the user picked go before   *)
(* those of the text, the gaps stay for now.                               *)
FromText(prev, picks, x) ==
  LET anti == IF picks = NotGiven \/ picks.anti = NotGiven THEN x.anti
              ELSE ManualTopics(picks.anti)
      chosen == IF picks = NotGiven \/ picks.interests = NotGiven THEN x.interests
                ELSE ManualTopics(picks.interests)
  IN [stored |-> TRUE, stack |-> x.stack, interests |-> Without(chosen, Range(anti)),
      anti |-> anti, goals |-> x.goals, gaps |-> prev.gaps, may |-> prev.may \cap {"gaps"}]

(* Mutant: an interest that is added stays an anti-interest.               *)
DropOnlyNamed(remove, addToOther) == Range(Codes(remove))

DropFrom(remove, addToOther) == Range(Codes(remove)) \cup Range(Codes(addToOther))

NamedTwice(c) == Range(Codes(c.addInterests)) \cap Range(Codes(c.addAnti)) # {}

ApplyProfileChanges(p, c) ==
  LET interests == Joined(Without(p.interests, DropFrom(c.removeInterests, c.addAnti)),
                          Codes(c.addInterests), Itself)
      anti == Joined(Without(p.anti, DropFrom(c.removeAnti, c.addInterests)),
                     Codes(c.addAnti), Itself)
      removed == {Fold[g] : g \in Range(c.removeGoals)}
      kept == Pick(p.goals, {i \in DOMAIN p.goals : Fold[p.goals[i]] \notin removed})
  IN [p EXCEPT !.stored = TRUE, !.interests = Take(interests, MaxTopics),
               !.anti = Take(anti, MaxTopics),
               !.goals = Take(Joined(kept, c.addGoals, Folded), MaxGoals),
               !.may = @ \cup (IF NamedTwice(c) THEN {"lists"} ELSE {})]

(* Missing is not what is known already nor what the user does not want.   *)
PostprocessGaps(plan, p) ==
  LET blocked == Range(Codes(p.stack)) \cup Range(p.interests) \cup Range(p.anti)
  IN Take(Without(Codes(plan), LongSlugs \cup blocked), MaxGaps)

(* _refresh_gaps asks the planner only then.                               *)
GapsOutdated(prev, next) ==
  \/ \E c \in {"goals", "stack", "interests", "anti"} : prev[c] # next[c]
  \/ next.gaps = <<>>

-----------------------------------------------------------------------------
(* The requests.                                                           *)

UpdateIs(r, q) == updates' = [updates EXCEPT ![r] = q]

(* The first transaction of UpdateUserProfile.                             *)
UpdateUserProfile(r, picks) ==
  /\ updates[r].at = "idle"
  /\ UpdateIs(r, [NoUpdate EXCEPT !.at = "extract", !.picks = picks, !.prev = row])
  /\ UNCHANGED row

(* The text is taken apart; nothing is left of an empty one, or when the   *)
(* model fails.                                                            *)
Extract(r) ==
  /\ updates[r].at = "extract"
  /\ \E x \in {PostprocessProfile(raw) : raw \in Extracts} \cup {Nothing} :
       UpdateIs(r, [updates[r] EXCEPT
                      !.at = "plan",
                      !.next = FromText(updates[r].prev, updates[r].picks, x)])
  /\ UNCHANGED row

(* The first transaction of ApplyProfileChanges and what it makes of it.   *)
Apply(r, c) ==
  /\ updates[r].at = "idle"
  /\ UpdateIs(r, [NoUpdate EXCEPT !.at = "plan", !.prev = row,
                                  !.next = ApplyProfileChanges(row, c)])
  /\ UNCHANGED row

Planned(r, gaps, may) ==
  /\ UpdateIs(r, [updates[r] EXCEPT !.at = "embed", !.next.gaps = gaps, !.next.may = may])
  /\ UNCHANGED row

GapsStay(r) ==
  /\ updates[r].at = "plan"
  /\ ~GapsOutdated(updates[r].prev, updates[r].next)
  /\ Planned(r, updates[r].next.gaps, updates[r].next.may)

(* Without goals nothing is missing.                                       *)
Plan(r) ==
  LET next == updates[r].next
  IN /\ updates[r].at = "plan"
     /\ GapsOutdated(updates[r].prev, next)
     /\ \E gaps \in IF next.goals = <<>> THEN {<<>>}
                    ELSE {PostprocessGaps(plan, next) : plan \in Plans} :
          Planned(r, gaps, next.may \ {"gaps"})

(* The model fails: the gaps of before are kept.                           *)
PlanFails(r) ==
  LET next == updates[r].next
  IN /\ updates[r].at = "plan"
     /\ GapsOutdated(updates[r].prev, next)
     /\ next.goals # <<>>
     /\ Planned(r, next.gaps, next.may \cup {"gaps"})

(* The second transaction reads the row, after the profile was embedded.   *)
Get(r) ==
  /\ updates[r].at = "embed"
  /\ UpdateIs(r, [updates[r] EXCEPT !.at = "save", !.seen = row])
  /\ UNCHANGED row

Raced(r) == row # updates[r].seen

(* Columns equal to what was read are not written; the UPDATE waits for    *)
(* another transaction's lock and goes by what that has left.              *)
SaveProfile(r) ==
  LET q == updates[r]
  IN /\ q.at = "save"
     /\ q.seen.stored = row.stored
     /\ row' = [c \in DOMAIN row |->
                  CASE c = "stored" -> TRUE
                    [] c = "may" -> IF Raced(r) THEN {"lists", "gaps"} ELSE q.next.may
                    [] OTHER -> IF q.next[c] = q.seen[c] THEN row[c] ELSE q.next[c]]
     /\ UpdateIs(r, [NoUpdate EXCEPT !.at = "done"])

(* Two requests insert the row: the second fails.                          *)
Clash(r) ==
  /\ updates[r].at = "save" /\ updates[r].seen.stored # row.stored
  /\ UpdateIs(r, [NoUpdate EXCEPT !.at = "done"])
  /\ UNCHANGED row

(* The process dies, or the database does not answer.                      *)
UpdateFails(r) ==
  /\ updates[r].at \notin {"idle", "done"}
  /\ UpdateIs(r, [NoUpdate EXCEPT !.at = "done"])
  /\ UNCHANGED row

ProfileNext ==
  \E r \in Updates :
    \/ \E picks \in Pickings : UpdateUserProfile(r, picks)
    \/ Extract(r)
    \/ \E c \in Changes : Apply(r, c)
    \/ GapsStay(r) \/ Plan(r) \/ PlanFails(r)
    \/ Get(r) \/ SaveProfile(r) \/ Clash(r) \/ UpdateFails(r)

ProfileSpec == ProfileInit /\ [][ProfileNext]_profileVars

-----------------------------------------------------------------------------
(* No topic is an interest and an anti-interest, unless one edit named it  *)
(* as both or two requests wrote the row at the same time, each only the   *)
(* columns it changed.                                                     *)
ListsApart == "lists" \in row.may \/ Range(row.interests) \cap Range(row.anti) = {}

(* No skill is called missing that the user has, or does not want, unless  *)
(* the planner failed since, or two requests wrote the row at once:        *)
(* however text, edits and failures of the model follow each other.        *)
GapsOpen ==
  \/ "gaps" \in row.may
  \/ Range(row.gaps) \cap (Range(Codes(row.stack)) \cup Range(row.interests) \cup Range(row.anti)) = {}

(* What is stored of a profile fits together (both parts of it): later     *)
(* readers, the ranker and the agent, take it for consistent.              *)
ProfileConsistent == ListsApart /\ GapsOpen

(* Stated by the comment of apply_profile_changes, and not true: a topic   *)
(* is never in both lists.                                                 *)
NeverInBoth == Range(row.interests) \cap Range(row.anti) = {}
=============================================================================
