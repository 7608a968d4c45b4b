------------------------------- MODULE BotProofs -------------------------------
(***************************************************************************)
(* Machine-checked proofs about Bot, for every set of events, number of    *)
(* updates handled at once, length of pages, and number of troubles.       *)
(***************************************************************************)
EXTENDS Bot, FiniteSetTheorems, SequenceTheorems, TLAPS

Keeping == {s \in Slots : upd[s].at = "keep"}

(* Since the feed began anew, and unless something excuses it: one handler *)
(* at most is at work on it, and the FSM data have exactly what the feed   *)
(* has shown, or will as soon as that handler keeps it.                    *)
FeedInStep ==
  ~run.excused =>
    /\ ~run.again
    /\ \A s, t \in InFeed : s = t
    /\ \A s \in Keeping : upd[s].page = run.shown
    /\ Keeping = {} => shown = run.shown

(* Presses of a button under e that have not been answered.                *)
Reacting == {"react", "register", "react_again"}
Pressing(e) == {s \in Slots : upd[s].at \in Reacting /\ upd[s].event = e}

PressesHaveEvents == \A s \in Slots : upd[s].at \in Reacting => upd[s].event \in Events

PressesAccountedFor ==
  \A e \in Events :
    /\ count[e].told <= rated[e]
    /\ rated[e] + Cardinality(Pressing(e)) <= count[e].may

(* While nothing was removed from it and nothing in it saved again, what   *)
(* the list had at its first page is still in it, and what of it is before *)
(* the next page was shown: events saved since only push it back.          *)
ListInStep ==
  ~list.moved =>
    /\ list.stable \subseteq Range(saved)
    /\ \A i \in DOMAIN saved :
         i <= list.next /\ saved[i] \in list.stable => saved[i] \in list.shown

IInv ==
  /\ TypeOK /\ FeedInStep
  /\ PressesHaveEvents /\ PressesAccountedFor
  /\ ListInStep /\ SavedListComplete

-----------------------------------------------------------------------------
(* Types.                                                                  *)

(* Removing an event from the saved list.                                  *)
LEMMA WithoutProperties ==
  ASSUME NEW es \in Seq(Events), IsInjective(es), NEW e \in Events
  PROVE  /\ Without(es, e) \in Seq(Events)
         /\ IsInjective(Without(es, e))
         /\ Range(Without(es, e)) = Range(es) \ {e}
         /\ \A i \in DOMAIN Without(es, e) : \E j \in {i, i + 1} :
              j \in DOMAIN es /\ es[j] = Without(es, e)[i]
<1>1. CASE e \notin Range(es)
  BY <1>1 DEF Without, Range
<1>2. CASE e \in Range(es)
  <2> DEFINE at == CHOOSE i \in DOMAIN es : es[i] = e
             left == SubSeq(es, 1, at - 1)
             right == SubSeq(es, at + 1, Len(es))
  <2>1. at \in 1..Len(es) /\ es[at] = e
    BY <1>2 DEF Range
  <2>2. Without(es, e) = left \o right
    BY <1>2 DEF Without, RemoveAt
  <2> HIDE DEF at
  <2>3. /\ left \in Seq(Events) /\ Len(left) = at - 1
        /\ \A i \in 1..at - 1 : left[i] = es[i]
    BY <2>1, SubSeqProperties
  <2>4. /\ right \in Seq(Events) /\ Len(right) = Len(es) - at
        /\ \A i \in 1..Len(es) - at : right[i] = es[at + i]
    BY <2>1, SubSeqProperties
  <2> HIDE DEF left, right
  <2>5. /\ left \o right \in Seq(Events)
        /\ Len(left \o right) = Len(es) - 1
        /\ \A i \in 1..Len(es) - 1 :
             (left \o right)[i] = IF i < at THEN es[i] ELSE es[i + 1]
    <3> DEFINE all == left \o right
    <3>1. /\ all \in Seq(Events) /\ Len(all) = Len(left) + Len(right)
          /\ \A i \in 1..Len(left) + Len(right) :
               all[i] = IF i <= Len(left) THEN left[i] ELSE right[i - Len(left)]
      BY <2>3, <2>4, ConcatProperties
    <3> HIDE DEF all
    <3>2. Len(es) \in Nat
      OBVIOUS
    <3>3. \A i \in 1..Len(es) - 1 : all[i] = IF i < at THEN es[i] ELSE es[i + 1]
      <4> TAKE i \in 1..Len(es) - 1
      <4>1. CASE i < at
        BY <4>1, <3>1, <3>2, <2>1, <2>3, <2>4
      <4>2. CASE i >= at
        <5>1. i - (at - 1) \in 1..Len(es) - at /\ at + (i - (at - 1)) = i + 1
          BY <4>2, <3>2, <2>1
        <5>2. right[i - (at - 1)] = es[i + 1]
          BY <5>1, <2>4
        <5>3. all[i] = right[i - (at - 1)]
          <6>1. Len(left) = at - 1 /\ Len(right) = Len(es) - at
            BY <2>3, <2>4
          <6>2. i \in 1..(at - 1) + (Len(es) - at) /\ ~(i <= at - 1)
            BY <4>2, <3>2, <2>1
          <6>3. QED
            BY <6>1, <6>2, <3>1
        <5>4. QED
          BY <4>2, <5>2, <5>3, <2>1, <3>2
      <4>3. QED
        BY <4>1, <4>2, <2>1, <3>2
    <3>4. QED
      BY <3>1, <3>2, <3>3, <2>1, <2>3, <2>4 DEF all
  <2> DEFINE rest == left \o right
  <2> HIDE DEF rest
  <2>6. /\ rest \in Seq(Events) /\ Len(rest) = Len(es) - 1 /\ DOMAIN rest = 1..Len(es) - 1
        /\ \A i \in 1..Len(es) - 1 : rest[i] = IF i < at THEN es[i] ELSE es[i + 1]
    BY <2>5 DEF rest
  <2>7. IsInjective(rest)
    BY <2>1, <2>6 DEF IsInjective
  <2>8. Range(rest) = Range(es) \ {e}
    <3>1. ASSUME NEW i \in DOMAIN rest PROVE rest[i] \in Range(es) \ {e}
      <4>1. PICK j \in DOMAIN es : rest[i] = es[j] /\ j # at
        <5>1. Len(es) \in Nat /\ DOMAIN es = 1..Len(es)
          OBVIOUS
        <5>2. CASE i < at
          BY <5>1, <5>2, <2>1, <2>6
        <5>3. CASE i >= at
          BY <5>1, <5>3, <2>1, <2>6
        <5>4. QED
          BY <5>1, <5>2, <5>3, <2>1, <2>6
      <4>2. es[j] # e
        BY <4>1, <2>1 DEF IsInjective
      <4>3. QED
        BY <4>1, <4>2 DEF Range
    <3>2. ASSUME NEW j \in DOMAIN es, es[j] # e PROVE es[j] \in Range(rest)
      <4>1. CASE j < at
        BY <4>1, <2>1, <2>6 DEF Range
      <4>2. CASE j > at
        <5>1. j - 1 \in DOMAIN rest /\ rest[j - 1] = es[j]
          BY <4>2, <2>1, <2>6
        <5>2. QED
          BY <5>1 DEF Range
      <4>3. QED
        BY <3>2, <4>1, <4>2, <2>1
    <3>3. QED
      BY <3>1, <3>2 DEF Range
  <2>9. \A i \in DOMAIN rest : \E j \in {i, i + 1} : j \in DOMAIN es /\ es[j] = rest[i]
    BY <2>1, <2>6
  <2>10. Without(es, e) = rest
    BY <2>2 DEF rest
  <2>11. QED
    BY <2>6, <2>7, <2>8, <2>9, <2>10
<1>3. QED
  BY <1>1, <1>2

(* The saved list with e in front.                                         *)
LEMMA InFrontProperties ==
  ASSUME NEW es \in Seq(Events), NEW e \in Events, IsInjective(es), e \notin Range(es)
  PROVE  /\ <<e>> \o es \in Seq(Events)
         /\ IsInjective(<<e>> \o es)
         /\ Range(<<e>> \o es) = Range(es) \cup {e}
         /\ \A i \in DOMAIN (<<e>> \o es) :
              (<<e>> \o es)[i] = e \/ (i - 1 \in DOMAIN es /\ es[i - 1] = (<<e>> \o es)[i])
<1> DEFINE all == <<e>> \o es
<1>1. /\ all \in Seq(Events) /\ DOMAIN all = 1..Len(es) + 1
      /\ \A i \in DOMAIN all : all[i] = IF i = 1 THEN e ELSE es[i - 1]
  <2>1. <<e>> \in Seq(Events) /\ Len(<<e>>) = 1 /\ <<e>>[1] = e
    OBVIOUS
  <2>2. QED
    BY <2>1, ConcatProperties
<1> HIDE DEF all
<1>2. IsInjective(all)
  BY <1>1 DEF IsInjective, Range
<1>3. Range(all) = Range(es) \cup {e}
  <2>1. ASSUME NEW i \in DOMAIN all PROVE all[i] \in Range(es) \cup {e}
    BY <1>1 DEF Range
  <2>2. ASSUME NEW j \in DOMAIN es PROVE es[j] \in Range(all)
    <3>1. j + 1 \in DOMAIN all /\ all[j + 1] = es[j]
      BY <1>1
    <3>2. QED
      BY <3>1 DEF Range
  <2>3. e \in Range(all)
    BY <1>1 DEF Range
  <2>4. QED
    BY <2>1, <2>2, <2>3 DEF Range
<1>4. \A i \in DOMAIN all : all[i] = e \/ (i - 1 \in DOMAIN es /\ es[i - 1] = all[i])
  BY <1>1
<1>5. QED
  BY <1>1, <1>2, <1>3, <1>4 DEF all

(* The saved list is no longer than there are events.                      *)
LEMMA SavedIsShort ==
  ASSUME NEW es \in Seq(Events), IsInjective(es)
  PROVE  Len(es) <= Cardinality(Events)
<1>1. es \in Injection(1..Len(es), Events)
  BY DEF Injection, IsInjective
<1>2. IsFiniteSet(Events)
  BY BotAssumption
<1>3. Cardinality(1..Len(es)) <= Cardinality(Events)
  BY <1>1, <1>2, FS_Injection
<1>4. Len(es) \in Nat
  OBVIOUS
<1>5. Cardinality(1..Len(es)) = Len(es)
  BY <1>4, FS_Interval
<1>6. QED
  BY <1>3, <1>5

(* The first page has an offset.                                           *)
LEMMA OffsetZero == 0 \in Offsets
<1>1. Cardinality(Events) \in Nat
  BY BotAssumption, FS_CardinalityType
<1>2. QED
  BY <1>1 DEF Offsets

(* So has the end of the list.                                             *)
LEMMA LengthIsOffset == ASSUME TypeOK PROVE Len(saved) \in Offsets
<1>1. /\ saved \in Seq(Events) /\ Len(saved) \in Nat
      /\ Len(saved) <= Cardinality(Events) /\ Cardinality(Events) \in Nat
  BY SavedIsShort, BotAssumption, FS_CardinalityType DEF TypeOK, ServerTypes
<1>2. QED
  BY <1>1 DEF Offsets

-----------------------------------------------------------------------------
(* What has nothing to do with the feed, reactions and the saved list.     *)

FeedSteps == {"feed", "cards", "keep"}
Quiet == {u \in Updates : u.at \notin FeedSteps \cup Reacting}

QuietMove == \E s \in Slots, u \in Quiet : upd[s] \in Quiet /\ upd' = [upd EXCEPT ![s] = u]

Elsewhere ==
  /\ UNCHANGED <<rated, saved, list, count>>
  /\ UNCHANGED upd \/ QuietMove
  /\ UNCHANGED <<shown, run>> \/ (shown' = {} /\ run' = [run EXCEPT !.excused = TRUE])
  /\ state' \in States /\ ChatTypes'
  /\ {account', about'} \subseteq BOOLEAN /\ (about' => account')
  /\ updates' \in 0..MaxUpdates /\ troubles' \in 0..MaxTroubles

LEMMA RecordsOfSteps ==
  ASSUME TypeOK, NEW s \in Slots
  PROVE  /\ upd[s] \in Updates
         /\ \A at \in Steps : Step(s, at) \in Updates /\ Step(s, at).at = at
BY DEF TypeOK, UpdateTypes, Updates, Step

LEMMA OthersAreElsewhere ==
  ASSUME TypeOK
  PROVE  /\ \A s \in Slots :
              \/ Start(s) \/ StartRegister(s) \/ StartWelcome(s) \/ StartWithToken(s)
              \/ ConfirmLink(s) \/ AboutReceived(s) \/ SaveProfile(s) \/ AboutSaved(s)
              \/ FormatChosen(s) \/ UpdateSettings(s) \/ FormatSaved(s)
              \/ CityChosen(s) \/ CityTyped(s)
              \/ \E offset \in Offsets : CountSaved(s, offset)
              => Elsewhere
         /\ \/ OnboardingSkip \/ CityOther \/ SettingsAbout
            \/ \E keyboard \in {"settings", "format", "city"} : Settings(keyboard)
            \/ \E es \in SUBSET Events : ShowCards(es)
            => Elsewhere
<1>1. ASSUME NEW s \in Slots, Start(s) PROVE Elsewhere
  <2> DEFINE next == [Idle EXCEPT !.at = "start"]
  <2>1. QuietMove
    <3>2. next \in Quiet
      BY OffsetZero DEF Idle, Quiet, Updates, Steps, FeedSteps, Reacting
    <3> HIDE DEF next
    <3>3. upd[s] \in Updates /\ upd[s].at \notin FeedSteps \cup Reacting
      BY <1>1, RecordsOfSteps DEF Start, Arrives, At, Idle, FeedSteps, Reacting
    <3>4. upd' = [upd EXCEPT ![s] = next]
      BY <1>1 DEF Start, Arrives, Calls, Moves, next
    <3>6. QED
      BY <3>2, <3>3, <3>4 DEF QuietMove, Quiet
  <2>2. QED
    BY <1>1, <2>1, BotAssumption
    DEF Arrives, Moves, At, Fine, Trouble, Calls, Asks, ShowsCards, Clear, KeepState, Registers, server, history, States, TypeOK, DialogueTypes, ChatTypes, Keyboards, ServerTypes, UpdateTypes, Elsewhere, Start
<1>2. ASSUME NEW s \in Slots, StartRegister(s) PROVE Elsewhere
  <2> DEFINE next == [Idle EXCEPT !.at = "welcome", !.on = ~account]
  <2>1. QuietMove
    <3>1. Idle \in Quiet
      BY OffsetZero DEF Idle, Quiet, Updates, Steps, FeedSteps, Reacting
    <3>2. next \in Quiet
      BY OffsetZero DEF Idle, Quiet, Updates, Steps, FeedSteps, Reacting
    <3> HIDE DEF next
    <3>3. upd[s] \in Updates /\ upd[s].at \notin FeedSteps \cup Reacting
      BY <1>2, RecordsOfSteps DEF StartRegister, Arrives, At, Idle, FeedSteps, Reacting
    <3>4. upd' = [upd EXCEPT ![s] = Idle] \/ upd' = [upd EXCEPT ![s] = next]
      BY <1>2 DEF StartRegister, Arrives, Calls, Moves, next
    <3>6. QED
      BY <3>1, <3>2, <3>3, <3>4 DEF QuietMove, Quiet
  <2>2. UNCHANGED <<rated, saved, list, count>>
    BY <1>2 DEF StartRegister, Calls, Registers, server, history
  <2>3. UNCHANGED <<shown, run>> \/ (shown' = {} /\ run' = [run EXCEPT !.excused = TRUE])
    BY <1>2 DEF StartRegister, Clear, KeepState, history
  <2>4. state' \in States /\ ChatTypes'
    BY <1>2 DEF StartRegister, Clear, KeepState, Asks, States, TypeOK, DialogueTypes, ChatTypes, Keyboards
  <2>5. {account', about'} \subseteq BOOLEAN /\ (about' => account')
    <3>1. (account' = TRUE /\ about' = about) \/ (account' = account /\ about' = about)
      BY <1>2 DEF StartRegister, Calls, Registers, server
    <3>2. account \in BOOLEAN /\ about \in BOOLEAN /\ (about => account)
      BY DEF TypeOK, ServerTypes
    <3>3. account' \in BOOLEAN /\ about' \in BOOLEAN
      BY <3>1, <3>2, Zenon
    <3>4. about' => account'
      BY <3>1, <3>2
    <3>5. QED
      BY <3>3, <3>4
  <2>6. updates' \in 0..MaxUpdates /\ troubles' \in 0..MaxTroubles
    BY <1>2, BotAssumption DEF StartRegister, Calls, Moves, Fine, Trouble, TypeOK, UpdateTypes
  <2>7. QED
    BY <2>1, <2>2, <2>3, <2>4, <2>5, <2>6 DEF Elsewhere
<1>3. ASSUME NEW s \in Slots, StartWelcome(s) PROVE Elsewhere
  <2>1. QuietMove
    <3>1. Idle \in Quiet
      BY OffsetZero DEF Idle, Quiet, Updates, Steps, FeedSteps, Reacting
    <3>3. upd[s] \in Updates /\ upd[s].at \notin FeedSteps \cup Reacting
      BY <1>3, RecordsOfSteps DEF StartWelcome, Arrives, At, Idle, FeedSteps, Reacting
    <3>4. upd' = [upd EXCEPT ![s] = Idle]
      BY <1>3 DEF StartWelcome, Arrives, Calls, Moves
    <3>6. QED
      BY <3>1, <3>3, <3>4 DEF QuietMove, Quiet
  <2>2. UNCHANGED <<rated, saved, list, count>>
    BY <1>3 DEF StartWelcome, Calls, Registers, server, history
  <2>3. UNCHANGED <<shown, run>> \/ (shown' = {} /\ run' = [run EXCEPT !.excused = TRUE])
    BY <1>3 DEF StartWelcome, Clear, KeepState, history
  <2>4. state' \in States /\ ChatTypes'
    BY <1>3 DEF StartWelcome, Clear, KeepState, Asks, States, TypeOK, DialogueTypes, ChatTypes, Keyboards
  <2>5. {account', about'} \subseteq BOOLEAN /\ (about' => account')
    BY <1>3 DEF StartWelcome, Calls, Registers, server, TypeOK, ServerTypes
  <2>6. updates' \in 0..MaxUpdates /\ troubles' \in 0..MaxTroubles
    BY <1>3, BotAssumption DEF StartWelcome, Calls, Moves, Fine, Trouble, TypeOK, UpdateTypes
  <2>7. QED
    BY <2>1, <2>2, <2>3, <2>4, <2>5, <2>6 DEF Elsewhere
<1>4. ASSUME NEW s \in Slots, StartWithToken(s) PROVE Elsewhere
  <2> DEFINE next == [Idle EXCEPT !.at = "link"]
  <2>1. QuietMove
    <3>2. next \in Quiet
      BY OffsetZero DEF Idle, Quiet, Updates, Steps, FeedSteps, Reacting
    <3> HIDE DEF next
    <3>3. upd[s] \in Updates /\ upd[s].at \notin FeedSteps \cup Reacting
      BY <1>4, RecordsOfSteps DEF StartWithToken, Arrives, At, Idle, FeedSteps, Reacting
    <3>4. upd' = [upd EXCEPT ![s] = next]
      BY <1>4 DEF StartWithToken, Arrives, Calls, Moves, next
    <3>6. QED
      BY <3>2, <3>3, <3>4 DEF QuietMove, Quiet
  <2>2. QED
    BY <1>4, <2>1, BotAssumption
    DEF Arrives, Moves, At, Fine, Trouble, Calls, Asks, ShowsCards, Clear, KeepState, Registers, server, history, States, TypeOK, DialogueTypes, ChatTypes, Keyboards, ServerTypes, UpdateTypes, Elsewhere, StartWithToken
<1>5. ASSUME NEW s \in Slots, ConfirmLink(s) PROVE Elsewhere
  <2>1. QuietMove
    <3>1. Idle \in Quiet
      BY OffsetZero DEF Idle, Quiet, Updates, Steps, FeedSteps, Reacting
    <3>3. upd[s] \in Updates /\ upd[s].at \notin FeedSteps \cup Reacting
      BY <1>5, RecordsOfSteps DEF ConfirmLink, Arrives, At, Idle, FeedSteps, Reacting
    <3>4. upd' = [upd EXCEPT ![s] = Idle]
      BY <1>5 DEF ConfirmLink, Arrives, Calls, Moves
    <3>6. QED
      BY <3>1, <3>3, <3>4 DEF QuietMove, Quiet
  <2>2. UNCHANGED <<rated, saved, list, count>>
    BY <1>5 DEF ConfirmLink, Calls, Registers, server, history
  <2>3. UNCHANGED <<shown, run>> \/ (shown' = {} /\ run' = [run EXCEPT !.excused = TRUE])
    BY <1>5 DEF ConfirmLink, Clear, KeepState, history
  <2>4. state' \in States /\ ChatTypes'
    BY <1>5 DEF ConfirmLink, Clear, KeepState, Asks, States, TypeOK, DialogueTypes, ChatTypes, Keyboards
  <2>5. {account', about'} \subseteq BOOLEAN /\ (about' => account')
    <3>1. (account' = TRUE /\ about' = about) \/ (account' = account /\ about' = about)
      BY <1>5 DEF ConfirmLink, Calls, Registers, server
    <3>2. account \in BOOLEAN /\ about \in BOOLEAN /\ (about => account)
      BY DEF TypeOK, ServerTypes
    <3>3. account' \in BOOLEAN /\ about' \in BOOLEAN
      BY <3>1, <3>2, Zenon
    <3>4. about' => account'
      BY <3>1, <3>2
    <3>5. QED
      BY <3>3, <3>4
  <2>6. updates' \in 0..MaxUpdates /\ troubles' \in 0..MaxTroubles
    BY <1>5, BotAssumption DEF ConfirmLink, Calls, Moves, Fine, Trouble, TypeOK, UpdateTypes
  <2>7. QED
    BY <2>1, <2>2, <2>3, <2>4, <2>5, <2>6 DEF Elsewhere
<1>6. ASSUME NEW s \in Slots, AboutReceived(s) PROVE Elsewhere
  <2> DEFINE next == [Idle EXCEPT !.at = "about", !.on = (state = "ob_about")]
  <2>1. QuietMove
    <3>2. next \in Quiet
      BY OffsetZero DEF Idle, Quiet, Updates, Steps, FeedSteps, Reacting
    <3> HIDE DEF next
    <3>3. upd[s] \in Updates /\ upd[s].at \notin FeedSteps \cup Reacting
      BY <1>6, RecordsOfSteps DEF AboutReceived, Arrives, At, Idle, FeedSteps, Reacting
    <3>4. upd' = [upd EXCEPT ![s] = next]
      BY <1>6 DEF AboutReceived, Arrives, Calls, Moves, next
    <3>6. QED
      BY <3>2, <3>3, <3>4 DEF QuietMove, Quiet
  <2>2. QED
    BY <1>6, <2>1, BotAssumption
    DEF Arrives, Moves, At, Fine, Trouble, Calls, Asks, ShowsCards, Clear, KeepState, Registers, server, history, States, TypeOK, DialogueTypes, ChatTypes, Keyboards, ServerTypes, UpdateTypes, Elsewhere, AboutReceived
<1>7. ASSUME NEW s \in Slots, SaveProfile(s) PROVE Elsewhere
  <2>1. QuietMove
    <3>1. Idle \in Quiet
      BY OffsetZero DEF Idle, Quiet, Updates, Steps, FeedSteps, Reacting
    <3>3. upd[s] \in Updates /\ upd[s].at \notin FeedSteps \cup Reacting
      BY <1>7, RecordsOfSteps DEF SaveProfile, Arrives, At, Idle, FeedSteps, Reacting
    <3>4. upd' = [upd EXCEPT ![s] = Idle] \/ upd' = [upd EXCEPT ![s] = Step(s, "about_saved")]
      BY <1>7 DEF SaveProfile, Arrives, Calls, Moves
    <3>5. \A at \in {"about_saved", "format_saved", "city_saved"} : Step(s, at) \in Quiet
      BY RecordsOfSteps DEF Quiet, Steps, FeedSteps, Reacting
    <3>6. QED
      BY <3>1, <3>3, <3>4, <3>5 DEF QuietMove, Quiet
  <2>2. UNCHANGED <<rated, saved, list, count>>
    BY <1>7 DEF SaveProfile, Calls, Registers, server, history
  <2>3. UNCHANGED <<shown, run>> \/ (shown' = {} /\ run' = [run EXCEPT !.excused = TRUE])
    BY <1>7 DEF SaveProfile, Clear, KeepState, history
  <2>4. state' \in States /\ ChatTypes'
    BY <1>7 DEF SaveProfile, Clear, KeepState, Asks, States, TypeOK, DialogueTypes, ChatTypes, Keyboards
  <2>5. {account', about'} \subseteq BOOLEAN /\ (about' => account')
    <3>1. (account /\ about' = TRUE /\ account' = account) \/ (account' = account /\ about' = about)
      BY <1>7 DEF SaveProfile, Calls, Registers, server
    <3>2. account \in BOOLEAN /\ about \in BOOLEAN /\ (about => account)
      BY DEF TypeOK, ServerTypes
    <3>3. account' \in BOOLEAN /\ about' \in BOOLEAN
      BY <3>1, <3>2, Zenon
    <3>4. about' => account'
      BY <3>1, <3>2
    <3>5. QED
      BY <3>3, <3>4
  <2>6. updates' \in 0..MaxUpdates /\ troubles' \in 0..MaxTroubles
    BY <1>7, BotAssumption DEF SaveProfile, Calls, Moves, Fine, Trouble, TypeOK, UpdateTypes
  <2>7. QED
    BY <2>1, <2>2, <2>3, <2>4, <2>5, <2>6 DEF Elsewhere
<1>8. ASSUME NEW s \in Slots, AboutSaved(s) PROVE Elsewhere
  <2>1. QuietMove
    <3>1. Idle \in Quiet
      BY OffsetZero DEF Idle, Quiet, Updates, Steps, FeedSteps, Reacting
    <3>3. upd[s] \in Updates /\ upd[s].at \notin FeedSteps \cup Reacting
      BY <1>8, RecordsOfSteps DEF AboutSaved, Arrives, At, Idle, FeedSteps, Reacting
    <3>4. upd' = [upd EXCEPT ![s] = Idle]
      BY <1>8 DEF AboutSaved, Arrives, Calls, Moves
    <3>6. QED
      BY <3>1, <3>3, <3>4 DEF QuietMove, Quiet
  <2>2. UNCHANGED <<rated, saved, list, count>>
    BY <1>8 DEF AboutSaved, Calls, Registers, server, history
  <2>3. UNCHANGED <<shown, run>> \/ (shown' = {} /\ run' = [run EXCEPT !.excused = TRUE])
    BY <1>8 DEF AboutSaved, Clear, KeepState, history
  <2>4. state' \in States /\ ChatTypes'
    BY <1>8 DEF AboutSaved, Clear, KeepState, Asks, States, TypeOK, DialogueTypes, ChatTypes, Keyboards
  <2>5. {account', about'} \subseteq BOOLEAN /\ (about' => account')
    BY <1>8 DEF AboutSaved, Calls, Registers, server, TypeOK, ServerTypes
  <2>6. updates' \in 0..MaxUpdates /\ troubles' \in 0..MaxTroubles
    BY <1>8, BotAssumption DEF AboutSaved, Calls, Moves, Fine, Trouble, TypeOK, UpdateTypes
  <2>7. QED
    BY <2>1, <2>2, <2>3, <2>4, <2>5, <2>6 DEF Elsewhere
<1>9. ASSUME NEW s \in Slots, FormatChosen(s) PROVE Elsewhere
  <2> DEFINE next == [Idle EXCEPT !.at = "format"]
  <2>1. QuietMove
    <3>2. next \in Quiet
      BY OffsetZero DEF Idle, Quiet, Updates, Steps, FeedSteps, Reacting
    <3> HIDE DEF next
    <3>3. upd[s] \in Updates /\ upd[s].at \notin FeedSteps \cup Reacting
      BY <1>9, RecordsOfSteps DEF FormatChosen, Arrives, At, Idle, FeedSteps, Reacting
    <3>4. upd' = [upd EXCEPT ![s] = next]
      BY <1>9 DEF FormatChosen, Arrives, Calls, Moves, next
    <3>6. QED
      BY <3>2, <3>3, <3>4 DEF QuietMove, Quiet
  <2>2. QED
    BY <1>9, <2>1, BotAssumption
    DEF Arrives, Moves, At, Fine, Trouble, Calls, Asks, ShowsCards, Clear, KeepState, Registers, server, history, States, TypeOK, DialogueTypes, ChatTypes, Keyboards, ServerTypes, UpdateTypes, Elsewhere, FormatChosen
<1>10. ASSUME NEW s \in Slots, UpdateSettings(s) PROVE Elsewhere
  <2>1. QuietMove
    <3>1. Idle \in Quiet
      BY OffsetZero DEF Idle, Quiet, Updates, Steps, FeedSteps, Reacting
    <3>3. upd[s] \in Updates /\ upd[s].at \notin FeedSteps \cup Reacting
      BY <1>10, RecordsOfSteps DEF UpdateSettings, Arrives, At, Idle, FeedSteps, Reacting
    <3>4. upd' = [upd EXCEPT ![s] = Idle] \/ upd' = [upd EXCEPT ![s] = Step(s, "format_saved")] \/ upd' = [upd EXCEPT ![s] = Step(s, "city_saved")]
      BY <1>10 DEF UpdateSettings, Arrives, Calls, Moves
    <3>5. \A at \in {"about_saved", "format_saved", "city_saved"} : Step(s, at) \in Quiet
      BY RecordsOfSteps DEF Quiet, Steps, FeedSteps, Reacting
    <3>6. QED
      BY <3>1, <3>3, <3>4, <3>5 DEF QuietMove, Quiet
  <2>2. QED
    BY <1>10, <2>1, BotAssumption
    DEF Arrives, Moves, At, Fine, Trouble, Calls, Asks, ShowsCards, Clear, KeepState, Registers, server, history, States, TypeOK, DialogueTypes, ChatTypes, Keyboards, ServerTypes, UpdateTypes, Elsewhere, UpdateSettings
<1>11. ASSUME NEW s \in Slots, FormatSaved(s) PROVE Elsewhere
  <2>1. QuietMove
    <3>1. Idle \in Quiet
      BY OffsetZero DEF Idle, Quiet, Updates, Steps, FeedSteps, Reacting
    <3>3. upd[s] \in Updates /\ upd[s].at \notin FeedSteps \cup Reacting
      BY <1>11, RecordsOfSteps DEF FormatSaved, Arrives, At, Idle, FeedSteps, Reacting
    <3>4. upd' = [upd EXCEPT ![s] = Idle]
      BY <1>11 DEF FormatSaved, Arrives, Calls, Moves
    <3>6. QED
      BY <3>1, <3>3, <3>4 DEF QuietMove, Quiet
  <2>2. QED
    BY <1>11, <2>1, BotAssumption
    DEF Arrives, Moves, At, Fine, Trouble, Calls, Asks, ShowsCards, Clear, KeepState, Registers, server, history, States, TypeOK, DialogueTypes, ChatTypes, Keyboards, ServerTypes, UpdateTypes, Elsewhere, FormatSaved
<1>12. ASSUME NEW s \in Slots, CityChosen(s) PROVE Elsewhere
  <2> DEFINE next == [Idle EXCEPT !.at = "city", !.on = InOnboarding]
  <2>1. QuietMove
    <3>1. InOnboarding \in BOOLEAN
      BY DEF InOnboarding
    <3>2. next \in Quiet
      BY <3>1, OffsetZero DEF Idle, Quiet, Updates, Steps, FeedSteps, Reacting
    <3> HIDE DEF next
    <3>3. upd[s] \in Updates /\ upd[s].at \notin FeedSteps \cup Reacting
      BY <1>12, RecordsOfSteps DEF CityChosen, Arrives, At, Idle, FeedSteps, Reacting
    <3>4. upd' = [upd EXCEPT ![s] = next]
      BY <1>12 DEF CityChosen, Arrives, Calls, Moves, next
    <3>6. QED
      BY <3>2, <3>3, <3>4 DEF QuietMove, Quiet
  <2>2. QED
    BY <1>12, <2>1, BotAssumption
    DEF Arrives, Moves, At, Fine, Trouble, Calls, Asks, ShowsCards, Clear, KeepState, Registers, server, history, States, TypeOK, DialogueTypes, ChatTypes, Keyboards, ServerTypes, UpdateTypes, Elsewhere, CityChosen
<1>13. ASSUME NEW s \in Slots, CityTyped(s) PROVE Elsewhere
  <2> DEFINE next == [Idle EXCEPT !.at = "city", !.on = (state = "ob_city_text"), !.typed = TRUE]
  <2>1. QuietMove
    <3>2. next \in Quiet
      BY OffsetZero DEF Idle, Quiet, Updates, Steps, FeedSteps, Reacting
    <3> HIDE DEF next
    <3>3. upd[s] \in Updates /\ upd[s].at \notin FeedSteps \cup Reacting
      BY <1>13, RecordsOfSteps DEF CityTyped, Arrives, At, Idle, FeedSteps, Reacting
    <3>4. upd' = [upd EXCEPT ![s] = next]
      BY <1>13 DEF CityTyped, Arrives, Calls, Moves, next
    <3>6. QED
      BY <3>2, <3>3, <3>4 DEF QuietMove, Quiet
  <2>2. QED
    BY <1>13, <2>1, BotAssumption
    DEF Arrives, Moves, At, Fine, Trouble, Calls, Asks, ShowsCards, Clear, KeepState, Registers, server, history, States, TypeOK, DialogueTypes, ChatTypes, Keyboards, ServerTypes, UpdateTypes, Elsewhere, CityTyped
<1>14. ASSUME OnboardingSkip PROVE Elsewhere
  BY <1>14, BotAssumption DEF Arrives, Moves, At, Fine, Trouble, Calls, Asks, ShowsCards, Clear, KeepState, Registers, server, history, States, TypeOK, DialogueTypes, ChatTypes, Keyboards, ServerTypes, UpdateTypes, Elsewhere, OnboardingSkip
<1>15. ASSUME CityOther PROVE Elsewhere
  BY <1>15, BotAssumption DEF Arrives, Moves, At, Fine, Trouble, Calls, Asks, ShowsCards, Clear, KeepState, Registers, server, history, States, TypeOK, DialogueTypes, ChatTypes, Keyboards, ServerTypes, UpdateTypes, Elsewhere, CityOther
<1>16. ASSUME SettingsAbout PROVE Elsewhere
  BY <1>16, BotAssumption DEF Arrives, Moves, At, Fine, Trouble, Calls, Asks, ShowsCards, Clear, KeepState, Registers, server, history, States, TypeOK, DialogueTypes, ChatTypes, Keyboards, ServerTypes, UpdateTypes, Elsewhere, SettingsAbout
<1>17. ASSUME NEW keyboard \in {"settings", "format", "city"}, Settings(keyboard) PROVE Elsewhere
  <2>1. UNCHANGED <<rated, saved, list, count, upd, account, about>>
        /\ shown' = {} /\ run' = [run EXCEPT !.excused = TRUE]
    BY <1>17 DEF Settings, Clear, server
  <2>2. state' \in States /\ ChatTypes'
    BY <1>17 DEF Settings, Clear, Asks, States, TypeOK, ChatTypes, Keyboards
  <2>3. updates' \in 0..MaxUpdates /\ troubles' \in 0..MaxTroubles
    BY <1>17, BotAssumption DEF Settings, TypeOK, UpdateTypes
  <2>4. QED
    BY <2>1, <2>2, <2>3 DEF Elsewhere, TypeOK, ServerTypes
<1>18. ASSUME NEW es \in SUBSET Events, ShowCards(es) PROVE Elsewhere
  BY <1>18, BotAssumption DEF Arrives, Moves, At, Fine, Trouble, Calls, Asks, ShowsCards, Clear, KeepState, Registers, server, history, States, TypeOK, DialogueTypes, ChatTypes, Keyboards, ServerTypes, UpdateTypes, Elsewhere, ShowCards
<1>19. ASSUME NEW s \in Slots, NEW offset \in Offsets, CountSaved(s, offset) PROVE Elsewhere
  <2> DEFINE next == [Idle EXCEPT !.at = "saved", !.offset = offset, !.total = Len(saved)]
  <2>1. QuietMove
    <3>1. Len(saved) \in Offsets
      BY LengthIsOffset
    <3>2. next \in Quiet
      BY <3>1 DEF Idle, Quiet, Updates, Steps, FeedSteps, Reacting
    <3> HIDE DEF next
    <3>3. upd[s] \in Updates /\ upd[s].at \notin FeedSteps \cup Reacting
      BY <1>19, RecordsOfSteps DEF CountSaved, Arrives, Idle, FeedSteps, Reacting
    <3>4. upd' = [upd EXCEPT ![s] = next]
      BY <1>19 DEF CountSaved, Arrives, next
    <3>5. QED
      BY <3>2, <3>3, <3>4 DEF QuietMove, Quiet
  <2>2. updates' \in 0..MaxUpdates
    BY <1>19, BotAssumption DEF CountSaved, Arrives, TypeOK, UpdateTypes
  <2>3. QED
    BY <1>19, <2>1, <2>2 DEF CountSaved, server, history, TypeOK, DialogueTypes, ChatTypes,
                             ServerTypes, UpdateTypes, Elsewhere
<1>20. QED
  BY <1>1, <1>2, <1>3, <1>4, <1>5, <1>6, <1>7, <1>8, <1>9, <1>10, <1>11, <1>12, <1>13, <1>14,
     <1>15, <1>16, <1>17, <1>18, <1>19

(* What the other handlers do, part by part.                               *)

FeedShows(s, seen, page) ==
  /\ chat' = [chat EXCEPT !.cards = @ \cup page]
  /\ \/ /\ page = {} /\ run' = run
        /\ upd' = [upd EXCEPT ![s] = Idle]
     \/ \E last \in BOOLEAN :
          /\ upd' = [upd EXCEPT ![s] = [upd[s] EXCEPT
                       !.at = "keep", !.page = seen \cup page, !.last = last]]
          /\ run' = IF upd[s].on
                    THEN [shown |-> page, again |-> FALSE, excused |-> InFeed # {s}]
                    ELSE [run EXCEPT !.shown = @ \cup page,
                                     !.again = @ \/ page \cap run.shown # {}]

LEMMA ShowFeedShows ==
  ASSUME TypeOK, NEW s \in Slots, ShowFeed(s)
  PROVE  \E seen, page \in SUBSET Events :
           /\ seen = IF upd[s].on THEN {} ELSE shown
           /\ page \cap seen = {}
           /\ FeedShows(s, seen, page)
<1> DEFINE seen == IF upd[s].on THEN {} ELSE shown
           items == upd[s].page
<1>1. seen \in SUBSET Events /\ items \in SUBSET Events
  BY RecordsOfSteps DEF TypeOK, DialogueTypes, Updates
<1>2. PICK page \in NextFeedPage(items, seen) :
        /\ Moves(s, IF page = {} THEN Idle
                    ELSE [upd[s] EXCEPT !.at = "keep", !.page = seen \cup page,
                                        !.last = (items \subseteq seen \cup page)])
        /\ ShowsCards(page)
        /\ run' = IF page = {} THEN run
                  ELSE IF upd[s].on THEN [shown |-> page, again |-> FALSE,
                                     excused |-> InFeed # {s}]
                  ELSE [run EXCEPT !.shown = @ \cup page,
                                   !.again = @ \/ page \cap run.shown # {}]
  BY DEF ShowFeed
<1>3. page \in SUBSET Events /\ page \cap seen = {}
  BY <1>1 DEF NextFeedPage
<1>4. (items \subseteq seen \cup page) \in BOOLEAN
  OBVIOUS
<1> HIDE DEF items
<1>5. CASE page = {}
  BY <1>1, <1>2, <1>3, <1>5 DEF Moves, ShowsCards, FeedShows
<1>6. CASE page # {}
  <2> DEFINE last == items \subseteq seen \cup page
  <2>1. last \in BOOLEAN
    BY <1>4
  <2>2. upd' = [upd EXCEPT ![s] = [upd[s] EXCEPT
                  !.at = "keep", !.page = seen \cup page, !.last = last]]
    BY <1>2, <1>6 DEF Moves
  <2> HIDE DEF last
  <2>3. QED
    BY <1>1, <1>2, <1>3, <1>6, <2>1, <2>2 DEF ShowsCards, FeedShows
<1>7. QED
  BY <1>5, <1>6

(* A page of the saved list: what of it is shown, and what is left.        *)
PageOfSaved(offset, next, ends, cut, es) ==
  /\ next >= offset
  /\ es \subseteq Range(saved)
  /\ \A i \in DOMAIN saved : offset < i /\ i <= next => saved[i] \in es
  /\ ends /\ ~cut => \A i \in DOMAIN saved : i <= next

LEMMA PageFromProperties ==
  ASSUME TypeOK, NEW offset \in Offsets
  PROVE  /\ PageFrom(offset) \in Seq(Events)
         /\ NextOffset(offset, PageFrom(offset)) \in Offsets
         /\ NextOffset(offset, PageFrom(offset)) >= offset
         /\ \A i \in DOMAIN PageFrom(offset) : PageFrom(offset)[i] \in Range(saved)
         /\ \A i \in DOMAIN saved : offset < i /\ i <= NextOffset(offset, PageFrom(offset))
                                    => saved[i] \in Range(PageFrom(offset))
         /\ PageFrom(offset) = <<>> =>
              /\ NextOffset(offset, PageFrom(offset)) = offset
              /\ offset >= Len(saved)
<1> DEFINE last == IF offset + SavedPage < Len(saved) THEN offset + SavedPage ELSE Len(saved)
           page == PageFrom(offset)
           next == NextOffset(offset, page)
<1>1. /\ saved \in Seq(Events) /\ Len(saved) \in Nat /\ Len(saved) <= Cardinality(Events)
      /\ DOMAIN saved = 1..Len(saved)
      /\ Cardinality(Events) \in Nat /\ offset \in 0..Cardinality(Events)
      /\ SavedPage \in Nat \ {0}
  BY SavedIsShort, BotAssumption, FS_CardinalityType DEF TypeOK, ServerTypes, Offsets
<1>2. last \in 0..Len(saved) /\ page = SubSeq(saved, offset + 1, last)
  BY <1>1 DEF PageFrom
<1>3. CASE offset >= Len(saved)
  <2>1. offset + 1 \in Int /\ last \in Int /\ offset + 1 > last
    BY <1>1, <1>2, <1>3
  <2> HIDE DEF last
  <2>2. page = <<>>
    BY <1>2, <2>1, SubSeqEmpty
  <2> HIDE DEF page
  <2>3. page \in Seq(Events) /\ Len(page) = 0 /\ DOMAIN page = {}
    BY <2>2
  <2>4. next = offset
    BY <1>1, <2>3 DEF NextOffset
  <2> HIDE DEF next
  <2>5. \A i \in DOMAIN saved : ~(offset < i /\ i <= next)
    BY <1>1, <2>4
  <2>6. QED
    BY <1>1, <1>3, <2>3, <2>4, <2>5 DEF page, next
<1>4. CASE offset < Len(saved)
  <2>1. offset + 1 \in 1..Len(saved) /\ last \in offset + 1..Len(saved)
    BY <1>1, <1>2, <1>4
  <2> HIDE DEF last
  <2>2. /\ page \in Seq(Events) /\ Len(page) = last - offset
        /\ \A i \in 1..last - offset : page[i] = saved[offset + i]
    <3>1. /\ page \in Seq(Events)
          /\ Len(page) = IF offset + 1 <= last THEN last - (offset + 1) + 1 ELSE 0
          /\ \A i \in 1..last - (offset + 1) + 1 : page[i] = saved[(offset + 1) + i - 1]
      BY <1>1, <1>2, <2>1, SubSeqProperties
    <3>2. last - (offset + 1) + 1 = last - offset
      BY <1>1, <2>1
    <3>3. \A i \in 1..last - offset : (offset + 1) + i - 1 = offset + i
      BY <1>1, <2>1
    <3>4. QED
      BY <3>1, <3>2, <3>3, <2>1, <1>1
  <2> HIDE DEF page
  <2>3. next = last /\ page # <<>>
    <3>1. next = last
      BY <2>1, <2>2, <1>1 DEF NextOffset
    <3>2. Len(page) # 0
      BY <2>1, <2>2, <1>1
    <3>3. page # <<>>
      BY <3>2
    <3>4. QED
      BY <3>1, <3>3
  <2> HIDE DEF next
  <2>4. DOMAIN page = 1..last - offset
    BY <2>2
  <2>5. \A i \in DOMAIN saved : offset < i /\ i <= next => saved[i] \in Range(page)
    <3> SUFFICES ASSUME NEW i \in DOMAIN saved, offset < i, i <= next
                 PROVE  saved[i] \in Range(page)
      OBVIOUS
    <3>1. i - offset \in 1..last - offset /\ offset + (i - offset) = i
      BY <1>1, <2>1, <2>3
    <3>2. QED
      BY <3>1, <2>2, <2>4 DEF Range
  <2>6. ASSUME NEW i \in DOMAIN page PROVE page[i] \in Range(saved)
    <3>1. i \in 1..last - offset
      BY <2>4
    <3>2. offset + i \in 1..Len(saved)
      BY <3>1, <1>1, <2>1
    <3>3. QED
      BY <3>1, <3>2, <1>1, <2>2 DEF Range
  <2>7. next \in Offsets /\ next >= offset
    BY <2>1, <1>1, <2>3 DEF Offsets
  <2>8. QED
    BY <2>2, <2>3, <2>5, <2>6, <2>7 DEF page, next
<1>5. offset >= Len(saved) \/ offset < Len(saved)
  <2>1. offset \in Nat /\ Len(saved) \in Nat
    BY <1>1
  <2>2. QED
    BY <2>1
<1>6. QED
  BY <1>3, <1>4, <1>5

LEMMA ShowSavedShows ==
  ASSUME TypeOK, NEW s \in Slots, ShowSaved(s)
  PROVE  \E next \in Offsets, ends, cut \in BOOLEAN, es \in SUBSET Events :
           /\ SavedSent(upd[s].offset, es, next, ends, cut)
           /\ PageOfSaved(upd[s].offset, next, ends, cut, es)
<1> DEFINE offset == upd[s].offset
           total == upd[s].total
           page == PageFrom(offset)
           next == NextOffset(offset, page)
           ends == page = <<>> \/ next >= total
           cut == total < Len(saved)
<1>1. offset \in Offsets /\ total \in Offsets /\ Len(saved) \in Offsets
  BY RecordsOfSteps, LengthIsOffset DEF Updates
<1>2. ends \in BOOLEAN /\ cut \in BOOLEAN
  OBVIOUS
<1>3. \/ SavedSent(offset, Range(page), next, ends, cut)
      \/ \E n \in 0..Len(page) : SavedSent(offset, {page[i] : i \in 1..n}, offset, TRUE, TRUE)
  BY DEF ShowSaved
<1>4. Offsets \subseteq Nat /\ DOMAIN saved = 1..Len(saved) /\ Range(saved) \subseteq Events
  BY FS_CardinalityType, BotAssumption DEF Offsets, TypeOK, ServerTypes, Range
<1> HIDE DEF offset, total
<1>5. /\ page \in Seq(Events) /\ next \in Offsets /\ next >= offset
      /\ \A i \in DOMAIN page : page[i] \in Range(saved)
      /\ \A i \in DOMAIN saved : offset < i /\ i <= next => saved[i] \in Range(page)
      /\ page = <<>> => next = offset /\ offset >= Len(saved)
  BY <1>1, PageFromProperties
<1> HIDE DEF page, next
<1>6. DOMAIN page = 1..Len(page) /\ Len(page) \in Nat
  BY <1>5
<1>7. CASE SavedSent(offset, Range(page), next, ends, cut)
  <2>1. Range(page) \subseteq Range(saved)
    BY <1>5 DEF Range
  <2>2. ASSUME ends, ~cut PROVE next >= Len(saved)
    <3>1. CASE page = <<>>
      BY <3>1, <1>5
    <3>2. CASE next >= total
      BY <3>2, <2>2, <1>1, <1>4, <1>5
    <3>3. QED
      BY <2>2, <3>1, <3>2
  <2>3. ends /\ ~cut => \A i \in DOMAIN saved : i <= next
    BY <2>2, <1>1, <1>4, <1>5
  <2> HIDE DEF ends, cut
  <2>4. PageOfSaved(offset, next, ends, cut, Range(page))
    BY <1>5, <2>1, <2>3 DEF PageOfSaved
  <2>5. QED
    BY <1>2, <1>4, <1>5, <1>7, <2>1, <2>4 DEF offset
<1>8. ASSUME NEW n \in 0..Len(page),
             SavedSent(offset, {page[i] : i \in 1..n}, offset, TRUE, TRUE)
      PROVE  \E es \in SUBSET Events : /\ SavedSent(offset, es, offset, TRUE, TRUE)
                                       /\ PageOfSaved(offset, offset, TRUE, TRUE, es)
  <2> DEFINE es == {page[i] : i \in 1..n}
  <2>1. \A i \in 1..n : i \in DOMAIN page
    BY <1>6
  <2>2. es \subseteq Range(saved)
    BY <1>5, <2>1
  <2> HIDE DEF es
  <2>3. offset >= offset /\ \A i \in DOMAIN saved : ~(offset < i /\ i <= offset)
    BY <1>1, <1>4
  <2>4. PageOfSaved(offset, offset, TRUE, TRUE, es)
    BY <2>2, <2>3 DEF PageOfSaved
  <2>5. SavedSent(offset, es, offset, TRUE, TRUE)
    BY <1>8 DEF es
  <2>6. QED
    BY <1>4, <2>2, <2>4, <2>5
<1>9. QED
  BY <1>1, <1>3, <1>7, <1>8 DEF offset

(* A reaction that is recorded, and an event that is removed.              *)
LEMMA RecordsRecords ==
  ASSUME TypeOK, NEW e \in Events, Records(e)
  PROVE  /\ account /\ account' = account /\ about' = about
         /\ rated' = [rated EXCEPT ![e] = @ + 1]
         /\ \/ UNCHANGED <<saved, list>>
            \/ /\ saved' = <<e>> \o Without(saved, e)
               /\ saved' \in Seq(Events) /\ IsInjective(saved')
               /\ Range(saved') = Range(saved) \cup {e}
               /\ \A i \in DOMAIN saved' :
                    saved'[i] = e \/ \E j \in {i - 1, i} : j \in DOMAIN saved /\ saved[j] = saved'[i]
               /\ list' = [list EXCEPT !.moved = @ \/ e \in list.stable]
<1>1. saved \in Seq(Events) /\ IsInjective(saved)
  BY DEF TypeOK, ServerTypes
<1> DEFINE rest == Without(saved, e)
           all == <<e>> \o rest
<1>2. /\ rest \in Seq(Events) /\ IsInjective(rest) /\ Range(rest) = Range(saved) \ {e}
      /\ \A i \in DOMAIN rest : \E j \in {i, i + 1} : j \in DOMAIN saved /\ saved[j] = rest[i]
  BY <1>1, WithoutProperties
<1> HIDE DEF rest
<1>3. /\ all \in Seq(Events) /\ IsInjective(all) /\ Range(all) = Range(rest) \cup {e}
      /\ \A i \in DOMAIN all : all[i] = e \/ (i - 1 \in DOMAIN rest /\ rest[i - 1] = all[i])
  BY <1>2, InFrontProperties
<1>4. e \in Range(all)
  BY <1>3
<1>5. Range(all) = Range(saved) \cup {e}
  BY <1>2, <1>3
<1>6. \A i \in DOMAIN all :
        all[i] = e \/ \E j \in {i - 1, i} : j \in DOMAIN saved /\ saved[j] = all[i]
  <2> SUFFICES ASSUME NEW i \in DOMAIN all, all[i] # e
               PROVE  \E j \in {i - 1, i} : j \in DOMAIN saved /\ saved[j] = all[i]
    OBVIOUS
  <2>1. i - 1 \in DOMAIN rest /\ rest[i - 1] = all[i]
    BY <1>3
  <2>2. PICK j \in {i - 1, (i - 1) + 1} : j \in DOMAIN saved /\ saved[j] = rest[i - 1]
    BY <1>2, <2>1
  <2>3. i \in Int
    BY <1>3
  <2>4. QED
    BY <2>1, <2>2, <2>3
<1> HIDE DEF all
<1>7. CASE UNCHANGED <<saved, list>>
  BY <1>7 DEF Records
<1>8. CASE saved' = all /\ list' = [list EXCEPT !.moved = @ \/ e \in list.stable]
  <2>1. saved' = <<e>> \o Without(saved, e)
    BY <1>8 DEF all, rest
  <2>2. account /\ account' = account /\ about' = about /\ rated' = [rated EXCEPT ![e] = @ + 1]
    BY DEF Records
  <2>3. QED
    BY <1>3, <1>5, <1>6, <1>8, <2>1, <2>2
<1>9. QED
  BY <1>7, <1>8 DEF Records, all, rest

(* How an update that records a reaction goes on.                          *)
LEMMA ReactMoves ==
  ASSUME TypeOK, PressesHaveEvents, NEW s \in Slots, React(s)
  PROVE  \E e \in Events, next \in Updates :
           /\ e = upd[s].event /\ upd[s].at \in {"react", "react_again"}
           /\ upd' = [upd EXCEPT ![s] = next] /\ UNCHANGED updates
           /\ next = Idle \/ (next.at = "register" /\ next.event = e)
           /\ troubles' \in 0..MaxTroubles
           /\ \/ Records(e) /\ Answered(e) /\ next = Idle
              \/ Records(e) /\ AnsweredLate(e)
              \/ UNCHANGED <<server, list, count>>
<1> DEFINE e == upd[s].event
           next == NextTry(s)
<1>1. upd[s].at \in {"react", "react_again"} /\ e \in Events
  BY DEF React, At, PressesHaveEvents, Reacting
<1>2. upd[s] \in Updates /\ Idle \in Updates
  BY RecordsOfSteps, OffsetZero DEF Idle, Updates, Steps
<1>3. next \in Updates /\ (next = Idle \/ (next.at = "register" /\ next.event = e))
  <2>1. Step(s, "register") \in Updates /\ Step(s, "register").at = "register"
    BY RecordsOfSteps DEF Steps
  <2>2. Step(s, "register").event = e
    BY <1>2 DEF Step, Updates
  <2> HIDE DEF e
  <2>3. QED
    BY <1>2, <2>1, <2>2 DEF NextTry
<1> HIDE DEF next
<1>4. troubles' \in 0..MaxTroubles
  BY BotAssumption DEF React, Fine, Trouble, TypeOK, UpdateTypes
<1>5. \/ Records(e) /\ Answered(e) /\ Moves(s, Idle)
      \/ Records(e) /\ AnsweredLate(e) /\ Moves(s, next)
      \/ UNCHANGED <<server, list, count>> /\ Moves(s, next)
  BY DEF React, next
<1> HIDE DEF e
<1>6. QED
  <2>1. CASE Records(e) /\ Answered(e) /\ Moves(s, Idle)
    BY <1>1, <1>2, <1>4, <2>1 DEF Moves, e
  <2>2. CASE Records(e) /\ AnsweredLate(e) /\ Moves(s, next)
    BY <1>1, <1>3, <1>4, <2>2 DEF Moves, e
  <2>3. CASE UNCHANGED <<server, list, count>> /\ Moves(s, next)
    BY <1>1, <1>3, <1>4, <2>3 DEF Moves, e
  <2>4. QED
    BY <1>5, <2>1, <2>2, <2>3

-----------------------------------------------------------------------------
(* Every step keeps the types.                                             *)

LEMMA UpdateTypesKept ==
  ASSUME TypeOK, NEW s \in Slots, NEW next \in Updates, upd' = [upd EXCEPT ![s] = next],
         updates' \in 0..MaxUpdates, troubles' \in 0..MaxTroubles
  PROVE  UpdateTypes'
BY DEF TypeOK, UpdateTypes

LEMMA ElsewhereKeepsTypes == ASSUME TypeOK, Elsewhere PROVE TypeOK'
<1>1. UpdateTypes'
  <2>1. CASE UNCHANGED upd
    BY <2>1 DEF Elsewhere, TypeOK, UpdateTypes
  <2>2. CASE QuietMove
    BY <2>2, UpdateTypesKept DEF Elsewhere, QuietMove, Quiet
  <2>3. QED
    BY <2>1, <2>2 DEF Elsewhere
<1>2. DialogueTypes'
  BY DEF Elsewhere, TypeOK, DialogueTypes
<1>3. ServerTypes'
  BY DEF Elsewhere, TypeOK, ServerTypes
<1>4. CountTypes'
  BY DEF Elsewhere, TypeOK, CountTypes
<1>5. QED
  BY <1>1, <1>2, <1>3, <1>4 DEF Elsewhere, TypeOK

LEMMA RecordsKeepsServerTypes ==
  ASSUME TypeOK, NEW e \in Events, Records(e)
  PROVE  ServerTypes' /\ list' \in [next : Offsets, shown : SUBSET Events,
           stable : SUBSET Events, moved : BOOLEAN, ended : BOOLEAN, cut : BOOLEAN]
<1>1. saved' \in Seq(Events) /\ IsInjective(saved')
  BY RecordsRecords DEF TypeOK, ServerTypes
<1>2. rated' \in [Events -> Nat] /\ account' = account /\ about' = about
  <2>1. rated' = [rated EXCEPT ![e] = @ + 1] /\ account' = account /\ about' = about
    BY RecordsRecords
  <2>2. QED
    BY <2>1 DEF TypeOK, ServerTypes
<1>3. list' = list \/ list' = [list EXCEPT !.moved = @ \/ e \in list.stable]
  BY RecordsRecords
<1>4. list' \in [next : Offsets, shown : SUBSET Events, stable : SUBSET Events,
                 moved : BOOLEAN, ended : BOOLEAN, cut : BOOLEAN]
  BY <1>3 DEF TypeOK, CountTypes
<1>5. QED
  BY <1>1, <1>2, <1>4 DEF TypeOK, ServerTypes

LEMMA TypesKept ==
  ASSUME TypeOK, PressesHaveEvents, [Next]_vars
  PROVE  TypeOK'
<1>1. ASSUME NEW s \in Slots, CitySaved(s) PROVE TypeOK'
  <2> DEFINE next == IF upd[s].on THEN [Idle EXCEPT !.at = "feed", !.on = TRUE] ELSE Idle
  <2>1. next \in Updates
    BY OffsetZero DEF Idle, Updates, Steps
  <2>2. upd' = [upd EXCEPT ![s] = next] /\ UNCHANGED <<updates, troubles>>
    BY <1>1 DEF CitySaved, Moves
  <2> HIDE DEF next
  <2>3. UpdateTypes'
    BY <2>1, <2>2, UpdateTypesKept DEF TypeOK, UpdateTypes
  <2>4. DialogueTypes'
    BY <1>1 DEF CitySaved, Clear, KeepState, TypeOK, DialogueTypes, States
  <2>5. ChatTypes' /\ ServerTypes' /\ CountTypes'
    BY <1>1 DEF CitySaved, server, TypeOK, ChatTypes, ServerTypes, CountTypes
  <2>6. QED
    BY <2>3, <2>4, <2>5 DEF TypeOK
<1>2. ASSUME NEW s \in Slots, NEW anew \in BOOLEAN, Feed(s, anew) PROVE TypeOK'
  <2> DEFINE next == [Idle EXCEPT !.at = "feed", !.on = anew]
  <2>1. next \in Updates
    BY OffsetZero DEF Idle, Updates, Steps
  <2>2. upd' = [upd EXCEPT ![s] = next] /\ UNCHANGED troubles
    BY <1>2 DEF Feed, Arrives
  <2> HIDE DEF next
  <2>3. updates' \in 0..MaxUpdates
    BY <1>2, BotAssumption DEF Feed, Arrives, TypeOK, UpdateTypes
  <2>4. UpdateTypes'
    BY <2>1, <2>2, <2>3, UpdateTypesKept DEF TypeOK, UpdateTypes
  <2>5. DialogueTypes'
    BY <1>2 DEF Feed, TypeOK, DialogueTypes
  <2>6. ChatTypes' /\ ServerTypes' /\ CountTypes'
    BY <1>2 DEF Feed, server, TypeOK, ChatTypes, ServerTypes, CountTypes
  <2>7. QED
    BY <2>4, <2>5, <2>6 DEF TypeOK
<1>3. ASSUME NEW s \in Slots, FetchFeed(s) PROVE TypeOK'
  <2>1. PICK next \in Updates : upd' = [upd EXCEPT ![s] = next] /\ UNCHANGED updates
    <3>1. Recommended \in SUBSET Events /\ upd[s] \in Updates
      BY RecordsOfSteps DEF Recommended
    <3> DEFINE full == [upd[s] EXCEPT !.at = "cards", !.page = Recommended]
               empty == [upd[s] EXCEPT !.at = "cards"]
    <3>2. full \in Updates /\ empty \in Updates
      BY <3>1 DEF Updates, Steps
    <3>3. (Moves(s, full) \/ Moves(s, empty))
      BY <1>3 DEF FetchFeed
    <3> HIDE DEF full, empty
    <3>4. QED
      BY <3>2, <3>3 DEF Moves
  <2>2. troubles' \in 0..MaxTroubles
    <3>1. Fine \/ Trouble
      BY <1>3 DEF FetchFeed
    <3>2. QED
      BY <3>1, BotAssumption DEF Fine, Trouble, TypeOK, UpdateTypes
  <2>3. UpdateTypes'
    BY <2>1, <2>2, UpdateTypesKept DEF TypeOK, UpdateTypes
  <2>4. ServerTypes'
    <3>1. UNCHANGED <<about, rated, saved>> /\ (account' = TRUE \/ account' = account)
      BY <1>3 DEF FetchFeed
    <3>2. QED
      BY <3>1 DEF TypeOK, ServerTypes
  <2>5. DialogueTypes' /\ ChatTypes' /\ CountTypes'
    BY <1>3 DEF FetchFeed, history, TypeOK, DialogueTypes, ChatTypes, CountTypes
  <2>6. QED
    BY <2>3, <2>4, <2>5 DEF TypeOK
<1>4. ASSUME NEW s \in Slots, ShowFeed(s) PROVE TypeOK'
  <2>1. PICK seen \in SUBSET Events, page \in SUBSET Events : FeedShows(s, seen, page)
    BY <1>4, ShowFeedShows
  <2>2. UNCHANGED <<state, shown, server, troubles, list, count, updates>>
    BY <1>4 DEF ShowFeed, Moves
  <2>3. ChatTypes'
    BY <2>1 DEF FeedShows, TypeOK, ChatTypes
  <2>4. run' \in [shown : SUBSET Events, again : BOOLEAN, excused : BOOLEAN]
    <3>1. CASE run' = run
      BY <3>1 DEF TypeOK, DialogueTypes
    <3>2. CASE run' = [shown |-> page, again |-> FALSE, excused |-> InFeed # {s}]
      BY <3>2
    <3>3. CASE run' = [run EXCEPT !.shown = @ \cup page,
                                  !.again = @ \/ page \cap run.shown # {}]
      BY <3>3 DEF TypeOK, DialogueTypes
    <3>4. QED
      BY <2>1, <3>1, <3>2, <3>3 DEF FeedShows
  <2>5. PICK next \in Updates : upd' = [upd EXCEPT ![s] = next]
    <3>1. upd[s] \in Updates /\ Idle \in Updates
      BY RecordsOfSteps, OffsetZero DEF Idle, Updates, Steps
    <3>2. \A last \in BOOLEAN :
            [upd[s] EXCEPT !.at = "keep", !.page = seen \cup page, !.last = last] \in Updates
      BY <3>1 DEF Updates, Steps
    <3>3. QED
      BY <2>1, <3>1, <3>2 DEF FeedShows
  <2>6. UpdateTypes'
    BY <2>2, <2>5, UpdateTypesKept DEF TypeOK, UpdateTypes
  <2>7. ServerTypes' /\ CountTypes' /\ DialogueTypes'
    BY <2>2, <2>4 DEF server, TypeOK, ServerTypes, CountTypes, DialogueTypes
  <2>8. QED
    BY <2>3, <2>6, <2>7 DEF TypeOK
<1>5. ASSUME NEW s \in Slots, KeepShown(s) PROVE TypeOK'
  <2>1. Idle \in Updates /\ upd' = [upd EXCEPT ![s] = Idle] /\ UNCHANGED updates
    BY <1>5, OffsetZero DEF KeepShown, Moves, Idle, Updates, Steps
  <2>2. troubles' \in 0..MaxTroubles
    BY <1>5, BotAssumption DEF KeepShown, Fine, Trouble, TypeOK, UpdateTypes
  <2>3. UpdateTypes'
    BY <2>1, <2>2, UpdateTypesKept DEF TypeOK, UpdateTypes
  <2>4. upd[s].page \in SUBSET Events
    BY RecordsOfSteps DEF Updates
  <2>5. shown' \in SUBSET Events
    BY <1>5, <2>4 DEF KeepShown, TypeOK, DialogueTypes
  <2>6. run' = run \/ run' = [run EXCEPT !.excused = TRUE]
    BY <1>5 DEF KeepShown
  <2>7. DialogueTypes'
    BY <1>5, <2>5, <2>6 DEF KeepShown, TypeOK, DialogueTypes
  <2>8. ChatTypes'
    BY <1>5 DEF KeepShown, Asks, TypeOK, ChatTypes, Keyboards
  <2>9. ServerTypes' /\ CountTypes'
    BY <1>5 DEF KeepShown, server, TypeOK, ServerTypes, CountTypes
  <2>10. QED
    BY <2>3, <2>7, <2>8, <2>9 DEF TypeOK
<1>6. ASSUME NEW s \in Slots, NEW e \in Events, OnFeedback(s, e) PROVE TypeOK'
  <2> DEFINE next == [Idle EXCEPT !.at = "react", !.event = e]
  <2>1. next \in Updates
    BY OffsetZero DEF Idle, Updates, Steps
  <2>2. upd' = [upd EXCEPT ![s] = next] /\ UNCHANGED troubles
    BY <1>6 DEF OnFeedback, Arrives
  <2> HIDE DEF next
  <2>3. updates' \in 0..MaxUpdates
    BY <1>6, BotAssumption DEF OnFeedback, Arrives, TypeOK, UpdateTypes
  <2>4. UpdateTypes'
    BY <2>1, <2>2, <2>3, UpdateTypesKept DEF TypeOK, UpdateTypes
  <2>5. CountTypes'
    BY <1>6 DEF OnFeedback, TypeOK, CountTypes
  <2>6. ChatTypes' /\ ServerTypes' /\ DialogueTypes'
    BY <1>6 DEF OnFeedback, server, TypeOK, ChatTypes, ServerTypes, DialogueTypes
  <2>7. QED
    BY <2>4, <2>5, <2>6 DEF TypeOK
<1>7. ASSUME NEW s \in Slots, React(s) PROVE TypeOK'
  <2>1. PICK e \in Events, next \in Updates :
          /\ upd' = [upd EXCEPT ![s] = next] /\ UNCHANGED updates
          /\ troubles' \in 0..MaxTroubles
          /\ \/ Records(e) /\ Answered(e)
             \/ Records(e) /\ AnsweredLate(e)
             \/ UNCHANGED <<server, list, count>>
    BY <1>7, ReactMoves
  <2>2. UpdateTypes'
    BY <2>1, UpdateTypesKept DEF TypeOK, UpdateTypes
  <2>3. count' \in [Events -> [may : Nat, told : Nat]]
    BY <2>1 DEF Answered, AnsweredLate, TypeOK, CountTypes
  <2>4. ServerTypes' /\ CountTypes'
    <3>1. CASE Records(e)
      BY <2>3, <3>1, RecordsKeepsServerTypes DEF CountTypes
    <3>2. CASE UNCHANGED <<server, list, count>>
      BY <3>2 DEF server, TypeOK, ServerTypes, CountTypes
    <3>3. QED
      BY <2>1, <3>1, <3>2
  <2>5. DialogueTypes' /\ ChatTypes'
    BY <1>7 DEF React, TypeOK, DialogueTypes, ChatTypes
  <2>6. QED
    BY <2>2, <2>4, <2>5 DEF TypeOK
<1>8. ASSUME NEW s \in Slots, EnsureAccount(s) PROVE TypeOK'
  <2>1. PICK next \in Updates : upd' = [upd EXCEPT ![s] = next] /\ UNCHANGED updates
    <3>1. Idle \in Updates /\ Step(s, "react_again") \in Updates
      BY RecordsOfSteps, OffsetZero DEF Idle, Updates, Steps
    <3>2. QED
      BY <1>8, <3>1 DEF EnsureAccount, Calls, Moves
  <2>2. troubles' \in 0..MaxTroubles
    BY <1>8, BotAssumption DEF EnsureAccount, Calls, Fine, Trouble, TypeOK, UpdateTypes
  <2>3. UpdateTypes'
    BY <2>1, <2>2, UpdateTypesKept DEF TypeOK, UpdateTypes
  <2>4. UNCHANGED <<about, rated, saved>> /\ (account' = TRUE \/ account' = account)
    BY <1>8 DEF EnsureAccount, Calls, Registers, server
  <2>5. ServerTypes'
    BY <2>4 DEF TypeOK, ServerTypes
  <2>6. DialogueTypes' /\ ChatTypes' /\ CountTypes'
    BY <1>8 DEF EnsureAccount, history, TypeOK, DialogueTypes, ChatTypes, CountTypes
  <2>7. QED
    BY <2>3, <2>5, <2>6 DEF TypeOK
<1>9. ASSUME NEW e \in Events, Unsave(e) PROVE TypeOK'
  <2>1. saved' \in Seq(Events) /\ IsInjective(saved')
    BY <1>9, WithoutProperties DEF Unsave, TypeOK, ServerTypes
  <2>2. ServerTypes'
    BY <1>9, <2>1 DEF Unsave, TypeOK, ServerTypes
  <2>3. updates' \in 0..MaxUpdates
    BY <1>9, BotAssumption DEF Unsave, TypeOK, UpdateTypes
  <2>4. UpdateTypes'
    BY <1>9, <2>3 DEF Unsave, TypeOK, UpdateTypes
  <2>5. CountTypes'
    BY <1>9 DEF Unsave, TypeOK, CountTypes
  <2>6. DialogueTypes' /\ ChatTypes'
    BY <1>9 DEF Unsave, TypeOK, DialogueTypes, ChatTypes
  <2>7. QED
    BY <2>2, <2>4, <2>5, <2>6 DEF TypeOK
<1>10. ASSUME NEW s \in Slots, ShowSaved(s) PROVE TypeOK'
  <2> DEFINE offset == upd[s].offset
  <2>1. PICK next \in Offsets, ends \in BOOLEAN, cut \in BOOLEAN, es \in SUBSET Events :
           SavedSent(offset, es, next, ends, cut)
    BY <1>10, ShowSavedShows
  <2>2. ChatTypes'
    BY <2>1 DEF SavedSent, TypeOK, ChatTypes
  <2>3. Range(saved) \in SUBSET Events
    BY DEF TypeOK, ServerTypes, Range
  <2>4. CountTypes'
    <3>1. list' \in [next : Offsets, shown : SUBSET Events, stable : SUBSET Events,
                     moved : BOOLEAN, ended : BOOLEAN, cut : BOOLEAN]
      <4> HIDE DEF offset
      <4>1. QED
        BY <2>1, <2>3 DEF SavedSent, TypeOK, CountTypes
    <3>2. QED
      BY <1>10, <3>1 DEF ShowSaved, TypeOK, CountTypes
  <2>5. Idle \in Updates /\ upd' = [upd EXCEPT ![s] = Idle] /\ UNCHANGED updates
    BY <1>10, OffsetZero DEF ShowSaved, Moves, Idle, Updates, Steps
  <2>6. troubles' \in 0..MaxTroubles
    <3>1. Fine \/ Trouble
      BY <1>10 DEF ShowSaved
    <3>2. QED
      BY <3>1, BotAssumption DEF Fine, Trouble, TypeOK, UpdateTypes
  <2>7. UpdateTypes'
    BY <2>5, <2>6, UpdateTypesKept DEF TypeOK, UpdateTypes
  <2>8. DialogueTypes' /\ ServerTypes'
    BY <1>10 DEF ShowSaved, server, TypeOK, DialogueTypes, ServerTypes
  <2>9. QED
    BY <2>2, <2>4, <2>7, <2>8 DEF TypeOK
<1>11. CASE UNCHANGED vars
  BY <1>11 DEF vars, server, history, TypeOK, DialogueTypes, ChatTypes, ServerTypes,
               UpdateTypes, CountTypes
<1>12. QED
  BY <1>1, <1>2, <1>3, <1>4, <1>5, <1>6, <1>7, <1>8, <1>9, <1>10, <1>11,
     OthersAreElsewhere, ElsewhereKeepsTypes DEF Next, Handles

-----------------------------------------------------------------------------
(* The feed goes on.                                                       *)

LEMMA OutsideTheFeed ==
  ASSUME TypeOK, FeedInStep, NEW s \in Slots, NEW next \in Updates,
         upd' = [upd EXCEPT ![s] = next],
         upd[s].at \notin FeedSteps, next.at \notin FeedSteps,
         UNCHANGED <<shown, run>> \/ run'.excused
  PROVE  FeedInStep'
<1>1. CASE run'.excused
  BY <1>1 DEF FeedInStep
<1>2. CASE UNCHANGED <<shown, run>>
  <2>1. \A t \in Slots : upd'[t] = upd[t] \/ (t = s /\ upd'[t] = next)
    BY DEF TypeOK, UpdateTypes
  <2>2. InFeed' = InFeed /\ Keeping' = Keeping
    BY <2>1 DEF InFeed, Keeping, FeedSteps
  <2>3. \A t \in Keeping : upd'[t] = upd[t]
    BY <2>1 DEF Keeping, FeedSteps
  <2>4. QED
    BY <1>2, <2>2, <2>3 DEF FeedInStep
<1>3. QED
  BY <1>1, <1>2

LEMMA ShowFeedKeepsFeed ==
  ASSUME TypeOK, FeedInStep, NEW s \in Slots, ShowFeed(s)
  PROVE  FeedInStep'
<1>1. PICK seen \in SUBSET Events, page \in SUBSET Events :
        /\ seen = IF upd[s].on THEN {} ELSE shown
        /\ page \cap seen = {}
        /\ FeedShows(s, seen, page)
  BY ShowFeedShows
<1>2. upd[s].at = "cards" /\ s \in InFeed /\ s \notin Keeping /\ shown' = shown
  BY DEF ShowFeed, At, InFeed, Keeping
<1>3. CASE page = {} /\ run' = run /\ upd' = [upd EXCEPT ![s] = Idle]
  <2>1. \A t \in Slots : upd'[t] = IF t = s THEN Idle ELSE upd[t]
    BY <1>3 DEF TypeOK, UpdateTypes
  <2>2. InFeed' = InFeed \ {s} /\ Keeping' = Keeping
    BY <1>2, <2>1 DEF InFeed, Keeping, Idle
  <2>3. \A t \in Keeping : upd'[t] = upd[t]
    BY <1>2, <2>1 DEF Keeping
  <2>4. QED
    BY <1>2, <1>3, <2>2, <2>3 DEF FeedInStep
<1>4. ASSUME NEW last \in BOOLEAN,
             upd' = [upd EXCEPT ![s] = [upd[s] EXCEPT
                       !.at = "keep", !.page = seen \cup page, !.last = last]],
             run' = IF upd[s].on
                    THEN [shown |-> page, again |-> FALSE, excused |-> InFeed # {s}]
                    ELSE [run EXCEPT !.shown = @ \cup page,
                                     !.again = @ \/ page \cap run.shown # {}]
      PROVE  FeedInStep'
  <2> DEFINE next == [upd[s] EXCEPT !.at = "keep", !.page = seen \cup page, !.last = last]
  <2>1. next.at = "keep" /\ next.page = seen \cup page
    BY RecordsOfSteps DEF Updates
  <2>2. \A t \in Slots : upd'[t] = IF t = s THEN next ELSE upd[t]
    BY <1>4 DEF TypeOK, UpdateTypes
  <2> HIDE DEF next
  <2>3. InFeed' = InFeed /\ Keeping' = Keeping \cup {s}
    BY <1>2, <2>1, <2>2 DEF InFeed, Keeping
  <2>4. CASE upd[s].on
    <3>1. run' = [shown |-> page, again |-> FALSE, excused |-> InFeed # {s}] /\ seen = {}
      BY <1>1, <1>4, <2>4
    <3>2. run'.shown = page /\ ~run'.again /\ (~run'.excused => InFeed = {s})
      BY <3>1
    <3>3. Keeping' \subseteq InFeed'
      BY DEF Keeping, InFeed
    <3>4. QED
      BY <1>2, <2>1, <2>2, <2>3, <3>1, <3>2, <3>3 DEF FeedInStep
  <2>5. CASE ~upd[s].on
    <3>1. seen = shown /\ run' = [run EXCEPT !.shown = @ \cup page,
                                             !.again = @ \/ page \cap run.shown # {}]
      BY <1>1, <1>4, <2>5
    <3>2. /\ run'.shown = run.shown \cup page
          /\ run'.again = (run.again \/ page \cap run.shown # {})
          /\ run'.excused = run.excused
      BY <3>1 DEF TypeOK, DialogueTypes
    <3>3. SUFFICES ASSUME ~run.excused PROVE FeedInStep'
      BY <3>2 DEF FeedInStep
    <3>4. Keeping = {}
      BY <1>2, <3>3 DEF FeedInStep, Keeping, InFeed
    <3>5. shown = run.shown /\ ~run.again
      BY <3>3, <3>4 DEF FeedInStep
    <3>6. ~run'.again /\ next.page = run'.shown
      BY <1>1, <2>1, <3>1, <3>2, <3>5
    <3>7. \A t, u \in InFeed' : t = u
      BY <2>3, <3>3 DEF FeedInStep
    <3>8. Keeping' = {s} /\ upd'[s] = next
      BY <2>2, <2>3, <3>4
    <3>9. QED
      BY <3>6, <3>7, <3>8 DEF FeedInStep
  <2>6. QED
    BY <2>4, <2>5
<1>5. QED
  BY <1>1, <1>3, <1>4 DEF FeedShows

LEMMA FeedKept ==
  ASSUME TypeOK, PressesHaveEvents, FeedInStep, [Next]_vars
  PROVE  FeedInStep'
<1>1. ASSUME Elsewhere PROVE FeedInStep'
  <2>1. UNCHANGED <<shown, run>> \/ run'.excused
    BY <1>1 DEF Elsewhere, TypeOK, DialogueTypes
  <2>2. CASE UNCHANGED upd
    BY <2>1, <2>2 DEF FeedInStep, InFeed, Keeping
  <2>3. CASE QuietMove
    BY <2>1, <2>3, OutsideTheFeed DEF QuietMove, Quiet
  <2>4. QED
    BY <1>1, <2>2, <2>3 DEF Elsewhere
<1>2. ASSUME NEW s \in Slots, CitySaved(s) PROVE FeedInStep'
  <2>1. CASE upd[s].on
    <3>1. run' = [run EXCEPT !.excused = TRUE]
      BY <1>2, <2>1 DEF CitySaved, Clear
    <3>2. run'.excused
      BY <3>1 DEF TypeOK, DialogueTypes
    <3>3. QED
      BY <3>2 DEF FeedInStep
  <2>2. CASE ~upd[s].on
    <3>1. upd' = [upd EXCEPT ![s] = Idle] /\ upd[s].at = "city_saved"
      BY <1>2, <2>2 DEF CitySaved, Moves, At
    <3>2. UNCHANGED <<shown, run>> \/ run'.excused
      BY <1>2 DEF CitySaved, Clear, KeepState, TypeOK, DialogueTypes
    <3>3. Idle \in Updates /\ Idle.at \notin FeedSteps /\ upd[s].at \notin FeedSteps
      BY <3>1, OffsetZero DEF Idle, Updates, Steps, FeedSteps
    <3>4. QED
      BY <3>1, <3>2, <3>3, OutsideTheFeed
  <2>3. QED
    BY <2>1, <2>2
<1>3. ASSUME NEW s \in Slots, NEW anew \in BOOLEAN, Feed(s, anew) PROVE FeedInStep'
  <2>1. /\ upd' = [upd EXCEPT ![s] = [Idle EXCEPT !.at = "feed", !.on = anew]]
        /\ run' = [run EXCEPT !.excused = @ \/ InFeed # {}]
        /\ shown' = shown /\ upd[s] = Idle
    BY <1>3 DEF Feed, Arrives
  <2>2. /\ run'.excused = (run.excused \/ InFeed # {})
        /\ run'.shown = run.shown /\ run'.again = run.again
    BY <2>1 DEF TypeOK, DialogueTypes
  <2>3. SUFFICES ASSUME ~run.excused, InFeed = {} PROVE FeedInStep'
    BY <2>2 DEF FeedInStep
  <2>4. [Idle EXCEPT !.at = "feed", !.on = anew].at = "feed"
    BY DEF Idle
  <2> DEFINE next == [Idle EXCEPT !.at = "feed", !.on = anew]
  <2>5. \A t \in Slots : upd'[t] = IF t = s THEN next ELSE upd[t]
    BY <2>1 DEF TypeOK, UpdateTypes
  <2>6. next.at = "feed"
    BY <2>4
  <2> HIDE DEF next
  <2>7. Keeping = {} /\ \A t \in Slots : upd[t].at \notin {"feed", "cards", "keep"}
    BY <2>3 DEF Keeping, InFeed
  <2>8. InFeed' \subseteq {s} /\ Keeping' = {}
    BY <2>5, <2>6, <2>7 DEF InFeed, Keeping
  <2>9. QED
    BY <2>1, <2>2, <2>3, <2>7, <2>8 DEF FeedInStep
<1>4. ASSUME NEW s \in Slots, FetchFeed(s) PROVE FeedInStep'
  <2>1. upd[s].at = "feed" /\ UNCHANGED <<shown, run>>
    BY <1>4 DEF FetchFeed, At, history
  <2>2. \A t \in Slots : t # s => upd'[t] = upd[t]
    BY <1>4 DEF FetchFeed, Moves, TypeOK, UpdateTypes
  <2>3. upd'[s].at = "cards"
    <3> DEFINE full == [upd[s] EXCEPT !.at = "cards", !.page = Recommended]
               empty == [upd[s] EXCEPT !.at = "cards"]
    <3>1. full.at = "cards" /\ empty.at = "cards"
      BY RecordsOfSteps DEF Updates
    <3>2. Moves(s, full) \/ Moves(s, empty)
      BY <1>4 DEF FetchFeed
    <3> HIDE DEF full, empty
    <3>3. QED
      BY <3>1, <3>2 DEF Moves, TypeOK, UpdateTypes
  <2>4. InFeed' = InFeed /\ Keeping' = Keeping
    BY <2>1, <2>2, <2>3 DEF InFeed, Keeping
  <2>5. \A t \in Keeping : upd'[t] = upd[t]
    BY <2>1, <2>2 DEF Keeping
  <2>6. QED
    BY <2>1, <2>4, <2>5 DEF FeedInStep
<1>5. ASSUME NEW s \in Slots, KeepShown(s) PROVE FeedInStep'
  <2>1. CASE run' = [run EXCEPT !.excused = TRUE]
    <3>1. run'.excused
      BY <2>1 DEF TypeOK, DialogueTypes
    <3>2. QED
      BY <3>1 DEF FeedInStep
  <2>2. CASE run' = run /\ shown' = upd[s].page
    <3>1. upd[s].at = "keep" /\ \A t \in Slots : upd'[t] = IF t = s THEN Idle ELSE upd[t]
      BY <1>5 DEF KeepShown, At, Moves, TypeOK, UpdateTypes
    <3>2. InFeed' = InFeed \ {s} /\ Keeping' = Keeping \ {s} /\ s \in Keeping
      BY <3>1 DEF InFeed, Keeping, Idle
    <3>3. SUFFICES ASSUME ~run.excused PROVE FeedInStep'
      BY <2>2 DEF FeedInStep
    <3>4. \A t \in Keeping : t = s
      BY <3>1, <3>3 DEF FeedInStep, InFeed, Keeping
    <3>5. Keeping' = {} /\ shown' = run'.shown
      BY <2>2, <3>2, <3>3, <3>4 DEF FeedInStep
    <3>6. QED
      BY <2>2, <3>2, <3>3, <3>5 DEF FeedInStep
  <2>3. QED
    BY <1>5, <2>1, <2>2 DEF KeepShown
<1>6. ASSUME NEW s \in Slots, NEW e \in Events, OnFeedback(s, e) PROVE FeedInStep'
  <2> DEFINE next == [Idle EXCEPT !.at = "react", !.event = e]
  <2>1. next \in Updates /\ next.at \notin FeedSteps
    BY OffsetZero DEF Idle, Updates, Steps, FeedSteps
  <2>2. upd' = [upd EXCEPT ![s] = next] /\ upd[s] = Idle /\ UNCHANGED <<shown, run>>
    BY <1>6 DEF OnFeedback, Arrives
  <2>3. Idle.at \notin FeedSteps
    BY DEF Idle, FeedSteps
  <2> HIDE DEF next
  <2>4. QED
    BY <2>1, <2>2, <2>3, OutsideTheFeed
<1>7. ASSUME NEW s \in Slots, React(s) PROVE FeedInStep'
  <2>1. PICK e \in Events, next \in Updates :
          /\ upd[s].at \in {"react", "react_again"}
          /\ upd' = [upd EXCEPT ![s] = next]
          /\ next = Idle \/ (next.at = "register" /\ next.event = e)
    BY <1>7, ReactMoves
  <2>2. next.at \notin FeedSteps /\ upd[s].at \notin FeedSteps
    BY <2>1 DEF Idle, FeedSteps
  <2>3. UNCHANGED <<shown, run>>
    BY <1>7 DEF React
  <2>4. QED
    BY <2>1, <2>2, <2>3, OutsideTheFeed
<1>8. ASSUME NEW s \in Slots, EnsureAccount(s) PROVE FeedInStep'
  <2>1. /\ Idle \in Updates /\ Idle.at \notin FeedSteps
        /\ Step(s, "react_again") \in Updates /\ Step(s, "react_again").at \notin FeedSteps
    BY RecordsOfSteps, OffsetZero DEF Idle, Updates, Steps, FeedSteps
  <2>2. /\ UNCHANGED <<shown, run>> /\ upd[s].at \notin FeedSteps
        /\ \/ upd' = [upd EXCEPT ![s] = Idle]
           \/ upd' = [upd EXCEPT ![s] = Step(s, "react_again")]
    BY <1>8 DEF EnsureAccount, At, Calls, Moves, history, FeedSteps
  <2>3. QED
    BY <2>1, <2>2, OutsideTheFeed
<1>9. CASE UNCHANGED <<upd, shown, run>>
  BY <1>9 DEF FeedInStep, InFeed, Keeping
<1>10. QED
  <2>1. ASSUME NEW e \in Events, Unsave(e) PROVE FeedInStep'
    BY <2>1, <1>9 DEF Unsave
  <2>2. ASSUME NEW s \in Slots, ShowSaved(s) PROVE FeedInStep'
    <3>1. /\ Idle \in Updates /\ Idle.at \notin FeedSteps /\ upd[s].at \notin FeedSteps
          /\ upd' = [upd EXCEPT ![s] = Idle] /\ UNCHANGED <<shown, run>>
      BY <2>2, OffsetZero DEF ShowSaved, At, Moves, Idle, Updates, Steps, FeedSteps
    <3>2. QED
      BY <3>1, OutsideTheFeed
  <2>3. CASE UNCHANGED vars
    BY <2>3, <1>9 DEF vars, history
  <2>4. QED
    BY <1>1, <1>2, <1>3, <1>4, <1>5, <1>6, <1>7, <1>8, <2>1, <2>2, <2>3,
       OthersAreElsewhere, ShowFeedKeepsFeed DEF Next, Handles

-----------------------------------------------------------------------------
(* Reactions are counted.                                                  *)

PressesKept == PressesHaveEvents' /\ PressesAccountedFor'

LEMMA PressingIsFinite ==
  ASSUME NEW e
  PROVE  IsFiniteSet(Pressing(e)) /\ Cardinality(Pressing(e)) \in Nat
BY BotAssumption, FS_Subset, FS_CardinalityType DEF Pressing

(* Whoever presses, presses under the same event as before.                *)
LEMMA SamePresses ==
  ASSUME PressesHaveEvents, PressesAccountedFor, UNCHANGED <<rated, count>>,
         \A t \in Slots : \/ upd'[t].at \in Reacting /\ upd[t].at \in Reacting
                             /\ upd'[t].event = upd[t].event
                          \/ upd'[t].at \notin Reacting /\ upd[t].at \notin Reacting
  PROVE  PressesKept
<1>1. \A e \in Events : Pressing(e)' = Pressing(e)
  BY DEF Pressing
<1>2. PressesHaveEvents'
  BY DEF PressesHaveEvents
<1>3. \A e \in Events : Cardinality(Pressing(e))' = Cardinality(Pressing(e))
  BY <1>1, Zenon
<1>4. QED
  BY <1>2, <1>3 DEF PressesKept, PressesAccountedFor

LEMMA OutsideReactions ==
  ASSUME TypeOK, PressesHaveEvents, PressesAccountedFor, UNCHANGED <<rated, count>>,
         NEW s \in Slots, NEW next \in Updates, upd' = [upd EXCEPT ![s] = next],
         upd[s].at \notin Reacting, next.at \notin Reacting
  PROVE  PressesKept
<1>1. \A t \in Slots : upd'[t] = IF t = s THEN next ELSE upd[t]
  BY DEF TypeOK, UpdateTypes
<1>2. QED
  BY <1>1, SamePresses

(* The press that slot s handles is answered or given up, recorded or not. *)
LEMMA PressEnds ==
  ASSUME TypeOK, PressesHaveEvents, PressesAccountedFor,
         NEW s \in Slots, upd[s].at \in Reacting, upd' = [upd EXCEPT ![s] = Idle]
  PROVE  /\ PressesHaveEvents'
         /\ \A e \in Events : Cardinality(Pressing(e)') =
              IF e = upd[s].event THEN Cardinality(Pressing(e)) - 1 ELSE Cardinality(Pressing(e))
<1>1. \A t \in Slots : upd'[t] = IF t = s THEN Idle ELSE upd[t]
  BY DEF TypeOK, UpdateTypes
<1>2. Idle.at \notin Reacting
  BY DEF Idle, Reacting
<1>3. PressesHaveEvents'
  BY <1>1, <1>2 DEF PressesHaveEvents
<1>4. ASSUME NEW e \in Events
      PROVE  Cardinality(Pressing(e)') =
              IF e = upd[s].event THEN Cardinality(Pressing(e)) - 1 ELSE Cardinality(Pressing(e))
  <2>1. Pressing(e)' = Pressing(e) \ {s}
    BY <1>1, <1>2 DEF Pressing
  <2>2. s \in Pressing(e) <=> e = upd[s].event
    BY DEF Pressing
  <2>3. IsFiniteSet(Pressing(e))
    BY PressingIsFinite
  <2>4. Cardinality(Pressing(e) \ {s}) =
          IF s \in Pressing(e) THEN Cardinality(Pressing(e)) - 1 ELSE Cardinality(Pressing(e))
    BY <2>3, FS_RemoveElement
  <2>5. QED
    BY <2>1, <2>2, <2>4
<1>5. QED
  BY <1>3, <1>4

LEMMA OnFeedbackKeepsPresses ==
  ASSUME TypeOK, PressesHaveEvents, PressesAccountedFor,
         NEW s \in Slots, NEW e \in Events, OnFeedback(s, e)
  PROVE  PressesKept
<1> DEFINE next == [Idle EXCEPT !.at = "react", !.event = e]
<1>1. next.at = "react" /\ next.event = e
  BY DEF Idle
<1>2. upd' = [upd EXCEPT ![s] = next] /\ upd[s] = Idle /\ UNCHANGED rated
      /\ count' = [count EXCEPT ![e].may = @ + 1]
  BY DEF OnFeedback, Arrives, server
<1> HIDE DEF next
<1>3. \A t \in Slots : upd'[t] = IF t = s THEN next ELSE upd[t]
  BY <1>2 DEF TypeOK, UpdateTypes
<1>4. PressesHaveEvents'
  BY <1>1, <1>3 DEF PressesHaveEvents
<1>5. \A f \in Events : /\ count'[f].told = count[f].told
                        /\ count'[f].may = IF f = e THEN count[f].may + 1 ELSE count[f].may
                        /\ rated[f] \in Nat /\ count[f].may \in Nat
  BY <1>2 DEF TypeOK, CountTypes, ServerTypes
<1>6. s \notin Pressing(e)
  BY <1>2 DEF Pressing, Idle, Reacting
<1>7. ASSUME NEW f \in Events
      PROVE  Cardinality(Pressing(f)') =
               IF f = e THEN Cardinality(Pressing(f)) + 1 ELSE Cardinality(Pressing(f))
  <2>1. CASE f = e
    <3>1. Pressing(f)' = Pressing(f) \cup {s}
      BY <1>1, <1>3, <2>1 DEF Pressing, Reacting
    <3>2. IsFiniteSet(Pressing(f))
      BY PressingIsFinite
    <3>3. Cardinality(Pressing(f) \cup {s}) =
            IF s \in Pressing(f) THEN Cardinality(Pressing(f)) ELSE Cardinality(Pressing(f)) + 1
      BY <3>2, FS_AddElement
    <3>4. QED
      BY <1>6, <2>1, <3>1, <3>3
  <2>2. CASE f # e
    <3>1. Pressing(f)' = Pressing(f)
      BY <1>1, <1>2, <1>3, <2>2 DEF Pressing, Idle, Reacting
    <3>2. QED
      BY <2>2, <3>1
  <2>3. QED
    BY <2>1, <2>2
<1>8. ASSUME NEW f \in Events
      PROVE  /\ count'[f].told <= rated'[f]
             /\ rated'[f] + Cardinality(Pressing(f)') <= count'[f].may
  <2>1. Cardinality(Pressing(f)) \in Nat
    BY PressingIsFinite
  <2>2. count[f].told <= rated[f] /\ rated[f] + Cardinality(Pressing(f)) <= count[f].may
    BY DEF PressesAccountedFor
  <2>3. rated'[f] = rated[f]
    BY <1>2
  <2>4. QED
    BY <1>5, <1>7, <2>1, <2>2, <2>3
<1>9. QED
  BY <1>4, <1>8 DEF PressesKept, PressesAccountedFor

LEMMA ReactKeepsPresses ==
  ASSUME TypeOK, PressesHaveEvents, PressesAccountedFor, NEW s \in Slots, React(s)
  PROVE  PressesKept
<1>1. PICK e \in Events, next \in Updates :
        /\ e = upd[s].event /\ upd[s].at \in {"react", "react_again"}
        /\ upd' = [upd EXCEPT ![s] = next]
        /\ next = Idle \/ (next.at = "register" /\ next.event = e)
        /\ \/ Records(e) /\ Answered(e) /\ next = Idle
           \/ Records(e) /\ AnsweredLate(e)
           \/ UNCHANGED <<server, list, count>>
  BY ReactMoves
<1>2. upd[s].at \in Reacting /\ s \in Pressing(e)
  BY <1>1 DEF Reacting, Pressing
<1>3. PressesHaveEvents' /\ \A f \in Events :
        /\ Cardinality(Pressing(f)') \in Nat
        /\ Cardinality(Pressing(f)') <= Cardinality(Pressing(f))
        /\ next = Idle /\ f = e => Cardinality(Pressing(f)') <= Cardinality(Pressing(f)) - 1
  <2>1. CASE next = Idle
    <3>1. /\ PressesHaveEvents'
          /\ \A f \in Events : Cardinality(Pressing(f)') =
               IF f = e THEN Cardinality(Pressing(f)) - 1 ELSE Cardinality(Pressing(f))
      BY <1>1, <1>2, <2>1, PressEnds
    <3>2. ASSUME NEW f \in Events PROVE Cardinality(Pressing(f)) \in Nat
      BY PressingIsFinite
    <3>3. s \in Pressing(e) /\ IsFiniteSet(Pressing(e))
      BY <1>2, PressingIsFinite
    <3>4. Cardinality(Pressing(e)) # 0
      BY <3>3, FS_EmptySet
    <3>5. QED
      BY <3>1, <3>2, <3>4
  <2>2. CASE next.at = "register" /\ next.event = e
    <3>1. \A t \in Slots : upd'[t] = IF t = s THEN next ELSE upd[t]
      BY <1>1 DEF TypeOK, UpdateTypes
    <3>2. \A f \in Events : Pressing(f)' = Pressing(f)
      BY <1>1, <1>2, <2>2, <3>1 DEF Pressing, Reacting
    <3>3. PressesHaveEvents'
      BY <1>1, <2>2, <3>1 DEF PressesHaveEvents
    <3>4. next # Idle
      BY <2>2 DEF Idle
    <3>5. \A f \in Events : Cardinality(Pressing(f)) \in Nat
      BY PressingIsFinite
    <3>6. QED
      BY <3>2, <3>3, <3>4, <3>5
  <2>3. QED
    BY <1>1, <2>1, <2>2
<1>4. ASSUME NEW f \in Events
      PROVE  /\ rated[f] \in Nat /\ count[f].may \in Nat /\ count[f].told \in Nat
             /\ Cardinality(Pressing(f)) \in Nat
             /\ count[f].told <= rated[f]
             /\ rated[f] + Cardinality(Pressing(f)) <= count[f].may
  BY PressingIsFinite DEF PressesAccountedFor, TypeOK, ServerTypes, CountTypes
<1>5. ASSUME Records(e)
      PROVE  \A f \in Events : rated'[f] = IF f = e THEN rated[f] + 1 ELSE rated[f]
  <2>1. rated' = [rated EXCEPT ![e] = @ + 1]
    BY <1>5, RecordsRecords
  <2>2. QED
    BY <2>1 DEF TypeOK, ServerTypes
<1>6. CASE Records(e) /\ Answered(e) /\ next = Idle
  <2>1. \A f \in Events : /\ count'[f].may = count[f].may
                          /\ count'[f].told = IF f = e THEN count[f].told + 1 ELSE count[f].told
    BY <1>6 DEF Answered, TypeOK, CountTypes
  <2>2. ASSUME NEW f \in Events
        PROVE  /\ count'[f].told <= rated'[f]
               /\ rated'[f] + Cardinality(Pressing(f)') <= count'[f].may
    BY <1>3, <1>4, <1>5, <1>6, <2>1
  <2>3. QED
    BY <1>3, <2>2 DEF PressesKept, PressesAccountedFor
<1>7. CASE Records(e) /\ AnsweredLate(e)
  <2>1. \A f \in Events : /\ count'[f].told = count[f].told
                          /\ count'[f].may = IF f = e THEN count[f].may + 1 ELSE count[f].may
    BY <1>7 DEF AnsweredLate, TypeOK, CountTypes
  <2>2. ASSUME NEW f \in Events
        PROVE  /\ count'[f].told <= rated'[f]
               /\ rated'[f] + Cardinality(Pressing(f)') <= count'[f].may
    BY <1>3, <1>4, <1>5, <1>7, <2>1
  <2>3. QED
    BY <1>3, <2>2 DEF PressesKept, PressesAccountedFor
<1>8. CASE UNCHANGED <<server, list, count>>
  <2>1. rated' = rated /\ count' = count
    BY <1>8 DEF server
  <2>2. ASSUME NEW f \in Events
        PROVE  /\ count'[f].told <= rated'[f]
               /\ rated'[f] + Cardinality(Pressing(f)') <= count'[f].may
    BY <1>3, <1>4, <2>1
  <2>3. QED
    BY <1>3, <2>2 DEF PressesKept, PressesAccountedFor
<1>9. QED
  BY <1>1, <1>6, <1>7, <1>8

LEMMA EnsureAccountKeepsPresses ==
  ASSUME TypeOK, PressesHaveEvents, PressesAccountedFor, NEW s \in Slots, EnsureAccount(s)
  PROVE  PressesKept
<1>1. upd[s].at = "register" /\ rated' = rated /\ count' = count
  BY DEF EnsureAccount, At, Calls, Registers, server, history
<1>2. CASE upd' = [upd EXCEPT ![s] = Idle]
  <2>1. upd[s].at \in Reacting
    BY <1>1 DEF Reacting
  <2>2. PressesHaveEvents' /\ \A f \in Events : Cardinality(Pressing(f)') =
          IF f = upd[s].event THEN Cardinality(Pressing(f)) - 1 ELSE Cardinality(Pressing(f))
    BY <1>2, <2>1, PressEnds
  <2>3. ASSUME NEW f \in Events
        PROVE  /\ rated[f] \in Nat /\ count[f].may \in Nat
               /\ Cardinality(Pressing(f)) \in Nat
               /\ count[f].told <= rated[f]
               /\ rated[f] + Cardinality(Pressing(f)) <= count[f].may
    BY PressingIsFinite DEF PressesAccountedFor, TypeOK, ServerTypes, CountTypes
  <2>4. ASSUME NEW f \in Events
        PROVE  /\ count'[f].told <= rated'[f]
               /\ rated'[f] + Cardinality(Pressing(f)') <= count'[f].may
    BY <1>1, <2>2, <2>3
  <2>5. QED
    BY <2>2, <2>4 DEF PressesKept, PressesAccountedFor
<1>3. CASE upd' = [upd EXCEPT ![s] = Step(s, "react_again")]
  <2> DEFINE next == Step(s, "react_again")
  <2>1. next.at = "react_again" /\ next.event = upd[s].event
    BY RecordsOfSteps DEF Step, Updates
  <2> HIDE DEF next
  <2>2. \A t \in Slots : upd'[t] = IF t = s THEN next ELSE upd[t]
    BY <1>3 DEF next, TypeOK, UpdateTypes
  <2>3. QED
    BY <1>1, <2>1, <2>2, SamePresses DEF Reacting
<1>4. QED
  BY <1>2, <1>3 DEF EnsureAccount, Calls, Moves

LEMMA ReactionsKept ==
  ASSUME TypeOK, PressesHaveEvents, PressesAccountedFor, [Next]_vars
  PROVE  PressesKept
<1>1. ASSUME UNCHANGED <<upd, rated, count>> PROVE PressesKept
  <2>1. \A t \in Slots : upd'[t] = upd[t]
    BY <1>1
  <2>2. QED
    BY <1>1, <2>1, SamePresses
<1>2. ASSUME Elsewhere PROVE PressesKept
  <2>1. UNCHANGED <<rated, count>>
    BY <1>2 DEF Elsewhere
  <2>2. CASE UNCHANGED upd
    BY <1>1, <2>1, <2>2
  <2>3. CASE QuietMove
    BY <2>1, <2>3, OutsideReactions DEF QuietMove, Quiet
  <2>4. QED
    BY <1>2, <2>2, <2>3 DEF Elsewhere
<1>3. ASSUME NEW s \in Slots, CitySaved(s) PROVE PressesKept
  <2> DEFINE next == IF upd[s].on THEN [Idle EXCEPT !.at = "feed", !.on = TRUE] ELSE Idle
  <2>1. next \in Updates /\ next.at \notin Reacting
    BY OffsetZero DEF Idle, Updates, Steps, Reacting
  <2>2. /\ upd' = [upd EXCEPT ![s] = next] /\ upd[s].at \notin Reacting
        /\ UNCHANGED <<rated, count>>
    BY <1>3 DEF CitySaved, Moves, At, Reacting, server
  <2> HIDE DEF next
  <2>3. QED
    BY <2>1, <2>2, OutsideReactions
<1>4. ASSUME NEW s \in Slots, NEW anew \in BOOLEAN, Feed(s, anew) PROVE PressesKept
  <2> DEFINE next == [Idle EXCEPT !.at = "feed", !.on = anew]
  <2>1. next \in Updates /\ next.at \notin Reacting /\ Idle.at \notin Reacting
    BY OffsetZero DEF Idle, Updates, Steps, Reacting
  <2>2. upd' = [upd EXCEPT ![s] = next] /\ upd[s] = Idle /\ UNCHANGED <<rated, count>>
    BY <1>4 DEF Feed, Arrives, server
  <2> HIDE DEF next
  <2>3. QED
    BY <2>1, <2>2, OutsideReactions
<1>5. ASSUME NEW s \in Slots, FetchFeed(s) PROVE PressesKept
  <2> DEFINE full == [upd[s] EXCEPT !.at = "cards", !.page = Recommended]
             empty == [upd[s] EXCEPT !.at = "cards"]
  <2>1. /\ full \in Updates /\ full.at \notin Reacting
        /\ empty \in Updates /\ empty.at \notin Reacting
    <3>1. upd[s] \in Updates /\ Recommended \in SUBSET Events
      BY RecordsOfSteps DEF Recommended
    <3>2. full \in Updates /\ empty \in Updates
      BY <3>1 DEF Updates, Steps
    <3>3. full.at = "cards" /\ empty.at = "cards"
      BY <3>1 DEF Updates
    <3> HIDE DEF full, empty
    <3>4. QED
      BY <3>2, <3>3 DEF Reacting
  <2>2. /\ upd' = [upd EXCEPT ![s] = full] \/ upd' = [upd EXCEPT ![s] = empty]
        /\ upd[s].at \notin Reacting /\ UNCHANGED <<rated, count>>
    BY <1>5 DEF FetchFeed, Moves, At, Reacting, history
  <2> HIDE DEF full, empty
  <2>3. QED
    BY <2>1, <2>2, OutsideReactions
<1>6. ASSUME NEW s \in Slots, ShowFeed(s) PROVE PressesKept
  <2>1. PICK seen \in SUBSET Events, page \in SUBSET Events : FeedShows(s, seen, page)
    BY <1>6, ShowFeedShows
  <2>2. ASSUME NEW last \in BOOLEAN,
               upd' = [upd EXCEPT ![s] = [upd[s] EXCEPT
                         !.at = "keep", !.page = seen \cup page, !.last = last]]
        PROVE  \E next \in Updates : next.at \notin Reacting /\ upd' = [upd EXCEPT ![s] = next]
    <3> DEFINE next == [upd[s] EXCEPT !.at = "keep", !.page = seen \cup page, !.last = last]
    <3>0. upd[s] \in Updates /\ seen \cup page \in SUBSET Events
      BY RecordsOfSteps
    <3>1. next \in Updates
      BY <3>0 DEF Updates, Steps
    <3>2. next.at = "keep"
      BY <3>0 DEF Updates
    <3>3. upd' = [upd EXCEPT ![s] = next]
      BY <2>2
    <3> HIDE DEF next
    <3>4. QED
      BY <3>1, <3>2, <3>3 DEF Reacting
  <2>3. Idle \in Updates /\ Idle.at \notin Reacting
    BY OffsetZero DEF Idle, Updates, Steps, Reacting
  <2>4. PICK next \in Updates : next.at \notin Reacting /\ upd' = [upd EXCEPT ![s] = next]
    BY <2>1, <2>2, <2>3 DEF FeedShows
  <2>5. upd[s].at \notin Reacting /\ UNCHANGED <<rated, count>>
    BY <1>6 DEF ShowFeed, At, Reacting, server
  <2>6. QED
    BY <2>4, <2>5, OutsideReactions
<1>7. ASSUME NEW s \in Slots, KeepShown(s) PROVE PressesKept
  <2>1. Idle \in Updates /\ Idle.at \notin Reacting
    BY OffsetZero DEF Idle, Updates, Steps, Reacting
  <2>2. /\ upd' = [upd EXCEPT ![s] = Idle] /\ upd[s].at \notin Reacting
        /\ UNCHANGED <<rated, count>>
    BY <1>7 DEF KeepShown, Moves, At, Reacting, server
  <2>3. QED
    BY <2>1, <2>2, OutsideReactions
<1>8. ASSUME NEW e \in Events, Unsave(e) PROVE PressesKept
  BY <1>1, <1>8 DEF Unsave
<1>9. ASSUME NEW s \in Slots, ShowSaved(s) PROVE PressesKept
  <2>1. /\ Idle \in Updates /\ Idle.at \notin Reacting /\ upd[s].at \notin Reacting
        /\ upd' = [upd EXCEPT ![s] = Idle] /\ UNCHANGED <<rated, count>>
    BY <1>9, OffsetZero DEF ShowSaved, At, Moves, Idle, Updates, Steps, Reacting, server
  <2>2. QED
    BY <2>1, OutsideReactions
<1>10. CASE UNCHANGED vars
  BY <1>1, <1>10 DEF vars, server, history
<1>11. QED
  BY <1>2, <1>3, <1>4, <1>5, <1>6, <1>7, <1>8, <1>9, <1>10, OthersAreElsewhere,
     OnFeedbackKeepsPresses, ReactKeepsPresses, EnsureAccountKeepsPresses DEF Next, Handles

-----------------------------------------------------------------------------
(* The saved list is complete.                                             *)

(* A new reaction that saves e: unless e was in the list, what the list    *)
(* had keeps its place or moves back by one.                               *)
LEMMA RecordsKeepsList ==
  ASSUME TypeOK, ListInStep, SavedListComplete, NEW e \in Events, Records(e)
  PROVE  ListInStep' /\ SavedListComplete'
<1>1. CASE UNCHANGED <<saved, list>>
  BY <1>1 DEF ListInStep, SavedListComplete
<1>2. ASSUME Range(saved') = Range(saved) \cup {e},
             \A i \in DOMAIN saved' :
               saved'[i] = e \/ \E j \in {i - 1, i} : j \in DOMAIN saved /\ saved[j] = saved'[i],
             saved' \in Seq(Events),
             list' = [list EXCEPT !.moved = @ \/ e \in list.stable]
      PROVE  ListInStep' /\ SavedListComplete'
  <2>1. /\ list'.moved = (list.moved \/ e \in list.stable)
        /\ list'.stable = list.stable /\ list'.shown = list.shown
        /\ list'.next = list.next /\ list'.ended = list.ended /\ list'.cut = list.cut
    BY <1>2 DEF TypeOK, CountTypes
  <2>2. SavedListComplete'
    BY <2>1 DEF SavedListComplete
  <2>3. ASSUME ~list.moved, e \notin list.stable,
               NEW i \in DOMAIN saved', i <= list.next, saved'[i] \in list.stable
        PROVE  saved'[i] \in list.shown
    <3>1. PICK j \in {i - 1, i} : j \in DOMAIN saved /\ saved[j] = saved'[i]
      BY <1>2, <2>3
    <3>2. i \in Int /\ list.next \in Int
      BY <1>2, FS_CardinalityType, BotAssumption DEF TypeOK, CountTypes, Offsets
    <3>3. j <= list.next
      BY <2>3, <3>1, <3>2
    <3>4. QED
      BY <2>3, <3>1, <3>3 DEF ListInStep
  <2>4. ListInStep'
    BY <1>2, <2>1, <2>3 DEF ListInStep
  <2>5. QED
    BY <2>2, <2>4
<1>3. QED
  BY <1>1, <1>2, RecordsRecords

(* A page that follows the last one, or a part of it.                      *)
LEMMA ShowSavedKeepsList ==
  ASSUME TypeOK, ListInStep, SavedListComplete, NEW s \in Slots, ShowSaved(s)
  PROVE  ListInStep' /\ SavedListComplete'
<1> DEFINE offset == upd[s].offset
<1>0. offset \in Offsets /\ saved' = saved
  BY RecordsOfSteps DEF Updates, ShowSaved, server
<1>1. PICK next \in Offsets, ends \in BOOLEAN, cut \in BOOLEAN, page \in SUBSET Events :
        /\ SavedSent(offset, page, next, ends, cut)
        /\ PageOfSaved(offset, next, ends, cut, page)
  BY ShowSavedShows
<1> HIDE DEF offset
<1>2. /\ list'.next = IF offset = 0 \/ offset = list.next THEN next ELSE list.next
      /\ list'.shown = IF offset = 0 THEN page ELSE list.shown \cup page
      /\ list'.stable = IF offset = 0 THEN Range(saved) ELSE list.stable
      /\ list'.moved = (offset # 0 /\ list.moved)
      /\ list'.ended = ((offset = 0 \/ offset = list.next) /\ ends)
      /\ list'.cut = ((offset = 0 \/ offset = list.next) /\ cut)
      /\ saved' = saved
  BY <1>0, <1>1 DEF SavedSent
<1>3. /\ DOMAIN saved = 1..Len(saved) /\ Len(saved) \in Nat
      /\ offset \in Nat /\ next \in Nat /\ list.next \in Nat
      /\ \A i \in DOMAIN saved : saved[i] \in Range(saved)
  BY <1>0, FS_CardinalityType, BotAssumption
  DEF TypeOK, CountTypes, ServerTypes, Offsets, Range
<1>4. ListInStep'
  <2>1. SUFFICES ASSUME ~list'.moved PROVE ListInStep'
    BY DEF ListInStep
  <2>2. CASE offset = 0
    <3>1. \A i \in DOMAIN saved : i <= next => saved[i] \in page
      BY <1>1, <1>3, <2>2 DEF PageOfSaved
    <3>2. QED
      BY <1>2, <2>2, <3>1 DEF ListInStep
  <2>3. CASE offset # 0 /\ offset = list.next
    <3>1. ASSUME NEW i \in DOMAIN saved, i <= next, saved[i] \in list.stable
          PROVE  saved[i] \in list.shown \cup page
      <4>1. CASE i <= offset
        BY <1>2, <2>1, <2>3, <3>1, <4>1 DEF ListInStep
      <4>2. CASE offset < i
        BY <1>1, <3>1, <4>2 DEF PageOfSaved
      <4>3. QED
        BY <1>3, <4>1, <4>2
    <3>2. QED
      BY <1>2, <2>1, <2>3, <3>1 DEF ListInStep
  <2>4. CASE offset # 0 /\ offset # list.next
    BY <1>2, <2>1, <2>4 DEF ListInStep
  <2>5. QED
    BY <2>2, <2>3, <2>4
<1>5. SavedListComplete'
  <2>1. SUFFICES ASSUME list'.ended, ~list'.moved, ~list'.cut PROVE list'.stable \subseteq list'.shown
    BY DEF SavedListComplete
  <2>2. \A i \in DOMAIN saved : i <= list'.next
    BY <1>1, <1>2, <2>1 DEF PageOfSaved
  <2>3. /\ list'.stable \subseteq Range(saved)
        /\ \A i \in DOMAIN saved :
             i <= list'.next /\ saved[i] \in list'.stable => saved[i] \in list'.shown
    BY <1>2, <1>4, <2>1 DEF ListInStep
  <2>4. QED
    BY <2>2, <2>3 DEF Range
<1>6. QED
  BY <1>4, <1>5

LEMMA ListKept ==
  ASSUME TypeOK, PressesHaveEvents, ListInStep, SavedListComplete, [Next]_vars
  PROVE  ListInStep' /\ SavedListComplete'
<1>1. ASSUME UNCHANGED <<saved, list>> PROVE ListInStep' /\ SavedListComplete'
  BY <1>1 DEF ListInStep, SavedListComplete
<1>2. ASSUME NEW s \in Slots, React(s) PROVE ListInStep' /\ SavedListComplete'
  <2>1. PICK e \in Events : Records(e) \/ UNCHANGED <<server, list, count>>
    BY <1>2, ReactMoves
  <2>2. QED
    BY <1>1, <2>1, RecordsKeepsList DEF server
<1>3. ASSUME NEW e \in Events, Unsave(e) PROVE ListInStep' /\ SavedListComplete'
  <2>1. list'.moved
    BY <1>3 DEF Unsave, TypeOK, CountTypes
  <2>2. QED
    BY <2>1 DEF ListInStep, SavedListComplete
<1>4. ASSUME NEW s \in Slots,
             \/ CitySaved(s) \/ FetchFeed(s) \/ ShowFeed(s) \/ KeepShown(s) \/ EnsureAccount(s)
             \/ \E anew \in BOOLEAN : Feed(s, anew)
             \/ \E e \in Events : OnFeedback(s, e)
      PROVE  UNCHANGED <<saved, list>>
  BY <1>4 DEF CitySaved, FetchFeed, ShowFeed, KeepShown, EnsureAccount, Feed, OnFeedback,
              Calls, Registers, server, history
<1>5. Elsewhere => UNCHANGED <<saved, list>>
  BY DEF Elsewhere
<1>6. CASE UNCHANGED vars
  BY <1>1, <1>6 DEF vars, server, history
<1>7. QED
  BY <1>1, <1>2, <1>3, <1>4, <1>5, <1>6, OthersAreElsewhere, ShowSavedKeepsList
  DEF Next, Handles

-----------------------------------------------------------------------------
(* The theorems.                                                           *)

LEMMA InvInit == Init => IInv
<1> SUFFICES ASSUME Init PROVE IInv
  OBVIOUS
<1>1. TypeOK
  <2>1. DialogueTypes /\ ChatTypes /\ CountTypes
    BY FS_CardinalityType, BotAssumption
    DEF Init, DialogueTypes, ChatTypes, CountTypes, States, Offsets
  <2>2. saved = <<>> /\ saved \in Seq(Events) /\ IsInjective(saved)
    BY DEF Init, IsInjective
  <2>3. ServerTypes
    BY <2>2 DEF Init, ServerTypes
  <2>4. UpdateTypes
    BY BotAssumption, OffsetZero DEF Init, UpdateTypes, Updates, Idle, Steps
  <2>5. QED
    BY <2>1, <2>3, <2>4 DEF TypeOK
<1>2. FeedInStep
  BY DEF Init, FeedInStep, InFeed, Keeping, Idle
<1>3. PressesHaveEvents
  BY DEF Init, PressesHaveEvents, Idle, Reacting
<1>4. PressesAccountedFor
  <2>1. \A e \in Events : Pressing(e) = {}
    BY DEF Init, Pressing, Idle, Reacting
  <2>2. \A e \in Events : Cardinality(Pressing(e)) = 0
    BY <2>1, FS_EmptySet
  <2>3. QED
    BY <2>2 DEF Init, PressesAccountedFor
<1>5. ListInStep /\ SavedListComplete
  BY DEF Init, ListInStep, SavedListComplete
<1>6. QED
  BY <1>1, <1>2, <1>3, <1>4, <1>5 DEF IInv

LEMMA InvNext == IInv /\ [Next]_vars => IInv'
BY TypesKept, FeedKept, ReactionsKept, ListKept DEF IInv, PressesKept

LEMMA Invariance == Spec => []IInv
BY InvInit, InvNext, PTL DEF Spec

(* Every variable keeps its type: an update has its steps in order, the    *)
(* saved list has no event twice, a page is kept of events only.           *)
THEOREM TypeCorrect == Spec => []TypeOK
<1>1. IInv => TypeOK
  BY DEF IInv
<1>2. QED
  BY <1>1, Invariance, PTL

(* «Ещё ▶» of the feed (feed.py) neither repeats nor leaves out an event,  *)
(* however many updates run at once, unless feed handlers overlapped, a    *)
(* card could not be sent, or the dialogue was cleared.                    *)
THEOREM FeedIsGoneThrough == Spec => []FeedGoesOn
<1>1. IInv => FeedGoesOn
  <2> SUFFICES ASSUME FeedInStep, ~run.excused
               PROVE  ~run.again /\ (InFeed = {} => shown \subseteq run.shown)
    BY DEF IInv, FeedGoesOn
  <2>1. Keeping \subseteq InFeed
    BY DEF Keeping, InFeed
  <2>2. QED
    BY <2>1 DEF FeedInStep
<1>2. QED
  BY <1>1, Invariance, PTL

(* A saved list that was paged to its end has shown all that was saved all *)
(* along (_show_saved), whatever was saved between its pages and however   *)
(* many of them failed and were asked for again; unless the last one       *)
(* failed, counted too few, or events were removed or saved again.         *)
THEOREM SavedListIsComplete == Spec => []SavedListComplete
<1>1. IInv => SavedListComplete
  BY DEF IInv
<1>2. QED
  BY <1>1, Invariance, PTL

(* No reaction is recorded more often than it was pressed and retried, and *)
(* none is said to be noted that was not, with both tries of on_feedback.  *)
THEOREM ReactionsAreCounted == Spec => []ReactionsCounted
<1>1. IInv => ReactionsCounted
  <2> SUFFICES ASSUME TypeOK, PressesAccountedFor, NEW e \in Events
               PROVE  count[e].told <= rated[e] /\ rated[e] <= count[e].may
    BY DEF IInv, ReactionsCounted
  <2>1. Cardinality(Pressing(e)) \in Nat /\ rated[e] \in Nat /\ count[e].may \in Nat
    BY PressingIsFinite DEF TypeOK, ServerTypes, CountTypes
  <2>2. QED
    BY <2>1 DEF PressesAccountedFor
<1>2. QED
  BY <1>1, Invariance, PTL
================================================================================
