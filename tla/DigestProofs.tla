---------------------------- MODULE DigestProofs ----------------------------
(***************************************************************************)
(* Machine-checked proofs about Digest, for every set of users, number of  *)
(* job slots, calendar, choice of quiet hours and number of troubles.      *)
(***************************************************************************)
EXTENDS Digest, FiniteSetTheorems, TLAPS

(* The cron job of a day is not ahead of the clock, and its lists are      *)
(* empty while it does not run.                                            *)
CronInTime ==
  /\ cron.day <= clock.day
  /\ cron.phase = "idle" => cron.left = {} /\ cron.done = {}

(* Jobs that may still file the digest k, and those that filed it and have *)
(* still to send it over c.                                                *)
Ranking(k) == {w \in Workers : job[w].phase = "rank" /\ job[w].key = k}
Sending(k, c) == {w \in Workers : job[w].phase = "send" /\ job[w].key = k /\ c \in job[w].left}

Listed(u) == u \in cron.left \cup cron.done

(* How many more jobs for k today's lists hold: the one being gone through *)
(* and, for a user listed as daily who has changed to weekly since, the    *)
(* weekly one.                                                             *)
OnThisList(k) == IF k[2] = cron.day /\ k[1] \in cron.left THEN 1 ELSE 0

OnNextList(k) ==
  IF /\ k[2] = cron.day /\ cron.phase = "daily"
     /\ Listed(k[1]) /\ pref[k[1]].frequency = "weekly"
    THEN 1 ELSE 0

(* A user whom the daily list of the day does not have, or not yet, has    *)
(* the one digest of the day still to come.                                *)
Allowed(k) ==
  IF k[2] > cron.day \/ (k[2] = cron.day /\ cron.phase = "daily" /\ ~Listed(k[1]))
    THEN 0 ELSE 1

DigestsAccountedFor ==
  \A k \in Keys :
    entries[k] + queue[k] + Cardinality(Ranking(k)) + OnThisList(k) + OnNextList(k)
      <= Allowed(k) + repeats[k]

SendsAccountedFor ==
  \A k \in Keys, c \in Channels :
    sent[k][c] + Cardinality(Sending(k, c)) <= entries[k]

(* A job has only channels left that its user has wanted since it began.   *)
LeftIsWanted == \A w \in Workers : job[w].left \subseteq job[w].wanted

IInv == TypeOK /\ CronInTime /\ DigestsAccountedFor /\ SendsAccountedFor /\ LeftIsWanted

-----------------------------------------------------------------------------
(* Quiet hours.                                                            *)

(* Subtracting hours on a clock face.                                      *)
LEMMA HoursBetween ==
  ASSUME NEW a \in Hours, NEW b \in Hours
  PROVE  (b - a) % HoursInDay = IF a <= b THEN b - a ELSE b - a + HoursInDay
<1>1. HoursInDay \in Nat \ {0}
  BY DigestAssumption
<1>2. a \in 0..HoursInDay - 1 /\ b \in 0..HoursInDay - 1
  BY DEF Hours
<1>3. QED
  BY <1>1, <1>2, Z3

(* What the code tests, with its case for intervals over midnight, is that *)
(* the wall clock is within the interval.                                  *)
LEMMA QuietHoursAgree ==
  ASSUME NEW q \in (Hours \X Hours) \cup {None}, NEW hour \in Hours
  PROVE  InQuietHours(hour, q) <=> IsQuiet(q, hour)
<1>1. CASE q = None
  BY <1>1 DEF InQuietHours, IsQuiet
<1>2. CASE q # None
  <2>1. q[1] \in Hours /\ q[2] \in Hours
    BY <1>2
  <2>2. /\ (hour - q[1]) % HoursInDay = IF q[1] <= hour THEN hour - q[1] ELSE hour - q[1] + HoursInDay
        /\ (q[2] - q[1]) % HoursInDay = IF q[1] <= q[2] THEN q[2] - q[1] ELSE q[2] - q[1] + HoursInDay
    BY <2>1, HoursBetween
  <2>3. HoursInDay \in Nat
    BY DigestAssumption
  <2> DEFINE a == q[1]
             b == q[2]
  <2>4. a \in 0..HoursInDay - 1 /\ b \in 0..HoursInDay - 1 /\ hour \in 0..HoursInDay - 1
    BY <2>1 DEF Hours
  <2>5. IsQuiet(q, hour) <=> (hour - a) % HoursInDay < (b - a) % HoursInDay
    BY <1>2 DEF IsQuiet
  <2>6. InQuietHours(hour, q) <=>
          a # b /\ IF a < b THEN a <= hour /\ hour < b ELSE hour >= a \/ hour < b
    BY <1>2 DEF InQuietHours
  <2> HIDE DEF a, b
  <2>7. QED
    BY <2>2, <2>3, <2>4, <2>5, <2>6 DEF a, b
<1>3. QED
  BY <1>1, <1>2

-----------------------------------------------------------------------------
(* Types.                                                                  *)
Jobs == [phase : {"idle", "rank", "send"}, key : Keys \cup {None},
         left : SUBSET Channels, wanted : SUBSET Channels]

Typed(j) == j \in Jobs /\ (j.key = None) = (j.phase = "idle")

LEMMA JobsTyped == TypeOK <=> /\ TypeOK
                              /\ job \in [Workers -> Jobs]
                              /\ \A w \in Workers : Typed(job[w])
BY DEF TypeOK, Typed, Jobs

LEMMA NoJobTyped == Typed(NoJob)
BY DEF Typed, Jobs, NoJob

(* A slot takes on another typed job.                                      *)
LEMMA JobUpdate ==
  ASSUME TypeOK, NEW w \in Workers, NEW j, Typed(j), job' = [job EXCEPT ![w] = j]
  PROVE  job' \in [Workers -> Jobs] /\ \A v \in Workers : Typed(job'[v])
<1>1. job \in [Workers -> Jobs] /\ \A v \in Workers : Typed(job[v])
  BY JobsTyped
<1>2. j \in Jobs
  BY DEF Typed
<1>3. QED
  BY <1>1, <1>2

(* The fields of a job that is on.                                         *)
LEMMA JobOn ==
  ASSUME TypeOK, NEW w \in Workers, job[w].phase # "idle"
  PROVE  /\ job[w] \in Jobs /\ job[w].key \in Keys
         /\ job[w].left \subseteq Channels /\ job[w].wanted \subseteq Channels
<1>1. Typed(job[w])
  BY JobsTyped
<1>2. QED
  BY <1>1 DEF Typed, Jobs

LEMMA WantedType ==
  ASSUME NEW u \in Users, NEW p \in Prefs
  PROVE  Wanted(u, p) \subseteq Channels
BY DigestAssumption DEF Wanted

LEMMA NextKeepsType ==
  ASSUME TypeOK, CronInTime, Next
  PROVE  TypeOK'
<1> USE DEF inbox, history
<1>0. /\ LastDay \in Nat \ {0} /\ HoursInDay \in Nat \ {0} /\ CronHour \in Hours
      /\ MaxTroubles \in Nat
      /\ QuietChoices \subseteq (Hours \X Hours) \cup {None}
      /\ ChannelsOf \in [Users -> SUBSET Channels] /\ None \notin Keys
  BY DigestAssumption
<1>1. /\ clock \in [day : Days, hour : Hours] /\ pref \in [Users -> Prefs]
      /\ alive \subseteq Users
      /\ cron \in [phase : {"idle"} \cup Frequencies, day : {0} \cup Days,
                   left : SUBSET Users, done : SUBSET Users]
      /\ queue \in [Keys -> Nat] /\ entries \in [Keys -> Nat] /\ repeats \in [Keys -> Nat]
      /\ job \in [Workers -> Jobs] /\ \A w \in Workers : Typed(job[w])
      /\ sent \in [Keys -> [Channels -> Nat]]
      /\ settled \subseteq due /\ due \subseteq Keys
      /\ troubles \in 0..MaxTroubles
  BY JobsTyped DEF TypeOK
<1>2. Trouble => troubles' \in 0..MaxTroubles
  BY <1>0, <1>1 DEF Trouble
<1>3. ASSUME NEW u \in Users, NEW p \in Prefs, Changed(u, p), troubles' \in 0..MaxTroubles
      PROVE  TypeOK'
  <2>1. pref' \in [Users -> Prefs]
    BY <1>1, <1>3 DEF Changed
  <2>2. /\ job' \in [Workers -> Jobs] /\ \A w \in Workers : Typed(job'[w])
    <3>1. ASSUME NEW w \in Workers PROVE job'[w] \in Jobs /\ Typed(job'[w])
      <4>1. job'[w] = IF job[w].phase # "idle" /\ job[w].key[1] = u
                      THEN [job[w] EXCEPT !.wanted = @ \cup Wanted(u, p)] ELSE job[w]
        BY <1>3 DEF Changed
      <4>2. job[w] \in Jobs /\ Typed(job[w])
        BY <1>1
      <4>3. Wanted(u, p) \subseteq Channels
        BY WantedType
      <4>4. QED
        BY <4>1, <4>2, <4>3 DEF Jobs, Typed
    <3>2. QED
      BY <1>3, <3>1 DEF Changed
  <2>3. repeats' \in [Keys -> Nat]
    <3> DEFINE k == <<u, cron.day>>
    <3>1. repeats' = [repeats EXCEPT ![k] = @ + 1] \/ UNCHANGED repeats
      BY <1>3 DEF Changed
    <3> HIDE DEF k
    <3>2. QED
      BY <1>1, <3>1
  <2>4. settled' \subseteq due
    BY <1>1, <1>3 DEF Changed, MayBeMissed
  <2>5. UNCHANGED <<clock, alive, cron, queue, entries, sent, due>>
    BY <1>3 DEF Changed
  <2>6. QED
    BY <1>1, <1>3, <2>1, <2>2, <2>3, <2>4, <2>5, JobsTyped DEF TypeOK, Typed, Jobs
<1>4. CASE Tick
  <2>1. clock' \in [day : Days, hour : Hours]
    BY <1>0, <1>1, <1>4 DEF Tick, Days, Hours
  <2>2. QED
    BY <1>1, <1>4, <2>1 DEF Tick, TypeOK
<1>5. ASSUME NEW u \in Users, UpdatePreferences(u) PROVE TypeOK'
  <2>1. \E p \in Prefs : Changed(u, p)
    <3>1. pref[u] \in Prefs
      BY <1>1
    <3>2. ASSUME NEW f \in Frequencies PROVE [pref[u] EXCEPT !.frequency = f] \in Prefs
      BY <3>1 DEF Prefs
    <3>3. ASSUME NEW c \in Channels, NEW on \in BOOLEAN
          PROVE  [pref[u] EXCEPT ![c] = on] \in Prefs
      BY <3>1 DEF Prefs, Channels
    <3>4. ASSUME NEW q \in QuietChoices PROVE [pref[u] EXCEPT !.quiet = q] \in Prefs
      BY <1>0, <3>1 DEF Prefs
    <3>5. QED
      BY <1>5, <3>2, <3>3, <3>4 DEF UpdatePreferences
  <2>2. QED
    BY <1>2, <1>3, <1>5, <2>1 DEF UpdatePreferences
<1>6. ASSUME NEW u \in Users, Unsubscribe(u) PROVE TypeOK'
  <2>1. [pref[u] EXCEPT !.email = FALSE] \in Prefs
    <3>1. pref[u] \in Prefs
      BY <1>1
    <3>2. QED
      BY <3>1 DEF Prefs
  <2>2. QED
    BY <1>1, <1>3, <1>6, <2>1 DEF Unsubscribe
<1>7. ASSUME NEW u \in Users, Gone(u) PROVE TypeOK'
  <2>1. settled' \subseteq due
    BY <1>1, <1>7 DEF Gone, MayBeMissed
  <2>2. QED
    BY <1>1, <1>2, <1>7, <2>1 DEF Gone, TypeOK
<1>8. CASE CronStart
  <2>1. DueDigestUserIds("daily") \subseteq Users /\ DueDigestUserIds("weekly") \subseteq Users
    BY <1>1 DEF DueDigestUserIds
  <2>2. clock.day \in Days
    BY <1>1
  <2>3. due' \subseteq Keys /\ due \subseteq due'
    BY <1>1, <1>8, <2>1, <2>2 DEF CronStart, Keys
  <2>4. cron' \in [phase : {"idle"} \cup Frequencies, day : {0} \cup Days,
                   left : SUBSET Users, done : SUBSET Users]
    BY <1>8, <2>1, <2>2 DEF CronStart, Frequencies
  <2>5. QED
    BY <1>1, <1>8, <2>3, <2>4 DEF CronStart, TypeOK
<1>9. ASSUME NEW u \in Users, CronEnqueue(u) PROVE TypeOK'
  <2>1. cron' \in [phase : {"idle"} \cup Frequencies, day : {0} \cup Days,
                   left : SUBSET Users, done : SUBSET Users]
    BY <1>1, <1>9 DEF CronEnqueue
  <2>2. queue' \in [Keys -> Nat]
    <3> DEFINE k == <<u, cron.day>>
    <3>1. queue' = [queue EXCEPT ![k] = @ + 1] /\ queue \in [Keys -> Nat]
      BY <1>1, <1>9 DEF CronEnqueue
    <3> HIDE DEF k
    <3>2. \A i \in Keys : queue'[i] = IF i = k THEN queue[i] + 1 ELSE queue[i]
      BY <3>1
    <3>3. \A i \in Keys : queue'[i] \in Nat
      BY <3>1, <3>2
    <3>4. QED
      BY <3>1, <3>3
  <2>3. QED
    BY <1>1, <1>9, <2>1, <2>2 DEF CronEnqueue, TypeOK
<1>10. CASE CronWeekly
  <2>1. cron' \in [phase : {"idle"} \cup Frequencies, day : {0} \cup Days,
                   left : SUBSET Users, done : SUBSET Users]
    BY <1>1, <1>10 DEF CronWeekly, DueDigestUserIds, Frequencies
  <2>2. QED
    BY <1>1, <1>10, <2>1 DEF CronWeekly, TypeOK
<1>11. CASE CronEnd \/ CronFails
  <2>1. cron' \in [phase : {"idle"} \cup Frequencies, day : {0} \cup Days,
                   left : SUBSET Users, done : SUBSET Users]
    BY <1>1, <1>11 DEF CronEnd, CronFails, Ended, NoCron
  <2>2. settled' \subseteq due /\ troubles' \in 0..MaxTroubles
    BY <1>1, <1>2, <1>11 DEF CronEnd, CronFails
  <2>3. QED
    BY <1>1, <1>11, <2>1, <2>2 DEF CronEnd, CronFails, TypeOK
<1>12. ASSUME NEW k \in Keys, Dequeued(k) PROVE queue' \in [Keys -> Nat]
  BY <1>1, <1>12 DEF Dequeued
<1>13. ASSUME NEW w \in Workers, NEW k \in Keys, Skip(w, k) \/ Start(w, k) PROVE TypeOK'
  <2>1. CASE Skip(w, k)
    BY <1>1, <1>12, <2>1 DEF Skip, Settle, TypeOK
  <2>2. CASE Start(w, k)
    <3>1. k[1] \in Users /\ pref[k[1]] \in Prefs
      BY <1>1 DEF Keys
    <3>2. {c \in ChannelsOf[k[1]] : pref[k[1]][c]} \subseteq Channels
      BY <1>0, <3>1
    <3>3. Wanted(k[1], pref[k[1]]) \subseteq Channels
      BY <3>1, WantedType
    <3> DEFINE j == [phase |-> "rank", key |-> k,
                     left |-> {c \in ChannelsOf[k[1]] : pref[k[1]][c]},
                     wanted |-> Wanted(k[1], pref[k[1]])]
    <3>4. Typed(j)
      BY <1>0, <3>2, <3>3 DEF Typed, Jobs
    <3>5. job' = [job EXCEPT ![w] = j]
      BY <2>2 DEF Start
    <3> HIDE DEF j
    <3>6. job' \in [Workers -> Jobs] /\ \A v \in Workers : Typed(job'[v])
      BY <3>4, <3>5, JobUpdate
    <3>7. UNCHANGED <<clock, pref, alive, cron, inbox, history, troubles>>
          /\ queue' \in [Keys -> Nat]
      BY <1>12, <2>2 DEF Start
    <3>8. QED
      BY <1>1, <3>6, <3>7 DEF TypeOK, Typed, Jobs
  <2>3. QED
    BY <1>13, <2>1, <2>2
<1>14. ASSUME NEW w \in Workers, Ends(w), UNCHANGED <<clock, pref, alive, cron, queue, inbox,
                                                      due, repeats>>,
              troubles' \in 0..MaxTroubles
       PROVE  TypeOK'
  <2>1. job' \in [Workers -> Jobs] /\ \A v \in Workers : Typed(job'[v])
    BY <1>14, NoJobTyped, JobUpdate DEF Ends
  <2>2. settled' \subseteq due
    BY <1>1, <1>14 DEF Ends, Settle
  <2>3. QED
    BY <1>1, <1>14, <2>1, <2>2 DEF TypeOK, Typed, Jobs
<1>15. ASSUME NEW w \in Workers, NothingFiled(w) \/ Finish(w) \/ Abort(w) PROVE TypeOK'
  BY <1>1, <1>2, <1>14, <1>15 DEF NothingFiled, Finish, Abort
<1>16. ASSUME NEW w \in Workers, File(w) PROVE TypeOK'
  <2>1. job[w] \in Jobs /\ job[w].key \in Keys
    BY <1>16, JobOn DEF File
  <2> DEFINE j == [job[w] EXCEPT !.phase = "send"]
  <2>2. Typed(j)
    BY <1>0, <2>1 DEF Typed, Jobs
  <2>3. job' = [job EXCEPT ![w] = j]
    BY <1>16 DEF File
  <2> HIDE DEF j
  <2>4. job' \in [Workers -> Jobs] /\ \A v \in Workers : Typed(job'[v])
    BY <2>2, <2>3, JobUpdate
  <2>5. entries' \in [Keys -> Nat] /\ UNCHANGED <<clock, pref, alive, cron, queue, sent,
                                                  history, troubles>>
    BY <1>1, <1>16, <2>1 DEF File
  <2>6. QED
    BY <1>1, <2>4, <2>5 DEF TypeOK, Typed, Jobs
<1>17. ASSUME NEW w \in Workers, NEW c \in Channels, Send(w, c) PROVE TypeOK'
  <2>1. job[w] \in Jobs /\ job[w].key \in Keys /\ job[w].phase = "send"
    BY <1>17, JobOn DEF Send
  <2> DEFINE j == [job[w] EXCEPT !.left = @ \ {c}]
  <2>2. Typed(j)
    BY <1>0, <2>1 DEF Typed, Jobs
  <2>3. job' = [job EXCEPT ![w] = j]
    BY <1>17 DEF Send
  <2> HIDE DEF j
  <2>4. job' \in [Workers -> Jobs] /\ \A v \in Workers : Typed(job'[v])
    BY <2>2, <2>3, JobUpdate
  <2>5. sent' \in [Keys -> [Channels -> Nat]]
    <3>1. [sent[job[w].key] EXCEPT ![c] = @ + 1] \in [Channels -> Nat]
      BY <1>1, <2>1
    <3>2. \/ UNCHANGED sent
          \/ sent' = [sent EXCEPT ![job[w].key] = [sent[job[w].key] EXCEPT ![c] = @ + 1]]
      BY <1>17 DEF Send
    <3>3. QED
      BY <1>1, <3>1, <3>2
  <2>6. UNCHANGED <<clock, pref, alive, cron, queue, entries, history, troubles>>
    BY <1>17 DEF Send
  <2>7. QED
    BY <1>1, <2>4, <2>5, <2>6 DEF TypeOK, Typed, Jobs
<1>18. ASSUME NEW w \in Workers, Crash(w) PROVE TypeOK'
  <2>1. job[w].key \in Keys
    BY <1>18, JobOn DEF Crash
  <2>2. job' \in [Workers -> Jobs] /\ \A v \in Workers : Typed(job'[v])
    BY <1>18, NoJobTyped, JobUpdate DEF Crash
  <2>3. queue' \in [Keys -> Nat] /\ repeats' \in [Keys -> Nat]
    BY <1>1, <1>18, <2>1 DEF Crash
  <2>4. UNCHANGED <<clock, pref, alive, cron, inbox, due, settled>> /\ troubles' \in 0..MaxTroubles
    BY <1>2, <1>18 DEF Crash
  <2>5. QED
    BY <1>1, <2>2, <2>3, <2>4 DEF TypeOK, Typed, Jobs
<1>19. QED
  BY <1>4, <1>5, <1>6, <1>7, <1>8, <1>9, <1>10, <1>11, <1>13, <1>15, <1>16, <1>17, <1>18
  DEF Next, CronSteps, JobSteps

-----------------------------------------------------------------------------
(* Counting jobs.                                                          *)
LEMMA FewerWorkers ==
  ASSUME NEW S, NEW T, S \subseteq T, T \subseteq Workers
  PROVE  /\ Cardinality(S) \in Nat /\ Cardinality(T) \in Nat
         /\ Cardinality(S) <= Cardinality(T)
<1>1. IsFiniteSet(T)
  BY DigestAssumption, FS_Subset
<1>2. QED
  BY <1>1, FS_Subset, FS_CardinalityType

LEMMA OneWorkerLess ==
  ASSUME NEW T, T \subseteq Workers, NEW w \in T, NEW S, S \subseteq T \ {w}
  PROVE  /\ Cardinality(S) \in Nat /\ Cardinality(T) \in Nat
         /\ Cardinality(S) + 1 <= Cardinality(T)
<1>1. IsFiniteSet(T) /\ T \ {w} \subseteq Workers
  BY DigestAssumption, FS_Subset
<1>2. Cardinality(T \ {w}) = Cardinality(T) - 1
  BY <1>1, FS_RemoveElement
<1>3. Cardinality(S) <= Cardinality(T \ {w}) /\ Cardinality(S) \in Nat
  BY <1>1, FewerWorkers
<1>4. Cardinality(T) \in Nat
  BY <1>1, FS_CardinalityType
<1>5. QED
  BY <1>2, <1>3, <1>4

LEMMA OneWorkerMore ==
  ASSUME NEW T, T \subseteq Workers, NEW w \in Workers, NEW S, S \subseteq T \cup {w}
  PROVE  /\ Cardinality(S) \in Nat /\ Cardinality(T) \in Nat
         /\ Cardinality(S) <= Cardinality(T) + 1
<1>1. IsFiniteSet(T) /\ T \cup {w} \subseteq Workers
  BY DigestAssumption, FS_Subset
<1>2. Cardinality(T \cup {w}) <= Cardinality(T) + 1 /\ Cardinality(T) \in Nat
  <2>1. Cardinality(T) \in Nat
    BY <1>1, FS_CardinalityType
  <2>2. Cardinality(T \cup {w}) = IF w \in T THEN Cardinality(T) ELSE Cardinality(T) + 1
    BY <1>1, FS_AddElement
  <2>3. QED
    BY <2>1, <2>2
<1>3. /\ Cardinality(S) <= Cardinality(T \cup {w}) /\ Cardinality(S) \in Nat
      /\ Cardinality(T \cup {w}) \in Nat
  BY <1>1, FewerWorkers
<1>4. QED
  BY <1>2, <1>3

(* The numbers the accounts add up.                                        *)
LEMMA AccountTypes ==
  ASSUME TypeOK
  PROVE  /\ \A k \in Keys : /\ entries[k] \in Nat /\ queue[k] \in Nat /\ repeats[k] \in Nat
                            /\ Ranking(k) \subseteq Workers /\ Cardinality(Ranking(k)) \in Nat
                            /\ OnThisList(k) \in {0, 1} /\ OnNextList(k) \in {0, 1}
                            /\ Allowed(k) \in {0, 1}
         /\ \A k \in Keys, c \in Channels :
              /\ sent[k][c] \in Nat
              /\ Sending(k, c) \subseteq Workers /\ Cardinality(Sending(k, c)) \in Nat
<1>1. /\ queue \in [Keys -> Nat] /\ entries \in [Keys -> Nat] /\ repeats \in [Keys -> Nat]
      /\ sent \in [Keys -> [Channels -> Nat]]
  BY DEF TypeOK
<1>2. \A k : Ranking(k) \subseteq Workers /\ Cardinality(Ranking(k)) \in Nat
  <2>1. \A k : Ranking(k) \subseteq Workers
    BY DEF Ranking
  <2>2. QED
    BY <2>1, FewerWorkers
<1>3. \A k, c : Sending(k, c) \subseteq Workers /\ Cardinality(Sending(k, c)) \in Nat
  <2>1. \A k, c : Sending(k, c) \subseteq Workers
    BY DEF Sending
  <2>2. QED
    BY <2>1, FewerWorkers
<1>4. QED
  BY <1>1, <1>2, <1>3 DEF OnThisList, OnNextList, Allowed

-----------------------------------------------------------------------------
(* One digest a day.                                                       *)

(* What a step must do to the accounts of the digest k.                    *)
DigestKept(k) ==
  entries'[k] + queue'[k] + Cardinality(Ranking(k)') + OnThisList(k)' + OnNextList(k)'
      + Allowed(k) + repeats[k]
    <= entries[k] + queue[k] + Cardinality(Ranking(k)) + OnThisList(k) + OnNextList(k)
         + Allowed(k)' + repeats'[k]

LEMMA DigestsKept ==
  ASSUME TypeOK, TypeOK', DigestsAccountedFor, \A k \in Keys : DigestKept(k)
  PROVE  DigestsAccountedFor'
<1>1. ASSUME NEW k \in Keys
      PROVE  entries'[k] + queue'[k] + Cardinality(Ranking(k)') + OnThisList(k)' + OnNextList(k)'
               <= Allowed(k)' + repeats'[k]
  <2>1. /\ entries[k] \in Nat /\ queue[k] \in Nat /\ repeats[k] \in Nat
        /\ Cardinality(Ranking(k)) \in Nat
        /\ OnThisList(k) \in {0, 1} /\ OnNextList(k) \in {0, 1} /\ Allowed(k) \in {0, 1}
    BY AccountTypes
  <2>2. /\ entries'[k] \in Nat /\ queue'[k] \in Nat /\ repeats'[k] \in Nat
        /\ Cardinality(Ranking(k)') \in Nat
        /\ OnThisList(k)' \in {0, 1} /\ OnNextList(k)' \in {0, 1} /\ Allowed(k)' \in {0, 1}
    <3>1. /\ queue' \in [Keys -> Nat] /\ entries' \in [Keys -> Nat]
          /\ repeats' \in [Keys -> Nat]
      BY DEF TypeOK
    <3>2. Ranking(k)' \subseteq Workers
      BY DEF Ranking
    <3>3. QED
      BY <3>1, <3>2, FewerWorkers DEF OnThisList, OnNextList, Allowed
  <2>3. entries[k] + queue[k] + Cardinality(Ranking(k)) + OnThisList(k) + OnNextList(k)
          <= Allowed(k) + repeats[k]
    BY DEF DigestsAccountedFor
  <2>4. DigestKept(k)
    OBVIOUS
  <2>5. QED
    BY <2>1, <2>2, <2>3, <2>4 DEF DigestKept
<1>2. QED
  BY <1>1 DEF DigestsAccountedFor

(* Steps of the slots leave the lists and the preferences alone.           *)
LEMMA SlotsKeepDigests ==
  ASSUME TypeOK, TypeOK', DigestsAccountedFor, UNCHANGED <<cron, pref>>,
         \A k \in Keys : entries'[k] + queue'[k] + Cardinality(Ranking(k)') + repeats[k]
                           <= entries[k] + queue[k] + Cardinality(Ranking(k)) + repeats'[k]
  PROVE  DigestsAccountedFor'
<1>1. \A k \in Keys : /\ OnThisList(k)' = OnThisList(k) /\ OnNextList(k)' = OnNextList(k)
                      /\ Allowed(k)' = Allowed(k)
  BY DEF OnThisList, OnNextList, Allowed, Listed
<1>2. ASSUME NEW k \in Keys PROVE DigestKept(k)
  <2>1. /\ entries[k] \in Nat /\ queue[k] \in Nat /\ repeats[k] \in Nat
        /\ Cardinality(Ranking(k)) \in Nat
        /\ OnThisList(k) \in {0, 1} /\ OnNextList(k) \in {0, 1} /\ Allowed(k) \in {0, 1}
    BY AccountTypes
  <2>2. /\ entries'[k] \in Nat /\ queue'[k] \in Nat /\ repeats'[k] \in Nat
        /\ Cardinality(Ranking(k)') \in Nat
    <3>1. /\ queue' \in [Keys -> Nat] /\ entries' \in [Keys -> Nat]
          /\ repeats' \in [Keys -> Nat]
      BY DEF TypeOK
    <3>2. Ranking(k)' \subseteq Workers
      BY DEF Ranking
    <3>3. QED
      BY <3>1, <3>2, FewerWorkers
  <2>3. QED
    BY <1>1, <2>1, <2>2 DEF DigestKept
<1>3. QED
  BY <1>2, DigestsKept

(* What a slot's new job j changes in the counts.                          *)
LEMMA JobsAfter ==
  ASSUME TypeOK, NEW w \in Workers, NEW j, job' = [job EXCEPT ![w] = j], NEW k \in Keys
  PROVE  /\ Ranking(k)' \subseteq Ranking(k) \cup {w}
         /\ ~(j.phase = "rank" /\ j.key = k) => Ranking(k)' \subseteq Ranking(k) \ {w}
         /\ \A c \in Channels :
              /\ Sending(k, c)' \subseteq Sending(k, c) \cup {w}
              /\ ~(j.phase = "send" /\ j.key = k /\ c \in j.left)
                   => Sending(k, c)' \subseteq Sending(k, c) \ {w}
<1>1. job'[w] = j /\ \A v \in Workers \ {w} : job'[v] = job[v]
  BY DEF TypeOK
<1>2. QED
  BY <1>1 DEF Ranking, Sending

LEMMA RankingAfter ==
  ASSUME TypeOK, NEW w \in Workers, NEW j, job' = [job EXCEPT ![w] = j], NEW k \in Keys
  PROVE  /\ Cardinality(Ranking(k)) \in Nat /\ Cardinality(Ranking(k)') \in Nat
         /\ Cardinality(Ranking(k)') <= Cardinality(Ranking(k)) + 1
         /\ ~(j.phase = "rank" /\ j.key = k) => Cardinality(Ranking(k)') <= Cardinality(Ranking(k))
         /\ (w \in Ranking(k) /\ ~(j.phase = "rank" /\ j.key = k))
              => Cardinality(Ranking(k)') + 1 <= Cardinality(Ranking(k))
<1>1. Ranking(k) \subseteq Workers
  BY DEF Ranking
<1>2. /\ Ranking(k)' \subseteq Ranking(k) \cup {w}
      /\ ~(j.phase = "rank" /\ j.key = k) => Ranking(k)' \subseteq Ranking(k) \ {w}
  BY JobsAfter
<1>3. /\ Cardinality(Ranking(k)) \in Nat /\ Cardinality(Ranking(k)') \in Nat
      /\ Cardinality(Ranking(k)') <= Cardinality(Ranking(k)) + 1
  BY <1>1, <1>2, OneWorkerMore
<1>4. Ranking(k)' \subseteq Ranking(k)
        => Cardinality(Ranking(k)') <= Cardinality(Ranking(k))
  BY <1>1, FewerWorkers
<1>5. (w \in Ranking(k) /\ Ranking(k)' \subseteq Ranking(k) \ {w})
        => Cardinality(Ranking(k)') + 1 <= Cardinality(Ranking(k))
  BY <1>1, OneWorkerLess
<1>6. QED
  BY <1>2, <1>3, <1>4, <1>5

LEMMA JobStepsKeepDigests ==
  ASSUME TypeOK, TypeOK', DigestsAccountedFor, NEW w \in Workers,
         \/ \E k \in Keys : Skip(w, k) \/ Start(w, k)
         \/ NothingFiled(w) \/ Finish(w) \/ Abort(w)
         \/ File(w)
         \/ \E c \in Channels : Send(w, c)
         \/ Crash(w)
  PROVE  DigestsAccountedFor'
<1> USE DEF inbox, history
<1>0. /\ queue \in [Keys -> Nat] /\ entries \in [Keys -> Nat] /\ repeats \in [Keys -> Nat]
      /\ job \in [Workers -> Jobs]
  BY JobsTyped DEF TypeOK
<1>1. UNCHANGED <<cron, pref>>
  BY DEF Skip, Start, NothingFiled, Finish, Abort, File, Send, Crash
<1>2. SUFFICES ASSUME NEW i \in Keys
               PROVE  entries'[i] + queue'[i] + Cardinality(Ranking(i)') + repeats[i]
                        <= entries[i] + queue[i] + Cardinality(Ranking(i)) + repeats'[i]
  BY <1>1, SlotsKeepDigests
<1>3. entries[i] \in Nat /\ queue[i] \in Nat /\ repeats[i] \in Nat
  BY <1>0
<1>4. ASSUME NEW k \in Keys, Dequeued(k)
      PROVE  queue'[i] = IF i = k THEN queue[i] - 1 ELSE queue[i]
  BY <1>0, <1>4 DEF Dequeued
<1>5. ASSUME NEW k \in Keys, Skip(w, k)
      PROVE  entries'[i] + queue'[i] + Cardinality(Ranking(i)') + repeats[i]
               <= entries[i] + queue[i] + Cardinality(Ranking(i)) + repeats'[i]
  <2>1. UNCHANGED <<entries, repeats, job>> /\ Dequeued(k)
    BY <1>5 DEF Skip
  <2>2. Ranking(i)' = Ranking(i) /\ Cardinality(Ranking(i)) \in Nat
    BY <2>1, AccountTypes DEF Ranking
  <2>3. QED
    BY <1>3, <1>4, <2>1, <2>2
<1>6. ASSUME NEW k \in Keys, Start(w, k)
      PROVE  entries'[i] + queue'[i] + Cardinality(Ranking(i)') + repeats[i]
               <= entries[i] + queue[i] + Cardinality(Ranking(i)) + repeats'[i]
  <2> DEFINE j == [phase |-> "rank", key |-> k,
                   left |-> {c \in ChannelsOf[k[1]] : pref[k[1]][c]},
                   wanted |-> Wanted(k[1], pref[k[1]])]
  <2>1. UNCHANGED <<entries, repeats>> /\ Dequeued(k) /\ job' = [job EXCEPT ![w] = j]
    BY <1>6 DEF Start
  <2>2. j.key = k
    OBVIOUS
  <2> HIDE DEF j
  <2>3. /\ Cardinality(Ranking(i)) \in Nat /\ Cardinality(Ranking(i)') \in Nat
        /\ Cardinality(Ranking(i)') <= Cardinality(Ranking(i)) + 1
        /\ i # k => Cardinality(Ranking(i)') <= Cardinality(Ranking(i))
    BY <2>1, <2>2, RankingAfter
  <2>4. QED
    BY <1>3, <1>4, <2>1, <2>3
<1>7. ASSUME UNCHANGED <<entries, queue, repeats>>, NEW j, job' = [job EXCEPT ![w] = j],
             j.phase # "rank"
      PROVE  entries'[i] + queue'[i] + Cardinality(Ranking(i)') + repeats[i]
               <= entries[i] + queue[i] + Cardinality(Ranking(i)) + repeats'[i]
  <2>1. /\ Cardinality(Ranking(i)) \in Nat /\ Cardinality(Ranking(i)') \in Nat
        /\ Cardinality(Ranking(i)') <= Cardinality(Ranking(i))
    BY <1>7, RankingAfter
  <2>2. QED
    BY <1>3, <1>7, <2>1
<1>8. CASE NothingFiled(w) \/ Finish(w) \/ Abort(w)
  <2>1. UNCHANGED <<entries, queue, repeats>> /\ job' = [job EXCEPT ![w] = NoJob]
    BY <1>8 DEF NothingFiled, Finish, Abort, Ends
  <2>2. NoJob.phase # "rank"
    BY DEF NoJob
  <2>3. QED
    BY <1>7, <2>1, <2>2
<1>9. ASSUME NEW c \in Channels, Send(w, c)
      PROVE  entries'[i] + queue'[i] + Cardinality(Ranking(i)') + repeats[i]
               <= entries[i] + queue[i] + Cardinality(Ranking(i)) + repeats'[i]
  <2> DEFINE j == [job[w] EXCEPT !.left = @ \ {c}]
  <2>1. UNCHANGED <<entries, queue, repeats>> /\ job' = [job EXCEPT ![w] = j]
    BY <1>9 DEF Send
  <2>2. j.phase # "rank"
    BY <1>0, <1>9 DEF Send, Jobs
  <2> HIDE DEF j
  <2>3. QED
    BY <1>7, <2>1, <2>2
<1>10. CASE File(w)
  <2> DEFINE j == [job[w] EXCEPT !.phase = "send"]
             k == job[w].key
  <2>1. /\ UNCHANGED <<queue, repeats>> /\ job' = [job EXCEPT ![w] = j]
        /\ job[w].phase = "rank"
        /\ entries' = [entries EXCEPT ![k] = @ + 1]
    BY <1>10 DEF File
  <2>2. j.phase = "send" /\ k \in Keys /\ w \in Ranking(k)
    BY <1>0, <2>1, JobOn DEF Jobs, Ranking
  <2> HIDE DEF j, k
  <2>3. /\ Cardinality(Ranking(i)) \in Nat /\ Cardinality(Ranking(i)') \in Nat
        /\ Cardinality(Ranking(i)') <= Cardinality(Ranking(i))
        /\ i = k => Cardinality(Ranking(i)') + 1 <= Cardinality(Ranking(i))
    BY <2>1, <2>2, RankingAfter
  <2>4. entries'[i] = IF i = k THEN entries[i] + 1 ELSE entries[i]
    BY <1>0, <2>1
  <2>5. QED
    BY <1>3, <2>1, <2>3, <2>4
<1>11. CASE Crash(w)
  <2> DEFINE k == job[w].key
  <2>1. /\ UNCHANGED entries /\ job' = [job EXCEPT ![w] = NoJob]
        /\ queue' = [queue EXCEPT ![k] = @ + 1]
        /\ job[w].phase # "idle"
        /\ job[w].phase = "send" => repeats' = [repeats EXCEPT ![k] = @ + 1]
        /\ job[w].phase # "send" => repeats' = repeats
    BY <1>11 DEF Crash
  <2>2. job[w].phase \in {"rank", "send"} /\ NoJob.phase # "rank"
        /\ (job[w].phase = "rank" => w \in Ranking(k))
    BY <1>0, <2>1 DEF Jobs, NoJob, Ranking
  <2> HIDE DEF k
  <2>3. /\ Cardinality(Ranking(i)) \in Nat /\ Cardinality(Ranking(i)') \in Nat
        /\ Cardinality(Ranking(i)') <= Cardinality(Ranking(i))
        /\ (job[w].phase = "rank" /\ i = k)
             => Cardinality(Ranking(i)') + 1 <= Cardinality(Ranking(i))
    BY <2>1, <2>2, RankingAfter
  <2>4. /\ queue'[i] = IF i = k THEN queue[i] + 1 ELSE queue[i]
        /\ repeats'[i] = IF i = k /\ job[w].phase = "send" THEN repeats[i] + 1 ELSE repeats[i]
    BY <1>0, <2>1
  <2>5. QED
    BY <1>3, <2>1, <2>2, <2>3, <2>4
<1>12. QED
  BY <1>5, <1>6, <1>8, <1>9, <1>10, <1>11

(* Steps of the cron job and of the users leave the slots alone.           *)
LEMMA ListsKeepDigests ==
  ASSUME TypeOK, TypeOK', DigestsAccountedFor, UNCHANGED entries,
         \A k : Ranking(k)' = Ranking(k),
         \A k \in Keys : queue'[k] + OnThisList(k)' + OnNextList(k)' + Allowed(k) + repeats[k]
                           <= queue[k] + OnThisList(k) + OnNextList(k) + Allowed(k)' + repeats'[k]
  PROVE  DigestsAccountedFor'
<1>1. ASSUME NEW k \in Keys PROVE DigestKept(k)
  <2>1. /\ entries[k] \in Nat /\ queue[k] \in Nat /\ repeats[k] \in Nat
        /\ Cardinality(Ranking(k)) \in Nat
        /\ OnThisList(k) \in {0, 1} /\ OnNextList(k) \in {0, 1} /\ Allowed(k) \in {0, 1}
    BY AccountTypes
  <2>2. /\ queue'[k] \in Nat /\ repeats'[k] \in Nat
        /\ OnThisList(k)' \in {0, 1} /\ OnNextList(k)' \in {0, 1} /\ Allowed(k)' \in {0, 1}
    <3>1. queue' \in [Keys -> Nat] /\ repeats' \in [Keys -> Nat]
      BY DEF TypeOK
    <3>2. QED
      BY <3>1 DEF OnThisList, OnNextList, Allowed
  <2>3. QED
    BY <2>1, <2>2 DEF DigestKept
<1>2. QED
  BY <1>1, DigestsKept

LEMMA ChangedKeepsDigests ==
  ASSUME TypeOK, TypeOK', DigestsAccountedFor, NEW u \in Users, NEW p \in Prefs, Changed(u, p)
  PROVE  DigestsAccountedFor'
<1>1. /\ UNCHANGED <<entries, sent, queue, cron>> /\ pref' = [pref EXCEPT ![u] = p]
  BY DEF Changed, inbox
<1>2. \A w \in Workers : job'[w].phase = job[w].phase /\ job'[w].key = job[w].key
  <2>1. \A w \in Workers : job[w] \in Jobs
    BY JobsTyped
  <2>2. QED
    BY <2>1 DEF Changed, Jobs
<1>3. \A k : Ranking(k)' = Ranking(k)
  BY <1>2 DEF Ranking
<1>4. ASSUME NEW k \in Keys
      PROVE  queue'[k] + OnThisList(k)' + OnNextList(k)' + Allowed(k) + repeats[k]
               <= queue[k] + OnThisList(k) + OnNextList(k) + Allowed(k)' + repeats'[k]
  <2>1. OnThisList(k)' = OnThisList(k) /\ Allowed(k)' = Allowed(k) /\ queue'[k] = queue[k]
    BY <1>1 DEF OnThisList, Allowed, Listed
  <2>2. repeats[k] \in Nat /\ queue[k] \in Nat /\ OnThisList(k) \in {0, 1}
        /\ Allowed(k) \in {0, 1} /\ OnNextList(k) \in {0, 1}
    BY AccountTypes
  <2> DEFINE i == <<u, cron.day>>
  <2>3. /\ OnBothLists(u, p.frequency) => repeats' = [repeats EXCEPT ![i] = @ + 1]
        /\ ~OnBothLists(u, p.frequency) => repeats' = repeats
    BY DEF Changed
  <2>4. repeats \in [Keys -> Nat]
    BY DEF TypeOK
  <2>5. (k = i /\ OnBothLists(u, p.frequency)) => repeats'[k] = repeats[k] + 1
    <3> HIDE DEF i
    <3>1. QED
      BY <2>3, <2>4
  <2>6. repeats'[k] = repeats[k] \/ repeats'[k] = repeats[k] + 1
    <3> HIDE DEF i
    <3>1. QED
      BY <2>2, <2>3, <2>4
  <2>7. OnNextList(k)' = 1 => OnNextList(k) = 1 \/ repeats'[k] = repeats[k] + 1
    <3> SUFFICES ASSUME OnNextList(k)' = 1, OnNextList(k) # 1 PROVE repeats'[k] = repeats[k] + 1
      OBVIOUS
    <3>1. /\ k[2] = cron.day /\ cron.phase = "daily" /\ Listed(k[1])
          /\ pref'[k[1]].frequency = "weekly" /\ pref[k[1]].frequency # "weekly"
      BY <1>1 DEF OnNextList, Listed
    <3>2. k[1] = u /\ p.frequency = "weekly"
      BY <1>1, <3>1 DEF TypeOK
    <3>3. k = i /\ OnBothLists(u, p.frequency)
      BY <3>1, <3>2 DEF Keys, OnBothLists, Listed
    <3>4. QED
      BY <2>5, <3>3
  <2>8. OnNextList(k)' \in {0, 1}
    BY DEF OnNextList
  <2>9. QED
    BY <2>1, <2>2, <2>6, <2>7, <2>8
<1>5. QED
  BY <1>1, <1>3, <1>4, ListsKeepDigests

LEMMA CronKeepsDigests ==
  ASSUME TypeOK, TypeOK', CronInTime, DigestsAccountedFor,
         CronStart \/ CronSteps \/ CronFails
  PROVE  DigestsAccountedFor'
<1> USE DEF inbox, history
<1>1. UNCHANGED <<entries, job, pref, repeats>>
  BY DEF CronStart, CronSteps, CronEnqueue, CronWeekly, CronEnd, CronFails
<1>2. \A k : Ranking(k)' = Ranking(k)
  BY <1>1 DEF Ranking
<1>3. SUFFICES ASSUME NEW k \in Keys
               PROVE  queue'[k] + OnThisList(k)' + OnNextList(k)' + Allowed(k)
                        <= queue[k] + OnThisList(k) + OnNextList(k) + Allowed(k)'
  <2>1. \A k \in Keys : repeats'[k] = repeats[k] /\ repeats[k] \in Nat /\ queue[k] \in Nat
                        /\ OnThisList(k) \in {0, 1} /\ Allowed(k) \in {0, 1}
                        /\ OnNextList(k) \in {0, 1}
    BY <1>1, AccountTypes
  <2>2. \A k \in Keys : queue'[k] \in Nat
    BY DEF TypeOK
  <2>3. \A k \in Keys : /\ OnThisList(k)' \in {0, 1} /\ Allowed(k)' \in {0, 1}
                        /\ OnNextList(k)' \in {0, 1}
    BY DEF OnThisList, Allowed, OnNextList
  <2>4. \A k \in Keys : queue'[k] + OnThisList(k)' + OnNextList(k)' + Allowed(k)
                          <= queue[k] + OnThisList(k) + OnNextList(k) + Allowed(k)'
    BY <1>3
  <2>5. \A k \in Keys : queue'[k] + OnThisList(k)' + OnNextList(k)' + Allowed(k) + repeats[k]
                          <= queue[k] + OnThisList(k) + OnNextList(k) + Allowed(k)' + repeats'[k]
    BY <2>1, <2>2, <2>3, <2>4
  <2>6. QED
    BY <1>1, <1>2, <2>5, ListsKeepDigests
<1>4. /\ queue[k] \in Nat /\ k[2] \in Nat /\ k[1] \in Users
      /\ cron.day \in Nat /\ clock.day \in Nat
      /\ cron.left \subseteq Users /\ cron.done \subseteq Users
      /\ cron \in [phase : {"idle"} \cup Frequencies, day : {0} \cup Days,
                   left : SUBSET Users, done : SUBSET Users]
  <2>1. \A d \in {0} \cup Days : d \in Nat
    BY DigestAssumption DEF Days
  <2>2. k[2] \in Days /\ k[1] \in Users
    BY DEF Keys
  <2>3. cron.day \in {0} \cup Days /\ clock.day \in Days
    BY DEF TypeOK
  <2>4. QED
    BY <2>1, <2>2, <2>3, AccountTypes DEF TypeOK
<1>5. OnThisList(k) \in {0, 1} /\ Allowed(k) \in {0, 1} /\ OnNextList(k) \in {0, 1}
  BY DEF OnThisList, Allowed, OnNextList
<1>6. CASE CronStart
  <2>1. /\ cron.phase = "idle" /\ cron.left = {} /\ cron.day < clock.day /\ queue' = queue
        /\ cron'.phase = "daily" /\ cron'.day = clock.day
        /\ cron'.left = DueDigestUserIds("daily") /\ cron'.done = {}
    BY <1>4, <1>6 DEF CronStart, CronInTime
  <2>2. OnThisList(k) = 0 /\ OnNextList(k) = 0
    BY <2>1 DEF OnThisList, OnNextList
  <2>3. CASE k[2] = clock.day
    <3>1. Allowed(k) = 0
      BY <1>4, <2>1, <2>3 DEF Allowed
    <3>2. OnNextList(k)' = 0
      BY <1>1, <2>1 DEF OnNextList, Listed, DueDigestUserIds
    <3>3. OnThisList(k)' = Allowed(k)'
      BY <1>4, <2>1, <2>3 DEF OnThisList, Allowed, Listed
    <3>4. OnThisList(k)' \in {0, 1}
      BY DEF OnThisList
    <3>5. QED
      BY <1>4, <2>1, <2>2, <3>1, <3>2, <3>3, <3>4
  <2>4. CASE k[2] # clock.day
    <3>1. OnThisList(k)' = 0 /\ OnNextList(k)' = 0
      BY <2>1, <2>4 DEF OnThisList, OnNextList
    <3>2. Allowed(k) <= Allowed(k)'
      BY <1>4, <2>1, <2>4 DEF Allowed
    <3>3. Allowed(k)' \in {0, 1}
      BY DEF Allowed
    <3>4. QED
      BY <1>4, <1>5, <2>1, <2>2, <3>1, <3>2, <3>3
  <2>5. QED
    BY <2>3, <2>4
<1>7. ASSUME NEW u \in Users, CronEnqueue(u)
      PROVE  queue'[k] + OnThisList(k)' + OnNextList(k)' + Allowed(k)
               <= queue[k] + OnThisList(k) + OnNextList(k) + Allowed(k)'
  <2> DEFINE i == <<u, cron.day>>
  <2>1. /\ u \in cron.left /\ queue' = [queue EXCEPT ![i] = @ + 1]
        /\ cron'.phase = cron.phase /\ cron'.day = cron.day
        /\ cron'.left = cron.left \ {u} /\ cron'.done = cron.done \cup {u}
    BY <1>4, <1>7 DEF CronEnqueue
  <2>2. \A v : Listed(v)' <=> Listed(v)
    BY <2>1 DEF Listed
  <2>3. OnNextList(k)' = OnNextList(k) /\ Allowed(k)' = Allowed(k)
    BY <1>1, <2>1, <2>2 DEF OnNextList, Allowed
  <2>4. k = i <=> k[1] = u /\ k[2] = cron.day
    BY DEF Keys
  <2>5. queue \in [Keys -> Nat]
    BY DEF TypeOK
  <2>6. queue'[k] = IF k = i THEN queue[k] + 1 ELSE queue[k]
    <3> HIDE DEF i
    <3>1. QED
      BY <2>1, <2>5
  <2>7. IF k = i THEN OnThisList(k) = 1 /\ OnThisList(k)' = 0
                 ELSE OnThisList(k)' = OnThisList(k)
    BY <2>1, <2>4 DEF OnThisList
  <2> HIDE DEF i
  <2>8. QED
    BY <1>4, <1>5, <2>3, <2>6, <2>7
<1>8. CASE CronWeekly
  <2>1. /\ cron.phase = "daily" /\ cron.left = {} /\ queue' = queue
        /\ cron'.phase = "weekly" /\ cron'.day = cron.day
        /\ cron'.left = DueDigestUserIds("weekly") /\ cron'.done = cron.done
    BY <1>4, <1>8 DEF CronWeekly, WeeklyFollows
  <2>2. OnThisList(k) = 0 /\ OnNextList(k)' = 0
    BY <2>1 DEF OnThisList, OnNextList
  <2>3. OnThisList(k)' = 1 => k[2] = cron.day /\ pref[k[1]].frequency = "weekly"
    BY <2>1 DEF OnThisList, DueDigestUserIds
  <2>4. k[2] # cron.day => OnThisList(k)' = 0 /\ Allowed(k)' = Allowed(k)
    BY <2>1 DEF OnThisList, Allowed
  <2>5. k[2] = cron.day => Allowed(k)' = 1
    BY <1>4, <2>1 DEF Allowed
  <2>6. k[2] = cron.day /\ Allowed(k) = 1 /\ pref[k[1]].frequency = "weekly"
          => OnNextList(k) = 1
    BY <2>1 DEF Allowed, OnNextList
  <2>7. OnThisList(k)' \in {0, 1} /\ Allowed(k)' \in {0, 1}
    BY DEF OnThisList, Allowed
  <2>8. QED
    BY <1>4, <1>5, <2>1, <2>2, <2>3, <2>4, <2>5, <2>6, <2>7
<1>9. CASE CronEnd \/ CronFails
  <2>1. /\ queue' = queue /\ cron'.phase = "idle" /\ cron'.day = cron.day /\ cron'.left = {}
    BY <1>9 DEF CronEnd, CronFails, Ended, NoCron
  <2>2. OnThisList(k)' = 0 /\ OnNextList(k)' = 0
    BY <2>1 DEF OnThisList, OnNextList
  <2>3. Allowed(k) <= Allowed(k)' /\ Allowed(k)' \in {0, 1}
    BY <1>4, <2>1 DEF Allowed
  <2>4. QED
    BY <1>4, <1>5, <2>1, <2>2, <2>3
<1>10. QED
  BY <1>6, <1>7, <1>8, <1>9 DEF CronSteps

-----------------------------------------------------------------------------
(* No channel gets more than the inbox.                                    *)
LEMMA SendingAfter ==
  ASSUME TypeOK, NEW w \in Workers, NEW j, job' = [job EXCEPT ![w] = j], NEW k \in Keys,
         NEW c \in Channels
  PROVE  LET sends == j.phase = "send" /\ j.key = k /\ c \in j.left
         IN  /\ Cardinality(Sending(k, c)) \in Nat /\ Cardinality(Sending(k, c)') \in Nat
             /\ Cardinality(Sending(k, c)') <= Cardinality(Sending(k, c)) + 1
             /\ ~sends => Cardinality(Sending(k, c)') <= Cardinality(Sending(k, c))
             /\ (~sends /\ w \in Sending(k, c))
                  => Cardinality(Sending(k, c)') + 1 <= Cardinality(Sending(k, c))
<1> DEFINE sends == j.phase = "send" /\ j.key = k /\ c \in j.left
<1>1. Sending(k, c) \subseteq Workers
  BY DEF Sending
<1>2. /\ Sending(k, c)' \subseteq Sending(k, c) \cup {w}
      /\ ~sends => Sending(k, c)' \subseteq Sending(k, c) \ {w}
  BY JobsAfter
<1> HIDE DEF sends
<1>3. /\ Cardinality(Sending(k, c)) \in Nat /\ Cardinality(Sending(k, c)') \in Nat
      /\ Cardinality(Sending(k, c)') <= Cardinality(Sending(k, c)) + 1
  BY <1>1, <1>2, OneWorkerMore
<1>4. Sending(k, c)' \subseteq Sending(k, c)
        => Cardinality(Sending(k, c)') <= Cardinality(Sending(k, c))
  BY <1>1, FewerWorkers
<1>5. (w \in Sending(k, c) /\ Sending(k, c)' \subseteq Sending(k, c) \ {w})
        => Cardinality(Sending(k, c)') + 1 <= Cardinality(Sending(k, c))
  BY <1>1, OneWorkerLess
<1>6. QED
  BY <1>2, <1>3, <1>4, <1>5 DEF sends

(* ... when the slot takes on a job that is not sending.                   *)
LEMMA NotSending ==
  ASSUME TypeOK, SendsAccountedFor, NEW w \in Workers, NEW j, job' = [job EXCEPT ![w] = j],
         j.phase # "send", UNCHANGED <<entries, sent>>
  PROVE  SendsAccountedFor'
<1>1. ASSUME NEW k \in Keys, NEW c \in Channels
      PROVE  sent'[k][c] + Cardinality(Sending(k, c)') <= entries'[k]
  <2>1. /\ Cardinality(Sending(k, c)) \in Nat /\ Cardinality(Sending(k, c)') \in Nat
        /\ Cardinality(Sending(k, c)') <= Cardinality(Sending(k, c))
    BY SendingAfter
  <2>2. sent[k][c] \in Nat /\ entries[k] \in Nat
        /\ sent[k][c] + Cardinality(Sending(k, c)) <= entries[k]
    BY AccountTypes DEF SendsAccountedFor
  <2>3. QED
    BY <2>1, <2>2
<1>2. QED
  BY <1>1 DEF SendsAccountedFor

LEMMA SlotsKeepSends ==
  ASSUME TypeOK, SendsAccountedFor, NEW w \in Workers, File(w) \/ \E c \in Channels : Send(w, c)
  PROVE  SendsAccountedFor'
<1>0. /\ entries \in [Keys -> Nat] /\ sent \in [Keys -> [Channels -> Nat]]
      /\ job[w] \in Jobs /\ job[w].key \in Keys
  BY JobOn DEF TypeOK, File, Send
<1> DEFINE k == job[w].key
<1>1. CASE File(w)
  <2> DEFINE j == [job[w] EXCEPT !.phase = "send"]
  <2>1. /\ job' = [job EXCEPT ![w] = j] /\ sent' = sent
        /\ entries' = [entries EXCEPT ![k] = @ + 1]
    BY <1>1 DEF File
  <2>2. j.key = k
    BY <1>0 DEF Jobs
  <2> HIDE DEF j, k
  <2>3. ASSUME NEW i \in Keys, NEW c \in Channels
        PROVE  sent'[i][c] + Cardinality(Sending(i, c)') <= entries'[i]
    <3>1. /\ Cardinality(Sending(i, c)) \in Nat /\ Cardinality(Sending(i, c)') \in Nat
          /\ Cardinality(Sending(i, c)') <= Cardinality(Sending(i, c)) + 1
          /\ i # k => Cardinality(Sending(i, c)') <= Cardinality(Sending(i, c))
      BY <2>1, <2>2, SendingAfter
    <3>2. sent[i][c] \in Nat /\ entries[i] \in Nat
          /\ sent[i][c] + Cardinality(Sending(i, c)) <= entries[i]
      BY AccountTypes DEF SendsAccountedFor
    <3>3. entries'[i] = IF i = k THEN entries[i] + 1 ELSE entries[i]
      BY <1>0, <2>1
    <3>4. QED
      BY <2>1, <3>1, <3>2, <3>3
  <2>4. QED
    BY <2>3 DEF SendsAccountedFor
<1>2. ASSUME NEW c \in Channels, Send(w, c) PROVE SendsAccountedFor'
  <2> DEFINE j == [job[w] EXCEPT !.left = @ \ {c}]
  <2>1. /\ job' = [job EXCEPT ![w] = j] /\ entries' = entries
        /\ job[w].phase = "send" /\ c \in job[w].left
        /\ sent' = [sent EXCEPT ![k] = [sent[k] EXCEPT ![c] = @ + 1]] \/ sent' = sent
    BY <1>2 DEF Send
  <2>2. j.key = k /\ j.left = job[w].left \ {c} /\ w \in Sending(k, c)
    BY <1>0, <2>1 DEF Jobs, Sending
  <2>3. ASSUME NEW i \in Keys, NEW b \in Channels
        PROVE  /\ sent'[i][b] \in Nat
               /\ IF i = k /\ b = c THEN sent'[i][b] <= sent[i][b] + 1
                                    ELSE sent'[i][b] = sent[i][b]
    <3>1. sent[k] \in [Channels -> Nat] /\ sent[i] \in [Channels -> Nat]
      BY <1>0
    <3> DEFINE more == [sent[k] EXCEPT ![c] = @ + 1]
    <3>2. more[b] = IF b = c THEN sent[k][b] + 1 ELSE sent[k][b]
      BY <3>1
    <3> HIDE DEF k, more
    <3>3. sent'[i] = sent[i] \/ (i = k /\ sent'[i] = more)
      BY <1>0, <2>1 DEF more
    <3>4. sent[i][b] \in Nat
      BY <3>1
    <3>5. QED
      BY <3>2, <3>3, <3>4
  <2>4. \A b \in Channels : b \in j.left => b \in job[w].left /\ b # c
    BY <2>2
  <2>5. job[w].phase = "send" /\ job[w].key = k
    BY <2>1
  <2>6. ASSUME NEW i \in Keys, NEW b \in Channels
        PROVE  sent'[i][b] + Cardinality(Sending(i, b)') <= entries'[i]
    <3>1. sent[i][b] \in Nat /\ entries[i] \in Nat
          /\ sent[i][b] + Cardinality(Sending(i, b)) <= entries[i]
      BY AccountTypes DEF SendsAccountedFor
    <3>2. CASE i = k /\ b = c
      <4>1. ~(b \in j.left) /\ w \in Sending(i, b)
        BY <2>2, <3>2
      <4> HIDE DEF j, k
      <4>2. /\ Cardinality(Sending(i, b)) \in Nat /\ Cardinality(Sending(i, b)') \in Nat
            /\ Cardinality(Sending(i, b)') + 1 <= Cardinality(Sending(i, b))
        BY <2>1, <4>1, SendingAfter
      <4>3. QED
        BY <2>1, <2>3, <3>1, <3>2, <4>2
    <3>3. CASE ~(i = k /\ b = c)
      <4>1. Sending(i, b)' \subseteq Sending(i, b)
        <5>1. /\ Sending(i, b)' \subseteq Sending(i, b) \cup {w}
              /\ ~(j.phase = "send" /\ j.key = i /\ b \in j.left)
                   => Sending(i, b)' \subseteq Sending(i, b) \ {w}
          <6> HIDE DEF j
          <6>1. QED
            BY <2>1, JobsAfter
        <5>2. (j.key = i /\ b \in j.left) => w \in Sending(i, b)
          BY <2>2, <2>4, <2>5 DEF Sending
        <5> HIDE DEF j
        <5>3. QED
          BY <5>1, <5>2
      <4>2. Sending(i, b) \subseteq Workers
        BY DEF Sending
      <4>3. /\ Cardinality(Sending(i, b)) \in Nat /\ Cardinality(Sending(i, b)') \in Nat
            /\ Cardinality(Sending(i, b)') <= Cardinality(Sending(i, b))
        BY <4>1, <4>2, FewerWorkers
      <4> HIDE DEF j, k
      <4>4. QED
        BY <2>1, <2>3, <3>1, <3>3, <4>3
    <3>4. QED
      BY <3>2, <3>3
  <2>7. QED
    BY <2>6 DEF SendsAccountedFor
<1>3. QED
  BY <1>1, <1>2

(* A step that sends nothing and keeps what every slot has left.           *)
LEMMA QuietKeepsSends ==
  ASSUME TypeOK, SendsAccountedFor, UNCHANGED <<entries, sent>>,
         \A w \in Workers : /\ job'[w].phase = job[w].phase /\ job'[w].key = job[w].key
                            /\ job'[w].left = job[w].left
  PROVE  SendsAccountedFor'
<1>1. \A k \in Keys, c \in Channels : Sending(k, c)' = Sending(k, c)
  BY DEF Sending
<1>2. QED
  BY <1>1 DEF SendsAccountedFor

-----------------------------------------------------------------------------
(* Every step.                                                             *)
LEMMA NextKeepsSends ==
  ASSUME TypeOK, SendsAccountedFor, LeftIsWanted, Next
  PROVE  SendsAccountedFor' /\ LeftIsWanted'
<1> USE DEF inbox, history
<1>0. job \in [Workers -> Jobs] /\ clock.hour \in Hours /\ pref \in [Users -> Prefs]
  BY JobsTyped DEF TypeOK
<1>1. ASSUME UNCHANGED <<entries, sent, job>> PROVE SendsAccountedFor' /\ LeftIsWanted'
  BY <1>1, QuietKeepsSends DEF LeftIsWanted
<1>2. ASSUME NEW u \in Users, NEW p, Changed(u, p) PROVE SendsAccountedFor' /\ LeftIsWanted'
  <2>1. UNCHANGED <<entries, sent>>
    BY <1>2 DEF Changed
  <2>2. \A w \in Workers : /\ job'[w].phase = job[w].phase /\ job'[w].key = job[w].key
                           /\ job'[w].left = job[w].left
                           /\ job[w].wanted \subseteq job'[w].wanted
    <3>1. \A w \in Workers : job[w] \in Jobs
      BY <1>0
    <3>2. QED
      BY <1>2, <3>1 DEF Changed, Jobs
  <2>3. QED
    BY <2>1, <2>2, QuietKeepsSends DEF LeftIsWanted
<1>3. ASSUME NEW u \in Users, UpdatePreferences(u) \/ Unsubscribe(u) \/ Gone(u)
      PROVE  SendsAccountedFor' /\ LeftIsWanted'
  <2>1. CASE Gone(u)
    BY <1>1, <2>1 DEF Gone
  <2>2. CASE UpdatePreferences(u) \/ Unsubscribe(u)
    BY <1>2, <2>2 DEF UpdatePreferences, Unsubscribe
  <2>3. QED
    BY <1>3, <2>1, <2>2
<1>4. CASE Tick \/ CronStart \/ CronSteps \/ CronFails
  BY <1>1, <1>4 DEF Tick, CronStart, CronSteps, CronEnqueue, CronWeekly, CronEnd, CronFails
<1>5. ASSUME NEW w \in Workers, NEW j, job' = [job EXCEPT ![w] = j], j.left \subseteq j.wanted
      PROVE  LeftIsWanted'
  BY <1>0, <1>5 DEF LeftIsWanted
<1>6. ASSUME NEW w \in Workers, NEW k \in Keys, Skip(w, k)
      PROVE  SendsAccountedFor' /\ LeftIsWanted'
  BY <1>1, <1>6 DEF Skip
<1>7. ASSUME NEW w \in Workers, NEW k \in Keys, Start(w, k)
      PROVE  SendsAccountedFor' /\ LeftIsWanted'
  <2> DEFINE u == k[1]
             j == [phase |-> "rank", key |-> k,
                   left |-> {c \in ChannelsOf[u] : pref[u][c]},
                   wanted |-> Wanted(u, pref[u])]
  <2>1. job' = [job EXCEPT ![w] = j] /\ UNCHANGED <<entries, sent>> /\ MaySend(u)
    BY <1>7 DEF Start
  <2>2. pref[u] \in Prefs
    BY <1>0 DEF Keys
  <2>3. ~IsQuiet(pref[u].quiet, clock.hour) /\ pref[u].frequency # "off"
    BY <1>0, <2>1, <2>2, QuietHoursAgree DEF MaySend, Prefs
  <2>4. Wanted(u, pref[u]) = {c \in ChannelsOf[u] : pref[u][c]}
    BY <2>3 DEF Wanted
  <2>5. j.left \subseteq j.wanted /\ j.phase # "send"
    BY <2>4
  <2> HIDE DEF j
  <2>6. QED
    BY <1>5, <2>1, <2>5, NotSending
<1>8. ASSUME NEW w \in Workers, job' = [job EXCEPT ![w] = NoJob], UNCHANGED <<entries, sent>>
      PROVE  SendsAccountedFor' /\ LeftIsWanted'
  <2>1. NoJob.phase # "send" /\ NoJob.left \subseteq NoJob.wanted
    BY DEF NoJob
  <2>2. QED
    BY <1>5, <1>8, <2>1, NotSending
<1>9. ASSUME NEW w \in Workers, NothingFiled(w) \/ Finish(w) \/ Crash(w) \/ Abort(w)
      PROVE  SendsAccountedFor' /\ LeftIsWanted'
  BY <1>8, <1>9 DEF NothingFiled, Finish, Crash, Abort, Ends
<1>10. ASSUME NEW w \in Workers, File(w) \/ \E c \in Channels : Send(w, c)
       PROVE  SendsAccountedFor' /\ LeftIsWanted'
  <2>1. SendsAccountedFor'
    BY <1>10, SlotsKeepSends
  <2>2. job[w] \in Jobs /\ job[w].left \subseteq job[w].wanted
    BY <1>0 DEF LeftIsWanted
  <2>3. \E j : job' = [job EXCEPT ![w] = j] /\ j.left \subseteq j.wanted
    <3>1. CASE File(w)
      <4> DEFINE j == [job[w] EXCEPT !.phase = "send"]
      <4>1. job' = [job EXCEPT ![w] = j]
        BY <3>1 DEF File
      <4>2. j.left \subseteq j.wanted
        BY <2>2 DEF Jobs
      <4>3. QED
        BY <4>1, <4>2
    <3>2. ASSUME NEW c \in Channels, Send(w, c)
          PROVE  \E j : job' = [job EXCEPT ![w] = j] /\ j.left \subseteq j.wanted
      <4> DEFINE j == [job[w] EXCEPT !.left = @ \ {c}]
      <4>1. job' = [job EXCEPT ![w] = j]
        BY <3>2 DEF Send
      <4>2. j.left \subseteq j.wanted
        BY <2>2 DEF Jobs
      <4>3. QED
        BY <4>1, <4>2
    <3>3. QED
      BY <1>10, <3>1, <3>2
  <2>4. QED
    BY <1>5, <2>1, <2>3
<1>11. QED
  BY <1>3, <1>4, <1>6, <1>7, <1>9, <1>10 DEF Next, JobSteps

LEMMA NextKeepsIInv ==
  ASSUME IInv, Next
  PROVE  IInv'
<1> USE DEF inbox, history
<1>1. TypeOK'
  BY NextKeepsType DEF IInv
<1>2. SendsAccountedFor' /\ LeftIsWanted'
  BY NextKeepsSends DEF IInv
<1>3. CronInTime'
  <2>0. /\ clock \in [day : Days, hour : Hours] /\ cron.day \in {0} \cup Days
        /\ cron \in [phase : {"idle"} \cup Frequencies, day : {0} \cup Days,
                     left : SUBSET Users, done : SUBSET Users]
        /\ CronInTime
    BY DEF IInv, TypeOK
  <2>1. CASE Tick
    <3>1. cron' = cron /\ clock'.day \in {clock.day, clock.day + 1}
      BY <2>0, <2>1 DEF Tick
    <3>2. clock.day \in Nat /\ cron.day \in Nat
      BY <2>0, DigestAssumption DEF Days
    <3>3. QED
      BY <2>0, <3>1, <3>2 DEF CronInTime
  <2>2. CASE UNCHANGED <<clock, cron>>
    BY <2>0, <2>2 DEF CronInTime
  <2>3. CASE CronStart
    <3>1. clock.day \in Nat
      BY <2>0, DigestAssumption DEF Days
    <3>2. QED
      BY <2>3, <3>1 DEF CronStart, CronInTime
  <2>4. CASE CronSteps \/ CronFails
    <3>1. clock' = clock /\ cron'.day = cron.day
      BY <2>0, <2>4
      DEF CronSteps, CronEnqueue, CronWeekly, CronEnd, CronFails, Ended, NoCron
    <3>2. cron'.phase = "idle" => cron'.left = {} /\ cron'.done = {}
      <4>1. CASE CronEnd \/ CronFails
        BY <4>1 DEF CronEnd, CronFails, Ended, NoCron
      <4>2. CASE CronWeekly
        BY <2>0, <4>2 DEF CronWeekly
      <4>3. ASSUME NEW u \in Users, CronEnqueue(u) PROVE cron'.phase # "idle"
        BY <2>0, <4>3 DEF CronEnqueue, CronInTime
      <4>4. QED
        BY <2>4, <4>1, <4>2, <4>3 DEF CronSteps
    <3>3. QED
      BY <2>0, <3>1, <3>2 DEF CronInTime
  <2>5. QED
    BY <2>1, <2>2, <2>3, <2>4
    DEF Next, UpdatePreferences, Unsubscribe, Gone, Changed, JobSteps, Skip, Start,
        NothingFiled, File, Finish, Send, Crash, Abort
<1>4. DigestsAccountedFor'
  <2>1. CASE Tick \/ \E u \in Users : Gone(u)
    <3>1. UNCHANGED <<entries, queue, repeats, job, cron, pref>>
      BY <2>1 DEF Tick, Gone
    <3>2. QED
      BY <3>1 DEF IInv, DigestsAccountedFor, Ranking, OnThisList, OnNextList, Allowed, Listed
  <2>2. ASSUME NEW u \in Users, NEW p \in Prefs, Changed(u, p) PROVE DigestsAccountedFor'
    BY <1>1, <2>2, ChangedKeepsDigests DEF IInv
  <2>3. ASSUME NEW u \in Users, UpdatePreferences(u) \/ Unsubscribe(u)
        PROVE  DigestsAccountedFor'
    <3>1. \E p : Changed(u, p)
      BY <2>3 DEF UpdatePreferences, Unsubscribe
    <3>2. PICK p : Changed(u, p)
      BY <3>1
    <3>3. p \in Prefs
      <4>1. pref \in [Users -> Prefs] /\ pref' \in [Users -> Prefs]
        BY <1>1 DEF IInv, TypeOK
      <4>2. pref' = [pref EXCEPT ![u] = p]
        BY <3>2 DEF Changed
      <4>3. pref'[u] = p
        BY <4>1, <4>2
      <4>4. QED
        BY <4>1, <4>3
    <3>4. QED
      BY <2>2, <3>2, <3>3
  <2>4. CASE CronStart \/ CronSteps \/ CronFails
    BY <1>1, <2>4, CronKeepsDigests DEF IInv
  <2>5. ASSUME NEW w \in Workers, JobSteps(w) \/ Crash(w) \/ Abort(w)
        PROVE  DigestsAccountedFor'
    <3>1. \/ \E k \in Keys : Skip(w, k) \/ Start(w, k)
          \/ NothingFiled(w) \/ Finish(w) \/ Abort(w)
          \/ File(w)
          \/ \E c \in Channels : Send(w, c)
          \/ Crash(w)
      BY <2>5 DEF JobSteps
    <3>2. QED
      BY <1>1, <3>1, JobStepsKeepDigests DEF IInv
  <2>6. QED
    BY <2>1, <2>3, <2>4, <2>5 DEF Next
<1>5. QED
  BY <1>1, <1>2, <1>3, <1>4 DEF IInv

LEMMA StutterKeepsIInv ==
  ASSUME IInv, UNCHANGED vars
  PROVE  IInv'
<1> USE DEF vars, inbox, history
<1>1. TypeOK'
  BY DEF IInv, TypeOK
<1>2. CronInTime' /\ LeftIsWanted'
  BY DEF IInv, CronInTime, LeftIsWanted
<1>3. DigestsAccountedFor'
  BY DEF IInv, DigestsAccountedFor, Ranking, OnThisList, OnNextList, Allowed, Listed
<1>4. SendsAccountedFor'
  BY DEF IInv, SendsAccountedFor, Sending
<1>5. QED
  BY <1>1, <1>2, <1>3, <1>4 DEF IInv

LEMMA InitIInv == Init => IInv
<1> SUFFICES ASSUME Init PROVE IInv
  OBVIOUS
<1>0. /\ LastDay \in Nat \ {0} /\ CronHour \in Hours /\ MaxTroubles \in Nat
  BY DigestAssumption
<1>1. TypeOK
  BY <1>0 DEF Init, TypeOK, Days, Prefs, Default, Frequencies, NoCron, NoJob
<1>2. CronInTime /\ LeftIsWanted
  BY DEF Init, CronInTime, LeftIsWanted, NoCron, NoJob
<1>3. \A k : Ranking(k) = {} /\ \A c : Sending(k, c) = {}
  BY DEF Init, Ranking, Sending, NoJob
<1>4. Cardinality({}) = 0
  BY FS_EmptySet
<1>5. DigestsAccountedFor
  <2> SUFFICES ASSUME NEW k \in Keys
               PROVE  entries[k] + queue[k] + Cardinality(Ranking(k)) + OnThisList(k)
                        + OnNextList(k) <= Allowed(k) + repeats[k]
    BY DEF DigestsAccountedFor
  <2>1. entries[k] = 0 /\ queue[k] = 0 /\ repeats[k] = 0
    BY DEF Init
  <2>2. OnThisList(k) = 0 /\ OnNextList(k) = 0 /\ Allowed(k) \in {0, 1}
    BY DEF Init, OnThisList, OnNextList, Allowed, NoCron
  <2>3. QED
    BY <1>3, <1>4, <2>1, <2>2
<1>6. SendsAccountedFor
  BY <1>3, <1>4 DEF Init, SendsAccountedFor
<1>7. QED
  BY <1>1, <1>2, <1>5, <1>6 DEF IInv

LEMMA InvariantHolds == Spec => []IInv
<1>1. IInv /\ [Next]_vars => IInv'
  BY NextKeepsIInv, StutterKeepsIInv
<1>2. QED
  BY <1>1, InitIInv, PTL DEF Spec

-----------------------------------------------------------------------------
(* Every reachable state of the digests is well typed.                     *)
THEOREM TypeCorrect == Spec => []TypeOK
<1>1. IInv => TypeOK
  BY DEF IInv
<1>2. QED
  BY <1>1, InvariantHolds, PTL

(* One digest a day for each user, one more per repeat, and no channel is  *)
(* sent more than was filed, whatever crashes, changes and days come.      *)
THEOREM DigestsAreBounded == Spec => []OneDigestADay
<1>1. IInv => OneDigestADay
  <2> SUFFICES ASSUME IInv, NEW k \in Keys
               PROVE  /\ entries[k] <= 1 + repeats[k]
                      /\ \A c \in Channels : sent[k][c] <= entries[k]
    BY DEF OneDigestADay
  <2>1. TypeOK /\ DigestsAccountedFor /\ SendsAccountedFor
    BY DEF IInv
  <2>2. /\ entries[k] \in Nat /\ queue[k] \in Nat /\ repeats[k] \in Nat
        /\ Cardinality(Ranking(k)) \in Nat
        /\ OnThisList(k) \in {0, 1} /\ OnNextList(k) \in {0, 1} /\ Allowed(k) \in {0, 1}
        /\ \A c \in Channels : sent[k][c] \in Nat /\ Cardinality(Sending(k, c)) \in Nat
    BY <2>1, AccountTypes
  <2>3. entries[k] + queue[k] + Cardinality(Ranking(k)) + OnThisList(k) + OnNextList(k)
          <= Allowed(k) + repeats[k]
    BY <2>1 DEF DigestsAccountedFor
  <2>4. entries[k] <= 1 + repeats[k]
    BY <2>2, <2>3
  <2>5. ASSUME NEW c \in Channels PROVE sent[k][c] <= entries[k]
    BY <2>1, <2>2 DEF SendsAccountedFor
  <2>6. QED
    BY <2>4, <2>5
<1>2. QED
  BY <1>1, InvariantHolds, PTL

(* Nothing is sent over a channel its user has not wanted since the job    *)
(* began, for every interval of quiet hours on every clock face.           *)
THEOREM ConsentIsRespected == Spec => ConsentRespected
<1>1. IInv /\ [Next]_vars =>
        [\A w \in Workers, c \in Channels :
           (\E k \in Keys : sent'[k][c] > sent[k][c]) /\ c \in job[w].left \ job'[w].left
           => c \in job'[w].wanted]_vars
  <2> SUFFICES ASSUME IInv, Next, NEW w \in Workers, NEW c \in Channels,
                      NEW k \in Keys, sent'[k][c] > sent[k][c],
                      c \in job[w].left \ job'[w].left
               PROVE  c \in job'[w].wanted
    OBVIOUS
  <2>1. sent[k][c] \in Nat /\ job \in [Workers -> Jobs] /\ LeftIsWanted
    BY AccountTypes, JobsTyped DEF IInv
  <2>2. sent' # sent
    BY <2>1
  <2>3. PICK v \in Workers, b \in Channels : Send(v, b)
    BY <2>2 DEF Next, Tick, UpdatePreferences, Unsubscribe, Gone, Changed, CronStart, CronSteps,
       CronEnqueue, CronWeekly, CronEnd, CronFails, JobSteps, Skip, Start, NothingFiled, File,
       Finish, Crash, Abort, inbox
  <2>4. job' = [job EXCEPT ![v].left = @ \ {b}]
    BY <2>3 DEF Send
  <2>5. job'[w].wanted = job[w].wanted
    <3>1. job[v] \in Jobs /\ job[w] \in Jobs
      BY <2>1
    <3>2. QED
      BY <2>1, <2>4, <3>1 DEF Jobs
  <2>6. QED
    BY <2>1, <2>5 DEF LeftIsWanted
<1>2. QED
  BY <1>1, InvariantHolds, PTL DEF Spec, ConsentRespected
=============================================================================
