-------------------------------- MODULE Digest --------------------------------
(***************************************************************************)
(* Digests: every morning a cron job of the worker lists the users who are *)
(* due and enqueues a job for each; the job reads the user's preferences,  *)
(* asks the recommender, files the digest in the inbox and then, outside   *)
(* the transaction, sends it over e-mail and Telegram.  Users change their *)
(* preferences, follow the link in a letter, or are gone, at any moment.   *)
(*                                                                         *)
(* An hour is one of HoursInDay.  The hour and the preferences a job works *)
(* with are read in one step; what a letter says is left out.              *)
(***************************************************************************)
EXTENDS Integers, FiniteSets

CONSTANTS Users,
          Workers,      \* job slots
          ChannelsOf,   \* channels of a user that are verified, enabled and
                        \* configured
          LastDay,      \* bound on the days
          Mondays,      \* days on which weekly digests are due
          HoursInDay,
          CronHour,
          QuietChoices, \* the quiet hours users choose from
          None,         \* no quiet hours, no user
          LastHour,     \* bound on the hours of the last day
          MaxTroubles   \* bound on changes, crashes, failures, lost accounts

Channels == {"email", "telegram"}
Days == 1..LastDay
Hours == 0..HoursInDay - 1
Keys == Users \X Days

ASSUME DigestAssumption ==
  /\ LastDay \in Nat \ {0} /\ Mondays \subseteq Days
  /\ HoursInDay \in Nat \ {0} /\ CronHour \in Hours
  /\ QuietChoices \subseteq (Hours \X Hours) \cup {None}
  /\ ChannelsOf \in [Users -> SUBSET Channels]
  /\ LastHour \in Hours /\ MaxTroubles \in Nat
  /\ None \notin Keys /\ IsFiniteSet(Workers)

VARIABLES
  clock,   \* day and hour of the worker's clock
  pref,    \* pref[u]: the row of notification_preferences
  alive,   \* users that exist
  cron,    \* the cron job: its last day, its query, who is still to be enqueued
  queue,   \* queue[k]: jobs waiting for user k[1] that were listed on day k[2]
  job,     \* job[w]: the job in slot w, the channels it has still to send to
  entries, \* entries[k]: digests filed in the inbox
  sent,    \* sent[k][c]: digests sent over channel c
  due,     \* users, with the day, to whom a digest was due (history)
  settled, \* pairs of due that came to an end (history)
  repeats, \* repeats[k]: what may cause one digest more (history)
  troubles \* changes, crashes, failures and lost accounts so far

inbox == <<entries, sent>>
history == <<due, settled, repeats>>
vars == <<clock, pref, alive, cron, queue, job, inbox, history, troubles>>

Frequencies == {"daily", "weekly", "off"}
Prefs == [frequency : Frequencies, email : BOOLEAN, telegram : BOOLEAN,
          quiet : (Hours \X Hours) \cup {None}]

(* The defaults of NotificationPreference.                                 *)
Default == [frequency |-> "daily", email |-> TRUE, telegram |-> FALSE, quiet |-> None]

(* wanted: channels that were wanted at some moment of the job (history);  *)
(* done: the users the cron job has enqueued.                              *)
NoJob == [phase |-> "idle", key |-> None, left |-> {}, wanted |-> {}]
NoCron == [phase |-> "idle", day |-> 0, left |-> {}, done |-> {}]

TypeOK ==
  /\ clock \in [day : Days, hour : Hours]
  /\ pref \in [Users -> Prefs]
  /\ alive \subseteq Users
  /\ cron \in [phase : {"idle"} \cup Frequencies, day : {0} \cup Days,
               left : SUBSET Users, done : SUBSET Users]
  /\ {queue, entries, repeats} \subseteq [Keys -> Nat]
  /\ job \in [Workers -> [phase : {"idle", "rank", "send"}, key : Keys \cup {None},
                          left : SUBSET Channels, wanted : SUBSET Channels]]
  /\ \A w \in Workers : (job[w].key = None) = (job[w].phase = "idle")
  /\ sent \in [Keys -> [Channels -> Nat]]
  /\ settled \subseteq due /\ due \subseteq Keys
  /\ troubles \in 0..MaxTroubles

Init ==
  /\ clock = [day |-> 1, hour |-> CronHour]
  /\ pref = [u \in Users |-> Default]
  /\ alive = Users
  /\ cron = NoCron
  /\ queue = [k \in Keys |-> 0] /\ entries = queue /\ repeats = queue
  /\ job = [w \in Workers |-> NoJob]
  /\ sent = [k \in Keys |-> [c \in Channels |-> 0]]
  /\ due = {} /\ settled = {}
  /\ troubles = 0

Trouble == troubles < MaxTroubles /\ troubles' = troubles + 1

Tick ==
  LET midnight == clock.hour = HoursInDay - 1
  IN /\ midnight => clock.day < LastDay
     /\ clock # [day |-> LastDay, hour |-> LastHour]
     /\ clock' = [day |-> IF midnight THEN clock.day + 1 ELSE clock.day,
                  hour |-> (clock.hour + 1) % HoursInDay]
     /\ UNCHANGED <<pref, alive, cron, queue, job, inbox, history, troubles>>

-----------------------------------------------------------------------------
(* What a user wants, in terms of the wall clock: hours are quiet from the *)
(* start of the interval for as many as it is long, round midnight.        *)
IsQuiet(q, hour) ==
  q # None /\ (hour - q[1]) % HoursInDay < (q[2] - q[1]) % HoursInDay

Wanted(u, p) ==
  IF p.frequency = "off" \/ IsQuiet(p.quiet, clock.hour) THEN {}
  ELSE {c \in ChannelsOf[u] : p[c]}

(* A user whose frequency changes, or who is gone, while the lists are     *)
(* made may be missed by them: that day's digest counts as settled.        *)
MayBeMissed(u) ==
  settled' = IF cron.phase = "idle" THEN settled
             ELSE settled \cup (due \cap {<<u, cron.day>>})

(* A user who changes to the weekly digest after being listed for the      *)
(* daily one is on both lists of a Monday.                                 *)
OnBothLists(u, frequency) ==
  /\ cron.phase = "daily" /\ u \in cron.left \cup cron.done
  /\ frequency = "weekly" /\ pref[u].frequency # "weekly"

Changed(u, p) ==
  /\ u \in alive
  /\ p # pref[u]
  /\ pref' = [pref EXCEPT ![u] = p]
  /\ job' = [w \in Workers |->
       IF job[w].phase # "idle" /\ job[w].key[1] = u
       THEN [job[w] EXCEPT !.wanted = @ \cup Wanted(u, p)] ELSE job[w]]
  /\ repeats' = IF OnBothLists(u, p.frequency)
                THEN [repeats EXCEPT ![<<u, cron.day>>] = @ + 1] ELSE repeats
  /\ IF p.frequency = pref[u].frequency THEN UNCHANGED settled ELSE MayBeMissed(u)
  /\ UNCHANGED <<clock, alive, cron, queue, inbox, due>>

(* Only the columns a request names are written, so requests that overlap  *)
(* do not undo each other.                                                 *)
UpdatePreferences(u) ==
  /\ Trouble
  /\ \/ \E f \in Frequencies : Changed(u, [pref[u] EXCEPT !.frequency = f])
     \/ \E c \in Channels, on \in BOOLEAN : Changed(u, [pref[u] EXCEPT ![c] = on])
     \/ \E q \in QuietChoices : Changed(u, [pref[u] EXCEPT !.quiet = q])

(* The link in a digest, good for 90 days.                                 *)
Unsubscribe(u) ==
  /\ \E d \in Days : entries[<<u, d>>] > 0
  /\ Changed(u, [pref[u] EXCEPT !.email = FALSE])
  /\ UNCHANGED troubles

(* The account is absorbed by another; its preferences go with it.         *)
Gone(u) ==
  /\ Trouble
  /\ u \in alive
  /\ alive' = alive \ {u}
  /\ MayBeMissed(u)
  /\ UNCHANGED <<clock, pref, cron, queue, job, inbox, due, repeats>>

-----------------------------------------------------------------------------
(* The cron job.                                                           *)

(* Mutant: every list has everybody who wants digests.                     *)
DueAtAnyFrequency(frequency) == {u \in alive : pref[u].frequency # "off"}

DueDigestUserIds(frequency) == {u \in alive : pref[u].frequency = frequency}

Monday == clock.day \in Mondays

(* It runs once a day, or not at all if no worker is up; the daily list    *)
(* comes first.                                                            *)
CronStart ==
  /\ cron.phase = "idle" /\ clock.hour = CronHour
  /\ cron.day # clock.day
  /\ cron' = [phase |-> "daily", day |-> clock.day, left |-> DueDigestUserIds("daily"),
              done |-> {}]
  /\ due' = due \cup ((DueDigestUserIds("daily") \cup
                       IF Monday THEN DueDigestUserIds("weekly") ELSE {}) \X {clock.day})
  /\ UNCHANGED <<clock, pref, alive, queue, job, inbox, settled, repeats, troubles>>

CronEnqueue(u) ==
  /\ u \in cron.left
  /\ queue' = [queue EXCEPT ![<<u, cron.day>>] = @ + 1]
  /\ cron' = [cron EXCEPT !.left = @ \ {u}, !.done = @ \cup {u}]
  /\ UNCHANGED <<clock, pref, alive, job, inbox, history, troubles>>

(* Mutant: no weekly list where nobody was on the daily one.               *)
WeeklyFollowsOthers == cron.phase = "daily" /\ Monday /\ cron.done # {}

(* Whether it is Monday is asked after the daily list.                     *)
WeeklyFollows == cron.phase = "daily" /\ Monday

CronWeekly ==
  /\ cron.left = {} /\ WeeklyFollows
  /\ cron' = [cron EXCEPT !.phase = "weekly", !.left = DueDigestUserIds("weekly")]
  /\ UNCHANGED <<clock, pref, alive, queue, job, inbox, history, troubles>>

Ended == [NoCron EXCEPT !.day = cron.day]

(* Past midnight the weekly list is not made, and nobody is told.          *)
CronEnd ==
  /\ cron.phase # "idle" /\ cron.left = {} /\ ~WeeklyFollows
  /\ cron' = Ended
  /\ settled' = IF clock.day = cron.day THEN settled
                ELSE settled \cup {k \in due : k[2] = cron.day /\ k[1] \notin cron.done}
  /\ UNCHANGED <<clock, pref, alive, queue, job, inbox, due, repeats, troubles>>

(* Redis refuses a job or the worker dies; a cron job is tried once, and   *)
(* the users behind that point get nothing this day.                       *)
CronFails ==
  /\ cron.phase # "idle"
  /\ Trouble
  /\ cron' = Ended
  /\ settled' = settled \cup {k \in due : k[2] = cron.day /\ k[1] \notin cron.done}
  /\ UNCHANGED <<clock, pref, alive, queue, job, inbox, due, repeats>>

-----------------------------------------------------------------------------
(* The job of one user.                                                    *)

(* Mutant: an interval over midnight is never quiet.                       *)
InQuietHoursOfOneDay(hour, q) == q # None /\ q[1] <= hour /\ hour < q[2]

InQuietHours(hour, q) ==
  /\ q # None
  /\ q[1] # q[2]
  /\ IF q[1] < q[2] THEN q[1] <= hour /\ hour < q[2] ELSE hour >= q[1] \/ hour < q[2]

(* get_delivery_context finds the user, and the digest is on and welcome.  *)
MaySend(u) ==
  /\ u \in alive
  /\ pref[u].frequency # "off"
  /\ ~InQuietHours(clock.hour, pref[u].quiet)

Dequeued(k) == queue[k] > 0 /\ queue' = [queue EXCEPT ![k] = @ - 1]

Settle(k) == settled' = settled \cup ({k} \cap due)

(* "disabled", "quiet_hours"                                               *)
Skip(w, k) ==
  /\ job[w].phase = "idle" /\ Dequeued(k)
  /\ ~MaySend(k[1])
  /\ Settle(k)
  /\ UNCHANGED <<clock, pref, alive, cron, job, inbox, due, repeats, troubles>>

Start(w, k) ==
  LET u == k[1]
  IN /\ job[w].phase = "idle" /\ Dequeued(k)
     /\ MaySend(u)
     /\ job' = [job EXCEPT ![w] = [phase |-> "rank", key |-> k,
                                   left |-> {c \in ChannelsOf[u] : pref[u][c]},
                                   wanted |-> Wanted(u, pref[u])]]
     /\ UNCHANGED <<clock, pref, alive, cron, inbox, history, troubles>>

Ends(w) == job' = [job EXCEPT ![w] = NoJob] /\ Settle(job[w].key)

(* Nothing to recommend; or the account went away, and with it the row the *)
(* notification refers to.                                                 *)
NothingFiled(w) ==
  /\ job[w].phase = "rank"
  /\ Ends(w)
  /\ UNCHANGED <<clock, pref, alive, cron, queue, inbox, due, repeats, troubles>>

(* The notification is committed before anything is sent.                  *)
File(w) ==
  /\ job[w].phase = "rank" /\ job[w].key[1] \in alive
  /\ entries' = [entries EXCEPT ![job[w].key] = @ + 1]
  /\ job' = [job EXCEPT ![w].phase = "send"]
  /\ UNCHANGED <<clock, pref, alive, cron, queue, sent, history, troubles>>

(* A channel that fails does not keep the others from being tried.         *)
Send(w, c) ==
  /\ job[w].phase = "send" /\ c \in job[w].left
  /\ job' = [job EXCEPT ![w].left = @ \ {c}]
  /\ sent' = [sent EXCEPT ![job[w].key][c] = @ + 1] \/ UNCHANGED sent
  /\ UNCHANGED <<clock, pref, alive, cron, queue, entries, history, troubles>>

Finish(w) ==
  /\ job[w].phase = "send" /\ job[w].left = {}
  /\ Ends(w)
  /\ UNCHANGED <<clock, pref, alive, cron, queue, inbox, due, repeats, troubles>>

(* The worker dies: the job goes back and begins anew.                     *)
Crash(w) ==
  /\ job[w].phase # "idle"
  /\ Trouble
  /\ queue' = [queue EXCEPT ![job[w].key] = @ + 1]
  /\ job' = [job EXCEPT ![w] = NoJob]
  /\ repeats' = IF job[w].phase = "send" THEN [repeats EXCEPT ![job[w].key] = @ + 1]
                ELSE repeats
  /\ UNCHANGED <<clock, pref, alive, cron, inbox, due, settled>>

(* The job's time is up, or the recommender or the database fails.         *)
Abort(w) ==
  /\ job[w].phase # "idle"
  /\ Trouble
  /\ Ends(w)
  /\ UNCHANGED <<clock, pref, alive, cron, queue, inbox, due, repeats>>

-----------------------------------------------------------------------------
CronSteps == CronWeekly \/ CronEnd \/ \E u \in Users : CronEnqueue(u)

JobSteps(w) ==
  \/ \E k \in Keys : Skip(w, k) \/ Start(w, k)
  \/ NothingFiled(w) \/ File(w) \/ Finish(w)
  \/ \E c \in Channels : Send(w, c)

Next ==
  \/ Tick
  \/ \E u \in Users : UpdatePreferences(u) \/ Unsubscribe(u) \/ Gone(u)
  \/ CronStart \/ CronSteps \/ CronFails
  \/ \E w \in Workers : JobSteps(w) \/ Crash(w) \/ Abort(w)

Spec == Init /\ [][Next]_vars

(* The worker goes on with a cron job it runs, and its slots take jobs and *)
(* work on them.                                                           *)
FairSpec == Spec /\ WF_vars(CronSteps) /\ \A w \in Workers : WF_vars(JobSteps(w))

-----------------------------------------------------------------------------
(* A user gets one digest a day in the inbox: one more only for each job   *)
(* that is run again after it has filed one, and for a change to weekly    *)
(* while Monday's lists are made.  No channel gets more than the inbox.    *)
OneDigestADay ==
  \A k \in Keys : /\ entries[k] <= 1 + repeats[k]
                  /\ \A c \in Channels : sent[k][c] <= entries[k]

(* A digest goes only over a channel that the user wanted it on at some    *)
(* moment since its job began: an unsubscription, quiet hours (also over   *)
(* midnight) and a switched-off channel hold for every job that begins     *)
(* later, one that is run again included.                                  *)
ConsentRespected ==
  [][\A w \in Workers, c \in Channels :
       (\E k \in Keys : sent'[k][c] > sent[k][c]) /\ c \in job[w].left \ job'[w].left
       => c \in job'[w].wanted]_vars

(* Each user the cron job finds due gets a digest or a reason (nothing to  *)
(* send, a failure, a change of mind, a lost list), whatever crashes; that *)
(* between two cron jobs all of them have is more than each in its time.   *)
EveryDueSettled == []<>(due = settled)
=============================================================================
