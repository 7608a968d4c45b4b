---------------------------------- MODULE Bot ----------------------------------
(***************************************************************************)
(* One chat with the Telegram bot.  aiogram handles the updates of a chat  *)
(* at the same time and locks nothing: the state of the dialogue and the   *)
(* events the feed has shown are kept in Redis, everything else behind the *)
(* API, whose calls may fail, or be done and answered too late.  Buttons   *)
(* stay in the chat and can be pressed at any time.                        *)
(*                                                                         *)
(* The agent's part of the chat is module AgentSession, preferences of the *)
(* digest are in module Digest.  What messages say is left out.            *)
(***************************************************************************)
EXTENDS Integers, Sequences, FiniteSets, SequencesExt

CONSTANTS Events,
          Slots,       \* updates that are handled at once
          FeedPage,    \* FEED_PAGE
          SavedPage,   \* SAVED_PAGE
          None,        \* no event
          MaxUpdates,  \* bound on the updates
          MaxTroubles  \* bound on the calls and messages that fail

ASSUME BotAssumption ==
  /\ {FeedPage, SavedPage} \subseteq Nat \ {0}
  /\ {MaxUpdates, MaxTroubles} \subseteq Nat
  /\ None \notin Events
  /\ IsFiniteSet(Events) /\ IsFiniteSet(Slots)

VARIABLES
  state,   \* FSM state of the chat, "none" outside a dialogue
  shown,   \* _FEED_SHOWN_KEY in the FSM data
  chat,    \* what has buttons in the chat: kinds of keyboard, cards of events,
           \* offsets of the saved list
  account, \* the chat has an account
  about,   \* its profile is not empty
  rated,   \* rated[e]: reactions to e that were recorded
  saved,   \* saved events, the latest first
  upd,     \* upd[s]: the update handled in slot s
  updates, troubles,
  run,     \* the feed since it last began (history)
  list,    \* the saved list since its first page (history)
  count    \* count[e]: calls that may have recorded a reaction to e, and
           \* reactions the user was told are recorded (history)

server == <<account, about, rated, saved>>
history == <<run, list, count>>
vars == <<state, shown, chat, server, upd, updates, troubles, history>>

States == {"none", "ob_about", "ob_format", "ob_city", "ob_city_text",
           "ed_about", "ed_city_text"}
Offsets == 0..Cardinality(Events)
Keyboards == {"skip", "format", "city", "more", "settings"}
Steps == {"idle", "start", "welcome", "link", "about", "about_saved", "format",
          "format_saved", "city", "city_saved", "feed", "cards", "keep", "react", "register",
          "react_again", "saved"}

(* on: it belongs to onboarding, or begins the feed anew; typed: it is     *)
(* text; page: events of the feed, last: none is left after them; offset   *)
(* and total: of the saved list, as the button says and as counted.        *)
Idle == [at |-> "idle", on |-> FALSE, typed |-> FALSE, event |-> None, page |-> {},
         last |-> FALSE, offset |-> 0, total |-> 0]

Updates == [at : Steps, on : BOOLEAN, typed : BOOLEAN, event : Events \cup {None},
            page : SUBSET Events, last : BOOLEAN, offset : Offsets, total : Offsets]

DialogueTypes ==
  /\ state \in States
  /\ shown \subseteq Events
  /\ run \in [shown : SUBSET Events, again : BOOLEAN, excused : BOOLEAN]

ChatTypes ==
  chat \in [boards : SUBSET Keyboards, cards : SUBSET Events, pages : SUBSET Offsets]

ServerTypes ==
  /\ {account, about} \subseteq BOOLEAN
  /\ about => account
  /\ rated \in [Events -> Nat]
  /\ saved \in Seq(Events) /\ IsInjective(saved)

UpdateTypes ==
  /\ upd \in [Slots -> Updates]
  /\ updates \in 0..MaxUpdates /\ troubles \in 0..MaxTroubles

CountTypes ==
  /\ list \in [next : Offsets, shown : SUBSET Events, stable : SUBSET Events,
               moved : BOOLEAN, ended : BOOLEAN, cut : BOOLEAN]
  /\ count \in [Events -> [may : Nat, told : Nat]]

TypeOK == DialogueTypes /\ ChatTypes /\ ServerTypes /\ UpdateTypes /\ CountTypes

Init ==
  /\ state = "none" /\ shown = {} /\ chat = [boards |-> {}, cards |-> {}, pages |-> {}]
  /\ account = FALSE /\ about = FALSE
  /\ rated = [e \in Events |-> 0] /\ saved = <<>>
  /\ upd = [s \in Slots |-> Idle]
  /\ updates = 0 /\ troubles = 0
  /\ run = [shown |-> {}, again |-> FALSE, excused |-> FALSE]
  /\ list = [next |-> 0, shown |-> {}, stable |-> {}, moved |-> FALSE,
             ended |-> FALSE, cut |-> FALSE]
  /\ count = [e \in Events |-> [may |-> 0, told |-> 0]]

-----------------------------------------------------------------------------
(* How updates run.                                                        *)

(* A new update, whose first step is next.                                 *)
Arrives(s, next) ==
  /\ upd[s] = Idle /\ updates < MaxUpdates
  /\ updates' = updates + 1
  /\ upd' = [upd EXCEPT ![s] = next]

Moves(s, next) == upd' = [upd EXCEPT ![s] = next] /\ UNCHANGED updates
Step(s, step) == [upd[s] EXCEPT !.at = step]
At(s, step) == upd[s].at = step

Fine == UNCHANGED troubles
Trouble == troubles < MaxTroubles /\ troubles' = troubles + 1

(* A call of the API that does Done on the server is answered, and the     *)
(* update goes on with next; or it fails, done or not, and the update ends.*)
Calls(s, Done, next) ==
  \/ Done /\ Fine /\ Moves(s, next)
  \/ (Done \/ UNCHANGED server) /\ Trouble /\ Moves(s, Idle)

Asks(keyboard) == chat' = [chat EXCEPT !.boards = @ \cup {keyboard}]
ShowsCards(es) == chat' = [chat EXCEPT !.cards = @ \cup es]

(* FSMContext.clear: the state and the data, what the feed has shown too.  *)
Clear == state' = "none" /\ shown' = {} /\ run' = [run EXCEPT !.excused = TRUE]
KeepState == UNCHANGED <<state, shown, run>>

-----------------------------------------------------------------------------
(* /start and onboarding: about oneself, format, city, the first feed.     *)

Registers == account' = TRUE /\ UNCHANGED <<about, rated, saved>>

Start(s) ==
  /\ Arrives(s, [Idle EXCEPT !.at = "start"])
  /\ UNCHANGED <<state, shown, chat, server, troubles, history>>

StartRegister(s) ==
  /\ At(s, "start")
  /\ Calls(s, Registers, [Idle EXCEPT !.at = "welcome", !.on = ~account])
  /\ UNCHANGED <<state, shown, chat, history>>

(* A new account, an empty profile or one that is not answered begin       *)
(* onboarding.                                                             *)
StartWelcome(s) ==
  /\ At(s, "welcome")
  /\ Moves(s, Idle)
  /\ \/ ~upd[s].on /\ about /\ Fine /\ Clear /\ UNCHANGED chat
     \/ /\ upd[s].on \/ ~about \/ troubles < MaxTroubles
        /\ IF upd[s].on \/ ~about THEN Fine ELSE Trouble
        /\ state' = "ob_about" /\ Asks("skip") /\ UNCHANGED <<shown, run>>
  /\ UNCHANGED <<server, list, count>>

(* /start <token>: the chat belongs to the web account from now on.        *)
StartWithToken(s) ==
  /\ Arrives(s, [Idle EXCEPT !.at = "link"])
  /\ UNCHANGED <<state, shown, chat, server, troubles, history>>

ConfirmLink(s) ==
  /\ At(s, "link")
  /\ \/ Registers /\ Fine /\ Clear
     \/ UNCHANGED <<server, troubles>> /\ KeepState
     \/ Registers /\ Trouble /\ KeepState
  /\ Moves(s, Idle)
  /\ UNCHANGED <<chat, list, count>>

(* Text in a state that waits for it.  What it belongs to is read here and *)
(* used after the call, which takes the model up to 90 seconds.            *)
AboutReceived(s) ==
  /\ state \in {"ob_about", "ed_about"}
  /\ Arrives(s, [Idle EXCEPT !.at = "about", !.on = (state = "ob_about")])
  /\ UNCHANGED <<state, shown, chat, server, troubles, history>>

SaveProfile(s) ==
  /\ At(s, "about")
  /\ Calls(s, account /\ about' = TRUE /\ UNCHANGED <<account, rated, saved>>,
           Step(s, "about_saved"))
  /\ UNCHANGED <<state, shown, chat, history>>

AboutSaved(s) ==
  /\ At(s, "about_saved")
  /\ Moves(s, Idle)
  /\ IF upd[s].on
     THEN state' = "ob_format" /\ Asks("format") /\ UNCHANGED <<shown, run>>
     ELSE Clear /\ UNCHANGED chat
  /\ UNCHANGED <<server, troubles, list, count>>

OnboardingSkip ==
  /\ "skip" \in chat.boards
  /\ updates < MaxUpdates /\ updates' = updates + 1
  /\ state' = "ob_format" /\ Asks("format")
  /\ UNCHANGED <<shown, server, upd, troubles, history>>

FormatChosen(s) ==
  /\ "format" \in chat.boards
  /\ Arrives(s, [Idle EXCEPT !.at = "format"])
  /\ UNCHANGED <<state, shown, chat, server, troubles, history>>

(* The values of the settings are left out.                                *)
UpdateSettings(s) ==
  /\ At(s, "format") \/ At(s, "city")
  /\ Calls(s, account /\ UNCHANGED server,
           Step(s, IF At(s, "format") THEN "format_saved" ELSE "city_saved"))
  /\ UNCHANGED <<state, shown, chat, history>>

FormatSaved(s) ==
  /\ At(s, "format_saved")
  /\ Moves(s, Idle)
  /\ IF state = "ob_format" THEN state' = "ob_city" /\ Asks("city")
     ELSE UNCHANGED <<state, chat>>
  /\ UNCHANGED <<shown, server, troubles, history>>

InOnboarding == state \in {"ob_city", "ob_format"}

CityChosen(s) ==
  /\ "city" \in chat.boards
  /\ Arrives(s, [Idle EXCEPT !.at = "city", !.on = InOnboarding])
  /\ UNCHANGED <<state, shown, chat, server, troubles, history>>

CityOther ==
  /\ "city" \in chat.boards
  /\ updates < MaxUpdates /\ updates' = updates + 1
  /\ state' = IF InOnboarding THEN "ob_city_text" ELSE "ed_city_text"
  /\ UNCHANGED <<shown, chat, server, upd, troubles, history>>

CityTyped(s) ==
  /\ state \in {"ob_city_text", "ed_city_text"}
  /\ Arrives(s, [Idle EXCEPT !.at = "city", !.on = (state = "ob_city_text"), !.typed = TRUE])
  /\ UNCHANGED <<state, shown, chat, server, troubles, history>>

(* The first feed follows onboarding; a city that was typed outside of it  *)
(* ends the dialogue.                                                      *)
CitySaved(s) ==
  /\ At(s, "city_saved")
  /\ IF upd[s].on \/ upd[s].typed THEN Clear ELSE KeepState
  /\ Moves(s, IF upd[s].on THEN [Idle EXCEPT !.at = "feed", !.on = TRUE] ELSE Idle)
  /\ UNCHANGED <<chat, server, troubles, list, count>>

(* /settings, /reset, and in the settings «Город» and «Формат».            *)
Settings(keyboard) ==
  /\ updates < MaxUpdates /\ updates' = updates + 1
  /\ Clear /\ Asks(keyboard)
  /\ UNCHANGED <<server, upd, troubles, list, count>>

SettingsAbout ==
  /\ updates < MaxUpdates /\ updates' = updates + 1
  /\ "settings" \in chat.boards
  /\ state' = "ed_about"
  /\ UNCHANGED <<shown, chat, server, upd, troubles, history>>

-----------------------------------------------------------------------------
(* The feed.                                                               *)

(* What the server recommends: events without a reaction.                  *)
Recommended == {e \in Events : rated[e] = 0}

InFeed == {s \in Slots : upd[s].at \in {"feed", "cards", "keep"}}

(* /feed begins anew, «Ещё ▶» goes on.                                     *)
Feed(s, anew) ==
  /\ anew \/ "more" \in chat.boards
  /\ Arrives(s, [Idle EXCEPT !.at = "feed", !.on = anew])
  /\ run' = [run EXCEPT !.excused = @ \/ InFeed # {}]
  /\ UNCHANGED <<state, shown, chat, server, troubles, list, count>>

(* The list is fetched; without an account one is made first.  An error is *)
(* an empty list, also when the account was made before it.                *)
FetchFeed(s) ==
  /\ At(s, "feed")
  /\ \/ Fine /\ account' = TRUE
        /\ Moves(s, [upd[s] EXCEPT !.at = "cards", !.page = Recommended])
     \/ Trouble /\ account' \in {account, TRUE} /\ Moves(s, [upd[s] EXCEPT !.at = "cards"])
  /\ UNCHANGED <<state, shown, chat, about, rated, saved, history>>

(* Mutant: what was shown is not left out.                                 *)
PageOfEverything(items, seen) ==
  {p \in SUBSET items : Cardinality(p) = FeedPage \/ (p = items /\ Cardinality(p) < FeedPage)}

(* next_feed_page: the first FeedPage of what was not shown, in an order   *)
(* the server chooses.                                                     *)
NextFeedPage(items, seen) ==
  LET fresh == items \ seen
  IN {p \in SUBSET fresh : Cardinality(p) = FeedPage \/ (p = fresh /\ Cardinality(p) < FeedPage)}

(* The shown events are read, then the cards are sent, one by one.         *)
ShowFeed(s) ==
  LET seen == IF upd[s].on THEN {} ELSE shown
      items == upd[s].page
  IN /\ At(s, "cards")
     /\ \E page \in NextFeedPage(items, seen) :
          /\ Moves(s, IF page = {} THEN Idle
                      ELSE [upd[s] EXCEPT !.at = "keep", !.page = seen \cup page,
                                          !.last = (items \subseteq seen \cup page)])
          /\ ShowsCards(page)
          /\ run' = IF page = {} THEN run
                    ELSE IF upd[s].on THEN [shown |-> page, again |-> FALSE,
                                       excused |-> InFeed # {s}]
                    ELSE [run EXCEPT !.shown = @ \cup page,
                                     !.again = @ \/ page \cap run.shown # {}]
     /\ UNCHANGED <<state, shown, server, troubles, list, count>>

(* What was shown is kept when all cards are out; a card that cannot be    *)
(* sent ends the handler before.                                           *)
KeepShown(s) ==
  /\ At(s, "keep")
  /\ Moves(s, Idle)
  /\ \/ /\ Fine
        /\ shown' = upd[s].page
        /\ IF upd[s].last THEN UNCHANGED chat ELSE Asks("more")
        /\ UNCHANGED run
     \/ Trouble /\ UNCHANGED <<shown, chat>> /\ run' = [run EXCEPT !.excused = TRUE]
  /\ UNCHANGED <<state, server, list, count>>

-----------------------------------------------------------------------------
(* Cards and reactions.                                                    *)

(* /search, «Похожие», «Подробнее» and the agent show cards.               *)
ShowCards(es) ==
  /\ es # {} /\ es \cap chat.cards = {}
  /\ updates < MaxUpdates /\ updates' = updates + 1
  /\ ShowsCards(es)
  /\ UNCHANGED <<state, shown, server, upd, troubles, history>>

(* Mutant: the press is answered at once.                                  *)
OnFeedbackAnswered(s, e) ==
  /\ e \in chat.cards
  /\ Arrives(s, [Idle EXCEPT !.at = "react", !.event = e])
  /\ count' = [count EXCEPT ![e].may = @ + 1, ![e].told = @ + 1]
  /\ UNCHANGED <<state, shown, chat, server, troubles, run, list>>

OnFeedback(s, e) ==
  /\ e \in chat.cards
  /\ Arrives(s, [Idle EXCEPT !.at = "react", !.event = e])
  /\ count' = [count EXCEPT ![e].may = @ + 1]
  /\ UNCHANGED <<state, shown, chat, server, troubles, run, list>>

(* The list es, which has e at most once, without e.                       *)
Without(es, e) ==
  IF e \in Range(es) THEN RemoveAt(es, CHOOSE i \in DOMAIN es : es[i] = e) ELSE es

(* A reaction to e is recorded; one that saves e puts it before the others.*)
Records(e) ==
  /\ account
  /\ rated' = [rated EXCEPT ![e] = @ + 1]
  /\ \/ UNCHANGED <<saved, list>>
     \/ /\ saved' = <<e>> \o Without(saved, e)
        /\ list' = [list EXCEPT !.moved = @ \/ e \in list.stable]
  /\ UNCHANGED <<account, about>>

Answered(e) == count' = [count EXCEPT ![e].told = @ + 1]

(* A call that was done and failed to say so may be made again.            *)
AnsweredLate(e) == count' = [count EXCEPT ![e].may = @ + 1]

(* After the first call fails, whatever for, comes a second; that one is   *)
(* the last.                                                               *)
NextTry(s) == IF At(s, "react") THEN Step(s, "register") ELSE Idle

(* The user is told that it is noted, or that the service is down.         *)
React(s) ==
  LET e == upd[s].event
  IN /\ At(s, "react") \/ At(s, "react_again")
     /\ \/ Records(e) /\ Fine /\ Answered(e) /\ Moves(s, Idle)
        \/ Records(e) /\ Trouble /\ AnsweredLate(e) /\ Moves(s, NextTry(s))
        \/ /\ IF account THEN Trouble ELSE Fine
           /\ Moves(s, NextTry(s)) /\ UNCHANGED <<server, list, count>>
     /\ UNCHANGED <<state, shown, chat, run>>

EnsureAccount(s) ==
  /\ At(s, "register")
  /\ Calls(s, Registers, Step(s, "react_again"))
  /\ UNCHANGED <<state, shown, chat, history>>

-----------------------------------------------------------------------------
(* The saved list.                                                         *)

(* «Убрать» in the chat, or the same on the web.                           *)
Unsave(e) ==
  /\ e \in Range(saved)
  /\ updates < MaxUpdates /\ updates' = updates + 1
  /\ saved' = Without(saved, e)
  /\ list' = [list EXCEPT !.stable = @ \ {e}, !.moved = TRUE]
  /\ UNCHANGED <<state, shown, chat, account, about, rated, upd, troubles, run, count>>

(* Mutant: the next page begins after the place of the last event, counted *)
(* from one.                                                               *)
OnePastNextOffset(offset, page) == offset + Len(page) + 1

NextOffset(offset, page) == offset + Len(page)

(* The rows of a page: an offset and a limit.                              *)
PageFrom(offset) ==
  SubSeq(saved, offset + 1,
         IF offset + SavedPage < Len(saved) THEN offset + SavedPage ELSE Len(saved))

(* /saved asks for the first page, «Ещё ▶» for the one from its offset on. *)
(* The server counts the list, and reads the rows after that.              *)
CountSaved(s, offset) ==
  /\ offset = 0 \/ offset \in chat.pages
  /\ Arrives(s, [Idle EXCEPT !.at = "saved", !.offset = offset, !.total = Len(saved)])
  /\ UNCHANGED <<state, shown, chat, server, troubles, history>>

(* The cards es of the page at offset are in the chat, and unless the list *)
(* ends «Ещё ▶» for the page at next.                                      *)
SavedSent(offset, es, next, ends, cut) ==
  LET goesOn == offset = 0 \/ offset = list.next
  IN /\ chat' = [chat EXCEPT !.cards = @ \cup es,
                             !.pages = @ \cup (IF ends THEN {} ELSE {next})]
     /\ list' = [next |-> IF goesOn THEN next ELSE list.next,
                 shown |-> IF offset = 0 THEN es ELSE list.shown \cup es,
                 stable |-> IF offset = 0 THEN Range(saved) ELSE list.stable,
                 moved |-> offset # 0 /\ list.moved,
                 ended |-> goesOn /\ ends,
                 cut |-> goesOn /\ cut]

(* A call that fails is a page without events, which says that the list is *)
(* empty or at its end; a message that cannot be sent, «Ещё ▶» the last of *)
(* them, leaves the rest of the page out.                                  *)
ShowSaved(s) ==
  LET offset == upd[s].offset
      page == PageFrom(offset)
      next == NextOffset(offset, page)
      ends == page = <<>> \/ next >= upd[s].total
  IN /\ At(s, "saved")
     /\ Moves(s, Idle)
     /\ \/ Fine /\ SavedSent(offset, Range(page), next, ends, upd[s].total < Len(saved))
        \/ \E n \in 0..Len(page) :
             /\ n < Len(page) \/ ~ends
             /\ Trouble /\ SavedSent(offset, {page[i] : i \in 1..n}, offset, TRUE, TRUE)
     /\ UNCHANGED <<state, shown, server, run, count>>

-----------------------------------------------------------------------------
Handles(s) ==
  \/ StartRegister(s) \/ StartWelcome(s) \/ ConfirmLink(s)
  \/ SaveProfile(s) \/ AboutSaved(s)
  \/ UpdateSettings(s) \/ FormatSaved(s) \/ CitySaved(s)
  \/ FetchFeed(s) \/ ShowFeed(s) \/ KeepShown(s)
  \/ React(s) \/ EnsureAccount(s)
  \/ ShowSaved(s)

Next ==
  \/ \E s \in Slots :
       \/ Handles(s)
       \/ Start(s) \/ StartWithToken(s)
       \/ AboutReceived(s) \/ FormatChosen(s) \/ CityChosen(s) \/ CityTyped(s)
       \/ \E anew \in BOOLEAN : Feed(s, anew)
       \/ \E e \in Events : OnFeedback(s, e)
       \/ \E offset \in Offsets : CountSaved(s, offset)
  \/ OnboardingSkip \/ CityOther \/ SettingsAbout
  \/ \E keyboard \in {"settings", "format", "city"} : Settings(keyboard)
  \/ \E es \in SUBSET Events : ShowCards(es)
  \/ \E e \in Events : Unsave(e)

Spec == Init /\ [][Next]_vars

-----------------------------------------------------------------------------
(* «Ещё ▶» shows nothing again that the feed has shown since /feed, and    *)
(* leaves nothing out that it has not shown: unless feed handlers          *)
(* overlapped, a card could not be sent, or the dialogue was cleared.      *)
FeedGoesOn ==
  run.excused \/ (~run.again /\ (InFeed = {} => shown \subseteq run.shown))

(* When the saved list ends, and its last page neither failed nor counted  *)
(* fewer events than it then read, all that was saved since the first page *)
(* has been shown, unless events were removed or saved again in between.   *)
(* A page that failed does no lasting harm: its button, pressed again,     *)
(* goes on from there.                                                     *)
SavedListComplete ==
  list.ended => list.moved \/ list.cut \/ list.stable \subseteq list.shown

(* A reaction the user is told is noted is recorded, and nothing is        *)
(* recorded more often than it was pressed, but for calls that were done   *)
(* and failed to say so.                                                   *)
ReactionsCounted ==
  \A e \in Events : count[e].told <= rated[e] /\ rated[e] <= count[e].may

(* Stated by the bot's description of /feed and not true: «Ещё ▶» never    *)
(* repeats.                                                                *)
FeedNeverRepeats == ~run.again
=============================================================================
