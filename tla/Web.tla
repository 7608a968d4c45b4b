---------------------------------- MODULE Web ----------------------------------
(***************************************************************************)
(* One tab of the web client: the pages "Saved", "Settings" (the part      *)
(* about the user's interests), "Search" and "Inbox" (no more in it than   *)
(* one page shows).  A page calls the API through the proxy of its own     *)
(* origin and goes on when the answer comes; calls overlap, their answers  *)
(* come in any order, and a call may fail before or after the API has done *)
(* it.  Leaving a page drops the answers it waits for but stops no call.   *)
(* The bot, the agent and the digests change the same data.                *)
(***************************************************************************)
EXTENDS Integers, Sequences, FiniteSets, SequencesExt, Sublists

CONSTANTS UserEvents,  \* events the user may have saved
          Topics,
          Texts,       \* what the user writes: about oneself, queries
          Notes,       \* notifications
          Page,        \* PAGE
          MaxCalls,    \* bound on the calls
          MaxTroubles  \* bound on calls that fail, expiries and other clients

ASSUME WebAssumption ==
  /\ Page \in Nat \ {0} /\ {MaxCalls, MaxTroubles} \subseteq Nat
  /\ IsFiniteSet(UserEvents) /\ IsFiniteSet(Notes)

VARIABLES
  cookie,   \* the access cookie is there and its token is good
  page,     \* the page of the tab
  view,     \* its state
  calls,    \* calls under way
  saved,    \* the user's saved events, the latest first
  profile,  \* the user's profile
  inbox,    \* the notifications filed for the user, and those unread
  sent, troubles,
  disturbed \* since the page was opened somebody else changed its data, a
            \* call failed, or one was made that overlaps another (history)

server == <<saved, profile, inbox>>
webVars == <<cookie, page, view, calls, server, sent, troubles, disturbed>>

Profiles == [about : Texts \cup {""}, interests : SUBSET Topics, anti : SUBSET Topics]
NoProfile == [about |-> "", interests |-> {}, anti |-> {}]
NoInbox == [filed |-> {}, unread |-> {}]
NoView == [loaded |-> FALSE, error |-> FALSE, items |-> <<>>, total |-> 0,
           profile |-> NoProfile, text |-> "", typed |-> FALSE, busy |-> FALSE, shows |-> "",
           inbox |-> NoInbox]

(* A call: what it asks for, whether it was done and answered with what,   *)
(* and whether the page that made it is still open.                        *)
NoCall == [op |-> "", at |-> "sent", open |-> TRUE, offset |-> 0, event |-> {}, text |-> "",
           given |-> FALSE, interests |-> {}, anti |-> {},
           note |-> {},
           ok |-> TRUE, items |-> <<>>, total |-> 0, profile |-> NoProfile, inbox |-> NoInbox]

WebInit ==
  /\ cookie = FALSE /\ page = "login" /\ view = NoView
  /\ calls = << >>
  /\ saved \in SetToSeqs(UserEvents)
  /\ profile = NoProfile
  /\ \E filed \in SUBSET Notes : inbox = [filed |-> filed, unread |-> filed]
  /\ sent = 0 /\ troubles = 0 /\ disturbed = FALSE

Live == {c \in DOMAIN calls : calls[c].open}
Trouble == troubles < MaxTroubles /\ troubles' = troubles + 1

(* request: a call sets off.  A list is asked for while something else is  *)
(* under way, or the other way about; or one asks twice for the same.      *)
Overlaps(call) ==
  \/ call.op \in {"saved", "inbox"} /\ Live # {}
  \/ call.op \in {"remove", "read"} /\ \E c \in Live : calls[c].op \in {"saved", "inbox"}
  \/ call.op = "read" /\ \E c \in Live : calls[c].note = call.note

Request(call) ==
  /\ sent < MaxCalls
  /\ sent' = sent + 1
  /\ calls' = [c \in DOMAIN calls \cup {sent} |-> IF c = sent THEN call ELSE calls[c]]
  /\ disturbed' = (disturbed \/ Overlaps(call))

(* A page is opened: what it waits for is dropped, what is under way is    *)
(* done all the same.                                                      *)
Enter(p, first) ==
  LET left == [c \in {d \in DOMAIN calls : calls[d].at = "sent"} |->
                 [calls[c] EXCEPT !.open = FALSE]]
  IN /\ page' = p /\ view' = NoView
     /\ disturbed' = (DOMAIN left # {})
     /\ IF first = <<>> THEN calls' = left /\ UNCHANGED sent
        ELSE /\ sent < MaxCalls
             /\ sent' = sent + 1
             /\ calls' = [c \in DOMAIN left \cup {sent} |->
                            IF c = sent THEN Head(first) ELSE left[c]]

-----------------------------------------------------------------------------
(* The session.                                                            *)

Login ==
  /\ page = "login" /\ ~cookie
  /\ cookie' = TRUE
  /\ UNCHANGED <<page, view, calls, server, sent, troubles, disturbed>>

Logout ==
  /\ cookie /\ cookie' = FALSE
  /\ Enter("login", <<>>)
  /\ UNCHANGED <<server, troubles>>

(* The token is good for fifteen minutes and nothing renews it.            *)
CookieExpires ==
  /\ cookie /\ cookie' = FALSE
  /\ Trouble
  /\ UNCHANGED <<page, view, calls, server, sent, disturbed>>

(* Without the cookie every page is the login.                             *)
Open(p) ==
  /\ p # page
  /\ IF cookie
     THEN Enter(p, CASE p = "saved"    -> <<[NoCall EXCEPT !.op = "saved"]>>
                     [] p = "settings" -> <<[NoCall EXCEPT !.op = "profile"]>>
                     [] p = "inbox"    -> <<[NoCall EXCEPT !.op = "inbox"]>>
                     [] OTHER          -> <<>>)
     ELSE page # "login" /\ Enter("login", <<>>)
  /\ UNCHANGED <<cookie, server, troubles>>

-----------------------------------------------------------------------------
(* "Saved".                                                                *)

(* Mutant: the next page is counted in whole pages.                        *)
WholePages(items) == ((Len(items) + Page - 1) \div Page) * Page

NextOffset(items) == Len(items)

ShowMore ==
  /\ page = "saved" /\ view.loaded /\ Len(view.items) < view.total
  /\ view' = [view EXCEPT !.error = FALSE]
  /\ Request([NoCall EXCEPT !.op = "saved", !.offset = NextOffset(view.items)])
  /\ UNCHANGED <<cookie, page, server, troubles>>

RemoveItem(e) ==
  /\ page = "saved" /\ view.loaded /\ \E i \in DOMAIN view.items : view.items[i] = e
  /\ Request([NoCall EXCEPT !.op = "remove", !.event = {e}])
  /\ UNCHANGED <<cookie, page, view, server, troubles>>

Loaded(call) ==
  [view EXCEPT !.loaded = TRUE, !.error = ~call.ok,
               !.items = IF ~call.ok THEN @
                         ELSE IF call.offset = 0 \/ ~view.loaded THEN call.items
                         ELSE @ \o call.items,
               !.total = IF call.ok THEN call.total ELSE @]

Removed(call) ==
  [view EXCEPT !.error = @ \/ ~call.ok,
               !.items = IF call.ok THEN Without(@, call.event) ELSE @,
               !.total = IF call.ok THEN Max({0, @ - 1}) ELSE @]

-----------------------------------------------------------------------------
(* "Settings": the text about oneself and the topics read from it.         *)

Type(text) ==
  /\ page = "settings" /\ view.loaded /\ view.text # text
  /\ view' = [view EXCEPT !.text = text, !.typed = TRUE]
  /\ UNCHANGED <<cookie, page, calls, server, sent, troubles, disturbed>>

(* Mutant: the buttons stay enabled while a profile is saved.              *)
SavesAtOnce(call) ==
  /\ page = "settings" /\ view.loaded
  /\ view' = [view EXCEPT !.busy = TRUE]
  /\ Request([call EXCEPT !.op = "put", !.text = view.text])

SaveAbout(call) ==
  /\ page = "settings" /\ view.loaded /\ ~view.busy
  /\ view' = [view EXCEPT !.busy = TRUE]
  /\ Request([call EXCEPT !.op = "put", !.text = view.text])

(* The topics are left to the language model.                              *)
SaveText == SaveAbout(NoCall) /\ UNCHANGED <<cookie, page, server, troubles>>

(* One topic less, and the text as it stands in the field.                 *)
RemoveTopic(t) ==
  /\ t \in view.profile.interests \cup view.profile.anti
  /\ \E kind \in {k \in {"interests", "anti"} : t \in view.profile[k]} :
       SaveAbout([NoCall EXCEPT !.given = TRUE,
                    !.interests = view.profile.interests \ (IF kind = "interests" THEN {t} ELSE {}),
                    !.anti = view.profile.anti \ (IF kind = "anti" THEN {t} ELSE {})])
  /\ UNCHANGED <<cookie, page, server, troubles>>

Profiled(call) ==
  IF call.ok
  THEN [view EXCEPT !.loaded = TRUE, !.busy = FALSE, !.error = FALSE, !.profile = call.profile,
                    !.text = call.profile.about, !.typed = FALSE]
  ELSE [view EXCEPT !.busy = FALSE, !.error = TRUE]

-----------------------------------------------------------------------------
(* "Search".                                                               *)

(* Mutant: the form is sent again before it is answered.                   *)
SubmitAgain(q) ==
  /\ page = "search"
  /\ view' = [view EXCEPT !.busy = TRUE, !.error = FALSE, !.text = q]
  /\ Request([NoCall EXCEPT !.op = "search", !.text = q])
  /\ UNCHANGED <<cookie, page, server, troubles>>

Submit(q) ==
  /\ page = "search" /\ ~view.busy
  /\ view' = [view EXCEPT !.busy = TRUE, !.error = FALSE, !.text = q]
  /\ Request([NoCall EXCEPT !.op = "search", !.text = q])
  /\ UNCHANGED <<cookie, page, server, troubles>>

Found(call) ==
  [view EXCEPT !.busy = FALSE, !.error = ~call.ok,
               !.shows = IF call.ok THEN call.text ELSE @]

-----------------------------------------------------------------------------
(* "Inbox".                                                                *)

Refresh ==
  /\ page = "inbox" /\ view.loaded
  /\ view' = [view EXCEPT !.error = FALSE]
  /\ Request([NoCall EXCEPT !.op = "inbox"])
  /\ UNCHANGED <<cookie, page, server, troubles>>

MarkRead(n) ==
  /\ page = "inbox" /\ view.loaded /\ n \in view.inbox.unread
  /\ Request([NoCall EXCEPT !.op = "read", !.note = {n}])
  /\ UNCHANGED <<cookie, page, view, server, troubles>>

Listed(call) ==
  [view EXCEPT !.loaded = TRUE, !.error = ~call.ok,
               !.inbox = IF call.ok THEN call.inbox ELSE NoInbox,
               !.total = IF call.ok THEN call.total ELSE 0]

(* Mutant: what was read is still counted.                                 *)
ReadButCounted(call) == [view EXCEPT !.inbox.unread = @ \ call.note]

(* Whatever the answer was.                                                *)
Marked(call) ==
  [view EXCEPT !.inbox.unread = @ \ call.note, !.total = Max({0, @ - 1})]

-----------------------------------------------------------------------------
(* The API.                                                                *)

Done(c, answer) == calls' = [calls EXCEPT ![c] = [answer EXCEPT !.at = "done"]]
Denied(c) == Done(c, [calls[c] EXCEPT !.ok = FALSE]) /\ UNCHANGED server

ListSaved(c) ==
  /\ Done(c, [calls[c] EXCEPT
       !.items = SubSeq(saved, calls[c].offset + 1, Min({Len(saved), calls[c].offset + Page})),
       !.total = Len(saved)])
  /\ UNCHANGED server

(* What is not saved any more is not found.                                *)
RemoveSaved(c) ==
  LET there == calls[c].event \subseteq Range(saved)
  IN /\ Done(c, [calls[c] EXCEPT !.ok = there])
     /\ saved' = Without(saved, calls[c].event)
     /\ UNCHANGED <<profile, inbox>>

GetProfile(c) == Done(c, [calls[c] EXCEPT !.profile = profile]) /\ UNCHANGED server

(* The lists are the user's, or what the model makes of the text, nothing  *)
(* when it fails; what one avoids is not an interest.                      *)
PutProfile(c) ==
  LET call == calls[c]
  IN \E interests, anti \in SUBSET Topics :
       /\ call.given => interests = call.interests /\ anti = call.anti
       /\ call.text = "" /\ ~call.given => interests = {} /\ anti = {}
       /\ profile' = [about |-> call.text, interests |-> interests \ anti, anti |-> anti]
       /\ Done(c, [call EXCEPT !.profile = profile'])
       /\ UNCHANGED <<saved, inbox>>

ListInbox(c) ==
  /\ Done(c, [calls[c] EXCEPT !.inbox = inbox, !.total = Cardinality(inbox.unread)])
  /\ UNCHANGED server

MarkNotificationRead(c) ==
  /\ Done(c, calls[c])
  /\ inbox' = [inbox EXCEPT !.unread = @ \ calls[c].note]
  /\ UNCHANGED <<saved, profile>>

(* The search is open to everyone.                                         *)
Serve(c) ==
  /\ calls[c].at = "sent"
  /\ \/ calls[c].op = "search" /\ Done(c, calls[c]) /\ UNCHANGED server
     \/ calls[c].op # "search" /\ ~cookie /\ Denied(c)
     \/ /\ cookie
        /\ \/ calls[c].op = "saved" /\ ListSaved(c)
           \/ calls[c].op = "remove" /\ RemoveSaved(c)
           \/ calls[c].op = "profile" /\ GetProfile(c)
           \/ calls[c].op = "put" /\ PutProfile(c)
           \/ calls[c].op = "inbox" /\ ListInbox(c)
           \/ calls[c].op = "read" /\ MarkNotificationRead(c)
  /\ UNCHANGED <<cookie, page, view, sent, troubles, disturbed>>

(* The answer comes to the page.                                           *)
Shown(call) ==
  CASE call.op = "saved"  -> Loaded(call)
    [] call.op = "remove" -> Removed(call)
    [] call.op = "search" -> Found(call)
    [] call.op = "inbox"  -> Listed(call)
    [] call.op = "read"   -> Marked(call)
    [] OTHER              -> Profiled(call)

CallsBut(c) == [d \in DOMAIN calls \ {c} |-> calls[d]]

Answer(c) ==
  /\ calls[c].at = "done"
  /\ calls' = CallsBut(c)
  /\ view' = IF calls[c].open THEN Shown(calls[c]) ELSE view
  /\ UNCHANGED <<cookie, page, server, sent, troubles, disturbed>>

(* The API or the proxy is not reached, or the connection breaks: the page *)
(* gets an error; a call that was sent may be done all the same.           *)
CallFails(c) ==
  /\ Trouble
  /\ calls[c].open
  /\ calls' = IF calls[c].at = "done" THEN CallsBut(c)
              ELSE [calls EXCEPT ![c].open = FALSE]
  /\ view' = Shown([calls[c] EXCEPT !.ok = FALSE])
  /\ disturbed' = TRUE
  /\ UNCHANGED <<cookie, page, server, sent>>

(* The bot, the agent, a digest.                                           *)
OtherClient ==
  /\ Trouble
  /\ \/ \E e \in UserEvents :
          /\ saved' = IF e \in Range(saved) THEN Without(saved, {e})
                      ELSE <<e>> \o saved
          /\ UNCHANGED <<profile, inbox>>
     \/ \E t \in Topics :
          /\ profile' = [profile EXCEPT !.interests = @ \cup {t}, !.anti = @ \ {t}]
          /\ profile' # profile
          /\ UNCHANGED <<saved, inbox>>
     \/ \E n \in Notes \ inbox.filed :
          /\ inbox' = [filed |-> inbox.filed \cup {n}, unread |-> inbox.unread \cup {n}]
          /\ UNCHANGED <<saved, profile>>
  /\ disturbed' = TRUE
  /\ UNCHANGED <<cookie, page, view, calls, sent>>

WebNext ==
  \/ Login \/ Logout \/ CookieExpires
  \/ \E p \in {"saved", "settings", "search", "inbox"} : Open(p)
  \/ ShowMore \/ \E e \in UserEvents : RemoveItem(e)
  \/ \E text \in Texts : Type(text) \/ Submit(text)
  \/ Refresh \/ \E n \in Notes : MarkRead(n)
  \/ SaveText \/ \E t \in Topics : RemoveTopic(t)
  \/ \E c \in DOMAIN calls : Serve(c) \/ Answer(c) \/ CallFails(c)
  \/ OtherClient

WebSpec == WebInit /\ [][WebNext]_webVars

-----------------------------------------------------------------------------
(* Removing events while paging through the list neither repeats an event  *)
(* nor skips one: when nothing is under way the page shows the beginning   *)
(* of the user's list and how long it is.                                  *)
SavedAgrees ==
  page = "saved" /\ view.loaded /\ Live = {} /\ ~view.error /\ ~disturbed =>
    IsPrefix(view.items, saved) /\ view.total = Len(saved)

(* In whatever order notifications are marked and the answers come, the    *)
(* page counts and marks as unread what is, while the session lasts.       *)
InboxAgrees ==
  page = "inbox" /\ view.loaded /\ Live = {} /\ ~view.error /\ ~disturbed /\ cookie =>
    view.inbox = inbox /\ view.total = Cardinality(inbox.unread)

(* The lists of the pages agree with those of the API (both of them).      *)
ListsAgree == SavedAgrees /\ InboxAgrees

(* Not true: a notification that the page shows as read is read.           *)
ReadIsRead ==
  page = "inbox" /\ view.loaded /\ Live = {} =>
    (view.inbox.filed \ view.inbox.unread) \cap inbox.unread = {}

(* However saves of the text and removals of topics follow each other, the *)
(* page shows the profile that was kept, and the text too unless the user  *)
(* has gone on writing.                                                    *)
ProfileAgrees ==
  page = "settings" /\ view.loaded /\ Live = {} /\ ~disturbed =>
    /\ view.error \/ view.profile = profile
    /\ view.error \/ view.typed \/ view.text = profile.about

(* Results are those of the query asked last, unless it failed: an answer  *)
(* that is late does not replace a newer one.                              *)
SearchAgrees ==
  page = "search" /\ ~view.busy /\ ~view.error => view.shows = view.text
=============================================================================
