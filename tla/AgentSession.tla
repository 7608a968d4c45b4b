---------------------------- MODULE AgentSession ----------------------------
(***************************************************************************)
(* The dialogue of one user with the agent.  Its session (the messages     *)
(* sent to the language model, the events shown, a change that waits for a *)
(* yes) is one value in Redis: a request loads it, works on its copy over  *)
(* several calls of the model and of tools, and saves all of it.  Nothing  *)
(* is locked, and the web page and the chat with the bot share it.         *)
(*                                                                         *)
(* A message is its role and the number of tool calls it makes; what is    *)
(* said is left out.  Requests and the changes they propose have the same  *)
(* names: a turn ends with the first change it proposes.                   *)
(***************************************************************************)
EXTENDS Integers, Sequences, FiniteSets, SequencesExt, Sublists

CONSTANTS Requests,     \* slots of concurrent requests
          Events,       \* events the tools find
          None,         \* no change
          MaxSteps,     \* AgentConfig.max_steps
          MaxCalls,     \* AgentConfig.max_tool_calls_per_step
          HistoryLimit, \* AgentConfig.history_limit
          MaxShown,     \* MAX_SHOWN
          MaxBegun      \* bound on the requests that begin

ASSUME AgentAssumption ==
  /\ {MaxSteps, MaxCalls, HistoryLimit, MaxShown, MaxBegun} \subseteq Nat \ {0}
  /\ None \notin Nat

Clients == {"web", "bot"}
Changes == 1..MaxBegun

Said(role, calls) == [role |-> role, calls |-> calls]
User == Said("user", 0)
Text == Said("assistant", 0) \* an answer, or a note about a change
ToolResult == Said("tool", 0)
Messages == [role : {"user", "assistant", "tool"}, calls : 0..MaxCalls]

Sessions == [messages : Seq(Messages), shown : Seq(Events), pending : Changes \cup {None}]
Fresh == [messages |-> <<>>, shown |-> <<>>, pending |-> None]

VARIABLES
  stored, \* the session in Redis, Fresh (what load makes of nothing) if there is none
  req,    \* req[r]: a request and its copy of the session
  page,   \* the assistant page: busy, and the change its buttons are for
  chat,   \* changes with a keyboard in the chat
  begun,  \* requests that have begun
  applied,   \* applied[c]: times change c was carried out (history)
  refused,   \* changes reported as not applied (history)
  contested, \* changes two requests held at once, or whose request died
             \* after carrying it out (history)
  offered,   \* changes a client has shown (history)
  gone       \* changes that waited in the stored session and no longer do

clients == <<page, chat, offered>>
verdicts == <<applied, refused, contested, gone>>
vars == <<stored, req, page, chat, begun, applied, refused, contested, offered, gone>>

(* change: the change a request resolves, approve: whether it carries it   *)
(* out; left: tool calls of the step still to run; waits: its client will  *)
(* see the answer.                                                         *)
Idle == [phase |-> "idle", client |-> "web", name |-> None, session |-> Fresh,
         change |-> None, approve |-> FALSE, steps |-> 0, left |-> 0, waits |-> FALSE]

Phases == {"idle", "llm", "tools", "apply", "save", "reply"}

TypeOK ==
  /\ stored \in Sessions
  /\ Len(stored.messages) <= HistoryLimit
  /\ Len(stored.shown) <= MaxShown /\ IsInjective(stored.shown)
  /\ req \in [Requests ->
       [phase : Phases, client : Clients, name : Changes \cup {None}, session : Sessions,
        change : Changes \cup {None}, approve : BOOLEAN, steps : 0..MaxSteps,
        left : 0..MaxCalls, waits : BOOLEAN]]
  /\ page \in [busy : BOOLEAN, button : Changes \cup {None}]
  /\ begun \in 0..MaxBegun
  /\ applied \in [Changes -> Nat]
  /\ {chat, refused, contested, offered, gone} \subseteq SUBSET Changes

Init ==
  /\ stored = Fresh
  /\ req = [r \in Requests |-> Idle]
  /\ page = [busy |-> FALSE, button |-> None]
  /\ begun = 0
  /\ applied = [c \in Changes |-> 0]
  /\ chat = {} /\ refused = {} /\ contested = {} /\ offered = {} /\ gone = {}

-----------------------------------------------------------------------------
(* Requests begin.                                                         *)

Holds(r, c) == c # None /\ req[r].phase \notin {"idle", "reply"} /\ req[r].change = c

(* Request r of client c begins: it works on session s and resolves the    *)
(* change that was loaded, if any.                                         *)
Begin(r, c, s, change, approve, phase) ==
  /\ req[r].phase = "idle"
  /\ begun < MaxBegun
  /\ begun' = begun + 1
  /\ req' = [req EXCEPT ![r] = [Idle EXCEPT
       !.phase = phase, !.client = c, !.name = begun + 1, !.session = s,
       !.change = change, !.approve = approve, !.waits = TRUE]]
  /\ contested' = IF \E q \in Requests : Holds(q, change)
                  THEN contested \cup {change} ELSE contested
  /\ UNCHANGED <<stored, applied, refused, gone, offered>>

(* The page sends one message at a time and takes its buttons away; the    *)
(* bot handles several messages of a chat at once.                         *)
Sends(c) ==
  /\ c = "web" => ~page.busy
  /\ page' = IF c = "web" THEN [busy |-> TRUE, button |-> None] ELSE page
  /\ UNCHANGED chat

(* Mutant: a message that is no answer leaves the change waiting.          *)
NotedOnly(s, ms) == [s EXCEPT !.messages = s.messages \o ms]

(* What a request adds to the history at once; nothing waits any more.     *)
Noted(s, ms) == [s EXCEPT !.messages = s.messages \o ms, !.pending = None]

(* A message that is neither yes nor no: a change that waits is dropped.   *)
Ask(r, c) ==
  LET s == stored
      note == IF s.pending = None THEN <<>> ELSE <<Text>>
  IN /\ Sends(c)
     /\ Begin(r, c, Noted(s, note \o <<User>>), s.pending, FALSE, "llm")

(* «да» or «нет» while a change waits.                                     *)
AnswerInText(r, c, approve) ==
  LET s == stored
      answer == IF approve THEN <<User>> ELSE <<User, Text>>
  IN /\ s.pending # None
     /\ Sends(c)
     /\ Begin(r, c, Noted(s, answer), s.pending, approve,
              IF approve THEN "apply" ELSE "save")

(* A button goes with the press.                                           *)
Pressed(c, p) ==
  \/ c = "web" /\ ~page.busy /\ page.button = p
       /\ page' = [busy |-> TRUE, button |-> None] /\ UNCHANGED chat
  \/ c = "bot" /\ p \in chat /\ chat' = chat \ {p} /\ UNCHANGED page

(* Mutant: the button resolves its change whatever waits.                  *)
PressUnchecked(r, c, p, approve) ==
  /\ Pressed(c, p)
  /\ Begin(r, c, Noted(stored, IF approve THEN <<>> ELSE <<Text>>), p, approve,
           IF approve THEN "apply" ELSE "save")

(* A button under change p; one that no longer waits is left alone.        *)
Press(r, c, p, approve) ==
  LET s == stored
      current == s.pending = p
  IN /\ Pressed(c, p)
     /\ Begin(r, c,
              IF ~current THEN s ELSE Noted(s, IF approve THEN <<>> ELSE <<Text>>),
              IF current THEN p ELSE None, approve,
              IF ~current THEN "reply" ELSE IF approve THEN "apply" ELSE "save")

-----------------------------------------------------------------------------
(* The turn: the model chooses tools, their results go back to it.         *)

Moves(r, state) ==
  /\ req' = [req EXCEPT ![r] = state]
  /\ UNCHANGED <<stored, clients, begun, verdicts>>

Heard(s, m) == [s EXCEPT !.messages = Append(s.messages, m)]

(* The model answers, with at most MaxCalls calls that are heeded.         *)
LlmAnswers(r) ==
  /\ req[r].phase = "llm"
  /\ \E n \in 0..MaxCalls :
       Moves(r, [req[r] EXCEPT !.phase = IF n = 0 THEN "save" ELSE "tools",
                               !.session = Heard(@, Said("assistant", n)),
                               !.steps = @ + 1, !.left = n])

(* Every provider fails: the turn ends; one that got no answer at all      *)
(* takes its message back.                                                 *)
LlmFails(r) ==
  LET s == req[r].session
  IN /\ req[r].phase = "llm"
     /\ Moves(r, [req[r] EXCEPT
          !.phase = "save",
          !.session = IF req[r].steps = 0
                      THEN [s EXCEPT !.messages = Front(s.messages)] ELSE s])

(* What follows the last call of a step: a change ends the turn, as do the *)
(* step limit and, at any step, the token limit.                           *)
Continuations(r, s) ==
  IF req[r].left > 1 THEN {"tools"}
  ELSE IF s.pending # None \/ req[r].steps = MaxSteps THEN {"save"}
  ELSE {"llm", "save"}

(* A tool call is over: s is the session it leaves.                        *)
Called(r, s) ==
  /\ req[r].phase = "tools"
  /\ \E phase \in Continuations(r, s) :
       Moves(r, [req[r] EXCEPT !.phase = phase, !.session = Heard(s, ToolResult),
                               !.left = @ - 1])

(* The last MaxShown of the events shown, the latest at the end.           *)
RememberShown(shown, es) ==
  LET all == Without(shown, Range(es)) \o es
      over == Len(all) - MaxShown
  IN IF over > 0 THEN SubSeq(all, over + 1, Len(all)) ELSE all

Finds(r, es) ==
  LET s == req[r].session
  IN Called(r, [s EXCEPT !.shown = RememberShown(s.shown, es)])

Lists == {es \in UNION {[1..n -> Events] : n \in 0..Cardinality(Events)} :
            \A i, j \in DOMAIN es : es[i] = es[j] => i = j}

(* search_events, and recommend when the model wants shown events again.   *)
SearchEvents(r) == \E es \in Lists : Finds(r, es)

(* recommend leaves out what was shown in this dialogue.                   *)
Recommend(r) ==
  \E es \in Lists :
    /\ \A i \in DOMAIN es : es[i] \notin Range(req[r].session.shown)
    /\ Finds(r, es)

(* get_event, explain_event                                                *)
LookUp(r) == \E e \in Events : Finds(r, <<e>>)

(* get_profile; a tool that is not allowed, arguments that are not valid,  *)
(* a tool that fails.                                                      *)
OnlyAnswers(r) == Called(r, req[r].session)

(* record_feedback takes only events the dialogue has shown.               *)
RecordFeedback(r) == Range(req[r].session.shown) # {} /\ Called(r, req[r].session)

(* update_profile, update_settings: the change waits for a yes.  A second  *)
(* change of the step is rejected, which is OnlyAnswers.                   *)
ProposeChange(r) ==
  LET s == req[r].session
  IN /\ s.pending = None
     /\ Called(r, [s EXCEPT !.pending = req[r].name])

-----------------------------------------------------------------------------
(* update_profile and update_settings commit on their own, or fail.        *)
CarryOut(c) ==
  \/ applied' = [applied EXCEPT ![c] = @ + 1]
  \/ UNCHANGED applied

(* A note of success or failure follows.                                   *)
Apply(r) ==
  /\ req[r].phase = "apply"
  /\ CarryOut(req[r].change)
  /\ req' = [req EXCEPT ![r].phase = "save", ![r].session = Heard(@, Text)]
  /\ UNCHANGED <<stored, clients, begun, refused, contested, gone>>

(* Mutant: the history is cut in the middle of a step.                     *)
TrimAnywhere(ms) ==
  IF Len(ms) <= HistoryLimit THEN ms ELSE SubSeq(ms, Len(ms) - HistoryLimit + 1, Len(ms))

(* The last HistoryLimit messages from the first of the user on; none if   *)
(* the user said nothing in them.                                          *)
TrimHistory(ms) ==
  LET from == Len(ms) - HistoryLimit + 1
      starts == {i \in from..Len(ms) : ms[i].role = "user"}
  IN IF Len(ms) <= HistoryLimit THEN ms
     ELSE IF starts = {} THEN <<>>
     ELSE SubSeq(ms, CHOOSE i \in starts : \A j \in starts : i <= j, Len(ms))

(* The store's session becomes s.                                          *)
Stores(s) ==
  /\ stored' = s
  /\ gone' = gone \cup ({stored.pending} \ {None, s.pending})

Save(r) ==
  LET s == [req[r].session EXCEPT !.messages = TrimHistory(@)]
  IN /\ req[r].phase = "save"
     /\ Stores(s)
     /\ req' = [req EXCEPT ![r].phase = "reply", ![r].session = s]
     /\ refused' = IF req[r].approve THEN refused
                   ELSE refused \cup ({req[r].change} \ {None})
     /\ UNCHANGED <<clients, begun, applied, contested>>

(* The client shows an answer, with buttons for a change it proposes.      *)
Shows(c, new) ==
  /\ page' = IF c = "bot" THEN page
             ELSE [busy |-> FALSE, button |-> IF new = {} THEN page.button
                                              ELSE CHOOSE p \in new : TRUE]
  /\ chat' = IF c = "web" THEN chat ELSE chat \cup new
  /\ offered' = offered \cup new

Answer(r) ==
  /\ req[r].phase = "reply"
  /\ req' = [req EXCEPT ![r] = Idle]
  /\ IF req[r].waits
     THEN Shows(req[r].client, {req[r].name} \cap {req[r].session.pending})
     ELSE UNCHANGED clients
  /\ UNCHANGED <<stored, begun, verdicts>>

-----------------------------------------------------------------------------
(* Sessions end; answers and requests are lost.                            *)

(* «Новый диалог» on the page, /reset in the chat.                         *)
ResetSession(c) ==
  /\ c = "web" => ~page.busy
  /\ Stores(Fresh)
  /\ page' = IF c = "web" THEN [page EXCEPT !.button = None] ELSE page
  /\ UNCHANGED <<req, chat, begun, applied, refused, contested, offered>>

(* The session's TTL runs out.                                             *)
Expire ==
  /\ stored # Fresh
  /\ Stores(Fresh)
  /\ UNCHANGED <<req, clients, begun, applied, refused, contested>>

(* The page is opened again and shows the history and what waits.          *)
OpenPage ==
  /\ page' = [busy |-> FALSE, button |-> stored.pending]
  /\ req' = [r \in Requests |-> IF req[r].client = "web"
                                THEN [req[r] EXCEPT !.waits = FALSE] ELSE req[r]]
  /\ offered' = offered \cup ({stored.pending} \ {None})
  /\ UNCHANGED <<stored, chat, begun, verdicts>>

Freed(r) == IF req[r].client = "web" /\ req[r].waits THEN [page EXCEPT !.busy = FALSE] ELSE page

(* The client stops waiting (its timeout, a broken connection); the        *)
(* request goes on.                                                        *)
GiveUp(r) ==
  /\ req[r].waits
  /\ req' = [req EXCEPT ![r].waits = FALSE]
  /\ page' = Freed(r)
  /\ UNCHANGED <<stored, chat, begun, verdicts, offered>>

(* The process dies.                                                       *)
Crash(r) ==
  /\ req[r].phase # "idle"
  /\ req' = [req EXCEPT ![r] = Idle]
  /\ page' = Freed(r)
  /\ contested' = IF req[r].phase = "save" /\ req[r].approve
                  THEN contested \cup {req[r].change} ELSE contested
  /\ UNCHANGED <<stored, chat, begun, applied, refused, gone, offered>>

-----------------------------------------------------------------------------
Works(r) ==
  \/ LlmAnswers(r) \/ LlmFails(r)
  \/ SearchEvents(r) \/ Recommend(r) \/ LookUp(r)
  \/ OnlyAnswers(r) \/ RecordFeedback(r) \/ ProposeChange(r)
  \/ Apply(r) \/ Save(r) \/ Answer(r)

Next ==
  \/ \E r \in Requests, c \in Clients :
       \/ Ask(r, c)
       \/ \E approve \in BOOLEAN :
            \/ AnswerInText(r, c, approve)
            \/ \E p \in Changes : Press(r, c, p, approve)
  \/ \E r \in Requests : Works(r) \/ GiveUp(r) \/ Crash(r)
  \/ \E c \in Clients : ResetSession(c)
  \/ Expire
  \/ OpenPage

Spec == Init /\ [][Next]_vars

-----------------------------------------------------------------------------
(* Each call of an assistant's message has its reply right after it, and   *)
(* no reply is without its call.                                           *)
Answered(ms) ==
  /\ \A i \in DOMAIN ms : \A k \in 1..ms[i].calls :
       i + k <= Len(ms) /\ ms[i + k].role = "tool"
  /\ \A i \in DOMAIN ms : ms[i].role = "tool" =>
       \E j \in 1..i - 1 : ms[j].role = "assistant" /\ j + ms[j].calls >= i

(* What is sent to the model and what is stored has every tool call        *)
(* answered and no orphan answer, which providers reject, through          *)
(* trimming, failures and saves that overwrite each other.                 *)
HistoryAnswered ==
  /\ Answered(stored.messages)
  /\ \A r \in Requests : req[r].phase = "llm" => Answered(req[r].session.messages)

(* A change that has left the stored session, applied, declined, dropped   *)
(* or lost, never waits in it again: no save of an older copy brings it    *)
(* back.                                                                   *)
PendingNeverReturns == stored.pending \notin gone

(* A change is carried out once and never after it was reported as not     *)
(* applied, unless two requests held it at the same time or the process    *)
(* died after carrying it out.                                             *)
ResolvedOnce ==
  \A c \in Changes :
    applied[c] > 1 \/ (applied[c] > 0 /\ c \in refused) => c \in contested

(* Stated by update_profile and not true: a change is carried out only     *)
(* when the user, who has to have been shown it, said yes to it.           *)
AppliedWasOffered == \A c \in Changes : applied[c] > 0 => c \in offered
=============================================================================
