------------------------------ MODULE AgentProofs ------------------------------
(***************************************************************************)
(* Machine-checked proofs about AgentSession, for every number of          *)
(* concurrent requests, of steps, of tool calls, and every length of the   *)
(* history and of the list of shown events.                                *)
(***************************************************************************)
EXTENDS AgentSession, FiniteSetTheorems, WellFoundedInduction, TLAPS

IsSession(s) ==
  /\ s = [messages |-> s.messages, shown |-> s.shown, pending |-> s.pending]
  /\ s.messages \in Seq(Messages)
  /\ s.pending \in Changes \cup {None}

IsRequest(q) ==
  /\ q = [phase |-> q.phase, client |-> q.client, name |-> q.name, session |-> q.session,
          change |-> q.change, approve |-> q.approve, steps |-> q.steps, left |-> q.left,
          waits |-> q.waits]
  /\ q.phase \in Phases /\ q.approve \in BOOLEAN
  /\ {q.name, q.change} \subseteq Changes \cup {None}
  /\ q.steps \in Nat /\ q.left \in 0..MaxCalls
  /\ IsSession(q.session)

(* A request that resolves a change carries it out only when it is told    *)
(* to, and leaves the tools when no call of the step is left.              *)
InOrder(q) ==
  /\ q.phase \in {"llm", "tools"} => ~q.approve
  /\ q.phase = "apply" => q.approve
  /\ q.phase \in {"apply", "save"} /\ q.approve => q.change # None
  /\ q.phase = "tools" => q.left > 0 /\ q.steps > 0

Shapes ==
  /\ IsSession(stored)
  /\ req = [r \in Requests |-> req[r]]
  /\ \A r \in Requests : IsRequest(req[r]) /\ InOrder(req[r])
  /\ begun \in 0..MaxBegun
  /\ applied \in [Changes -> Nat]
  /\ refused \subseteq Changes

(* A request at work on its copy, which only it can have a change of its   *)
(* own name wait in: neither has that change been stored nor is it gone.   *)
Working == {r \in Requests : req[r].phase \in {"llm", "tools", "apply", "save"}}

NamesAreNew ==
  /\ gone \subseteq 1..begun
  /\ stored.pending \in 1..begun \cup {None}
  /\ stored.pending \notin gone
  /\ \A r \in Requests : req[r].phase # "idle" => req[r].name \in 1..begun
  /\ \A r, q \in Requests :
       req[r].phase # "idle" /\ req[q].phase # "idle" /\ req[r].name = req[q].name => r = q
  /\ \A r \in Working :
       /\ req[r].session.pending \in {None, req[r].name}
       /\ req[r].name \notin gone /\ req[r].name # stored.pending

Unresolved(c) == applied[c] = 0 /\ c \notin refused
Waited == gone \cup {stored.pending}

(* A change that is not contested is resolved by the one request that      *)
(* holds it, and waits no more when that request is over.                  *)
OneResolves(c) ==
  /\ \A r \in Requests : Holds(r, c) => c \in Waited
  /\ ~Unresolved(c) => c \in Waited
  /\ c \notin contested =>
       /\ \A r, q \in Requests : Holds(r, c) /\ Holds(q, c) => r = q
       /\ (\A r \in Requests : ~Holds(r, c)) /\ c = stored.pending => Unresolved(c)
       /\ \A r \in Requests : Holds(r, c) =>
            IF req[r].phase = "save" /\ req[r].approve
            THEN applied[c] <= 1 /\ c \notin refused
            ELSE Unresolved(c)
       /\ applied[c] <= 1 /\ (applied[c] > 0 => c \notin refused)

Resolutions == \A c \in Changes : OneResolves(c)

(* The history ms but for the answers of its last n calls.                 *)
AnsweredBut(ms, n) ==
  /\ \A i \in DOMAIN ms : \A k \in 1..ms[i].calls :
       i + k <= Len(ms) + n /\ (i + k <= Len(ms) => ms[i + k].role = "tool")
  /\ \A i \in DOMAIN ms : ms[i].role = "tool" =>
       \E j \in 1..i - 1 : ms[j].role = "assistant" /\ j + ms[j].calls >= i
  /\ n > 0 => \E j \in DOMAIN ms : ms[j].role = "assistant" /\ j + ms[j].calls = Len(ms) + n

Histories ==
  /\ AnsweredBut(stored.messages, 0)
  /\ \A r \in Requests :
       LET ms == req[r].session.messages
       IN /\ req[r].phase \in {"llm", "apply", "save"} => AnsweredBut(ms, 0)
          /\ req[r].phase = "tools" => AnsweredBut(ms, req[r].left)
          /\ req[r].phase = "llm" /\ req[r].steps = 0 =>
               ms # <<>> /\ ms[Len(ms)].role # "tool"

IInv == Shapes /\ NamesAreNew /\ Resolutions /\ Histories

-----------------------------------------------------------------------------
(* What the handlers do.                                                   *)

(* A request with some fields replaced, and a session.                     *)
Request(q, p, s, k, l) ==
  [phase |-> p, client |-> q.client, name |-> q.name, session |-> s, change |-> q.change,
   approve |-> q.approve, steps |-> k, left |-> l, waits |-> q.waits]

LEMMA PhaseUpdated ==
  ASSUME NEW q, IsRequest(q), NEW p, NEW s
  PROVE  [q EXCEPT !.phase = p, !.session = s] = Request(q, p, s, q.steps, q.left)
<1> DEFINE q1 == [q EXCEPT !.phase = p]
<1>1. q1 = Request(q, p, q.session, q.steps, q.left)
  BY DEF IsRequest, Request
<1>2. [q EXCEPT !.phase = p, !.session = s] = [q1 EXCEPT !.session = s]
  OBVIOUS
<1> HIDE DEF q1
<1>3. [q1 EXCEPT !.session = s] = Request(q, p, s, q.steps, q.left)
  BY <1>1 DEF Request
<1>4. QED
  BY <1>2, <1>3

LEMMA CallsUpdated ==
  ASSUME NEW q, NEW u, NEW p, NEW s, NEW k, NEW l, NEW m, NEW n, u = Request(q, p, s, k, l)
  PROVE  [u EXCEPT !.left = n] = Request(q, p, s, k, n) /\ [u EXCEPT !.steps = m] = Request(q, p, s, m, l)
BY DEF Request

LEMMA SessionsUpdated ==
  ASSUME NEW s, IsSession(s), NEW ms, NEW p
  PROVE  [s EXCEPT !.messages = ms, !.pending = p] =
           [messages |-> ms, shown |-> s.shown, pending |-> p]
<1> DEFINE t == [s EXCEPT !.messages = ms]
<1>1. t = [messages |-> ms, shown |-> s.shown, pending |-> s.pending]
  BY DEF IsSession
<1>2. [s EXCEPT !.messages = ms, !.pending = p] = [t EXCEPT !.pending = p]
  OBVIOUS
<1> HIDE DEF t
<1>3. [t EXCEPT !.pending = p] = [messages |-> ms, shown |-> s.shown, pending |-> p]
  BY <1>1
<1>4. QED
  BY <1>2, <1>3

(* Request r goes on to phase p with session s, step k and l calls left.   *)
Becomes(r, p, s, k, l) ==
  /\ req' = [q \in Requests |-> req'[q]]
  /\ \A q \in Requests \ {r} : req'[q] = req[q]
  /\ req'[r] = Request(req[r], p, s, k, l)

Ends(r) ==
  /\ req' = [q \in Requests |-> req'[q]]
  /\ \A q \in Requests \ {r} : req'[q] = req[q]
  /\ req'[r] = Idle

Sames == <<stored, begun, refused, contested, gone>>

LEMMA Numbers ==
  /\ MaxSteps \in Nat \ {0} /\ MaxCalls \in Nat \ {0} /\ HistoryLimit \in Nat \ {0}
  /\ MaxBegun \in Nat \ {0} /\ None \notin Nat /\ None \notin Changes
  /\ Changes \subseteq Nat \ {0}
BY AgentAssumption DEF Changes

LEMMA HeardProperties ==
  ASSUME NEW s, IsSession(s), NEW m \in Messages
  PROVE  /\ IsSession(Heard(s, m))
         /\ Heard(s, m).messages = Append(s.messages, m)
         /\ Heard(s, m).pending = s.pending /\ Heard(s, m).shown = s.shown
<1> DEFINE t == [messages |-> Append(s.messages, m), shown |-> s.shown, pending |-> s.pending]
<1>1. Heard(s, m) = t
  BY DEF IsSession, Heard
<1>2. Append(s.messages, m) \in Seq(Messages)
  BY DEF IsSession
<1>3. QED
  BY <1>1, <1>2 DEF IsSession

LEMMA NotedProperties ==
  ASSUME NEW s, IsSession(s), NEW ms \in Seq(Messages)
  PROVE  /\ IsSession(Noted(s, ms))
         /\ Noted(s, ms).messages = s.messages \o ms
         /\ Noted(s, ms).pending = None /\ Noted(s, ms).shown = s.shown
<1> DEFINE t == [messages |-> s.messages \o ms, shown |-> s.shown, pending |-> None]
<1>1. Noted(s, ms) = t
  BY SessionsUpdated DEF Noted
<1>2. s.messages \o ms \in Seq(Messages)
  BY DEF IsSession
<1>3. QED
  BY <1>1, <1>2 DEF IsSession

LEMMA KindsOfMessages ==
  /\ {User, Text, ToolResult} \subseteq Messages
  /\ User.calls = 0 /\ Text.calls = 0 /\ ToolResult.calls = 0
  /\ User.role = "user" /\ Text.role = "assistant" /\ ToolResult.role = "tool"
  /\ \A n \in 0..MaxCalls : /\ Said("assistant", n) \in Messages
                            /\ Said("assistant", n).role = "assistant"
                            /\ Said("assistant", n).calls = n
BY Numbers DEF User, Text, ToolResult, Said, Messages

LEMMA LlmAnswersDoes ==
  ASSUME Shapes, NEW r \in Requests, LlmAnswers(r)
  PROVE  /\ req[r].phase = "llm" /\ UNCHANGED Sames /\ UNCHANGED applied
         /\ \E n \in 0..MaxCalls :
              Becomes(r, IF n = 0 THEN "save" ELSE "tools",
                      Heard(req[r].session, Said("assistant", n)), req[r].steps + 1, n)
<1>1. PICK n \in 0..MaxCalls :
        Moves(r, [req[r] EXCEPT !.phase = IF n = 0 THEN "save" ELSE "tools",
                                !.session = Heard(@, Said("assistant", n)),
                                !.steps = @ + 1, !.left = n])
  BY DEF LlmAnswers
<1> DEFINE s == Heard(req[r].session, Said("assistant", n))
           p == IF n = 0 THEN "save" ELSE "tools"
           state == [req[r] EXCEPT !.phase = p, !.session = s, !.steps = req[r].steps + 1, !.left = n]
<1>2. req' = [req EXCEPT ![r] = state] /\ UNCHANGED Sames /\ UNCHANGED applied
  BY <1>1 DEF Moves, verdicts, Sames
<1> HIDE DEF s, p
<1>3. state = Request(req[r], p, s, req[r].steps + 1, n)
  <2> DEFINE k == req[r].steps + 1
  <2> HIDE DEF k
  <2>1. [req[r] EXCEPT !.phase = p, !.session = s, !.steps = k, !.left = n] =
          Request(req[r], p, s, k, n)
    <3> DEFINE q1 == [req[r] EXCEPT !.phase = p, !.session = s]
               q2 == [q1 EXCEPT !.steps = k]
    <3>1. [req[r] EXCEPT !.phase = p, !.session = s, !.steps = k, !.left = n] =
            [q2 EXCEPT !.left = n]
      OBVIOUS
    <3>2. q1 = Request(req[r], p, s, req[r].steps, req[r].left)
      BY PhaseUpdated DEF Shapes
    <3> HIDE DEF q1
    <3>3. q2 = Request(req[r], p, s, k, req[r].left)
      BY <3>2, CallsUpdated
    <3> HIDE DEF q2
    <3>4. QED
      BY <3>1, <3>3, CallsUpdated
  <2>2. QED
    BY <2>1 DEF k
<1> HIDE DEF state
<1>4. Becomes(r, p, s, req[r].steps + 1, n)
  BY <1>2, <1>3 DEF Becomes, Shapes
<1>5. QED
  BY <1>2, <1>4 DEF LlmAnswers, s, p

LEMMA LlmFailsDoes ==
  ASSUME Shapes, NEW r \in Requests, LlmFails(r)
  PROVE  /\ req[r].phase = "llm" /\ UNCHANGED Sames /\ UNCHANGED applied
         /\ LET s == req[r].session
            IN Becomes(r, "save",
                       IF req[r].steps = 0 THEN [s EXCEPT !.messages = Front(s.messages)] ELSE s,
                       req[r].steps, req[r].left)
<1> DEFINE old == req[r].session
           s == IF req[r].steps = 0 THEN [old EXCEPT !.messages = Front(old.messages)] ELSE old
           state == [req[r] EXCEPT !.phase = "save", !.session = s]
<1>1. req' = [req EXCEPT ![r] = state] /\ UNCHANGED Sames /\ UNCHANGED applied
  BY DEF LlmFails, Moves, verdicts, Sames
<1> HIDE DEF s
<1>2. state = Request(req[r], "save", s, req[r].steps, req[r].left)
  BY PhaseUpdated DEF Shapes
<1> HIDE DEF state
<1>3. Becomes(r, "save", s, req[r].steps, req[r].left)
  BY <1>1, <1>2 DEF Becomes, Shapes
<1>4. QED
  BY <1>1, <1>3 DEF LlmFails, s

(* Any of the tools.                                                       *)
Tools(r) ==
  \/ SearchEvents(r) \/ Recommend(r) \/ LookUp(r)
  \/ OnlyAnswers(r) \/ RecordFeedback(r) \/ ProposeChange(r)

LEMMA ToolsCall ==
  ASSUME Shapes, NEW r \in Requests, Tools(r)
  PROVE  \E s : /\ IsSession(s) /\ Called(r, s)
                /\ s.messages = req[r].session.messages
                /\ s.pending \in {req[r].session.pending, req[r].name}
<1> DEFINE old == req[r].session
<1>1. IsSession(old) /\ req[r].name \in Changes \cup {None}
  BY DEF Shapes, IsRequest
<1>2. ASSUME NEW es, Finds(r, es)
      PROVE  \E s : /\ IsSession(s) /\ Called(r, s)
                    /\ s.messages = old.messages /\ s.pending \in {old.pending, req[r].name}
  <2> DEFINE shown == RememberShown(old.shown, es)
             s == [old EXCEPT !.shown = shown]
  <2>1. Called(r, s)
    BY <1>2 DEF Finds
  <2> HIDE DEF shown
  <2>2. s = [messages |-> old.messages, shown |-> shown, pending |-> old.pending]
    BY <1>1 DEF IsSession
  <2>3. IsSession(s) /\ s.messages = old.messages /\ s.pending = old.pending
    BY <1>1, <2>2 DEF IsSession
  <2> HIDE DEF s
  <2>4. QED
    BY <2>1, <2>3
<1>3. ASSUME Called(r, old)
      PROVE  \E s : /\ IsSession(s) /\ Called(r, s)
                    /\ s.messages = old.messages /\ s.pending \in {old.pending, req[r].name}
  BY <1>1, <1>3
<1>4. ASSUME ProposeChange(r)
      PROVE  \E s : /\ IsSession(s) /\ Called(r, s)
                    /\ s.messages = old.messages /\ s.pending \in {old.pending, req[r].name}
  <2> DEFINE s == [old EXCEPT !.pending = req[r].name]
  <2>1. Called(r, s)
    BY <1>4 DEF ProposeChange
  <2>2. s = [messages |-> old.messages, shown |-> old.shown, pending |-> req[r].name]
    BY <1>1 DEF IsSession
  <2>3. IsSession(s) /\ s.messages = old.messages /\ s.pending = req[r].name
    BY <1>1, <2>2 DEF IsSession
  <2> HIDE DEF s
  <2>4. QED
    BY <2>1, <2>3
<1>5. QED
  BY <1>2, <1>3, <1>4
  DEF Tools, SearchEvents, Recommend, LookUp, OnlyAnswers, RecordFeedback

LEMMA CalledDoes ==
  ASSUME Shapes, NEW r \in Requests, NEW s, Called(r, s)
  PROVE  /\ req[r].phase = "tools" /\ UNCHANGED Sames /\ UNCHANGED applied
         /\ \E p \in Continuations(r, s) :
              Becomes(r, p, Heard(s, ToolResult), req[r].steps, req[r].left - 1)
<1>1. PICK p \in Continuations(r, s) :
        Moves(r, [req[r] EXCEPT !.phase = p, !.session = Heard(s, ToolResult), !.left = @ - 1])
  BY DEF Called
<1> DEFINE t == Heard(s, ToolResult)
           state == [req[r] EXCEPT !.phase = p, !.session = t, !.left = req[r].left - 1]
<1>2. req' = [req EXCEPT ![r] = state] /\ UNCHANGED Sames /\ UNCHANGED applied
  BY <1>1 DEF Moves, verdicts, Sames
<1> HIDE DEF t
<1>3. state = Request(req[r], p, t, req[r].steps, req[r].left - 1)
  <2> DEFINE l == req[r].left - 1
  <2> HIDE DEF l
  <2>1. [req[r] EXCEPT !.phase = p, !.session = t, !.left = l] =
          Request(req[r], p, t, req[r].steps, l)
    <3> DEFINE q1 == [req[r] EXCEPT !.phase = p, !.session = t]
    <3>1. [req[r] EXCEPT !.phase = p, !.session = t, !.left = l] = [q1 EXCEPT !.left = l]
      OBVIOUS
    <3>2. q1 = Request(req[r], p, t, req[r].steps, req[r].left)
      BY PhaseUpdated DEF Shapes
    <3> HIDE DEF q1
    <3>3. QED
      BY <3>1, <3>2, CallsUpdated
  <2>2. QED
    BY <2>1 DEF l
<1> HIDE DEF state
<1>4. Becomes(r, p, t, req[r].steps, req[r].left - 1)
  BY <1>2, <1>3 DEF Becomes, Shapes
<1>5. QED
  BY <1>2, <1>4 DEF Called, t

LEMMA ApplyDoes ==
  ASSUME Shapes, NEW r \in Requests, Apply(r)
  PROVE  /\ req[r].phase = "apply" /\ UNCHANGED Sames /\ CarryOut(req[r].change)
         /\ Becomes(r, "save", Heard(req[r].session, Text), req[r].steps, req[r].left)
<1> DEFINE s == Heard(req[r].session, Text)
           state == [req[r] EXCEPT !.phase = "save", !.session = s]
<1>1. req' = [req EXCEPT ![r] = state] /\ UNCHANGED Sames
  BY DEF Apply, Sames, Shapes
<1> HIDE DEF s
<1>2. state = Request(req[r], "save", s, req[r].steps, req[r].left)
  BY PhaseUpdated DEF Shapes
<1> HIDE DEF state
<1>3. Becomes(r, "save", s, req[r].steps, req[r].left)
  BY <1>1, <1>2 DEF Becomes, Shapes
<1>4. QED
  BY <1>1, <1>3 DEF Apply, s

LEMMA SaveDoes ==
  ASSUME Shapes, NEW r \in Requests, Save(r)
  PROVE  LET s == [req[r].session EXCEPT !.messages = TrimHistory(@)]
         IN /\ req[r].phase = "save" /\ Stores(s) /\ UNCHANGED <<begun, applied, contested>>
            /\ refused' = IF req[r].approve THEN refused
                          ELSE refused \cup ({req[r].change} \ {None})
            /\ Becomes(r, "reply", s, req[r].steps, req[r].left)
<1> DEFINE s == [req[r].session EXCEPT !.messages = TrimHistory(@)]
           state == [req[r] EXCEPT !.phase = "reply", !.session = s]
<1>1. req' = [req EXCEPT ![r] = state] /\ Stores(s)
  BY DEF Save, Shapes
<1> HIDE DEF s
<1>2. state = Request(req[r], "reply", s, req[r].steps, req[r].left)
  BY PhaseUpdated DEF Shapes
<1> HIDE DEF state
<1>3. Becomes(r, "reply", s, req[r].steps, req[r].left)
  BY <1>1, <1>2 DEF Becomes, Shapes
<1>4. QED
  BY <1>1, <1>3 DEF Save, s

(* A request, field by field.                                              *)
Full(p, c, n, s, x, a, k, l, w) ==
  [phase |-> p, client |-> c, name |-> n, session |-> s, change |-> x, approve |-> a,
   steps |-> k, left |-> l, waits |-> w]

LEMMA FullFields ==
  ASSUME NEW p, NEW c, NEW n, NEW s, NEW x, NEW a, NEW k, NEW l, NEW w,
         NEW u, u = Full(p, c, n, s, x, a, k, l, w)
  PROVE  /\ u = Full(u.phase, u.client, u.name, u.session, u.change, u.approve, u.steps, u.left, u.waits)
         /\ u.phase = p /\ u.client = c /\ u.name = n /\ u.session = s /\ u.change = x
         /\ u.approve = a /\ u.steps = k /\ u.left = l /\ u.waits = w
BY DEF Full

(* Request r begins with session s; it resolves the change that waits.     *)
Opens(r, c, s, change, approve, phase) ==
  /\ req[r].phase = "idle" /\ begun < MaxBegun /\ begun' = begun + 1
  /\ UNCHANGED <<stored, applied, refused, gone>>
  /\ contested' = IF \E q \in Requests : Holds(q, change)
                  THEN contested \cup {change} ELSE contested
  /\ req' = [q \in Requests |-> req'[q]]
  /\ \A q \in Requests \ {r} : req'[q] = req[q]
  /\ req'[r] = Full(phase, c, begun + 1, s, change, approve, 0, 0, TRUE)

(* The session, the change and the phase it may begin with.                *)
Opening(s, change, approve, phase) ==
  /\ IsSession(s) /\ approve \in BOOLEAN /\ change \in Changes \cup {None}
  /\ \/ phase = "reply" /\ change = None
     \/ /\ phase \in {"llm", "apply", "save"}
        /\ s.pending = None /\ change = stored.pending
        /\ (phase = "apply" <=> approve) /\ (approve => change # None)
  /\ \E ms \in Seq({User, Text}) :
       s.messages = stored.messages \o ms /\ (phase = "llm" => ms # <<>>)
  /\ s.shown = stored.shown

LEMMA BeginDoes ==
  ASSUME Shapes, NEW r \in Requests, NEW c, NEW s, NEW change, NEW approve, NEW phase,
         Begin(r, c, s, change, approve, phase)
  PROVE  Opens(r, c, s, change, approve, phase)
<1> DEFINE n == begun + 1
           state == [Idle EXCEPT !.phase = phase, !.client = c, !.name = n, !.session = s,
                                 !.change = change, !.approve = approve, !.waits = TRUE]
<1>1. req' = [req EXCEPT ![r] = state] /\ n = begun + 1
  BY DEF Begin
<1>2. state = Full(phase, c, n, s, change, approve, 0, 0, TRUE)
  <2> DEFINE no == FALSE
             yes == TRUE
  <2> HIDE DEF n
  <2> DEFINE q1 == [Idle EXCEPT !.phase = phase]
             q2 == [q1 EXCEPT !.client = c]
             q3 == [q2 EXCEPT !.name = n]
             q4 == [q3 EXCEPT !.session = s]
             q5 == [q4 EXCEPT !.change = change]
             q6 == [q5 EXCEPT !.approve = approve]
             q7 == [q6 EXCEPT !.waits = yes]
  <2>1. state = q7
    OBVIOUS
  <2> HIDE DEF state
  <2>2. Idle = Full("idle", "web", None, Fresh, None, no, 0, 0, no)
    BY Zenon DEF Idle, Full
  <2> HIDE DEF no, yes
  <2>3. q1 = Full(phase, "web", None, Fresh, None, no, 0, 0, no)
    BY <2>2 DEF Full
  <2> HIDE DEF q1
  <2>4. q2 = Full(phase, c, None, Fresh, None, no, 0, 0, no)
    BY <2>3 DEF Full
  <2> HIDE DEF q2
  <2>5. q3 = Full(phase, c, n, Fresh, None, no, 0, 0, no)
    BY <2>4 DEF Full
  <2> HIDE DEF q3
  <2>6. q4 = Full(phase, c, n, s, None, no, 0, 0, no)
    BY <2>5 DEF Full
  <2> HIDE DEF q4
  <2>7. q5 = Full(phase, c, n, s, change, no, 0, 0, no)
    BY <2>6 DEF Full
  <2> HIDE DEF q5
  <2>8. q6 = Full(phase, c, n, s, change, approve, 0, 0, no)
    BY <2>7 DEF Full
  <2> HIDE DEF q6
  <2>9. q7 = Full(phase, c, n, s, change, approve, 0, 0, yes)
    BY <2>8 DEF Full
  <2> HIDE DEF q7
  <2>10. QED
    BY <2>1, <2>9 DEF yes
<1> HIDE DEF state, n
<1>3. /\ req' = [q \in Requests |-> req'[q]]
      /\ \A q \in Requests \ {r} : req'[q] = req[q]
      /\ req'[r] = state
  BY <1>1 DEF Shapes
<1>4. QED
  BY <1>1, <1>2, <1>3 DEF Begin, Opens

(* Each way a request may begin is an opening.                             *)
LEMMA BeginsDoes ==
  ASSUME Shapes, NEW r \in Requests, NEW c, NEW approve \in BOOLEAN, NEW p \in Changes,
         Ask(r, c) \/ AnswerInText(r, c, approve) \/ Press(r, c, p, approve)
  PROVE  \E s, change, phase : \E yes \in BOOLEAN :
           Opens(r, c, s, change, yes, phase) /\ Opening(s, change, yes, phase)
<1>0. IsSession(stored) /\ stored.pending \in Changes \cup {None} /\ {User, Text} \subseteq Messages
  BY KindsOfMessages DEF Shapes, IsSession
<1>1. ASSUME NEW ms \in Seq({User, Text})
      PROVE  /\ IsSession(Noted(stored, ms)) /\ Noted(stored, ms).pending = None
             /\ Noted(stored, ms).messages = stored.messages \o ms
             /\ Noted(stored, ms).shown = stored.shown
  <2>1. ms \in Seq(Messages)
    BY <1>0
  <2>2. QED
    BY <1>0, <2>1, NotedProperties
<1>2. /\ <<>> \in Seq({User, Text}) /\ <<User>> \in Seq({User, Text}) /\ <<Text>> \in Seq({User, Text})
      /\ <<User, Text>> \in Seq({User, Text}) /\ <<Text>> \o <<User>> \in Seq({User, Text})
      /\ <<>> \o <<User>> \in Seq({User, Text}) /\ <<Text>> \o <<User>> # <<>> /\ <<>> \o <<User>> # <<>>
  OBVIOUS
<1>3. CASE Ask(r, c)
  <2> DEFINE ms == (IF stored.pending = None THEN <<>> ELSE <<Text>>) \o <<User>>
  <2>1. Begin(r, c, Noted(stored, ms), stored.pending, FALSE, "llm")
    BY <1>3 DEF Ask
  <2>2. ms \in Seq({User, Text}) /\ ms # <<>>
    BY <1>2
  <2> HIDE DEF ms
  <2>3. Opens(r, c, Noted(stored, ms), stored.pending, FALSE, "llm")
    BY <2>1, BeginDoes
  <2>4. Opening(Noted(stored, ms), stored.pending, FALSE, "llm")
    BY <1>0, <1>1, <2>2 DEF Opening
  <2>5. QED
    BY <2>3, <2>4
<1>4. CASE AnswerInText(r, c, approve)
  <2> DEFINE ms == IF approve THEN <<User>> ELSE <<User, Text>>
             phase == IF approve THEN "apply" ELSE "save"
  <2>1. Begin(r, c, Noted(stored, ms), stored.pending, approve, phase) /\ stored.pending # None
    BY <1>4 DEF AnswerInText
  <2>2. ms \in Seq({User, Text})
    BY <1>2
  <2>3. phase \in {"llm", "apply", "save"} /\ (phase = "apply" <=> approve) /\ phase # "llm"
    OBVIOUS
  <2> HIDE DEF ms, phase
  <2>4. Opens(r, c, Noted(stored, ms), stored.pending, approve, phase)
    BY <2>1, BeginDoes
  <2>5. Opening(Noted(stored, ms), stored.pending, approve, phase)
    BY <1>0, <1>1, <2>1, <2>2, <2>3 DEF Opening
  <2>6. QED
    BY <2>4, <2>5
<1>5. CASE Press(r, c, p, approve) /\ stored.pending = p
  <2> DEFINE ms == IF approve THEN <<>> ELSE <<Text>>
             phase == IF approve THEN "apply" ELSE "save"
  <2>1. Begin(r, c, Noted(stored, ms), stored.pending, approve, phase) /\ stored.pending # None
    BY <1>5, Numbers DEF Press
  <2>2. ms \in Seq({User, Text})
    BY <1>2
  <2>3. phase \in {"llm", "apply", "save"} /\ (phase = "apply" <=> approve) /\ phase # "llm"
    OBVIOUS
  <2> HIDE DEF ms, phase
  <2>4. Opens(r, c, Noted(stored, ms), stored.pending, approve, phase)
    BY <2>1, BeginDoes
  <2>5. Opening(Noted(stored, ms), stored.pending, approve, phase)
    BY <1>0, <1>1, <2>1, <2>2, <2>3 DEF Opening
  <2>6. QED
    BY <2>4, <2>5
<1>6. CASE Press(r, c, p, approve) /\ stored.pending # p
  <2>1. Begin(r, c, stored, None, approve, "reply")
    BY <1>6 DEF Press
  <2>2. Opens(r, c, stored, None, approve, "reply")
    BY <2>1, BeginDoes
  <2>3. stored.messages = stored.messages \o <<>>
    BY <1>0 DEF IsSession
  <2>4. Opening(stored, None, approve, "reply")
    BY <1>0, <1>2, <2>3 DEF Opening
  <2>5. QED
    BY <2>2, <2>4
<1>7. QED
  BY <1>3, <1>4, <1>5, <1>6

LEMMA EndsDoes ==
  ASSUME Shapes, NEW r \in Requests, Answer(r) \/ Crash(r)
  PROVE  /\ req[r].phase # "idle" /\ Ends(r) /\ UNCHANGED <<stored, begun, applied, refused, gone>>
         /\ \/ req[r].phase = "reply" /\ UNCHANGED contested
            \/ contested' = IF req[r].phase = "save" /\ req[r].approve
                            THEN contested \cup {req[r].change} ELSE contested
BY DEF Answer, Crash, Ends, verdicts, Shapes

(* Whether its client waits is all that changes of a request.              *)
Kept(q, u) ==
  u = Full(q.phase, q.client, q.name, q.session, q.change, q.approve, q.steps, q.left, u.waits)

LEMMA ClientsDo ==
  ASSUME Shapes, OpenPage \/ \E r \in Requests : GiveUp(r)
  PROVE  /\ UNCHANGED Sames /\ UNCHANGED applied
         /\ req' = [r \in Requests |-> req'[r]]
         /\ \A r \in Requests : Kept(req[r], req'[r])
<1>1. ASSUME NEW r \in Requests
      PROVE  Kept(req[r], req[r]) /\ Kept(req[r], [req[r] EXCEPT !.waits = FALSE])
  <2> DEFINE q == req[r]
             no == FALSE
             u == [q EXCEPT !.waits = no]
  <2>1. q = Full(q.phase, q.client, q.name, q.session, q.change, q.approve, q.steps, q.left, q.waits)
    BY Zenon DEF Shapes, IsRequest, Full
  <2> HIDE DEF q, no
  <2>2. u = Full(q.phase, q.client, q.name, q.session, q.change, q.approve, q.steps, q.left, no)
    BY <2>1 DEF Full
  <2> HIDE DEF u
  <2>3. u.waits = no
    BY <2>2, FullFields
  <2>4. Kept(q, q) /\ Kept(q, u)
    BY <2>1, <2>2, <2>3, Zenon DEF Kept
  <2>5. QED
    BY <2>4 DEF q, u, no
<1>2. CASE OpenPage
  <2>1. /\ UNCHANGED Sames /\ UNCHANGED applied
        /\ req' = [r \in Requests |-> IF req[r].client = "web"
                                      THEN [req[r] EXCEPT !.waits = FALSE] ELSE req[r]]
    BY <1>2 DEF OpenPage, verdicts, Sames
  <2>2. \A r \in Requests : req'[r] \in {req[r], [req[r] EXCEPT !.waits = FALSE]}
    BY <2>1
  <2>3. req' = [r \in Requests |-> req'[r]]
    BY <2>1
  <2>4. QED
    BY <1>1, <2>1, <2>2, <2>3
<1>3. ASSUME NEW q \in Requests, GiveUp(q)
      PROVE  /\ UNCHANGED Sames /\ UNCHANGED applied
             /\ req' = [r \in Requests |-> req'[r]]
             /\ \A r \in Requests : Kept(req[r], req'[r])
  <2> DEFINE u == [req[q] EXCEPT !.waits = FALSE]
  <2>1. UNCHANGED Sames /\ UNCHANGED applied /\ req' = [req EXCEPT ![q] = u]
    BY <1>3 DEF GiveUp, verdicts, Sames, Shapes
  <2>2. Kept(req[q], u)
    BY <1>1
  <2> HIDE DEF u
  <2>3. req' = [r \in Requests |-> IF r = q THEN u ELSE req[r]]
    BY <2>1 DEF Shapes
  <2>4. QED
    BY <1>1, <2>1, <2>2, <2>3
<1>4. QED
  BY <1>2, <1>3

-----------------------------------------------------------------------------
(* Histories: what each way to write one leaves.                           *)

LEMMA MessageFields ==
  ASSUME NEW ms \in Seq(Messages), NEW i \in 1..Len(ms)
  PROVE  ms[i] \in Messages /\ ms[i].calls \in Nat /\ i \in DOMAIN ms
<1>1. ms[i] \in Messages /\ i \in DOMAIN ms
  OBVIOUS
<1>2. QED
  BY <1>1, Numbers DEF Messages

LEMMA AnsweredWhole ==
  ASSUME NEW ms \in Seq(Messages), AnsweredBut(ms, 0)
  PROVE  Answered(ms)
<1>1. ASSUME NEW i \in DOMAIN ms, NEW k \in 1..ms[i].calls
      PROVE  i + k <= Len(ms) /\ ms[i + k].role = "tool"
  <2>1. i \in 1..Len(ms) /\ ms[i].calls \in Nat
    BY MessageFields
  <2>2. i + k <= Len(ms) + 0 /\ (i + k <= Len(ms) => ms[i + k].role = "tool")
    BY DEF AnsweredBut
  <2>3. QED
    BY <2>1, <2>2
<1>2. QED
  BY <1>1 DEF Answered, AnsweredBut

(* A message that is no answer, with n calls, after a whole history.       *)
LEMMA MessageAppended ==
  ASSUME NEW ms \in Seq(Messages), AnsweredBut(ms, 0), NEW m \in Messages, NEW n \in Nat,
         m.role # "tool", m.calls = n, n > 0 => m.role = "assistant"
  PROVE  AnsweredBut(Append(ms, m), n)
<1> DEFINE all == Append(ms, m)
           N == Len(ms)
<1>1. /\ N \in Nat /\ Len(all) = N + 1 /\ DOMAIN all = 1..N + 1 /\ DOMAIN ms = 1..N
      /\ \A i \in 1..N : all[i] = ms[i]
      /\ all[N + 1] = m
  OBVIOUS
<1>2. \A i \in 1..N : ms[i].calls \in Nat
  BY MessageFields
<1> HIDE DEF all, N
<1>3. ASSUME NEW i \in DOMAIN all, NEW k \in 1..all[i].calls
      PROVE  i + k <= Len(all) + n /\ (i + k <= Len(all) => all[i + k].role = "tool")
  <2>1. CASE i = N + 1
    BY <1>1, <2>1
  <2>2. CASE i \in 1..N
    <3>1. k \in 1..ms[i].calls /\ ms[i].calls \in Nat /\ i \in DOMAIN ms
      BY <1>1, <1>2, <2>2
    <3>2. i + k <= N + 0 /\ (i + k <= N => ms[i + k].role = "tool")
      BY <3>1 DEF AnsweredBut, N
    <3>3. i + k \in 1..N /\ all[i + k] = ms[i + k]
      BY <1>1, <2>2, <3>1, <3>2
    <3>4. QED
      BY <1>1, <3>2, <3>3
  <2>3. QED
    BY <1>1, <2>1, <2>2
<1>4. ASSUME NEW i \in DOMAIN all, all[i].role = "tool"
      PROVE  \E j \in 1..i - 1 : all[j].role = "assistant" /\ j + all[j].calls >= i
  <2>1. i \in 1..N /\ ms[i].role = "tool" /\ i \in DOMAIN ms
    BY <1>1, <1>4
  <2>2. PICK j \in 1..i - 1 : ms[j].role = "assistant" /\ j + ms[j].calls >= i
    BY <2>1 DEF AnsweredBut
  <2>3. j \in 1..N /\ all[j] = ms[j]
    BY <1>1, <2>1
  <2>4. QED
    BY <2>2, <2>3
<1>5. n > 0 => \E j \in DOMAIN all : all[j].role = "assistant" /\ j + all[j].calls = Len(all) + n
  BY <1>1
<1>6. AnsweredBut(all, n)
  BY <1>3, <1>4, <1>5 DEF AnsweredBut
<1>7. QED
  BY <1>6 DEF all

(* The answer of a call.                                                   *)
LEMMA ResultAppended ==
  ASSUME NEW ms \in Seq(Messages), NEW n \in Nat \ {0}, AnsweredBut(ms, n)
  PROVE  AnsweredBut(Append(ms, ToolResult), n - 1)
<1> DEFINE all == Append(ms, ToolResult)
           N == Len(ms)
<1>1. /\ N \in Nat /\ Len(all) = N + 1 /\ DOMAIN all = 1..N + 1 /\ DOMAIN ms = 1..N
      /\ \A i \in 1..N : all[i] = ms[i]
      /\ all[N + 1] = ToolResult
  BY KindsOfMessages
<1>2. \A i \in 1..N : ms[i].calls \in Nat
  BY MessageFields
<1> HIDE DEF all, N
<1>3. ASSUME NEW i \in DOMAIN all, NEW k \in 1..all[i].calls
      PROVE  i + k <= Len(all) + (n - 1) /\ (i + k <= Len(all) => all[i + k].role = "tool")
  <2>1. CASE i = N + 1
    BY <1>1, <2>1, KindsOfMessages
  <2>2. CASE i \in 1..N
    <3>1. k \in 1..ms[i].calls /\ ms[i].calls \in Nat /\ i \in DOMAIN ms
      BY <1>1, <1>2, <2>2
    <3>2. i + k <= N + n /\ (i + k <= N => ms[i + k].role = "tool")
      BY <3>1 DEF AnsweredBut, N
    <3>3. i + k <= N => all[i + k] = ms[i + k]
      BY <1>1, <2>2, <3>1
    <3>4. QED
      BY <1>1, <2>2, <3>1, <3>2, <3>3, KindsOfMessages
  <2>3. QED
    BY <1>1, <2>1, <2>2
<1>4. PICK a \in DOMAIN ms : ms[a].role = "assistant" /\ a + ms[a].calls = N + n
  BY DEF AnsweredBut, N
<1>5. all[a] = ms[a] /\ a \in 1..N
  BY <1>1
<1>6. ASSUME NEW i \in DOMAIN all, all[i].role = "tool"
      PROVE  \E j \in 1..i - 1 : all[j].role = "assistant" /\ j + all[j].calls >= i
  <2>1. CASE i \in 1..N
    <3>1. ms[i].role = "tool" /\ i \in DOMAIN ms
      BY <1>1, <1>6, <2>1
    <3>2. PICK j \in 1..i - 1 : ms[j].role = "assistant" /\ j + ms[j].calls >= i
      BY <3>1 DEF AnsweredBut
    <3>3. j \in 1..N /\ all[j] = ms[j]
      BY <1>1, <2>1
    <3>4. QED
      BY <3>2, <3>3
  <2>2. CASE i = N + 1
    BY <1>1, <1>4, <1>5, <2>2
  <2>3. QED
    BY <1>1, <2>1, <2>2
<1>7. n - 1 > 0 => \E j \in DOMAIN all : all[j].role = "assistant" /\ j + all[j].calls = Len(all) + (n - 1)
  BY <1>1, <1>4, <1>5
<1>8. AnsweredBut(all, n - 1)
  BY <1>3, <1>6, <1>7 DEF AnsweredBut
<1>9. QED
  BY <1>8 DEF all

(* What a request notes when it begins.                                    *)
LEMMA NotesAdded ==
  ASSUME NEW ms \in Seq(Messages), AnsweredBut(ms, 0), NEW ns \in Seq({User, Text})
  PROVE  /\ AnsweredBut(ms \o ns, 0)
         /\ ns # <<>> => ms \o ns # <<>> /\ (ms \o ns)[Len(ms \o ns)].role # "tool"
<1> DEFINE all == ms \o ns
           N == Len(ms)
           L == Len(ns)
<1>1. /\ N \in Nat /\ L \in Nat /\ Len(all) = N + L /\ DOMAIN all = 1..N + L /\ DOMAIN ms = 1..N
      /\ \A i \in 1..N : all[i] = ms[i]
      /\ \A i \in N + 1..N + L : all[i] = ns[i - N] /\ ns[i - N] \in {User, Text}
      /\ ns # <<>> => L > 0
  BY KindsOfMessages
<1>2. \A i \in 1..N : ms[i].calls \in Nat
  BY MessageFields
<1>3. \A i \in N + 1..N + L : all[i].calls = 0 /\ all[i].role # "tool"
  BY <1>1, KindsOfMessages
<1> HIDE DEF all, N, L
<1>4. ASSUME NEW i \in DOMAIN all, NEW k \in 1..all[i].calls
      PROVE  i + k <= Len(all) + 0 /\ (i + k <= Len(all) => all[i + k].role = "tool")
  <2>1. CASE i \in N + 1..N + L
    BY <1>3, <2>1
  <2>2. CASE i \in 1..N
    <3>1. k \in 1..ms[i].calls /\ ms[i].calls \in Nat /\ i \in DOMAIN ms
      BY <1>1, <1>2, <2>2
    <3>2. i + k <= N + 0 /\ (i + k <= N => ms[i + k].role = "tool")
      BY <3>1 DEF AnsweredBut, N
    <3>3. i + k \in 1..N /\ all[i + k] = ms[i + k]
      BY <1>1, <2>2, <3>1, <3>2
    <3>4. QED
      BY <1>1, <3>2, <3>3
  <2>3. QED
    BY <1>1, <2>1, <2>2
<1>5. ASSUME NEW i \in DOMAIN all, all[i].role = "tool"
      PROVE  \E j \in 1..i - 1 : all[j].role = "assistant" /\ j + all[j].calls >= i
  <2>1. i \in 1..N /\ ms[i].role = "tool" /\ i \in DOMAIN ms
    BY <1>1, <1>3, <1>5
  <2>2. PICK j \in 1..i - 1 : ms[j].role = "assistant" /\ j + ms[j].calls >= i
    BY <2>1 DEF AnsweredBut
  <2>3. j \in 1..N /\ all[j] = ms[j]
    BY <1>1, <2>1
  <2>4. QED
    BY <2>2, <2>3
<1>6. AnsweredBut(all, 0)
  BY <1>4, <1>5 DEF AnsweredBut
<1>7. ns # <<>> => all # <<>> /\ all[Len(all)].role # "tool"
  <2>1. HAVE ns # <<>>
  <2>2. N + L \in N + 1..N + L /\ Len(all) = N + L /\ Len(all) > 0
    BY <1>1, <2>1
  <2>3. all # <<>>
    BY <2>2
  <2>4. QED
    BY <1>3, <2>2, <2>3
<1>8. QED
  BY <1>6, <1>7 DEF all

(* A message taken back.                                                   *)
LEMMA LastTakenBack ==
  ASSUME NEW ms \in Seq(Messages), AnsweredBut(ms, 0), ms # <<>>, ms[Len(ms)].role # "tool"
  PROVE  Front(ms) \in Seq(Messages) /\ AnsweredBut(Front(ms), 0)
<1> DEFINE left == Front(ms)
           N == Len(ms)
<1>1. /\ N \in Nat \ {0} /\ left = SubSeq(ms, 1, N - 1) /\ DOMAIN ms = 1..N
  BY DEF Front
<1>2. /\ left \in Seq(Messages) /\ Len(left) = N - 1 /\ DOMAIN left = 1..N - 1
      /\ \A i \in 1..N - 1 : left[i] = ms[i]
  BY <1>1
<1>3. \A i \in 1..N : ms[i].calls \in Nat
  BY MessageFields
<1>4. ms[N].role # "tool"
  OBVIOUS
<1> HIDE DEF left, N
<1>5. ASSUME NEW i \in DOMAIN left, NEW k \in 1..left[i].calls
      PROVE  i + k <= Len(left) + 0 /\ (i + k <= Len(left) => left[i + k].role = "tool")
  <2>1. i \in DOMAIN ms /\ k \in 1..ms[i].calls /\ i \in 1..N - 1 /\ ms[i].calls \in Nat
    BY <1>1, <1>2, <1>3
  <2>2. i + k <= N + 0 /\ (i + k <= N => ms[i + k].role = "tool")
    BY <2>1 DEF AnsweredBut, N
  <2>3. i + k \in 1..N /\ i + k # N
    BY <1>1, <1>4, <2>1, <2>2
  <2>4. i + k \in 1..N - 1
    BY <1>1, <2>3
  <2>5. QED
    BY <1>2, <2>2, <2>3, <2>4
<1>6. ASSUME NEW i \in DOMAIN left, left[i].role = "tool"
      PROVE  \E j \in 1..i - 1 : left[j].role = "assistant" /\ j + left[j].calls >= i
  <2>1. i \in DOMAIN ms /\ ms[i].role = "tool" /\ i \in 1..N - 1
    BY <1>1, <1>2, <1>6
  <2>2. PICK j \in 1..i - 1 : ms[j].role = "assistant" /\ j + ms[j].calls >= i
    BY <2>1 DEF AnsweredBut
  <2>3. left[j] = ms[j]
    BY <1>1, <1>2, <2>1
  <2>4. QED
    BY <2>2, <2>3
<1>7. AnsweredBut(left, 0)
  BY <1>5, <1>6 DEF AnsweredBut
<1>8. QED
  BY <1>2, <1>7 DEF left

(* What is cut off ends before a message of the user, so no call that is   *)
(* left loses its answer and no answer its call.                           *)
LEMMA SuffixAnswered ==
  ASSUME NEW ms \in Seq(Messages), AnsweredBut(ms, 0), NEW a \in 1..Len(ms), ms[a].role = "user"
  PROVE  SubSeq(ms, a, Len(ms)) \in Seq(Messages) /\ AnsweredBut(SubSeq(ms, a, Len(ms)), 0)
<1> DEFINE left == SubSeq(ms, a, Len(ms))
           N == Len(ms)
<1>1. /\ N \in Nat /\ a \in 1..N /\ DOMAIN ms = 1..N
      /\ left \in Seq(Messages) /\ Len(left) = N - a + 1 /\ DOMAIN left = 1..N - a + 1
      /\ \A i \in 1..N - a + 1 : left[i] = ms[a + i - 1]
  OBVIOUS
<1>2. \A i \in 1..N : ms[i].calls \in Nat
  BY MessageFields
<1> HIDE DEF left, N
<1>3. ASSUME NEW i \in DOMAIN left, NEW k \in 1..left[i].calls
      PROVE  i + k <= Len(left) + 0 /\ (i + k <= Len(left) => left[i + k].role = "tool")
  <2> DEFINE b == a + i - 1
  <2>1. b \in 1..N /\ b = a + i - 1 /\ i \in 1..N - a + 1 /\ left[i] = ms[b]
    BY <1>1
  <2> HIDE DEF b
  <2>2. b \in DOMAIN ms /\ k \in 1..ms[b].calls /\ ms[b].calls \in Nat
    BY <1>1, <1>2, <2>1
  <2>3. b + k <= N + 0 /\ (b + k <= N => ms[b + k].role = "tool")
    BY <2>2 DEF AnsweredBut, N
  <2>4. i + k \in 1..N - a + 1 /\ a + (i + k) - 1 = b + k
    BY <1>1, <2>1, <2>2, <2>3
  <2>5. left[i + k] = ms[b + k]
    BY <1>1, <2>4
  <2>6. QED
    BY <1>1, <2>1, <2>2, <2>3, <2>4, <2>5
<1>4. ASSUME NEW i \in DOMAIN left, left[i].role = "tool"
      PROVE  \E j \in 1..i - 1 : left[j].role = "assistant" /\ j + left[j].calls >= i
  <2> DEFINE b == a + i - 1
  <2>1. b \in 1..N /\ b = a + i - 1 /\ i \in 1..N - a + 1 /\ left[i] = ms[b]
    BY <1>1
  <2> HIDE DEF b
  <2>2. b \in DOMAIN ms /\ ms[b].role = "tool"
    BY <1>1, <1>4, <2>1
  <2>3. PICK j \in 1..b - 1 : ms[j].role = "assistant" /\ j + ms[j].calls >= b
    BY <2>2 DEF AnsweredBut
  <2>4. j \in 1..N /\ ms[j].calls \in Nat /\ j \in DOMAIN ms
    BY <1>1, <1>2, <2>1
  <2>5. j >= a
    <3>1. SUFFICES ASSUME j < a
                   PROVE  FALSE
      BY <1>1, <2>4
    <3>2. a - j \in 1..ms[j].calls /\ j + (a - j) = a
      BY <1>1, <2>1, <2>3, <2>4, <3>1
    <3>3. ms[j + (a - j)].role = "tool"
      BY <1>1, <2>4, <3>2 DEF AnsweredBut, N
    <3>4. QED
      BY <3>2, <3>3
  <2>6. j - a + 1 \in 1..i - 1 /\ j - a + 1 \in 1..N - a + 1 /\ a + (j - a + 1) - 1 = j
    BY <1>1, <2>1, <2>4, <2>5
  <2>7. left[j - a + 1] = ms[j]
    BY <1>1, <2>6
  <2>8. QED
    BY <1>1, <2>1, <2>3, <2>4, <2>6, <2>7
<1>5. AnsweredBut(left, 0)
  BY <1>3, <1>4 DEF AnsweredBut
<1>6. QED
  BY <1>1, <1>5 DEF left

LEMMA NothingAnswered == AnsweredBut(<<>>, 0)
BY DEF AnsweredBut

(* Of numbers there is a least.                                            *)
LEMMA LeastOf ==
  ASSUME NEW T \in SUBSET Nat, T # {}
  PROVE  \E i \in T : \A j \in T : i <= j
<1>1. IsWellFoundedOn(OpToRel(<, Nat), Nat)
  BY NatLessThanWellFounded
<1>2. PICK i \in T : \A j \in T : ~ <<j, i>> \in OpToRel(<, Nat)
  BY <1>1, WFMin
<1>3. \A j \in T : j \in Nat /\ i \in Nat /\ ~ j < i
  BY <1>2 DEF OpToRel
<1>4. QED
  BY <1>3

LEMMA HistoryTrimmed ==
  ASSUME NEW ms \in Seq(Messages), AnsweredBut(ms, 0)
  PROVE  TrimHistory(ms) \in Seq(Messages) /\ AnsweredBut(TrimHistory(ms), 0)
<1> DEFINE from == Len(ms) - HistoryLimit + 1
           starts == {i \in from..Len(ms) : ms[i].role = "user"}
           start == CHOOSE i \in starts : \A j \in starts : i <= j
<1>1. CASE Len(ms) <= HistoryLimit
  BY <1>1 DEF TrimHistory
<1>2. CASE ~(Len(ms) <= HistoryLimit) /\ starts = {}
  <2>1. TrimHistory(ms) = <<>>
    BY <1>2 DEF TrimHistory
  <2>2. QED
    BY <2>1, NothingAnswered
<1>3. CASE ~(Len(ms) <= HistoryLimit) /\ starts # {}
  <2>1. TrimHistory(ms) = SubSeq(ms, start, Len(ms))
    BY <1>3 DEF TrimHistory
  <2>2. from \in Nat /\ from >= 1 /\ Len(ms) \in Nat
    BY <1>3, Numbers
  <2>3. starts \subseteq 1..Len(ms) /\ \A i \in starts : ms[i].role = "user"
    BY <2>2
  <2>4. \E i \in starts : \A j \in starts : i <= j
    <3> HIDE DEF starts
    <3>1. starts \subseteq Nat /\ starts # {}
      BY <1>3, <2>3
    <3>2. QED
      BY <3>1, LeastOf
  <2> HIDE DEF starts
  <2>5. start \in starts
    BY <2>4
  <2> HIDE DEF start
  <2>6. start \in 1..Len(ms) /\ ms[start].role = "user"
    BY <2>3, <2>5
  <2>7. QED
    BY <2>1, <2>6, SuffixAnswered
<1>4. QED
  BY <1>1, <1>2, <1>3

-----------------------------------------------------------------------------
(* What a step of a turn leaves, whichever it is.                          *)

Leaves(r, p, s, k, l) ==
  /\ Becomes(r, p, s, k, l)
  /\ IsSession(s) /\ s.pending \in {req[r].session.pending, req[r].name}
  /\ k \in Nat /\ l \in 0..MaxCalls
  /\ p \in {"llm", "save"} => AnsweredBut(s.messages, 0)
  /\ p = "tools" => AnsweredBut(s.messages, l) /\ l > 0
  /\ p \in {"llm", "tools"} => k > 0

LEMMA TurnDoes ==
  ASSUME Shapes, Histories, NEW r \in Requests, LlmAnswers(r) \/ LlmFails(r) \/ Tools(r)
  PROVE  /\ UNCHANGED Sames /\ UNCHANGED applied /\ req[r].phase \in {"llm", "tools"}
         /\ \E p \in {"llm", "tools", "save"} : \E s, k, l : Leaves(r, p, s, k, l)
<1> DEFINE old == req[r].session
<1>1. /\ IsSession(old) /\ req[r].steps \in Nat /\ req[r].left \in 0..MaxCalls
      /\ old.messages \in Seq(Messages)
      /\ req[r].phase = "tools" => req[r].left > 0 /\ req[r].steps > 0
  BY DEF Shapes, IsRequest, InOrder, IsSession
<1>2. CASE LlmAnswers(r)
  <2>1. PICK n \in 0..MaxCalls :
          Becomes(r, IF n = 0 THEN "save" ELSE "tools",
                  Heard(old, Said("assistant", n)), req[r].steps + 1, n)
    BY <1>2, LlmAnswersDoes
  <2>2. req[r].phase = "llm" /\ UNCHANGED Sames /\ UNCHANGED applied
    BY <1>2, LlmAnswersDoes
  <2> DEFINE m == Said("assistant", n)
             s == Heard(old, m)
             p == IF n = 0 THEN "save" ELSE "tools"
             k == req[r].steps + 1
  <2>3. m \in Messages /\ m.role = "assistant" /\ m.calls = n /\ n \in Nat
    BY KindsOfMessages, Numbers
  <2> HIDE DEF m
  <2>4. IsSession(s) /\ s.messages = Append(old.messages, m) /\ s.pending = old.pending
    BY <1>1, <2>3, HeardProperties
  <2>5. AnsweredBut(old.messages, 0)
    BY <2>2 DEF Histories
  <2>6. AnsweredBut(Append(old.messages, m), n)
    BY <1>1, <2>3, <2>5, MessageAppended
  <2>7. k \in Nat /\ k > 0
    BY <1>1
  <2>8. p \in {"llm", "tools", "save"} /\ p # "llm" /\ (p = "save" => n = 0) /\ (p = "tools" => n > 0)
    BY <2>3
  <2>9. Becomes(r, p, s, k, n)
    BY <2>1 DEF m
  <2> HIDE DEF s, p, k
  <2>10. Leaves(r, p, s, k, n)
    BY <2>3, <2>4, <2>6, <2>7, <2>8, <2>9 DEF Leaves
  <2>11. QED
    BY <2>2, <2>8, <2>10
<1>3. CASE LlmFails(r)
  <2> DEFINE s == IF req[r].steps = 0 THEN [old EXCEPT !.messages = Front(old.messages)] ELSE old
  <2>1. req[r].phase = "llm" /\ UNCHANGED Sames /\ UNCHANGED applied
    BY <1>3, LlmFailsDoes
  <2>2. Becomes(r, "save", s, req[r].steps, req[r].left)
    BY <1>3, LlmFailsDoes
  <2>3. AnsweredBut(old.messages, 0)
    BY <2>1 DEF Histories
  <2>4. IsSession(s) /\ s.pending = old.pending /\ AnsweredBut(s.messages, 0)
    <3>1. CASE req[r].steps = 0
      <4> DEFINE ms == Front(old.messages)
      <4>1. old.messages # <<>> /\ old.messages[Len(old.messages)].role # "tool"
        BY <2>1, <3>1 DEF Histories
      <4>2. ms \in Seq(Messages) /\ AnsweredBut(ms, 0)
        BY <1>1, <2>3, <4>1, LastTakenBack
      <4> HIDE DEF ms
      <4>3. [old EXCEPT !.messages = ms] = [messages |-> ms, shown |-> old.shown, pending |-> old.pending]
        BY <1>1 DEF IsSession
      <4>4. s = [messages |-> ms, shown |-> old.shown, pending |-> old.pending]
        BY <3>1, <4>3 DEF ms
      <4> HIDE DEF s
      <4>5. QED
        BY <1>1, <4>2, <4>4 DEF IsSession
    <3>2. CASE req[r].steps # 0
      BY <1>1, <2>3, <3>2
    <3>3. QED
      BY <3>1, <3>2
  <2> HIDE DEF s
  <2>5. Leaves(r, "save", s, req[r].steps, req[r].left)
    BY <1>1, <2>2, <2>4 DEF Leaves
  <2>6. QED
    BY <2>1, <2>5
<1>4. CASE Tools(r)
  <2>1. PICK t : /\ IsSession(t) /\ Called(r, t) /\ t.messages = old.messages
                 /\ t.pending \in {old.pending, req[r].name}
    BY <1>4, ToolsCall
  <2>2. req[r].phase = "tools" /\ UNCHANGED Sames /\ UNCHANGED applied
    BY <2>1, CalledDoes
  <2> DEFINE s == Heard(t, ToolResult)
             l == req[r].left - 1
  <2>3. PICK p \in Continuations(r, t) : Becomes(r, p, s, req[r].steps, l)
    BY <2>1, CalledDoes
  <2>4. IsSession(s) /\ s.messages = Append(old.messages, ToolResult) /\ s.pending = t.pending
    <3>1. IsSession(t) /\ t.messages = old.messages /\ ToolResult \in Messages
      BY <2>1, KindsOfMessages
    <3> HIDE DEF old
    <3>2. QED
      BY <3>1, HeardProperties
  <2>5. AnsweredBut(old.messages, req[r].left) /\ req[r].left \in Nat \ {0}
    BY <1>1, <2>2, Numbers DEF Histories
  <2>6. AnsweredBut(s.messages, l)
    BY <1>1, <2>4, <2>5, ResultAppended
  <2>7. l \in 0..MaxCalls /\ p \in {"llm", "tools", "save"}
        /\ (p = "tools" => l > 0) /\ (p \in {"llm", "save"} => l = 0)
    BY <1>1, <2>2, Numbers DEF Continuations
  <2> HIDE DEF s, l
  <2>8. Leaves(r, p, s, req[r].steps, l)
    BY <1>1, <2>1, <2>2, <2>3, <2>4, <2>6, <2>7 DEF Leaves
  <2>9. QED
    BY <2>2, <2>7, <2>8
<1>5. QED
  BY <1>2, <1>3, <1>4

LEMMA ChangeCarriedOut ==
  ASSUME Shapes, NEW r \in Requests, Apply(r)
  PROVE  /\ req[r].phase = "apply" /\ req[r].approve /\ req[r].change \in Changes
         /\ UNCHANGED Sames /\ CarryOut(req[r].change)
         /\ \E s : /\ Becomes(r, "save", s, req[r].steps, req[r].left)
                   /\ IsSession(s) /\ s.pending = req[r].session.pending
                   /\ AnsweredBut(req[r].session.messages, 0) => AnsweredBut(s.messages, 0)
<1> DEFINE s == Heard(req[r].session, Text)
<1>1. req[r].phase = "apply" /\ req[r].approve /\ req[r].change \in Changes
      /\ IsSession(req[r].session)
  BY DEF Apply, Shapes, InOrder, IsRequest
<1>2. /\ UNCHANGED Sames /\ CarryOut(req[r].change)
      /\ Becomes(r, "save", s, req[r].steps, req[r].left)
  BY ApplyDoes
<1>3. IsSession(s) /\ s.pending = req[r].session.pending
      /\ s.messages = Append(req[r].session.messages, Text)
  BY <1>1, KindsOfMessages, HeardProperties
<1>4. AnsweredBut(req[r].session.messages, 0) => AnsweredBut(s.messages, 0)
  BY <1>1, <1>3, KindsOfMessages, MessageAppended DEF IsSession
<1> HIDE DEF s
<1>5. QED
  BY <1>1, <1>2, <1>3, <1>4

LEMMA SessionSaved ==
  ASSUME Shapes, Histories, NEW r \in Requests, Save(r)
  PROVE  /\ req[r].phase = "save" /\ UNCHANGED <<begun, applied, contested>>
         /\ refused' = IF req[r].approve THEN refused
                       ELSE refused \cup ({req[r].change} \ {None})
         /\ \E s : /\ Becomes(r, "reply", s, req[r].steps, req[r].left) /\ Stores(s)
                   /\ IsSession(s) /\ s.pending = req[r].session.pending
                   /\ AnsweredBut(s.messages, 0)
<1> DEFINE old == req[r].session
           ms == TrimHistory(old.messages)
           s == [old EXCEPT !.messages = ms]
<1>1. /\ req[r].phase = "save" /\ Stores(s) /\ UNCHANGED <<begun, applied, contested>>
      /\ refused' = IF req[r].approve THEN refused ELSE refused \cup ({req[r].change} \ {None})
      /\ Becomes(r, "reply", s, req[r].steps, req[r].left)
  BY SaveDoes
<1>2. IsSession(old) /\ old.messages \in Seq(Messages)
  BY DEF Shapes, IsRequest, IsSession
<1>3. AnsweredBut(old.messages, 0)
  BY <1>1 DEF Histories
<1>4. ms \in Seq(Messages) /\ AnsweredBut(ms, 0)
  BY <1>2, <1>3, HistoryTrimmed
<1> HIDE DEF ms
<1>5. s = [messages |-> ms, shown |-> old.shown, pending |-> old.pending]
  BY <1>2 DEF IsSession
<1> HIDE DEF s
<1>6. IsSession(s) /\ s.pending = old.pending /\ s.messages = ms
  BY <1>2, <1>4, <1>5 DEF IsSession
<1>7. QED
  BY <1>1, <1>4, <1>6

LEMMA FreshSession == IsSession(Fresh) /\ Fresh.pending = None /\ AnsweredBut(Fresh.messages, 0)
BY NothingAnswered DEF Fresh, IsSession

-----------------------------------------------------------------------------
(* The kinds of steps.                                                     *)

Opened(r) ==
  \E c, s, change, phase : c \in Clients /\ \E approve \in BOOLEAN :
    Opens(r, c, s, change, approve, phase) /\ Opening(s, change, approve, phase)

Turns(r) == LlmAnswers(r) \/ LlmFails(r) \/ Tools(r)

Emptied == Stores(Fresh) /\ UNCHANGED <<req, begun, applied, refused, contested>>

Looked == OpenPage \/ \E r \in Requests : GiveUp(r)

LEMMA NextDoes ==
  ASSUME Shapes, Next
  PROVE  \/ Looked \/ Emptied
         \/ \E r \in Requests :
              Opened(r) \/ Turns(r) \/ Apply(r) \/ Save(r) \/ Answer(r) \/ Crash(r)
<1>1. ASSUME NEW r \in Requests, NEW c \in Clients, NEW approve \in BOOLEAN, NEW p \in Changes,
             Ask(r, c) \/ AnswerInText(r, c, approve) \/ Press(r, c, p, approve)
      PROVE  Opened(r)
  BY <1>1, BeginsDoes DEF Opened
<1>2. 1 \in Changes /\ TRUE \in BOOLEAN
  BY Numbers DEF Changes
<1>3. ASSUME NEW r \in Requests, NEW c \in Clients,
             \/ Ask(r, c)
             \/ \E approve \in BOOLEAN :
                  AnswerInText(r, c, approve) \/ \E p \in Changes : Press(r, c, p, approve)
      PROVE  Opened(r)
  BY <1>1, <1>2, <1>3
<1>4. ASSUME NEW r \in Requests, Works(r)
      PROVE  Turns(r) \/ Apply(r) \/ Save(r) \/ Answer(r)
  BY <1>4 DEF Works, Turns, Tools
<1>5. ASSUME (\E c \in Clients : ResetSession(c)) \/ Expire
      PROVE  Emptied
  BY <1>5 DEF ResetSession, Expire, Emptied
<1>6. QED
  BY <1>3, <1>4, <1>5 DEF Next, Looked

LEMMA Reshaped ==
  ASSUME NEW q, IsRequest(q), NEW p \in Phases, NEW s, IsSession(s), NEW k \in Nat,
         NEW l \in 0..MaxCalls, NEW u, u = Request(q, p, s, k, l)
  PROVE  /\ IsRequest(u)
         /\ u.phase = p /\ u.session = s /\ u.steps = k /\ u.left = l
         /\ u.name = q.name /\ u.change = q.change /\ u.approve = q.approve
BY DEF IsRequest, Request

LEMMA OpenedFields ==
  ASSUME NEW r \in Requests, NEW c, NEW s, NEW change, NEW approve \in BOOLEAN, NEW phase,
         Opens(r, c, s, change, approve, phase), Opening(s, change, approve, phase),
         begun \in 0..MaxBegun
  PROVE  /\ IsRequest(req'[r]) /\ InOrder(req'[r])
         /\ req'[r].phase = phase /\ req'[r].name = begun + 1 /\ req'[r].session = s
         /\ req'[r].change = change /\ req'[r].approve = approve
<1> DEFINE u == req'[r]
           n == begun + 1
           yes == TRUE
           a == approve
<1>1. u = Full(phase, c, n, s, change, a, 0, 0, yes)
  BY DEF Opens
<1>2. n \in Changes
  BY Numbers DEF Opens, Changes
<1>3. a \in BOOLEAN
  OBVIOUS
<1> HIDE DEF u, n, yes, a
<1>4. /\ u = Full(u.phase, u.client, u.name, u.session, u.change, u.approve, u.steps, u.left, u.waits)
      /\ u.phase = phase /\ u.client = c /\ u.name = n /\ u.session = s /\ u.change = change
      /\ u.approve = a /\ u.steps = 0 /\ u.left = 0
  BY <1>1 DEF Full
<1>5. u = [phase |-> u.phase, client |-> u.client, name |-> u.name, session |-> u.session,
           change |-> u.change, approve |-> u.approve, steps |-> u.steps, left |-> u.left,
           waits |-> u.waits]
  BY <1>4, Zenon DEF Full
<1>6. /\ phase \in Phases /\ phase \in {"llm", "apply", "save", "reply"}
      /\ change \in Changes \cup {None} /\ IsSession(s)
  BY DEF Opening, Phases
<1>7. 0 \in 0..MaxCalls
  BY Numbers
<1>8. IsRequest(u)
  BY <1>2, <1>3, <1>4, <1>5, <1>6, <1>7 DEF IsRequest
<1>9. InOrder(u)
  <2>1. /\ phase = "llm" => ~a
        /\ phase = "apply" => a
        /\ phase \in {"apply", "save"} /\ a => change # None
    BY DEF Opening, a
  <2>2. QED
    BY <1>4, <1>6, <2>1 DEF InOrder
<1>10. QED
  BY <1>4, <1>8, <1>9 DEF u, n, a

LEMMA IdleFields ==
  /\ IsRequest(Idle) /\ InOrder(Idle) /\ Idle.phase = "idle"
<1> DEFINE no == FALSE
           u == Idle
<1>1. u = Full("idle", "web", None, Fresh, None, no, 0, 0, no) /\ no \in BOOLEAN
  BY Zenon DEF Idle, Full
<1> HIDE DEF no, u
<1>2. /\ u = Full(u.phase, u.client, u.name, u.session, u.change, u.approve, u.steps, u.left, u.waits)
      /\ u.phase = "idle" /\ u.name = None /\ u.session = Fresh /\ u.change = None
      /\ u.approve = no /\ u.steps = 0 /\ u.left = 0
  BY <1>1 DEF Full
<1>3. u = [phase |-> u.phase, client |-> u.client, name |-> u.name, session |-> u.session,
           change |-> u.change, approve |-> u.approve, steps |-> u.steps, left |-> u.left,
           waits |-> u.waits]
  BY <1>2, Zenon DEF Full
<1>4. IsRequest(u) /\ InOrder(u)
  BY <1>1, <1>2, <1>3, FreshSession, Numbers DEF IsRequest, InOrder, Phases
<1>5. QED
  BY <1>2, <1>4 DEF u

LEMMA KeptFields ==
  ASSUME NEW q, IsRequest(q), NEW u, Kept(q, u)
  PROVE  /\ IsRequest(u)
         /\ u.phase = q.phase /\ u.name = q.name /\ u.session = q.session /\ u.change = q.change
         /\ u.approve = q.approve /\ u.steps = q.steps /\ u.left = q.left
<1>1. /\ u.phase = q.phase /\ u.name = q.name /\ u.session = q.session /\ u.change = q.change
      /\ u.approve = q.approve /\ u.steps = q.steps /\ u.left = q.left /\ u.client = q.client
  BY DEF Kept, Full
<1>2. u = [phase |-> u.phase, client |-> u.client, name |-> u.name, session |-> u.session,
           change |-> u.change, approve |-> u.approve, steps |-> u.steps, left |-> u.left,
           waits |-> u.waits]
  BY <1>1 DEF Kept, Full
<1>3. QED
  BY <1>1, <1>2 DEF IsRequest

(* The fields of a request that goes on or has ended, and of the others.   *)
LEMMA BecomesFields ==
  ASSUME Shapes, NEW r \in Requests, NEW p \in Phases, NEW s, IsSession(s), NEW k \in Nat,
         NEW l \in 0..MaxCalls, Becomes(r, p, s, k, l)
  PROVE  /\ IsRequest(req'[r])
         /\ req'[r].phase = p /\ req'[r].session = s /\ req'[r].steps = k /\ req'[r].left = l
         /\ req'[r].name = req[r].name /\ req'[r].change = req[r].change
         /\ req'[r].approve = req[r].approve
         /\ req' = [q \in Requests |-> req'[q]]
         /\ \A q \in Requests \ {r} : req'[q] = req[q]
<1> DEFINE u == req'[r]
           q == req[r]
<1>1. u = Request(q, p, s, k, l) /\ IsRequest(q)
  BY DEF Becomes, Shapes
<1> HIDE DEF u, q
<1>2. /\ IsRequest(u)
      /\ u.phase = p /\ u.session = s /\ u.steps = k /\ u.left = l
      /\ u.name = q.name /\ u.change = q.change /\ u.approve = q.approve
  BY <1>1, Reshaped
<1>3. QED
  BY <1>2 DEF u, q, Becomes

-----------------------------------------------------------------------------
(* Each step keeps the shapes.                                             *)

LEMMA TurnLeaves ==
  ASSUME Shapes, Histories, NEW r \in Requests, Turns(r)
  PROVE  /\ UNCHANGED Sames /\ UNCHANGED applied /\ req[r].phase \in {"llm", "tools"}
         /\ req' = [q \in Requests |-> req'[q]]
         /\ \A q \in Requests \ {r} : req'[q] = req[q]
         /\ LET u == req'[r]
            IN /\ IsRequest(u) /\ InOrder(u) /\ ~u.approve /\ u.approve = req[r].approve
               /\ u.phase \in {"llm", "tools", "save"}
               /\ u.name = req[r].name /\ u.change = req[r].change
               /\ u.session.pending \in {req[r].session.pending, req[r].name}
               /\ u.phase \in {"llm", "save"} => AnsweredBut(u.session.messages, 0)
               /\ u.phase = "tools" => AnsweredBut(u.session.messages, u.left)
               /\ u.phase = "llm" => u.steps > 0
<1>1. UNCHANGED Sames /\ UNCHANGED applied /\ req[r].phase \in {"llm", "tools"}
  BY TurnDoes DEF Turns
<1>2. PICK p, s, k, l : p \in {"llm", "tools", "save"} /\ Leaves(r, p, s, k, l)
  BY TurnDoes DEF Turns
<1>3. p \in Phases /\ IsSession(s) /\ k \in Nat /\ l \in 0..MaxCalls /\ Becomes(r, p, s, k, l)
  BY <1>2 DEF Leaves, Phases
<1>4. /\ IsRequest(req'[r])
      /\ req'[r].phase = p /\ req'[r].session = s /\ req'[r].steps = k /\ req'[r].left = l
      /\ req'[r].name = req[r].name /\ req'[r].change = req[r].change
      /\ req'[r].approve = req[r].approve
      /\ req' = [q \in Requests |-> req'[q]]
      /\ \A q \in Requests \ {r} : req'[q] = req[q]
  BY <1>3, BecomesFields
<1>5. ~req[r].approve
  BY <1>1 DEF Shapes, InOrder
<1>6. InOrder(req'[r])
  BY <1>2, <1>4, <1>5 DEF InOrder, Leaves
<1>7. QED
  BY <1>1, <1>2, <1>4, <1>5, <1>6 DEF Leaves

LEMMA AppliedFields ==
  ASSUME Shapes, Histories, NEW r \in Requests, Apply(r)
  PROVE  /\ UNCHANGED Sames /\ req[r].phase = "apply" /\ req[r].approve /\ req[r].change \in Changes
         /\ CarryOut(req[r].change)
         /\ req' = [q \in Requests |-> req'[q]]
         /\ \A q \in Requests \ {r} : req'[q] = req[q]
         /\ LET u == req'[r]
            IN /\ IsRequest(u) /\ InOrder(u)
               /\ u.phase = "save" /\ u.approve = req[r].approve
               /\ u.name = req[r].name /\ u.change = req[r].change
               /\ u.session.pending = req[r].session.pending
               /\ AnsweredBut(u.session.messages, 0)
<1>1. /\ req[r].phase = "apply" /\ req[r].approve /\ req[r].change \in Changes
      /\ UNCHANGED Sames /\ CarryOut(req[r].change)
  BY ChangeCarriedOut
<1>2. AnsweredBut(req[r].session.messages, 0)
  BY <1>1 DEF Histories
<1>3. PICK s : /\ Becomes(r, "save", s, req[r].steps, req[r].left)
               /\ IsSession(s) /\ s.pending = req[r].session.pending
               /\ AnsweredBut(s.messages, 0)
  BY <1>2, ChangeCarriedOut
<1>4. "save" \in Phases /\ req[r].steps \in Nat /\ req[r].left \in 0..MaxCalls
  BY DEF Phases, Shapes, IsRequest
<1>5. /\ IsRequest(req'[r])
      /\ req'[r].phase = "save" /\ req'[r].session = s
      /\ req'[r].name = req[r].name /\ req'[r].change = req[r].change
      /\ req'[r].approve = req[r].approve
      /\ req' = [q \in Requests |-> req'[q]]
      /\ \A q \in Requests \ {r} : req'[q] = req[q]
  BY <1>3, <1>4, BecomesFields
<1>6. InOrder(req'[r])
  BY <1>1, <1>5, Numbers DEF InOrder
<1>7. QED
  BY <1>1, <1>3, <1>5, <1>6

LEMMA SavedFields ==
  ASSUME Shapes, Histories, NEW r \in Requests, Save(r)
  PROVE  /\ req[r].phase = "save" /\ UNCHANGED <<begun, applied, contested>>
         /\ refused' = IF req[r].approve THEN refused
                       ELSE refused \cup ({req[r].change} \ {None})
         /\ IsSession(stored') /\ AnsweredBut(stored'.messages, 0)
         /\ stored'.pending = req[r].session.pending
         /\ gone' = gone \cup ({stored.pending} \ {None, stored'.pending})
         /\ req' = [q \in Requests |-> req'[q]]
         /\ \A q \in Requests \ {r} : req'[q] = req[q]
         /\ IsRequest(req'[r]) /\ InOrder(req'[r])
         /\ req'[r].phase = "reply" /\ req'[r].name = req[r].name
<1>1. /\ req[r].phase = "save" /\ UNCHANGED <<begun, applied, contested>>
      /\ refused' = IF req[r].approve THEN refused ELSE refused \cup ({req[r].change} \ {None})
  BY SessionSaved
<1>2. PICK s : /\ Becomes(r, "reply", s, req[r].steps, req[r].left) /\ Stores(s)
               /\ IsSession(s) /\ s.pending = req[r].session.pending
               /\ AnsweredBut(s.messages, 0)
  BY SessionSaved
<1>3. stored' = s /\ gone' = gone \cup ({stored.pending} \ {None, s.pending})
  BY <1>2 DEF Stores
<1>4. "reply" \in Phases /\ req[r].steps \in Nat /\ req[r].left \in 0..MaxCalls
  BY DEF Phases, Shapes, IsRequest
<1>5. /\ IsRequest(req'[r])
      /\ req'[r].phase = "reply" /\ req'[r].name = req[r].name
      /\ req' = [q \in Requests |-> req'[q]]
      /\ \A q \in Requests \ {r} : req'[q] = req[q]
  BY <1>2, <1>4, BecomesFields
<1>6. InOrder(req'[r])
  BY <1>5 DEF InOrder
<1>7. QED
  BY <1>1, <1>2, <1>3, <1>5, <1>6

LEMMA EndedFields ==
  ASSUME Shapes, NEW r \in Requests, Ends(r)
  PROVE  /\ req' = [q \in Requests |-> req'[q]]
         /\ \A q \in Requests \ {r} : req'[q] = req[q]
         /\ IsRequest(req'[r]) /\ InOrder(req'[r]) /\ req'[r].phase = "idle"
BY IdleFields DEF Ends

LEMMA LookedFields ==
  ASSUME Shapes, Looked
  PROVE  /\ UNCHANGED Sames /\ UNCHANGED applied
         /\ req' = [q \in Requests |-> req'[q]]
         /\ \A q \in Requests :
              LET u == req'[q]
              IN /\ IsRequest(u) /\ InOrder(u)
                 /\ u.phase = req[q].phase /\ u.name = req[q].name /\ u.session = req[q].session
                 /\ u.change = req[q].change /\ u.approve = req[q].approve
                 /\ u.steps = req[q].steps /\ u.left = req[q].left
<1>1. UNCHANGED Sames /\ UNCHANGED applied /\ req' = [q \in Requests |-> req'[q]]
      /\ \A q \in Requests : Kept(req[q], req'[q])
  BY ClientsDo DEF Looked
<1>2. ASSUME NEW q \in Requests
      PROVE  LET u == req'[q]
             IN /\ IsRequest(u) /\ InOrder(u)
                /\ u.phase = req[q].phase /\ u.name = req[q].name /\ u.session = req[q].session
                /\ u.change = req[q].change /\ u.approve = req[q].approve
                /\ u.steps = req[q].steps /\ u.left = req[q].left
  <2> DEFINE u == req'[q]
             v == req[q]
  <2>1. IsRequest(v) /\ InOrder(v) /\ Kept(v, u)
    BY <1>1 DEF Shapes
  <2> HIDE DEF u, v
  <2>2. /\ IsRequest(u)
        /\ u.phase = v.phase /\ u.name = v.name /\ u.session = v.session /\ u.change = v.change
        /\ u.approve = v.approve /\ u.steps = v.steps /\ u.left = v.left
    BY <2>1, KeptFields
  <2>3. InOrder(u)
    BY <2>1, <2>2 DEF InOrder
  <2>4. QED
    BY <2>2, <2>3 DEF u, v
<1>3. QED
  BY <1>1, <1>2

LEMMA EmptiedFields ==
  ASSUME Emptied
  PROVE  /\ IsSession(stored') /\ stored'.pending = None /\ AnsweredBut(stored'.messages, 0)
         /\ gone' = gone \cup ({stored.pending} \ {None})
         /\ UNCHANGED <<req, begun, applied, refused, contested>>
BY FreshSession DEF Emptied, Stores

LEMMA ShapesKept ==
  ASSUME Shapes, Histories, Next
  PROVE  Shapes'
<1>1. CASE Looked
  BY <1>1, LookedFields DEF Shapes, Sames
<1>2. CASE Emptied
  BY <1>2, EmptiedFields DEF Shapes
<1>3. ASSUME NEW r \in Requests,
             Opened(r) \/ Turns(r) \/ Apply(r) \/ Save(r) \/ Answer(r) \/ Crash(r)
      PROVE  Shapes'
  <2>1. CASE Opened(r)
    <3>1. PICK c, s, change, phase : \E yes \in BOOLEAN :
            Opens(r, c, s, change, yes, phase) /\ Opening(s, change, yes, phase)
      BY <2>1 DEF Opened
    <3>2. PICK approve \in BOOLEAN :
            Opens(r, c, s, change, approve, phase) /\ Opening(s, change, approve, phase)
      BY <3>1
    <3>3. IsRequest(req'[r]) /\ InOrder(req'[r])
      BY <3>2, OpenedFields DEF Shapes
    <3>4. begun' \in 0..MaxBegun
      BY <3>2, Numbers DEF Opens, Shapes
    <3>5. /\ UNCHANGED <<stored, applied, refused>>
          /\ req' = [q \in Requests |-> req'[q]]
          /\ \A q \in Requests \ {r} : req'[q] = req[q]
      BY <3>2 DEF Opens
    <3>6. QED
      BY <3>3, <3>4, <3>5 DEF Shapes
  <2>2. CASE Turns(r)
    BY <2>2, TurnLeaves DEF Shapes, Sames
  <2>3. CASE Apply(r)
    <3>1. applied' \in [Changes -> Nat]
      BY <2>3, AppliedFields DEF CarryOut, Shapes
    <3>2. QED
      BY <2>3, <3>1, AppliedFields DEF Shapes, Sames
  <2>4. CASE Save(r)
    <3>1. refused' \subseteq Changes
      <4>1. req[r].change \in Changes \cup {None} /\ refused \subseteq Changes
        BY DEF Shapes, IsRequest
      <4>2. refused' \subseteq refused \cup ({req[r].change} \ {None})
        BY <2>4, SavedFields
      <4>3. QED
        BY <4>1, <4>2
    <3>2. QED
      BY <2>4, <3>1, SavedFields DEF Shapes
  <2>5. CASE Answer(r) \/ Crash(r)
    BY <2>5, EndsDoes, EndedFields DEF Shapes
  <2>6. QED
    BY <1>3, <2>1, <2>2, <2>3, <2>4, <2>5
<1>4. QED
  BY <1>1, <1>2, <1>3, NextDoes

-----------------------------------------------------------------------------
(* Each step keeps the histories answered.                                 *)

LEMMA HistoriesKept ==
  ASSUME Shapes, Histories, Next
  PROVE  Histories'
<1> DEFINE Fine(q) ==
      LET ms == q.session.messages
      IN /\ q.phase \in {"llm", "apply", "save"} => AnsweredBut(ms, 0)
         /\ q.phase = "tools" => AnsweredBut(ms, q.left)
         /\ q.phase = "llm" /\ q.steps = 0 => ms # <<>> /\ ms[Len(ms)].role # "tool"
<1>1. AnsweredBut(stored.messages, 0) /\ \A q \in Requests : Fine(req[q])
  BY DEF Histories
<1>2. SUFFICES AnsweredBut(stored'.messages, 0) /\ \A q \in Requests : Fine(req'[q])
  BY DEF Histories, AnsweredBut
<1>3. CASE Looked
  BY <1>1, <1>3, LookedFields DEF Sames
<1>4. CASE Emptied
  BY <1>1, <1>4, EmptiedFields
<1>5. ASSUME NEW r \in Requests, UNCHANGED stored, Fine(req'[r]),
             \A q \in Requests \ {r} : req'[q] = req[q]
      PROVE  AnsweredBut(stored'.messages, 0) /\ \A q \in Requests : Fine(req'[q])
  BY <1>1, <1>5
<1>6. ASSUME NEW r \in Requests,
             Opened(r) \/ Turns(r) \/ Apply(r) \/ Save(r) \/ Answer(r) \/ Crash(r)
      PROVE  AnsweredBut(stored'.messages, 0) /\ \A q \in Requests : Fine(req'[q])
  <2>1. CASE Opened(r)
    <3>1. PICK c, s, change, phase : \E yes \in BOOLEAN :
            Opens(r, c, s, change, yes, phase) /\ Opening(s, change, yes, phase)
      BY <2>1 DEF Opened
    <3>2. PICK approve \in BOOLEAN :
            Opens(r, c, s, change, approve, phase) /\ Opening(s, change, approve, phase)
      BY <3>1
    <3>3. req'[r].phase = phase /\ req'[r].session = s
      BY <3>2, OpenedFields DEF Shapes
    <3>4. PICK ns \in Seq({User, Text}) :
            s.messages = stored.messages \o ns /\ (phase = "llm" => ns # <<>>)
      BY <3>2 DEF Opening
    <3>5. stored.messages \in Seq(Messages)
      BY DEF Shapes, IsSession
    <3>6. /\ AnsweredBut(s.messages, 0)
          /\ phase = "llm" => s.messages # <<>> /\ s.messages[Len(s.messages)].role # "tool"
      BY <1>1, <3>4, <3>5, NotesAdded
    <3>7. phase # "tools"
      BY <3>2 DEF Opening
    <3>8. Fine(req'[r])
      BY <3>3, <3>6, <3>7
    <3>9. UNCHANGED stored /\ \A q \in Requests \ {r} : req'[q] = req[q]
      BY <3>2 DEF Opens
    <3>10. QED
      BY <1>5, <3>8, <3>9
  <2>2. CASE Turns(r)
    <3>1. Fine(req'[r])
      BY <2>2, TurnLeaves
    <3>2. UNCHANGED stored /\ \A q \in Requests \ {r} : req'[q] = req[q]
      BY <2>2, TurnLeaves DEF Sames
    <3>3. QED
      BY <1>5, <3>1, <3>2
  <2>3. CASE Apply(r)
    <3>1. Fine(req'[r])
      BY <2>3, AppliedFields
    <3>2. UNCHANGED stored /\ \A q \in Requests \ {r} : req'[q] = req[q]
      BY <2>3, AppliedFields DEF Sames
    <3>3. QED
      BY <1>5, <3>1, <3>2
  <2>4. CASE Save(r)
    <3>1. Fine(req'[r]) /\ AnsweredBut(stored'.messages, 0)
      BY <2>4, SavedFields
    <3>2. \A q \in Requests \ {r} : req'[q] = req[q]
      BY <2>4, SavedFields
    <3>3. QED
      BY <1>1, <3>1, <3>2
  <2>5. CASE Answer(r) \/ Crash(r)
    <3>1. Fine(req'[r])
      BY <2>5, EndsDoes, EndedFields
    <3>2. UNCHANGED stored /\ \A q \in Requests \ {r} : req'[q] = req[q]
      BY <2>5, EndsDoes, EndedFields
    <3>3. QED
      BY <1>5, <3>1, <3>2
  <2>6. QED
    BY <1>6, <2>1, <2>2, <2>3, <2>4, <2>5
<1>7. QED
  BY <1>3, <1>4, <1>6, NextDoes

-----------------------------------------------------------------------------
(* Each step keeps the names new: what a request proposes is in no other   *)
(* copy, is not gone, and is stored only by its own save, its last.        *)

LEMMA NamesKept ==
  ASSUME Shapes, Histories, NamesAreNew, Next
  PROVE  NamesAreNew'
<1>0. begun \in Nat /\ None \notin 1..begun /\ None \notin 1..begun'
  BY Numbers DEF Shapes
<1> DEFINE Active(q) == q.phase # "idle"
           AtWork(q) == q.phase \in {"llm", "tools", "apply", "save"}
           Owned(q) == /\ q.session.pending \in {None, q.name}
                       /\ q.name \notin gone /\ q.name # stored.pending
           OwnedNext(q) == /\ q.session.pending \in {None, q.name}
                           /\ q.name \notin gone' /\ q.name # stored'.pending
<1>1. /\ gone \subseteq 1..begun /\ stored.pending \in 1..begun \cup {None}
      /\ stored.pending \notin gone
      /\ \A q \in Requests : Active(req[q]) => req[q].name \in 1..begun
      /\ \A q, t \in Requests :
           Active(req[q]) /\ Active(req[t]) /\ req[q].name = req[t].name => q = t
      /\ \A q \in Requests : AtWork(req[q]) => Owned(req[q])
  BY DEF NamesAreNew, Working
<1>2. SUFFICES
      /\ gone' \subseteq 1..begun' /\ stored'.pending \in 1..begun' \cup {None}
      /\ stored'.pending \notin gone'
      /\ \A q \in Requests : Active(req'[q]) => req'[q].name \in 1..begun'
      /\ \A q, t \in Requests :
           Active(req'[q]) /\ Active(req'[t]) /\ req'[q].name = req'[t].name => q = t
      /\ \A q \in Requests : AtWork(req'[q]) => OwnedNext(req'[q])
  BY DEF NamesAreNew, Working
<1>3. CASE Looked
  <2>1. /\ UNCHANGED <<stored, begun, gone>>
        /\ \A q \in Requests : /\ req'[q].phase = req[q].phase /\ req'[q].name = req[q].name
                               /\ req'[q].session = req[q].session
    BY <1>3, LookedFields DEF Sames
  <2>2. QED
    BY <1>1, <2>1
<1>4. CASE Emptied
  <2>1. /\ stored'.pending = None /\ gone' = gone \cup ({stored.pending} \ {None})
        /\ UNCHANGED <<req, begun>>
    BY <1>4, EmptiedFields
  <2>2. gone' \subseteq 1..begun /\ None \notin gone'
    BY <1>0, <1>1, <2>1
  <2>3. ASSUME NEW q \in Requests, AtWork(req[q])
        PROVE  OwnedNext(req[q])
    <3>1. Active(req[q]) /\ req[q].name # None
      BY <1>0, <1>1, <2>3
    <3>2. QED
      BY <1>1, <2>1, <2>3, <3>1
  <2>4. QED
    BY <1>1, <2>1, <2>2, <2>3
<1>5. ASSUME NEW r \in Requests, UNCHANGED <<stored, begun, gone>>,
             \A q \in Requests \ {r} : req'[q] = req[q],
             \/ req'[r].phase = "idle"
             \/ /\ Active(req[r]) /\ req'[r].name = req[r].name
                /\ AtWork(req'[r]) => AtWork(req[r]) /\ req'[r].session.pending \in {None, req[r].name}
      PROVE  /\ \A q \in Requests : Active(req'[q]) => req'[q].name \in 1..begun'
             /\ \A q, t \in Requests :
                  Active(req'[q]) /\ Active(req'[t]) /\ req'[q].name = req'[t].name => q = t
             /\ \A q \in Requests : AtWork(req'[q]) => OwnedNext(req'[q])
  <2>1. ASSUME NEW q \in Requests
        PROVE  /\ Active(req'[q]) => Active(req[q]) /\ req'[q].name = req[q].name
               /\ AtWork(req'[q]) => OwnedNext(req'[q])
    BY <1>1, <1>5
  <2>2. QED
    BY <1>1, <1>5, <2>1
<1>6. ASSUME NEW r \in Requests,
             Opened(r) \/ Turns(r) \/ Apply(r) \/ Save(r) \/ Answer(r) \/ Crash(r)
      PROVE
      /\ gone' \subseteq 1..begun' /\ stored'.pending \in 1..begun' \cup {None}
      /\ stored'.pending \notin gone'
      /\ \A q \in Requests : Active(req'[q]) => req'[q].name \in 1..begun'
      /\ \A q, t \in Requests :
           Active(req'[q]) /\ Active(req'[t]) /\ req'[q].name = req'[t].name => q = t
      /\ \A q \in Requests : AtWork(req'[q]) => OwnedNext(req'[q])
  <2>1. CASE Opened(r)
    <3>1. PICK c, s, change, phase : \E yes \in BOOLEAN :
            Opens(r, c, s, change, yes, phase) /\ Opening(s, change, yes, phase)
      BY <2>1 DEF Opened
    <3>2. PICK approve \in BOOLEAN :
            Opens(r, c, s, change, approve, phase) /\ Opening(s, change, approve, phase)
      BY <3>1
    <3>3. req'[r].phase = phase /\ req'[r].session = s /\ req'[r].name = begun + 1
      BY <3>2, OpenedFields DEF Shapes
    <3>4. UNCHANGED <<stored, gone>> /\ begun' = begun + 1
          /\ \A q \in Requests \ {r} : req'[q] = req[q]
      BY <3>2 DEF Opens
    <3>5. phase \in {"llm", "apply", "save"} => s.pending = None
      BY <3>2 DEF Opening
    <3>6. phase # "tools"
      BY <3>2 DEF Opening
    <3>7. begun + 1 \notin 1..begun /\ 1..begun \subseteq 1..begun' /\ begun + 1 \in 1..begun'
          /\ begun + 1 # None
      BY <1>0, <3>4, Numbers
    <3>8. begun + 1 \notin gone /\ begun + 1 # stored.pending
      BY <1>1, <3>7
    <3> HIDE DEF Active, AtWork, Owned, OwnedNext
    <3>9. ASSUME NEW q \in Requests, q # r
          PROVE  /\ req'[q] = req[q] /\ (Active(req'[q]) => req'[q].name \in 1..begun)
                 /\ AtWork(req'[q]) => OwnedNext(req'[q])
      BY <1>1, <3>4, <3>9 DEF Owned, OwnedNext
    <3>10. AtWork(req'[r]) => OwnedNext(req'[r])
      BY <3>3, <3>4, <3>5, <3>6, <3>8 DEF AtWork, OwnedNext
    <3>11. \A q \in Requests : AtWork(req'[q]) => OwnedNext(req'[q])
      BY <3>9, <3>10
    <3>12. \A q \in Requests : Active(req'[q]) => req'[q].name \in 1..begun'
      BY <3>3, <3>7, <3>9
    <3>13. \A q, t \in Requests :
             Active(req'[q]) /\ Active(req'[t]) /\ req'[q].name = req'[t].name => q = t
      BY <1>1, <3>3, <3>7, <3>9
    <3>14. gone' \subseteq 1..begun' /\ stored'.pending \in 1..begun' \cup {None}
           /\ stored'.pending \notin gone'
      BY <1>1, <3>4, <3>7
    <3>15. QED
      BY <3>11, <3>12, <3>13, <3>14
  <2>2. CASE Turns(r)
    <3>1. UNCHANGED <<stored, begun, gone>> /\ \A q \in Requests \ {r} : req'[q] = req[q]
      BY <2>2, TurnLeaves DEF Sames
    <3>2. /\ Active(req[r]) /\ AtWork(req[r]) /\ req'[r].name = req[r].name
          /\ req'[r].session.pending \in {req[r].session.pending, req[r].name}
      BY <2>2, TurnLeaves
    <3>3. req'[r].session.pending \in {None, req[r].name}
      BY <1>1, <3>2
    <3>4. QED
      BY <1>1, <1>5, <3>1, <3>2, <3>3
  <2>3. CASE Apply(r)
    <3>1. UNCHANGED <<stored, begun, gone>> /\ \A q \in Requests \ {r} : req'[q] = req[q]
      BY <2>3, AppliedFields DEF Sames
    <3>2. /\ Active(req[r]) /\ AtWork(req[r]) /\ req'[r].name = req[r].name
          /\ req'[r].session.pending = req[r].session.pending
      BY <2>3, AppliedFields
    <3>3. req'[r].session.pending \in {None, req[r].name}
      BY <1>1, <3>2
    <3>4. QED
      BY <1>1, <1>5, <3>1, <3>2, <3>3
  <2>4. CASE Save(r)
    <3>1. /\ req[r].phase = "save" /\ begun' = begun
          /\ stored'.pending = req[r].session.pending
          /\ gone' = gone \cup ({stored.pending} \ {None, stored'.pending})
          /\ \A q \in Requests \ {r} : req'[q] = req[q]
          /\ req'[r].phase = "reply" /\ req'[r].name = req[r].name
      BY <2>4, SavedFields
    <3>2. /\ req[r].session.pending \in {None, req[r].name} /\ req[r].name \notin gone
          /\ req[r].name # stored.pending /\ req[r].name \in 1..begun
      BY <1>1, <3>1
    <3>3. gone' \subseteq 1..begun /\ stored'.pending \in 1..begun \cup {None}
          /\ stored'.pending \notin gone'
      BY <1>0, <1>1, <3>1, <3>2
    <3> HIDE DEF Active, AtWork, Owned, OwnedNext
    <3>4. ASSUME NEW q \in Requests, q # r, AtWork(req[q])
          PROVE  OwnedNext(req[q])
      <4>1. Active(req[q]) /\ Active(req[r]) /\ Owned(req[q])
        BY <1>1, <3>1, <3>4 DEF Active, AtWork
      <4>2. req[q].name # req[r].name /\ req[q].name \in 1..begun
        BY <1>1, <3>4, <4>1
      <4>3. req[q].name # stored'.pending /\ req[q].name \notin gone'
        BY <1>0, <3>1, <3>2, <4>1, <4>2 DEF Owned
      <4>4. QED
        BY <4>1, <4>3 DEF Owned, OwnedNext
    <3>5. ~AtWork(req'[r]) /\ Active(req[r])
      BY <3>1 DEF AtWork, Active
    <3>6. \A q \in Requests : AtWork(req'[q]) => OwnedNext(req'[q])
      BY <3>1, <3>4, <3>5
    <3>7. \A q \in Requests : Active(req'[q]) => Active(req[q]) /\ req'[q].name = req[q].name
      BY <3>1, <3>5
    <3>8. /\ \A q \in Requests : Active(req'[q]) => req'[q].name \in 1..begun'
          /\ \A q, t \in Requests :
               Active(req'[q]) /\ Active(req'[t]) /\ req'[q].name = req'[t].name => q = t
      BY <1>1, <3>1, <3>7
    <3>9. QED
      BY <3>1, <3>3, <3>6, <3>8
  <2>5. CASE Answer(r) \/ Crash(r)
    <3>1. UNCHANGED <<stored, begun, gone>> /\ req'[r].phase = "idle"
          /\ \A q \in Requests \ {r} : req'[q] = req[q]
      BY <2>5, EndsDoes, EndedFields
    <3>2. QED
      BY <1>1, <1>5, <3>1
  <2>6. QED
    BY <1>6, <2>1, <2>2, <2>3, <2>4, <2>5
<1>7. QED
  BY <1>3, <1>4, <1>6, NextDoes

-----------------------------------------------------------------------------
(* Each step keeps who resolves what.                                      *)

LEMMA ResolutionsKept ==
  ASSUME Shapes, Histories, NamesAreNew, Resolutions, Next
  PROVE  Resolutions'
<1> USE DEF Holds
<1>0. None \notin Changes
  BY Numbers
(* A step after which each request holds what it held.                     *)
<1>1. ASSUME UNCHANGED <<applied, refused, contested>>, Waited \ {None} \subseteq Waited',
             \/ stored'.pending = stored.pending
             \/ stored'.pending = None
             \/ stored'.pending \notin Waited,
             \A q \in Requests : \A c \in Changes : Holds(q, c)' <=> Holds(q, c),
             \A q \in Requests : \A c \in Changes :
               Holds(q, c) => ((req'[q].phase = "save" /\ req'[q].approve)
                               <=> (req[q].phase = "save" /\ req[q].approve))
      PROVE  Resolutions'
  <2>1. ASSUME NEW c \in Changes
        PROVE  OneResolves(c)'
    <3>1. OneResolves(c)
      BY DEF Resolutions
    <3>2. Unresolved(c)' <=> Unresolved(c)
      BY <1>1 DEF Unresolved
    <3>3. c \in Waited => c \in Waited'
      BY <1>0, <1>1
    <3>4. c = stored'.pending => c = stored.pending \/ c \notin Waited
      BY <1>0, <1>1
    <3>5. \A q \in Requests : Holds(q, c)' <=> Holds(q, c)
      BY <1>1
    <3>6. \A q \in Requests :
            Holds(q, c) => ((req'[q].phase = "save" /\ req'[q].approve)
                            <=> (req[q].phase = "save" /\ req[q].approve))
      BY <1>1
    <3>7. applied'[c] = applied[c] /\ (c \in refused' <=> c \in refused)
          /\ (c \in contested' <=> c \in contested)
      BY <1>1
    <3> HIDE DEF Holds, Unresolved, Waited
    <3>8. QED
      BY <3>1, <3>2, <3>3, <3>4, <3>5, <3>6, <3>7 DEF OneResolves
  <2>2. QED
    BY <2>1 DEF Resolutions
<1>2. CASE Looked
  <2>1. UNCHANGED Sames /\ UNCHANGED applied
        /\ \A q \in Requests : /\ req'[q].phase = req[q].phase /\ req'[q].change = req[q].change
                               /\ req'[q].approve = req[q].approve
    BY <1>2, LookedFields
  <2>2. Waited' = Waited /\ stored'.pending = stored.pending
    BY <2>1 DEF Waited, Sames
  <2>3. QED
    BY <1>1, <2>1, <2>2 DEF Sames
<1>3. CASE Emptied
  <2>1. /\ stored'.pending = None /\ gone' = gone \cup ({stored.pending} \ {None})
        /\ UNCHANGED <<req, applied, refused, contested>>
    BY <1>3, EmptiedFields
  <2>2. Waited \ {None} \subseteq Waited'
    BY <2>1 DEF Waited
  <2>3. QED
    BY <1>1, <2>1, <2>2
<1>4. ASSUME NEW r \in Requests, Opened(r)
      PROVE  Resolutions'
  <2>1. PICK k, s, change, phase : \E yes \in BOOLEAN :
          Opens(r, k, s, change, yes, phase) /\ Opening(s, change, yes, phase)
    BY <1>4 DEF Opened
  <2>2. PICK approve \in BOOLEAN :
          Opens(r, k, s, change, approve, phase) /\ Opening(s, change, approve, phase)
    BY <2>1
  <2>3. req'[r].phase = phase /\ req'[r].change = change /\ req'[r].approve = approve
        /\ req[r].phase = "idle"
    <3>1. begun \in 0..MaxBegun
      BY DEF Shapes
    <3>2. req'[r].phase = phase /\ req'[r].change = change /\ req'[r].approve = approve
      BY <2>2, <3>1, OpenedFields
    <3>3. QED
      BY <2>2, <3>2 DEF Opens
  <2>4. /\ UNCHANGED <<stored, applied, refused, gone>>
        /\ \A q \in Requests \ {r} : req'[q] = req[q]
        /\ contested' = IF \E q \in Requests : Holds(q, change)
                        THEN contested \cup {change} ELSE contested
    BY <2>2 DEF Opens
  <2>5. /\ change \in Changes \cup {None}
        /\ \/ phase = "reply" /\ change = None
           \/ /\ phase \in {"llm", "apply", "save"} /\ change = stored.pending
              /\ (phase = "apply" <=> approve)
    BY <2>2 DEF Opening
  <2>6. Waited' = Waited /\ stored'.pending = stored.pending
    BY <2>4 DEF Waited
  <2>7. \A q \in Requests \ {r} : \A c : Holds(q, c)' <=> Holds(q, c)
    BY <2>4
  <2>8. \A c : ~Holds(r, c)
    BY <2>3
  <2>9. ASSUME NEW c \in Changes
        PROVE  OneResolves(c)'
    <3>1. OneResolves(c)
      BY DEF Resolutions
    <3>2. (Unresolved(c)' <=> Unresolved(c)) /\ applied'[c] = applied[c] /\ refused' = refused
      BY <2>4 DEF Unresolved
    <3>3. CASE c # change
      <4>1. (c \in contested' <=> c \in contested) /\ ~Holds(r, c)'
        BY <2>3, <2>4, <3>3
      <4> HIDE DEF Holds, Unresolved, Waited
      <4>2. ASSUME NEW q \in Requests
            PROVE  /\ Holds(q, c)' <=> Holds(q, c)
                   /\ Holds(q, c) => req'[q] = req[q]
        BY <2>4, <2>7, <2>8, <4>1
      <4>3. QED
        BY <2>6, <3>1, <3>2, <4>1, <4>2 DEF OneResolves
    <3>4. CASE c = change
      <4>1. c = stored.pending /\ (phase = "apply" <=> approve) /\ c \in Waited /\ c # None
        BY <1>0, <2>5, <3>4 DEF Waited
      <4>2. Holds(r, c)' /\ ~(req'[r].phase = "save" /\ req'[r].approve)
        BY <2>3, <2>5, <3>4, <4>1
      <4>3. CASE c \in contested'
        <5> HIDE DEF Holds, Unresolved
        <5>1. QED
          BY <2>6, <3>1, <3>2, <4>1, <4>3 DEF OneResolves
      <4>4. CASE c \notin contested'
        <5>1. c \notin contested /\ \A q \in Requests : ~Holds(q, c)
          BY <2>4, <3>4, <4>4
        <5> HIDE DEF Holds, Unresolved, Waited
        <5>2. Unresolved(c)
          BY <3>1, <4>1, <5>1 DEF OneResolves
        <5>3. \A q \in Requests : Holds(q, c)' => q = r
          BY <2>7, <5>1
        <5>4. applied'[c] <= 1 /\ (applied'[c] > 0 => c \notin refused')
          BY <3>1, <3>2, <5>1 DEF OneResolves
        <5>5. QED
          BY <2>6, <3>2, <4>1, <4>2, <4>4, <5>2, <5>3, <5>4 DEF OneResolves
      <4>5. QED
        BY <4>3, <4>4
    <3>5. QED
      BY <3>3, <3>4
  <2>10. QED
    BY <2>9 DEF Resolutions
<1>5. ASSUME NEW r \in Requests, Turns(r)
      PROVE  Resolutions'
  <2>1. /\ UNCHANGED Sames /\ UNCHANGED applied /\ req[r].phase \in {"llm", "tools"}
        /\ \A q \in Requests \ {r} : req'[q] = req[q]
        /\ req'[r].phase \in {"llm", "tools", "save"} /\ req'[r].change = req[r].change
        /\ ~req'[r].approve
    BY <1>5, TurnLeaves
  <2>2. Waited' = Waited /\ stored'.pending = stored.pending
        /\ UNCHANGED <<applied, refused, contested>>
    BY <2>1 DEF Waited, Sames
  <2>3. ASSUME NEW q \in Requests, NEW c \in Changes
        PROVE  /\ Holds(q, c)' <=> Holds(q, c)
               /\ (req'[q].phase = "save" /\ req'[q].approve)
                    <=> (req[q].phase = "save" /\ req[q].approve)
    BY <2>1
  <2> HIDE DEF Holds, Waited
  <2>4. QED
    BY <1>1, <2>2, <2>3
<1>6. ASSUME NEW r \in Requests, Apply(r)
      PROVE  Resolutions'
  <2> DEFINE d == req[r].change
  <2>1. /\ UNCHANGED Sames /\ req[r].phase = "apply" /\ req[r].approve /\ d \in Changes
        /\ CarryOut(d)
        /\ \A q \in Requests \ {r} : req'[q] = req[q]
        /\ req'[r].phase = "save" /\ req'[r].change = d /\ req'[r].approve
    BY <1>6, AppliedFields
  <2>2. /\ Waited' = Waited /\ stored'.pending = stored.pending
        /\ UNCHANGED <<refused, contested>>
    BY <2>1 DEF Waited, Sames
  <2>3. ASSUME NEW q \in Requests, NEW c \in Changes
        PROVE  /\ Holds(q, c)' <=> Holds(q, c)
               /\ Holds(q, c) /\ c # d => req'[q] = req[q]
    BY <2>1
  <2>4. Holds(r, d) /\ ~(req[r].phase = "save" /\ req[r].approve)
        /\ req'[r].phase = "save" /\ req'[r].approve
    BY <1>0, <2>1
  <2>5. applied \in [Changes -> Nat] /\ d \in Changes
        /\ (applied' = [applied EXCEPT ![d] = @ + 1] \/ applied' = applied)
    BY <2>1 DEF Shapes, CarryOut
  <2> HIDE DEF Holds, Waited, d
  <2>6. applied[d] \in Nat /\ applied'[d] \in {applied[d], applied[d] + 1}
        /\ \A c \in Changes \ {d} : applied'[c] = applied[c]
    BY <2>5
  <2>7. ASSUME NEW c \in Changes
        PROVE  OneResolves(c)'
    <3>1. OneResolves(c)
      BY DEF Resolutions
    <3>2. CASE c # d
      <4>1. (Unresolved(c)' <=> Unresolved(c)) /\ applied'[c] = applied[c]
        BY <2>2, <2>6, <3>2 DEF Unresolved
      <4> HIDE DEF Unresolved
      <4>2. \A q \in Requests : (Holds(q, c)' <=> Holds(q, c)) /\ (Holds(q, c) => req'[q] = req[q])
        BY <2>3, <3>2
      <4>3. QED
        BY <2>2, <3>1, <4>1, <4>2 DEF OneResolves
    <3>3. CASE c = d
      <4>1. c \in Waited /\ \A q \in Requests : Holds(q, c)' <=> Holds(q, c)
        BY <2>3, <2>4, <3>1, <3>3 DEF OneResolves
      <4>2. CASE c \in contested
        <5> HIDE DEF Unresolved
        <5>1. QED
          BY <2>2, <4>1, <4>2 DEF OneResolves
      <4>3. CASE c \notin contested
        <5>1. Unresolved(c) /\ \A q \in Requests : Holds(q, c) => q = r
          BY <2>4, <3>1, <3>3, <4>3 DEF OneResolves
        <5>2. applied'[c] <= 1 /\ c \notin refused'
          BY <2>2, <2>6, <3>3, <5>1 DEF Unresolved
        <5>3. Holds(r, c)'
          BY <2>4, <3>3, <4>1
        <5> HIDE DEF Unresolved
        <5>4. QED
          BY <2>2, <2>4, <4>1, <4>3, <5>1, <5>2, <5>3 DEF OneResolves
      <4>4. QED
        BY <4>2, <4>3
    <3>4. QED
      BY <3>2, <3>3
  <2>8. QED
    BY <2>7 DEF Resolutions
<1>7. ASSUME NEW r \in Requests, Save(r)
      PROVE  Resolutions'
  <2> DEFINE d == req[r].change
  <2>1. /\ req[r].phase = "save" /\ UNCHANGED <<applied, contested>>
        /\ refused' = IF req[r].approve THEN refused ELSE refused \cup ({d} \ {None})
        /\ stored'.pending = req[r].session.pending
        /\ gone' = gone \cup ({stored.pending} \ {None, stored'.pending})
        /\ \A q \in Requests \ {r} : req'[q] = req[q]
        /\ req'[r].phase = "reply"
    BY <1>7, SavedFields
  <2>2. /\ req[r].session.pending \in {None, req[r].name}
        /\ req[r].name \notin Waited
    BY <2>1 DEF NamesAreNew, Working, Waited
  <2>3. Waited \ {None} \subseteq Waited' /\ (stored'.pending = None \/ stored'.pending \notin Waited)
    BY <2>1, <2>2 DEF Waited
  <2>4. ASSUME NEW q \in Requests, NEW c \in Changes
        PROVE  /\ Holds(q, c)' <=> (Holds(q, c) /\ q # r)
               /\ Holds(q, c)' => req'[q] = req[q]
               /\ Holds(r, c) <=> c = d
    BY <1>0, <2>1
  <2> HIDE DEF Holds, Waited, d
  <2>5. ASSUME NEW c \in Changes
        PROVE  OneResolves(c)'
    <3>1. OneResolves(c) /\ c # None
      BY <1>0 DEF Resolutions
    <3>2. applied'[c] = applied[c] /\ contested' = contested
          /\ (c # d \/ req[r].approve => (c \in refused' <=> c \in refused))
      BY <2>1
    <3>3. c \in Waited => c \in Waited' /\ c # stored'.pending
      BY <2>3, <3>1
    <3>4. CASE c # d
      <4>1. Unresolved(c)' <=> Unresolved(c)
        BY <3>2, <3>4 DEF Unresolved
      <4> HIDE DEF Unresolved
      <4>2. \A q \in Requests : (Holds(q, c)' <=> Holds(q, c)) /\ (Holds(q, c) => req'[q] = req[q])
        BY <2>4, <3>4
      <4>3. QED
        BY <3>1, <3>2, <3>3, <3>4, <4>1, <4>2 DEF OneResolves
    <3>5. CASE c = d
      <4>1. Holds(r, c) /\ c \in Waited /\ c \in Waited' /\ c # stored'.pending
        BY <2>4, <3>1, <3>3, <3>5 DEF OneResolves
      <4>2. CASE c \in contested
        <5> HIDE DEF Unresolved
        <5>1. QED
          BY <3>2, <4>1, <4>2 DEF OneResolves
      <4>3. CASE c \notin contested
        <5>1. \A q \in Requests : ~Holds(q, c)'
          BY <2>4, <3>1, <4>1, <4>3 DEF OneResolves
        <5>2. applied'[c] <= 1 /\ (applied'[c] > 0 => c \notin refused')
          <6>1. CASE req[r].approve
            BY <2>1, <3>1, <3>2, <4>1, <4>3, <6>1 DEF OneResolves
          <6>2. CASE ~req[r].approve
            <7>1. applied[c] = 0
              BY <2>1, <3>1, <4>1, <4>3, <6>2 DEF OneResolves, Unresolved
            <7>2. QED
              BY <3>2, <7>1
          <6>3. QED
            BY <6>1, <6>2
        <5> HIDE DEF Unresolved
        <5>3. QED
          BY <3>2, <4>1, <4>3, <5>1, <5>2 DEF OneResolves
      <4>4. QED
        BY <4>2, <4>3
    <3>6. QED
      BY <3>4, <3>5
  <2>6. QED
    BY <2>5 DEF Resolutions
<1>8. ASSUME NEW r \in Requests, Answer(r) \/ Crash(r)
      PROVE  Resolutions'
  <2> DEFINE d == req[r].change
  <2>1. /\ UNCHANGED <<stored, applied, refused, gone>>
        /\ \/ req[r].phase = "reply" /\ UNCHANGED contested
           \/ contested' = IF req[r].phase = "save" /\ req[r].approve
                           THEN contested \cup {d} ELSE contested
        /\ req'[r].phase = "idle"
        /\ \A q \in Requests \ {r} : req'[q] = req[q]
    BY <1>8, EndsDoes, EndedFields
  <2>2. Waited' = Waited /\ stored'.pending = stored.pending
    BY <2>1 DEF Waited
  <2>3. ASSUME NEW q \in Requests, NEW c \in Changes
        PROVE  /\ Holds(q, c)' <=> (Holds(q, c) /\ q # r)
               /\ Holds(q, c)' => req'[q] = req[q]
               /\ Holds(r, c) => c = d /\ req[r].phase # "reply"
    BY <2>1
  <2> HIDE DEF Holds, Waited, d
  <2>4. ASSUME NEW c \in Changes
        PROVE  OneResolves(c)'
    <3>1. OneResolves(c)
      BY DEF Resolutions
    <3>2. (Unresolved(c)' <=> Unresolved(c)) /\ applied'[c] = applied[c] /\ refused' = refused
          /\ (c \in contested => c \in contested')
      BY <2>1 DEF Unresolved
    <3>3. CASE ~Holds(r, c)
      <4> HIDE DEF Unresolved
      <4>1. \A q \in Requests : (Holds(q, c)' <=> Holds(q, c)) /\ (Holds(q, c) => req'[q] = req[q])
        BY <2>3, <3>3
      <4>2. QED
        BY <2>2, <3>1, <3>2, <4>1 DEF OneResolves
    <3>4. CASE Holds(r, c) /\ c \in contested'
      <4> HIDE DEF Unresolved
      <4>1. \A q \in Requests : Holds(q, c)' => Holds(q, c)
        BY <2>3
      <4>2. QED
        BY <2>2, <3>1, <3>2, <3>4, <4>1 DEF OneResolves
    <3>5. CASE Holds(r, c) /\ c \notin contested'
      <4>1. c \notin contested /\ ~(req[r].phase = "save" /\ req[r].approve)
        BY <2>1, <2>3, <3>5
      <4>2. Unresolved(c) /\ \A q \in Requests : ~Holds(q, c)'
        BY <2>3, <3>1, <3>5, <4>1 DEF OneResolves
      <4>3. c \in Waited /\ applied[c] <= 1 /\ (applied[c] > 0 => c \notin refused)
        BY <3>1, <3>5, <4>1 DEF OneResolves
      <4> HIDE DEF Unresolved
      <4>4. QED
        BY <2>2, <3>2, <3>5, <4>2, <4>3 DEF OneResolves
    <3>6. QED
      BY <3>3, <3>4, <3>5
  <2>5. QED
    BY <2>4 DEF Resolutions
<1>9. QED
  BY <1>2, <1>3, <1>4, <1>5, <1>6, <1>7, <1>8, NextDoes

-----------------------------------------------------------------------------
LEMMA InitIInv ==
  ASSUME Init
  PROVE  IInv
<1>1. \A r \in Requests : req[r] = Idle /\ IsRequest(req[r]) /\ InOrder(req[r]) /\ req[r].phase = "idle"
  BY IdleFields DEF Init
<1>2. stored = Fresh /\ begun = 0 /\ gone = {} /\ refused = {} /\ contested = {}
      /\ applied = [c \in Changes |-> 0] /\ req = [r \in Requests |-> Idle]
  BY DEF Init
<1>3. Shapes
  BY <1>1, <1>2, FreshSession, Numbers DEF Shapes
<1>4. NamesAreNew
  BY <1>1, <1>2, FreshSession DEF NamesAreNew, Working
<1>5. ASSUME NEW c \in Changes
      PROVE  OneResolves(c)
  <2>1. applied[c] = 0 /\ c \notin refused /\ \A r \in Requests : ~Holds(r, c)
    BY <1>1, <1>2 DEF Holds
  <2>2. QED
    BY <2>1 DEF OneResolves, Unresolved
<1>6. Histories
  BY <1>1, <1>2, FreshSession DEF Histories
<1>7. QED
  BY <1>3, <1>4, <1>5, <1>6 DEF IInv, Resolutions

LEMMA NextIInv ==
  ASSUME IInv, [Next]_vars
  PROVE  IInv'
<1>1. CASE Next
  BY <1>1, ShapesKept, NamesKept, ResolutionsKept, HistoriesKept DEF IInv
<1>2. CASE UNCHANGED vars
  BY <1>2 DEF vars, IInv, Shapes, NamesAreNew, Working, Resolutions, OneResolves, Unresolved,
              Waited, Holds, Histories
<1>3. QED
  BY <1>1, <1>2

LEMMA IInvAlways == Spec => []IInv
BY InitIInv, NextIInv, PTL DEF Spec

(* A change that has left the stored session never waits in it again: the  *)
(* saves of requests that overwrite each other (AgentSessionStore.save)    *)
(* bring back no change, since a request stores at most the one it has     *)
(* proposed itself.                                                        *)
THEOREM PendingsNeverReturn == Spec => []PendingNeverReturns
<1>1. IInv => PendingNeverReturns
  BY DEF IInv, NamesAreNew, PendingNeverReturns
<1>2. QED
  BY <1>1, IInvAlways, PTL

(* A change is carried out once and never after it was reported as not     *)
(* applied, unless two requests have held it at once or the process died   *)
(* after carrying it out (AgentService._resolve).                          *)
THEOREM ChangesResolvedOnce == Spec => []ResolvedOnce
<1>1. ASSUME IInv
      PROVE  ResolvedOnce
  <2>1. ASSUME NEW c \in Changes, applied[c] > 1 \/ (applied[c] > 0 /\ c \in refused)
        PROVE  c \in contested
    <3>1. OneResolves(c) /\ applied[c] \in Nat
      BY <1>1 DEF IInv, Resolutions, Shapes
    <3>2. c \notin contested => applied[c] <= 1 /\ (applied[c] > 0 => c \notin refused)
      BY <3>1 DEF OneResolves
    <3>3. QED
      BY <2>1, <3>1, <3>2
  <2>2. QED
    BY <2>1 DEF ResolvedOnce
<1>2. QED
  BY <1>1, IInvAlways, PTL

(* Every tool call of a stored history, and of one that is sent to the     *)
(* model, has its answer right after it, and no answer is without its      *)
(* call: through the tools of a turn, its failures, and the cut of         *)
(* trim_history.                                                           *)
THEOREM HistoriesAreAnswered == Spec => []HistoryAnswered
<1>1. ASSUME IInv
      PROVE  HistoryAnswered
  <2>1. stored.messages \in Seq(Messages) /\ AnsweredBut(stored.messages, 0)
    BY <1>1 DEF IInv, Shapes, IsSession, Histories
  <2>2. ASSUME NEW r \in Requests, req[r].phase = "llm"
        PROVE  req[r].session.messages \in Seq(Messages) /\ AnsweredBut(req[r].session.messages, 0)
    BY <1>1, <2>2 DEF IInv, Shapes, IsRequest, IsSession, Histories
  <2>3. QED
    BY <2>1, <2>2, AnsweredWhole DEF HistoryAnswered
<1>2. QED
  BY <1>1, IInvAlways, PTL

-----------------------------------------------------------------------------
(* Lists by their places.                                                  *)

(* Places count from 1 to the number of them, in their order, and each     *)
(* number is taken.                                                        *)
LEMMA Places ==
  ASSUME NEW I \in SUBSET Nat, IsFiniteSet(I)
  PROVE  /\ Cardinality(I) \in Nat
         /\ \A i \in I : Place(I, i) \in 1..Cardinality(I)
         /\ \A i, j \in I : i < j => Place(I, i) < Place(I, j)
         /\ \A n \in 1..Cardinality(I) : \E i \in I : Place(I, i) = n
<1> DEFINE Upto(i) == {j \in I : j <= i}
<1>1. Cardinality(I) \in Nat
  BY FS_CardinalityType
<1>2. ASSUME NEW i \in I
      PROVE  /\ IsFiniteSet(Upto(i)) /\ Cardinality(Upto(i)) \in 1..Cardinality(I)
  <2>1. IsFiniteSet(Upto(i)) /\ Cardinality(Upto(i)) <= Cardinality(I)
    <3>1. Upto(i) \in SUBSET I
      OBVIOUS
    <3>2. QED
      BY <3>1, FS_Subset
  <2>2. i \in Upto(i)
    OBVIOUS
  <2>3. Cardinality(Upto(i)) \in Nat /\ Cardinality(Upto(i)) # 0
    <3> HIDE DEF Upto
    <3>1. QED
      BY <2>1, <2>2, FS_CardinalityType, FS_EmptySet
  <2>4. QED
    BY <1>1, <2>1, <2>3
<1>3. ASSUME NEW i \in I, NEW j \in I, i < j
      PROVE  Cardinality(Upto(i)) < Cardinality(Upto(j))
  <2> i \in Nat /\ j \in Nat
    OBVIOUS
  <2>1. Upto(i) \in SUBSET Upto(j) /\ j \in Upto(j) /\ j \notin Upto(i)
    <3>1. \A k \in Upto(i) : k \in I /\ k \in Nat /\ k <= i
      OBVIOUS
    <3>2. \A k \in Upto(i) : k \in Upto(j)
      BY <1>3, <3>1
    <3>3. j \in Upto(j) /\ ~(j <= i)
      BY <1>3
    <3>4. QED
      BY <3>2, <3>3
  <2>2. IsFiniteSet(Upto(j))
    BY <1>2
  <2> HIDE DEF Upto
  <2>3. QED
    BY <2>1, <2>2, FS_Subset, FS_CardinalityType
<1>4. ASSUME NEW n \in 1..Cardinality(I), \A i \in I : Place(I, i) # n
      PROVE  FALSE
  <2> DEFINE N == Cardinality(I)
             f == [i \in I |-> Place(I, i)]
             T == (1..N) \ {n}
  <2>1. f \in [I -> T]
    BY <1>2, <1>4 DEF Place
  <2>2. IsFiniteSet(1..N) /\ Cardinality(1..N) = N
    BY <1>1, FS_Interval
  <2>3. IsFiniteSet(T) /\ Cardinality(T) = N - 1
    <3>1. n \in 1..N
      OBVIOUS
    <3>2. QED
      BY <2>2, <3>1, FS_RemoveElement
  <2>4. \A i, j \in I : i # j => f[i] # f[j]
    <3> SUFFICES ASSUME NEW i \in I, NEW j \in I, i # j
                 PROVE  f[i] # f[j]
      OBVIOUS
    <3>1. i < j \/ j < i
      OBVIOUS
    <3>2. QED
      BY <3>1, <1>2, <1>3 DEF Place
  <2>5. N - 1 < N
    BY <1>1
  <2> HIDE DEF T, f
  <2>6. QED
    BY <2>1, <2>3, <2>4, <2>5, FS_PigeonHole
<1>5. QED
  BY <1>1, <1>2, <1>3, <1>4 DEF Place

(* A list's part at the places I: it has their items, in their order.      *)
LEMMA PickProperties ==
  ASSUME NEW S, NEW list \in Seq(S), NEW I \in SUBSET DOMAIN list
  PROVE  /\ IsFiniteSet(I) /\ Cardinality(I) \in Nat
         /\ Pick(list, I) \in Seq(S)
         /\ Len(Pick(list, I)) = Cardinality(I)
         /\ \A n \in 1..Cardinality(I) :
              \E i \in I : Place(I, i) = n /\ Pick(list, I)[n] = list[i]
         /\ \A i \in I : /\ Place(I, i) \in 1..Cardinality(I)
                        /\ Pick(list, I)[Place(I, i)] = list[i]
<1>1. I \in SUBSET Nat /\ IsFiniteSet(I)
  <2>1. DOMAIN list = 1..Len(list) /\ Len(list) \in Nat
    OBVIOUS
  <2>2. IsFiniteSet(1..Len(list))
    BY <2>1, FS_Interval
  <2>3. QED
    BY <2>1, <2>2, FS_Subset
<1>2. /\ Cardinality(I) \in Nat
      /\ \A i \in I : Place(I, i) \in 1..Cardinality(I)
      /\ \A i, j \in I : i < j => Place(I, i) < Place(I, j)
      /\ \A n \in 1..Cardinality(I) : \E i \in I : Place(I, i) = n
  BY <1>1, Places
<1> DEFINE at(n) == CHOOSE i \in I : Place(I, i) = n
<1>3. \A i \in I : at(Place(I, i)) = i
  <2> SUFFICES ASSUME NEW i \in I PROVE at(Place(I, i)) = i
    OBVIOUS
  <2>1. at(Place(I, i)) \in I /\ Place(I, at(Place(I, i))) = Place(I, i)
    OBVIOUS
  <2> HIDE DEF at
  <2>2. \A j \in I : Place(I, j) = Place(I, i) => j = i
    BY <1>1, <1>2
  <2>3. QED
    BY <2>1, <2>2
<1>4. \A n \in 1..Cardinality(I) : at(n) \in I /\ Place(I, at(n)) = n
  BY <1>2
<1>5. Pick(list, I) = [n \in 1..Cardinality(I) |-> list[at(n)]]
  BY DEF Pick
<1> HIDE DEF at
<1>6. \A i \in I : list[i] \in S
  OBVIOUS
<1>7. QED
  BY <1>1, <1>2, <1>3, <1>4, <1>5, <1>6

-----------------------------------------------------------------------------
(* The events shown.                                                       *)

ShownFits(es) ==
  /\ es \in Seq(Events) /\ Len(es) <= MaxShown
  /\ \A i, j \in DOMAIN es : es[i] = es[j] => i = j

(* What is left of a list without repetitions has none either.             *)
LEMMA WithoutSome ==
  ASSUME NEW shown \in Seq(Events), \A i, j \in DOMAIN shown : shown[i] = shown[j] => i = j, NEW T
  PROVE  LET rest == Without(shown, T)
         IN /\ rest \in Seq(Events)
            /\ \A i, j \in DOMAIN rest : rest[i] = rest[j] => i = j
            /\ \A i \in DOMAIN rest : rest[i] \notin T
<1> DEFINE I == {i \in DOMAIN shown : shown[i] \notin T}
           rest == Without(shown, T)
<1>1. I \in SUBSET DOMAIN shown /\ \A i \in I : shown[i] \notin T
  OBVIOUS
<1>2. rest = Pick(shown, I)
  BY DEF Without
<1> HIDE DEF I, rest
<1>3. /\ rest \in Seq(Events) /\ Len(rest) = Cardinality(I)
      /\ \A n \in 1..Cardinality(I) : \E i \in I : Place(I, i) = n /\ rest[n] = shown[i]
  BY <1>1, <1>2, PickProperties
<1>4. DOMAIN rest = 1..Cardinality(I)
  BY <1>3
<1>5. ASSUME NEW m \in DOMAIN rest, NEW n \in DOMAIN rest, rest[m] = rest[n]
      PROVE  m = n
  <2>1. PICK i \in I : Place(I, i) = m /\ rest[m] = shown[i]
    BY <1>3, <1>4
  <2>2. PICK j \in I : Place(I, j) = n /\ rest[n] = shown[j]
    BY <1>3, <1>4
  <2>3. i = j
    BY <1>1, <1>5, <2>1, <2>2
  <2>4. QED
    BY <2>1, <2>2, <2>3
<1>6. \A n \in DOMAIN rest : rest[n] \notin T
  BY <1>1, <1>3, <1>4
<1>7. QED
  BY <1>3, <1>5, <1>6 DEF rest

LEMMA ShownRemembered ==
  ASSUME NEW shown, ShownFits(shown), NEW es \in Seq(Events),
         \A i, j \in DOMAIN es : es[i] = es[j] => i = j
  PROVE  ShownFits(RememberShown(shown, es))
<1> DEFINE rest == Without(shown, Range(es))
           all == rest \o es
           over == Len(all) - MaxShown
<1>1. /\ rest \in Seq(Events)
      /\ \A i, j \in DOMAIN rest : rest[i] = rest[j] => i = j
      /\ \A i \in DOMAIN rest : \A j \in DOMAIN es : rest[i] # es[j]
  <2>1. /\ rest \in Seq(Events)
        /\ \A i, j \in DOMAIN rest : rest[i] = rest[j] => i = j
        /\ \A i \in DOMAIN rest : rest[i] \notin Range(es)
    BY WithoutSome DEF ShownFits
  <2>2. \A j \in DOMAIN es : es[j] \in Range(es)
    BY DEF Range
  <2>3. QED
    BY <2>1, <2>2
<1> HIDE DEF rest
<1>2. /\ all \in Seq(Events) /\ Len(all) = Len(rest) + Len(es)
      /\ Len(rest) \in Nat /\ Len(es) \in Nat
      /\ \A i \in 1..Len(rest) : all[i] = rest[i] /\ i \in DOMAIN rest
      /\ \A i \in Len(rest) + 1..Len(all) : all[i] = es[i - Len(rest)] /\ i - Len(rest) \in DOMAIN es
  BY <1>1
<1>3. ASSUME NEW i \in 1..Len(all), NEW j \in 1..Len(all), all[i] = all[j]
      PROVE  i = j
  <2>1. i \in 1..Len(rest) \/ i \in Len(rest) + 1..Len(all)
    BY <1>2
  <2>2. j \in 1..Len(rest) \/ j \in Len(rest) + 1..Len(all)
    BY <1>2
  <2>3. CASE i \in 1..Len(rest) /\ j \in 1..Len(rest)
    BY <1>1, <1>2, <1>3, <2>3
  <2>4. CASE i \in 1..Len(rest) /\ j \in Len(rest) + 1..Len(all)
    BY <1>1, <1>2, <1>3, <2>4
  <2>5. CASE i \in Len(rest) + 1..Len(all) /\ j \in 1..Len(rest)
    BY <1>1, <1>2, <1>3, <2>5
  <2>6. CASE i \in Len(rest) + 1..Len(all) /\ j \in Len(rest) + 1..Len(all)
    <3>1. i - Len(rest) = j - Len(rest)
      BY <1>2, <1>3, <2>6
    <3>2. QED
      BY <1>2, <2>6, <3>1
  <2>7. QED
    BY <2>1, <2>2, <2>3, <2>4, <2>5, <2>6
<1>4. RememberShown(shown, es) = IF over > 0 THEN SubSeq(all, over + 1, Len(all)) ELSE all
  BY DEF RememberShown, rest
<1>5. MaxShown \in Nat \ {0} /\ over = Len(all) - MaxShown /\ Len(all) \in Nat
  BY <1>2, AgentAssumption
<1> HIDE DEF all, over
<1>6. CASE ~(over > 0)
  <2>1. DOMAIN all = 1..Len(all)
    BY <1>2
  <2>2. QED
    BY <1>2, <1>3, <1>4, <1>5, <1>6, <2>1 DEF ShownFits
<1>7. CASE over > 0
  <2> DEFINE last == SubSeq(all, over + 1, Len(all))
  <2>1. /\ last \in Seq(Events) /\ Len(last) = MaxShown
        /\ \A i \in 1..MaxShown : last[i] = all[over + i] /\ over + i \in 1..Len(all)
    BY <1>2, <1>5, <1>7
  <2> HIDE DEF last
  <2>2. DOMAIN last = 1..MaxShown
    BY <2>1
  <2>3. \A i, j \in DOMAIN last : last[i] = last[j] => i = j
    <3>1. ASSUME NEW i \in 1..MaxShown, NEW j \in 1..MaxShown, last[i] = last[j]
          PROVE  i = j
      <4>1. over + i = over + j
        BY <1>3, <2>1, <3>1
      <4>2. QED
        BY <1>5, <4>1
    <3>2. QED
      BY <2>2, <3>1
  <2>4. QED
    BY <1>4, <1>5, <1>7, <2>1, <2>3 DEF ShownFits, last
<1>8. QED
  BY <1>6, <1>7

-----------------------------------------------------------------------------
(* Types, and the bounds on what a session keeps.                          *)

RequestFits(q) ==
  /\ ShownFits(q.session.shown)
  /\ q.client \in Clients /\ q.waits \in BOOLEAN
  /\ q.steps <= MaxSteps /\ (q.phase = "llm" => q.steps < MaxSteps)

SessionsFit ==
  /\ ShownFits(stored.shown) /\ Len(stored.messages) <= HistoryLimit
  /\ \A r \in Requests : RequestFits(req[r])

ClientsFit ==
  /\ page \in [busy : BOOLEAN, button : Changes \cup {None}]
  /\ {chat, contested, offered} \subseteq SUBSET Changes

LEMMA FreshFits == ShownFits(Fresh.shown) /\ Len(Fresh.messages) <= HistoryLimit
BY AgentAssumption DEF Fresh, ShownFits

LEMMA IdleFits == RequestFits(Idle)
<1> DEFINE no == FALSE
           u == Idle
<1>1. u = Full("idle", "web", None, Fresh, None, no, 0, 0, no) /\ no \in BOOLEAN
  BY Zenon DEF Idle, Full
<1> HIDE DEF no, u
<1>2. u.phase = "idle" /\ u.client = "web" /\ u.session = Fresh /\ u.steps = 0 /\ u.waits = no
  BY <1>1 DEF Full
<1>3. 0 <= MaxSteps
  BY Numbers
<1>4. RequestFits(u)
  BY <1>1, <1>2, <1>3, FreshFits DEF RequestFits, Clients
<1>5. QED
  BY <1>4 DEF u

(* A request that goes on keeps its client.                                *)
LEMMA GoesOnFits ==
  ASSUME Shapes, SessionsFit, NEW r \in Requests, NEW p, NEW s, NEW k, NEW l,
         Becomes(r, p, s, k, l), ShownFits(s.shown), k <= MaxSteps, p = "llm" => k < MaxSteps
  PROVE  \A q \in Requests : RequestFits(req'[q])
<1> DEFINE u == req'[r]
           v == req[r]
<1>1. u = Request(v, p, s, k, l) /\ RequestFits(v)
  BY DEF Becomes, SessionsFit
<1> HIDE DEF u, v
<1>2. /\ u.phase = p /\ u.session = s /\ u.steps = k
      /\ u.client = v.client /\ u.waits = v.waits
  BY <1>1 DEF Request
<1>3. RequestFits(u)
  BY <1>1, <1>2 DEF RequestFits
<1>4. QED
  BY <1>3 DEF u, Becomes, SessionsFit

(* Every tool leaves a list of shown events that fits.                     *)
LEMMA ToolsFit ==
  ASSUME Shapes, SessionsFit, NEW r \in Requests, Tools(r)
  PROVE  \E s : IsSession(s) /\ Called(r, s) /\ ShownFits(s.shown)
<1> DEFINE old == req[r].session
<1>1. IsSession(old) /\ ShownFits(old.shown) /\ req[r].name \in Changes \cup {None}
  BY DEF Shapes, IsRequest, SessionsFit, RequestFits
<1>2. ASSUME NEW es \in Seq(Events), \A i, j \in DOMAIN es : es[i] = es[j] => i = j, Finds(r, es)
      PROVE  \E s : IsSession(s) /\ Called(r, s) /\ ShownFits(s.shown)
  <2> DEFINE shown == RememberShown(old.shown, es)
             s == [old EXCEPT !.shown = shown]
  <2>1. Called(r, s)
    BY <1>2 DEF Finds
  <2>2. ShownFits(shown)
    <3> HIDE DEF old
    <3>1. QED
      BY <1>1, <1>2, ShownRemembered
  <2> HIDE DEF shown
  <2>3. s = [messages |-> old.messages, shown |-> shown, pending |-> old.pending]
    BY <1>1 DEF IsSession
  <2>4. IsSession(s) /\ s.shown = shown
    BY <1>1, <2>3 DEF IsSession
  <2> HIDE DEF s
  <2>5. QED
    BY <2>1, <2>2, <2>4
<1>3. ASSUME NEW es \in Lists
      PROVE  es \in Seq(Events) /\ \A i, j \in DOMAIN es : es[i] = es[j] => i = j
  <2>1. PICK n \in 0..Cardinality(Events) : es \in [1..n -> Events]
    BY DEF Lists
  <2>2. n \in Nat
    OBVIOUS
  <2>3. QED
    BY <2>1, <2>2 DEF Lists
<1>4. CASE SearchEvents(r) \/ Recommend(r)
  BY <1>2, <1>3, <1>4 DEF SearchEvents, Recommend
<1>5. CASE LookUp(r)
  <2>1. PICK e \in Events : Finds(r, <<e>>)
    BY <1>5 DEF LookUp
  <2>2. <<e>> \in Seq(Events) /\ \A i, j \in DOMAIN <<e>> : <<e>>[i] = <<e>>[j] => i = j
    OBVIOUS
  <2>3. QED
    BY <1>2, <2>1, <2>2
<1>6. CASE OnlyAnswers(r) \/ RecordFeedback(r)
  BY <1>1, <1>6 DEF OnlyAnswers, RecordFeedback
<1>7. CASE ProposeChange(r)
  <2> DEFINE s == [old EXCEPT !.pending = req[r].name]
  <2>1. Called(r, s)
    BY <1>7 DEF ProposeChange
  <2>2. s = [messages |-> old.messages, shown |-> old.shown, pending |-> req[r].name]
    BY <1>1 DEF IsSession
  <2>3. IsSession(s) /\ s.shown = old.shown
    BY <1>1, <2>2 DEF IsSession
  <2> HIDE DEF s
  <2>4. QED
    BY <1>1, <2>1, <2>3
<1>8. QED
  BY <1>4, <1>5, <1>6, <1>7 DEF Tools

LEMMA TurnsFit ==
  ASSUME Shapes, SessionsFit, NEW r \in Requests, Turns(r)
  PROVE  SessionsFit'
<1> DEFINE old == req[r].session
<1>1. /\ IsSession(old) /\ ShownFits(old.shown) /\ req[r].steps \in Nat /\ req[r].steps <= MaxSteps
      /\ req[r].phase = "llm" => req[r].steps < MaxSteps
      /\ req[r].left \in 0..MaxCalls
  BY DEF Shapes, IsRequest, SessionsFit, RequestFits
<1>2. MaxSteps \in Nat /\ MaxCalls \in Nat
  BY Numbers
<1>3. ASSUME UNCHANGED Sames, \A q \in Requests : RequestFits(req'[q])
      PROVE  SessionsFit'
  BY <1>3 DEF SessionsFit, Sames
<1>4. CASE LlmAnswers(r)
  <2>1. PICK n \in 0..MaxCalls :
          Becomes(r, IF n = 0 THEN "save" ELSE "tools",
                  Heard(old, Said("assistant", n)), req[r].steps + 1, n)
    BY <1>4, LlmAnswersDoes
  <2>2. req[r].phase = "llm" /\ UNCHANGED Sames
    BY <1>4, LlmAnswersDoes
  <2> DEFINE m == Said("assistant", n)
             s == Heard(old, m)
             p == IF n = 0 THEN "save" ELSE "tools"
             k == req[r].steps + 1
  <2>3. m \in Messages
    BY KindsOfMessages
  <2> HIDE DEF m
  <2>4. s.shown = old.shown
    <3>1. IsSession(old)
      BY <1>1
    <3> HIDE DEF old
    <3>2. QED
      BY <2>3, <3>1, HeardProperties
  <2>5. k <= MaxSteps /\ p # "llm" /\ ShownFits(s.shown)
    BY <1>1, <1>2, <2>2, <2>4
  <2>6. Becomes(r, p, s, k, n)
    BY <2>1 DEF m
  <2> HIDE DEF s, p, k
  <2>7. \A q \in Requests : RequestFits(req'[q])
    BY <2>5, <2>6, GoesOnFits
  <2>8. QED
    BY <1>3, <2>2, <2>7
<1>5. CASE LlmFails(r)
  <2> DEFINE s == IF req[r].steps = 0 THEN [old EXCEPT !.messages = Front(old.messages)] ELSE old
  <2>1. UNCHANGED Sames /\ Becomes(r, "save", s, req[r].steps, req[r].left)
    BY <1>5, LlmFailsDoes
  <2>2. s.shown = old.shown
    <3>1. [old EXCEPT !.messages = Front(old.messages)].shown = old.shown
      BY <1>1 DEF IsSession
    <3>2. QED
      BY <3>1
  <2> HIDE DEF s
  <2>3. \A q \in Requests : RequestFits(req'[q])
    BY <1>1, <2>1, <2>2, GoesOnFits
  <2>4. QED
    BY <1>3, <2>1, <2>3
<1>6. CASE Tools(r)
  <2>1. PICK t : IsSession(t) /\ Called(r, t) /\ ShownFits(t.shown)
    BY <1>6, ToolsFit
  <2> DEFINE s == Heard(t, ToolResult)
             l == req[r].left - 1
  <2>2. UNCHANGED Sames
    BY <2>1, CalledDoes
  <2>3. PICK p \in Continuations(r, t) : Becomes(r, p, s, req[r].steps, l)
    BY <2>1, CalledDoes
  <2>4. s.shown = t.shown
    BY <2>1, KindsOfMessages, HeardProperties
  <2>5. p = "llm" => req[r].steps < MaxSteps
    BY <1>1, <1>2 DEF Continuations
  <2> HIDE DEF s, l
  <2>6. \A q \in Requests : RequestFits(req'[q])
    BY <1>1, <2>1, <2>3, <2>4, <2>5, GoesOnFits
  <2>7. QED
    BY <1>3, <2>2, <2>6
<1>7. QED
  BY <1>4, <1>5, <1>6 DEF Turns

(* A history that was cut is no longer than it may be.                     *)
LEMMA TrimmedFits ==
  ASSUME NEW ms \in Seq(Messages)
  PROVE  Len(TrimHistory(ms)) <= HistoryLimit
<1> DEFINE from == Len(ms) - HistoryLimit + 1
           starts == {i \in from..Len(ms) : ms[i].role = "user"}
           start == CHOOSE i \in starts : \A j \in starts : i <= j
<1>1. HistoryLimit \in Nat /\ Len(ms) \in Nat
  BY Numbers
<1>2. CASE Len(ms) <= HistoryLimit
  BY <1>2 DEF TrimHistory
<1>3. CASE ~(Len(ms) <= HistoryLimit) /\ starts = {}
  BY <1>1, <1>3 DEF TrimHistory
<1>4. CASE ~(Len(ms) <= HistoryLimit) /\ starts # {}
  <2>1. TrimHistory(ms) = SubSeq(ms, start, Len(ms))
    BY <1>4 DEF TrimHistory
  <2>2. starts \in SUBSET Nat /\ starts \subseteq from..Len(ms) /\ from \in Nat \ {0}
    BY <1>1, <1>4
  <2> HIDE DEF starts
  <2>3. \E i \in starts : \A j \in starts : i <= j
    BY <1>4, <2>2, LeastOf
  <2>4. start \in from..Len(ms)
    BY <2>2, <2>3
  <2> HIDE DEF start
  <2>5. Len(SubSeq(ms, start, Len(ms))) = Len(ms) - start + 1
    BY <1>1, <2>2, <2>4
  <2>6. QED
    BY <1>1, <2>1, <2>4, <2>5
<1>5. QED
  BY <1>2, <1>3, <1>4

LEMMA SavesFit ==
  ASSUME Shapes, SessionsFit, NEW r \in Requests, Apply(r) \/ Save(r)
  PROVE  SessionsFit'
<1> DEFINE old == req[r].session
<1>1. /\ IsSession(old) /\ old.messages \in Seq(Messages)
      /\ ShownFits(old.shown) /\ req[r].steps <= MaxSteps
  BY DEF Shapes, IsRequest, IsSession, SessionsFit, RequestFits
<1>2. CASE Apply(r)
  <2> DEFINE s == Heard(old, Text)
  <2>1. UNCHANGED Sames /\ Becomes(r, "save", s, req[r].steps, req[r].left)
    BY <1>2, ApplyDoes
  <2>2. s.shown = old.shown
    <3>1. IsSession(old) /\ Text \in Messages
      BY <1>1, KindsOfMessages
    <3> HIDE DEF old
    <3>2. QED
      BY <3>1, HeardProperties
  <2> HIDE DEF s
  <2>3. \A q \in Requests : RequestFits(req'[q])
    BY <1>1, <2>1, <2>2, GoesOnFits
  <2>4. QED
    BY <2>1, <2>3 DEF SessionsFit, Sames
<1>3. CASE Save(r)
  <2> DEFINE ms == TrimHistory(old.messages)
             s == [old EXCEPT !.messages = ms]
  <2>1. Stores(s) /\ Becomes(r, "reply", s, req[r].steps, req[r].left)
    BY <1>3, SaveDoes
  <2>2. Len(ms) <= HistoryLimit
    BY <1>1, TrimmedFits
  <2> HIDE DEF ms
  <2>3. s.shown = old.shown /\ s.messages = ms
    BY <1>1 DEF IsSession
  <2> HIDE DEF s
  <2>4. \A q \in Requests : RequestFits(req'[q])
    BY <1>1, <2>1, <2>3, GoesOnFits
  <2>5. QED
    BY <1>1, <2>1, <2>2, <2>3, <2>4 DEF SessionsFit, Stores
<1>4. QED
  BY <1>2, <1>3

LEMMA OpenedFits ==
  ASSUME SessionsFit, NEW r \in Requests, Opened(r)
  PROVE  SessionsFit'
<1>1. PICK c, s, change, phase : c \in Clients /\ \E yes \in BOOLEAN :
        Opens(r, c, s, change, yes, phase) /\ Opening(s, change, yes, phase)
  BY DEF Opened
<1>2. PICK approve \in BOOLEAN :
        Opens(r, c, s, change, approve, phase) /\ Opening(s, change, approve, phase)
  BY <1>1
<1> DEFINE u == req'[r]
           yes == TRUE
           n == begun + 1
<1>3. u = Full(phase, c, n, s, change, approve, 0, 0, yes) /\ yes \in BOOLEAN
  BY <1>2 DEF Opens
<1>4. s.shown = stored.shown
  BY <1>2 DEF Opening
<1> HIDE DEF u, yes, n
<1>5. u.client = c /\ u.session = s /\ u.steps = 0 /\ u.waits = yes
  BY <1>3 DEF Full
<1>6. 0 <= MaxSteps /\ 0 < MaxSteps
  BY Numbers
<1>7. RequestFits(u)
  BY <1>1, <1>3, <1>4, <1>5, <1>6 DEF RequestFits, SessionsFit
<1>8. QED
  BY <1>2, <1>7 DEF u, Opens, SessionsFit

LEMMA LooksFit ==
  ASSUME Shapes, SessionsFit, Looked
  PROVE  SessionsFit'
<1>1. UNCHANGED stored /\ \A q \in Requests :
        /\ req'[q].phase = req[q].phase /\ req'[q].session = req[q].session
        /\ req'[q].steps = req[q].steps
  BY LookedFields DEF Sames
<1>2. \A q \in Requests : req'[q] \in {req[q], [req[q] EXCEPT !.waits = FALSE]}
  <2>1. CASE OpenPage
    BY <2>1 DEF OpenPage
  <2>2. CASE \E r \in Requests : GiveUp(r)
    BY <2>2 DEF GiveUp, Shapes
  <2>3. QED
    BY <2>1, <2>2 DEF Looked
<1>3. ASSUME NEW q \in Requests
      PROVE  req'[q].client \in Clients /\ req'[q].waits \in BOOLEAN
  <2> DEFINE v == req[q]
             no == FALSE
             u == [v EXCEPT !.waits = no]
  <2>1. /\ v = Full(v.phase, v.client, v.name, v.session, v.change, v.approve, v.steps, v.left, v.waits)
        /\ v.client \in Clients /\ v.waits \in BOOLEAN /\ no \in BOOLEAN
    BY Zenon DEF Shapes, IsRequest, SessionsFit, RequestFits, Full
  <2>2. req'[q] \in {v, u}
    BY <1>2
  <2> HIDE DEF v, no
  <2>3. u = Full(v.phase, v.client, v.name, v.session, v.change, v.approve, v.steps, v.left, no)
    BY <2>1 DEF Full
  <2> HIDE DEF u
  <2>4. u.client = v.client /\ u.waits = no
    BY <2>3 DEF Full
  <2>5. QED
    BY <2>1, <2>2, <2>4
<1>4. QED
  BY <1>1, <1>3 DEF SessionsFit, RequestFits

LEMMA SessionsStayFit ==
  ASSUME Shapes, SessionsFit, Next
  PROVE  SessionsFit'
<1>1. CASE Looked
  BY <1>1, LooksFit
<1>2. CASE Emptied
  BY <1>2, FreshFits DEF Emptied, Stores, SessionsFit
<1>3. ASSUME NEW r \in Requests,
             Opened(r) \/ Turns(r) \/ Apply(r) \/ Save(r) \/ Answer(r) \/ Crash(r)
      PROVE  SessionsFit'
  <2>1. CASE Answer(r) \/ Crash(r)
    BY <2>1, EndsDoes, IdleFits DEF Ends, SessionsFit
  <2>2. QED
    BY <1>3, <2>1, OpenedFits, TurnsFit, SavesFit
<1>4. QED
  BY <1>1, <1>2, <1>3, NextDoes

(* What the clients show and have shown.                                   *)
LEMMA ClientsStayFit ==
  ASSUME Shapes, NamesAreNew, ClientsFit, Next
  PROVE  ClientsFit'
<1>1. /\ page \in [busy : BOOLEAN, button : Changes \cup {None}]
      /\ chat \subseteq Changes /\ contested \subseteq Changes /\ offered \subseteq Changes
  BY DEF ClientsFit
<1>2. /\ stored.pending \in Changes \cup {None} /\ 1..begun \subseteq Changes
      /\ \A r \in Requests : req[r].change \in Changes \cup {None}
  <2>1. 1..begun \subseteq Changes
    BY Numbers DEF Shapes, Changes
  <2>2. QED
    BY <2>1 DEF Shapes, IsSession, IsRequest
<1>3. ASSUME contested' \subseteq Changes, UNCHANGED offered,
             \/ UNCHANGED <<page, chat>>
             \/ UNCHANGED chat /\ page' = [busy |-> TRUE, button |-> None]
             \/ UNCHANGED page /\ chat' \subseteq chat
      PROVE  ClientsFit'
  <2>1. [busy |-> TRUE, button |-> None] \in [busy : BOOLEAN, button : Changes \cup {None}]
    BY Zenon
  <2>2. page' \in [busy : BOOLEAN, button : Changes \cup {None}] /\ chat' \subseteq Changes
    BY <1>1, <1>3, <2>1
  <2>3. QED
    BY <1>1, <1>3, <2>2 DEF ClientsFit
<1>4. ASSUME NEW r \in Requests, NEW c \in Clients,
             \/ Ask(r, c)
             \/ \E approve \in BOOLEAN :
                  AnswerInText(r, c, approve) \/ \E p \in Changes : Press(r, c, p, approve)
      PROVE  ClientsFit'
  <2>1. PICK s, change, yes, phase : Begin(r, c, s, change, yes, phase) /\ change \in Changes \cup {None}
    BY <1>2, <1>4 DEF Ask, AnswerInText, Press
  <2>2. contested' \subseteq Changes /\ UNCHANGED offered
    BY <1>1, <2>1 DEF Begin, Holds
  <2>3. \/ UNCHANGED <<page, chat>>
        \/ UNCHANGED chat /\ page' = [busy |-> TRUE, button |-> None]
        \/ UNCHANGED page /\ chat' \subseteq chat
    BY <1>4 DEF Ask, AnswerInText, Press, Sends, Pressed
  <2>4. QED
    BY <1>3, <2>2, <2>3
<1>5. ASSUME NEW r \in Requests, Turns(r) \/ Apply(r) \/ Save(r)
      PROVE  ClientsFit'
  <2>1. UNCHANGED <<clients, contested>>
    <3>1. CASE Tools(r)
      BY <3>1, ToolsCall DEF Called, Moves, verdicts
    <3>2. CASE LlmAnswers(r) \/ LlmFails(r)
      BY <3>2 DEF LlmAnswers, LlmFails, Moves, verdicts
    <3>3. CASE Apply(r) \/ Save(r)
      BY <3>3 DEF Apply, Save
    <3>4. QED
      BY <1>5, <3>1, <3>2, <3>3 DEF Turns
  <2>2. QED
    BY <1>1, <1>3, <2>1 DEF clients
<1>6. ASSUME NEW r \in Requests, Answer(r)
      PROVE  ClientsFit'
  <2> DEFINE new == {req[r].name} \cap {req[r].session.pending}
             shown == [busy |-> FALSE, button |-> IF new = {} THEN page.button ELSE CHOOSE p \in new : TRUE]
  <2>1. new \subseteq Changes
    BY <1>2, <1>6 DEF Answer, NamesAreNew
  <2>2. shown \in [busy : BOOLEAN, button : Changes \cup {None}]
    <3>1. (IF new = {} THEN page.button ELSE CHOOSE p \in new : TRUE) \in Changes \cup {None}
      <4> HIDE DEF new
      <4>1. QED
        BY <1>1, <2>1
    <3>2. QED
      BY <3>1, Zenon
  <2>3. UNCHANGED contested /\ (UNCHANGED clients \/ Shows(req[r].client, new))
    BY <1>6 DEF Answer, verdicts
  <2>4. /\ page' = page \/ page' = shown
        /\ chat' \subseteq chat \cup new /\ offered' \subseteq offered \cup new
    BY <2>3 DEF Shows, clients
  <2> HIDE DEF new, shown
  <2>5. QED
    BY <1>1, <2>1, <2>2, <2>3, <2>4 DEF ClientsFit
<1>7. ASSUME NEW no, no \in BOOLEAN
      PROVE  [page EXCEPT !.busy = no] \in [busy : BOOLEAN, button : Changes \cup {None}]
  BY <1>1, <1>7
<1>8. [page EXCEPT !.button = None] \in [busy : BOOLEAN, button : Changes \cup {None}]
  BY <1>1
<1>9. ASSUME NEW r \in Requests, GiveUp(r) \/ Crash(r)
      PROVE  ClientsFit'
  <2>1. page' = page \/ page' = [page EXCEPT !.busy = FALSE]
    BY <1>9 DEF GiveUp, Crash, Freed
  <2>2. page' \in [busy : BOOLEAN, button : Changes \cup {None}]
    BY <1>1, <1>7, <2>1
  <2>3. contested' \subseteq contested \cup (Changes \cap {req[r].change})
    <3>1. req[r].phase = "save" /\ req[r].approve => req[r].change \in Changes
      BY <1>2 DEF Shapes, InOrder
    <3>2. QED
      BY <1>9, <3>1 DEF GiveUp, Crash, verdicts
  <2>4. UNCHANGED <<chat, offered>>
    BY <1>9 DEF GiveUp, Crash
  <2>5. QED
    BY <1>1, <2>2, <2>3, <2>4 DEF ClientsFit
<1>10. ASSUME (\E c \in Clients : ResetSession(c)) \/ Expire
       PROVE  ClientsFit'
  <2>1. /\ page' = page \/ page' = [page EXCEPT !.button = None]
        /\ UNCHANGED <<chat, contested, offered>>
    BY <1>10 DEF ResetSession, Expire, clients
  <2>2. QED
    BY <1>1, <1>8, <2>1 DEF ClientsFit
<1>11. CASE OpenPage
  <2>1. /\ page' = [busy |-> FALSE, button |-> stored.pending] /\ UNCHANGED <<chat, contested>>
        /\ offered' = offered \cup ({stored.pending} \ {None})
    BY <1>11 DEF OpenPage, verdicts
  <2>2. [busy |-> FALSE, button |-> stored.pending] \in [busy : BOOLEAN, button : Changes \cup {None}]
    BY <1>2, Zenon
  <2>3. QED
    BY <1>1, <1>2, <2>1, <2>2 DEF ClientsFit
<1>12. ASSUME NEW r \in Requests, Works(r)
       PROVE  ClientsFit'
  BY <1>5, <1>6, <1>12 DEF Works, Turns, Tools
<1>13. QED
  BY <1>4, <1>9, <1>10, <1>11, <1>12 DEF Next

(* Sessions stay within their bounds: the history within history_limit     *)
(* when it is stored, the steps of a turn within max_steps, and the events *)
(* shown within MAX_SHOWN and each once (remember_shown), however the      *)
(* copies of overlapping requests replace each other.                      *)
THEOREM TypeCorrect == Spec => []TypeOK
<1>1. Init => SessionsFit /\ ClientsFit
  <2> SUFFICES ASSUME Init PROVE SessionsFit /\ ClientsFit
    OBVIOUS
  <2>1. stored = Fresh /\ \A r \in Requests : req[r] = Idle
    BY DEF Init
  <2>2. SessionsFit
    BY <2>1, FreshFits, IdleFits DEF SessionsFit
  <2>3. [busy |-> FALSE, button |-> None] \in [busy : BOOLEAN, button : Changes \cup {None}]
    BY Zenon
  <2>4. ClientsFit
    BY <2>3 DEF Init, ClientsFit
  <2>5. QED
    BY <2>2, <2>4
<1>2. IInv /\ SessionsFit /\ ClientsFit /\ [Next]_vars => SessionsFit' /\ ClientsFit'
  <2>1. CASE UNCHANGED vars
    BY <2>1 DEF vars, SessionsFit, ClientsFit
  <2>2. QED
    BY <2>1, SessionsStayFit, ClientsStayFit DEF IInv
<1>3. IInv /\ SessionsFit /\ ClientsFit => TypeOK
  <2> SUFFICES ASSUME IInv, SessionsFit, ClientsFit PROVE TypeOK
    OBVIOUS
  <2>1. Shapes /\ NamesAreNew
    BY DEF IInv
  <2>2. ASSUME NEW s, IsSession(s), ShownFits(s.shown)
        PROVE  s \in Sessions
    BY <2>2 DEF IsSession, ShownFits, Sessions
  <2>3. stored \in Sessions /\ IsInjective(stored.shown)
    BY <2>1, <2>2 DEF Shapes, SessionsFit, ShownFits, IsInjective
  <2>4. ASSUME NEW r \in Requests
        PROVE  req[r] \in [phase : Phases, client : Clients, name : Changes \cup {None},
                           session : Sessions, change : Changes \cup {None}, approve : BOOLEAN,
                           steps : 0..MaxSteps, left : 0..MaxCalls, waits : BOOLEAN]
    <3>1. IsRequest(req[r]) /\ RequestFits(req[r])
      BY <2>1 DEF Shapes, SessionsFit
    <3>2. req[r].session \in Sessions
      BY <2>2, <3>1 DEF IsRequest, RequestFits
    <3>3. req[r].steps \in 0..MaxSteps
      BY <3>1, Numbers DEF IsRequest, RequestFits
    <3>4. req[r].name \in Changes \cup {None} /\ req[r].change \in Changes \cup {None}
      BY <3>1 DEF IsRequest
    <3>5. QED
      BY <3>1, <3>2, <3>3, <3>4, Zenon DEF IsRequest, RequestFits
  <2>5. req \in [Requests ->
         [phase : Phases, client : Clients, name : Changes \cup {None}, session : Sessions,
          change : Changes \cup {None}, approve : BOOLEAN, steps : 0..MaxSteps,
          left : 0..MaxCalls, waits : BOOLEAN]]
    <3>1. req = [r \in Requests |-> req[r]]
      BY <2>1 DEF Shapes
    <3>2. QED
      BY <2>4, <3>1
  <2>6. gone \subseteq Changes
    BY <2>1, Numbers DEF NamesAreNew, Shapes, Changes
  <2>7. QED
    BY <2>1, <2>3, <2>5, <2>6 DEF TypeOK, Shapes, SessionsFit, ClientsFit, ShownFits
<1>4. QED
  BY <1>1, <1>2, <1>3, IInvAlways, PTL DEF Spec
================================================================================
