--------------------------- MODULE AccountsProofs ---------------------------
(***************************************************************************)
(* Type correctness of Accounts and its properties, for every set of       *)
(* accounts, addresses and chats and every number of concurrent requests.  *)
(* They rest on what every transaction in progress may rely on (Shape,     *)
(* Grounded, KeyIsMine, NothingLeft) and on what two of them cannot both   *)
(* be doing (Apart).                                                       *)
(***************************************************************************)
EXTENDS Accounts, FiniteSetTheorems, TLAPS

Full(u) == user[u] # None /\ ~TelegramOnly(user[u])
Known == Old \cup 1..calls
Makers == {"register", "google", "start"}

(* The record x of a request: which fields its kind and phase have set.    *)
Shape(x) ==
  /\ x \in ReqStates
  /\ x.phase # "idle" => x.name \in 1..calls
  /\ x.kind \in {"register", "google"} => x.email \in Emails
  /\ x.kind \in {"register", "login", "reset"} => x.secret \in Secrets
  /\ x.kind \in {"start", "link"} => x.chat \in Chats
  /\ x.kind \in Purposes => x.token \in Names
  /\ x.kind \in {"join", "login", "rate"} \cup Purposes => x.user \in Known
  /\ x.user \in Known \cup {None}
  /\ x.kind = "start" => x.user = None /\ x.had = None
  /\ x.phase = "owner" => x.source = None
  /\ x.phase = "insert" => x.kind \in Makers \cup {"rate"}
  /\ x.phase \in {"owner", "move", "delete", "channel", "write"} => x.kind = "link"
  /\ x.phase \in {"move", "delete"} => x.source # None
  /\ x.source # None => x.source \in Known /\ x.source # x.user /\ x.kind = "link"
  /\ x.source = None => x.moved = {}

(* What x has read and relies on is still so.                              *)
Grounded(x) ==
  /\ x.kind \in {"join", "login"} \cup Purposes => Full(x.user)
  /\ x.kind \in Purposes => tokens[x.token] # None
  /\ (x.kind = "rate" /\ x.phase = "commit") => user[x.user] # None
  /\ x.source # None => ~Full(x.source)
  /\ (x.kind \in Makers /\ x.phase # "idle") => user[x.name] = None /\ chat[x.name] = None

Writes(x) == x.kind \in {"start", "link"} /\ x.phase = "commit" /\ x.had # x.chat

(* The chat of a channel x has written is nobody else's.                   *)
KeyIsMine(x) == Writes(x) => Linked(x.chat) \subseteq {x.user, x.source}

Emptied(x) == x.source # None /\ x.phase \in {"delete", "channel", "write", "commit"}

(* What x has not moved of the account it absorbs came too late.           *)
NothingLeft(x) ==
  Emptied(x) => \A i \in Names : owner[i] = x.source => i \in x.moved \cup late

(* x is deleting the account that y inserts an item for.                   *)
Bereaves(x, y) ==
  /\ x.source # None /\ x.phase \in {"channel", "write", "commit"}
  /\ y.kind = "rate" /\ y.phase = "commit" /\ y.user = x.source

(* Two requests x and y do not make the same name or write the same chat,  *)
(* nothing in progress refers to an account yet to be made, and nobody     *)
(* inserts an item for an account that is being deleted.                   *)
Apart(x, y) ==
  /\ (x.phase # "idle" /\ y.phase # "idle") => x.name # y.name
  /\ (x.kind \in Makers /\ x.phase # "idle") => x.name \notin {y.user, y.source}
  /\ (Writes(x) /\ Writes(y)) => x.chat # y.chat
  /\ ~Bereaves(x, y)

UsersKnown == \A u \in Names : user[u] # None => u \in Known
TokensOfFull == \A t \in Names : tokens[t] # None => Full(tokens[t].user)

IInv ==
  /\ TypeOK
  /\ UsersKnown
  /\ TokensOfFull
  /\ ChatsIdentify
  /\ ItemsFollow
  /\ \A q \in Requests : /\ Shape(req[q]) /\ Grounded(req[q])
                         /\ KeyIsMine(req[q]) /\ NothingLeft(req[q])
  /\ \A p, q \in Requests : p # q => Apart(req[p], req[q])

-----------------------------------------------------------------------------
(* The records of requests.                                                *)

(* A request without a transaction relies on nothing.                      *)
LEMMA IdleClaims ==
  Shape(Idle) /\ Grounded(Idle) /\ KeyIsMine(Idle) /\ NothingLeft(Idle)
  BY DEF Shape, Grounded, KeyIsMine, NothingLeft, Idle, ReqStates, Kinds, Phases, Purposes,
         Makers, Writes, Emptied

LEMMA IdleIsApart ==
  ASSUME IInv, NEW p \in Requests
  PROVE  Apart(Idle, req[p]) /\ Apart(req[p], Idle)
  <1>1. req[p].phase # "idle" => req[p].name \in Names
    BY AccountsAssumption DEF IInv, TypeOK, Shape, Names
  <1> QED  BY <1>1, AccountsAssumption DEF Apart, Idle, Makers, Writes, Bereaves

(* A step of q that changes no table: its new record x has to be justified *)
(* by itself and against every other.                                      *)
LEMMA OwnStep ==
  ASSUME IInv, NEW q \in Requests, NEW x,
         req' = [req EXCEPT ![q] = x], UNCHANGED <<tables, history>>,
         calls' \in calls..MaxCalls,
         Shape(x)', Grounded(x), KeyIsMine(x), NothingLeft(x),
         \A p \in Requests \ {q} : Apart(x, req[p]) /\ Apart(req[p], x)
  PROVE  IInv'
  <1> USE DEF tables, history
  <1>1. calls \in 0..MaxCalls /\ MaxCalls \in Nat /\ calls' \in 0..MaxCalls
    BY AccountsAssumption DEF IInv, TypeOK
  <1>2. x \in ReqStates
    BY DEF Shape
  <1>3. \A p \in Requests : req'[p] = IF p = q THEN x ELSE req[p]
    BY DEF IInv, TypeOK
  <1>4. Known \subseteq Known'
    BY <1>1 DEF Known
  <1>5. TypeOK'
    BY <1>1, <1>2 DEF IInv, TypeOK
  <1>6. UsersKnown' /\ TokensOfFull' /\ ChatsIdentify' /\ ItemsFollow'
    BY <1>4 DEF IInv, UsersKnown, TokensOfFull, ChatsIdentify, ItemsFollow, Full
  <1>7. ASSUME NEW p \in Requests
        PROVE  (/\ Shape(req[p]) /\ Grounded(req[p])
                /\ KeyIsMine(req[p]) /\ NothingLeft(req[p]))'
    <2>1. CASE p = q
      BY <1>3, <2>1
      DEF Grounded, KeyIsMine, NothingLeft, Full, Linked, Writes, Emptied, Shape
    <2>2. CASE p # q
      <3>1. Shape(req[p]) /\ Grounded(req[p]) /\ KeyIsMine(req[p]) /\ NothingLeft(req[p])
        BY DEF IInv
      <3>2. Shape(req[p])'
        BY <1>1, <1>3, <1>4, <2>2, <3>1 DEF Shape
      <3> QED
        BY <1>3, <2>2, <3>1, <3>2
        DEF Grounded, KeyIsMine, NothingLeft, Full, Linked, Writes, Emptied
    <2> QED  BY <2>1, <2>2
  <1>8. ASSUME NEW p \in Requests, NEW r \in Requests, p # r
        PROVE  Apart(req'[p], req'[r])
    BY <1>3, <1>8 DEF IInv
  <1> QED  BY <1>5, <1>6, <1>7, <1>8 DEF IInv, Apart, Writes, Bereaves

LEMMA RollBackStep ==
  ASSUME IInv, NEW q \in Requests, RollBack(q)
  PROVE  IInv'
  <1>1. Shape(Idle)'
    BY DEF Shape, Idle, ReqStates, Kinds, Phases, Purposes, Makers
  <1>2. calls' \in calls..MaxCalls
    BY AccountsAssumption DEF RollBack, IInv, TypeOK
  <1> QED  BY <1>1, <1>2, IdleClaims, IdleIsApart, OwnStep DEF RollBack, Ends

-----------------------------------------------------------------------------
(* Requests that begin.                                                    *)

(* A request begins with a record that relies only on what it has read.    *)
LEMMA BeginStep ==
  ASSUME IInv, NEW q \in Requests, NEW state \in ReqStates, Begin(q, state),
         state.had = None, state.source = None, state.moved = {}, state.kind # "none",
         state.phase = IF state.kind \in Makers \cup {"rate"} THEN "insert"
                       ELSE IF state.kind = "link" THEN "owner" ELSE "commit",
         state.kind \in {"register", "google"} => state.email # None,
         state.kind \in {"register", "login", "reset"} => state.secret # None,
         state.kind \in {"start", "link"} => state.chat # None,
         state.kind \in Purposes => state.token # None /\ tokens[state.token] # None,
         IF state.kind \in Makers THEN state.user = None
                                  ELSE state.user # None /\ user[state.user] # None,
         state.kind \in {"join", "login"} \cup Purposes => Full(state.user)
  PROVE  IInv'
  <1>0. PICK y : y = [state EXCEPT !.name = calls + 1]
    OBVIOUS
  <1>1. /\ calls \in Nat /\ calls + 1 \in Names /\ calls + 1 \notin Known
        /\ calls' = calls + 1 /\ calls + 1 \in 1..calls' /\ Known \subseteq Known'
        /\ calls' \in calls..MaxCalls /\ UNCHANGED <<tables, history>>
    BY AccountsAssumption DEF Begin, IInv, TypeOK, Names, Known
  <1>2. req' = [req EXCEPT ![q] = y]
    BY <1>0 DEF Begin
  <1>3. /\ y.kind = state.kind /\ y.phase = state.phase /\ y.name = calls + 1
        /\ y.user = state.user /\ y.token = state.token /\ y.email = state.email
        /\ y.secret = state.secret /\ y.chat = state.chat /\ y.had = None
        /\ y.source = None /\ y.moved = {}
    BY <1>0 DEF ReqStates
  <1>4. y \in ReqStates
    BY <1>0, <1>1 DEF ReqStates
  <1>5. user[calls + 1] = None /\ chat[calls + 1] = None /\ (y.user # None => y.user \in Known)
    BY <1>1, <1>3 DEF IInv, UsersKnown, ChatsIdentify, ReqStates, Makers
  <1>6. Shape(y)'
    <2>1. /\ y.email \in Emails \cup {None} /\ y.secret \in Secrets \cup {None}
          /\ y.chat \in Chats \cup {None} /\ y.token \in Names \cup {None}
          /\ y.phase # "idle" /\ y.user \in Known' \cup {None}
      BY <1>1, <1>3, <1>4, <1>5 DEF ReqStates
    <2> QED
      BY <1>1, <1>3, <1>4, <2>1 DEF Shape, Makers, Purposes
  <1>7. Grounded(y) /\ KeyIsMine(y) /\ NothingLeft(y)
    BY <1>3, <1>5 DEF Grounded, KeyIsMine, NothingLeft, Writes, Emptied, Makers, Purposes
  <1>8. ASSUME NEW p \in Requests \ {q}
        PROVE  Apart(y, req[p]) /\ Apart(req[p], y)
    <2>1. Shape(req[p]) /\ Grounded(req[p])
      BY DEF IInv
    <2>2. req[p].phase # "idle" => req[p].name \in 1..calls /\ req[p].name # None
      BY <2>1, AccountsAssumption DEF Shape, Names, IInv, TypeOK
    <2>3. Apart(y, req[p])
      BY <1>1, <1>3, <2>1, <2>2, AccountsAssumption DEF Apart, Bereaves, Shape, Writes, Names, Makers
    <2>4. Apart(req[p], y)
      BY <1>1, <1>3, <2>1, <2>2, AccountsAssumption
      DEF Apart, Bereaves, Grounded, Writes, Names, Makers
    <2> QED  BY <2>3, <2>4
  <1> QED  BY <1>1, <1>2, <1>6, <1>7, <1>8, OwnStep

LEMMA CallStep ==
  ASSUME IInv, NEW q \in Requests, Call(q)
  PROVE  IInv'
  <1>0. /\ \A u \in Names : user[u] # None => user[u] \in Users
        /\ \A u \in Names : chat[u] # None => user[u] # None
        /\ \A t \in Names : tokens[t] # None => Full(tokens[t].user) /\ tokens[t].user \in Names
        /\ None \notin Names \cup Emails \cup Secrets \cup Chats
    BY AccountsAssumption DEF IInv, TypeOK, ChatsIdentify, TokensOfFull, Tokens
  <1> USE DEF Kinds, Purposes, Makers
  <1>1. ASSUME NEW e \in Emails, NEW s \in Secrets, Register(q, e, s) PROVE IInv'
    <2> DEFINE state == [Idle EXCEPT !.kind = "register", !.phase = "insert",
                             !.email = e, !.secret = s]
    <2>0. Begin(q, state)
      BY <1>1 DEF Register
    <2>1. /\ state.kind = "register" /\ state.phase = "insert" /\ state.user = None
          /\ state.token = None /\ state.email = e /\ state.secret = s
          /\ state.chat = None /\ state.source = None /\ state.moved = {} /\ state.had = None
      BY DEF Idle
    <2>3. state \in ReqStates
      BY <1>0 DEF Idle, ReqStates, Phases
    <2> HIDE DEF state
    <2> QED  BY <1>0, <2>0, <2>1, <2>3, BeginStep
  <1>2. ASSUME NEW e \in Emails, Google(q, e) PROVE IInv'
    <2> DEFINE state == [Idle EXCEPT !.kind = "google", !.phase = "insert", !.email = e]
    <2>0. Begin(q, state)
      BY <1>2 DEF Google
    <2>1. /\ state.kind = "google" /\ state.phase = "insert" /\ state.user = None
          /\ state.token = None /\ state.email = e /\ state.secret = None
          /\ state.chat = None /\ state.source = None /\ state.moved = {} /\ state.had = None
      BY DEF Idle
    <2>3. state \in ReqStates
      BY <1>0 DEF Idle, ReqStates, Phases
    <2> HIDE DEF state
    <2> QED  BY <1>0, <2>0, <2>1, <2>3, BeginStep
  <1>3. ASSUME NEW u \in Names, JoinGoogle(q, u) PROVE IInv'
    <2> DEFINE state == [Idle EXCEPT !.kind = "join", !.phase = "commit", !.user = u,
                             !.secret = user[u].password]
    <2>0. Begin(q, state)
      BY <1>3 DEF JoinGoogle
    <2>1. /\ state.kind = "join" /\ state.phase = "commit" /\ state.user = u
          /\ state.token = None /\ state.email = None /\ state.secret = user[u].password
          /\ state.chat = None /\ state.source = None /\ state.moved = {} /\ state.had = None
      BY DEF Idle
    <2>2. /\ user[u] # None /\ Full(u) /\ user[u].password \in Secrets \cup {None}
          /\ u # None
      BY <1>0, <1>3 DEF JoinGoogle, Full, TelegramOnly, Users
    <2>3. state \in ReqStates
      BY <1>0, <2>2 DEF Idle, ReqStates, Phases
    <2> HIDE DEF state
    <2> QED  BY <1>0, <2>0, <2>1, <2>3, <2>2, BeginStep
  <1>4. ASSUME NEW u \in Names, Login(q, u) PROVE IInv'
    <2> DEFINE state == [Idle EXCEPT !.kind = "login", !.phase = "commit", !.user = u,
                             !.secret = user[u].password]
    <2>0. Begin(q, state)
      BY <1>4 DEF Login
    <2>1. /\ state.kind = "login" /\ state.phase = "commit" /\ state.user = u
          /\ state.token = None /\ state.email = None /\ state.secret = user[u].password
          /\ state.chat = None /\ state.source = None /\ state.moved = {} /\ state.had = None
      BY DEF Idle
    <2>2. /\ user[u] # None /\ Full(u) /\ user[u].password \in Secrets \cup {None}
          /\ u # None
      BY <1>0, <1>4 DEF Login, Full, TelegramOnly, Users
    <2>3. state \in ReqStates
      BY <1>0, <2>2, <1>4 DEF Idle, Login, ReqStates, Phases
    <2> HIDE DEF state
    <2> QED  BY <1>0, <2>0, <2>1, <2>3, <2>2, <1>4, BeginStep DEF Login
  <1>5. ASSUME NEW u \in Names, Rate(q, u) PROVE IInv'
    <2> DEFINE state == [Idle EXCEPT !.kind = "rate", !.phase = "insert", !.user = u]
    <2>0. Begin(q, state)
      BY <1>5 DEF Rate
    <2>1. /\ state.kind = "rate" /\ state.phase = "insert" /\ state.user = u
          /\ state.token = None /\ state.email = None /\ state.secret = None
          /\ state.chat = None /\ state.source = None /\ state.moved = {} /\ state.had = None
      BY DEF Idle
    <2>2. user[u] # None
      BY <1>0, <1>5 DEF Rate
    <2>3. state \in ReqStates
      BY <1>0, <2>2 DEF Idle, ReqStates, Phases
    <2> HIDE DEF state
    <2> QED  BY <1>0, <2>0, <2>1, <2>3, <2>2, BeginStep
  <1>6. ASSUME NEW t \in Names, Verify(q, t) PROVE IInv'
    <2> DEFINE state == [Idle EXCEPT !.kind = "verify", !.phase = "commit", !.token = t,
                             !.user = tokens[t].user]
    <2>0. Begin(q, state)
      BY <1>6 DEF Verify
    <2>1. /\ state.kind = "verify" /\ state.phase = "commit" /\ state.user = tokens[t].user
          /\ state.token = t /\ state.email = None /\ state.secret = None
          /\ state.chat = None /\ state.source = None /\ state.moved = {} /\ state.had = None
      BY DEF Idle
    <2>2. /\ Full(tokens[t].user) /\ tokens[t].user \in Names /\ tokens[t] # None
          /\ user[tokens[t].user] # None
      BY <1>0, <1>6 DEF Verify, Usable, Full
    <2>3. state \in ReqStates
      BY <1>0, <2>2 DEF Idle, ReqStates, Phases
    <2> HIDE DEF state
    <2> QED  BY <1>0, <2>0, <2>1, <2>3, <2>2, BeginStep
  <1>7. ASSUME NEW t \in Names, NEW s \in Secrets, ResetPassword(q, t, s) PROVE IInv'
    <2> DEFINE state == [Idle EXCEPT !.kind = "reset", !.phase = "commit", !.token = t,
                             !.user = tokens[t].user, !.secret = s]
    <2>0. Begin(q, state)
      BY <1>7 DEF ResetPassword
    <2>1. /\ state.kind = "reset" /\ state.phase = "commit" /\ state.user = tokens[t].user
          /\ state.token = t /\ state.email = None /\ state.secret = s
          /\ state.chat = None /\ state.source = None /\ state.moved = {} /\ state.had = None
      BY DEF Idle
    <2>2. /\ Full(tokens[t].user) /\ tokens[t].user \in Names /\ tokens[t] # None
          /\ user[tokens[t].user] # None
      BY <1>0, <1>7 DEF ResetPassword, Usable, Full
    <2>3. state \in ReqStates
      BY <1>0, <2>2 DEF Idle, ReqStates, Phases
    <2> HIDE DEF state
    <2> QED  BY <1>0, <2>0, <2>1, <2>3, <2>2, BeginStep
  <1>8. ASSUME NEW c \in Chats, Start(q, c) PROVE IInv'
    <2> DEFINE state == [Idle EXCEPT !.kind = "start", !.phase = "insert", !.chat = c]
    <2>0. Begin(q, state)
      BY <1>8 DEF Start
    <2>1. /\ state.kind = "start" /\ state.phase = "insert" /\ state.user = None
          /\ state.token = None /\ state.email = None /\ state.secret = None
          /\ state.chat = c /\ state.source = None /\ state.moved = {} /\ state.had = None
      BY DEF Idle
    <2>3. state \in ReqStates
      BY <1>0 DEF Idle, ReqStates, Phases
    <2> HIDE DEF state
    <2> QED  BY <1>0, <2>0, <2>1, <2>3, BeginStep
  <1>9. ASSUME NEW t \in Names, NEW c \in Chats, Link(q, t, c) PROVE IInv'
    <2> DEFINE state == [Idle EXCEPT !.kind = "link", !.phase = "owner", !.token = t,
                             !.user = tokens[t].user, !.chat = c]
    <2>0. Begin(q, state)
      BY <1>9 DEF Link
    <2>1. /\ state.kind = "link" /\ state.phase = "owner" /\ state.user = tokens[t].user
          /\ state.token = t /\ state.email = None /\ state.secret = None
          /\ state.chat = c /\ state.source = None /\ state.moved = {} /\ state.had = None
      BY DEF Idle
    <2>2. /\ Full(tokens[t].user) /\ tokens[t].user \in Names /\ tokens[t] # None
          /\ user[tokens[t].user] # None
      BY <1>0, <1>9 DEF Link, Usable, Full
    <2>3. state \in ReqStates
      BY <1>0, <2>2 DEF Idle, ReqStates, Phases
    <2> HIDE DEF state
    <2> QED  BY <1>0, <2>0, <2>1, <2>3, <2>2, BeginStep
  <1> QED  BY <1>1, <1>2, <1>3, <1>4, <1>5, <1>6, <1>7, <1>8, <1>9 DEF Call

-----------------------------------------------------------------------------
(* Statements of a transaction: its record changes, the tables do not.     *)

LEMMA WorkStep ==
  ASSUME IInv, NEW q \in Requests, NEW x \in ReqStates,
         req' = [req EXCEPT ![q] = x], UNCHANGED <<tables, history, calls>>,
         req[q].phase # "idle",
         x.phase \in {"move", "delete", "channel", "write", "commit"},
         x.kind = req[q].kind, x.name = req[q].name, x.user = req[q].user,
         x.token = req[q].token, x.email = req[q].email, x.secret = req[q].secret,
         x.chat = req[q].chat,
         x.phase # "commit" => x.kind = "link",
         x.kind # "link" => x.had = req[q].had,
         x.phase \in {"move", "delete"} => x.source # None,
         x.source = None => x.moved = {},
         \/ x.source = req[q].source
         \/ /\ x.source \in Names \ {x.user} /\ x.kind = "link"
            /\ user[x.source] # None /\ ~Full(x.source),
         (x.kind = "rate" /\ x.phase = "commit") => user[x.user] # None,
         KeyIsMine(x), NothingLeft(x),
         \A p \in Requests \ {q} :
           /\ Writes(x) /\ Writes(req[p]) => x.chat # req[p].chat
           /\ ~Bereaves(x, req[p]) /\ ~Bereaves(req[p], x)
  PROVE  IInv'
  <1>1. Shape(req[q]) /\ Grounded(req[q])
    BY DEF IInv
  <1>2. calls' = calls /\ calls' \in calls..MaxCalls
    BY AccountsAssumption DEF IInv, TypeOK
  <1>3. x.source # None => x.source \in Known /\ ~Full(x.source)
    BY <1>1, AccountsAssumption DEF Shape, Grounded, IInv, UsersKnown
  <1>4. x.source # None => x.source # x.user /\ x.kind = "link"
    BY <1>1 DEF Shape
  <1>5. Shape(x)'
    BY <1>1, <1>2, <1>3, <1>4 DEF Shape, Known, Makers, Purposes
  <1>6. Grounded(x)
    BY <1>1, <1>3 DEF Grounded, Makers, Purposes
  <1>7. ASSUME NEW p \in Requests \ {q}
        PROVE  Apart(x, req[p]) /\ Apart(req[p], x)
    <2>1. Apart(req[q], req[p]) /\ Apart(req[p], req[q]) /\ Grounded(req[p])
      BY DEF IInv
    <2>2. (req[p].kind \in Makers /\ req[p].phase # "idle") =>
            req[p].name \notin {x.user, x.source}
      BY <2>1, <1>3 DEF Apart, Grounded
    <2>3. (x.kind \in Makers /\ x.phase # "idle") => x.name \notin {req[p].user, req[p].source}
      BY <2>1 DEF Apart
    <2> QED  BY <2>1, <2>2, <2>3 DEF Apart
  <1> QED  BY <1>2, <1>5, <1>6, <1>7, OwnStep

(* The record of a transaction that goes on to its next phase.             *)
LEMMA GoesRecord ==
  ASSUME IInv, NEW q \in Requests, NEW phase \in Phases
  PROVE  \E x \in ReqStates :
           /\ x = [req[q] EXCEPT !.phase = phase] /\ x.phase = phase
           /\ x.kind = req[q].kind /\ x.name = req[q].name /\ x.user = req[q].user
           /\ x.token = req[q].token /\ x.email = req[q].email
           /\ x.secret = req[q].secret /\ x.chat = req[q].chat
           /\ x.had = req[q].had /\ x.source = req[q].source /\ x.moved = req[q].moved
  <1>1. req[q] \in ReqStates
    BY DEF IInv, TypeOK
  <1>2. PICK x : x = [req[q] EXCEPT !.phase = phase]
    OBVIOUS
  <1>3. x \in ReqStates
    BY <1>1, <1>2 DEF ReqStates
  <1>4. /\ x.phase = phase /\ x.kind = req[q].kind /\ x.name = req[q].name
        /\ x.user = req[q].user /\ x.token = req[q].token /\ x.email = req[q].email
        /\ x.secret = req[q].secret /\ x.chat = req[q].chat
        /\ x.had = req[q].had /\ x.source = req[q].source /\ x.moved = req[q].moved
    BY <1>1, <1>2 DEF ReqStates
  <1> QED  BY <1>2, <1>3, <1>4

LEMMA GoesStep ==
  ASSUME IInv, NEW q \in Requests, NEW phase \in Phases, Goes(q, phase),
         req[q].phase # "idle",
         phase \in {"channel", "write", "commit"},
         phase # "commit" => req[q].kind = "link",
         (req[q].kind = "rate" /\ phase = "commit") => user[req[q].user] # None,
         LET writes == /\ req[q].kind \in {"start", "link"} /\ phase = "commit"
                       /\ req[q].had # req[q].chat
         IN  writes =>
               /\ Linked(req[q].chat) \subseteq {req[q].user, req[q].source}
               /\ \A p \in Requests \ {q} : Writes(req[p]) => req[q].chat # req[p].chat,
         req[q].source # None => req[q].phase \in {"delete", "channel", "write", "commit"},
         \A p \in Requests \ {q} :
           /\ req[q].source # None =>
                ~(req[p].kind = "rate" /\ req[p].phase = "commit"
                    /\ req[p].user = req[q].source)
           /\ (req[p].source # None /\ req[p].phase \in {"channel", "write", "commit"}) =>
                ~(req[q].kind = "rate" /\ phase = "commit" /\ req[q].user = req[p].source)
  PROVE  IInv'
  <1>1. PICK x \in ReqStates :
          /\ x = [req[q] EXCEPT !.phase = phase] /\ x.phase = phase
          /\ x.kind = req[q].kind /\ x.name = req[q].name /\ x.user = req[q].user
          /\ x.token = req[q].token /\ x.email = req[q].email
          /\ x.secret = req[q].secret /\ x.chat = req[q].chat
          /\ x.had = req[q].had /\ x.source = req[q].source /\ x.moved = req[q].moved
    BY GoesRecord
  <1>2. req' = [req EXCEPT ![q] = x] /\ UNCHANGED <<tables, history, calls>>
    BY <1>1 DEF Goes
  <1>3. Shape(req[q]) /\ NothingLeft(req[q])
    BY DEF IInv
  <1>4. KeyIsMine(x) /\ (x.source = None => x.moved = {})
    BY <1>1, <1>3 DEF KeyIsMine, Writes, Shape
  <1>5. NothingLeft(x)
    BY <1>1, <1>3 DEF NothingLeft, Emptied
  <1>6. \A p \in Requests \ {q} :
          /\ Writes(x) /\ Writes(req[p]) => x.chat # req[p].chat
          /\ ~Bereaves(x, req[p]) /\ ~Bereaves(req[p], x)
    BY <1>1 DEF Writes, Bereaves
  <1> QED  BY <1>1, <1>2, <1>4, <1>5, <1>6, WorkStep

LEMMA StatementStep ==
  ASSUME IInv, NEW q \in Requests,
         \/ InsertUser(q) \/ InsertAccount(q) \/ ReadOwner(q) \/ MoveItems(q)
         \/ DeleteSource(q) \/ ReadChannel(q) \/ WriteChannel(q) \/ KeepChannel(q)
         \/ InsertItem(q)
  PROVE  IInv'
  <1>1. /\ Shape(req[q]) /\ Grounded(req[q]) /\ NothingLeft(req[q])
        /\ \A p \in Requests \ {q} : Apart(req[p], req[q]) /\ Apart(req[q], req[p])
    BY DEF IInv
  <1>2. CASE InsertUser(q)
    <2>1. req[q].phase = "insert" /\ req[q].kind \in {"register", "google"}
          /\ req[q].source = None
      BY <1>1, <1>2 DEF InsertUser, Shape
    <2>2. CASE Goes(q, "commit")
      BY <2>1, <2>2, GoesStep DEF Phases
    <2> QED  BY <1>2, <2>2, RollBackStep DEF InsertUser
  <1>3. CASE InsertAccount(q)
    <2>1. req[q].phase = "insert" /\ req[q].kind = "start" /\ req[q].source = None
          /\ \A p \in Requests : ~HoldsKey(p, req[q].chat)
      BY <1>1, <1>3 DEF InsertAccount, Shape
    <2>2. \A p \in Requests : Writes(req[p]) => req[q].chat # req[p].chat
      BY <2>1 DEF HoldsKey, Wrote, Writes
    <2>3. CASE Linked(req[q].chat) = {} /\ Goes(q, "commit")
      BY <2>1, <2>2, <2>3, GoesStep DEF Phases
    <2> QED  BY <1>3, <2>3, RollBackStep DEF InsertAccount
  <1>4. CASE ReadOwner(q)
    <2>1. req[q].phase = "owner" /\ req[q].source = None /\ req[q].kind = "link"
      BY <1>1, <1>4 DEF ReadOwner, Shape
    <2>2. CASE Goes(q, "channel")
      BY <2>1, <2>2, GoesStep DEF Phases
    <2>3. ASSUME NEW s \in Linked(req[q].chat) \ {req[q].user}, MayAbsorb(s),
                 req' = [req EXCEPT ![q].phase = "move", ![q].source = s],
                 UNCHANGED <<tables, history, calls>>
          PROVE  IInv'
      <3>1. PICK x : x = [req[q] EXCEPT !.phase = "move", !.source = s]
        OBVIOUS
      <3>2. req' = [req EXCEPT ![q] = x]
        BY <2>3, <3>1 DEF IInv, TypeOK
      <3>3. req[q] \in ReqStates /\ s \in Names
        BY DEF IInv, TypeOK, Linked
      <3>4. /\ x.kind = req[q].kind /\ x.name = req[q].name /\ x.user = req[q].user
            /\ x.token = req[q].token /\ x.email = req[q].email
            /\ x.secret = req[q].secret /\ x.chat = req[q].chat
            /\ x.source = s /\ x.phase = "move"
        BY <3>1, <3>3 DEF ReqStates
      <3>5. x \in ReqStates
        BY <3>1, <3>3 DEF ReqStates, Phases
      <3>6. KeyIsMine(x) /\ NothingLeft(x) /\ ~Writes(x)
        BY <3>4 DEF KeyIsMine, NothingLeft, Writes, Emptied
      <3>8. \A p \in Requests \ {q} :
              /\ Writes(x) /\ Writes(req[p]) => x.chat # req[p].chat
              /\ ~Bereaves(x, req[p]) /\ ~Bereaves(req[p], x)
        BY <2>1, <3>4, <3>6 DEF Bereaves
      <3>7. user[s] # None /\ ~Full(s) /\ s \in Names \ {x.user} /\ s # None
        BY <2>3, <3>3, <3>4, AccountsAssumption DEF MayAbsorb, Full
      <3> QED  BY <2>1, <2>3, <3>2, <3>4, <3>5, <3>6, <3>7, <3>8, WorkStep
    <2> QED  BY <1>4, <2>2, <2>3, RollBackStep DEF ReadOwner
  <1>5. CASE MoveItems(q)
    <2>1. req[q].phase = "move" /\ req[q].source # None /\ req[q].kind = "link"
      BY <1>1, <1>5 DEF MoveItems, Shape
    <2>2. PICK x : x = [req[q] EXCEPT !.phase = "delete", !.moved = Movable(req[q].source)]
      OBVIOUS
    <2>3. req[q] \in ReqStates /\ Movable(req[q].source) \in SUBSET Names
      BY DEF IInv, TypeOK, Movable, ItemsOf
    <2>4. req' = [req EXCEPT ![q] = x] /\ UNCHANGED <<tables, history, calls>>
      BY <1>5, <2>2 DEF MoveItems, IInv, TypeOK
    <2>5. /\ x.kind = req[q].kind /\ x.name = req[q].name /\ x.user = req[q].user
          /\ x.token = req[q].token /\ x.email = req[q].email
          /\ x.secret = req[q].secret /\ x.chat = req[q].chat
          /\ x.source = req[q].source /\ x.phase = "delete"
          /\ x.moved = Movable(req[q].source)
      BY <2>2, <2>3 DEF ReqStates
    <2>6. x \in ReqStates
      BY <2>2, <2>3 DEF ReqStates, Phases
    <2>7. KeyIsMine(x) /\ NothingLeft(x) /\ ~Writes(x)
      BY <2>5 DEF KeyIsMine, NothingLeft, Writes, Emptied, Movable, ItemsOf
    <2>8. \A p \in Requests \ {q} :
            /\ Writes(x) /\ Writes(req[p]) => x.chat # req[p].chat
            /\ ~Bereaves(x, req[p]) /\ ~Bereaves(req[p], x)
      BY <2>1, <2>5, <2>7 DEF Bereaves
    <2> QED  BY <2>1, <2>4, <2>5, <2>6, <2>7, <2>8, WorkStep
  <1>6. CASE DeleteSource(q)
    <2>1. req[q].phase = "delete" /\ req[q].kind = "link"
      BY <1>1, <1>6 DEF DeleteSource, Shape
    <2>2. \A p \in Requests :
            ~(req[p].kind = "rate" /\ req[p].phase = "commit" /\ req[p].user = req[q].source)
      BY <1>6 DEF DeleteSource
    <2> QED  BY <1>6, <2>1, <2>2, GoesStep DEF DeleteSource, Phases
  <1>7. CASE ReadChannel(q)
    <2>1. req[q].phase = "channel" /\ req[q].kind = "link" /\ req[q].user \in Names
      BY <1>1, <1>7, AccountsAssumption
      DEF ReadChannel, Shape, Purposes, Known, Names, IInv, TypeOK
    <2>2. PICK x : x = [req[q] EXCEPT !.phase = "write", !.had = chat[req[q].user]]
      OBVIOUS
    <2>3. req[q] \in ReqStates /\ chat[req[q].user] \in Chats \cup {None}
      BY <2>1 DEF IInv, TypeOK
    <2>4. req' = [req EXCEPT ![q] = x] /\ UNCHANGED <<tables, history, calls>>
      BY <1>7, <2>2 DEF ReadChannel, IInv, TypeOK
    <2>5. /\ x.kind = req[q].kind /\ x.name = req[q].name /\ x.user = req[q].user
          /\ x.token = req[q].token /\ x.email = req[q].email
          /\ x.secret = req[q].secret /\ x.chat = req[q].chat
          /\ x.source = req[q].source /\ x.phase = "write" /\ x.moved = req[q].moved
      BY <2>2, <2>3 DEF ReqStates
    <2>6. x \in ReqStates
      BY <2>2, <2>3 DEF ReqStates, Phases
    <2>7. KeyIsMine(x) /\ NothingLeft(x) /\ ~Writes(x) /\ (x.source = None => x.moved = {})
      BY <1>1, <2>1, <2>5 DEF KeyIsMine, NothingLeft, Writes, Emptied, Shape
    <2>8. \A p \in Requests \ {q} :
            /\ Writes(x) /\ Writes(req[p]) => x.chat # req[p].chat
            /\ ~Bereaves(x, req[p]) /\ ~Bereaves(req[p], x)
      BY <1>1, <2>1, <2>5, <2>7 DEF Apart, Bereaves
    <2> QED  BY <2>1, <2>4, <2>5, <2>6, <2>7, <2>8, WorkStep
  <1>8. CASE WriteChannel(q)
    <2>1. req[q].phase = "write" /\ req[q].kind = "link"
      BY <1>1, <1>8 DEF WriteChannel, Shape
    <2>2. \A p \in Requests \ {q} : Writes(req[p]) => req[q].chat # req[p].chat
      BY <1>8 DEF WriteChannel, HoldsKey, Wrote, Writes
    <2>3. \A p \in Requests \ {q} : req[q].source # None =>
            ~(req[p].kind = "rate" /\ req[p].phase = "commit" /\ req[p].user = req[q].source)
      BY <1>1, <2>1 DEF Apart, Bereaves
    <2>4. CASE Linked(req[q].chat) \subseteq {req[q].user, req[q].source} /\ Goes(q, "commit")
      BY <2>1, <2>2, <2>3, <2>4, GoesStep DEF Phases
    <2> QED  BY <1>8, <2>4, RollBackStep DEF WriteChannel
  <1>9. CASE KeepChannel(q)
    <2>1. req[q].phase = "write" /\ req[q].kind = "link" /\ req[q].had = req[q].chat
          /\ Goes(q, "commit")
      BY <1>1, <1>9 DEF KeepChannel, Shape
    <2>2. \A p \in Requests \ {q} : req[q].source # None =>
            ~(req[p].kind = "rate" /\ req[p].phase = "commit" /\ req[p].user = req[q].source)
      BY <1>1, <2>1 DEF Apart, Bereaves
    <2> QED  BY <2>1, <2>2, GoesStep DEF Phases
  <1>10. CASE InsertItem(q)
    <2>1. req[q].phase = "insert" /\ req[q].kind = "rate" /\ req[q].source = None
          /\ \A p \in Requests : ~Deleting(p, req[q].user)
      BY <1>1, <1>10 DEF InsertItem, Shape
    <2>2. \A p \in Requests : (req[p].source # None
                               /\ req[p].phase \in {"channel", "write", "commit"}) =>
            req[q].user # req[p].source
      BY <2>1 DEF Deleting
    <2>3. CASE user[req[q].user] # None /\ Goes(q, "commit")
      BY <2>1, <2>2, <2>3, GoesStep DEF Phases
    <2> QED  BY <1>10, <2>3, RollBackStep DEF InsertItem
  <1> QED  BY <1>2, <1>3, <1>4, <1>5, <1>6, <1>7, <1>8, <1>9, <1>10

-----------------------------------------------------------------------------
(* Steps that change tables: a transaction that commits, a new token, a    *)
(* token's TTL.                                                            *)

(* What has to be shown of such a step: the tables fit together, and other *)
(* requests may still rely on what they relied on.                         *)
LEMMA TableStep ==
  ASSUME IInv, TypeOK', calls' \in calls..MaxCalls,
         \A p \in Requests : req'[p] \in {req[p], Idle},
         UsersKnown', TokensOfFull', ChatsIdentify', ItemsFollow',
         \A p \in Requests : req'[p] = req[p] =>
           (Grounded(req[p]) /\ KeyIsMine(req[p]) /\ NothingLeft(req[p]))'
  PROVE  IInv'
  <1>1. Known \subseteq Known' /\ calls \in Nat /\ calls' \in Nat /\ calls <= calls'
    BY AccountsAssumption DEF IInv, TypeOK, Known
  <1>2. ASSUME NEW p \in Requests
        PROVE  (/\ Shape(req[p]) /\ Grounded(req[p])
                /\ KeyIsMine(req[p]) /\ NothingLeft(req[p]))'
    <2>1. CASE req'[p] = req[p]
      <3>1. Shape(req[p])
        BY DEF IInv
      <3>2. Shape(req[p])'
        BY <1>1, <2>1, <3>1 DEF Shape
      <3> QED  BY <2>1, <3>2
    <2>2. CASE req'[p] = Idle
      <3>1. Shape(Idle)'
        BY DEF Shape, Idle, ReqStates, Kinds, Phases, Purposes, Makers
      <3>2. Grounded(Idle)' /\ KeyIsMine(Idle)' /\ NothingLeft(Idle)'
        BY DEF Grounded, KeyIsMine, NothingLeft, Idle, Purposes, Makers, Writes, Emptied
      <3> QED  BY <2>2, <3>1, <3>2
    <2> QED  BY <2>1, <2>2
  <1>3. ASSUME NEW p \in Requests, NEW r \in Requests, p # r
        PROVE  Apart(req'[p], req'[r])
    <2>1. Apart(req[p], req[r])
      BY <1>3 DEF IInv
    <2>2. Apart(Idle, req[r]) /\ Apart(req[p], Idle)
      BY IdleIsApart
    <2>3. Apart(Idle, Idle)
      BY AccountsAssumption DEF Apart, Idle, Makers, Writes, Bereaves
    <2> QED  BY <2>1, <2>2, <2>3
  <1> QED  BY <1>2, <1>3 DEF IInv, Apart, Writes, Bereaves

(* A step that changes tokens and rows of users but neither who exists nor *)
(* who has more than a chat.                                               *)
LEMMA RowStep ==
  ASSUME IInv, TypeOK', calls' \in calls..MaxCalls,
         \A p \in Requests : req'[p] \in {req[p], Idle},
         UNCHANGED <<chat, owner, late>>,
         \A u \in Names : (user'[u] = None <=> user[u] = None) /\ (Full(u)' <=> Full(u)),
         \A t \in Names : /\ tokens'[t] # None => Full(tokens'[t].user) /\ tokens'[t].user \in Names
                          /\ tokens[t] # None => tokens'[t] # None
  PROVE  IInv'
  <1>1. Known \subseteq Known' /\ None \notin Names /\ Lost \notin Names
    BY AccountsAssumption DEF IInv, TypeOK, Known
  <1>2. UsersKnown' /\ TokensOfFull'
    BY <1>1 DEF IInv, UsersKnown, TokensOfFull
  <1>3. ChatsIdentify' /\ ItemsFollow'
    BY DEF IInv, ChatsIdentify, ItemsFollow, Full
  <1>4. ASSUME NEW p \in Requests, req'[p] = req[p]
        PROVE  (Grounded(req[p]) /\ KeyIsMine(req[p]) /\ NothingLeft(req[p]))'
    <2>1. Shape(req[p]) /\ Grounded(req[p]) /\ KeyIsMine(req[p]) /\ NothingLeft(req[p])
      BY DEF IInv
    <2>2. /\ req[p].user \in Names \cup {None} /\ req[p].source \in Names \cup {None}
          /\ req[p].name \in Names \cup {None} /\ req[p].token \in Names \cup {None}
      BY DEF IInv, TypeOK, ReqStates
    <2>3. Grounded(req[p])'
      <3>1. req[p].kind \in {"join", "login", "rate"} \cup Purposes => req[p].user \in Names
        BY <2>1, <2>2, <1>1, AccountsAssumption DEF Shape, Known, Names, IInv, TypeOK
      <3>2. req[p].kind \in Purposes => req[p].token \in Names
        BY <2>1 DEF Shape
      <3>3. req[p].phase # "idle" => req[p].name \in Names
        BY <2>1, AccountsAssumption DEF Shape, Names, IInv, TypeOK
      <3> QED  BY <1>4, <2>1, <2>2, <3>1, <3>2, <3>3 DEF Grounded
    <2>4. KeyIsMine(req[p])' /\ NothingLeft(req[p])'
      BY <1>4, <2>1 DEF KeyIsMine, Writes, Linked, NothingLeft, Emptied
    <2> QED  BY <2>3, <2>4
  <1> QED  BY <1>2, <1>3, <1>4, TableStep

(* What a request about to commit has of its record.                       *)
LEMMA Committing ==
  ASSUME IInv, NEW q \in Requests, req[q].phase = "commit"
  PROVE  /\ Shape(req[q]) /\ Grounded(req[q]) /\ KeyIsMine(req[q]) /\ NothingLeft(req[q])
         /\ req[q].name \in Names /\ req[q].name \in Known
         /\ req[q].kind \in {"join", "login", "rate"} \cup Purposes => req[q].user \in Names
         /\ req[q].kind \in Purposes =>
              /\ req[q].token \in Names /\ tokens[req[q].token] \in Tokens
         /\ Known \subseteq Names /\ None \notin Names /\ Lost \notin Names
         /\ \A p \in Requests \ {q} : Apart(req[p], req[q]) /\ Apart(req[q], req[p])
  <1>1. Shape(req[q]) /\ Grounded(req[q]) /\ KeyIsMine(req[q]) /\ NothingLeft(req[q])
    BY DEF IInv
  <1>2. Known \subseteq Names /\ None \notin Names /\ Lost \notin Names
    BY AccountsAssumption DEF IInv, TypeOK, Known, Names
  <1>3. req[q].name \in Known
    BY <1>1 DEF Shape, Known
  <1>4. req[q].kind \in Purposes =>
          /\ req[q].token \in Names /\ tokens[req[q].token] \in Tokens
    BY <1>1 DEF Shape, Grounded, IInv, TypeOK
  <1>5. \A p \in Requests \ {q} : Apart(req[p], req[q]) /\ Apart(req[q], req[p])
    BY DEF IInv
  <1> QED  BY <1>1, <1>2, <1>3, <1>4, <1>5 DEF Shape

(* Redeeming a token leaves every token to its account.                    *)
LEMMA UsedTokens ==
  ASSUME IInv, NEW q \in Requests, req[q].phase = "commit", req[q].kind \in Purposes,
         tokens' = Used(q)
  PROVE  /\ tokens' \in [Names -> Tokens \cup {None}]
         /\ \A t \in Names : (tokens'[t] # None <=> tokens[t] # None)
                             /\ (tokens[t] # None => tokens'[t].user = tokens[t].user)
  <1>1. PICK t : t = req[q].token
    OBVIOUS
  <1>2. t \in Names /\ tokens[t] \in Tokens
    BY <1>1, Committing
  <1>3. PICK x : x = [tokens[t] EXCEPT !.consumed = TRUE, !.redeemed = tokens[t].redeemed + 1]
    OBVIOUS
  <1>4. tokens' = [tokens EXCEPT ![t] = x]
    BY <1>1, <1>2, <1>3 DEF Used, IInv, TypeOK
  <1>5. x \in Tokens /\ x.user = tokens[t].user
    <2>1. /\ tokens[t] \in [purpose : Purposes, user : Names, consumed : BOOLEAN,
                            expired : BOOLEAN, redeemed : Nat]
          /\ tokens[t].redeemed + 1 \in Nat
      BY <1>2 DEF Tokens
    <2>2. /\ x \in [purpose : Purposes, user : Names, consumed : BOOLEAN,
                    expired : BOOLEAN, redeemed : Nat]
          /\ x.consumed = TRUE /\ x.user = tokens[t].user
      BY <1>3, <2>1
    <2> QED  BY <2>2 DEF Tokens
  <1>6. None \notin Tokens
    BY AccountsAssumption
  <1> QED  BY <1>2, <1>4, <1>5, <1>6 DEF IInv, TypeOK

(* A commit that writes a row of an account with more than a chat, and     *)
(* perhaps redeems a token.                                                *)
LEMMA RowCommit ==
  ASSUME IInv, NEW q \in Requests,
         CommitJoin(q) \/ CommitLogin(q) \/ CommitVerify(q) \/ CommitReset(q)
  PROVE  IInv' /\ \A u \in Names : Full(u) => Full(u)'
  <1> DEFINE w == req[q].user
  <1>1. /\ req[q].phase = "commit" /\ req[q].kind \in {"join", "login", "verify", "reset"}
        /\ Ends(q) /\ UNCHANGED <<chat, owner, late, calls>>
    BY DEF CommitJoin, CommitLogin, CommitVerify, CommitReset, history
  <1>2. /\ w \in Names /\ Full(w) /\ user[w] \in Users
        /\ req[q].kind \in {"login", "reset"} => req[q].secret \in Secrets
    BY <1>1, Committing DEF Grounded, Shape, IInv, TypeOK, Full, Purposes
  <1>3. PICK row : user' = [user EXCEPT ![w] = row] /\ row \in Users
                   /\ ~TelegramOnly(row)
    <2>1. CASE CommitJoin(q)
      <3>1. user' = [user EXCEPT ![w] = [user[w] EXCEPT !.oauth = TRUE]]
        BY <1>2, <2>1 DEF CommitJoin, IInv, TypeOK
      <3>2. [user[w] EXCEPT !.oauth = TRUE] \in Users
            /\ [user[w] EXCEPT !.oauth = TRUE].oauth
        BY <1>2 DEF Users
      <3> QED  BY <3>1, <3>2 DEF TelegramOnly
    <2>2. CASE CommitLogin(q) \/ CommitReset(q)
      <3>1. user' = [user EXCEPT ![w] = [user[w] EXCEPT !.password = req[q].secret,
                                                        !.legacy = FALSE]]
        BY <1>2, <2>2 DEF CommitLogin, CommitReset, IInv, TypeOK
      <3>2. req[q].secret \in Secrets /\ req[q].secret # None
        BY <1>2, <2>2, AccountsAssumption DEF CommitLogin, CommitReset
      <3>3. PICK row : row = [user[w] EXCEPT !.password = req[q].secret, !.legacy = FALSE]
        OBVIOUS
      <3>4. row \in Users /\ row.password = req[q].secret
        BY <1>2, <3>2, <3>3 DEF Users
      <3> QED  BY <3>1, <3>2, <3>3, <3>4 DEF TelegramOnly
    <2>3. CASE CommitVerify(q)
      <3>1. user' = [user EXCEPT ![w] = [user[w] EXCEPT !.verified = TRUE]]
        BY <1>2, <2>3 DEF CommitVerify, IInv, TypeOK
      <3>2. PICK row : row = [user[w] EXCEPT !.verified = TRUE]
        OBVIOUS
      <3>3. row \in Users /\ row.email = user[w].email /\ row.password = user[w].password
            /\ row.oauth = user[w].oauth
        BY <1>2, <3>2 DEF Users
      <3> QED  BY <1>2, <3>1, <3>2, <3>3 DEF TelegramOnly, Full
    <2> QED  BY <2>1, <2>2, <2>3
  <1>4. None \notin Users /\ row # None
    BY <1>3, AccountsAssumption
  <1>5. \A u \in Names : (user'[u] = None <=> user[u] = None) /\ (Full(u)' <=> Full(u))
    BY <1>2, <1>3, <1>4 DEF Full, IInv, TypeOK
  <1>6. /\ tokens' \in [Names -> Tokens \cup {None}]
        /\ \A t \in Names : (tokens'[t] # None <=> tokens[t] # None)
                            /\ (tokens[t] # None => tokens'[t].user = tokens[t].user)
    <2>1. CASE tokens' = tokens
      BY <2>1 DEF IInv, TypeOK
    <2>2. CASE req[q].kind \in Purposes /\ tokens' = Used(q)
      BY <1>1, <2>2, UsedTokens
    <2> QED
      BY <2>1, <2>2, <1>1 DEF CommitJoin, CommitLogin, CommitVerify, CommitReset, Purposes
  <1>7. TypeOK'
    <2>1. user' \in [Names -> Users \cup {None}]
      BY <1>3 DEF IInv, TypeOK
    <2>2. req' \in [Requests -> ReqStates]
      BY <1>1, IdleClaims DEF Ends, IInv, TypeOK, Shape
    <2>3. chosen' \in [Names -> Secrets \cup {None}] /\ overtaken' \in SUBSET Names
      BY <1>2 DEF CommitJoin, CommitLogin, CommitVerify, CommitReset, IInv, TypeOK, history
    <2> QED  BY <1>1, <1>6, <2>1, <2>2, <2>3 DEF IInv, TypeOK
  <1>8. \A t \in Names : tokens'[t] # None => Full(tokens'[t].user) /\ tokens'[t].user \in Names
    BY <1>6 DEF IInv, TokensOfFull, TypeOK, Tokens
  <1>9. (\A p \in Requests : req'[p] \in {req[p], Idle}) /\ calls' \in calls..MaxCalls
    BY <1>1 DEF Ends, IInv, TypeOK
  <1> QED  BY <1>1, <1>5, <1>6, <1>7, <1>8, <1>9, RowStep

(* A new token, and a TTL that passes.                                     *)
LEMMA TokenStep ==
  ASSUME IInv,
         \/ \E u \in Names, p \in {"reset", "link"} : Issue(u, p)
         \/ \E t \in Names : Expire(t)
  PROVE  IInv' /\ user' = user /\ chat' = chat
  <1>1. /\ UNCHANGED <<user, chat, owner, late, chosen, overtaken, req>>
        /\ calls' \in calls..MaxCalls /\ calls' \in 0..MaxCalls
    BY AccountsAssumption DEF Issue, Expire, history, IInv, TypeOK
  <1>2. /\ tokens' \in [Names -> Tokens \cup {None}]
        /\ \A t \in Names :
             /\ tokens'[t] # None => Full(tokens'[t].user) /\ tokens'[t].user \in Names
             /\ tokens[t] # None => tokens'[t] # None
    <2>1. ASSUME NEW u \in Names, NEW p \in {"reset", "link"}, Issue(u, p)
          PROVE  <1>2
      <3>1. PICK n : n = calls + 1
        OBVIOUS
      <3>2. n \in Names /\ tokens' = [tokens EXCEPT ![n] = Issued(p, u)] /\ Full(u)
        BY <2>1, <3>1, AccountsAssumption
        DEF Issue, Names, IInv, TypeOK, Full, TelegramOnly
      <3>3. Issued(p, u) \in Tokens /\ Issued(p, u).user = u
        BY DEF Issued, Tokens, Purposes
      <3>4. Issued(p, u) # None
        BY <3>3, AccountsAssumption
      <3> QED  BY <3>2, <3>3, <3>4 DEF IInv, TypeOK, TokensOfFull, Tokens
    <2>2. ASSUME NEW t \in Names, Expire(t)
          PROVE  <1>2
      <3>1. tokens[t] \in Tokens /\ tokens' = [tokens EXCEPT ![t] = [tokens[t] EXCEPT !.expired = TRUE]]
        BY <2>2 DEF Expire, IInv, TypeOK
      <3>2. PICK x : x = [tokens[t] EXCEPT !.expired = TRUE]
        OBVIOUS
      <3>3. x \in Tokens /\ x.user = tokens[t].user
        BY <3>1, <3>2 DEF Tokens
      <3>4. x # None
        BY <3>3, AccountsAssumption
      <3> QED  BY <2>2, <3>1, <3>2, <3>3, <3>4 DEF Expire, IInv, TypeOK, TokensOfFull, Tokens
    <2> QED  BY <2>1, <2>2
  <1>3. TypeOK'
    BY <1>1, <1>2 DEF IInv, TypeOK
  <1>4. \A u \in Names : (user'[u] = None <=> user[u] = None) /\ (Full(u)' <=> Full(u))
    BY <1>1 DEF Full
  <1>5. \A t \in Names :
          /\ tokens'[t] # None => Full(tokens'[t].user) /\ tokens'[t].user \in Names
          /\ tokens[t] # None => tokens'[t] # None
    BY <1>2
  <1> QED  BY <1>1, <1>3, <1>4, <1>5, RowStep

(* A commit that makes an account.                                         *)
LEMMA NewAccount ==
  ASSUME IInv, NEW q \in Requests,
         CommitRegister(q) \/ CommitGoogle(q) \/ CommitStart(q)
  PROVE  /\ IInv'
         /\ \A u \in Names : user[u] # None => user'[u] = user[u] /\ chat'[u] = chat[u]
  <1> DEFINE c == req[q].chat
  <1>1. /\ req[q].phase = "commit" /\ req[q].kind \in Makers
        /\ Ends(q) /\ UNCHANGED <<owner, late, overtaken, calls>>
    BY DEF CommitRegister, CommitGoogle, CommitStart, history, Makers
  <1>2. PICK n : n = req[q].name
    OBVIOUS
  <1>3. n \in Names /\ n \in Known /\ user[n] = None /\ chat[n] = None
    BY <1>1, <1>2, Committing DEF Grounded
  <1>4. PICK row : /\ user' = [user EXCEPT ![n] = row] /\ row \in Users
                   /\ ~CommitStart(q) => ~TelegramOnly(row)
                   /\ CommitStart(q) => TelegramOnly(row)
    <2>1. CASE CommitRegister(q)
      <3>1. user' = [user EXCEPT ![n] = [NewUser EXCEPT !.email = req[q].email,
                                                        !.password = req[q].secret]]
        BY <1>2, <2>1 DEF CommitRegister
      <3>2. req[q].email \in Emails /\ req[q].secret \in Secrets /\ req[q].email # None
        BY <1>1, <2>1, Committing, AccountsAssumption DEF CommitRegister, Shape
      <3>3. PICK row : row = [NewUser EXCEPT !.email = req[q].email, !.password = req[q].secret]
        OBVIOUS
      <3>4. row \in Users /\ row.email = req[q].email
        BY <3>2, <3>3 DEF Users, NewUser
      <3>5. ~CommitStart(q)
        BY <2>1 DEF CommitRegister, CommitStart
      <3> QED  BY <3>1, <3>2, <3>3, <3>4, <3>5 DEF TelegramOnly
    <2>2. CASE CommitGoogle(q)
      <3>1. user' = [user EXCEPT ![n] = [NewUser EXCEPT !.email = req[q].email,
                                                        !.oauth = TRUE, !.verified = TRUE]]
        BY <1>2, <2>2 DEF CommitGoogle
      <3>2. req[q].email \in Emails /\ req[q].email # None
        BY <1>1, <2>2, Committing, AccountsAssumption DEF CommitGoogle, Shape
      <3>3. PICK row : row = [NewUser EXCEPT !.email = req[q].email,
                                             !.oauth = TRUE, !.verified = TRUE]
        OBVIOUS
      <3>4. row \in Users /\ row.email = req[q].email
        BY <3>2, <3>3 DEF Users, NewUser
      <3>5. ~CommitStart(q)
        BY <2>2 DEF CommitGoogle, CommitStart
      <3> QED  BY <3>1, <3>2, <3>3, <3>4, <3>5 DEF TelegramOnly
    <2>3. CASE CommitStart(q)
      <3>1. user' = [user EXCEPT ![n] = NewUser]
        BY <1>2, <2>3 DEF CommitStart
      <3>2. NewUser \in Users /\ TelegramOnly(NewUser)
        BY DEF Users, NewUser, TelegramOnly
      <3> QED  BY <2>3, <3>1, <3>2
    <2> QED  BY <2>1, <2>2, <2>3
  <1>5. row # None
    BY <1>4, AccountsAssumption
  <1>6. /\ \A u \in Names \ {n} : user'[u] = user[u] /\ (Full(u)' <=> Full(u))
        /\ user'[n] = row /\ (Full(n)' <=> ~CommitStart(q)) /\ ~Full(n)
    BY <1>3, <1>4, <1>5 DEF Full, IInv, TypeOK
  <1>7. /\ CommitStart(q) => c \in Chats /\ c # None /\ Writes(req[q])
                             /\ \A u \in Names : chat[u] # c
        /\ chat' = IF CommitStart(q) THEN [chat EXCEPT ![n] = c] ELSE chat
    <2>1. ASSUME CommitStart(q)
          PROVE  /\ c \in Chats /\ c # None /\ Writes(req[q])
                 /\ \A u \in Names : chat[u] # c
      <3>1. req[q].kind = "start" /\ req[q].user = None /\ req[q].source = None
            /\ req[q].had = None /\ c \in Chats /\ c # None
        BY <2>1, <1>1, Committing, AccountsAssumption DEF CommitStart, Shape
      <3>2. Writes(req[q])
        BY <1>1, <3>1 DEF Writes
      <3>3. None \notin Names /\ Linked(c) \subseteq {req[q].user, req[q].source}
        BY <1>1, <3>2, Committing DEF KeyIsMine
      <3> QED  BY <3>1, <3>2, <3>3 DEF Linked
    <2> QED
      BY <1>2, <2>1 DEF CommitRegister, CommitGoogle, CommitStart
  <1>8. /\ tokens' \in [Names -> Tokens \cup {None}]
        /\ chosen' \in [Names -> Secrets \cup {None}]
        /\ \A t \in Names :
             /\ tokens'[t] # None =>
                  \/ tokens[t] # None /\ tokens'[t] = tokens[t]
                  \/ tokens'[t].user = n /\ Full(n)'
             /\ tokens[t] # None => tokens'[t] # None
    <2>1. CASE CommitRegister(q)
      <3>1. tokens' = [tokens EXCEPT ![n] = Issued("verify", n)]
        BY <1>2, <2>1 DEF CommitRegister
      <3>2. chosen' = [chosen EXCEPT ![n] = req[q].secret] /\ req[q].secret \in Secrets
        BY <1>1, <1>2, <2>1, Committing DEF CommitRegister, Shape
      <3>3. Issued("verify", n) \in Tokens /\ Issued("verify", n).user = n
        BY <1>3 DEF Issued, Tokens, Purposes
      <3>4. Issued("verify", n) # None
        BY <3>3, AccountsAssumption
      <3>5. Full(n)'
        BY <1>6, <2>1 DEF CommitRegister, CommitStart
      <3> QED  BY <1>3, <3>1, <3>2, <3>3, <3>4, <3>5 DEF IInv, TypeOK
    <2>2. CASE CommitGoogle(q) \/ CommitStart(q)
      <3>1. tokens' = tokens /\ chosen' = chosen
        BY <2>2 DEF CommitGoogle, CommitStart, history
      <3> QED  BY <3>1 DEF IInv, TypeOK
    <2> QED  BY <2>1, <2>2
  <1>9. TypeOK'
    <2>1. user' \in [Names -> Users \cup {None}] /\ chat' \in [Names -> Chats \cup {None}]
      BY <1>3, <1>4, <1>7 DEF IInv, TypeOK
    <2>2. req' \in [Requests -> ReqStates]
      BY <1>1, IdleClaims DEF Ends, IInv, TypeOK, Shape
    <2> QED  BY <1>1, <1>8, <2>1, <2>2 DEF IInv, TypeOK
  <1>10. UsersKnown' /\ TokensOfFull'
    <2>1. UsersKnown'
      BY <1>1, <1>3, <1>6 DEF IInv, UsersKnown, Known
    <2>2. ASSUME NEW t \in Names, tokens'[t] # None
          PROVE  Full(tokens[t].user)'
      <3>1. CASE tokens[t] # None /\ tokens'[t] = tokens[t]
        <4>1. PICK u \in Names : u = tokens[t].user
          BY <3>1 DEF IInv, TypeOK, Tokens
        <4>2. Full(u)
          BY <3>1, <4>1 DEF IInv, TokensOfFull
        <4>3. Full(u)'
          BY <1>6, <4>2
        <4> QED  BY <3>1, <4>1, <4>3 DEF Full
      <3>2. CASE tokens'[t].user = n /\ Full(n)'
        BY <3>2 DEF Full
      <3> QED  BY <1>8, <2>2, <3>1, <3>2
    <2> QED  BY <2>1, <2>2 DEF TokensOfFull
  <1>11. ChatsIdentify'
    <2>1. ASSUME NEW u \in Names, chat'[u] # None
          PROVE  user'[u] # None /\ \A v \in Names : chat'[v] = chat'[u] => v = u
      BY <1>3, <1>5, <1>6, <1>7, <2>1 DEF IInv, TypeOK, ChatsIdentify
    <2>2. ASSUME NEW u \in Names, user'[u] # None, TelegramOnly(user'[u])
          PROVE  chat'[u] # None
      BY <1>3, <1>4, <1>6, <1>7, <2>2 DEF IInv, TypeOK, ChatsIdentify
    <2> QED  BY <2>1, <2>2 DEF ChatsIdentify
  <1>12. ItemsFollow'
    BY <1>1, <1>5, <1>6 DEF IInv, ItemsFollow
  <1>13. ASSUME NEW p \in Requests, req'[p] = req[p]
         PROVE  (Grounded(req[p]) /\ KeyIsMine(req[p]) /\ NothingLeft(req[p]))'
    <2>1. Shape(req[p]) /\ Grounded(req[p]) /\ KeyIsMine(req[p]) /\ NothingLeft(req[p])
      BY DEF IInv
    <2>2. p # q
      BY <1>1, <1>13 DEF Ends, Idle, IInv, TypeOK
    <2>3. Apart(req[q], req[p]) /\ Apart(req[p], req[q])
      BY <2>2 DEF IInv
    <2>4. /\ Known \subseteq Names /\ None \notin Names
          /\ req[p].phase # "idle" => req[p].name \in Names
      BY <2>1, <1>1, Committing, AccountsAssumption DEF Shape, Names, IInv, TypeOK
    <2>5. Grounded(req[p])'
      <3>1. req[p].kind \in {"join", "login"} \cup Purposes => Full(req[p].user)'
        <4>1. req[p].kind \in {"join", "login"} \cup Purposes => req[p].user \in Names
          BY <2>1, <2>4 DEF Shape
        <4> QED  BY <1>6, <1>13, <2>1, <4>1 DEF Grounded, Full
      <3>2. req[p].kind \in Purposes => tokens'[req[p].token] # None
        BY <1>8, <2>1 DEF Grounded, Shape
      <3>3. (req[p].kind = "rate" /\ req[p].phase = "commit") => user'[req[p].user] # None
        BY <1>5, <1>6, <2>1, <2>4 DEF Grounded, Shape
      <3>4. req[p].source # None => req[p].source \in Names \ {n} /\ ~Full(req[p].source)
        BY <1>1, <1>2, <2>1, <2>3, <2>4 DEF Apart, Shape, Grounded
      <3>5. req[p].source # None => ~Full(req[p].source)'
        BY <1>6, <1>13, <3>4 DEF Full
      <3>6. (req[p].kind \in Makers /\ req[p].phase # "idle") =>
              user'[req[p].name] = None /\ chat'[req[p].name] = None
        BY <1>1, <1>2, <1>3, <1>6, <1>7, <2>1, <2>3, <2>4 DEF Apart, Grounded, IInv, TypeOK
      <3> QED
        BY <1>13, <3>1, <3>2, <3>3, <3>5, <3>6 DEF Grounded, Full
    <2>6. KeyIsMine(req[p])'
      <3>1. Writes(req[p]) /\ CommitStart(q) => req[p].chat # c
        BY <1>7, <2>3 DEF Apart
      <3>2. Writes(req[p]) => \A u \in Names : chat'[u] = req[p].chat => chat[u] = req[p].chat
        BY <1>3, <1>7, <3>1 DEF IInv, TypeOK
      <3> QED
        BY <1>13, <2>1, <3>2 DEF KeyIsMine, Linked, Writes
    <2>7. NothingLeft(req[p])'
      BY <1>1, <1>13, <2>1 DEF NothingLeft, Emptied
    <2> QED  BY <2>5, <2>6, <2>7
  <1>14. (\A p \in Requests : req'[p] \in {req[p], Idle}) /\ calls' \in calls..MaxCalls
    BY <1>1 DEF Ends, IInv, TypeOK
  <1>15. \A u \in Names : user[u] # None => user'[u] = user[u] /\ chat'[u] = chat[u]
    BY <1>3, <1>6, <1>7 DEF IInv, TypeOK
  <1> QED  BY <1>9, <1>10, <1>11, <1>12, <1>13, <1>14, <1>15, TableStep

(* A commit that links a chat, and with it absorbs an account.             *)
LEMMA LinkCommit ==
  ASSUME IInv, NEW q \in Requests, CommitLink(q)
  PROVE  /\ IInv'
         /\ \A u \in Names : Full(u) =>
              /\ Full(u)'
              /\ chat'[u] # chat[u] => u = req[q].user /\ chat'[u] = req[q].chat
  <1>1. PICK r : r = req[q]
    OBVIOUS
  <1>2. /\ r.phase = "commit" /\ r.kind = "link" /\ Ends(q) /\ tokens' = Used(q)
        /\ UNCHANGED <<late, chosen, overtaken, calls>>
        /\ user' = [u \in Names |-> IF u = r.source THEN None ELSE user[u]]
        /\ chat' = [u \in Names |-> IF u = r.source THEN None
                                   ELSE IF u = r.user /\ Wrote(q) THEN r.chat ELSE chat[u]]
        /\ owner' = [i \in Names |-> IF i \in r.moved THEN r.user
                                    ELSE IF owner[i] = r.source /\ r.source # None THEN Lost
                                    ELSE owner[i]]
    BY <1>1 DEF CommitLink, history
  <1>3. /\ r.user \in Names /\ Full(r.user) /\ r.chat \in Chats /\ r.chat # None
        /\ r.token \in Names /\ tokens[r.token] \in Tokens
        /\ r.source # None => r.source \in Names /\ ~Full(r.source) /\ Emptied(r)
        /\ r.source = None => r.moved = {}
        /\ r.source # r.user /\ NothingLeft(r) /\ KeyIsMine(r)
        /\ Wrote(q) <=> Writes(r)
        /\ Known \subseteq Names /\ None \notin Names /\ Lost \notin Names
    BY <1>1, <1>2, Committing, AccountsAssumption
    DEF Shape, Grounded, Purposes, Wrote, Writes, Emptied
  <1>4. /\ \A u \in Names : user'[u] = IF u = r.source THEN None ELSE user[u]
        /\ \A u \in Names : chat'[u] = IF u = r.source THEN None
                                      ELSE IF u = r.user /\ Writes(r) THEN r.chat ELSE chat[u]
        /\ \A i \in Names : owner'[i] = IF i \in r.moved THEN r.user
                                       ELSE IF owner[i] = r.source /\ r.source # None THEN Lost
                                       ELSE owner[i]
    BY <1>2, <1>3
  <1>5. /\ \A u \in Names : Full(u)' <=> Full(u)
    BY <1>3, <1>4 DEF Full
  <1>6. /\ tokens' \in [Names -> Tokens \cup {None}]
        /\ \A t \in Names : (tokens'[t] # None <=> tokens[t] # None)
                            /\ (tokens[t] # None => tokens'[t].user = tokens[t].user)
    BY <1>1, <1>2, <1>3, UsedTokens DEF Purposes
  <1>7. TypeOK'
    <2>1. user' \in [Names -> Users \cup {None}] /\ chat' \in [Names -> Chats \cup {None}]
          /\ owner' \in [Names -> Names \cup {None, Lost}]
      BY <1>2, <1>3 DEF IInv, TypeOK
    <2>2. req' \in [Requests -> ReqStates]
      BY <1>2, IdleClaims DEF Ends, IInv, TypeOK, Shape
    <2> QED  BY <1>2, <1>6, <2>1, <2>2 DEF IInv, TypeOK
  <1>8. UsersKnown' /\ TokensOfFull'
    <2>1. UsersKnown'
      BY <1>2, <1>4 DEF IInv, UsersKnown, Known
    <2>2. ASSUME NEW t \in Names, tokens'[t] # None
          PROVE  Full(tokens[t].user)' /\ tokens'[t].user = tokens[t].user
      <3>1. PICK u \in Names : u = tokens[t].user
        BY <1>6, <2>2 DEF IInv, TypeOK, Tokens
      <3> QED  BY <1>5, <1>6, <2>2, <3>1 DEF IInv, TokensOfFull
    <2> QED  BY <2>1, <2>2 DEF TokensOfFull, Full
  <1>9. ChatsIdentify'
    <2>1. ASSUME NEW u \in Names, chat'[u] # None
          PROVE  user'[u] # None
      BY <1>3, <1>4, <2>1 DEF IInv, ChatsIdentify, Full
    <2>2. ASSUME NEW u \in Names, NEW v \in Names, chat'[u] # None, chat'[v] = chat'[u]
          PROVE  v = u
      <3>1. Writes(r) => \A w \in Names : chat[w] = r.chat => w \in {r.user, r.source}
        BY <1>3 DEF KeyIsMine, Linked
      <3> QED  BY <1>3, <1>4, <2>2, <3>1 DEF IInv, ChatsIdentify
    <2>3. ASSUME NEW u \in Names, user'[u] # None, TelegramOnly(user'[u])
          PROVE  chat'[u] # None
      BY <1>3, <1>4, <2>3 DEF IInv, ChatsIdentify, Full
    <2> QED  BY <2>1, <2>2, <2>3 DEF ChatsIdentify
  <1>10. ItemsFollow'
    <2>1. ASSUME NEW i \in Names, owner'[i] = Lost
          PROVE  i \in late'
      BY <1>2, <1>3, <1>4, <2>1 DEF IInv, ItemsFollow, NothingLeft
    <2>2. ASSUME NEW i \in Names, owner'[i] \in Names
          PROVE  user'[owner'[i]] # None
      <3>1. CASE i \in r.moved
        BY <1>3, <1>4, <3>1 DEF Full
      <3>2. CASE i \notin r.moved
        BY <1>3, <1>4, <2>2, <3>2 DEF IInv, ItemsFollow
      <3> QED  BY <3>1, <3>2
    <2> QED  BY <2>1, <2>2 DEF ItemsFollow
  <1>11. ASSUME NEW p \in Requests, req'[p] = req[p]
         PROVE  (Grounded(req[p]) /\ KeyIsMine(req[p]) /\ NothingLeft(req[p]))'
    <2>1. Shape(req[p]) /\ Grounded(req[p]) /\ KeyIsMine(req[p]) /\ NothingLeft(req[p])
      BY DEF IInv
    <2>2. p # q
      BY <1>1, <1>2, <1>11 DEF Ends, Idle, IInv, TypeOK
    <2>3. Apart(r, req[p]) /\ Apart(req[p], r)
      BY <1>1, <2>2 DEF IInv
    <2>4. /\ req[p].phase # "idle" => req[p].name \in Names
          /\ req[p].source # None => req[p].source \in Names
          /\ req[p].kind \in {"join", "login", "rate"} \cup Purposes => req[p].user \in Names
          /\ req[p].kind \in Purposes => req[p].token \in Names
      BY <2>1, <1>3, AccountsAssumption DEF Shape, Names, IInv, TypeOK
    <2>5. Grounded(req[p])'
      <3>1. req[p].kind \in {"join", "login"} \cup Purposes => Full(req[p].user)'
        BY <1>5, <1>11, <2>1, <2>4 DEF Grounded, Full
      <3>2. req[p].kind \in Purposes => tokens'[req[p].token] # None
        BY <1>6, <2>1, <2>4 DEF Grounded
      <3>3. (req[p].kind = "rate" /\ req[p].phase = "commit") => user'[req[p].user] # None
        <4>1. (req[p].kind = "rate" /\ req[p].phase = "commit") => req[p].user # r.source
          BY <1>2, <1>3, <2>3, <2>4 DEF Apart, Bereaves
        <4> QED  BY <1>4, <2>1, <2>4, <4>1 DEF Grounded
      <3>4. req[p].source # None => ~Full(req[p].source)'
        BY <1>5, <1>11, <2>1, <2>4 DEF Grounded, Full
      <3>5. (req[p].kind \in Makers /\ req[p].phase # "idle") =>
              user'[req[p].name] = None /\ chat'[req[p].name] = None
        BY <1>4, <2>1, <2>3, <2>4 DEF Apart, Grounded
      <3> QED
        BY <1>11, <3>1, <3>2, <3>3, <3>4, <3>5 DEF Grounded, Full
    <2>6. KeyIsMine(req[p])'
      <3>1. Writes(req[p]) /\ Writes(r) => req[p].chat # r.chat
        BY <2>3 DEF Apart
      <3>2. Writes(req[p]) => req[p].chat # None
        BY <2>1, AccountsAssumption DEF Shape, Writes
      <3>3. Writes(req[p]) => \A u \in Names : chat'[u] = req[p].chat => chat[u] = req[p].chat
        BY <1>4, <3>1, <3>2
      <3> QED
        BY <1>11, <2>1, <3>3 DEF KeyIsMine, Linked, Writes
    <2>7. NothingLeft(req[p])'
      <3>1. Emptied(req[p]) => req[p].source # r.user /\ req[p].source # Lost
        BY <1>3, <2>1, <2>4 DEF Emptied, Grounded
      <3>2. Emptied(req[p]) =>
              \A i \in Names : owner'[i] = req[p].source => owner[i] = req[p].source
        BY <1>4, <3>1
      <3> QED
        BY <1>2, <1>11, <2>1, <3>2 DEF NothingLeft, Emptied
    <2> QED  BY <2>5, <2>6, <2>7
  <1>12. (\A p \in Requests : req'[p] \in {req[p], Idle}) /\ calls' \in calls..MaxCalls
    BY <1>2 DEF Ends, IInv, TypeOK
  <1>13. \A u \in Names : Full(u) =>
           /\ Full(u)'
           /\ chat'[u] # chat[u] => u = req[q].user /\ chat'[u] = req[q].chat
    BY <1>1, <1>3, <1>4, <1>5
  <1> QED  BY <1>7, <1>8, <1>9, <1>10, <1>11, <1>12, <1>13, TableStep

(* A commit of an item the bot inserts.                                    *)
LEMMA RateCommit ==
  ASSUME IInv, NEW q \in Requests, CommitRate(q)
  PROVE  IInv' /\ user' = user /\ chat' = chat
  <1>1. PICK r : r = req[q]
    OBVIOUS
  <1>2. /\ r.phase = "commit" /\ r.kind = "rate" /\ Ends(q)
        /\ UNCHANGED <<user, chat, tokens, chosen, overtaken, calls>>
        /\ owner' = [owner EXCEPT ![r.name] = r.user]
        /\ late' = IF \E p \in Requests : req[p].phase = "delete" /\ req[p].source = r.user
                     THEN late \cup {r.name} ELSE late
    BY <1>1 DEF CommitRate
  <1>3. /\ r.user \in Names /\ user[r.user] # None /\ r.name \in Names
        /\ None \notin Names /\ Lost \notin Names
    BY <1>1, <1>2, Committing DEF Grounded
  <1>4. late \subseteq late'
    BY <1>2
  <1>5. TypeOK'
    <2>1. owner' \in [Names -> Names \cup {None, Lost}] /\ late' \in SUBSET Names
      BY <1>2, <1>3 DEF IInv, TypeOK
    <2>2. req' \in [Requests -> ReqStates]
      BY <1>2, IdleClaims DEF Ends, IInv, TypeOK, Shape
    <2> QED  BY <1>2, <2>1, <2>2 DEF IInv, TypeOK
  <1>6. \A i \in Names : owner'[i] = IF i = r.name THEN r.user ELSE owner[i]
    BY <1>2 DEF IInv, TypeOK
  <1>7. UsersKnown' /\ TokensOfFull' /\ ChatsIdentify'
    BY <1>2 DEF IInv, UsersKnown, TokensOfFull, ChatsIdentify, Full, Known
  <1>8. ItemsFollow'
    BY <1>2, <1>3, <1>4, <1>6 DEF IInv, ItemsFollow
  <1>9. ASSUME NEW p \in Requests, req'[p] = req[p]
        PROVE  (Grounded(req[p]) /\ KeyIsMine(req[p]) /\ NothingLeft(req[p]))'
    <2>1. Shape(req[p]) /\ Grounded(req[p]) /\ KeyIsMine(req[p]) /\ NothingLeft(req[p])
      BY DEF IInv
    <2>2. p # q
      BY <1>1, <1>2, <1>9 DEF Ends, Idle, IInv, TypeOK
    <2>3. Apart(req[p], r)
      BY <1>1, <2>2 DEF IInv
    <2>4. Grounded(req[p])' /\ KeyIsMine(req[p])'
      BY <1>2, <1>9, <2>1 DEF Grounded, Full, KeyIsMine, Writes, Linked
    <2>5. NothingLeft(req[p])'
      <3>1. Emptied(req[p]) /\ req[p].source = r.user => r.name \in late'
        BY <1>2, <2>3 DEF Emptied, Apart, Bereaves
      <3> QED
        BY <1>4, <1>6, <1>9, <2>1, <3>1 DEF NothingLeft, Emptied
    <2> QED  BY <2>4, <2>5
  <1>10. (\A p \in Requests : req'[p] \in {req[p], Idle}) /\ calls' \in calls..MaxCalls
    BY <1>2 DEF Ends, IInv, TypeOK
  <1> QED  BY <1>2, <1>5, <1>7, <1>8, <1>9, <1>10, TableStep

-----------------------------------------------------------------------------
(* The theorems.                                                           *)

LEMMA InitInv == Init => IInv
  <1> SUFFICES ASSUME Init PROVE IInv
    OBVIOUS
  <1> USE AccountsAssumption
  <1>1. /\ \A u \in Names : user[u] = IF u \in Old THEN OldUser[u] ELSE None
        /\ \A u \in Names : chat[u] = IF u \in Old THEN OldChat[u] ELSE None
        /\ \A i \in Names : owner[i] = IF i \in Old THEN i ELSE None
        /\ calls = 0 /\ late = {} /\ overtaken = {}
        /\ \A q \in Requests : req[q] = Idle
    BY DEF Init
  <1>2. Old \subseteq Names /\ Old \subseteq Known /\ None \notin Names /\ Lost \notin Names
    BY DEF Names, Known
  <1>3. \A t \in Names :
          /\ tokens[t] \in Tokens \cup {None}
          /\ tokens[t] # None => t \in Old /\ OldChat[t] = None /\ tokens[t].user = t
    <2>1. \A t \in Names : /\ Issued("link", t) \in Tokens /\ Issued("link", t).user = t
      BY DEF Issued, Tokens, Purposes
    <2> QED  BY <2>1 DEF Init
  <1>4. TypeOK
    <2>1. user \in [Names -> Users \cup {None}] /\ chat \in [Names -> Chats \cup {None}]
      BY <1>2 DEF Init
    <2>2. tokens \in [Names -> Tokens \cup {None}]
      BY <1>3 DEF Init
    <2>3. owner \in [Names -> Names \cup {None, Lost}]
      BY <1>2 DEF Init
    <2>4. chosen \in [Names -> Secrets \cup {None}]
      BY <1>2 DEF Init, Users
    <2>5. req \in [Requests -> ReqStates]
      BY IdleClaims DEF Init, Shape
    <2> QED  BY <1>1, <2>1, <2>2, <2>3, <2>4, <2>5 DEF TypeOK
  <1>5. \A u \in Old : OldUser[u] # None
    OBVIOUS
  <1>6. UsersKnown /\ TokensOfFull
    BY <1>1, <1>2, <1>3, <1>5 DEF UsersKnown, TokensOfFull, Full
  <1>7. ChatsIdentify
    BY <1>1, <1>2, <1>5 DEF ChatsIdentify
  <1>8. ItemsFollow
    BY <1>1, <1>2, <1>5 DEF ItemsFollow
  <1>9. \A q \in Requests : /\ Shape(req[q]) /\ Grounded(req[q])
                            /\ KeyIsMine(req[q]) /\ NothingLeft(req[q])
    BY <1>1, IdleClaims
  <1>10. Apart(Idle, Idle)
    BY DEF Apart, Idle, Makers, Writes, Bereaves
  <1> QED  BY <1>1, <1>4, <1>6, <1>7, <1>8, <1>9, <1>10 DEF IInv

LEMMA StutterInv ==
  ASSUME IInv, UNCHANGED vars
  PROVE  IInv'
  BY DEF vars, IInv, TypeOK, UsersKnown, TokensOfFull, ChatsIdentify, ItemsFollow, Shape,
     Grounded, KeyIsMine, NothingLeft, Apart, Bereaves, Writes, Emptied, Full, Known, Linked

LEMMA NextInv ==
  ASSUME IInv, Next
  PROVE  IInv'
  <1>1. ASSUME NEW q \in Requests, Call(q) PROVE IInv'
    BY <1>1, CallStep
  <1>2. ASSUME NEW q \in Requests, Step(q) PROVE IInv'
    BY <1>2, StatementStep, NewAccount, RowCommit, LinkCommit, RateCommit DEF Step
  <1>3. ASSUME NEW q \in Requests, Fail(q) PROVE IInv'
    BY <1>3, RollBackStep DEF Fail
  <1>4. ASSUME NEW u \in Names, NEW p \in {"reset", "link"}, Issue(u, p) PROVE IInv'
    BY <1>4, TokenStep
  <1>5. ASSUME NEW t \in Names, Expire(t) PROVE IInv'
    BY <1>5, TokenStep
  <1> QED  BY <1>1, <1>2, <1>3, <1>4, <1>5 DEF Next

LEMMA InvariantHolds == Spec => []IInv
  <1>1. Init => IInv
    BY InitInv
  <1>2. IInv /\ [Next]_vars => IInv'
    BY NextInv, StutterInv
  <1> QED  BY <1>1, <1>2, PTL DEF Spec

(* Accounts, channels, tokens, items and open transactions are well typed  *)
(* in every reachable state.                                               *)
THEOREM TypeCorrect == Spec => []TypeOK
  <1>1. IInv => TypeOK
    BY DEF IInv
  <1> QED  BY <1>1, InvariantHolds, PTL

(* However many registrations, links and absorptions run at once, a chat   *)
(* identifies one account and an account the bot made has its chat.        *)
THEOREM ChatsAreIdentities == Spec => []ChatsIdentify
  <1>1. IInv => ChatsIdentify
    BY DEF IInv
  <1> QED  BY <1>1, InvariantHolds, PTL

(* What an absorbed account owned is the absorbing account's, but for what *)
(* was committed between absorb's UPDATEs and its DELETE.                  *)
THEOREM ItemsAreFollowed == Spec => []ItemsFollow
  <1>1. IInv => ItemsFollow
    BY DEF IInv
  <1> QED  BY <1>1, InvariantHolds, PTL

(* No step takes an account with an e-mail away, or its chat other than by *)
(* a link of its own.                                                      *)
THEOREM FullAccountsStay == Spec => FullAccountsKept
  <1>1. IInv /\ [Next]_vars => [KeepsFullAccounts]_vars
    <2> SUFFICES ASSUME IInv, Next PROVE KeepsFullAccounts
      OBVIOUS
    <2>1. CASE user' = user /\ chat' = chat
      BY <2>1 DEF KeepsFullAccounts
    <2>2. ASSUME NEW q \in Requests, Call(q) \/ Fail(q) PROVE KeepsFullAccounts
      <3>1. user' = user /\ chat' = chat
        BY <2>2 DEF Call, Fail, RollBack, tables, Begin, Register, Google, JoinGoogle, Login,
             Rate, Verify, ResetPassword, Start, Link
      <3> QED  BY <2>1, <3>1
    <2>3. ASSUME NEW q \in Requests, Step(q) PROVE KeepsFullAccounts
      <3>1. CASE CommitRegister(q) \/ CommitGoogle(q) \/ CommitStart(q)
        BY <3>1, NewAccount DEF KeepsFullAccounts
      <3>2. CASE CommitJoin(q) \/ CommitLogin(q) \/ CommitVerify(q) \/ CommitReset(q)
        <4>1. chat' = chat
          BY <3>2 DEF CommitJoin, CommitLogin, CommitVerify, CommitReset
        <4> QED  BY <3>2, <4>1, RowCommit DEF KeepsFullAccounts, Full
      <3>3. CASE CommitLink(q)
        <4>1. req[q].kind = "link" /\ req[q].phase = "commit"
          BY <3>3 DEF CommitLink
        <4> QED  BY <3>3, <4>1, LinkCommit DEF KeepsFullAccounts, Full
      <3>4. CASE CommitRate(q)
        BY <2>1, <3>4, RateCommit
      <3>5. CASE \/ InsertUser(q) \/ InsertAccount(q) \/ ReadOwner(q) \/ MoveItems(q)
                 \/ DeleteSource(q) \/ ReadChannel(q) \/ WriteChannel(q) \/ KeepChannel(q)
                 \/ InsertItem(q)
        <4>1. user' = user /\ chat' = chat
          BY <3>5 DEF InsertUser, InsertAccount, ReadOwner, MoveItems, DeleteSource,
               ReadChannel, WriteChannel, KeepChannel, InsertItem, RollBack, Goes, tables
        <4> QED  BY <2>1, <4>1
      <3> QED  BY <2>3, <3>1, <3>2, <3>3, <3>4, <3>5 DEF Step
    <2>4. ASSUME NEW u \in Names, NEW p \in {"reset", "link"}, Issue(u, p) PROVE KeepsFullAccounts
      BY <2>1, <2>4, TokenStep
    <2>5. ASSUME NEW t \in Names, Expire(t) PROVE KeepsFullAccounts
      BY <2>1, <2>5, TokenStep
    <2> QED  BY <2>2, <2>3, <2>4, <2>5 DEF Next
  <1> QED  BY <1>1, InvariantHolds, PTL DEF Spec, FullAccountsKept

-----------------------------------------------------------------------------
(* Passwords.                                                              *)

(* Whoever has ever chosen a password has an account of his own: it is     *)
(* neither absorbed nor made anew under the same name.                     *)
ChoosersAreFull == \A u \in Names : chosen[u] # None => Full(u)

PasswordInv == ChoosersAreFull /\ PasswordAsChosen

(* Steps that write neither a row of users nor a choice.                   *)
LEMMA OtherSteps ==
  ASSUME IInv, Next,
         ~ \E q \in Requests :
             \/ CommitRegister(q) \/ CommitGoogle(q) \/ CommitStart(q) \/ CommitJoin(q)
             \/ CommitLogin(q) \/ CommitVerify(q) \/ CommitReset(q) \/ CommitLink(q)
  PROVE  UNCHANGED <<user, chosen, overtaken>>
  <1> USE DEF tables, history
  <1>1. ASSUME NEW q \in Requests, Call(q) \/ Fail(q)
        PROVE  UNCHANGED <<user, chosen, overtaken>>
    BY <1>1 DEF Call, Fail, RollBack, Begin, Register, Google, JoinGoogle, Login, Rate, Verify,
         ResetPassword, Start, Link
  <1>2. ASSUME NEW q \in Requests, Step(q)
        PROVE  UNCHANGED <<user, chosen, overtaken>>
    <2>1. \/ InsertUser(q) \/ InsertAccount(q) \/ ReadOwner(q) \/ MoveItems(q)
          \/ DeleteSource(q) \/ ReadChannel(q) \/ WriteChannel(q) \/ KeepChannel(q)
          \/ InsertItem(q) \/ CommitRate(q)
      BY <1>2 DEF Step
    <2> QED
      BY <2>1 DEF InsertUser, InsertAccount, ReadOwner, MoveItems, DeleteSource, ReadChannel,
           WriteChannel, KeepChannel, InsertItem, CommitRate, RollBack, Goes
  <1>3. ASSUME NEW u \in Names, NEW p \in {"reset", "link"}, Issue(u, p)
        PROVE  UNCHANGED <<user, chosen, overtaken>>
    BY <1>3 DEF Issue
  <1>4. ASSUME NEW t \in Names, Expire(t)
        PROVE  UNCHANGED <<user, chosen, overtaken>>
    BY <1>4 DEF Expire
  <1> QED  BY <1>1, <1>2, <1>3, <1>4 DEF Next

LEMMA PasswordStep ==
  ASSUME IInv, PasswordInv, Next
  PROVE  PasswordInv'
  <1> USE DEF PasswordInv
  <1>0. /\ user \in [Names -> Users \cup {None}] /\ chosen \in [Names -> Secrets \cup {None}]
        /\ overtaken \in SUBSET Names /\ None \notin Users
    BY AccountsAssumption DEF IInv, TypeOK
  <1>1. ASSUME UNCHANGED <<user, chosen, overtaken>> PROVE PasswordInv'
    BY <1>1 DEF ChoosersAreFull, PasswordAsChosen, Full
  <1>2. ASSUME NEW q \in Requests, CommitRegister(q) \/ CommitGoogle(q) \/ CommitStart(q)
        PROVE  PasswordInv'
    <2> DEFINE n == req[q].name
    <2>1. n \in Names /\ user[n] = None /\ overtaken' = overtaken
      <3>1. req[q].phase = "commit" /\ req[q].kind \in Makers
        BY <1>2 DEF CommitRegister, CommitGoogle, CommitStart, Makers
      <3> QED
        BY <1>2, <3>1, Committing
        DEF Grounded, CommitRegister, CommitGoogle, CommitStart, history
    <2>2. chosen[n] = None
      BY <2>1 DEF ChoosersAreFull, Full
    <2>3. PICK row : /\ user' = [user EXCEPT ![n] = row]
                     /\ chosen' = [chosen EXCEPT ![n] = row.password]
                     /\ row.password # None => row # None /\ ~TelegramOnly(row)
      <3>1. CASE CommitRegister(q)
        <4> DEFINE row == [NewUser EXCEPT !.email = req[q].email, !.password = req[q].secret]
        <4>1. row.password = req[q].secret /\ row.email = req[q].email
          BY DEF NewUser
        <4>2. req[q].email \in Emails /\ req[q].secret \in Secrets
          BY <3>1 DEF CommitRegister, IInv, Shape
        <4>3. row \in Users
          BY <4>2 DEF NewUser, Users
        <4>4. row # None /\ ~TelegramOnly(row)
          BY <1>0, <4>1, <4>2, <4>3, AccountsAssumption DEF TelegramOnly
        <4> QED  BY <3>1, <4>1, <4>4 DEF CommitRegister
      <3>2. CASE CommitGoogle(q)
        <4> DEFINE row == [NewUser EXCEPT !.email = req[q].email, !.oauth = TRUE,
                                          !.verified = TRUE]
        <4>1. row.password = None /\ chosen' = [chosen EXCEPT ![n] = None]
          BY <1>0, <2>1, <2>2, <3>2 DEF NewUser, CommitGoogle, history
        <4> QED  BY <3>2, <4>1 DEF CommitGoogle
      <3>3. CASE CommitStart(q)
        <4>1. NewUser.password = None /\ chosen' = [chosen EXCEPT ![n] = None]
          BY <1>0, <2>1, <2>2, <3>3 DEF NewUser, CommitStart, history
        <4> QED  BY <3>3, <4>1 DEF CommitStart
      <3> QED  BY <1>2, <3>1, <3>2, <3>3
    <2>4. ASSUME NEW u \in Names, u # n
          PROVE  user'[u] = user[u] /\ chosen'[u] = chosen[u]
      BY <1>0, <2>3, <2>4
    <2>5. user'[n] = row /\ chosen'[n] = row.password
      BY <1>0, <2>1, <2>3
    <2> QED  BY <2>1, <2>3, <2>4, <2>5 DEF ChoosersAreFull, PasswordAsChosen, Full
  <1>3. ASSUME NEW q \in Requests,
               CommitJoin(q) \/ CommitLogin(q) \/ CommitVerify(q) \/ CommitReset(q)
        PROVE  PasswordInv'
    <2> DEFINE w == req[q].user
    <2>1. \A u \in Names : Full(u) => Full(u)'
      BY <1>3, RowCommit
    <2>2. w \in Names /\ Full(w) /\ user[w] \in Users
      <3>1. req[q].phase = "commit" /\ req[q].kind \in {"join", "login", "verify", "reset"}
        BY <1>3 DEF CommitJoin, CommitLogin, CommitVerify, CommitReset
      <3> QED  BY <1>0, <3>1, Committing DEF Grounded, Shape, Full, Purposes
    <2>3. \A u \in Names \ {w} : user'[u] = user[u]
      BY <1>0, <1>3, <2>2 DEF CommitJoin, CommitLogin, CommitVerify, CommitReset
    <2>4. CASE CommitJoin(q) \/ CommitVerify(q)
      <3>1. user'[w].password = user[w].password
        BY <1>0, <2>2, <2>4 DEF CommitJoin, CommitVerify, Users
      <3>2. chosen' = chosen /\ overtaken' = overtaken
        BY <2>4 DEF CommitJoin, CommitVerify, history
      <3> QED  BY <2>1, <2>2, <2>3, <3>1, <3>2 DEF ChoosersAreFull, PasswordAsChosen, Full
    <2>5. CASE CommitLogin(q) \/ CommitReset(q)
      <3>1. user'[w].password = req[q].secret
        BY <1>0, <2>2, <2>5 DEF CommitLogin, CommitReset, Users
      <3>2. /\ \A u \in Names \ {w} : /\ chosen'[u] = chosen[u]
                                      /\ u \in overtaken' <=> u \in overtaken
            /\ chosen'[w] = req[q].secret \/ (chosen'[w] = chosen[w] /\ w \in overtaken')
        BY <1>0, <2>2, <2>5 DEF CommitLogin, CommitReset
      <3> QED  BY <2>1, <2>2, <2>3, <3>1, <3>2 DEF ChoosersAreFull, PasswordAsChosen, Full
    <2> QED  BY <1>3, <2>4, <2>5
  <1>4. ASSUME NEW q \in Requests, CommitLink(q) PROVE PasswordInv'
    <2>1. \A u \in Names : Full(u) => Full(u)'
      BY <1>4, LinkCommit
    <2>2. \A u \in Names : user'[u] # None => user'[u] = user[u]
      BY <1>4 DEF CommitLink
    <2>3. chosen' = chosen /\ overtaken' = overtaken
      BY <1>4 DEF CommitLink, history
    <2> QED  BY <2>1, <2>2, <2>3 DEF ChoosersAreFull, PasswordAsChosen
  <1> QED  BY <1>1, <1>2, <1>3, <1>4, OtherSteps

(* The password is the one last chosen, or a login that had verified the   *)
(* former one has overwritten it while upgrading the hash.                 *)
THEOREM PasswordsAsChosen == Spec => []PasswordAsChosen
  <1>1. Init => PasswordInv
    <2> SUFFICES ASSUME Init PROVE PasswordInv
      OBVIOUS
    <2>1. \A u \in Names :
            /\ user[u] = IF u \in Old THEN OldUser[u] ELSE None
            /\ chosen[u] = IF u \in Old THEN OldUser[u].password ELSE None
      BY DEF Init
    <2>2. \A u \in Old : OldUser[u] \in Users /\ OldUser[u] # None
      BY AccountsAssumption
    <2> QED
      BY <2>1, <2>2 DEF PasswordInv, ChoosersAreFull, PasswordAsChosen, Full, TelegramOnly
  <1>2. PasswordInv /\ UNCHANGED vars => PasswordInv'
    BY DEF vars, PasswordInv, ChoosersAreFull, PasswordAsChosen, Full
  <1>3. PasswordInv => PasswordAsChosen
    BY DEF PasswordInv
  <1> QED  BY <1>1, <1>2, <1>3, PasswordStep, InvariantHolds, PTL DEF Spec

-----------------------------------------------------------------------------
(* Redemptions.                                                            *)

(* Requests in progress that have read the token t as usable.              *)
Holders(t) == {q \in Requests : req[q].phase # "idle" /\ req[q].token = t}

(* Redeemed or about to be: only a token nobody has redeemed gets another  *)
(* holder.                                                                 *)
RedeemersCounted ==
  \A t \in Names : tokens[t] # None =>
    tokens[t].redeemed + Cardinality(Holders(t)) <= Cardinality(Requests)

LEMMA HoldersFinite ==
  ASSUME NEW H, H \subseteq Requests
  PROVE  /\ IsFiniteSet(H) /\ Cardinality(H) \in Nat /\ Cardinality(Requests) \in Nat
         /\ Cardinality(H) <= Cardinality(Requests)
  <1>1. IsFiniteSet(Requests) /\ H \in SUBSET Requests
    BY AccountsAssumption
  <1>2. IsFiniteSet(H) /\ Cardinality(H) <= Cardinality(Requests)
    BY <1>1, FS_Subset
  <1> QED  BY <1>1, <1>2, FS_CardinalityType

LEMMA RedeemStep ==
  ASSUME IInv, RedeemersCounted, tokens' \in [Names -> Tokens \cup {None}],
         \A t \in Names : tokens'[t] # None =>
           \/ tokens'[t].redeemed = 0
           \/ /\ tokens[t] # None /\ tokens'[t].redeemed = tokens[t].redeemed
              /\ Holders(t)' \subseteq Holders(t)
           \/ /\ tokens[t] # None /\ tokens'[t].redeemed = tokens[t].redeemed + 1
              /\ \E q \in Holders(t) : Holders(t)' \subseteq Holders(t) \ {q}
  PROVE  RedeemersCounted'
  <1> SUFFICES ASSUME NEW t \in Names, tokens'[t] # None
               PROVE  tokens'[t].redeemed + Cardinality(Holders(t)') <= Cardinality(Requests)
    BY DEF RedeemersCounted
  <1>1. Holders(t) \subseteq Requests /\ Holders(t)' \subseteq Requests
    BY DEF Holders
  <1>2. /\ IsFiniteSet(Holders(t)) /\ Cardinality(Holders(t)) \in Nat
        /\ Cardinality(Holders(t)') \in Nat /\ Cardinality(Requests) \in Nat
        /\ Cardinality(Holders(t)') <= Cardinality(Requests)
    BY <1>1, HoldersFinite
  <1>3. CASE tokens'[t].redeemed = 0
    BY <1>2, <1>3
  <1>4. ASSUME tokens[t] # None
        PROVE  /\ tokens[t].redeemed \in Nat
               /\ tokens[t].redeemed + Cardinality(Holders(t)) <= Cardinality(Requests)
    BY <1>4 DEF IInv, TypeOK, Tokens, RedeemersCounted
  <1>5. CASE /\ tokens[t] # None /\ tokens'[t].redeemed = tokens[t].redeemed
             /\ Holders(t)' \subseteq Holders(t)
    <2>1. Cardinality(Holders(t)') <= Cardinality(Holders(t))
      BY <1>2, <1>5, FS_Subset
    <2> QED  BY <1>2, <1>4, <1>5, <2>1
  <1>6. ASSUME tokens[t] # None, tokens'[t].redeemed = tokens[t].redeemed + 1,
               NEW q \in Holders(t), Holders(t)' \subseteq Holders(t) \ {q}
        PROVE  tokens'[t].redeemed + Cardinality(Holders(t)') <= Cardinality(Requests)
    <2>1. /\ IsFiniteSet(Holders(t) \ {q})
          /\ Cardinality(Holders(t) \ {q}) = Cardinality(Holders(t)) - 1
      BY <1>2, <1>6, FS_RemoveElement
    <2>2. Cardinality(Holders(t)') <= Cardinality(Holders(t) \ {q})
      BY <1>6, <2>1, FS_Subset
    <2> QED  BY <1>2, <1>4, <1>6, <2>1, <2>2
  <1> QED  BY <1>3, <1>5, <1>6

(* A request that begins holds at most a token nobody has redeemed.        *)
LEMMA BeginHolds ==
  ASSUME IInv, RedeemersCounted, NEW q \in Requests, NEW x,
         req' = [req EXCEPT ![q] = x], tokens' = tokens,
         x.token # None => \E purpose \in Purposes : Usable(x.token, purpose)
  PROVE  RedeemersCounted'
  <1>1. req'[q] = x /\ \A p \in Requests \ {q} : req'[p] = req[p]
    BY DEF IInv, TypeOK
  <1>2. None \notin Names
    BY AccountsAssumption
  <1>3. ASSUME NEW t \in Names, tokens[t] # None
        PROVE  tokens[t].redeemed = 0 \/ Holders(t)' \subseteq Holders(t)
    <2>1. CASE x.token = t
      <3>1. ~tokens[t].consumed
        BY <1>2, <2>1 DEF Usable
      <3> QED  BY <1>3, <3>1 DEF IInv, TypeOK, Tokens
    <2>2. CASE x.token # t
      BY <1>1, <2>2 DEF Holders
    <2> QED  BY <2>1, <2>2
  <1> QED  BY <1>1, <1>3, RedeemStep DEF IInv, TypeOK

(* The calls that present no token, and those that present one.            *)
LEMMA CallHolds ==
  ASSUME IInv, RedeemersCounted, NEW q \in Requests, Call(q)
  PROVE  RedeemersCounted'
  <1> USE DEF Begin, tables
  <1>1. ASSUME NEW e \in Emails, NEW s \in Secrets, Register(q, e, s) PROVE RedeemersCounted'
    <2> DEFINE x == [[Idle EXCEPT !.kind = "register", !.phase = "insert", !.email = e, !.secret = s]
                       EXCEPT !.name = calls + 1]
    <2>1. x.token = None
      BY DEF Idle
    <2>2. req' = [req EXCEPT ![q] = x] /\ tokens' = tokens
      BY <1>1 DEF Register
    <2> HIDE DEF x
    <2> QED  BY <2>1, <2>2, BeginHolds
  <1>2. ASSUME NEW e \in Emails, Google(q, e) PROVE RedeemersCounted'
    <2> DEFINE x == [[Idle EXCEPT !.kind = "google", !.phase = "insert", !.email = e]
                       EXCEPT !.name = calls + 1]
    <2>1. x.token = None
      BY DEF Idle
    <2>2. req' = [req EXCEPT ![q] = x] /\ tokens' = tokens
      BY <1>2 DEF Google
    <2> HIDE DEF x
    <2> QED  BY <2>1, <2>2, BeginHolds
  <1>3. ASSUME NEW u \in Names, JoinGoogle(q, u) PROVE RedeemersCounted'
    <2> DEFINE x == [[Idle EXCEPT !.kind = "join", !.phase = "commit", !.user = u,
                                   !.secret = user[u].password]
                       EXCEPT !.name = calls + 1]
    <2>1. x.token = None
      BY DEF Idle
    <2>2. req' = [req EXCEPT ![q] = x] /\ tokens' = tokens
      BY <1>3 DEF JoinGoogle
    <2> HIDE DEF x
    <2> QED  BY <2>1, <2>2, BeginHolds
  <1>4. ASSUME NEW u \in Names, Login(q, u) PROVE RedeemersCounted'
    <2> DEFINE x == [[Idle EXCEPT !.kind = "login", !.phase = "commit", !.user = u,
                                   !.secret = user[u].password]
                       EXCEPT !.name = calls + 1]
    <2>1. x.token = None
      BY DEF Idle
    <2>2. req' = [req EXCEPT ![q] = x] /\ tokens' = tokens
      BY <1>4 DEF Login
    <2> HIDE DEF x
    <2> QED  BY <2>1, <2>2, BeginHolds
  <1>5. ASSUME NEW u \in Names, Rate(q, u) PROVE RedeemersCounted'
    <2> DEFINE x == [[Idle EXCEPT !.kind = "rate", !.phase = "insert", !.user = u]
                       EXCEPT !.name = calls + 1]
    <2>1. x.token = None
      BY DEF Idle
    <2>2. req' = [req EXCEPT ![q] = x] /\ tokens' = tokens
      BY <1>5 DEF Rate
    <2> HIDE DEF x
    <2> QED  BY <2>1, <2>2, BeginHolds
  <1>6. ASSUME NEW t \in Names, Verify(q, t) PROVE RedeemersCounted'
    <2> DEFINE x == [[Idle EXCEPT !.kind = "verify", !.phase = "commit", !.token = t,
                                   !.user = tokens[t].user]
                       EXCEPT !.name = calls + 1]
    <2>1. x.token = t
      BY DEF Idle
    <2>2. req' = [req EXCEPT ![q] = x] /\ tokens' = tokens
      BY <1>6 DEF Verify
    <2>3. Usable(t, "verify")
      BY <1>6 DEF Verify
    <2> HIDE DEF x
    <2> QED  BY <2>1, <2>2, <2>3, BeginHolds DEF Purposes
  <1>7. ASSUME NEW t \in Names, NEW s \in Secrets, ResetPassword(q, t, s) PROVE RedeemersCounted'
    <2> DEFINE x == [[Idle EXCEPT !.kind = "reset", !.phase = "commit", !.token = t,
                                   !.user = tokens[t].user, !.secret = s]
                       EXCEPT !.name = calls + 1]
    <2>1. x.token = t
      BY DEF Idle
    <2>2. req' = [req EXCEPT ![q] = x] /\ tokens' = tokens
      BY <1>7 DEF ResetPassword
    <2>3. Usable(t, "reset")
      BY <1>7 DEF ResetPassword
    <2> HIDE DEF x
    <2> QED  BY <2>1, <2>2, <2>3, BeginHolds DEF Purposes
  <1>8. ASSUME NEW c \in Chats, Start(q, c) PROVE RedeemersCounted'
    <2> DEFINE x == [[Idle EXCEPT !.kind = "start", !.phase = "insert", !.chat = c]
                       EXCEPT !.name = calls + 1]
    <2>1. x.token = None
      BY DEF Idle
    <2>2. req' = [req EXCEPT ![q] = x] /\ tokens' = tokens
      BY <1>8 DEF Start
    <2> HIDE DEF x
    <2> QED  BY <2>1, <2>2, BeginHolds
  <1>9. ASSUME NEW t \in Names, NEW c \in Chats, Link(q, t, c) PROVE RedeemersCounted'
    <2> DEFINE x == [[Idle EXCEPT !.kind = "link", !.phase = "owner", !.token = t,
                                   !.user = tokens[t].user, !.chat = c]
                       EXCEPT !.name = calls + 1]
    <2>1. x.token = t
      BY DEF Idle
    <2>2. req' = [req EXCEPT ![q] = x] /\ tokens' = tokens
      BY <1>9 DEF Link
    <2>3. Usable(t, "link")
      BY <1>9 DEF Link
    <2> HIDE DEF x
    <2> QED  BY <2>1, <2>2, <2>3, BeginHolds DEF Purposes
  <1> QED  BY <1>1, <1>2, <1>3, <1>4, <1>5, <1>6, <1>7, <1>8, <1>9 DEF Call

LEMMA RedeemNext ==
  ASSUME IInv, RedeemersCounted, Next
  PROVE  RedeemersCounted'
  <1>0. /\ tokens \in [Names -> Tokens \cup {None}] /\ req \in [Requests -> ReqStates]
        /\ tokens' \in [Names -> Tokens \cup {None}] /\ None \notin Tokens
    BY NextInv, AccountsAssumption DEF IInv, TypeOK
  <1>1. ASSUME NEW q \in Requests, Call(q) PROVE RedeemersCounted'
    BY <1>1, CallHolds
  <1>2. ASSUME tokens' = tokens, \A q \in Requests : /\ req'[q].phase # "idle" => req[q].phase # "idle"
                                                     /\ req'[q].phase # "idle" => req'[q].token = req[q].token
        PROVE  RedeemersCounted'
    <2>1. \A t \in Names : Holders(t)' \subseteq Holders(t)
      BY <1>2 DEF Holders
    <2> QED  BY <1>0, <1>2, <2>1, RedeemStep
  <1>3. ASSUME NEW q \in Requests, Ends(q), tokens' = tokens PROVE RedeemersCounted'
    BY <1>0, <1>2, <1>3 DEF Ends, Idle
  <1>4. ASSUME NEW q \in Requests,
               \/ InsertUser(q) \/ InsertAccount(q) \/ ReadOwner(q) \/ MoveItems(q)
               \/ DeleteSource(q) \/ ReadChannel(q) \/ WriteChannel(q) \/ KeepChannel(q)
               \/ InsertItem(q)
        PROVE  RedeemersCounted'
    <2>1. CASE RollBack(q)
      BY <1>3, <2>1 DEF RollBack, tables
    <2>2. ASSUME NEW phase \in Phases, Goes(q, phase), req[q].phase # "idle"
          PROVE  RedeemersCounted'
      BY <1>0, <1>2, <2>2 DEF Goes, tables, ReqStates
    <2>3. CASE ReadOwner(q) \/ MoveItems(q) \/ ReadChannel(q)
      BY <1>0, <1>2, <2>1, <2>2, <2>3
      DEF ReadOwner, MoveItems, ReadChannel, ReqStates, tables, Phases
    <2>4. CASE \/ InsertUser(q) \/ InsertAccount(q) \/ DeleteSource(q) \/ WriteChannel(q)
               \/ KeepChannel(q) \/ InsertItem(q)
      BY <2>1, <2>2, <2>4 DEF InsertUser, InsertAccount, DeleteSource, WriteChannel,
         KeepChannel, InsertItem, Phases
    <2> QED  BY <1>4, <2>3, <2>4
  <1>5. ASSUME NEW q \in Requests, CommitVerify(q) \/ CommitReset(q) \/ CommitLink(q)
        PROVE  RedeemersCounted'
    <2> DEFINE T == req[q].token
    <2>1. req[q].phase = "commit" /\ req[q].kind \in Purposes /\ Ends(q) /\ tokens' = Used(q)
      BY <1>5 DEF CommitVerify, CommitReset, CommitLink, Purposes
    <2>2. T \in Names /\ tokens[T] # None /\ tokens[T] \in Tokens
      BY <1>0, <2>1 DEF IInv, Shape, Grounded
    <2>3. /\ tokens'[T].redeemed = tokens[T].redeemed + 1
          /\ \A t \in Names \ {T} : tokens'[t] = tokens[t]
      BY <1>0, <2>1, <2>2 DEF Used, Tokens
    <2>4. q \in Holders(T) /\ \A t \in Names : Holders(t)' \subseteq Holders(t) \ {q}
      BY <1>0, <2>1 DEF Holders, Ends, Idle
    <2> QED  BY <1>0, <2>2, <2>3, <2>4, RedeemStep
  <1>6. ASSUME NEW q \in Requests, CommitRegister(q) PROVE RedeemersCounted'
    <2> DEFINE n == req[q].name
    <2>1. Ends(q) /\ tokens' = [tokens EXCEPT ![n] = Issued("verify", n)]
      BY <1>6 DEF CommitRegister
    <2>2. \A t \in Names : Holders(t)' \subseteq Holders(t)
      BY <1>0, <2>1 DEF Holders, Ends, Idle
    <2>3. \A t \in Names : tokens'[t] = tokens[t] \/ tokens'[t].redeemed = 0
      BY <1>0, <2>1 DEF Issued
    <2> QED  BY <1>0, <2>2, <2>3, RedeemStep
  <1>7. ASSUME NEW q \in Requests,
               \/ CommitGoogle(q) \/ CommitJoin(q) \/ CommitLogin(q) \/ CommitStart(q)
               \/ CommitRate(q) \/ Fail(q)
        PROVE  RedeemersCounted'
    BY <1>3, <1>7 DEF CommitGoogle, CommitJoin, CommitLogin, CommitStart, CommitRate, Fail,
       RollBack, tables
  <1>8. ASSUME NEW u \in Names, NEW p \in {"reset", "link"}, Issue(u, p) PROVE RedeemersCounted'
    <2>1. \A t \in Names : /\ tokens'[t] = tokens[t] \/ tokens'[t].redeemed = 0
                           /\ Holders(t)' = Holders(t)
      BY <1>0, <1>8 DEF Issue, Issued, Holders
    <2> QED  BY <1>0, <2>1, RedeemStep
  <1>9. ASSUME NEW t \in Names, Expire(t) PROVE RedeemersCounted'
    <2>1. \A x \in Names : /\ tokens[x] # None => tokens'[x].redeemed = tokens[x].redeemed
                           /\ tokens[x] = None => tokens'[x] = None
                           /\ Holders(x)' = Holders(x)
      BY <1>0, <1>9 DEF Expire, Tokens, Holders
    <2> QED  BY <1>0, <2>1, RedeemStep
  <1> QED
    BY <1>1, <1>4, <1>5, <1>6, <1>7, <1>8, <1>9 DEF Next, Step

(* A one-time token is redeemed at most once per request that had read it  *)
(* before the first redemption committed.                                  *)
THEOREM RedemptionsAreBounded == Spec => []RedemptionsBounded
  <1>1. Init => RedeemersCounted
    <2> SUFFICES ASSUME Init, NEW t \in Names, tokens[t] # None
                 PROVE  tokens[t].redeemed + Cardinality(Holders(t)) <= Cardinality(Requests)
      BY DEF RedeemersCounted
    <2>1. tokens[t].redeemed = 0
      BY DEF Init, Issued
    <2>2. Holders(t) \subseteq Requests
      BY DEF Holders
    <2> QED  BY <2>1, <2>2, HoldersFinite
  <1>2. RedeemersCounted /\ UNCHANGED vars => RedeemersCounted'
    BY DEF vars, RedeemersCounted, Holders
  <1>3. IInv /\ RedeemersCounted => RedemptionsBounded
    <2> SUFFICES ASSUME IInv, RedeemersCounted, NEW t \in Names, tokens[t] # None
                 PROVE  tokens[t].redeemed <= Cardinality(Requests)
      BY DEF RedemptionsBounded
    <2>1. Holders(t) \subseteq Requests
      BY DEF Holders
    <2> QED  BY <2>1, HoldersFinite DEF IInv, TypeOK, Tokens, RedeemersCounted
  <1> QED  BY <1>1, <1>2, <1>3, RedeemNext, InvariantHolds, PTL DEF Spec
=============================================================================
