------------------------------ MODULE Accounts ------------------------------
(***************************************************************************)
(* Accounts, their Telegram channels and their one-time tokens, under      *)
(* concurrent requests: registration by e-mail, Google and the bot, login, *)
(* redeeming tokens, and linking a chat, which absorbs the account the bot *)
(* made for it.                                                            *)
(*                                                                         *)
(* A request is one transaction at READ COMMITTED.  Its writes stay in     *)
(* req[q] until it commits; statements of others wait for its rows and     *)
(* keys.  Accounts, tokens and items are named by the call that makes      *)
(* them.  An item is a row that belongs to an account and moves with it:   *)
(* a reaction, a notification, an entry of the agent's log.                *)
(***************************************************************************)
EXTENDS Naturals, FiniteSets

CONSTANTS Old,      \* accounts that exist at first, each with one item and,
                    \* without a chat, a token to link one
          OldUser,  \* OldUser[u], OldChat[u]: their rows
          OldChat,
          Emails, Chats, Secrets,
          None,     \* no row, no value
          Lost,     \* the owner of an item that was deleted
          Requests, \* concurrent requests
          MaxCalls  \* bound on the requests that begin

Names == Old \cup 1..MaxCalls

Users == [email : Emails \cup {None}, password : Secrets \cup {None},
          legacy : BOOLEAN, \* hashed with outdated parameters
          oauth : BOOLEAN, verified : BOOLEAN]

NewUser == [email |-> None, password |-> None, legacy |-> FALSE,
            oauth |-> FALSE, verified |-> FALSE]

Purposes == {"verify", "reset", "link"}

(* redeemed: requests that succeeded with the token (history).             *)
Tokens == {t \in [purpose : Purposes, user : Names, consumed : BOOLEAN,
                  expired : BOOLEAN, redeemed : Nat] : t.redeemed > 0 => t.consumed}

(* User.is_telegram_only *)
TelegramOnly(a) == a.email = None /\ a.password = None /\ ~a.oauth

ASSUME AccountsAssumption ==
  /\ MaxCalls \in Nat
  /\ IsFiniteSet(Requests)
  /\ Old \cap Nat = {}
  /\ {None, Lost} \cap Names = {} /\ None # Lost
  /\ None \notin Users \cup Tokens \cup Chats \cup Emails \cup Secrets
  /\ OldUser \in [Old -> Users]
  /\ OldChat \in [Old -> Chats \cup {None}]
  /\ \A u \in Old : TelegramOnly(OldUser[u]) => OldChat[u] # None
  /\ \A u, v \in Old : u # v =>
       /\ OldUser[u].email = OldUser[v].email => OldUser[u].email = None
       /\ OldChat[u] = OldChat[v] => OldChat[u] = None

VARIABLES
  user,   \* user[u]: its row of users
  chat,   \* chat[u]: address of its telegram row of user_channels
  tokens, \* tokens[t]: rows of one_time_tokens
  owner,  \* owner[i]: the account item i belongs to, Lost once deleted
  late,   \* items committed while their account was being absorbed (history)
  chosen, \* chosen[u]: the password last chosen for u (history)
  overtaken, \* accounts whose last choice a login has overwritten (history)
  req,    \* req[q]: a transaction and its uncommitted writes
  calls   \* requests that have begun

tables == <<user, chat, tokens, owner>>
history == <<late, chosen, overtaken>>
vars == <<user, chat, tokens, owner, late, chosen, overtaken, req, calls>>

(* name: the call; user: the account it is about; had: the address read;   *)
(* source: the account it absorbs; moved: items it has moved.              *)
Idle == [kind |-> "none", phase |-> "idle", name |-> None, user |-> None, token |-> None,
         email |-> None, secret |-> None, chat |-> None, had |-> None,
         source |-> None, moved |-> {}]

Kinds == Purposes \cup {"none", "register", "google", "join", "start", "login", "rate"}
Phases == {"idle", "insert", "owner", "move", "delete", "channel", "write", "commit"}
ReqStates ==
  [kind : Kinds, phase : Phases, name : Names \cup {None}, user : Names \cup {None},
   token : Names \cup {None}, email : Emails \cup {None}, secret : Secrets \cup {None},
   chat : Chats \cup {None}, had : Chats \cup {None}, source : Names \cup {None},
   moved : SUBSET Names]

TypeOK ==
  /\ user \in [Names -> Users \cup {None}]
  /\ chat \in [Names -> Chats \cup {None}]
  /\ tokens \in [Names -> Tokens \cup {None}]
  /\ owner \in [Names -> Names \cup {None, Lost}]
  /\ late \in SUBSET Names
  /\ chosen \in [Names -> Secrets \cup {None}]
  /\ overtaken \in SUBSET Names
  /\ req \in [Requests -> ReqStates]
  /\ calls \in 0..MaxCalls

Issued(purpose, u) ==
  [purpose |-> purpose, user |-> u, consumed |-> FALSE, expired |-> FALSE, redeemed |-> 0]

Init ==
  /\ user = [u \in Names |-> IF u \in Old THEN OldUser[u] ELSE None]
  /\ chat = [u \in Names |-> IF u \in Old THEN OldChat[u] ELSE None]
  /\ tokens = [t \in Names |-> IF t \in Old /\ OldChat[t] = None
                               THEN Issued("link", t) ELSE None]
  /\ owner = [i \in Names |-> IF i \in Old THEN i ELSE None]
  /\ late = {}
  /\ chosen = [u \in Names |-> IF u \in Old THEN OldUser[u].password ELSE None]
  /\ overtaken = {}
  /\ req = [q \in Requests |-> Idle]
  /\ calls = 0

(* Request q begins; the call's number names what it will make.            *)
Begin(q, state) ==
  /\ req[q].phase = "idle"
  /\ calls < MaxCalls
  /\ calls' = calls + 1
  /\ req' = [req EXCEPT ![q] = [state EXCEPT !.name = calls + 1]]
  /\ UNCHANGED <<tables, history>>

Goes(q, phase) ==
  /\ req' = [req EXCEPT ![q].phase = phase]
  /\ UNCHANGED <<tables, history, calls>>

Ends(q) == req' = [req EXCEPT ![q] = Idle]

RollBack(q) == Ends(q) /\ UNCHANGED <<tables, history, calls>>

-----------------------------------------------------------------------------
(* Registration by e-mail and Google.                                      *)

Registered(e) == \E u \in Names : user[u] # None /\ user[u].email = e

(* RegisterUser of a known address raises EmailAlreadyRegistered.          *)
Register(q, e, s) ==
  /\ ~Registered(e)
  /\ Begin(q, [Idle EXCEPT !.kind = "register", !.phase = "insert",
                           !.email = e, !.secret = s])

Google(q, e) ==
  /\ ~Registered(e)
  /\ Begin(q, [Idle EXCEPT !.kind = "google", !.phase = "insert", !.email = e])

(* Google login to an account that has no provider yet.                    *)
JoinGoogle(q, u) ==
  /\ user[u] # None /\ user[u].email # None /\ ~user[u].oauth
  /\ Begin(q, [Idle EXCEPT !.kind = "join", !.phase = "commit", !.user = u,
                           !.secret = user[u].password])

(* The INSERT waits for a transaction that has inserted the same address,  *)
(* and fails on a committed one.                                           *)
InsertUser(q) ==
  /\ req[q].phase = "insert" /\ req[q].kind \in {"register", "google"}
  /\ \A p \in Requests : req[p].phase = "commit" => req[p].email # req[q].email
  /\ IF Registered(req[q].email) THEN RollBack(q) ELSE Goes(q, "commit")

CommitRegister(q) ==
  LET n == req[q].name
  IN /\ req[q].phase = "commit" /\ req[q].kind = "register"
     /\ user' = [user EXCEPT ![n] = [NewUser EXCEPT !.email = req[q].email,
                                                    !.password = req[q].secret]]
     /\ tokens' = [tokens EXCEPT ![n] = Issued("verify", n)]
     /\ chosen' = [chosen EXCEPT ![n] = req[q].secret]
     /\ Ends(q)
     /\ UNCHANGED <<chat, owner, late, overtaken, calls>>

CommitGoogle(q) ==
  /\ req[q].phase = "commit" /\ req[q].kind = "google"
  /\ user' = [user EXCEPT ![req[q].name] =
                [NewUser EXCEPT !.email = req[q].email, !.oauth = TRUE, !.verified = TRUE]]
  /\ Ends(q)
  /\ UNCHANGED <<chat, tokens, owner, history, calls>>

(* Mutant: users.update writes every column as it was read.                *)
CommitJoinWholeRow(q) ==
  /\ req[q].phase = "commit" /\ req[q].kind = "join"
  /\ user' = [user EXCEPT ![req[q].user].oauth = TRUE,
                          ![req[q].user].password = req[q].secret]
  /\ Ends(q)
  /\ UNCHANGED <<chat, tokens, owner, history, calls>>

(* users.update: of the row that was read only changed columns are written.*)
CommitJoin(q) ==
  /\ req[q].phase = "commit" /\ req[q].kind = "join"
  /\ user' = [user EXCEPT ![req[q].user].oauth = TRUE]
  /\ Ends(q)
  /\ UNCHANGED <<chat, tokens, owner, history, calls>>

-----------------------------------------------------------------------------
(* Login by password, with the upgrade of an outdated hash; any other      *)
(* login writes nothing.                                                   *)

Login(q, u) ==
  /\ user[u] # None /\ user[u].password # None /\ user[u].legacy
  /\ Begin(q, [Idle EXCEPT !.kind = "login", !.phase = "commit", !.user = u,
                           !.secret = user[u].password])

CommitLogin(q) ==
  /\ req[q].phase = "commit" /\ req[q].kind = "login"
  /\ user' = [user EXCEPT ![req[q].user].password = req[q].secret,
                          ![req[q].user].legacy = FALSE]
  /\ overtaken' = IF req[q].secret = chosen[req[q].user] THEN overtaken
                    ELSE overtaken \cup {req[q].user}
  /\ Ends(q)
  /\ UNCHANGED <<chat, tokens, owner, late, chosen, calls>>

-----------------------------------------------------------------------------
(* One-time tokens.                                                        *)

(* RequestPasswordReset and CreateTelegramLinkToken, whose only write is   *)
(* the new token; the latter needs a login, which a bot account has not.   *)
Issue(u, purpose) ==
  /\ calls < MaxCalls
  /\ calls' = calls + 1
  /\ user[u] # None
  /\ \/ purpose = "reset" /\ user[u].email # None
     \/ purpose = "link" /\ ~TelegramOnly(user[u])
  /\ tokens' = [tokens EXCEPT ![calls + 1] = Issued(purpose, u)]
  /\ UNCHANGED <<user, chat, owner, history, req>>

(* expires_at passes; of a consumed token nothing depends on it.           *)
Expire(t) ==
  /\ tokens[t] # None /\ ~tokens[t].expired /\ ~tokens[t].consumed
  /\ tokens' = [tokens EXCEPT ![t].expired = TRUE]
  /\ UNCHANGED <<user, chat, owner, history, req, calls>>

(* Mutant: is_usable looks at the TTL only.                                *)
UsableUntilExpired(t, purpose) ==
  tokens[t] # None /\ tokens[t].purpose = purpose /\ ~tokens[t].expired

(* get_by_hash, without a lock, and OneTimeToken.is_usable.                *)
Usable(t, purpose) ==
  /\ tokens[t] # None /\ tokens[t].purpose = purpose
  /\ ~tokens[t].consumed /\ ~tokens[t].expired

Verify(q, t) ==
  /\ Usable(t, "verify")
  /\ Begin(q, [Idle EXCEPT !.kind = "verify", !.phase = "commit", !.token = t,
                           !.user = tokens[t].user])

ResetPassword(q, t, s) ==
  /\ Usable(t, "reset")
  /\ Begin(q, [Idle EXCEPT !.kind = "reset", !.phase = "commit", !.token = t,
                           !.user = tokens[t].user, !.secret = s])

(* OneTimeToken.consume                                                    *)
Used(q) == [tokens EXCEPT ![req[q].token].consumed = TRUE,
                          ![req[q].token].redeemed = @ + 1]

CommitVerify(q) ==
  /\ req[q].phase = "commit" /\ req[q].kind = "verify"
  /\ user' = [user EXCEPT ![req[q].user].verified = TRUE]
  /\ tokens' = Used(q)
  /\ Ends(q)
  /\ UNCHANGED <<chat, owner, history, calls>>

CommitReset(q) ==
  /\ req[q].phase = "commit" /\ req[q].kind = "reset"
  /\ user' = [user EXCEPT ![req[q].user].password = req[q].secret,
                          ![req[q].user].legacy = FALSE]
  /\ chosen' = [chosen EXCEPT ![req[q].user] = req[q].secret]
  /\ overtaken' = overtaken \ {req[q].user}
  /\ tokens' = Used(q)
  /\ Ends(q)
  /\ UNCHANGED <<chat, owner, late, calls>>

-----------------------------------------------------------------------------
(* Accounts made by the bot, and linking a chat to an account.             *)

Linked(c) == {u \in Names : chat[u] = c}

(* RegisterViaTelegram of a chat without an account; of another it only    *)
(* returns the account.                                                    *)
Start(q, c) ==
  /\ Linked(c) = {}
  /\ Begin(q, [Idle EXCEPT !.kind = "start", !.phase = "insert", !.chat = c])

(* The absorbed account u is deleted by a transaction that has not ended.  *)
Deleting(p, u) == req[p].source = u /\ req[p].phase \in {"channel", "write", "commit"}

Wrote(p) ==
  /\ req[p].kind \in {"start", "link"} /\ req[p].phase = "commit"
  /\ req[p].had # req[p].chat

(* The key (telegram, c) is inserted or given up by a transaction that has *)
(* not ended.                                                              *)
HoldsKey(p, c) ==
  \/ Wrote(p) /\ c \in {req[p].chat, req[p].had}
  \/ req[p].chat = c /\ \E u \in Names : Deleting(p, u)

(* Mutant: user_channels without its unique key (type, address).           *)
InsertAccountTwice(q) ==
  /\ req[q].phase = "insert" /\ req[q].kind = "start"
  /\ Goes(q, "commit")

(* The loser of the key rolls back and returns the winner's account.       *)
InsertAccount(q) ==
  /\ req[q].phase = "insert" /\ req[q].kind = "start"
  /\ \A p \in Requests : ~HoldsKey(p, req[q].chat)
  /\ IF Linked(req[q].chat) # {} THEN RollBack(q) ELSE Goes(q, "commit")

CommitStart(q) ==
  /\ req[q].phase = "commit" /\ req[q].kind = "start"
  /\ user' = [user EXCEPT ![req[q].name] = NewUser]
  /\ chat' = [chat EXCEPT ![req[q].name] = req[q].chat]
  /\ Ends(q)
  /\ UNCHANGED <<tokens, owner, history, calls>>

Link(q, t, c) ==
  /\ Usable(t, "link")
  /\ Begin(q, [Idle EXCEPT !.kind = "link", !.phase = "owner", !.token = t,
                           !.user = tokens[t].user, !.chat = c])

(* Mutant: whatever account has the chat is absorbed.                      *)
MayAbsorbAny(u) == user[u] # None

(* Only an account the bot made may be absorbed (ChannelAlreadyLinked).    *)
MayAbsorb(u) == user[u] # None /\ TelegramOnly(user[u])

ReadOwner(q) ==
  /\ req[q].phase = "owner"
  /\ \/ /\ Linked(req[q].chat) \subseteq {req[q].user}
        /\ Goes(q, "channel")
     \/ \E s \in Linked(req[q].chat) \ {req[q].user} :
          IF MayAbsorb(s)
            THEN /\ req' = [req EXCEPT ![q].phase = "move", ![q].source = s]
                 /\ UNCHANGED <<tables, history, calls>>
            ELSE RollBack(q)

ItemsOf(u) == {i \in Names : owner[i] = u}

(* Mutant: absorb moves nothing before it deletes.                         *)
MovableNone(u) == {}

Movable(u) == ItemsOf(u)

(* absorb: the UPDATEs of the source's rows wait for one that holds them.  *)
MoveItems(q) ==
  /\ req[q].phase = "move"
  /\ \A p \in Requests : req[p].moved \cap ItemsOf(req[q].source) = {}
  /\ req' = [req EXCEPT ![q].phase = "delete", ![q].moved = Movable(req[q].source)]
  /\ UNCHANGED <<tables, history, calls>>

(* absorb: the DELETE of the source, after whoever inserts a row for it or *)
(* deletes it has ended; what it still owns goes with it (cascade).        *)
DeleteSource(q) ==
  /\ req[q].phase = "delete"
  /\ \A p \in Requests :
       /\ ~Deleting(p, req[q].source)
       /\ ~(req[p].kind = "rate" /\ req[p].phase = "commit" /\ req[p].user = req[q].source)
  /\ Goes(q, "channel")

ReadChannel(q) ==
  /\ req[q].phase = "channel"
  /\ req' = [req EXCEPT ![q].phase = "write", ![q].had = chat[req[q].user]]
  /\ UNCHANGED <<tables, history, calls>>

(* INSERT or UPDATE of the account's channel; waits for others that write  *)
(* the row or hold the key, and fails if another has the address now, or   *)
(* if the row to insert is there.                                          *)
WriteChannel(q) ==
  /\ req[q].phase = "write" /\ req[q].had # req[q].chat
  /\ \A p \in Requests \ {q} :
       /\ ~HoldsKey(p, req[q].chat)
       /\ ~(Wrote(p) /\ req[p].user = req[q].user)
  /\ IF \/ Linked(req[q].chat) \ {req[q].user, req[q].source} # {}
        \/ req[q].had = None /\ chat[req[q].user] # None
       THEN RollBack(q) ELSE Goes(q, "commit")

(* The channel had the address when it was read: nothing is written.       *)
KeepChannel(q) ==
  /\ req[q].phase = "write" /\ req[q].had = req[q].chat
  /\ Goes(q, "commit")

CommitLink(q) ==
  LET r == req[q]
  IN /\ r.phase = "commit" /\ r.kind = "link"
     /\ user' = [u \in Names |-> IF u = r.source THEN None ELSE user[u]]
     /\ chat' = [u \in Names |-> IF u = r.source THEN None
                                ELSE IF u = r.user /\ Wrote(q) THEN r.chat ELSE chat[u]]
     /\ owner' = [i \in Names |-> IF i \in r.moved THEN r.user
                                 ELSE IF owner[i] = r.source /\ r.source # None THEN Lost
                                 ELSE owner[i]]
     /\ tokens' = Used(q)
     /\ Ends(q)
     /\ UNCHANGED <<history, calls>>

-----------------------------------------------------------------------------
(* RecordInteraction from the bot: the account is resolved in a            *)
(* transaction of its own, the row inserted in the next.                   *)

Rate(q, u) ==
  /\ chat[u] # None
  /\ Begin(q, [Idle EXCEPT !.kind = "rate", !.phase = "insert", !.user = u])

(* The foreign key: waits for a transaction that deletes the account, and  *)
(* fails without an account.                                               *)
InsertItem(q) ==
  /\ req[q].phase = "insert" /\ req[q].kind = "rate"
  /\ \A p \in Requests : ~Deleting(p, req[q].user)
  /\ IF user[req[q].user] = None THEN RollBack(q) ELSE Goes(q, "commit")

CommitRate(q) ==
  /\ req[q].phase = "commit" /\ req[q].kind = "rate"
  /\ owner' = [owner EXCEPT ![req[q].name] = req[q].user]
  /\ late' = IF \E p \in Requests : req[p].phase = "delete" /\ req[p].source = req[q].user
               THEN late \cup {req[q].name} ELSE late
  /\ Ends(q)
  /\ UNCHANGED <<user, chat, tokens, chosen, overtaken, calls>>

(* The process dies, or the request raises: its writes are rolled back.    *)
Fail(q) == req[q].phase # "idle" /\ RollBack(q)

-----------------------------------------------------------------------------
Call(q) ==
  \/ \E e \in Emails, s \in Secrets : Register(q, e, s)
  \/ \E e \in Emails : Google(q, e)
  \/ \E u \in Names : JoinGoogle(q, u) \/ Login(q, u) \/ Rate(q, u)
  \/ \E t \in Names : Verify(q, t)
  \/ \E t \in Names, s \in Secrets : ResetPassword(q, t, s)
  \/ \E c \in Chats : Start(q, c)
  \/ \E t \in Names, c \in Chats : Link(q, t, c)

Step(q) ==
  \/ InsertUser(q) \/ CommitRegister(q) \/ CommitGoogle(q) \/ CommitJoin(q)
  \/ CommitLogin(q) \/ CommitVerify(q) \/ CommitReset(q)
  \/ InsertAccount(q) \/ CommitStart(q)
  \/ ReadOwner(q) \/ MoveItems(q) \/ DeleteSource(q) \/ ReadChannel(q)
  \/ WriteChannel(q) \/ KeepChannel(q) \/ CommitLink(q)
  \/ InsertItem(q) \/ CommitRate(q)

Next ==
  \/ \E q \in Requests : Call(q) \/ Step(q) \/ Fail(q)
  \/ \E u \in Names, p \in {"reset", "link"} : Issue(u, p)
  \/ \E t \in Names : Expire(t)

Spec == Init /\ [][Next]_vars

-----------------------------------------------------------------------------
(* Properties.                                                             *)

(* A chat identifies one account, and an account the bot made, which has   *)
(* no other way in, always has its chat: registrations, links and absorbed *)
(* accounts leave neither twins nor orphans (RegisterViaTelegram,          *)
(* ConfirmTelegramLink, absorb).                                           *)
ChatsIdentify ==
  \A u \in Names :
    /\ chat[u] # None =>
         /\ user[u] # None
         /\ \A v \in Names : chat[v] = chat[u] => v = u
    /\ (user[u] # None /\ TelegramOnly(user[u])) => chat[u] # None

KeepsFullAccounts ==
  \A u \in Names : (user[u] # None /\ ~TelegramOnly(user[u])) =>
    /\ user'[u] # None /\ ~TelegramOnly(user'[u])
    /\ chat'[u] # chat[u] =>
         \E q \in Requests : /\ req[q].kind = "link" /\ req[q].phase = "commit"
                             /\ req[q].user = u /\ chat'[u] = req[q].chat

(* An account with an e-mail is never absorbed, and it loses or changes    *)
(* its chat only by a link of its own, whatever happens between            *)
(* ConfirmTelegramLink's look at the owner of the chat and its commit.     *)
FullAccountsKept == [][KeepsFullAccounts]_vars

(* What an absorbed account owned goes to the account that absorbs it,     *)
(* except a row whose transaction committed between absorb's UPDATEs and   *)
(* its DELETE, and no row is left to an account that is gone.              *)
ItemsFollow ==
  \A i \in Names :
    /\ owner[i] = Lost => i \in late
    /\ owner[i] \in Names => user[owner[i]] # None

(* A one-time token is redeemed at most by the requests that read it       *)
(* before the first of them committed: once by requests one after another. *)
RedemptionsBounded ==
  \A t \in Names : tokens[t] # None => tokens[t].redeemed <= Cardinality(Requests)

(* The password is the one last chosen by a registration or a reset, other *)
(* columns being written at the same time notwithstanding, unless a login  *)
(* that had verified the former one upgrades its hash afterwards.          *)
PasswordAsChosen ==
  \A u \in Names : user[u] # None =>
    (user[u].password = chosen[u] \/ u \in overtaken)
=============================================================================
