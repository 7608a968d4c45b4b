---------------------------- MODULE MailPromise ----------------------------
(***************************************************************************)
(* What the accounts service promises about its letters, with no database  *)
(* rows, queue or worker in sight.  An account comes into being together   *)
(* with the letter it owes; a reset letter is owed only to an account that *)
(* exists; only an owed letter is ever sent.  Letters may be sent twice    *)
(* (the promise is at-least-once), so the second copy is a stutter here.   *)
(* The detailed module Outbox is shown to implement this one.              *)
(***************************************************************************)
CONSTANTS Requests,   \* API calls that owe a letter once they are committed
          Emails,     \* addresses an account can be registered under
          KindOf,     \* KindOf[r] \in {"register", "reset"}
          EmailOf,    \* EmailOf[r] is the address the call names
          NoAccount   \* no account is registered under the address

VARIABLES accounts,   \* accounts[e]: the registration that owns e, or NoAccount
          owed,       \* requests whose letter was promised
          mailed      \* requests whose letter reached the mail server

promiseVars == <<accounts, owed, mailed>>

PromiseInit ==
  /\ accounts = [e \in Emails |-> NoAccount]
  /\ owed = {}
  /\ mailed = {}

(* The account and the debt of its verification letter, in one step.       *)
Register(r) ==
  /\ KindOf[r] = "register"
  /\ r \notin owed
  /\ accounts[EmailOf[r]] = NoAccount
  /\ accounts' = [accounts EXCEPT ![EmailOf[r]] = r]
  /\ owed' = owed \cup {r}
  /\ UNCHANGED mailed

(* A reset letter, owed only to an existing account.                       *)
RequestReset(r) ==
  /\ KindOf[r] = "reset"
  /\ r \notin owed
  /\ accounts[EmailOf[r]] # NoAccount
  /\ owed' = owed \cup {r}
  /\ UNCHANGED <<accounts, mailed>>

Mail(r) ==
  /\ r \in owed \ mailed
  /\ mailed' = mailed \cup {r}
  /\ UNCHANGED <<accounts, owed>>

PromiseNext == \E r \in Requests : Register(r) \/ RequestReset(r) \/ Mail(r)

PromiseSpec == PromiseInit /\ [][PromiseNext]_promiseVars
=============================================================================
