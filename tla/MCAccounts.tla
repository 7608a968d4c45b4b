----------------------------- MODULE MCAccounts -----------------------------
(***************************************************************************)
(* Instances of Accounts for TLC: two accounts with e-mail and password,   *)
(* one of them linked to a chat, and one the bot made in another chat.     *)
(***************************************************************************)
EXTENDS Accounts, TLC

CONSTANTS web, linked, bot, e1, e2, s1, c1, c2

WebUser(e, old) == [email |-> e, password |-> s1, legacy |-> old, oauth |-> FALSE,
                    verified |-> TRUE]

ThreeUsers == web :> WebUser(e1, TRUE) @@ linked :> WebUser(e2, FALSE) @@ bot :> NewUser
ThreeChats == web :> None @@ linked :> c2 @@ bot :> c1

Interchangeable == Permutations(Requests)
=============================================================================
