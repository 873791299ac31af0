--------------------------- MODULE MCConversation ---------------------------
(***************************************************************************)
(* Accounts of the administrator, who is staff too, of a user and of one   *)
(* who has been left no permission at all; every command of the client.    *)
(***************************************************************************)
EXTENDS Conversation

MCAccounts == {USER, STAFF \cup ADMIN, NONE}
=============================================================================
