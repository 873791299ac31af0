---------------------------- MODULE Permissions ----------------------------
(***************************************************************************)
(* commands/permissions.h.  A permission_t is a bit mask; here it is the   *)
(* set of its bits, so that "permission & needed" is an intersection and   *)
(* "a | b" a union.                                                        *)
(***************************************************************************)

NONE     == {}
GUEST    == {"guest"}
USER     == {"user"}
STAFF    == {"staff"}
PLAYER   == {"player"}
CROUPIER == {"croupier"}
ADMIN    == {"admin"}

WAIT == USER \cup STAFF \cup ADMIN     \* authenticated, at no table
PLAY == PLAYER \cup CROUPIER           \* at a table
AUTH == WAIT \cup PLAY
ALL  == NONE \cup GUEST \cup AUTH

\* Handlers::execute lets a command through when the masks share a bit.
Allowed(permission, needed) == permission \cap needed # {}
=============================================================================
