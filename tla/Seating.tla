------------------------------ MODULE Seating ------------------------------
(***************************************************************************)
(* What GameServer and Conversation have to agree on: how the permission   *)
(* of a connection may change.  One with a seat is not given but taken, by *)
(* somebody whose permission allows it, and has no other bits; any other   *)
(* may be given at any time, by the database, and takes the seat away.     *)
(***************************************************************************)
EXTENDS Permissions

VARIABLE permission  \* of a connection, NONE while there is none

Unseated == {p \in SUBSET ALL : ~Allowed(p, PLAY)}

Init == permission \in Unseated

\* Connected, signed in or out, back from a table, given another, dropped.
Become == permission' \in Unseated

Join   == Allowed(permission, WAIT) /\ permission' = PLAYER
Create == Allowed(permission, STAFF) /\ permission' = CROUPIER

Next == Become \/ Join \/ Create

Spec == Init /\ [][Next]_permission
=============================================================================
