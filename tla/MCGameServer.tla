---------------------------- MODULE MCGameServer ----------------------------
(***************************************************************************)
(* Small instances of GameServer.  Connections, tables and, when the       *)
(* database treats them alike, players are interchangeable.                *)
(***************************************************************************)
EXTENDS TableTalk, TLC

CONSTANTS c1, c2, c3, p, q, guest, admin, t1, t2

BetOn(type, value) == [type |-> type, number |-> 0, value |-> value]

\* Even money in one unit or two, two being all a newcomer has.
SmallBets == {BetOn("red", 1), BetOn("red", 2)}
UnitBets  == {BetOn("red", 1)}
NoOffers  == {}

\* One unit, and the largest int of the instance.
HugeBets  == {BetOn("red", 1), BetOn("red", INT_MAX)}

\* A red pocket and a black one.
RedOrBlack == {1, 2}
BlackOnly  == {2}
NoGrant    == {}
UserOnly   == {USER}
UserGrant  == {USER, USER \cup STAFF}

TwoConnections   == Permutations({c1, c2}) \cup Permutations({t1, t2})
ThreeConnections == Permutations({c1, c2, c3}) \cup Permutations({t1, t2})
ThreeAndPlayers  == ThreeConnections \cup Permutations({p, q})
=============================================================================
