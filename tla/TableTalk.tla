----------------------------- MODULE TableTalk -----------------------------
(***************************************************************************)
(* The handlers of core/Server.cpp that change nothing: write, tables,     *)
(* users, bets and balance.  Each is what it sends, as a function of the   *)
(* state GameServer gives it; what it needs not to throw is Answers.  What *)
(* they say must fit what the clients they are said of can do.             *)
(***************************************************************************)
EXTENDS GameServer

\* Handlers run between two spins: a spin is one handler.
Answering == status = "up" /\ spin = None

AtTable(id) == users[id] # None /\ HasSeat(id)

\* The session is found, and get_id and get_user find everybody in it.
Answers(id) ==
    /\ has_session(id)
    /\ \A login \in get_session(id).users :
           login2id[login] # None /\ users[login2id[login]] # None

\* Mutant: do_write without "id == dest_id".
do_write_echo(id) == IdsOf(get_session(id).users)

\* do_write: the connections that get the message.
do_write(id) == IdsOf(get_session(id).users) \ {id}

\* do_write to one login of the same table
do_write_to(id, login) ==
    IF login \in get_session(id).users THEN IdsOf({login}) ELSE {}

\* Mutant: a test of the wrong bit.
RoleOfPlayer(permission) == IF Allowed(permission, PLAYER) THEN "croupier" ELSE "player"

Role(permission) == IF Allowed(permission, CROUPIER) THEN "croupier" ELSE "player"

\* do_users: the logins at the table and their roles.
do_users(id) ==
    {[login |-> login, role |-> Role(users[login2id[login]].permission)] :
        login \in get_session(id).users}

\* Mutant: the croupier is not counted.
CountPlayers(name) == Cardinality(sessions[name].users \ {sessions[name].croupier})

Count(name) == Cardinality(sessions[name].users)

\* do_tables: every table and how many sit there.
do_tables ==
    {[name |-> name, num_players |-> Count(name), max_players |-> MAX_PLAYERS] :
        name \in {n \in Tables : sessions[n] # None}}

\* do_bets: the bets of each login at the table.
do_bets(id) == get_session(id).bets

do_balance(id) == users[id].balance
-----------------------------------------------------------------------------
\* Who sits at a table reaches, by write, everybody else that has its seat there
\* and nobody else, and by its login each of them alone.
TalkStaysAtTable ==
    Answering => \A id \in Ids : AtTable(id) =>
        LET neighbours == {i \in Ids \ {id} : AtTable(i) /\ id2name[i] = id2name[id]}
        IN  /\ Answers(id)
            /\ do_write(id) = neighbours
            /\ \A i \in neighbours : do_write_to(id, users[i].login) = {i}

\* The roles users shows are the ones the server acts on: one croupier, who opened
\* the table, and the rest may bet.
RolesShown ==
    Answering => \A id \in Ids : AtTable(id) =>
        /\ Answers(id)
        /\ \A entry \in do_users(id) :
               /\ entry.role = "croupier" <=> entry.login = get_session(id).croupier
               /\ entry.role = "player" =>
                      Allowed(users[login2id[entry.login]].permission, PLAYER)
        /\ \E entry \in do_users(id) : entry.role = "croupier"

\* A table that tables shows has somebody to join: its players are connected and
\* are as many as it says, and no more than may be.
TablesShown ==
    Answering => \A entry \in do_tables :
        /\ entry.num_players =
               Cardinality({id \in Ids : AtTable(id) /\ id2name[id] = entry.name})
        /\ entry.num_players \in 1 .. entry.max_players

\* The bets shown of somebody at the table are never more than the balance shown to
\* that client, and nobody's are shown who sits elsewhere.
BetsShown ==
    Answering => \A id \in Ids : AtTable(id) /\ Answers(id) =>
        /\ Staked(do_bets(id)[users[id].login]) <= do_balance(id)
        /\ \A login \in Logins : do_bets(id)[login] # <<>> =>
               login \in get_session(id).users
=============================================================================
