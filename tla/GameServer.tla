----------------------------- MODULE GameServer -----------------------------
(***************************************************************************)
(* core/Server.cpp over core/DataBase.cpp and handlers/ServerHandlers.cpp: *)
(* connections sign in and out, take seats at tables, bet, and a croupier  *)
(* spins.  An action is one handler, with every call it makes; a handler   *)
(* that answers with an error and has changed nothing is a stuttering      *)
(* step, so its condition is the guard of the action.  Passwords are left  *)
(* out; the handlers that only read (write, tables, users, bets, balance)  *)
(* are in TableTalk.  Handlers run one at a time here (HandlerRaces has    *)
(* what that hides); do_spin is several steps, because the process can die *)
(* between two of its database writes.                                     *)
(***************************************************************************)
EXTENDS Bets, Permissions, SequencesExt, FiniteSetsExt

CONSTANTS
    Ids,              \* connections: identifier_t, the address of a client
    Players,          \* logins other than the two that init() creates
    GuestLogin,       \* other::GUEST
    AdminLogin,       \* other::ADMIN
    Tables,           \* names of tables
    None,             \* no entry in a map
    MAX_PLAYERS,      \* other::MAX_PLAYERS
    START_UP_CAPITAL, \* other::START_UP_CAPITAL
    ADMIN_CAPITAL,    \* the balance init() gives the administrator
    INT_MAX,          \* the largest int; 2^31 - 1 in the program
    Registered,       \* players the database knows when the server starts
    Staff,            \* and those of them that have been made STAFF
    Offers,           \* the bets clients ask for
    Outcomes,         \* the pockets the wheel can stop in
    Grants,           \* the permissions an administrator sets
    SettableLogins,   \* the users whose permission an administrator sets
    CarefulAdmin,     \* TRUE: only for users who are at no table, never for the guest
    MaxBets,          \* bound: a player has at most this many bets at once
    MinBalance,       \* bounds: the wheel stands still
    MaxBalance        \* while a balance is outside them

Logins == Players \cup {GuestLogin, AdminLogin}

Bet == [type : BetTypes, number : Nat, value : Nat]

ASSUME ConstantsAssumption ==
    /\ GuestLogin # AdminLogin /\ {GuestLogin, AdminLogin} \cap Players = {}
    /\ Staff \subseteq Registered /\ Registered \subseteq Players
    /\ MAX_PLAYERS \in Nat \ {0}
    /\ {START_UP_CAPITAL, ADMIN_CAPITAL, INT_MAX, MaxBets} \subseteq Nat
    /\ {MinBalance, MaxBalance} \subseteq Int
    /\ Offers \subseteq Bet
    /\ Outcomes \subseteq Pockets
    \* Client::set_permission refuses every other bit.
    /\ Grants \subseteq SUBSET WAIT
    /\ SettableLogins \subseteq Logins
    /\ CarefulAdmin \in BOOLEAN

\* Rows of the database, entries of Server::users and Server::sessions.
Account == [permission : SUBSET ALL, balance : Int]
User    == [login : Logins, permission : SUBSET ALL, balance : Int]
Session == [croupier : Logins, users : SUBSET Logins, bets : [Logins -> Seq(Bet)]]

\* A spin under way: where, the pocket, and how many bets of each login are paid.
Spin == [table : Tables, random_number : Pockets, paid : [Logins -> Nat]]

ASSUME NoneAssumption ==
    None \notin Ids \cup Tables \cup Int \cup Account \cup User \cup Session \cup Spin

VARIABLES
    data_base,  \* login -> Account, the only state that survives a crash
    users,      \* connection -> User
    login2id,   \* login -> connection
    id2name,    \* connection -> name of the table it last sat at
    sessions,   \* name -> Session
    spin,       \* the do_spin under way, or None
    told,       \* connection -> permission last sent to its client
    status      \* of the process: "up", "hung" or "terminated"

vars == <<data_base, users, login2id, id2name, sessions, spin, told, status>>

Empty(S) == [x \in S |-> None]

\* DataBase::init, and the sign-ups and promotions of earlier days.
Init ==
    /\ data_base = [login \in Logins |->
           CASE login = AdminLogin -> [permission |-> ADMIN \cup STAFF, balance |-> ADMIN_CAPITAL]
             [] login = GuestLogin -> [permission |-> GUEST, balance |-> START_UP_CAPITAL]
             [] login \in Staff    -> [permission |-> USER \cup STAFF, balance |-> START_UP_CAPITAL]
             [] login \in Registered \ Staff -> [permission |-> USER, balance |-> START_UP_CAPITAL]
             [] OTHER -> None]
    /\ users = Empty(Ids) /\ login2id = Empty(Logins)
    /\ id2name = Empty(Ids) /\ sessions = Empty(Tables)
    /\ spin = None
    /\ told = [id \in Ids |-> NONE]
    /\ status = "up"
-----------------------------------------------------------------------------
(* Helpers of Server.cpp.                                                  *)

Serving == status = "up" /\ spin = None

\* Mutant: whoever is connected may do everything.
ExecutesAnything(id, needed) == Serving /\ users[id] # None

\* session_handle: the connection is known and its permission suffices.
Executes(id, needed) ==
    Serving /\ users[id] # None /\ Allowed(users[id].permission, needed)

\* DataBase::get_user
get_user(login) == [login      |-> login,
                    permission |-> data_base[login].permission,
                    balance    |-> data_base[login].balance]

add_user(id, user) ==
    /\ users' = [users EXCEPT ![id] = user]
    /\ login2id' = [login2id EXCEPT ![user.login] = id]

local_set_user_permission(id, permission) ==
    add_user(id, [users[id] EXCEPT !.permission = permission])

tell(id, permission) == told' = [told EXCEPT ![id] = permission]

has_session(id) == id2name[id] # None /\ sessions[id2name[id]] # None
get_session(id) == sessions[id2name[id]]

\* leave_player(id) does not throw.
CanLeave(id) ==
    users[id] # None /\ has_session(id) /\ get_session(id).croupier # users[id].login

\* leave_player for each connection of ids, in turn.  The seat given up is the
\* one id2name names, whoever asked for it to be given up.
\* Mutant: leave_player without session.users.erase.
GoneNobody(ids, name) == {}

Gone(ids, name) == {users[i].login : i \in {j \in ids : id2name[j] = name}}

\* Mutant: leave_player without session.bets.erase.
BetsKept(ids, name) == sessions[name].bets

BetsLeft(ids, name) ==
    [login \in Logins |->
        IF login \in Gone(ids, name) THEN <<>> ELSE sessions[name].bets[login]]

Vacated(ids) ==
    [name \in Tables |->
        IF sessions[name] = None THEN None
        ELSE [croupier |-> sessions[name].croupier,
              users    |-> sessions[name].users \ Gone(ids, name),
              bets     |-> BetsLeft(ids, name)]]

Restored(ids) ==
    [i \in Ids |-> IF i \notin ids THEN users[i]
                   ELSE [users[i] EXCEPT !.permission = data_base[users[i].login].permission]]

\* add_user maps every login to the connection that left; two guests may leave
\* in one loop, and the last one keeps the entry.
Remapped(ids, last) ==
    [login \in Logins |->
        LET holders == {i \in ids : users[i].login = login}
        IN  IF holders = {} THEN login2id[login]
            ELSE IF last \in holders THEN last ELSE CHOOSE i \in holders : TRUE]

\* Mutant: leave_player without the LEAVE message.
InformedNobody(ids) == told

Informed(ids) ==
    [i \in Ids |-> IF i \in ids THEN data_base[users[i].login].permission ELSE told[i]]

leave_players(ids) ==
    /\ sessions' = Vacated(ids)
    /\ users' = Restored(ids)
    /\ IF ids = {} THEN UNCHANGED login2id
       ELSE \E last \in ids : login2id' = Remapped(ids, last)
-----------------------------------------------------------------------------
(* Connections, accounts and permissions.                                  *)

\* The first datagram of an address; its client starts as GUEST.
connect_handle(id) ==
    /\ Serving /\ users[id] = None
    /\ add_user(id, get_user(GuestLogin))
    /\ tell(id, GUEST)
    /\ UNCHANGED <<data_base, id2name, sessions, spin, status>>

\* Mutant: do_signin without "already logged in".
MaySigninAgain(login) == data_base[login] # None

MaySignin(login) == login2id[login] = None /\ data_base[login] # None

do_signin(id, login) ==
    /\ Executes(id, GUEST)
    /\ MaySignin(login)
    /\ add_user(id, get_user(login))
    /\ tell(id, data_base[login].permission)
    /\ UNCHANGED <<data_base, id2name, sessions, spin, status>>

\* The entry of the login that signs out stays in login2id.
do_signout(id) ==
    /\ Executes(id, WAIT)
    /\ add_user(id, get_user(GuestLogin))
    /\ tell(id, GUEST)
    /\ UNCHANGED <<data_base, id2name, sessions, spin, status>>

do_signup(id, login) ==
    /\ Executes(id, GUEST)
    /\ data_base[login] = None
    /\ data_base' = [data_base EXCEPT ![login] =
           [permission |-> USER, balance |-> START_UP_CAPITAL]]
    /\ UNCHANGED <<users, login2id, id2name, sessions, spin, told, status>>

do_sync(id) ==
    /\ Executes(id, AUTH)
    /\ tell(id, users[id].permission)
    /\ UNCHANGED <<data_base, users, login2id, id2name, sessions, spin, status>>

\* The login sits at no table and its connection has not signed out.
IsIdle(login) ==
    /\ \A name \in Tables : sessions[name] # None => login \notin sessions[name].users
    /\ login2id[login] # None =>
           users[login2id[login]] # None /\ users[login2id[login]].login = login

\* The database is written first; when the connection login2id names is gone,
\* the handler throws after that.
do_set_permission(id, login, permission) ==
    LET user_id == login2id[login]
    IN  /\ Executes(id, ADMIN)
        /\ data_base[login] # None
        /\ CarefulAdmin => login # GuestLogin /\ IsIdle(login)
        /\ data_base' = [data_base EXCEPT ![login].permission = permission]
        /\ IF user_id # None /\ users[user_id] # None
           THEN local_set_user_permission(user_id, permission) /\ tell(user_id, permission)
           ELSE UNCHANGED <<users, login2id, told>>
        /\ UNCHANGED <<id2name, sessions, spin, status>>
-----------------------------------------------------------------------------
(* Tables.                                                                 *)

\* Mutant: the table is full one player late.
HasRoomForOneMore(name) == Cardinality(sessions[name].users) # MAX_PLAYERS + 1

HasRoom(name) == Cardinality(sessions[name].users) # MAX_PLAYERS

\* Mutant: id2name is not written.
SeatNowhere(id, name) == id2name

Seat(id, name) == [id2name EXCEPT ![id] = name]

do_join(id, name) ==
    /\ Executes(id, WAIT)
    /\ sessions[name] # None
    /\ HasRoom(name)
    /\ id2name' = Seat(id, name)
    /\ sessions' = [sessions EXCEPT ![name].users = @ \cup {users[id].login}]
    /\ local_set_user_permission(id, PLAYER)
    /\ tell(id, PLAYER)
    /\ UNCHANGED <<data_base, spin, status>>

NoBets == [login \in Logins |-> <<>>]

\* Mutant: two strings swapped in the initialiser of session_t.
NewTableSwapped(name, login) == [croupier |-> name, users |-> {login}, bets |-> NoBets]

NewTable(name, login) == [croupier |-> login, users |-> {login}, bets |-> NoBets]

\* Mutant: do_create without "already exist".
IsFreeAlways(name) == TRUE

IsFree(name) == sessions[name] = None

do_create(id, name) ==
    /\ Executes(id, STAFF)
    /\ IsFree(name)
    /\ sessions' = [sessions EXCEPT ![name] = NewTable(name, users[id].login)]
    /\ id2name' = Seat(id, name)
    /\ local_set_user_permission(id, CROUPIER)
    /\ tell(id, CROUPIER)
    /\ UNCHANGED <<data_base, spin, status>>

\* do_leave of a player
leave_player(id) ==
    /\ Executes(id, PLAYER)
    /\ CanLeave(id)
    /\ leave_players({id})
    /\ told' = Informed({id})
    /\ UNCHANGED <<data_base, id2name, spin, status>>

Others(id) == get_session(id).users \ {get_session(id).croupier}
CanUnseat(login) == login2id[login] # None /\ CanLeave(login2id[login])
IdsOf(logins) == {login2id[login] : login \in logins}

LoginsOf(ids) == {users[i].login : i \in ids}

\* do_leave of a croupier: everybody leaves and the table is closed.  get_id is
\* called in each turn of the loop: a login is passed over when, by then, the
\* add_user of another's leave_player has given it a connection that has left.
leave_croupier(id) ==
    /\ Executes(id, CROUPIER)
    /\ has_session(id)
    /\ \E left \in SUBSET Others(id) :
           /\ \A login \in left : CanUnseat(login)
           /\ Others(id) \ left \subseteq LoginsOf(IdsOf(left))
           /\ LET leaving == IdsOf(left) \cup {id}
              IN  /\ sessions' = [Vacated(leaving) EXCEPT ![id2name[id]] = None]
                  /\ users' = Restored(leaving)
                  /\ \E last \in leaving : login2id' = Remapped(leaving, last)
                  /\ told' = Informed(leaving)
    /\ UNCHANGED <<data_base, id2name, spin, status>>

\* Or one of them cannot leave, and the loop stops there.  The order of an
\* unordered_set decides who has left by then.
leave_croupier_fails(id) ==
    /\ Executes(id, CROUPIER)
    /\ has_session(id)
    /\ \E left \in SUBSET {login \in Others(id) : CanUnseat(login)} :
           /\ \E login \in Others(id) \ LoginsOf(IdsOf(left)) : ~CanUnseat(login)
           /\ leave_players(IdsOf(left))
           /\ told' = Informed(IdsOf(left))
    /\ UNCHANGED <<data_base, id2name, spin, status>>

\* Nothing compares the table of the croupier with the one of the player.
do_kick(id, login) ==
    /\ Executes(id, CROUPIER)
    /\ CanUnseat(login)
    /\ leave_players({login2id[login]})
    /\ told' = Informed({login2id[login]})
    /\ UNCHANGED <<data_base, id2name, spin, status>>
-----------------------------------------------------------------------------
(* Bets and the spin.  Arithmetic is on int, which wraps.                  *)

Wrap(n) == ((n + INT_MAX + 1) % (2 * (INT_MAX + 1))) - (INT_MAX + 1)

\* Mutant: the bets already made are not counted.
AffordableAlone(bets, bet, balance) == ~(bet.value > balance)

Affordable(bets, bet, balance) == ~(Wrap(Staked(bets) + bet.value) > balance)

\* Mutant: a bet takes the place of the ones before it.
push_over(bets, bet) == <<bet>>

push_back(bets, bet) == Append(bets, bet)

do_bet(id, bet) ==
    LET login == users[id].login
        bets  == get_session(id).bets[login]
    IN  /\ Executes(id, PLAYER)
        /\ validate(bet)
        /\ has_session(id)
        /\ Affordable(bets, bet, users[id].balance)
        /\ Len(bets) < MaxBets
        /\ sessions' = [sessions EXCEPT ![id2name[id]].bets[login] = push_back(bets, bet)]
        /\ UNCHANGED <<data_base, users, login2id, id2name, spin, told, status>>

WithinBound == \A login \in Logins : data_base[login] # None =>
                   data_base[login].balance \in MinBalance .. MaxBalance

\* do_spin up to its second loop: everybody at the table is told the pocket,
\* and the handler throws here, with nothing changed, if one has no connection.
do_spin(id, random_number) ==
    /\ Executes(id, CROUPIER)
    /\ has_session(id)
    /\ \A login \in get_session(id).users : login2id[login] # None
    /\ WithinBound
    /\ spin' = [table |-> id2name[id], random_number |-> random_number,
                paid |-> [login \in Logins |-> 0]]
    /\ UNCHANGED <<data_base, users, login2id, id2name, sessions, told, status>>

Spinning == status = "up" /\ spin # None
SpinBets == sessions[spin.table].bets
Unpaid(login) == spin.paid[login] < Len(SpinBets[login])
\* The loop is over the entries of session.bets, and inside over one vector.
Pays(login) == /\ Unpaid(login)
               /\ \A other \in Logins \ {login} : Unpaid(other) => spin.paid[other] = 0
Payable(login) == login2id[login] # None /\ users[login2id[login]] # None

\* Mutant: the loop pays the first bet each time.
FirstBet(login) == SpinBets[login][1]

NextBet(login) == SpinBets[login][spin.paid[login] + 1]

\* Mutant: the new balance is not written to the database.
set_no_balance(login, balance) == data_base

\* DataBase::set_user_balance
set_user_balance(login, balance) == [data_base EXCEPT ![login].balance = balance]

\* One iteration: Server::pay credits the connection that login2id names.
pay(login) ==
    /\ Spinning
    /\ Pays(login) /\ Payable(login)
    /\ LET id      == login2id[login]
           bet     == NextBet(login)
           value   == Wrap(Winnings(spin.random_number, bet))
           balance == Wrap(users[id].balance + value)
       IN  /\ users' = [users EXCEPT ![id].balance = balance]
           /\ data_base' = set_user_balance(users[id].login, balance)
    /\ spin' = [spin EXCEPT !.paid[login] = @ + 1]
    /\ UNCHANGED <<login2id, id2name, sessions, told, status>>

\* get_id or get_user throws: the rest is not paid and no bet is cleared.
spin_fails(login) ==
    /\ Spinning
    /\ Pays(login) /\ ~Payable(login)
    /\ spin' = None
    /\ UNCHANGED <<data_base, users, login2id, id2name, sessions, told, status>>

\* session.bets.clear()
clear_bets ==
    /\ Spinning
    /\ \A login \in Logins : ~Unpaid(login)
    /\ sessions' = [sessions EXCEPT ![spin.table].bets = NoBets]
    /\ spin' = None
    /\ UNCHANGED <<data_base, users, login2id, id2name, told, status>>
-----------------------------------------------------------------------------
(* Disconnection.  The transport may drop any connection at any time: by   *)
(* its own command, a time-out, an exception of a handler or the console.  *)
(* The session layer has forgotten the connection by then, so nothing is   *)
(* sent to it; but unsafe_kill runs do_disconnect under the mutex that     *)
(* TransferServer::send takes, so a message to anybody else never returns. *)

remove_user(id, mapping) ==
    /\ users' = [users EXCEPT ![id] = None]
    /\ login2id' = [mapping EXCEPT ![users[id].login] = None]
    /\ tell(id, NONE)

HasSeat(id) == Allowed(users[id].permission, PLAY)
IsCroupier(id) == Allowed(users[id].permission, CROUPIER)

disconnect_idle(id) ==
    /\ Serving /\ users[id] # None /\ ~HasSeat(id)
    /\ remove_user(id, login2id)
    /\ UNCHANGED <<data_base, id2name, sessions, spin, status>>

disconnect_player(id) ==
    /\ Serving /\ users[id] # None /\ HasSeat(id) /\ ~IsCroupier(id)
    /\ CanLeave(id)
    /\ sessions' = Vacated({id})
    /\ remove_user(id, login2id)
    /\ UNCHANGED <<data_base, id2name, spin, status>>

\* A croupier alone at the table.
disconnect_croupier(id) ==
    /\ Serving /\ users[id] # None /\ IsCroupier(id)
    /\ has_session(id) /\ Others(id) = {}
    /\ sessions' = [sessions EXCEPT ![id2name[id]] = None]
    /\ remove_user(id, login2id)
    /\ UNCHANGED <<data_base, id2name, spin, status>>

\* A croupier with players: the first of them leaves, and the message that
\* would tell so waits for the mutex its own thread holds.
disconnect_croupier_hangs(id) ==
    /\ Serving /\ users[id] # None /\ IsCroupier(id)
    /\ has_session(id)
    /\ \E login \in Others(id) : CanUnseat(login) /\ leave_players({login2id[login]})
    /\ status' = "hung"
    /\ UNCHANGED <<data_base, id2name, spin, told>>

\* Server::error leaves the thread of TransferServer::run: std::terminate.
disconnect_throws(id) ==
    /\ Serving /\ users[id] # None /\ HasSeat(id)
    /\ IF IsCroupier(id)
       THEN has_session(id) => \E login \in Others(id) : ~CanUnseat(login)
       ELSE ~CanLeave(id)
    /\ status' = "terminated"
    /\ UNCHANGED <<data_base, users, login2id, id2name, sessions, spin, told>>

\* The process dies or is killed at any point, and is started again.
restart ==
    /\ users' = Empty(Ids) /\ login2id' = Empty(Logins)
    /\ id2name' = Empty(Ids) /\ sessions' = Empty(Tables)
    /\ spin' = None
    /\ told' = [id \in Ids |-> NONE]
    /\ status' = "up"
    /\ UNCHANGED data_base
-----------------------------------------------------------------------------
disconnect_handle(id) ==
    \/ disconnect_idle(id) \/ disconnect_player(id) \/ disconnect_croupier(id)
    \/ disconnect_croupier_hangs(id) \/ disconnect_throws(id)

do_leave(id) == leave_player(id) \/ leave_croupier(id) \/ leave_croupier_fails(id)

Next ==
    \/ \E id \in Ids :
           \/ connect_handle(id) \/ disconnect_handle(id)
           \/ do_signout(id) \/ do_sync(id) \/ do_leave(id)
           \/ \E login \in Logins : do_signin(id, login) \/ do_kick(id, login)
           \/ \E login \in Logins : do_signup(id, login)
           \/ \E login \in SettableLogins, permission \in Grants :
                  do_set_permission(id, login, permission)
           \/ \E name \in Tables : do_join(id, name) \/ do_create(id, name)
           \/ \E bet \in Offers : do_bet(id, bet)
           \/ \E random_number \in Outcomes : do_spin(id, random_number)
    \/ \E login \in Logins : pay(login) \/ spin_fails(login)
    \/ clear_bets
    \/ restart

Spec == Init /\ [][Next]_vars
-----------------------------------------------------------------------------
TypeOK ==
    /\ data_base \in [Logins -> Account \cup {None}]
    /\ users \in [Ids -> User \cup {None}]
    /\ login2id \in [Logins -> Ids \cup {None}]
    /\ id2name \in [Ids -> Tables \cup {None}]
    /\ sessions \in [Tables -> Session \cup {None}]
    /\ spin \in Spin \cup {None}
    /\ told \in [Ids -> SUBSET ALL]
    /\ status \in {"up", "hung", "terminated"}

\* A login is used on one connection only, and login2id finds it there: the
\* "already logged in" test of do_signin is enough for that, although signing
\* out and disconnecting leave stale entries behind.
LoginMapped ==
    \A id \in Ids : users[id] # None /\ users[id].login # GuestLogin =>
        login2id[users[id].login] = id

\* The balance do_bet compares with is the one in the database, on every
\* connection: no pay() goes to a copy that is not written back.
BalanceCached ==
    \A id \in Ids : users[id] # None /\ users[id].login # GuestLogin =>
        /\ data_base[users[id].login] # None
        /\ users[id].balance = data_base[users[id].login].balance

\* A CROUPIER always has the table it opened, and is the croupier named there:
\* neither do_kick, nor leave_player, nor another croupier's leaving ends it.
CroupierKeepsTable ==
    status = "up" =>
        \A id \in Ids : users[id] # None /\ IsCroupier(id) =>
            /\ has_session(id)
            /\ get_session(id).croupier = users[id].login
            /\ users[id].login \in get_session(id).users

\* add_player tests fullness with ==; no history makes the number skip it.
TableCapacity ==
    \A name \in Tables : sessions[name] # None =>
        Cardinality(sessions[name].users) <= MAX_PLAYERS

\* What the client believes it may do is what the server lets it do.  One case
\* is known: when the guest's permission has been set to another, a client that
\* connects or signs out takes itself for a GUEST (do_signout sends the constant).
GuestAccountSet(id) ==
    GuestLogin \in SettableLogins /\ users[id].login = GuestLogin /\ told[id] = GUEST

ClientInSync ==
    status = "up" => \A id \in Ids : users[id] # None =>
        told[id] = users[id].permission \/ GuestAccountSet(id)
-----------------------------------------------------------------------------
(* What holds as long as the administrator is careful.                     *)

\* Permissions and seats are the same thing seen from both sides: everybody in
\* session.users is reachable through login2id, has its name in id2name and the
\* permission of its role, and whoever has such a permission is in users.
SeatsMatch ==
    status = "up" =>
        /\ \A name \in Tables : sessions[name] # None =>
              \A login \in sessions[name].users :
                  LET id == login2id[login]
                  IN  /\ id # None /\ users[id] # None
                      /\ users[id].login = login
                      /\ id2name[id] = name
                      /\ users[id].permission =
                            IF login = sessions[name].croupier THEN CROUPIER ELSE PLAYER
        /\ \A id \in Ids : users[id] # None /\ HasSeat(id) =>
              has_session(id) /\ users[id].login \in get_session(id).users

\* do_disconnect, called by the transport with nobody to catch a Server::error,
\* never throws one.
NeverTerminated == status # "terminated"

\* What is still staked at a table is covered by the balance of the account, at
\* every step of a spin and whatever was won or lost before: nobody's balance
\* can become negative.
StillStaked(name, login) ==
    LET bets == sessions[name].bets[login]
    IN  IF spin # None /\ spin.table = name
        THEN Staked(bets) - sums(bets)[spin.paid[login]]
        ELSE Staked(bets)

BetsCovered ==
    \A name \in Tables, login \in Logins :
        sessions[name] # None /\ data_base[login] # None =>
            StillStaked(name, login) <= data_base[login].balance

\* A spin that has begun to pay ends with every bet of the table paid, unless
\* the process dies: get_id and get_user do not throw in the middle of it.
SpinSettles ==
    [][spin # None /\ spin' = None =>
           users' = Empty(Ids) \/ \A login \in Logins : ~Unpaid(login)]_vars

\* A balance changes only as the account's own next bet is paid.
PaidToBettor ==
    [][\A login \in Logins :
           data_base[login] # None /\ data_base'[login].balance # data_base[login].balance =>
               spin # None /\ spin'.paid[login] = spin.paid[login] + 1]_vars

\* do_disconnect finishes: the server can go on serving the other clients.
NeverHangs == status # "hung"

\* The bets of a login at a table only grow, until a spin has paid them all or
\* the login is no longer at the table.
BetsHonoured ==
    [][\A name \in Tables, login \in Logins :
           LET bets == sessions[name].bets[login]
               seated == sessions'[name] # None /\ login \in sessions'[name].users
           IN  sessions[name] # None /\ login \in sessions[name].users /\ seated =>
                   \/ IsPrefix(bets, sessions'[name].bets[login])
                   \/ spin # None /\ spin.table = name /\ spin.paid[login] = Len(bets)]_vars

\* What Casino sees of this: balances, the bets not paid yet and the spin.
account == [login \in Logins |->
    IF data_base[login] = None THEN None ELSE data_base[login].balance]

Stake(name, login) ==
    LET bets == sessions[name].bets[login]
    IN  CASE sessions[name] = None -> <<>>
          [] sessions[name] # None /\ spin # None /\ spin.table = name ->
                 SubSeq(bets, spin.paid[login] + 1, Len(bets))
          [] OTHER -> bets

stakes == [name \in Tables |-> [login \in Logins |-> Stake(name, login)]]

wheel == IF spin = None THEN [table |-> None, pocket |-> 0]
         ELSE [table |-> spin.table, pocket |-> spin.random_number]

\* Crashes, seats and connections apart, the server is a casino: what is staked
\* and not yet paid is of accounts that can pay it, of each at one table only,
\* and a spin settles, with one pocket, every bet of its table.
TheCasino == INSTANCE Casino WITH account <- account, stakes <- stakes, wheel <- wheel

CasinoImplemented == TheCasino!Spec

\* What Seating sees of a connection.
permission_of(id) == IF users[id] = None THEN NONE ELSE users[id].permission

SeatingOf(id) == INSTANCE Seating WITH permission <- permission_of(id)

\* A seat is taken by do_join and do_create only, with the permission they ask for.
\* What the database grants has none, although an administrator writes it (his
\* client lets him set no seat), and what he does to somebody at a table ends
\* the seat.
SeatingKept ==
    [][\A id \in Ids : SeatingOf(id)!Next \/ UNCHANGED permission_of(id)]_vars
=============================================================================
