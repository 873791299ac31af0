---------------------- MODULE GameServerCareful_proofs ----------------------
(***************************************************************************)
(* Theorems about GameServer as long as the administrator leaves those who *)
(* sit at a table alone: permissions, seats and both maps agree, so that a *)
(* disconnection never throws and a spin always pays everybody.            *)
(***************************************************************************)
EXTENDS GameServer_proofs

\* The entry of login, seen from a table where it is a user.
Sits(login, name) ==
    LET id == login2id[login]
    IN  /\ id # None /\ users[id] # None
        /\ users[id].login = login
        /\ id2name[id] = name
        /\ users[id].permission = IF login = sessions[name].croupier THEN CROUPIER ELSE PLAYER

Seated(id) == users[id] # None /\ HasSeat(id)
Open(name) == sessions[name] # None
Users(name) == sessions[name].users

TablesSeeUsers == \A name \in Tables : Open(name) => \A login \in Users(name) : Sits(login, name)
UsersSeeTables == \A id \in Ids :
    Seated(id) => has_session(id) /\ users[id].login \in get_session(id).users

\* What SeatsMatch needs to be inductive: the croupier is among the users (or
\* could join the own table as a player), ...
CroupierSits == \A name \in Tables : Open(name) => sessions[name].croupier \in Users(name)

\* ... and guests, of whom there may be many with one login, never sit.
GuestPlain == \A id \in Ids :
    users[id] # None /\ users[id].login = GuestLogin => users[id].permission = GUEST

\* Whoever has a bet at a table is one of its users.
BettorsSit == \A name \in Tables, login \in Logins :
    Open(name) /\ sessions[name].bets[login] # <<>> => login \in Users(name)

Matched == TablesSeeUsers /\ UsersSeeTables /\ CroupierSits /\ GuestPlain /\ BettorsSit
MatchInv == status = "up" => Matched

\* All that is known of a state.
Context ==
    CarefulAdmin /\ TypeInv /\ LoginMapped /\ RowsUnseated /\ MatchInv /\ status = "up"

(* Permissions and seats.                                                  *)
LEMMA SeatMasks ==
    /\ Allowed(CROUPIER, PLAY) /\ Allowed(PLAYER, PLAY) /\ ~Allowed(PLAYER, CROUPIER)
    /\ Allowed(CROUPIER, CROUPIER) /\ ~Allowed(CROUPIER, PLAYER)
    /\ \A needed \in {GUEST, WAIT, USER, STAFF, ADMIN} :
           ~Allowed(CROUPIER, needed) /\ ~Allowed(PLAYER, needed)
    /\ \A permission : Allowed(permission, CROUPIER) \/ Allowed(permission, PLAYER)
                       => Allowed(permission, PLAY)
    /\ \A needed \in {WAIT, STAFF, PLAY} : ~Allowed(GUEST, needed)
  BY DEF Allowed, PLAY, WAIT, GUEST, USER, STAFF, ADMIN, PLAYER, CROUPIER

(* SeatsMatch is the first two parts.                                      *)
LEMMA MatchesSeats == MatchInv => SeatsMatch
  BY DEF MatchInv, Matched, TablesSeeUsers, UsersSeeTables, Sits, Open, Users, Seated,
         HasSeat, SeatsMatch

(* Everybody at a table is at it on a connection with a seat.              *)
LEMMA SitterSeated ==
    ASSUME Context, NEW name \in Tables, Open(name), NEW login \in Users(name)
    PROVE  /\ login2id[login] \in Ids /\ Seated(login2id[login])
           /\ users[login2id[login]].login = login /\ id2name[login2id[login]] = name
           /\ login \in Logins /\ login # GuestLogin
  <1>1. Sits(login, name) BY DEF Context, MatchInv, Matched, TablesSeeUsers
  <1>2. sessions[name] \in Session BY DEF Context, TypeInv, TypeOK, Open
  <1>3. login \in Logins BY <1>2 DEF Session, Users
  <1>4. login2id[login] \in Ids BY <1>1, <1>3 DEF Sits, Context, TypeInv, TypeOK
  <1>5. Seated(login2id[login]) BY <1>1, SeatMasks DEF Sits, Seated, HasSeat
  <1>6. login # GuestLogin
    BY <1>1, <1>4, SeatMasks
       DEF Sits, Context, MatchInv, Matched, GuestPlain, Allowed, CROUPIER, PLAYER, GUEST
  <1>. QED BY <1>1, <1>3, <1>4, <1>5, <1>6 DEF Sits

(* A user of a table who is on some connection is there with a seat.       *)
LEMMA OneSitter ==
    ASSUME Context, NEW name \in Tables, Open(name), NEW id \in Ids, users[id] # None,
           users[id].login \in Users(name)
    PROVE  login2id[users[id].login] = id /\ Seated(id) /\ id2name[id] = name
  <1>1. users[id].login # GuestLogin BY SitterSeated
  <1>2. login2id[users[id].login] = id BY <1>1 DEF Context, LoginMapped
  <1>. QED BY <1>2, SitterSeated

(* Whoever has a seat has a table, and login2id finds him.                 *)
LEMMA SeatedSits ==
    ASSUME Context, NEW id \in Ids, Seated(id)
    PROVE  /\ id2name[id] \in Tables /\ Open(id2name[id]) /\ has_session(id)
           /\ users[id].login \in Users(id2name[id]) /\ login2id[users[id].login] = id
           /\ IsCroupier(id) <=> sessions[id2name[id]].croupier = users[id].login
           /\ ~IsCroupier(id) => CanLeave(id)
  <1>1. has_session(id) /\ users[id].login \in get_session(id).users
    BY DEF Context, MatchInv, Matched, UsersSeeTables
  <1>2. id2name[id] \in Tables /\ Open(id2name[id]) /\ users[id].login \in Users(id2name[id])
    BY <1>1 DEF has_session, get_session, Open, Users, Context, TypeInv, TypeOK
  <1>3. login2id[users[id].login] = id BY <1>2, OneSitter DEF Seated
  <1>4. IsCroupier(id) <=> sessions[id2name[id]].croupier = users[id].login
    BY <1>2, <1>3, SeatMasks
       DEF Context, MatchInv, Matched, TablesSeeUsers, Sits, IsCroupier
  <1>. QED BY <1>1, <1>2, <1>3, <1>4 DEF CanLeave, get_session, Seated
-----------------------------------------------------------------------------
(* Steps that seat nobody.                                                 *)

(* The connections of a set lose their seats, if they have any: the tables *)
(* lose their users, and the maps are written for them only.               *)
LEMMA SeatsLost ==
    ASSUME Context, NEW ids \in SUBSET Ids,
           \A i \in Ids \ ids : users'[i] = users[i] /\ id2name'[i] = id2name[i],
           \A i \in ids : users'[i] # None =>
               /\ ~HasSeat(i)'
               /\ users'[i].login = GuestLogin => users'[i].permission = GUEST,
           \A name \in Tables : Open(name)' =>
               /\ Open(name) /\ sessions'[name].croupier = sessions[name].croupier
               /\ sessions'[name].croupier \in Users(name)'
               /\ \A login \in Users(name)' :
                      /\ login \in Users(name) /\ login2id[login] \notin ids
                      /\ login2id'[login] = login2id[login]
               /\ \A login \in Logins :
                      sessions'[name].bets[login] # <<>> => login \in Users(name)',
           \A i \in Ids \ ids : Seated(i) =>
               Open(id2name[i])' /\ users[i].login \in Users(id2name[i])'
    PROVE  MatchInv'
  <1>1. TablesSeeUsers'
    <2>1. ASSUME NEW name \in Tables, Open(name)', NEW login \in Users(name)'
          PROVE  Sits(login, name)'
      <3>1. Open(name) /\ login \in Users(name) /\ login2id[login] \in Ids \ ids
        BY <2>1, SitterSeated
      <3>2. Sits(login, name)
        BY <3>1 DEF Context, MatchInv, Matched, TablesSeeUsers
      <3>. QED BY <2>1, <3>1, <3>2 DEF Sits
    <2>. QED BY <2>1 DEF TablesSeeUsers
  <1>2. UsersSeeTables'
    <2>1. ASSUME NEW i \in Ids, Seated(i)'
          PROVE  has_session(i)' /\ users'[i].login \in get_session(i)'.users
      <3>1. i \notin ids /\ Seated(i) BY <2>1 DEF Seated, HasSeat
      <3>2. id2name[i] \in Tables BY <3>1, SeatedSits
      <3>. QED BY <3>1, <3>2, NoneAssumption DEF has_session, get_session, Open, Users
    <2>. QED BY <2>1 DEF UsersSeeTables
  <1>3. CroupierSits' /\ BettorsSit' BY DEF CroupierSits, BettorsSit
  <1>4. GuestPlain' BY DEF GuestPlain, Context, MatchInv, Matched
  <1>. QED BY <1>1, <1>2, <1>3, <1>4 DEF MatchInv, Matched

(* A connection without a seat changes its user.                           *)
LEMMA IdleChanges ==
    ASSUME Context, NEW id \in Ids, ~Seated(id), UNCHANGED <<sessions, id2name>>,
           \A i \in Ids \ {id} : users'[i] = users[i],
           users'[id] # None =>
               /\ ~HasSeat(id)'
               /\ users'[id].login = GuestLogin => users'[id].permission = GUEST,
           \A login \in Logins : login2id'[login] = login2id[login]
               \/ \A name \in Tables : Open(name) => login \notin Users(name)
    PROVE  MatchInv'
  <1>1. ASSUME NEW name \in Tables, Open(name)'
        PROVE  /\ Open(name) /\ sessions'[name] = sessions[name]
               /\ sessions[name].croupier \in Users(name)
               /\ \A login \in Users(name) :
                      login2id[login] # id /\ login2id'[login] = login2id[login]
               /\ \A login \in Logins :
                      sessions[name].bets[login] # <<>> => login \in Users(name)
    BY <1>1, SitterSeated DEF Open, Context, MatchInv, Matched, CroupierSits, BettorsSit
  <1>2. ASSUME NEW i \in Ids \ {id}, Seated(i)
        PROVE  Open(id2name[i])' /\ users[i].login \in Users(id2name[i])'
    BY <1>2, SeatedSits DEF Open, Users
  <1>. DEFINE ids == {id}
  <1>3. /\ ids \in SUBSET Ids
        /\ \A i \in Ids \ ids : users'[i] = users[i] /\ id2name'[i] = id2name[i]
        /\ \A i \in ids : users'[i] # None =>
               /\ ~HasSeat(i)'
               /\ users'[i].login = GuestLogin => users'[i].permission = GUEST
    OBVIOUS
  <1>4. \A name \in Tables : Open(name)' =>
            /\ Open(name) /\ sessions'[name].croupier = sessions[name].croupier
            /\ sessions'[name].croupier \in Users(name)'
            /\ \A login \in Users(name)' :
                   /\ login \in Users(name) /\ login2id[login] \notin ids
                   /\ login2id'[login] = login2id[login]
            /\ \A login \in Logins :
                   sessions'[name].bets[login] # <<>> => login \in Users(name)'
    BY <1>1 DEF Users
  <1>5. \A i \in Ids \ ids : Seated(i) =>
            Open(id2name[i])' /\ users[i].login \in Users(id2name[i])'
    BY <1>2
  <1>. HIDE DEF ids
  <1>. QED BY <1>3, <1>4, <1>5, SeatsLost

(* Those who leave are taken off the users of their tables.                *)
LEMMA VacatedUsers ==
    ASSUME NEW ids, NEW name \in Tables, Open(name)
    PROVE  Vacated(ids)[name].users = Users(name) \ Gone(ids, name)
  BY DEF Vacated, Open, Users

(* What becomes of the tables when some of their players leave.            *)
LEMMA TablesLose ==
    ASSUME Context, NEW ids \in SUBSET Ids, \A i \in ids : users[i] # None,
           NEW name \in Tables, Open(name),
           \A i \in ids : id2name[i] = name => CanLeave(i)
    PROVE  LET session == Vacated(ids)[name]
           IN  /\ session # None /\ session.croupier = sessions[name].croupier
               /\ session.croupier \in session.users
               /\ \A login \in session.users :
                      /\ login \in Users(name) /\ login2id[login] \notin ids
                      /\ \A i \in ids : users[i].login # login
               /\ \A login \in Logins : session.bets[login] # <<>> => login \in session.users
  <1>1. Vacated(ids)[name] # None BY VacatedType DEF Open, Context, TypeInv
  <1>2. /\ Vacated(ids)[name].croupier = sessions[name].croupier
        /\ Vacated(ids)[name].users = Users(name) \ Gone(ids, name)
        /\ \A login \in Logins : Vacated(ids)[name].bets[login] =
               IF login \in Gone(ids, name) THEN <<>> ELSE sessions[name].bets[login]
    BY DEF Vacated, BetsLeft, Open, Users
  <1>3. sessions[name].croupier \in Users(name) \ Gone(ids, name)
    BY DEF Context, MatchInv, Matched, CroupierSits, Gone, CanLeave, get_session
  <1>4. ASSUME NEW login \in Users(name) \ Gone(ids, name)
        PROVE  login2id[login] \notin ids /\ \A i \in ids : users[i].login # login
    <2>1. \A i \in ids : users[i].login = login => id2name[i] = name BY OneSitter
    <2>2. \A i \in ids : users[i].login # login BY <2>1 DEF Gone
    <2>. QED BY <2>2, SitterSeated
  <1>5. \A login \in Logins : sessions[name].bets[login] # <<>> => login \in Users(name)
    BY DEF Context, MatchInv, Matched, BettorsSit
  <1>. QED BY <1>1, <1>2, <1>3, <1>4, <1>5

(* Some players leave: each gets a permission without a seat, or is gone.  *)
LEMMA PlayersLost ==
    ASSUME Context, NEW ids \in SUBSET Ids, \A i \in ids : users[i] # None /\ CanLeave(i),
           sessions' = Vacated(ids), id2name' = id2name,
           \A i \in Ids \ ids : users'[i] = users[i],
           \A i \in ids : users'[i] # None =>
               /\ ~HasSeat(i)'
               /\ users'[i].login = GuestLogin => users'[i].permission = GUEST,
           \A login \in Logins : login2id'[login] = login2id[login]
               \/ \E i \in ids : users[i].login = login
    PROVE  MatchInv'
  <1>1. ASSUME NEW name \in Tables, Open(name)' PROVE Open(name)
    BY <1>1, VacatedType DEF Open, Context, TypeInv
  <1>2. ASSUME NEW i \in Ids \ ids, Seated(i)
        PROVE  Open(id2name[i])' /\ users[i].login \in Users(id2name[i])'
    <2>1. /\ id2name[i] \in Tables /\ Open(id2name[i])
          /\ users[i].login \in Users(id2name[i]) /\ login2id[users[i].login] = i
      BY <1>2, SeatedSits
    <2>2. users[i].login \notin Gone(ids, id2name[i])
      BY <2>1, OneSitter DEF Gone
    <2>3. Open(id2name[i])' BY <2>1, VacatedType DEF Open, Context, TypeInv
    <2>4. sessions'[id2name[i]].users = Users(id2name[i]) \ Gone(ids, id2name[i])
      BY <2>1, VacatedUsers
    <2>5. id2name'[i] = id2name[i] OBVIOUS
    <2>. QED BY <2>1, <2>2, <2>3, <2>4 DEF Users
  <1>3. ASSUME NEW name \in Tables, Open(name)'
        PROVE  /\ Open(name) /\ sessions'[name].croupier = sessions[name].croupier
               /\ sessions'[name].croupier \in Users(name)'
               /\ \A login \in Users(name)' :
                      /\ login \in Users(name) /\ login2id[login] \notin ids
                      /\ login2id'[login] = login2id[login]
               /\ \A login \in Logins :
                      sessions'[name].bets[login] # <<>> => login \in Users(name)'
    BY <1>1, <1>3, TablesLose, SitterSeated DEF Users
  <1>. QED BY <1>2, <1>3, SeatsLost

(* Whoever leaves gets the permission of the database back: no seat, and a *)
(* guest is a plain guest.                                                 *)
LEMMA RestoredPlain ==
    ASSUME Context, NEW ids \in SUBSET Ids, \A i \in ids : users[i] # None,
           users' = Restored(ids), NEW i \in ids
    PROVE  ~HasSeat(i)' /\ (users'[i].login = GuestLogin => users'[i].permission = GUEST)
  <1>1. users[i] \in User /\ users[i].login \in Logins /\ data_base[users[i].login] # None
    BY DEF Context, TypeInv, TypeOK, Known, User
  <1>2. users'[i].permission = data_base[users[i].login].permission
        /\ users'[i].login = users[i].login
    BY <1>1 DEF Restored, User
  <1>. QED BY <1>1, <1>2 DEF Context, RowsUnseated, GuestUnset, HasSeat

(* leave_player, for players who may leave.                                *)
LEMMA PlayersLeaveMatch ==
    ASSUME Context, NEW ids \in SUBSET Ids, \A i \in ids : users[i] # None /\ CanLeave(i),
           leave_players(ids), id2name' = id2name
    PROVE  MatchInv'
  <1>1. sessions' = Vacated(ids) /\ users' = Restored(ids) BY DEF leave_players
  <1>2. \A i \in ids :
            ~HasSeat(i)' /\ (users'[i].login = GuestLogin => users'[i].permission = GUEST)
    BY <1>1, RestoredPlain
  <1>3. \A i \in Ids \ ids : users'[i] = users[i] BY <1>1 DEF Restored
  <1>4. \A login \in Logins : login2id'[login] = login2id[login]
            \/ \E i \in ids : users[i].login = login
    <2>1. CASE ids = {} BY <2>1 DEF leave_players
    <2>2. CASE ids # {} BY <2>2 DEF leave_players, Remapped
    <2>. QED BY <2>1, <2>2
  <1>. QED BY <1>1, <1>2, <1>3, <1>4, PlayersLost
-----------------------------------------------------------------------------
(* Taking a seat, and closing a table.                                     *)

(* Every seat is a player's or a croupier's.                               *)
LEMMA SeatedPermission ==
    ASSUME Context, NEW id \in Ids, Seated(id)
    PROVE  users[id].permission \in {PLAYER, CROUPIER}
  BY SeatedSits DEF Context, MatchInv, Matched, TablesSeeUsers, Sits

(* Who may run a command for users at no table is one of them.             *)
LEMMA WaitingUnseated ==
    ASSUME Context, NEW id \in Ids, users[id] # None
    PROVE  /\ \A needed \in {GUEST, WAIT, USER, STAFF, ADMIN} :
                  Allowed(users[id].permission, needed) => ~Seated(id)
           /\ \A needed \in {WAIT, STAFF} :
                  Allowed(users[id].permission, needed) => users[id].login # GuestLogin
  BY SeatedPermission, SeatMasks DEF Context, MatchInv, Matched, GuestPlain

\* A user at no table sits down at one, in a role.
Takes(id, user, name, role) ==
    /\ users[id] # None /\ ~Seated(id) /\ users[id].login = user /\ user # GuestLogin
    /\ users'[id] # None /\ users'[id].login = user /\ users'[id].permission = role
    /\ login2id'[user] = id /\ id2name'[id] = name
    /\ \A i \in Ids \ {id} : users'[i] = users[i] /\ id2name'[i] = id2name[i]
    /\ \A login \in Logins \ {user} : login2id'[login] = login2id[login]
    /\ \A other \in Tables \ {name} : sessions'[other] = sessions[other]
    /\ sessions'[name] # None
    /\ sessions'[name].croupier \in sessions'[name].users
    /\ user \in sessions'[name].users
    /\ role = IF user = sessions'[name].croupier THEN CROUPIER ELSE PLAYER
    /\ Open(name) => sessions'[name].croupier = sessions[name].croupier
    /\ \A login \in sessions'[name].users :
           login = user \/ (Open(name) /\ login \in Users(name))
    /\ Open(name) => Users(name) \subseteq sessions'[name].users
    /\ \A login \in Logins :
           sessions'[name].bets[login] # <<>> => login \in sessions'[name].users

(* Sitting down keeps seats and permissions in step.                       *)
LEMMA SeatTaken ==
    ASSUME Context, NEW id \in Ids, NEW user, NEW name \in Tables, NEW role,
           Takes(id, user, name, role)
    PROVE  MatchInv'
  <1>. USE DEF Takes
  <1>1. TablesSeeUsers'
    <2>1. ASSUME NEW other \in Tables, Open(other)', NEW login \in Users(other)'
          PROVE  Sits(login, other)'
      <3>1. CASE other = name /\ login = user
        BY <3>1, NoneAssumption DEF Sits
      <3>2. CASE ~(other = name /\ login = user)
        <4>1. Open(other) /\ login \in Users(other) /\ sessions'[other].croupier = sessions[other].croupier
          BY <2>1, <3>2 DEF Open, Users
        <4>2. Sits(login, other)
          BY <4>1 DEF Context, MatchInv, Matched, TablesSeeUsers
        <4>3. login2id[login] \in Ids \ {id} /\ login \in Logins /\ login # user
          BY <4>1, SitterSeated, OneSitter
        <4>. QED BY <4>1, <4>2, <4>3 DEF Sits
      <3>. QED BY <3>1, <3>2
    <2>. QED BY <2>1 DEF TablesSeeUsers
  <1>2. UsersSeeTables'
    <2>1. ASSUME NEW i \in Ids \ {id}, Seated(i)'
          PROVE  has_session(i)' /\ users'[i].login \in get_session(i)'.users
      <3>1. Seated(i) BY <2>1 DEF Seated, HasSeat
      <3>2. id2name[i] \in Tables /\ Open(id2name[i]) /\ users[i].login \in Users(id2name[i])
        BY <3>1, SeatedSits
      <3>. QED BY <3>2, NoneAssumption DEF has_session, get_session, Open, Users
    <2>2. has_session(id)' /\ users'[id].login \in get_session(id)'.users
      BY NoneAssumption DEF has_session, get_session, Open, Users
    <2>. QED BY <2>1, <2>2 DEF UsersSeeTables
  <1>3. CroupierSits' /\ BettorsSit'
    BY DEF CroupierSits, BettorsSit, Open, Users, Context, MatchInv, Matched
  <1>4. GuestPlain' BY DEF GuestPlain, Context, MatchInv, Matched
  <1>. QED BY <1>1, <1>2, <1>3, <1>4 DEF MatchInv, Matched

(* local_set_user_permission of one connection.                            *)
LEMMA SetPermissionEffect ==
    ASSUME Context, NEW id \in Ids, users[id] # None, NEW permission,
           local_set_user_permission(id, permission)
    PROVE  /\ users[id].login \in Logins
           /\ users'[id].login = users[id].login /\ users'[id].permission = permission
           /\ users'[id] = [users[id] EXCEPT !.permission = permission]
           /\ login2id'[users[id].login] = id
           /\ \A i \in Ids \ {id} : users'[i] = users[i]
           /\ \A login \in Logins \ {users[id].login} : login2id'[login] = login2id[login]
  <1>1. users[id] \in User BY DEF Context, TypeInv, TypeOK
  <1>2. /\ users[id].login \in Logins
        /\ [users[id] EXCEPT !.permission = permission].login = users[id].login
        /\ [users[id] EXCEPT !.permission = permission].permission = permission
    BY <1>1 DEF User
  <1>. QED BY <1>2 DEF local_set_user_permission, add_user, Context, TypeInv, TypeOK

(* do_join                                                                 *)
LEMMA JoinMatch ==
    ASSUME Context, NEW id \in Ids, NEW name \in Tables, do_join(id, name)
    PROVE  MatchInv'
  <1>. DEFINE login == users[id].login
  <1>1. users[id] # None /\ ~Seated(id) /\ login # GuestLogin /\ Open(name)
    BY WaitingUnseated DEF do_join, Executes, Open
  <1>2. /\ login \in Logins /\ users'[id].login = login /\ users'[id].permission = PLAYER
        /\ users'[id] = [users[id] EXCEPT !.permission = PLAYER]
        /\ login2id'[login] = id
        /\ \A i \in Ids \ {id} : users'[i] = users[i]
        /\ \A other \in Logins \ {login} : login2id'[other] = login2id[other]
    BY <1>1, SetPermissionEffect DEF do_join
  <1>3. users'[id] # None
    <2>1. [users[id] EXCEPT !.permission = PLAYER] \in User
      BY <1>1, PermissionsType DEF Context, TypeInv, TypeOK, User
    <2>. QED BY <1>2, <2>1, NoneIsNothing
  <1>4. id2name'[id] = name /\ \A i \in Ids \ {id} : id2name'[i] = id2name[i]
    BY DEF do_join, Seat, Context, TypeInv, TypeOK
  <1>5. sessions[name] \in Session BY <1>1 DEF Open, Context, TypeInv, TypeOK
  <1>6. [sessions[name] EXCEPT !.users = @ \cup {login}] \in Session
    BY <1>2, <1>5 DEF Session
  <1>7. /\ sessions'[name] = [sessions[name] EXCEPT !.users = @ \cup {login}]
        /\ \A other \in Tables \ {name} : sessions'[other] = sessions[other]
    BY DEF do_join, Context, TypeInv, TypeOK
  <1>8. /\ Open(name)' /\ Users(name)' = Users(name) \cup {login}
        /\ sessions'[name].croupier = sessions[name].croupier
        /\ sessions'[name].bets = sessions[name].bets
    BY <1>5, <1>6, <1>7, NoneIsNothing DEF Open, Users, Session
  <1>9. /\ sessions[name].croupier \in Users(name)
        /\ \A other \in Logins : sessions[name].bets[other] # <<>> => other \in Users(name)
        /\ login \notin Users(name)
    BY <1>1, OneSitter DEF Context, MatchInv, Matched, CroupierSits, BettorsSit
  <1>10. PLAYER = IF login = sessions'[name].croupier THEN CROUPIER ELSE PLAYER
    BY <1>8, <1>9
  <1>11. users[id].login = login OBVIOUS
  <1>. HIDE DEF login
  <1>12. Takes(id, login, name, PLAYER)
    BY <1>1, <1>2, <1>3, <1>4, <1>7, <1>8, <1>9, <1>10, <1>11 DEF Takes, Open, Users
  <1>. QED BY <1>12, SeatTaken

(* do_create                                                               *)
LEMMA CreateMatch ==
    ASSUME Context, NEW id \in Ids, NEW name \in Tables, do_create(id, name)
    PROVE  MatchInv'
  <1>. DEFINE login == users[id].login
  <1>1. users[id] # None /\ ~Seated(id) /\ login # GuestLogin /\ ~Open(name)
    BY WaitingUnseated DEF do_create, IsFree, Executes, Open
  <1>2. /\ login \in Logins /\ users'[id].login = login /\ users'[id].permission = CROUPIER
        /\ users'[id] = [users[id] EXCEPT !.permission = CROUPIER]
        /\ login2id'[login] = id
        /\ \A i \in Ids \ {id} : users'[i] = users[i]
        /\ \A other \in Logins \ {login} : login2id'[other] = login2id[other]
    BY <1>1, SetPermissionEffect DEF do_create
  <1>3. users'[id] # None
    <2>1. [users[id] EXCEPT !.permission = CROUPIER] \in User
      BY <1>1, PermissionsType DEF Context, TypeInv, TypeOK, User
    <2>. QED BY <1>2, <2>1, NoneIsNothing
  <1>4. id2name'[id] = name /\ \A i \in Ids \ {id} : id2name'[i] = id2name[i]
    BY DEF do_create, Seat, Context, TypeInv, TypeOK
  <1>5. NewTable(name, login) \in Session BY <1>2 DEF NewTable, NoBets, Session
  <1>6. /\ sessions'[name] = NewTable(name, login)
        /\ \A other \in Tables \ {name} : sessions'[other] = sessions[other]
    BY DEF do_create, Context, TypeInv, TypeOK
  <1>7. /\ Open(name)' /\ Users(name)' = {login} /\ sessions'[name].croupier = login
        /\ sessions'[name].bets = NoBets
    <2>1. Open(name)' BY <1>5, <1>6, NoneIsNothing DEF Open
    <2>. QED BY <1>6, <2>1 DEF Users, NewTable
  <1>8. \A other \in Logins : sessions'[name].bets[other] = <<>> BY <1>7 DEF NoBets
  <1>9. users[id].login = login OBVIOUS
  <1>. HIDE DEF login
  <1>10. Takes(id, login, name, CROUPIER)
    BY <1>1, <1>2, <1>3, <1>4, <1>6, <1>7, <1>8, <1>9 DEF Takes, Open, Users
  <1>. QED BY <1>10, SeatTaken

(* The table of a croupier closes: its users are the ones who lose a seat. *)
LEMMA Closing ==
    ASSUME Context, NEW id \in Ids, Seated(id), IsCroupier(id),
           NEW i \in Ids \ (IdsOf(Others(id)) \cup {id}), Seated(i)
    PROVE  id2name[i] # id2name[id]
  <1>1. users[i].login \in Users(id2name[i]) /\ login2id[users[i].login] = i BY SeatedSits
  <1>2. sessions[id2name[id]].croupier = users[id].login /\ login2id[users[id].login] = id
    BY SeatedSits
  <1>. QED BY <1>1, <1>2 DEF Others, get_session, Users, IdsOf

(* With everybody where his seat is, no login is passed over.              *)
LEMMA EverybodyLeaves ==
    ASSUME Context, NEW id \in Ids, Seated(id), NEW left \in SUBSET Others(id),
           Others(id) \ left \subseteq LoginsOf(IdsOf(left))
    PROVE  left = Others(id)
  <1>1. \A login \in left : users[login2id[login]].login = login
    BY SeatedSits, SitterSeated DEF Others, get_session, Users
  <1>2. LoginsOf(IdsOf(left)) \subseteq left BY <1>1 DEF LoginsOf, IdsOf
  <1>. QED BY <1>2

(* A croupier leaves, and with him everybody at the table.                 *)
LEMMA CroupierLeavesMatch ==
    ASSUME Context, NEW id \in Ids, leave_croupier(id)
    PROVE  MatchInv'
  <1>. DEFINE leaving == IdsOf(Others(id)) \cup {id}
              table == id2name[id]
  <1>1. Seated(id) /\ IsCroupier(id) /\ has_session(id)
    BY SeatMasks DEF leave_croupier, Executes, Seated, HasSeat, IsCroupier
  <1>0. /\ \A login \in Others(id) : CanUnseat(login)
        /\ sessions' = [Vacated(leaving) EXCEPT ![table] = None]
        /\ users' = Restored(leaving) /\ id2name' = id2name
        /\ \E last \in leaving : login2id' = Remapped(leaving, last)
    <2>1. PICK left \in SUBSET Others(id) :
              /\ \A login \in left : CanUnseat(login)
              /\ Others(id) \ left \subseteq LoginsOf(IdsOf(left))
              /\ LET gone == IdsOf(left) \cup {id}
                 IN  /\ sessions' = [Vacated(gone) EXCEPT ![table] = None]
                     /\ users' = Restored(gone)
                     /\ \E last \in gone : login2id' = Remapped(gone, last)
      BY DEF leave_croupier
    <2>2. left = Others(id) BY <1>1, <2>1, EverybodyLeaves
    <2>. QED BY <2>1, <2>2 DEF leave_croupier
  <1>2. /\ leaving \in SUBSET Ids /\ \A i \in leaving : users[i] # None
        /\ \A i \in leaving : i = id \/ CanLeave(i)
    BY <1>0, <1>1, OthersOnline DEF Context, TypeInv, Seated
  <1>3. PICK last \in leaving : login2id' = Remapped(leaving, last)
    BY <1>0
  <1>4. /\ sessions' = [Vacated(leaving) EXCEPT ![table] = None] /\ table \in Tables
        /\ users' = Restored(leaving) /\ id2name' = id2name
    BY <1>0, <1>1, SeatedSits
  <1>5. \A i \in Ids \ leaving : Seated(i) => id2name[i] # table BY <1>1, Closing
  <1>. HIDE DEF leaving
  <1>6. Vacated(leaving) \in [Tables -> Session \cup {None}]
    BY <1>2, VacatedType DEF Context, TypeInv
  <1>7. \A name \in Tables \ {table} : sessions'[name] = Vacated(leaving)[name]
    BY <1>4, <1>6
  <1>8. ASSUME NEW name \in Tables, Open(name)'
        PROVE  /\ Open(name) /\ sessions'[name].croupier = sessions[name].croupier
               /\ sessions'[name].croupier \in Users(name)'
               /\ \A login \in Users(name)' :
                      /\ login \in Users(name) /\ login2id[login] \notin leaving
                      /\ login2id'[login] = login2id[login]
               /\ \A login \in Logins :
                      sessions'[name].bets[login] # <<>> => login \in Users(name)'
    <2>1. name # table BY <1>4, <1>6, <1>8 DEF Open
    <2>2. Open(name) BY <1>2, <1>7, <1>8, <2>1, VacatedType DEF Open, Context, TypeInv
    <2>3. \A i \in leaving : id2name[i] = name => CanLeave(i) BY <1>2, <2>1
    <2>4. LET session == Vacated(leaving)[name]
          IN  /\ session.croupier = sessions[name].croupier
              /\ session.croupier \in session.users
              /\ \A login \in session.users :
                     /\ login \in Users(name) /\ login2id[login] \notin leaving
                     /\ \A i \in leaving : users[i].login # login
              /\ \A login \in Logins : session.bets[login] # <<>> => login \in session.users
      BY <1>2, <2>2, <2>3, TablesLose
    <2>5. \A login \in Logins :
              (\A i \in leaving : users[i].login # login) => login2id'[login] = login2id[login]
      BY <1>3 DEF Remapped
    <2>6. Users(name) \subseteq Logins BY <2>2, SitterSeated
    <2>. QED BY <1>7, <2>1, <2>2, <2>4, <2>5, <2>6 DEF Users
  <1>9. ASSUME NEW i \in Ids \ leaving, Seated(i)
        PROVE  Open(id2name[i])' /\ users[i].login \in Users(id2name[i])'
    <2>1. /\ id2name[i] \in Tables \ {table} /\ Open(id2name[i])
          /\ users[i].login \in Users(id2name[i]) /\ login2id[users[i].login] = i
      BY <1>5, <1>9, SeatedSits
    <2>2. users[i].login \notin Gone(leaving, id2name[i])
      BY <1>2, <2>1, OneSitter DEF Gone
    <2>3. Open(id2name[i])'
      BY <1>2, <1>4, <1>7, <2>1, VacatedType DEF Open, Context, TypeInv
    <2>4. sessions'[id2name[i]].users = Users(id2name[i]) \ Gone(leaving, id2name[i])
      BY <1>7, <2>1, VacatedUsers
    <2>. QED BY <1>4, <2>1, <2>2, <2>3, <2>4 DEF Users
  <1>10. \A i \in leaving :
             ~HasSeat(i)' /\ (users'[i].login = GuestLogin => users'[i].permission = GUEST)
    BY <1>2, <1>4, RestoredPlain
  <1>11. \A i \in Ids \ leaving : users'[i] = users[i] /\ id2name'[i] = id2name[i]
    BY <1>4 DEF Restored
  <1>. QED BY <1>2, <1>8, <1>9, <1>10, <1>11, SeatsLost

(* A croupier alone at the table is dropped, and the table is closed.      *)
LEMMA CroupierDroppedMatch ==
    ASSUME Context, NEW id \in Ids, disconnect_croupier(id)
    PROVE  MatchInv'
  <1>. DEFINE table == id2name[id]
              ids == {id}
  <1>1. Seated(id) /\ IsCroupier(id) /\ Others(id) = {}
    BY SeatMasks DEF disconnect_croupier, Seated, HasSeat, IsCroupier
  <1>2. /\ table \in Tables /\ users[id] # None /\ users[id].login \in Logins
        /\ sessions' = [sessions EXCEPT ![table] = None] /\ id2name' = id2name
        /\ users' = [users EXCEPT ![id] = None]
        /\ login2id' = [login2id EXCEPT ![users[id].login] = None]
    BY <1>1, SeatedSits DEF disconnect_croupier, remove_user, Context, TypeInv, TypeOK, User
  <1>3. ASSUME NEW name \in Tables, Open(name)'
        PROVE  /\ Open(name) /\ sessions'[name] = sessions[name]
               /\ sessions[name].croupier \in Users(name)
               /\ \A login \in Users(name) :
                      /\ login2id[login] \notin ids /\ login2id'[login] = login2id[login]
               /\ \A login \in Logins :
                      sessions[name].bets[login] # <<>> => login \in Users(name)
    <2>1. name # table /\ sessions'[name] = sessions[name] /\ Open(name)
      BY <1>2, <1>3 DEF Open, Context, TypeInv, TypeOK
    <2>2. \A login \in Users(name) :
              /\ login2id[login] # id /\ login # users[id].login /\ login \in Logins
      BY <1>2, <2>1, SitterSeated, OneSitter
    <2>. QED BY <1>2, <2>1, <2>2
         DEF Context, TypeInv, TypeOK, MatchInv, Matched, CroupierSits, BettorsSit
  <1>4. ASSUME NEW i \in Ids \ ids, Seated(i)
        PROVE  Open(id2name[i])' /\ users[i].login \in Users(id2name[i])'
    <2>1. IdsOf(Others(id)) = {} BY <1>1 DEF IdsOf
    <2>2. id2name[i] # table BY <1>1, <1>4, <2>1, Closing
    <2>3. id2name[i] \in Tables /\ Open(id2name[i]) /\ users[i].login \in Users(id2name[i])
      BY <1>4, SeatedSits
    <2>. QED BY <1>2, <2>2, <2>3 DEF Open, Users, Context, TypeInv, TypeOK
  <1>5. \A i \in ids : users'[i] = None BY <1>2 DEF Context, TypeInv, TypeOK
  <1>6. \A i \in Ids \ ids : users'[i] = users[i] /\ id2name'[i] = id2name[i]
    BY <1>2 DEF Context, TypeInv, TypeOK
  <1>7. \A name \in Tables : Open(name)' =>
            /\ Open(name) /\ sessions'[name].croupier = sessions[name].croupier
            /\ sessions'[name].croupier \in Users(name)'
            /\ \A login \in Users(name)' :
                   /\ login \in Users(name) /\ login2id[login] \notin ids
                   /\ login2id'[login] = login2id[login]
            /\ \A login \in Logins :
                   sessions'[name].bets[login] # <<>> => login \in Users(name)'
    BY <1>3 DEF Users
  <1>8. ids \in SUBSET Ids OBVIOUS
  <1>. HIDE DEF ids
  <1>. QED BY <1>4, <1>5, <1>6, <1>7, <1>8, SeatsLost
-----------------------------------------------------------------------------
(* Every action.                                                           *)

(* A step that moves nobody: what a user may do, where he sits and who is  *)
(* at a table stay as they are, and bets are made by users of the table.   *)
LEMMA NobodyMoves ==
    ASSUME MatchInv, UNCHANGED <<login2id, id2name, status>>,
           \A i \in Ids : users'[i] # None <=> users[i] # None,
           \A i \in Ids : users[i] # None =>
               users'[i].login = users[i].login /\ users'[i].permission = users[i].permission,
           \A name \in Tables : Open(name)' <=> Open(name),
           \A name \in Tables : Open(name) =>
               /\ sessions'[name].croupier = sessions[name].croupier
               /\ sessions'[name].users = sessions[name].users
               /\ \A login \in Logins : sessions'[name].bets[login] # <<>> =>
                      login \in Users(name) \/ sessions[name].bets[login] # <<>>,
           TypeInv
    PROVE  MatchInv'
  <1>. SUFFICES ASSUME status = "up" PROVE Matched' BY DEF MatchInv
  <1>1. Matched BY DEF MatchInv
  <1>2. TablesSeeUsers'
    <2>1. ASSUME NEW name \in Tables, Open(name)', NEW login \in Users(name)'
          PROVE  Sits(login, name)'
      <3>1. Open(name) /\ login \in Users(name) BY <2>1 DEF Users
      <3>2. sessions[name] \in Session BY <3>1 DEF Open, TypeInv, TypeOK
      <3>3. login \in Logins BY <3>1, <3>2 DEF Users, Session
      <3>4. Sits(login, name) /\ login2id[login] \in Ids
        BY <1>1, <3>1, <3>3 DEF Matched, TablesSeeUsers, Sits, TypeInv, TypeOK
      <3>. QED BY <3>1, <3>4 DEF Sits
    <2>. QED BY <2>1 DEF TablesSeeUsers
  <1>3. UsersSeeTables'
    <2>1. ASSUME NEW i \in Ids, Seated(i)'
          PROVE  has_session(i)' /\ users'[i].login \in get_session(i)'.users
      <3>1. Seated(i) BY <2>1 DEF Seated, HasSeat
      <3>2. has_session(i) /\ users[i].login \in get_session(i).users
        BY <1>1, <3>1 DEF Matched, UsersSeeTables
      <3>3. id2name[i] \in Tables /\ Open(id2name[i])
        BY <3>2 DEF has_session, Open, TypeInv, TypeOK
      <3>. QED BY <3>1, <3>2, <3>3, NoneAssumption
           DEF has_session, get_session, Open, Seated
    <2>. QED BY <2>1 DEF UsersSeeTables
  <1>4. CroupierSits' BY <1>1 DEF Matched, CroupierSits, Users
  <1>5. GuestPlain' BY <1>1 DEF Matched, GuestPlain
  <1>6. BettorsSit' BY <1>1 DEF Matched, BettorsSit, Users
  <1>. QED BY <1>2, <1>3, <1>4, <1>5, <1>6 DEF Matched

(* A connection at no table gets the user of a row that sits nowhere.      *)
LEMMA AddUserMatch ==
    ASSUME Context, NEW id \in Ids, ~Seated(id), NEW login \in Logins,
           data_base[login] # None, add_user(id, get_user(login)),
           login = GuestLogin \/ login2id[login] = None,
           UNCHANGED <<sessions, id2name>>
    PROVE  MatchInv'
  <1>1. /\ get_user(login).login = login
        /\ ~Allowed(get_user(login).permission, PLAY)
        /\ login = GuestLogin => get_user(login).permission = GUEST
    BY GetUserPermission DEF Context, RowsUnseated, GuestUnset
  <1>2. /\ users'[id] = get_user(login) /\ \A i \in Ids \ {id} : users'[i] = users[i]
        /\ \A l \in Logins \ {login} : login2id'[l] = login2id[l]
    BY <1>1 DEF add_user, Context, TypeInv, TypeOK
  <1>3. ASSUME NEW name \in Tables, Open(name) PROVE login \notin Users(name)
    BY <1>3, SitterSeated, NoneAssumption
  <1>. QED BY <1>1, <1>2, <1>3, IdleChanges DEF HasSeat

(* do_set_permission, of a user at no table.                               *)
LEMMA SetPermissionMatch ==
    ASSUME Context, NEW id \in Ids, NEW login \in SettableLogins,
           NEW permission \in Grants, do_set_permission(id, login, permission)
    PROVE  MatchInv'
  <1>. DEFINE user_id == login2id[login]
  <1>1. /\ login \in Logins /\ login # GuestLogin
        /\ IsIdle(login) /\ ~Allowed(permission, PLAY) /\ UNCHANGED <<sessions, id2name, status>>
    BY ConstantsAssumption, UnseatedMasks DEF do_set_permission, Context
  <1>2. \A name \in Tables : Open(name) => login \notin Users(name)
    BY <1>1 DEF IsIdle, Open, Users
  <1>3. CASE user_id # None /\ users[user_id] # None
    <2>1. user_id \in Ids /\ users[user_id].login = login
      BY <1>1, <1>3 DEF IsIdle, Context, TypeInv, TypeOK
    <2>2. ~Seated(user_id) BY <1>2, <2>1, SeatedSits
    <2>3. local_set_user_permission(user_id, permission)
      BY <1>3 DEF do_set_permission
    <2>. HIDE DEF user_id
    <2>4. /\ users'[user_id].login = login /\ users'[user_id].permission = permission
          /\ \A i \in Ids \ {user_id} : users'[i] = users[i]
          /\ \A l \in Logins \ {login} : login2id'[l] = login2id[l]
      BY <1>3, <2>1, <2>3, SetPermissionEffect
    <2>. QED BY <1>1, <1>2, <2>1, <2>2, <2>4, IdleChanges DEF HasSeat
  <1>4. CASE ~(user_id # None /\ users[user_id] # None)
    <2>1. users' = users /\ login2id' = login2id BY <1>4 DEF do_set_permission
    <2>. QED BY <1>1, <2>1, NobodyMoves DEF Open, Context
  <1>. QED BY <1>3, <1>4

(* do_bet, of a player: a user of the table.                               *)
LEMMA BetMatch ==
    ASSUME Context, NEW id \in Ids, NEW bet \in Offers, do_bet(id, bet)
    PROVE  MatchInv'
  <1>. DEFINE session == sessions[id2name[id]]
              login   == users[id].login
              bets    == [session.bets EXCEPT ![login] = push_back(session.bets[login], bet)]
  <1>1. /\ UNCHANGED <<users, login2id, id2name, status>>
        /\ id2name[id] \in Tables /\ session \in Session /\ login \in Logins /\ bet \in Bet
        /\ Seated(id)
    BY ConstantsAssumption, SeatMasks
       DEF do_bet, Executes, has_session, Context, TypeInv, TypeOK, User, Seated, HasSeat
  <1>2. login \in Users(id2name[id]) BY <1>1, SeatedSits
  <1>3. bets \in [Logins -> Seq(Bet)] /\ \A l \in Logins \ {login} : bets[l] = session.bets[l]
    BY <1>1 DEF push_back, Session
  <1>4. sessions' = [sessions EXCEPT ![id2name[id]] = [session EXCEPT !.bets = bets]]
    BY <1>1 DEF do_bet, get_session, Context, TypeInv, TypeOK
  <1>. HIDE DEF bets
  <1>5. /\ [session EXCEPT !.bets = bets] \in Session
        /\ [session EXCEPT !.bets = bets].croupier = session.croupier
        /\ [session EXCEPT !.bets = bets].users = session.users
        /\ [session EXCEPT !.bets = bets].bets = bets
    BY <1>1, <1>3 DEF Session
  <1>6. \A name \in Tables : Open(name)' <=> Open(name)
    BY <1>1, <1>4, <1>5, NoneIsNothing DEF Open, Context, TypeInv, TypeOK
  <1>7. ASSUME NEW name \in Tables, Open(name)
        PROVE  /\ sessions'[name].croupier = sessions[name].croupier
               /\ sessions'[name].users = sessions[name].users
               /\ \A l \in Logins : sessions'[name].bets[l] # <<>> =>
                      l \in Users(name) \/ sessions[name].bets[l] # <<>>
    BY <1>1, <1>2, <1>3, <1>4, <1>5 DEF Context, TypeInv, TypeOK
  <1>. QED BY <1>1, <1>6, <1>7, NobodyMoves DEF Context

(* Under a careful administrator every action keeps seats and users        *)
(* matched.                                                                *)
LEMMA MatchNext ==
    ASSUME CarefulAdmin
    PROVE  TypeInv /\ LoginMapped /\ RowsUnseated /\ MatchInv /\ [Next]_vars => MatchInv'
  <1>. SUFFICES ASSUME TypeInv, LoginMapped, RowsUnseated, MatchInv, [Next]_vars
                PROVE  MatchInv'
    OBVIOUS
  <1>. DEFINE Up == status = "up" => Context
  <1>0. Up BY DEF Context
  <1>1. ASSUME NEW id \in Ids, connect_handle(id) \/ do_signout(id) PROVE MatchInv'
    <2>1. /\ add_user(id, get_user(GuestLogin)) /\ Context /\ UNCHANGED <<sessions, id2name>>
          /\ data_base[GuestLogin] # None
      BY <1>0, <1>1 DEF connect_handle, do_signout, Executes, Serving, TypeInv, Known
    <2>2. ~Seated(id)
      BY <1>1, <2>1, WaitingUnseated DEF connect_handle, do_signout, Executes, Seated
    <2>. QED BY <2>1, <2>2, GuestIsLogin, AddUserMatch
  <1>2. ASSUME NEW id \in Ids, NEW login \in Logins, do_signin(id, login) PROVE MatchInv'
    <2>1. /\ add_user(id, get_user(login)) /\ Context /\ UNCHANGED <<sessions, id2name>>
          /\ data_base[login] # None /\ login2id[login] = None
      BY <1>0, <1>2 DEF do_signin, MaySignin, Executes, Serving
    <2>2. ~Seated(id) BY <1>2, <2>1, WaitingUnseated DEF do_signin, Executes
    <2>. QED BY <2>1, <2>2, AddUserMatch
  <1>3. ASSUME NEW id \in Ids, NEW login \in SettableLogins, NEW permission \in Grants,
               do_set_permission(id, login, permission)
        PROVE  MatchInv'
    BY <1>0, <1>3, SetPermissionMatch DEF do_set_permission, Executes, Serving
  <1>4. ASSUME NEW id \in Ids, NEW name \in Tables, do_join(id, name) \/ do_create(id, name)
        PROVE  MatchInv'
    BY <1>0, <1>4, JoinMatch, CreateMatch DEF do_join, do_create, Executes, Serving
  <1>5. ASSUME NEW id \in Ids, leave_player(id) PROVE MatchInv'
    <2>1. /\ Context /\ {id} \in SUBSET Ids /\ \A i \in {id} : users[i] # None /\ CanLeave(i)
          /\ leave_players({id}) /\ id2name' = id2name
      BY <1>0, <1>5 DEF leave_player, Executes, Serving
    <2>. QED BY <2>1, PlayersLeaveMatch
  <1>6. ASSUME NEW id \in Ids, leave_croupier(id) PROVE MatchInv'
    BY <1>0, <1>6, CroupierLeavesMatch DEF leave_croupier, Executes, Serving
  <1>7. ASSUME NEW id \in Ids, leave_croupier_fails(id) PROVE MatchInv'
    <2>1. PICK done \in SUBSET {login \in Others(id) : CanUnseat(login)} :
              leave_players(IdsOf(done))
      BY <1>7 DEF leave_croupier_fails
    <2>2. IdsOf(done) \in SUBSET Ids /\ \A i \in IdsOf(done) : users[i] # None /\ CanLeave(i)
      BY <1>7, <2>1, OthersOnline DEF leave_croupier_fails, TypeInv
    <2>. QED BY <1>0, <1>7, <2>1, <2>2, PlayersLeaveMatch
         DEF leave_croupier_fails, Executes, Serving
  <1>8. ASSUME NEW id \in Ids, NEW login \in Logins, do_kick(id, login) PROVE MatchInv'
    <2>1. /\ {login2id[login]} \in SUBSET Ids
          /\ \A i \in {login2id[login]} : users[i] # None /\ CanLeave(i)
      BY <1>8 DEF do_kick, CanUnseat, CanLeave, TypeInv, TypeOK
    <2>. QED BY <1>0, <1>8, <2>1, PlayersLeaveMatch DEF do_kick, Executes, Serving
  <1>9. ASSUME NEW login \in Logins, pay(login) PROVE MatchInv'
    <2>1. /\ login2id[login] \in Ids /\ users[login2id[login]] \in User
          /\ UNCHANGED <<sessions, login2id, id2name, status>>
      BY <1>9 DEF pay, Payable, TypeInv, TypeOK
    <2>2. PICK balance \in Int : users' = [users EXCEPT ![login2id[login]].balance = balance]
      BY <1>9, PayEffect
    <2>3. [users[login2id[login]] EXCEPT !.balance = balance] \in User BY <2>1 DEF User
    <2>4. \A i \in Ids :
              /\ users'[i] # None <=> users[i] # None
              /\ users[i] # None => /\ users'[i].permission = users[i].permission
                                    /\ users'[i].login = users[i].login
      BY <2>1, <2>2, <2>3, NoneIsNothing DEF TypeInv, TypeOK, User
    <2>. QED BY <2>1, <2>4, NobodyMoves DEF Open
  <1>10. ASSUME NEW id \in Ids, NEW bet \in Offers, do_bet(id, bet) PROVE MatchInv'
    BY <1>0, <1>10, BetMatch DEF do_bet, Executes, Serving
  <1>11. ASSUME clear_bets PROVE MatchInv'
    <2>1. /\ UNCHANGED <<users, login2id, id2name, status>>
          /\ spin.table \in Tables /\ sessions[spin.table] \in Session
          /\ sessions' = [sessions EXCEPT ![spin.table].bets = NoBets]
      BY <1>11 DEF clear_bets, Spinning, TypeInv, TypeOK, SpinAtTable, Spin
    <2>2. NoBets \in [Logins -> Seq(Bet)] /\ \A login \in Logins : NoBets[login] = <<>>
      BY DEF NoBets
    <2>3. /\ [sessions[spin.table] EXCEPT !.bets = NoBets] \in Session
          /\ [sessions[spin.table] EXCEPT !.bets = NoBets].bets = NoBets
      BY <2>1, <2>2 DEF Session
    <2>4. \A name \in Tables : Open(name)' <=> Open(name)
      BY <2>1, <2>3, NoneIsNothing DEF Open, TypeInv, TypeOK
    <2>5. ASSUME NEW name \in Tables, Open(name)
          PROVE  /\ sessions'[name].croupier = sessions[name].croupier
                 /\ sessions'[name].users = sessions[name].users
                 /\ \A l \in Logins : sessions'[name].bets[l] # <<>> =>
                        l \in Users(name) \/ sessions[name].bets[l] # <<>>
      BY <2>1, <2>2, <2>3, <2>5 DEF TypeInv, TypeOK, Session
    <2>. QED BY <2>1, <2>4, <2>5, NobodyMoves
  <1>12. ASSUME NEW id \in Ids, disconnect_handle(id) PROVE MatchInv'
    <2>1. CASE disconnect_idle(id)
      <3>1. /\ ~Seated(id) /\ users[id] # None /\ Context /\ users[id].login \in Logins
            /\ users'[id] = None /\ \A i \in Ids \ {id} : users'[i] = users[i]
            /\ \A l \in Logins \ {users[id].login} : login2id'[l] = login2id[l]
            /\ UNCHANGED <<sessions, id2name>>
        BY <1>0, <2>1
           DEF disconnect_idle, Serving, remove_user, Seated, TypeInv, TypeOK, User
      <3>2. \A name \in Tables : Open(name) => users[id].login \notin Users(name)
        BY <3>1, OneSitter
      <3>. QED BY <3>1, <3>2, IdleChanges
    <2>2. CASE disconnect_player(id)
      <3>. DEFINE ids == {id}
      <3>1. /\ Context /\ ids \in SUBSET Ids /\ \A i \in ids : users[i] # None /\ CanLeave(i)
            /\ sessions' = Vacated(ids) /\ id2name' = id2name
            /\ \A i \in Ids \ ids : users'[i] = users[i]
            /\ \A i \in ids : users'[i] = None
            /\ \A l \in Logins : login2id'[l] = login2id[l]
                                 \/ \E i \in ids : users[i].login = l
        BY <1>0, <2>2
           DEF disconnect_player, Serving, remove_user, TypeInv, TypeOK, User
      <3>. HIDE DEF ids
      <3>. QED BY <3>1, PlayersLost
    <2>3. CASE disconnect_croupier(id)
      BY <1>0, <2>3, CroupierDroppedMatch DEF disconnect_croupier, Serving
    <2>4. CASE disconnect_croupier_hangs(id) \/ disconnect_throws(id)
      BY <2>4 DEF disconnect_croupier_hangs, disconnect_throws, MatchInv
    <2>. QED BY <1>12, <2>1, <2>2, <2>3, <2>4 DEF disconnect_handle
  <1>13. ASSUME restart PROVE MatchInv'
    BY <1>13 DEF restart, Empty, MatchInv, Matched, TablesSeeUsers, UsersSeeTables,
                 CroupierSits, GuestPlain, BettorsSit, Open, Seated
  <1>14. ASSUME \/ UNCHANGED vars
                \/ \E login \in Logins : spin_fails(login)
                \/ \E id \in Ids : \/ do_sync(id)
                                   \/ \E login \in Logins : do_signup(id, login)
                                   \/ \E n \in Outcomes : do_spin(id, n)
         PROVE  MatchInv'
    <2>1. UNCHANGED <<users, login2id, id2name, sessions, status>>
      BY <1>14 DEF vars, spin_fails, do_sync, do_signup, do_spin
    <2>. QED BY <2>1, NobodyMoves DEF Open
  <1>. QED BY <1>1, <1>2, <1>3, <1>4, <1>5, <1>6, <1>7, <1>8, <1>9, <1>10, <1>11, <1>12,
              <1>13, <1>14
       DEF Next, do_leave

(* Seats and permissions, with what makes them inductive.                  *)
THEOREM Matching == ASSUME CarefulAdmin PROVE Spec => []MatchInv
  <1>1. Init => MatchInv
    BY DEF Init, Empty, MatchInv, Matched, TablesSeeUsers, UsersSeeTables, CroupierSits,
           GuestPlain, BettorsSit, Open, Seated
  <1>. QED BY <1>1, MatchNext, Typing, OneConnectionPerLogin, AccountsUnseated, PTL DEF Spec

(* SeatsMatch: users, login2id, id2name, sessions and the permissions say  *)
(* the same of every seat, for any number of connections and tables.       *)
THEOREM SeatsInStep == ASSUME CarefulAdmin PROVE Spec => []SeatsMatch
  BY Matching, MatchesSeats, PTL

(* do_disconnect finds everybody it has to make leave.                     *)
LEMMA NothingThrows == ASSUME Context, NEW id \in Ids PROVE ~disconnect_throws(id)
  <1>. SUFFICES ASSUME disconnect_throws(id) PROVE FALSE OBVIOUS
  <1>1. Seated(id) BY DEF disconnect_throws, Seated
  <1>2. CASE ~IsCroupier(id) BY <1>1, <1>2, SeatedSits DEF disconnect_throws
  <1>3. CASE IsCroupier(id)
    <2>1. PICK login \in Others(id) : ~CanUnseat(login)
      BY <1>1, <1>3, SeatedSits DEF disconnect_throws
    <2>2. /\ id2name[id] \in Tables /\ Open(id2name[id]) /\ login \in Users(id2name[id])
          /\ login # sessions[id2name[id]].croupier
      BY <1>1, <2>1, SeatedSits DEF Others, get_session, Users
    <2>3. /\ login2id[login] \in Ids /\ Seated(login2id[login])
          /\ users[login2id[login]].login = login /\ id2name[login2id[login]] = id2name[id]
      BY <2>2, SitterSeated
    <2>4. CanLeave(login2id[login]) BY <2>2, <2>3, SeatedSits
    <2>. QED BY <2>1, <2>3, <2>4, NoneAssumption DEF CanUnseat
  <1>. QED BY <1>2, <1>3

(* NeverTerminated: the exceptions of leave_player and leave_croupier never*)
(* reach the thread of the transport.                                      *)
THEOREM DisconnectionReturns == ASSUME CarefulAdmin PROVE Spec => []NeverTerminated
  <1>1. Init => NeverTerminated BY DEF Init, NeverTerminated
  <1>2. TypeInv /\ LoginMapped /\ RowsUnseated /\ MatchInv /\ NeverTerminated /\ [Next]_vars
        => NeverTerminated'
    <2>. SUFFICES ASSUME TypeInv, LoginMapped, RowsUnseated, MatchInv, NeverTerminated,
                         [Next]_vars, status' = "terminated"
                  PROVE  FALSE
      BY DEF NeverTerminated
    <2>1. PICK id \in Ids : disconnect_throws(id)
      BY DEF Next, vars, NeverTerminated, connect_handle, disconnect_handle, disconnect_idle,
             disconnect_player, disconnect_croupier, disconnect_croupier_hangs,
             do_signout, do_sync, do_leave, leave_player, leave_croupier,
             leave_croupier_fails, do_signin, do_kick, do_signup, do_set_permission, do_join,
             do_create, do_bet, do_spin, pay, spin_fails, clear_bets, restart
    <2>. QED BY <2>1, NothingThrows DEF disconnect_throws, Serving, Context
  <1>. QED BY <1>1, <1>2, Matching, Typing, OneConnectionPerLogin, AccountsUnseated, PTL DEF Spec

(* get_id and get_user find everybody with a bet.                          *)
LEMMA EverybodyPayable ==
    ASSUME Context, Spinning, NEW login \in Logins, Unpaid(login)
    PROVE  Payable(login)
  <1>1. /\ spin.table \in Tables /\ Open(spin.table) /\ spin.paid[login] \in Nat
        /\ SpinBets[login] \in Seq(Bet)
    <2>1. spin \in Spin BY DEF Spinning, Context, TypeInv, TypeOK
    <2>2. sessions[spin.table] \in Session
      BY <2>1 DEF Spinning, Context, TypeInv, TypeOK, SpinAtTable, Spin
    <2>. QED BY <2>1, <2>2 DEF Spinning, Context, TypeInv, SpinAtTable, Spin, Session, SpinBets, Open
  <1>2. SpinBets[login] # <<>> BY <1>1 DEF Unpaid
  <1>3. login \in Users(spin.table)
    BY <1>1, <1>2 DEF SpinBets, Context, MatchInv, Matched, BettorsSit
  <1>. QED BY <1>1, <1>3, SitterSeated, NoneAssumption DEF Payable, Seated

(* SpinSettles: a spin that has begun to pay pays every bet of the table,  *)
(* unless the process dies.                                                *)
THEOREM SpinPaysAll == ASSUME CarefulAdmin PROVE Spec => SpinSettles
  <1>1. ASSUME TypeInv, LoginMapped, RowsUnseated, MatchInv, [Next]_vars,
               spin # None, spin' = None
        PROVE  users' = Empty(Ids) \/ \A login \in Logins : ~Unpaid(login)
    <2>1. ~(\E login \in Logins : pay(login))
      <3>. SUFFICES ASSUME NEW login \in Logins, pay(login) PROVE FALSE OBVIOUS
      <3>1. spin \in Spin BY <1>1 DEF TypeInv, TypeOK
      <3>2. spin' = [spin EXCEPT !.paid[login] = @ + 1] BY DEF pay
      <3>3. spin' = [table |-> spin.table, random_number |-> spin.random_number,
                     paid |-> [spin.paid EXCEPT ![login] = @ + 1]]
        BY <3>1, <3>2 DEF Spin
      <3>4. [spin.paid EXCEPT ![login] = @ + 1] \in [Logins -> Nat] BY <3>1 DEF Spin
      <3>. QED BY <1>1, <3>1, <3>3, <3>4, NoneIsNothing DEF Spin
    <2>2. \/ restart \/ clear_bets \/ \E login \in Logins : spin_fails(login)
      BY <1>1, <2>1
         DEF Next, vars, Serving, Executes, connect_handle, disconnect_handle, disconnect_idle,
             disconnect_player, disconnect_croupier, disconnect_croupier_hangs, disconnect_throws,
             do_signout, do_sync, do_leave, leave_player, leave_croupier, leave_croupier_fails,
             do_signin, do_kick, do_signup, do_set_permission, do_join, do_create, do_bet, do_spin
    <2>3. ASSUME NEW login \in Logins, spin_fails(login) PROVE FALSE
      BY <1>1, <2>3, EverybodyPayable DEF spin_fails, Pays, Spinning, Context
    <2>. QED BY <2>2, <2>3 DEF restart, clear_bets
  <1>2. TypeInv /\ LoginMapped /\ RowsUnseated /\ MatchInv /\ [Next]_vars =>
            [spin # None /\ spin' = None =>
                 users' = Empty(Ids) \/ \A login \in Logins : ~Unpaid(login)]_vars
    BY <1>1
  <1>. QED BY <1>2, Matching, Typing, OneConnectionPerLogin, AccountsUnseated, PTL
           DEF Spec, SpinSettles

(* PaidToBettor: the balance of an account changes only when its own next  *)
(* bet is paid; no payment goes to whoever has taken over a connection.    *)
THEOREM OnlyBettorsPaid == ASSUME CarefulAdmin PROVE Spec => PaidToBettor
  <1>. DEFINE Paid(login) ==
           data_base[login] # None /\ data_base'[login].balance # data_base[login].balance =>
               spin # None /\ spin'.paid[login] = spin.paid[login] + 1
  <1>1. ASSUME TypeInv, LoginMapped, RowsUnseated, MatchInv, [Next]_vars, NEW login \in Logins
        PROVE  Paid(login)
    <2>1. ASSUME NEW bettor \in Logins, pay(bettor) PROVE Paid(login)
      <3>1. Context /\ Spinning /\ Unpaid(bettor)
        BY <1>1, <2>1 DEF pay, Pays, Spinning, Context
      <3>2. /\ spin \in Spin /\ spin.table \in Tables /\ Open(spin.table)
            /\ SpinBets[bettor] # <<>>
        <4>1. /\ spin \in Spin /\ spin.paid[bettor] \in Nat
              /\ spin.paid[bettor] < Len(SpinBets[bettor])
          BY <1>1, <2>1, PayEffect
        <4>2. sessions[spin.table] \in Session /\ spin.table \in Tables /\ Open(spin.table)
          BY <1>1, <3>1, <4>1 DEF TypeInv, TypeOK, SpinAtTable, Spin, Spinning, Open
        <4>3. SpinBets[bettor] \in Seq(Bet) BY <4>2 DEF SpinBets, Session
        <4>. QED BY <4>1, <4>2, <4>3
      <3>3. users[login2id[bettor]].login = bettor
        <4>1. bettor \in Users(spin.table)
          BY <3>1, <3>2 DEF SpinBets, Context, MatchInv, Matched, BettorsSit
        <4>. QED BY <3>1, <3>2, <4>1, SitterSeated
      <3>4. \E balance \in Int : data_base' = [data_base EXCEPT ![bettor].balance = balance]
        <4>. DEFINE payee == users[login2id[bettor]].login
        <4>1. \E balance \in Int : data_base' = [data_base EXCEPT ![payee].balance = balance]
          BY <1>1, <2>1, PayEffect
        <4>2. payee = bettor BY <3>3
        <4>. HIDE DEF payee
        <4>. QED BY <4>1, <4>2
      <3>5. login # bettor => data_base'[login] = data_base[login]
        BY <1>1, <3>4 DEF TypeInv, TypeOK
      <3>6. spin'.paid[bettor] = spin.paid[bettor] + 1
        BY <2>1, <3>2 DEF pay, Spin
      <3>. QED BY <3>1, <3>5, <3>6 DEF Spinning
    <2>2. ASSUME NEW id \in Ids, NEW new \in Logins, do_signup(id, new) PROVE Paid(login)
      BY <1>1, <2>2 DEF do_signup, TypeInv, TypeOK
    <2>3. ASSUME NEW id \in Ids, NEW user \in SettableLogins, NEW permission \in Grants,
                 do_set_permission(id, user, permission)
          PROVE  Paid(login)
      <3>1. user \in Logins /\ data_base[user] \in Account
        BY <1>1, <2>3, ConstantsAssumption DEF do_set_permission, TypeInv, TypeOK
      <3>2. [data_base[user] EXCEPT !.permission = permission].balance = data_base[user].balance
        BY <3>1 DEF Account
      <3>. QED BY <1>1, <2>3, <3>1, <3>2 DEF do_set_permission, TypeInv, TypeOK
    <2>4. CASE UNCHANGED data_base BY <2>4
    <2>5. \/ UNCHANGED data_base
          \/ \E id \in Ids, new \in Logins : do_signup(id, new)
          \/ \E id \in Ids, user \in SettableLogins, permission \in Grants :
                 do_set_permission(id, user, permission)
          \/ \E bettor \in Logins : pay(bettor)
      BY <1>1 DEF Next, vars, connect_handle, disconnect_handle, disconnect_idle,
             disconnect_player, disconnect_croupier, disconnect_croupier_hangs,
             disconnect_throws, do_signout, do_sync, do_leave, leave_player,
             leave_croupier, leave_croupier_fails, do_signin, do_kick, do_join,
             do_create, do_bet, do_spin, spin_fails, clear_bets, restart
    <2>. QED BY <2>1, <2>2, <2>3, <2>4, <2>5
  <1>2. TypeInv /\ LoginMapped /\ RowsUnseated /\ MatchInv /\ [Next]_vars =>
            [\A login \in Logins : Paid(login)]_vars
    BY <1>1
  <1>. QED BY <1>2, Matching, Typing, OneConnectionPerLogin, AccountsUnseated, PTL
           DEF Spec, PaidToBettor
=============================================================================
