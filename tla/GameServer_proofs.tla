-------------------------- MODULE GameServer_proofs --------------------------
(***************************************************************************)
(* Theorems about GameServer, for every value of its constants: first the  *)
(* types, connections and balances, then the permissions, the table of a   *)
(* croupier, and how many sit at a table.                                  *)
(***************************************************************************)
EXTENDS GameServer, FiniteSetTheorems, TLAPS

(* int arithmetic stays an integer, whatever the width.                    *)
LEMMA WrapInt == ASSUME NEW n \in Int PROVE Wrap(n) \in Int
  <1>1. INT_MAX \in Nat BY ConstantsAssumption
  <1>2. 2 * (INT_MAX + 1) \in Nat \ {0} BY <1>1
  <1>3. \A a \in Int, b \in Nat \ {0} : a % b \in Int OBVIOUS
  <1>4. n + INT_MAX + 1 \in Int BY <1>1
  <1>5. (n + INT_MAX + 1) % (2 * (INT_MAX + 1)) \in Int BY <1>2, <1>3, <1>4
  <1>. QED BY <1>1, <1>5 DEF Wrap

(* Every row of the multiplier table is an integer.                        *)
LEMMA MultipliersInt == \A type \in BetTypes : multipliers[type] \in Int
  BY DEF multipliers, BetTypes, Outside

(* What pay adds to a balance, before it wraps, is an integer.             *)
LEMMA WinningsInt == ASSUME NEW n, NEW bet \in Bet PROVE Winnings(n, bet) \in Int
  <1>1. bet.type \in BetTypes /\ bet.value \in Int BY DEF Bet
  <1>2. multipliers[bet.type] \in Int BY <1>1, MultipliersInt
  <1>3. bet.value * multipliers[bet.type] \in Int BY <1>1, <1>2
  <1>. QED BY <1>1, <1>3 DEF Winnings
-----------------------------------------------------------------------------
(* Type correctness.  The types alone are not inductive: a record is read  *)
(* through another map, so the maps must agree on what is there.           *)

\* Every login in use, and the guest's, has a row in the database.
Known ==
    /\ data_base[GuestLogin] # None
    /\ \A id \in Ids : users[id] # None => data_base[users[id].login] # None

\* The table of a spin under way is open.
SpinAtTable == spin # None => sessions[spin.table] # None

TypeInv == TypeOK /\ Known /\ SpinAtTable

(* The two accounts that init() creates are logins.                        *)
LEMMA GuestIsLogin == GuestLogin \in Logins /\ AdminLogin \in Logins
  BY DEF Logins

(* The absent entry is no account, user, table or spin.                    *)
LEMMA NoneIsNothing ==
    None \notin Account /\ None \notin User /\ None \notin Session /\ None \notin Spin
  BY NoneAssumption

(* A row of the database makes an entry of users.                          *)
LEMMA GetUserType ==
    ASSUME TypeOK, NEW login \in Logins, data_base[login] # None
    PROVE  /\ get_user(login) \in User
           /\ get_user(login).login = login
           /\ data_base[login].permission \in SUBSET ALL
  <1>1. data_base[login] \in Account BY DEF TypeOK
  <1>. QED BY <1>1 DEF get_user, Account, User

(* What add_user does to the two maps.                                     *)
LEMMA AddUserType ==
    ASSUME TypeOK, Known, NEW id \in Ids, NEW user \in User,
           data_base[user.login] # None, add_user(id, user)
    PROVE  /\ users' \in [Ids -> User \cup {None}]
           /\ login2id' \in [Logins -> Ids \cup {None}]
           /\ \A i \in Ids : users'[i] # None => data_base[users'[i].login] # None
  <1>1. user.login \in Logins BY DEF User
  <1>. QED BY <1>1 DEF TypeOK, Known, add_user

(* local_set_user_permission keeps users and login2id typed.               *)
LEMMA SetPermissionType ==
    ASSUME TypeOK, Known, NEW id \in Ids, users[id] # None, NEW permission \in SUBSET ALL,
           local_set_user_permission(id, permission)
    PROVE  /\ users' \in [Ids -> User \cup {None}]
           /\ login2id' \in [Logins -> Ids \cup {None}]
           /\ \A i \in Ids : users'[i] # None => data_base[users'[i].login] # None
  <1>1. users[id] \in User BY DEF TypeOK
  <1>2. [users[id] EXCEPT !.permission = permission] \in User BY <1>1 DEF User
  <1>3. data_base[[users[id] EXCEPT !.permission = permission].login] # None
    BY <1>1 DEF User, Known
  <1>. QED BY <1>2, <1>3, AddUserType DEF local_set_user_permission

(* A message with a permission keeps what the clients know typed.          *)
LEMMA TellType ==
    ASSUME TypeOK, NEW id \in Ids, NEW permission \in SUBSET ALL, tell(id, permission)
    PROVE  told' \in [Ids -> SUBSET ALL]
  BY DEF TypeOK, tell

(* What leave_player does, for the connections of a set.                   *)
LEMMA VacatedType ==
    ASSUME TypeOK, NEW ids \in SUBSET Ids
    PROVE  /\ Vacated(ids) \in [Tables -> Session \cup {None}]
           /\ \A name \in Tables : Vacated(ids)[name] = None <=> sessions[name] = None
  <1>1. ASSUME NEW name \in Tables, sessions[name] # None
        PROVE  Vacated(ids)[name] \in Session
    <2>1. sessions[name] \in Session BY <1>1 DEF TypeOK
    <2>2. BetsLeft(ids, name) \in [Logins -> Seq(Bet)] BY <2>1 DEF Session, BetsLeft
    <2>. QED BY <1>1, <2>1, <2>2 DEF Session, Vacated
  <1>. QED BY <1>1, NoneIsNothing DEF Vacated

(* leave_player gives back a permission of the database.                   *)
LEMMA RestoredType ==
    ASSUME TypeOK, Known, NEW ids \in SUBSET Ids, \A i \in ids : users[i] # None
    PROVE  /\ Restored(ids) \in [Ids -> User \cup {None}]
           /\ Informed(ids) \in [Ids -> SUBSET ALL]
           /\ \A i \in Ids : Restored(ids)[i] # None =>
                  /\ users[i] # None
                  /\ Restored(ids)[i].login = users[i].login
                  /\ Restored(ids)[i].balance = users[i].balance
           /\ \A i \in Ids : users[i] # None => Restored(ids)[i] # None
  <1>1. ASSUME NEW i \in ids
        PROVE  /\ users[i] \in User
               /\ data_base[users[i].login].permission \in SUBSET ALL
    <2>1. users[i] \in User BY DEF TypeOK
    <2>2. users[i].login \in Logins BY <2>1 DEF User
    <2>. QED BY <2>1, <2>2, GetUserType DEF Known
  <1>2. ASSUME NEW i \in ids
        PROVE  /\ [users[i] EXCEPT !.permission = data_base[users[i].login].permission] \in User
               /\ [users[i] EXCEPT !.permission =
                      data_base[users[i].login].permission].login = users[i].login
               /\ [users[i] EXCEPT !.permission =
                      data_base[users[i].login].permission].balance = users[i].balance
    BY <1>1 DEF User
  <1>3. \A i \in Ids \ ids : users[i] \in User \cup {None} /\ told[i] \in SUBSET ALL
    BY DEF TypeOK
  <1>. QED BY <1>1, <1>2, <1>3, NoneIsNothing DEF Restored, Informed

(* leave_player leaves entries of connections in login2id.                 *)
LEMMA RemappedType ==
    ASSUME TypeOK, NEW ids \in SUBSET Ids, NEW last \in ids
    PROVE  Remapped(ids, last) \in [Logins -> Ids \cup {None}]
  BY DEF TypeOK, Remapped

(* leave_player, for any set of connections, keeps the maps typed.         *)
LEMMA LeavePlayersType ==
    ASSUME TypeOK, Known, NEW ids \in SUBSET Ids, \A i \in ids : users[i] # None,
           leave_players(ids)
    PROVE  /\ sessions' \in [Tables -> Session \cup {None}]
           /\ \A name \in Tables : sessions'[name] = None <=> sessions[name] = None
           /\ users' \in [Ids -> User \cup {None}]
           /\ \A i \in Ids : users'[i] # None => data_base[users'[i].login] # None
           /\ login2id' \in [Logins -> Ids \cup {None}]
  <1>1. login2id' \in [Logins -> Ids \cup {None}]
    <2>1. CASE ids = {} BY <2>1 DEF leave_players, TypeOK
    <2>2. CASE ids # {} BY <2>2, RemappedType DEF leave_players
    <2>. QED BY <2>1, <2>2
  <1>2. sessions' = Vacated(ids) /\ users' = Restored(ids) BY DEF leave_players
  <1>3. \A i \in Ids : users'[i] # None => data_base[users'[i].login] # None
    BY <1>2, RestoredType DEF Known
  <1>. QED BY <1>1, <1>2, <1>3, VacatedType, RestoredType

(* Who leaves is online: the sets of connections leave_croupier works on.  *)
LEMMA OthersOnline ==
    ASSUME TypeOK, NEW id \in Ids, has_session(id),
           NEW some \in SUBSET Others(id), \A login \in some : CanUnseat(login)
    PROVE  /\ IdsOf(some) \in SUBSET Ids
           /\ \A i \in IdsOf(some) : users[i] # None /\ CanLeave(i)
  <1>1. get_session(id) \in Session BY DEF has_session, get_session, TypeOK
  <1>2. some \subseteq Logins BY <1>1 DEF Others, Session
  <1>. QED BY <1>2 DEF IdsOf, CanUnseat, CanLeave, TypeOK

(* A croupier leaves with those of the others that leave before it.        *)
LEMMA CroupierLeaving ==
    ASSUME TypeOK, NEW id \in Ids, leave_croupier(id)
    PROVE  \E leaving \in SUBSET Ids :
               /\ id \in leaving
               /\ \A i \in leaving : users[i] # None
               /\ \A i \in leaving \ {id} : CanLeave(i)
               /\ sessions' = [Vacated(leaving) EXCEPT ![id2name[id]] = None]
               /\ users' = Restored(leaving)
               /\ \E last \in leaving : login2id' = Remapped(leaving, last)
               /\ told' = Informed(leaving)
  <1>1. has_session(id) /\ users[id] # None BY DEF leave_croupier, Executes
  <1>2. PICK left \in SUBSET Others(id) :
            /\ \A login \in left : CanUnseat(login)
            /\ LET leaving == IdsOf(left) \cup {id}
               IN  /\ sessions' = [Vacated(leaving) EXCEPT ![id2name[id]] = None]
                   /\ users' = Restored(leaving)
                   /\ \E last \in leaving : login2id' = Remapped(leaving, last)
                   /\ told' = Informed(leaving)
    BY DEF leave_croupier
  <1>3. IdsOf(left) \in SUBSET Ids /\ \A i \in IdsOf(left) : users[i] # None /\ CanLeave(i)
    BY <1>1, <1>2, OthersOnline
  <1>4. IdsOf(left) \cup {id} \in SUBSET Ids BY <1>3
  <1>. QED BY <1>1, <1>2, <1>3, <1>4

(* The database as init() makes it, and a server without connections.      *)
LEMMA TypeInit == Init => TypeInv
  <1>. SUFFICES ASSUME Init PROVE TypeInv OBVIOUS
  <1>1. START_UP_CAPITAL \in Int /\ ADMIN_CAPITAL \in Int /\ GuestLogin # AdminLogin
    BY ConstantsAssumption
  <1>2. data_base \in [Logins -> Account \cup {None}]
    <2>1. /\ [permission |-> ADMIN \cup STAFF, balance |-> ADMIN_CAPITAL] \in Account
          /\ [permission |-> GUEST, balance |-> START_UP_CAPITAL] \in Account
          /\ [permission |-> USER \cup STAFF, balance |-> START_UP_CAPITAL] \in Account
          /\ [permission |-> USER, balance |-> START_UP_CAPITAL] \in Account
      BY <1>1 DEF Account, ALL, AUTH, WAIT, PLAY, ADMIN, STAFF, GUEST, USER, PLAYER, CROUPIER, NONE
    <2>. QED BY <2>1 DEF Init
  <1>3. data_base[GuestLogin] # None
    <2>1. data_base[GuestLogin] = [permission |-> GUEST, balance |-> START_UP_CAPITAL]
      BY <1>1, GuestIsLogin, ConstantsAssumption DEF Init
    <2>2. data_base[GuestLogin] \in Account
      BY <2>1, <1>1 DEF Account, ALL, GUEST, NONE
    <2>. QED BY <2>2, NoneIsNothing
  <1>4. TypeOK
    <2>1. NONE \in SUBSET ALL BY DEF NONE
    <2>. QED BY <1>2, <2>1 DEF Init, TypeOK, Empty
  <1>. QED BY <1>3, <1>4 DEF Init, TypeInv, Known, SpinAtTable, Empty

(* The permissions the handlers give are sets of known bits.               *)
LEMMA PermissionsType ==
    /\ GUEST \in SUBSET ALL /\ USER \in SUBSET ALL
    /\ PLAYER \in SUBSET ALL /\ CROUPIER \in SUBSET ALL /\ NONE \in SUBSET ALL
    /\ \A permission \in Grants : permission \in SUBSET ALL
  BY ConstantsAssumption DEF ALL, AUTH, WAIT, PLAY, GUEST, USER, STAFF, ADMIN, PLAYER, CROUPIER, NONE

(* One payment: whose entry, whose row, and the same integer in both.      *)
LEMMA PayEffect ==
    ASSUME TypeInv, NEW login \in Logins, pay(login)
    PROVE  LET id == login2id[login]
           IN  /\ id \in Ids /\ users[id] \in User /\ users[id].login \in Logins
               /\ data_base[users[id].login] \in Account
               /\ spin \in Spin /\ spin.paid[login] \in Nat
               /\ spin.paid[login] < Len(SpinBets[login])
               /\ \E balance \in Int :
                     /\ users' = [users EXCEPT ![id].balance = balance]
                     /\ data_base' = [data_base EXCEPT ![users[id].login].balance = balance]
  <1>. USE DEF TypeInv
  <1>. DEFINE id      == login2id[login]
              bet     == NextBet(login)
              value   == Wrap(Winnings(spin.random_number, bet))
              balance == Wrap(users[id].balance + value)
  <1>1. spin \in Spin /\ sessions[spin.table] \in Session
    BY DEF pay, Spinning, TypeOK, Spin, SpinAtTable
  <1>2. SpinBets[login] \in Seq(Bet) /\ spin.paid[login] \in Nat
        /\ spin.paid[login] < Len(SpinBets[login])
    BY <1>1 DEF pay, Pays, Unpaid, SpinBets, Session, Spin
  <1>3. bet \in Bet BY <1>2 DEF NextBet
  <1>4. id \in Ids /\ users[id] \in User /\ users[id].login \in Logins
        /\ data_base[users[id].login] \in Account
    BY DEF pay, Payable, TypeOK, Known, User
  <1>5. value \in Int BY <1>3, WinningsInt, WrapInt
  <1>6. balance \in Int
    <2>1. users[id].balance + value \in Int BY <1>4, <1>5 DEF User
    <2>. QED BY <2>1, WrapInt
  <1>7. users' = [users EXCEPT ![id].balance = balance]
        /\ data_base' = [data_base EXCEPT ![users[id].login].balance = balance]
    BY DEF pay, set_user_balance
  <1>. HIDE DEF balance
  <1>. QED BY <1>1, <1>2, <1>4, <1>6, <1>7

(* Every action keeps the types, one step per action.                      *)
LEMMA TypeNext == TypeInv /\ [Next]_vars => TypeInv'
  <1>. SUFFICES ASSUME TypeInv, [Next]_vars PROVE TypeInv' OBVIOUS
  <1>. USE DEF TypeInv
  <1>1. ASSUME NEW id \in Ids, connect_handle(id) PROVE TypeInv'
    <2>1. get_user(GuestLogin) \in User /\ get_user(GuestLogin).login = GuestLogin
      BY GetUserType, GuestIsLogin DEF Known
    <2>. QED BY <1>1, <2>1, AddUserType, TellType, PermissionsType
         DEF connect_handle, TypeOK, Known, SpinAtTable
  <1>2. ASSUME NEW id \in Ids, NEW login \in Logins, do_signin(id, login) PROVE TypeInv'
    <2>1. get_user(login) \in User /\ get_user(login).login = login
          /\ data_base[login].permission \in SUBSET ALL
      BY <1>2, GetUserType DEF do_signin, MaySignin
    <2>. QED BY <1>2, <2>1, AddUserType, TellType
         DEF do_signin, MaySignin, TypeOK, Known, SpinAtTable
  <1>3. ASSUME NEW id \in Ids, do_signout(id) PROVE TypeInv'
    <2>1. get_user(GuestLogin) \in User /\ get_user(GuestLogin).login = GuestLogin
      BY GetUserType, GuestIsLogin DEF Known
    <2>. QED BY <1>3, <2>1, AddUserType, TellType, PermissionsType
         DEF do_signout, TypeOK, Known, SpinAtTable
  <1>4. ASSUME NEW id \in Ids, NEW login \in Logins, do_signup(id, login) PROVE TypeInv'
    <2>1. [permission |-> USER, balance |-> START_UP_CAPITAL] \in Account
      BY PermissionsType, ConstantsAssumption DEF Account
    <2>2. data_base' \in [Logins -> Account \cup {None}]
      BY <1>4, <2>1 DEF do_signup, TypeOK
    <2>3. \A l \in Logins : data_base[l] # None => data_base'[l] # None
      BY <1>4, <2>1, NoneIsNothing DEF do_signup, TypeOK
    <2>4. \A i \in Ids : users[i] # None => users[i].login \in Logins
      BY DEF TypeOK, User
    <2>. QED BY <1>4, <2>2, <2>3, <2>4, GuestIsLogin DEF do_signup, TypeOK, Known, SpinAtTable
  <1>5. ASSUME NEW id \in Ids, do_sync(id) PROVE TypeInv'
    <2>1. users[id].permission \in SUBSET ALL
      BY <1>5 DEF do_sync, Executes, TypeOK, User
    <2>. QED BY <1>5, <2>1, TellType DEF do_sync, TypeOK, Known, SpinAtTable
  <1>6. ASSUME NEW id \in Ids, NEW login \in SettableLogins, NEW permission \in Grants,
               do_set_permission(id, login, permission)
        PROVE  TypeInv'
    <2>0. login \in Logins /\ permission \in SUBSET ALL
      BY ConstantsAssumption, PermissionsType
    <2>1. data_base[login] \in Account BY <1>6, <2>0 DEF do_set_permission, TypeOK
    <2>2. [data_base[login] EXCEPT !.permission = permission] \in Account
      BY <2>0, <2>1 DEF Account
    <2>3. /\ data_base' \in [Logins -> Account \cup {None}]
          /\ \A l \in Logins : data_base[l] # None => data_base'[l] # None
      BY <1>6, <2>0, <2>2, NoneIsNothing DEF do_set_permission, TypeOK
    <2>4. /\ users' \in [Ids -> User \cup {None}]
          /\ login2id' \in [Logins -> Ids \cup {None}]
          /\ told' \in [Ids -> SUBSET ALL]
          /\ \A i \in Ids : users'[i] # None => data_base[users'[i].login] # None
      <3>1. CASE login2id[login] # None /\ users[login2id[login]] # None
        <4>1. login2id[login] \in Ids BY <2>0, <3>1 DEF TypeOK
        <4>. QED BY <1>6, <2>0, <3>1, <4>1, SetPermissionType, TellType DEF do_set_permission
      <3>2. CASE ~(login2id[login] # None /\ users[login2id[login]] # None)
        BY <1>6, <3>2 DEF do_set_permission, TypeOK, Known
      <3>. QED BY <3>1, <3>2
    <2>5. \A i \in Ids : users'[i] # None => users'[i].login \in Logins
      BY <2>4 DEF User
    <2>. QED BY <1>6, <2>3, <2>4, <2>5, GuestIsLogin
         DEF do_set_permission, TypeOK, Known, SpinAtTable
  <1>7. ASSUME NEW id \in Ids, NEW name \in Tables, do_join(id, name) PROVE TypeInv'
    <2>1. users[id] # None /\ users[id].login \in Logins /\ spin = None
      BY <1>7 DEF do_join, Executes, Serving, TypeOK, User
    <2>2. sessions' \in [Tables -> Session \cup {None}]
      <3>1. sessions[name] \in Session BY <1>7 DEF do_join, TypeOK
      <3>2. [sessions[name] EXCEPT !.users = @ \cup {users[id].login}] \in Session
        BY <2>1, <3>1 DEF Session
      <3>. QED BY <1>7, <3>2 DEF do_join, TypeOK
    <2>. QED BY <1>7, <2>1, <2>2, SetPermissionType, TellType, PermissionsType
         DEF do_join, Seat, TypeOK, Known, SpinAtTable
  <1>8. ASSUME NEW id \in Ids, NEW name \in Tables, do_create(id, name) PROVE TypeInv'
    <2>1. users[id] # None /\ users[id].login \in Logins /\ spin = None
      BY <1>8 DEF do_create, Executes, Serving, TypeOK, User
    <2>2. NewTable(name, users[id].login) \in Session
      BY <2>1 DEF NewTable, NoBets, Session
    <2>3. sessions' \in [Tables -> Session \cup {None}]
      BY <1>8, <2>2 DEF do_create, TypeOK
    <2>. QED BY <1>8, <2>1, <2>3, SetPermissionType, TellType, PermissionsType
         DEF do_create, Seat, TypeOK, Known, SpinAtTable
  <1>9. ASSUME NEW id \in Ids, leave_player(id) PROVE TypeInv'
    <2>1. \A i \in {id} : users[i] # None BY <1>9 DEF leave_player, Executes
    <2>2. Informed({id}) \in [Ids -> SUBSET ALL] BY <2>1, RestoredType
    <2>. QED BY <1>9, <2>1, <2>2, LeavePlayersType
         DEF leave_player, Executes, Serving, TypeOK, Known, SpinAtTable
  <1>10. ASSUME NEW id \in Ids, leave_croupier(id) PROVE TypeInv'
    <2>1. PICK leaving \in SUBSET Ids :
              /\ id \in leaving
              /\ \A i \in leaving : users[i] # None
              /\ sessions' = [Vacated(leaving) EXCEPT ![id2name[id]] = None]
              /\ users' = Restored(leaving)
              /\ \E last \in leaving : login2id' = Remapped(leaving, last)
              /\ told' = Informed(leaving)
      BY <1>10, CroupierLeaving
    <2>2. PICK last \in leaving : login2id' = Remapped(leaving, last) BY <2>1
    <2>3. login2id' \in [Logins -> Ids \cup {None}] BY <2>1, <2>2, RemappedType
    <2>5. sessions' \in [Tables -> Session \cup {None}] BY <2>1, VacatedType
    <2>6. /\ users' \in [Ids -> User \cup {None}]
          /\ told' \in [Ids -> SUBSET ALL]
          /\ \A i \in Ids : users'[i] # None => data_base[users'[i].login] # None
      BY <2>1, RestoredType DEF Known
    <2>. QED BY <1>10, <2>3, <2>5, <2>6
         DEF leave_croupier, Executes, Serving, TypeOK, Known, SpinAtTable
  <1>11. ASSUME NEW id \in Ids, leave_croupier_fails(id) PROVE TypeInv'
    <2>1. PICK done \in SUBSET {login \in Others(id) : CanUnseat(login)} :
              leave_players(IdsOf(done)) /\ told' = Informed(IdsOf(done))
      BY <1>11 DEF leave_croupier_fails
    <2>2. IdsOf(done) \in SUBSET Ids /\ \A i \in IdsOf(done) : users[i] # None
      BY <1>11, <2>1, OthersOnline DEF leave_croupier_fails
    <2>. QED BY <1>11, <2>1, <2>2, LeavePlayersType, RestoredType
         DEF leave_croupier_fails, Executes, Serving, TypeOK, Known, SpinAtTable
  <1>12. ASSUME NEW id \in Ids, NEW login \in Logins, do_kick(id, login) PROVE TypeInv'
    <2>1. {login2id[login]} \in SUBSET Ids /\ \A i \in {login2id[login]} : users[i] # None
      BY <1>12 DEF do_kick, CanUnseat, CanLeave, TypeOK
    <2>2. Informed({login2id[login]}) \in [Ids -> SUBSET ALL] BY <2>1, RestoredType
    <2>. QED BY <1>12, <2>1, <2>2, LeavePlayersType
         DEF do_kick, Executes, Serving, TypeOK, Known, SpinAtTable
  <1>13. ASSUME NEW id \in Ids, NEW bet \in Offers, do_bet(id, bet) PROVE TypeInv'
    <2>1. id2name[id] \in Tables /\ sessions[id2name[id]] \in Session
          /\ users[id].login \in Logins /\ bet \in Bet /\ spin = None
      BY <1>13, ConstantsAssumption
      DEF do_bet, Executes, Serving, has_session, TypeOK, User
    <2>. DEFINE session == sessions[id2name[id]]
                login   == users[id].login
                bets    == [session.bets EXCEPT ![login] = push_back(session.bets[login], bet)]
    <2>2. bets \in [Logins -> Seq(Bet)]
      BY <2>1 DEF push_back, Session
    <2>3. [session EXCEPT !.bets = bets] \in Session
      <3>. HIDE DEF bets
      <3>. QED BY <2>1, <2>2 DEF Session
    <2>5. sessions' = [sessions EXCEPT ![id2name[id]] = [session EXCEPT !.bets = bets]]
      BY <1>13, <2>1 DEF do_bet, get_session, TypeOK
    <2>4. sessions' \in [Tables -> Session \cup {None}]
      <3>. HIDE DEF bets
      <3>. QED BY <2>1, <2>3, <2>5 DEF TypeOK
    <2>. QED BY <1>13, <2>1, <2>4 DEF do_bet, TypeOK, Known, SpinAtTable
  <1>14. ASSUME NEW id \in Ids, NEW random_number \in Outcomes, do_spin(id, random_number)
         PROVE  TypeInv'
    <2>1. id2name[id] \in Tables /\ sessions[id2name[id]] # None /\ random_number \in Pockets
      BY <1>14, ConstantsAssumption DEF do_spin, has_session, TypeOK
    <2>2. spin' \in Spin /\ spin'.table = id2name[id] BY <1>14, <2>1 DEF do_spin, Spin
    <2>. QED BY <1>14, <2>1, <2>2 DEF do_spin, TypeOK, Known, SpinAtTable
  <1>15. ASSUME NEW login \in Logins, pay(login) PROVE TypeInv'
    <2>. DEFINE id == login2id[login]
    <2>1. PICK balance \in Int :
              /\ users' = [users EXCEPT ![id].balance = balance]
              /\ data_base' = [data_base EXCEPT ![users[id].login].balance = balance]
      BY <1>15, PayEffect
    <2>2. /\ id \in Ids /\ users[id] \in User /\ users[id].login \in Logins
          /\ data_base[users[id].login] \in Account
          /\ spin \in Spin /\ spin.paid[login] \in Nat
      BY <1>15, PayEffect
    <2>3. /\ [users[id] EXCEPT !.balance = balance] \in User
          /\ [users[id] EXCEPT !.balance = balance].login = users[id].login
          /\ [data_base[users[id].login] EXCEPT !.balance = balance] \in Account
      BY <2>2 DEF User, Account
    <2>4. /\ users' \in [Ids -> User \cup {None}]
          /\ data_base' \in [Logins -> Account \cup {None}]
          /\ \A i \in Ids : users'[i] # None => users[i] # None /\ users'[i].login = users[i].login
          /\ \A l \in Logins : data_base[l] # None => data_base'[l] # None
      BY <2>1, <2>2, <2>3, NoneIsNothing DEF TypeOK
    <2>5. \A i \in Ids : users[i] # None => users[i].login \in Logins
      BY DEF TypeOK, User
    <2>6. spin' \in Spin /\ spin'.table = spin.table
      <3>1. spin.paid[login] + 1 \in Nat BY <2>2
      <3>. QED BY <1>15, <2>2, <3>1 DEF pay, Spin
    <2>. QED BY <1>15, <2>4, <2>5, <2>6, GuestIsLogin, NoneIsNothing
         DEF pay, Spinning, TypeOK, Known, SpinAtTable
  <1>16. ASSUME NEW login \in Logins, spin_fails(login) PROVE TypeInv'
    BY <1>16 DEF spin_fails, TypeOK, Known, SpinAtTable
  <1>17. ASSUME clear_bets PROVE TypeInv'
    <2>1. spin.table \in Tables /\ sessions[spin.table] \in Session
      BY <1>17 DEF clear_bets, Spinning, TypeOK, Spin, SpinAtTable
    <2>2. [sessions[spin.table] EXCEPT !.bets = NoBets] \in Session
      <3>1. NoBets \in [Logins -> Seq(Bet)] BY DEF NoBets
      <3>. QED BY <2>1, <3>1 DEF Session
    <2>3. sessions' \in [Tables -> Session \cup {None}]
      BY <1>17, <2>1, <2>2 DEF clear_bets, TypeOK
    <2>. QED BY <1>17, <2>3 DEF clear_bets, TypeOK, Known, SpinAtTable
  <1>18. ASSUME NEW id \in Ids, disconnect_handle(id) PROVE TypeInv'
    <2>1. ASSUME users[id] # None, remove_user(id, login2id)
          PROVE  /\ users' \in [Ids -> User \cup {None}]
                 /\ login2id' \in [Logins -> Ids \cup {None}]
                 /\ told' \in [Ids -> SUBSET ALL]
                 /\ \A i \in Ids : users'[i] # None => data_base[users'[i].login] # None
      BY <2>1, TellType, PermissionsType DEF remove_user, TypeOK, Known
    <2>2. CASE disconnect_idle(id)
      BY <2>1, <2>2 DEF disconnect_idle, Serving, TypeOK, Known, SpinAtTable
    <2>3. CASE disconnect_player(id)
      <3>1. Vacated({id}) \in [Tables -> Session \cup {None}] BY VacatedType
      <3>. QED BY <2>1, <2>3, <3>1 DEF disconnect_player, Serving, TypeOK, Known, SpinAtTable
    <2>4. CASE disconnect_croupier(id)
      BY <2>1, <2>4 DEF disconnect_croupier, Serving, TypeOK, Known, SpinAtTable
    <2>5. CASE disconnect_croupier_hangs(id)
      <3>1. get_session(id) \in Session
        BY <2>5 DEF disconnect_croupier_hangs, has_session, get_session, TypeOK
      <3>2. PICK login \in Others(id) : CanUnseat(login) /\ leave_players({login2id[login]})
        BY <2>5 DEF disconnect_croupier_hangs
      <3>3. login \in Logins BY <3>1 DEF Others, Session
      <3>4. {login2id[login]} \in SUBSET Ids /\ \A i \in {login2id[login]} : users[i] # None
        BY <3>2, <3>3 DEF CanUnseat, CanLeave, TypeOK
      <3>. QED BY <2>5, <3>2, <3>4, LeavePlayersType
           DEF disconnect_croupier_hangs, Serving, TypeOK, Known, SpinAtTable
    <2>6. CASE disconnect_throws(id)
      BY <2>6 DEF disconnect_throws, TypeOK, Known, SpinAtTable
    <2>. QED BY <1>18, <2>2, <2>3, <2>4, <2>5, <2>6 DEF disconnect_handle
  <1>19. ASSUME restart PROVE TypeInv'
    BY <1>19, PermissionsType DEF restart, Empty, TypeOK, Known, SpinAtTable
  <1>20. ASSUME UNCHANGED vars PROVE TypeInv'
    BY <1>20 DEF vars, TypeOK, Known, SpinAtTable
  <1>. QED BY <1>1, <1>2, <1>3, <1>4, <1>5, <1>6, <1>7, <1>8, <1>9, <1>10, <1>11, <1>12,
              <1>13, <1>14, <1>15, <1>16, <1>17, <1>18, <1>19, <1>20
       DEF Next, do_leave

(* The types, with what they need to be inductive: a user on a connection  *)
(* has a row in the database, and a spin is at an open table.              *)
THEOREM Typing == Spec => []TypeInv
  BY TypeInit, TypeNext, PTL DEF Spec

(* TypeOK: the maps of the server hold what their types say, after every   *)
(* sequence of requests, disconnections and restarts.                      *)
THEOREM TypeCorrect == Spec => []TypeOK
  <1>1. TypeInv => TypeOK BY DEF TypeInv
  <1>. QED BY <1>1, Typing, PTL
-----------------------------------------------------------------------------
(* One connection per login.                                               *)

(* add_user keeps the mapping for a guest, for a login that is not mapped, *)
(* and for the login that is on the connection already.                    *)
LEMMA AddUserMapped ==
    ASSUME TypeOK, LoginMapped, NEW id \in Ids, NEW user \in User, add_user(id, user),
           \/ user.login = GuestLogin
           \/ login2id[user.login] = None
           \/ users[id] # None /\ users[id].login = user.login
    PROVE  LoginMapped'
  <1>1. user.login \in Logins BY DEF User
  <1>2. ASSUME NEW i \in Ids, users'[i] # None, users'[i].login # GuestLogin
        PROVE  login2id'[users'[i].login] = i
    <2>1. CASE i = id BY <1>1, <2>1 DEF add_user, TypeOK
    <2>2. CASE i # id
      <3>1. users'[i] = users[i] BY <2>2 DEF add_user, TypeOK
      <3>2. login2id[users[i].login] = i /\ users[i].login \in Logins
        BY <1>2, <3>1 DEF LoginMapped, TypeOK, User
      <3>3. users[i].login # user.login
        BY <1>2, <2>2, <3>1, <3>2, NoneAssumption DEF LoginMapped
      <3>. QED BY <1>1, <3>1, <3>2, <3>3 DEF add_user, TypeOK
    <2>. QED BY <2>1, <2>2
  <1>. QED BY <1>2 DEF LoginMapped

(* local_set_user_permission keeps a login on the connection it has.       *)
LEMMA SetPermissionMapped ==
    ASSUME TypeOK, LoginMapped, NEW id \in Ids, users[id] # None,
           NEW permission \in SUBSET ALL, local_set_user_permission(id, permission)
    PROVE  LoginMapped'
  <1>1. users[id] \in User BY DEF TypeOK
  <1>2. /\ [users[id] EXCEPT !.permission = permission] \in User
        /\ [users[id] EXCEPT !.permission = permission].login = users[id].login
    BY <1>1 DEF User
  <1>. QED BY <1>2, AddUserMapped DEF local_set_user_permission

(* The entries leave_player writes name connections of those logins.       *)
LEMMA RemappedMapped ==
    ASSUME TypeOK, Known, LoginMapped, NEW ids \in SUBSET Ids,
           \A i \in ids : users[i] # None, NEW last \in ids,
           users' = Restored(ids), login2id' = Remapped(ids, last)
    PROVE  LoginMapped'
  <1>1. ASSUME NEW i \in Ids, users'[i] # None, users'[i].login # GuestLogin
        PROVE  login2id'[users'[i].login] = i
    <2>. DEFINE login == users[i].login
                holders == {j \in ids : users[j].login = login}
    <2>1. users[i] # None /\ users'[i].login = login BY <1>1, RestoredType
    <2>2. login \in Logins /\ login2id[login] = i
      BY <1>1, <2>1 DEF LoginMapped, TypeOK, User
    <2>3. \A j \in holders : j = i BY <1>1, <2>1, <2>2 DEF LoginMapped
    <2>4. login2id'[login] = IF holders = {} THEN login2id[login]
                             ELSE IF last \in holders THEN last
                             ELSE CHOOSE j \in holders : TRUE
      BY <2>2 DEF Remapped
    <2>5. holders # {} => (CHOOSE j \in holders : TRUE) \in holders OBVIOUS
    <2>. QED BY <2>1, <2>2, <2>3, <2>4, <2>5
  <1>. QED BY <1>1 DEF LoginMapped

(* leave_player keeps every signed-in login mapped to its connection.      *)
LEMMA LeavePlayersMapped ==
    ASSUME TypeOK, Known, LoginMapped, NEW ids \in SUBSET Ids,
           \A i \in ids : users[i] # None, leave_players(ids)
    PROVE  LoginMapped'
  <1>1. CASE ids = {}
    <2>1. users' = users /\ login2id' = login2id
      BY <1>1 DEF leave_players, Restored, TypeOK
    <2>. QED BY <2>1 DEF LoginMapped
  <1>2. CASE ids # {}
    BY <1>2, RemappedMapped DEF leave_players
  <1>. QED BY <1>1, <1>2

(* Every action keeps a login on the one connection login2id names.        *)
LEMMA MappedNext == TypeInv /\ LoginMapped /\ [Next]_vars => LoginMapped'
  <1>. SUFFICES ASSUME TypeInv, LoginMapped, [Next]_vars PROVE LoginMapped' OBVIOUS
  <1>. USE DEF TypeInv
  <1>1. ASSUME NEW id \in Ids, connect_handle(id) \/ do_signout(id) PROVE LoginMapped'
    <2>1. get_user(GuestLogin) \in User /\ get_user(GuestLogin).login = GuestLogin
      BY GetUserType, GuestIsLogin DEF Known
    <2>. QED BY <1>1, <2>1, AddUserMapped DEF connect_handle, do_signout
  <1>2. ASSUME NEW id \in Ids, NEW login \in Logins, do_signin(id, login) PROVE LoginMapped'
    <2>1. get_user(login) \in User /\ get_user(login).login = login
      BY <1>2, GetUserType DEF do_signin, MaySignin
    <2>. QED BY <1>2, <2>1, AddUserMapped DEF do_signin, MaySignin
  <1>3. ASSUME NEW id \in Ids, NEW login \in SettableLogins, NEW permission \in Grants,
               do_set_permission(id, login, permission)
        PROVE  LoginMapped'
    <2>1. login \in Logins /\ permission \in SUBSET ALL
      BY ConstantsAssumption, PermissionsType
    <2>2. CASE login2id[login] # None /\ users[login2id[login]] # None
      <3>1. login2id[login] \in Ids BY <2>1, <2>2 DEF TypeOK
      <3>. QED BY <1>3, <2>1, <2>2, <3>1, SetPermissionMapped DEF do_set_permission
    <2>3. CASE ~(login2id[login] # None /\ users[login2id[login]] # None)
      BY <1>3, <2>3 DEF do_set_permission, LoginMapped
    <2>. QED BY <2>2, <2>3
  <1>4. ASSUME NEW id \in Ids, NEW name \in Tables, do_join(id, name) \/ do_create(id, name)
        PROVE  LoginMapped'
    BY <1>4, SetPermissionMapped, PermissionsType DEF do_join, do_create, Executes
  <1>5. ASSUME NEW id \in Ids, leave_player(id) PROVE LoginMapped'
    <2>1. \A i \in {id} : users[i] # None BY <1>5 DEF leave_player, Executes
    <2>. QED BY <1>5, <2>1, LeavePlayersMapped DEF leave_player
  <1>6. ASSUME NEW id \in Ids, leave_croupier(id) PROVE LoginMapped'
    <2>1. PICK leaving \in SUBSET Ids :
              /\ id \in leaving
              /\ \A i \in leaving : users[i] # None
              /\ sessions' = [Vacated(leaving) EXCEPT ![id2name[id]] = None]
              /\ users' = Restored(leaving)
              /\ \E last \in leaving : login2id' = Remapped(leaving, last)
              /\ told' = Informed(leaving)
      BY <1>6, CroupierLeaving
    <2>. QED BY <2>1, RemappedMapped
  <1>7. ASSUME NEW id \in Ids, leave_croupier_fails(id) PROVE LoginMapped'
    <2>1. PICK done \in SUBSET {login \in Others(id) : CanUnseat(login)} :
              leave_players(IdsOf(done))
      BY <1>7 DEF leave_croupier_fails
    <2>2. IdsOf(done) \in SUBSET Ids /\ \A i \in IdsOf(done) : users[i] # None
      BY <1>7, <2>1, OthersOnline DEF leave_croupier_fails
    <2>. QED BY <2>1, <2>2, LeavePlayersMapped
  <1>8. ASSUME NEW id \in Ids, NEW login \in Logins, do_kick(id, login) PROVE LoginMapped'
    <2>1. {login2id[login]} \in SUBSET Ids /\ \A i \in {login2id[login]} : users[i] # None
      BY <1>8 DEF do_kick, CanUnseat, CanLeave, TypeOK
    <2>. QED BY <1>8, <2>1, LeavePlayersMapped DEF do_kick
  <1>9. ASSUME NEW login \in Logins, pay(login) PROVE LoginMapped'
    <2>1. /\ login2id[login] \in Ids /\ users[login2id[login]] \in User
          /\ login2id' = login2id
      BY <1>9 DEF pay, Payable, TypeOK
    <2>2. PICK balance : users' = [users EXCEPT ![login2id[login]].balance = balance]
      BY <1>9 DEF pay
    <2>3. \A i \in Ids : users'[i] # None => users[i] # None /\ users'[i].login = users[i].login
      BY <2>1, <2>2, NoneIsNothing DEF TypeOK, User
    <2>. QED BY <2>1, <2>3 DEF LoginMapped
  <1>10. ASSUME NEW id \in Ids, disconnect_handle(id) PROVE LoginMapped'
    <2>1. ASSUME users[id] # None, remove_user(id, login2id) PROVE LoginMapped'
      <3>1. ASSUME NEW i \in Ids, users'[i] # None, users'[i].login # GuestLogin
            PROVE  login2id'[users'[i].login] = i
        <4>1. i # id /\ users'[i] = users[i] BY <2>1, <3>1 DEF remove_user, TypeOK
        <4>2. login2id[users[i].login] = i /\ users[i].login \in Logins
          BY <3>1, <4>1 DEF LoginMapped, TypeOK, User
        <4>3. users[i].login # users[id].login
          BY <2>1, <3>1, <4>1, <4>2 DEF LoginMapped
        <4>. QED BY <2>1, <4>1, <4>2, <4>3 DEF remove_user, TypeOK
      <3>. QED BY <3>1 DEF LoginMapped
    <2>2. CASE disconnect_idle(id) \/ disconnect_player(id) \/ disconnect_croupier(id)
      BY <2>1, <2>2 DEF disconnect_idle, disconnect_player, disconnect_croupier
    <2>3. CASE disconnect_croupier_hangs(id)
      <3>1. PICK login \in Others(id) : CanUnseat(login) /\ leave_players({login2id[login]})
        BY <2>3 DEF disconnect_croupier_hangs
      <3>2. IdsOf({login}) = {login2id[login]} BY DEF IdsOf
      <3>3. {login2id[login]} \in SUBSET Ids /\ \A i \in {login2id[login]} : users[i] # None
        BY <2>3, <3>1, <3>2, OthersOnline DEF disconnect_croupier_hangs
      <3>. QED BY <3>1, <3>3, LeavePlayersMapped
    <2>4. CASE disconnect_throws(id) BY <2>4 DEF disconnect_throws, LoginMapped
    <2>. QED BY <1>10, <2>2, <2>3, <2>4 DEF disconnect_handle
  <1>11. ASSUME restart PROVE LoginMapped' BY <1>11 DEF restart, Empty, LoginMapped
  <1>12. ASSUME \/ UNCHANGED vars
                \/ clear_bets
                \/ \E login \in Logins : spin_fails(login)
                \/ \E id \in Ids : \/ do_sync(id)
                                   \/ \E login \in Logins : do_signup(id, login)
                                   \/ \E bet \in Offers : do_bet(id, bet)
                                   \/ \E n \in Outcomes : do_spin(id, n)
         PROVE  LoginMapped'
    BY <1>12 DEF vars, clear_bets, spin_fails, do_sync, do_signup, do_bet, do_spin, LoginMapped
  <1>. QED BY <1>1, <1>2, <1>3, <1>4, <1>5, <1>6, <1>7, <1>8, <1>9, <1>10, <1>11, <1>12
       DEF Next, do_leave

(* LoginMapped: for any number of connections and whatever his client lets *)
(* the administrator set, nobody is signed in twice, and login2id finds    *)
(* every signed-in user where he is.                                       *)
THEOREM OneConnectionPerLogin == Spec => []LoginMapped
  <1>1. Init => LoginMapped BY DEF Init, Empty, LoginMapped
  <1>. QED BY <1>1, MappedNext, Typing, PTL DEF Spec
-----------------------------------------------------------------------------
(* The balance of a connection is the one of the database.                 *)

\* Nobody new is online, and who is has kept login and balance.
SameMoney ==
    \A i \in Ids : users'[i] # None => /\ users[i] # None
                                       /\ users'[i].login = users[i].login
                                       /\ users'[i].balance = users[i].balance

(* local_set_user_permission does not touch logins and balances.           *)
LEMMA LocalSameMoney ==
    ASSUME TypeOK, NEW id \in Ids, users[id] # None, NEW permission \in SUBSET ALL,
           local_set_user_permission(id, permission)
    PROVE  SameMoney
  <1>1. users[id] \in User BY DEF TypeOK
  <1>2. users' = [users EXCEPT ![id] = [users[id] EXCEPT !.permission = permission]]
    BY DEF local_set_user_permission, add_user
  <1>. QED BY <1>1, <1>2 DEF TypeOK, User, SameMoney

(* A user read from the database has the balance of the database.          *)
LEMMA AddUserCached ==
    ASSUME TypeOK, BalanceCached, NEW id \in Ids, NEW login \in Logins,
           data_base[login] # None, add_user(id, get_user(login)), data_base' = data_base
    PROVE  BalanceCached'
  <1>1. get_user(login).login = login /\ get_user(login).balance = data_base[login].balance
    BY DEF get_user
  <1>2. users' = [users EXCEPT ![id] = get_user(login)] BY DEF add_user
  <1>. QED BY <1>1, <1>2 DEF TypeOK, BalanceCached

(* Every action keeps the two copies of a balance equal.                   *)
LEMMA CachedNext == TypeInv /\ LoginMapped /\ BalanceCached /\ [Next]_vars => BalanceCached'
  <1>. SUFFICES ASSUME TypeInv, LoginMapped, BalanceCached, [Next]_vars PROVE BalanceCached'
    OBVIOUS
  <1>. USE DEF TypeInv
  <1>0. ASSUME SameMoney, data_base' = data_base PROVE BalanceCached'
    BY <1>0 DEF SameMoney, BalanceCached
  <1>1. ASSUME NEW id \in Ids, connect_handle(id) \/ do_signout(id) PROVE BalanceCached'
    BY <1>1, AddUserCached, GuestIsLogin DEF connect_handle, do_signout, Known
  <1>2. ASSUME NEW id \in Ids, NEW login \in Logins, do_signin(id, login) PROVE BalanceCached'
    BY <1>2, AddUserCached DEF do_signin, MaySignin
  <1>3. ASSUME NEW id \in Ids, NEW login \in Logins, do_signup(id, login) PROVE BalanceCached'
    <2>1. /\ users' = users /\ data_base[login] = None
          /\ \A l \in Logins \ {login} : data_base'[l] = data_base[l]
      BY <1>3 DEF do_signup, TypeOK
    <2>2. \A i \in Ids : users[i] # None => users[i].login \in Logins \ {login}
      BY <2>1 DEF TypeOK, User, Known
    <2>. QED BY <2>1, <2>2 DEF BalanceCached
  <1>4. ASSUME NEW id \in Ids, NEW login \in SettableLogins, NEW permission \in Grants,
               do_set_permission(id, login, permission)
        PROVE  BalanceCached'
    <2>1. login \in Logins /\ permission \in SUBSET ALL
      BY ConstantsAssumption, PermissionsType
    <2>2. data_base[login] \in Account BY <1>4, <2>1 DEF do_set_permission, TypeOK
    <2>3. \A l \in Logins : /\ data_base[l] # None => data_base'[l] # None
                            /\ data_base'[l].balance = data_base[l].balance
      BY <1>4, <2>1, <2>2, NoneIsNothing DEF do_set_permission, TypeOK, Account
    <2>4. SameMoney
      <3>1. CASE login2id[login] # None /\ users[login2id[login]] # None
        <4>1. login2id[login] \in Ids BY <2>1, <3>1 DEF TypeOK
        <4>. QED BY <1>4, <2>1, <3>1, <4>1, LocalSameMoney DEF do_set_permission
      <3>2. CASE ~(login2id[login] # None /\ users[login2id[login]] # None)
        BY <1>4, <3>2 DEF do_set_permission, SameMoney
      <3>. QED BY <3>1, <3>2
    <2>5. \A i \in Ids : users[i] # None => users[i].login \in Logins BY DEF TypeOK, User
    <2>. QED BY <2>3, <2>4, <2>5 DEF SameMoney, BalanceCached
  <1>5. ASSUME NEW id \in Ids, NEW name \in Tables, do_join(id, name) \/ do_create(id, name)
        PROVE  BalanceCached'
    BY <1>5, <1>0, LocalSameMoney, PermissionsType DEF do_join, do_create, Executes
  <1>6. ASSUME NEW ids \in SUBSET Ids, \A i \in ids : users[i] # None,
               users' = Restored(ids), data_base' = data_base
        PROVE  BalanceCached'
    BY <1>6, <1>0, RestoredType DEF SameMoney
  <1>7. ASSUME NEW id \in Ids, leave_player(id) PROVE BalanceCached'
    <2>1. \A i \in {id} : users[i] # None BY <1>7 DEF leave_player, Executes
    <2>. QED BY <1>6, <1>7, <2>1 DEF leave_player, leave_players
  <1>8. ASSUME NEW id \in Ids, leave_croupier(id) PROVE BalanceCached'
    <2>1. PICK leaving \in SUBSET Ids :
              /\ id \in leaving
              /\ \A i \in leaving : users[i] # None
              /\ sessions' = [Vacated(leaving) EXCEPT ![id2name[id]] = None]
              /\ users' = Restored(leaving)
              /\ \E last \in leaving : login2id' = Remapped(leaving, last)
              /\ told' = Informed(leaving)
      BY <1>8, CroupierLeaving
    <2>. QED BY <1>6, <1>8, <2>1 DEF leave_croupier
  <1>9. ASSUME NEW id \in Ids, leave_croupier_fails(id) PROVE BalanceCached'
    <2>1. PICK done \in SUBSET {login \in Others(id) : CanUnseat(login)} :
              leave_players(IdsOf(done))
      BY <1>9 DEF leave_croupier_fails
    <2>2. IdsOf(done) \in SUBSET Ids /\ \A i \in IdsOf(done) : users[i] # None
      BY <1>9, <2>1, OthersOnline DEF leave_croupier_fails
    <2>. QED BY <1>6, <1>9, <2>1, <2>2 DEF leave_croupier_fails, leave_players
  <1>10. ASSUME NEW id \in Ids, NEW login \in Logins, do_kick(id, login) PROVE BalanceCached'
    <2>1. {login2id[login]} \in SUBSET Ids /\ \A i \in {login2id[login]} : users[i] # None
      BY <1>10 DEF do_kick, CanUnseat, CanLeave, TypeOK
    <2>. QED BY <1>6, <1>10, <2>1 DEF do_kick, leave_players
  <1>11. ASSUME NEW login \in Logins, pay(login) PROVE BalanceCached'
    <2>. DEFINE id == login2id[login]
    <2>1. id \in Ids /\ users[id] \in User /\ users[id].login \in Logins
          /\ data_base[users[id].login] \in Account
      BY <1>11, PayEffect
    <2>2. PICK balance \in Int :
              /\ users' = [users EXCEPT ![id].balance = balance]
              /\ data_base' = [data_base EXCEPT ![users[id].login].balance = balance]
      BY <1>11, PayEffect
    <2>3. /\ users'[id].login = users[id].login /\ users'[id].balance = balance
          /\ data_base'[users[id].login].balance = balance
          /\ data_base'[users[id].login] # None
      <3>1. data_base'[users[id].login] = [data_base[users[id].login] EXCEPT !.balance = balance]
        BY <2>1, <2>2 DEF TypeOK
      <3>2. users'[id] = [users[id] EXCEPT !.balance = balance] BY <2>1, <2>2 DEF TypeOK
      <3>3. data_base'[users[id].login] # None
        <4>1. [data_base[users[id].login] EXCEPT !.balance = balance] \in Account
          BY <2>1 DEF Account
        <4>. QED BY <3>1, <4>1, NoneIsNothing
      <3>. QED BY <2>1, <3>1, <3>2, <3>3 DEF User, Account
    <2>4. ASSUME NEW i \in Ids, users'[i] # None, users'[i].login # GuestLogin
          PROVE  /\ data_base'[users'[i].login] # None
                 /\ users'[i].balance = data_base'[users'[i].login].balance
      <3>1. CASE i = id BY <2>3, <3>1
      <3>2. CASE i # id
        <4>1. users'[i] = users[i] BY <2>2, <3>2 DEF TypeOK
        <4>2. users[i].login \in Logins BY <2>4, <4>1 DEF TypeOK, User
        <4>3. users[i].login # users[id].login
          BY <1>11, <2>4, <3>2, <4>1, <2>1 DEF LoginMapped, pay, Payable
        <4>4. data_base'[users[i].login] = data_base[users[i].login]
          BY <2>1, <2>2, <4>2, <4>3 DEF TypeOK
        <4>. QED BY <2>4, <4>1, <4>4 DEF BalanceCached
      <3>. QED BY <3>1, <3>2
    <2>. QED BY <2>4 DEF BalanceCached
  <1>12. ASSUME NEW id \in Ids, disconnect_handle(id) PROVE BalanceCached'
    <2>1. ASSUME users[id] # None, remove_user(id, login2id), data_base' = data_base
          PROVE  BalanceCached'
      BY <2>1, <1>0 DEF remove_user, TypeOK, SameMoney
    <2>2. CASE disconnect_idle(id) \/ disconnect_player(id) \/ disconnect_croupier(id)
      BY <2>1, <2>2 DEF disconnect_idle, disconnect_player, disconnect_croupier
    <2>3. CASE disconnect_croupier_hangs(id)
      <3>1. PICK login \in Others(id) : CanUnseat(login) /\ leave_players({login2id[login]})
        BY <2>3 DEF disconnect_croupier_hangs
      <3>2. IdsOf({login}) = {login2id[login]} BY DEF IdsOf
      <3>3. {login2id[login]} \in SUBSET Ids /\ \A i \in {login2id[login]} : users[i] # None
        BY <2>3, <3>1, <3>2, OthersOnline DEF disconnect_croupier_hangs
      <3>. QED BY <1>6, <2>3, <3>1, <3>3 DEF leave_players, disconnect_croupier_hangs
    <2>4. CASE disconnect_throws(id) BY <2>4 DEF disconnect_throws, BalanceCached
    <2>. QED BY <1>12, <2>2, <2>3, <2>4 DEF disconnect_handle
  <1>13. ASSUME restart PROVE BalanceCached' BY <1>13 DEF restart, Empty, BalanceCached
  <1>14. ASSUME \/ UNCHANGED vars
                \/ clear_bets
                \/ \E login \in Logins : spin_fails(login)
                \/ \E id \in Ids : \/ do_sync(id)
                                   \/ \E bet \in Offers : do_bet(id, bet)
                                   \/ \E n \in Outcomes : do_spin(id, n)
         PROVE  BalanceCached'
    BY <1>14 DEF vars, clear_bets, spin_fails, do_sync, do_bet, do_spin, BalanceCached
  <1>. QED BY <1>1, <1>2, <1>3, <1>4, <1>5, <1>7, <1>8, <1>9, <1>10, <1>11, <1>12, <1>13, <1>14
       DEF Next, do_leave

(* BalanceCached: the balance do_bet compares with is the account's, on    *)
(* every connection, through wins, losses, sign-outs and interrupted spins.*)
THEOREM BalanceIsAccount == Spec => []BalanceCached
  <1>1. Init => BalanceCached BY DEF Init, Empty, BalanceCached
  <1>. QED BY <1>1, CachedNext, Typing, OneConnectionPerLogin, PTL DEF Spec
-----------------------------------------------------------------------------
(* The permissions in the database.                                        *)

\* Nobody's row has a seat in it, and the guest's is what init() made it until
\* the administrator sets it.
GuestUnset == CarefulAdmin \/ GuestLogin \notin SettableLogins

RowsUnseated ==
    /\ GuestUnset => data_base[GuestLogin].permission = GUEST
    /\ \A login \in Logins :
           data_base[login] # None => ~Allowed(data_base[login].permission, PLAY)

(* What the database is filled with has no bit of PLAY.                    *)
LEMMA UnseatedMasks ==
    /\ ~Allowed(GUEST, PLAY) /\ ~Allowed(USER, PLAY)
    /\ ~Allowed(USER \cup STAFF, PLAY) /\ ~Allowed(ADMIN \cup STAFF, PLAY)
    /\ \A permission \in Grants : ~Allowed(permission, PLAY)
    /\ \A permission : ~Allowed(permission, PLAY) => ~Allowed(permission, CROUPIER)
    /\ ~Allowed(PLAYER, CROUPIER)
  <1>1. WAIT \cap PLAY = {} /\ CROUPIER \subseteq PLAY
    BY DEF WAIT, PLAY, USER, STAFF, ADMIN, PLAYER, CROUPIER
  <1>2. Grants \subseteq SUBSET WAIT BY ConstantsAssumption
  <1>3. \A permission \in Grants : ~Allowed(permission, PLAY) BY <1>1, <1>2 DEF Allowed
  <1>. QED BY <1>1, <1>3
       DEF Allowed, PLAY, GUEST, USER, STAFF, ADMIN, PLAYER, CROUPIER

(* init() seats nobody.                                                    *)
LEMMA UnseatedInit == Init => RowsUnseated
  <1>. SUFFICES ASSUME Init PROVE RowsUnseated OBVIOUS
  <1>1. data_base[GuestLogin] = [permission |-> GUEST, balance |-> START_UP_CAPITAL]
    BY GuestIsLogin, ConstantsAssumption DEF Init
  <1>2. ASSUME NEW login \in Logins, data_base[login] # None
        PROVE  data_base[login].permission \in
                   {ADMIN \cup STAFF, GUEST, USER \cup STAFF, USER}
    BY <1>2 DEF Init
  <1>3. \A permission \in {ADMIN \cup STAFF, GUEST, USER \cup STAFF, USER} :
            ~Allowed(permission, PLAY)
    BY UnseatedMasks
  <1>4. data_base[GuestLogin].permission = GUEST BY <1>1
  <1>. QED BY <1>2, <1>3, <1>4 DEF RowsUnseated

(* Only do_signup and do_set_permission write a permission to the database.*)
LEMMA UnseatedNext == TypeInv /\ RowsUnseated /\ [Next]_vars => RowsUnseated'
  <1>. SUFFICES ASSUME TypeInv, RowsUnseated, [Next]_vars PROVE RowsUnseated' OBVIOUS
  <1>. USE DEF TypeInv
  <1>1. ASSUME NEW id \in Ids, NEW login \in Logins, do_signup(id, login)
        PROVE  RowsUnseated'
    BY <1>1, UnseatedMasks, GuestIsLogin DEF do_signup, RowsUnseated, Known, TypeOK
  <1>2. ASSUME NEW id \in Ids, NEW login \in SettableLogins, NEW permission \in Grants,
               do_set_permission(id, login, permission)
        PROVE  RowsUnseated'
    <2>1. login \in Logins /\ (GuestUnset => login # GuestLogin)
      BY <1>2, ConstantsAssumption DEF GuestUnset, do_set_permission
    <2>2. data_base[login] \in Account BY <1>2, <2>1 DEF do_set_permission, TypeOK
    <2>3. [data_base[login] EXCEPT !.permission = permission].permission = permission
      BY <2>2 DEF Account
    <2>. QED BY <1>2, <2>1, <2>3, UnseatedMasks, GuestIsLogin
             DEF do_set_permission, RowsUnseated, TypeOK
  <1>3. ASSUME NEW login \in Logins, pay(login) PROVE RowsUnseated'
    <2>. DEFINE payee == users[login2id[login]].login
    <2>1. PICK balance \in Int :
              data_base' = [data_base EXCEPT ![payee].balance = balance]
      BY <1>3, PayEffect
    <2>2. payee \in Logins /\ data_base[payee] \in Account BY <1>3, PayEffect
    <2>3. [data_base[payee] EXCEPT !.balance = balance].permission
              = data_base[payee].permission
      BY <2>2 DEF Account
    <2>4. data_base[payee] # None BY <2>2, NoneIsNothing
    <2>. HIDE DEF payee
    <2>5. \A l \in Logins : data_base'[l] = IF l = payee
              THEN [data_base[payee] EXCEPT !.balance = balance] ELSE data_base[l]
      BY <2>1, <2>2 DEF TypeOK
    <2>. QED BY <2>3, <2>4, <2>5, GuestIsLogin DEF RowsUnseated
  <1>4. CASE UNCHANGED data_base BY <1>4 DEF RowsUnseated
  <1>5. \/ UNCHANGED data_base
        \/ \E id \in Ids, login \in Logins : do_signup(id, login)
        \/ \E id \in Ids, login \in SettableLogins, permission \in Grants :
               do_set_permission(id, login, permission)
        \/ \E login \in Logins : pay(login)
    BY DEF Next, vars, connect_handle, disconnect_handle, disconnect_idle,
           disconnect_player, disconnect_croupier, disconnect_croupier_hangs,
           disconnect_throws, do_signout, do_sync, do_leave, leave_player,
           leave_croupier, leave_croupier_fails, do_signin, do_kick, do_join,
           do_create, do_bet, do_spin, spin_fails, clear_bets, restart
  <1>. QED BY <1>1, <1>2, <1>3, <1>4, <1>5

(* The rows of the database never hold the permission of a seat.           *)
LEMMA AccountsUnseated == Spec => []RowsUnseated
  BY UnseatedInit, UnseatedNext, Typing, PTL DEF Spec
-----------------------------------------------------------------------------
(* The permission a client believes it has.                                *)

(* leave_player tells each client the permission it gives back.            *)
LEMMA RestoredTold ==
    ASSUME TypeInv, ClientInSync, status = "up", NEW ids \in SUBSET Ids,
           \A i \in ids : users[i] # None,
           users' = Restored(ids), told' = Informed(ids)
    PROVE  \A i \in Ids : users'[i] # None =>
               told'[i] = users'[i].permission \/ GuestAccountSet(i)'
  <1>1. ASSUME NEW i \in ids PROVE told'[i] = users'[i].permission
    <2>1. users[i] \in User BY DEF TypeInv, TypeOK
    <2>. QED BY <2>1 DEF Restored, Informed, User
  <1>2. ASSUME NEW i \in Ids \ ids PROVE users'[i] = users[i] /\ told'[i] = told[i]
    BY DEF Restored, Informed
  <1>. QED BY <1>1, <1>2 DEF ClientInSync, GuestAccountSet

(* add_user and tell together change one connection, with one permission.  *)
LEMMA AddUserTold ==
    ASSUME TypeInv, ClientInSync, status = "up", NEW id \in Ids, NEW user \in User,
           add_user(id, user), tell(id, user.permission)
    PROVE  ClientInSync'
  BY DEF TypeInv, TypeOK, add_user, tell, ClientInSync, GuestAccountSet

(* The same for local_set_user_permission.                                 *)
LEMMA SetPermissionTold ==
    ASSUME TypeInv, ClientInSync, status = "up", NEW id \in Ids, users[id] # None,
           NEW permission \in SUBSET ALL,
           local_set_user_permission(id, permission), tell(id, permission)
    PROVE  ClientInSync'
  <1>1. users[id] \in User BY DEF TypeInv, TypeOK
  <1>2. /\ [users[id] EXCEPT !.permission = permission] \in User
        /\ [users[id] EXCEPT !.permission = permission].permission = permission
    BY <1>1 DEF User
  <1>. QED BY <1>2, AddUserTold DEF local_set_user_permission

(* A row as get_user reads it.                                             *)
LEMMA GetUserPermission ==
    ASSUME TypeInv, NEW login \in Logins, data_base[login] # None
    PROVE  get_user(login) \in User /\ get_user(login).login = login
           /\ get_user(login).permission = data_base[login].permission
  BY GetUserType DEF TypeInv, get_user

(* Every handler that changes a permission sends it.                       *)
LEMMA ToldNext ==
    TypeInv /\ RowsUnseated /\ ClientInSync /\ [Next]_vars => ClientInSync'
  <1>. SUFFICES ASSUME TypeInv, RowsUnseated, ClientInSync, [Next]_vars PROVE ClientInSync'
    OBVIOUS
  <1>0. /\ get_user(GuestLogin) \in User /\ get_user(GuestLogin).login = GuestLogin
        /\ get_user(GuestLogin).permission = GUEST \/ GuestLogin \in SettableLogins
    BY GetUserPermission, GuestIsLogin DEF TypeInv, Known, RowsUnseated, GuestUnset
  <1>1. ASSUME NEW id \in Ids, connect_handle(id) \/ do_signout(id) PROVE ClientInSync'
    <2>1. /\ status = "up" /\ status' = status
          /\ add_user(id, get_user(GuestLogin)) /\ tell(id, GUEST)
      BY <1>1 DEF connect_handle, do_signout, Serving, Executes
    <2>. QED BY <1>0, <2>1
         DEF TypeInv, TypeOK, add_user, tell, ClientInSync, GuestAccountSet
  <1>2. ASSUME NEW id \in Ids, NEW login \in Logins, do_signin(id, login) PROVE ClientInSync'
    <2>1. get_user(login) \in User /\ get_user(login).permission = data_base[login].permission
      BY <1>2, GetUserPermission DEF do_signin, MaySignin
    <2>. QED BY <1>2, <2>1, AddUserTold DEF do_signin, Serving, Executes
  <1>3. ASSUME NEW id \in Ids, NEW login \in SettableLogins, NEW permission \in Grants,
               do_set_permission(id, login, permission)
        PROVE  ClientInSync'
    <2>1. login \in Logins /\ permission \in SUBSET ALL
      BY ConstantsAssumption, PermissionsType
    <2>2. CASE login2id[login] # None /\ users[login2id[login]] # None
      <3>1. login2id[login] \in Ids BY <2>1, <2>2 DEF TypeInv, TypeOK
      <3>. QED BY <1>3, <2>1, <2>2, <3>1, SetPermissionTold
           DEF do_set_permission, Executes, Serving
    <2>3. CASE ~(login2id[login] # None /\ users[login2id[login]] # None)
      BY <1>3, <2>3 DEF do_set_permission, ClientInSync, GuestAccountSet
    <2>. QED BY <2>2, <2>3
  <1>4. ASSUME NEW id \in Ids, NEW name \in Tables, do_join(id, name) \/ do_create(id, name)
        PROVE  ClientInSync'
    BY <1>4, SetPermissionTold, PermissionsType DEF do_join, do_create, Executes, Serving
  <1>5. ASSUME NEW id \in Ids, leave_player(id) PROVE ClientInSync'
    <2>1. \A i \in {id} : users[i] # None BY <1>5 DEF leave_player, Executes
    <2>. QED BY <1>5, <2>1, RestoredTold
         DEF leave_player, leave_players, Executes, Serving, ClientInSync, GuestAccountSet
  <1>6. ASSUME NEW id \in Ids, leave_croupier(id) PROVE ClientInSync'
    <2>1. PICK leaving \in SUBSET Ids :
              /\ id \in leaving
              /\ \A i \in leaving : users[i] # None
              /\ sessions' = [Vacated(leaving) EXCEPT ![id2name[id]] = None]
              /\ users' = Restored(leaving)
              /\ \E last \in leaving : login2id' = Remapped(leaving, last)
              /\ told' = Informed(leaving)
      BY <1>6, CroupierLeaving DEF TypeInv
    <2>. QED BY <1>6, <2>1, RestoredTold DEF leave_croupier, Executes, Serving, ClientInSync, GuestAccountSet
  <1>7. ASSUME NEW id \in Ids, leave_croupier_fails(id) PROVE ClientInSync'
    <2>1. PICK done \in SUBSET {login \in Others(id) : CanUnseat(login)} :
              leave_players(IdsOf(done)) /\ told' = Informed(IdsOf(done))
      BY <1>7 DEF leave_croupier_fails
    <2>2. IdsOf(done) \in SUBSET Ids /\ \A i \in IdsOf(done) : users[i] # None
      BY <1>7, <2>1, OthersOnline DEF leave_croupier_fails, TypeInv
    <2>. QED BY <1>7, <2>1, <2>2, RestoredTold
         DEF leave_croupier_fails, leave_players, Executes, Serving, ClientInSync, GuestAccountSet
  <1>8. ASSUME NEW id \in Ids, NEW login \in Logins, do_kick(id, login) PROVE ClientInSync'
    <2>1. {login2id[login]} \in SUBSET Ids /\ \A i \in {login2id[login]} : users[i] # None
      BY <1>8 DEF do_kick, CanUnseat, CanLeave, TypeInv, TypeOK
    <2>. QED BY <1>8, <2>1, RestoredTold
         DEF do_kick, leave_players, Executes, Serving, ClientInSync, GuestAccountSet
  <1>9. ASSUME NEW login \in Logins, pay(login) PROVE ClientInSync'
    <2>1. /\ login2id[login] \in Ids /\ users[login2id[login]] \in User
          /\ told' = told /\ status' = status
      BY <1>9 DEF pay, Payable, TypeInv, TypeOK
    <2>2. PICK balance : users' = [users EXCEPT ![login2id[login]].balance = balance]
      BY <1>9 DEF pay
    <2>3. \A i \in Ids : users'[i] # None =>
              /\ users[i] # None /\ users'[i].permission = users[i].permission
              /\ users'[i].login = users[i].login
      BY <2>1, <2>2, NoneIsNothing DEF TypeInv, TypeOK, User
    <2>. QED BY <2>1, <2>3 DEF ClientInSync, GuestAccountSet
  <1>10. ASSUME NEW id \in Ids, disconnect_handle(id) PROVE ClientInSync'
    <2>1. CASE disconnect_idle(id) \/ disconnect_player(id) \/ disconnect_croupier(id)
      BY <2>1 DEF disconnect_idle, disconnect_player, disconnect_croupier, remove_user, tell,
                  Serving, TypeInv, TypeOK, ClientInSync, GuestAccountSet
    <2>2. CASE disconnect_croupier_hangs(id) \/ disconnect_throws(id)
      BY <2>2 DEF disconnect_croupier_hangs, disconnect_throws, ClientInSync, GuestAccountSet
    <2>. QED BY <1>10, <2>1, <2>2 DEF disconnect_handle
  <1>11. ASSUME restart PROVE ClientInSync' BY <1>11 DEF restart, Empty, ClientInSync, GuestAccountSet
  <1>12. ASSUME NEW id \in Ids, do_sync(id) PROVE ClientInSync'
    BY <1>12 DEF do_sync, tell, Executes, Serving, TypeInv, TypeOK, ClientInSync, GuestAccountSet
  <1>13. ASSUME \/ UNCHANGED vars
                \/ clear_bets
                \/ \E login \in Logins : spin_fails(login)
                \/ \E id \in Ids : \/ \E login \in Logins : do_signup(id, login)
                                   \/ \E bet \in Offers : do_bet(id, bet)
                                   \/ \E n \in Outcomes : do_spin(id, n)
         PROVE  ClientInSync'
    BY <1>13 DEF vars, clear_bets, spin_fails, do_signup, do_bet, do_spin, ClientInSync, GuestAccountSet
  <1>. QED BY <1>1, <1>2, <1>3, <1>4, <1>5, <1>6, <1>7, <1>8, <1>9, <1>10, <1>11, <1>12, <1>13
       DEF Next, do_leave

(* ClientInSync: whatever permissions the administrator's client lets him  *)
(* set, the client's own test of its commands is the server's, or he has   *)
(* set the guest account and the client takes itself for a plain guest.    *)
THEOREM ClientKnowsPermission == Spec => []ClientInSync
  <1>1. Init => ClientInSync BY DEF Init, Empty, ClientInSync
  <1>. QED BY <1>1, ToldNext, Typing, AccountsUnseated, PTL DEF Spec
-----------------------------------------------------------------------------
(* How the permission of a connection changes.                             *)

(* The masks of Seating are those of the server.                           *)
LEMMA SeatingMasks ==
    ASSUME NEW id \in Ids
    PROVE  /\ SeatingOf(id)!Unseated = {p \in SUBSET ALL : ~Allowed(p, PLAY)}
           /\ SeatingOf(id)!Join <=>
                  Allowed(permission_of(id), WAIT) /\ permission_of(id)' = PLAYER
           /\ SeatingOf(id)!Create <=>
                  Allowed(permission_of(id), STAFF) /\ permission_of(id)' = CROUPIER
  <1>1. SeatingOf(id)!ALL = ALL /\ SeatingOf(id)!PLAY = PLAY /\ SeatingOf(id)!WAIT = WAIT
        /\ SeatingOf(id)!STAFF = STAFF
    BY DEF SeatingOf!ALL, SeatingOf!NONE, SeatingOf!GUEST, SeatingOf!AUTH, SeatingOf!WAIT,
           SeatingOf!USER, SeatingOf!STAFF, SeatingOf!ADMIN, SeatingOf!PLAY, SeatingOf!PLAYER,
           SeatingOf!CROUPIER, ALL, NONE, GUEST, AUTH, WAIT, USER, STAFF, ADMIN, PLAY,
           PLAYER, CROUPIER
  <1>. QED BY <1>1 DEF SeatingOf!Unseated, SeatingOf!Join, SeatingOf!Create,
       SeatingOf!Allowed, SeatingOf!PLAYER, SeatingOf!CROUPIER, Allowed, PLAYER, CROUPIER

(* The steps of Seating, by the permission before and after.               *)
Seats(id) == SeatingOf(id)!Next \/ UNCHANGED permission_of(id)

LEMMA SeatingSteps ==
    ASSUME NEW id \in Ids,
           \/ permission_of(id)' = permission_of(id)
           \/ permission_of(id)' \in SUBSET ALL /\ ~Allowed(permission_of(id)', PLAY)
           \/ Allowed(permission_of(id), WAIT) /\ permission_of(id)' = PLAYER
           \/ Allowed(permission_of(id), STAFF) /\ permission_of(id)' = CROUPIER
    PROVE  Seats(id)
  BY SeatingMasks DEF Seats, SeatingOf!Next, SeatingOf!Become

(* A row of the database has no seat to give.                              *)
LEMMA RowGrants ==
    ASSUME TypeInv, RowsUnseated, NEW login \in Logins, data_base[login] # None
    PROVE  /\ data_base[login].permission \in SUBSET ALL
           /\ ~Allowed(data_base[login].permission, PLAY)
  BY DEF TypeInv, TypeOK, Account, RowsUnseated

(* add_user gives one connection another permission.                       *)
LEMMA SeatingAdd ==
    ASSUME TypeInv, NEW id \in Ids, NEW user \in User, add_user(id, user),
           \/ ~Allowed(user.permission, PLAY)
           \/ Executes(id, WAIT) /\ user.permission = PLAYER
           \/ Executes(id, STAFF) /\ user.permission = CROUPIER
    PROVE  \A i \in Ids : Seats(i)
  <1>. SUFFICES ASSUME NEW i \in Ids PROVE Seats(i) OBVIOUS
  <1>1. users' = [users EXCEPT ![id] = user] /\ user # None /\ user.permission \in SUBSET ALL
    BY NoneIsNothing DEF add_user, User
  <1>2. CASE i # id
    <2>1. permission_of(i)' = permission_of(i) BY <1>1, <1>2 DEF permission_of, TypeInv, TypeOK
    <2>. QED BY <2>1, SeatingSteps
  <1>3. CASE i = id
    <2>1. permission_of(i)' = user.permission BY <1>1, <1>3 DEF permission_of, TypeInv, TypeOK
    <2>2. Executes(id, WAIT) => Allowed(permission_of(i), WAIT)
      BY <1>3 DEF permission_of, Executes
    <2>3. Executes(id, STAFF) => Allowed(permission_of(i), STAFF)
      BY <1>3 DEF permission_of, Executes
    <2>. QED BY <1>1, <2>1, <2>2, <2>3, SeatingSteps
  <1>. QED BY <1>2, <1>3

(* The same for local_set_user_permission.                                 *)
LEMMA SeatingSet ==
    ASSUME TypeInv, NEW id \in Ids, users[id] # None, NEW permission \in SUBSET ALL,
           local_set_user_permission(id, permission),
           \/ ~Allowed(permission, PLAY)
           \/ Executes(id, WAIT) /\ permission = PLAYER
           \/ Executes(id, STAFF) /\ permission = CROUPIER
    PROVE  \A i \in Ids : Seats(i)
  <1>1. users[id] \in User BY DEF TypeInv, TypeOK
  <1>2. /\ [users[id] EXCEPT !.permission = permission] \in User
        /\ [users[id] EXCEPT !.permission = permission].permission = permission
    BY <1>1 DEF User
  <1>. QED BY <1>2, SeatingAdd DEF local_set_user_permission

(* Those who leave a table get the permission of their rows.               *)
LEMMA SeatingRestored ==
    ASSUME TypeInv, RowsUnseated, NEW ids \in SUBSET Ids, \A i \in ids : users[i] # None,
           users' = Restored(ids)
    PROVE  \A i \in Ids : Seats(i)
  <1>. SUFFICES ASSUME NEW i \in Ids PROVE Seats(i) OBVIOUS
  <1>1. CASE i \in ids
    <2>1. users[i] \in User /\ users[i].login \in Logins /\ data_base[users[i].login] # None
      BY <1>1 DEF TypeInv, TypeOK, User, Known
    <2>2. users'[i] = [users[i] EXCEPT !.permission = data_base[users[i].login].permission]
      BY <1>1 DEF Restored
    <2>3. /\ users'[i] \in User
          /\ users'[i].permission = data_base[users[i].login].permission
      BY <2>1, <2>2, RowGrants DEF User
    <2>4. permission_of(i)' = data_base[users[i].login].permission
      BY <2>3, NoneIsNothing DEF permission_of
    <2>. QED BY <2>1, <2>4, RowGrants, SeatingSteps
  <1>2. CASE i \notin ids
    <2>1. permission_of(i)' = permission_of(i) BY <1>2 DEF permission_of, Restored
    <2>. QED BY <2>1, SeatingSteps
  <1>. QED BY <1>1, <1>2

(* Whoever disconnects has no permission at all.                           *)
LEMMA SeatingRemoved ==
    ASSUME TypeInv, NEW ids \in SUBSET Ids,
           \A i \in Ids : users'[i] = IF i \in ids THEN None ELSE users[i]
    PROVE  \A i \in Ids : Seats(i)
  <1>. SUFFICES ASSUME NEW i \in Ids PROVE Seats(i) OBVIOUS
  <1>1. permission_of(i)' = NONE \/ permission_of(i)' = permission_of(i)
    BY DEF permission_of
  <1>2. NONE \in SUBSET ALL /\ ~Allowed(NONE, PLAY) BY DEF NONE, Allowed
  <1>. QED BY <1>1, <1>2, SeatingSteps

(* Nothing happens to a connection whose entry stays.                      *)
LEMMA SeatingStill ==
    ASSUME users' = users
    PROVE  \A i \in Ids : Seats(i)
  <1>1. \A i \in Ids : permission_of(i)' = permission_of(i) BY DEF permission_of
  <1>. QED BY <1>1, SeatingSteps

(* Every handler changes permissions as Seating does.                      *)
LEMMA SeatingNext ==
    TypeInv /\ RowsUnseated /\ [Next]_vars => \A id \in Ids : Seats(id)
  <1>. DEFINE Goal == \A i \in Ids : Seats(i)
  <1>. SUFFICES ASSUME TypeInv, RowsUnseated, [Next]_vars PROVE Goal OBVIOUS
  <1>. HIDE DEF Goal
  <1>1. ASSUME NEW id \in Ids, connect_handle(id) \/ do_signout(id) PROVE Goal
    <2>1. /\ get_user(GuestLogin) \in User
          /\ ~Allowed(get_user(GuestLogin).permission, PLAY)
      BY GetUserPermission, GuestIsLogin, RowGrants DEF TypeInv, Known
    <2>. QED BY <1>1, <2>1, SeatingAdd DEF connect_handle, do_signout, Goal
  <1>2. ASSUME NEW id \in Ids, NEW login \in Logins, do_signin(id, login) PROVE Goal
    <2>1. get_user(login) \in User /\ ~Allowed(get_user(login).permission, PLAY)
      BY <1>2, GetUserPermission, RowGrants DEF do_signin, MaySignin
    <2>. QED BY <1>2, <2>1, SeatingAdd DEF do_signin, Goal
  <1>3. ASSUME NEW id \in Ids, NEW login \in SettableLogins, NEW permission \in Grants,
               do_set_permission(id, login, permission)
        PROVE  Goal
    <2>1. /\ login \in Logins /\ permission \in SUBSET ALL
          /\ ~Allowed(permission, PLAY)
      BY ConstantsAssumption, PermissionsType, UnseatedMasks
    <2>2. CASE login2id[login] # None /\ users[login2id[login]] # None
      <3>1. login2id[login] \in Ids BY <2>1, <2>2 DEF TypeInv, TypeOK
      <3>. QED BY <1>3, <2>1, <2>2, <3>1, SeatingSet DEF do_set_permission, Goal
    <2>3. CASE ~(login2id[login] # None /\ users[login2id[login]] # None)
      BY <1>3, <2>3, SeatingStill DEF do_set_permission, Goal
    <2>. QED BY <2>2, <2>3
  <1>4. ASSUME NEW id \in Ids, NEW name \in Tables, do_join(id, name) \/ do_create(id, name)
        PROVE  Goal
    BY <1>4, SeatingSet, PermissionsType DEF do_join, do_create, Executes, Goal
  <1>5. ASSUME NEW id \in Ids, leave_player(id) PROVE Goal
    <2>1. \A i \in {id} : users[i] # None BY <1>5 DEF leave_player, Executes
    <2>. QED BY <1>5, <2>1, SeatingRestored DEF leave_player, leave_players, Goal
  <1>6. ASSUME NEW id \in Ids, leave_croupier(id) PROVE Goal
    <2>1. PICK leaving \in SUBSET Ids :
              /\ id \in leaving
              /\ \A i \in leaving : users[i] # None
              /\ sessions' = [Vacated(leaving) EXCEPT ![id2name[id]] = None]
              /\ users' = Restored(leaving)
              /\ \E last \in leaving : login2id' = Remapped(leaving, last)
              /\ told' = Informed(leaving)
      BY <1>6, CroupierLeaving DEF TypeInv
    <2>. QED BY <2>1, SeatingRestored DEF Goal
  <1>7. ASSUME NEW id \in Ids, leave_croupier_fails(id) PROVE Goal
    <2>1. PICK done \in SUBSET {login \in Others(id) : CanUnseat(login)} :
              leave_players(IdsOf(done))
      BY <1>7 DEF leave_croupier_fails
    <2>2. IdsOf(done) \in SUBSET Ids /\ \A i \in IdsOf(done) : users[i] # None
      BY <1>7, <2>1, OthersOnline DEF leave_croupier_fails, TypeInv
    <2>. QED BY <2>1, <2>2, SeatingRestored DEF leave_players, Goal
  <1>8. ASSUME NEW login \in Logins, CanUnseat(login), leave_players({login2id[login]})
        PROVE  Goal
    <2>1. {login2id[login]} \in SUBSET Ids /\ \A i \in {login2id[login]} : users[i] # None
      BY <1>8 DEF CanUnseat, CanLeave, TypeInv, TypeOK
    <2>. QED BY <1>8, <2>1, SeatingRestored DEF leave_players, Goal
  <1>9. ASSUME NEW login \in Logins, pay(login) PROVE Goal
    <2>1. login2id[login] \in Ids /\ users[login2id[login]] \in User
      BY <1>9, PayEffect
    <2>2. PICK balance \in Int : users' = [users EXCEPT ![login2id[login]].balance = balance]
      BY <1>9, PayEffect
    <2>3. ASSUME NEW i \in Ids PROVE permission_of(i)' = permission_of(i)
      <3>1. CASE i # login2id[login] BY <2>1, <2>2, <3>1 DEF permission_of, TypeInv, TypeOK
      <3>2. CASE i = login2id[login]
        <4>1. users'[i] = [users[i] EXCEPT !.balance = balance]
          BY <2>1, <2>2, <3>2 DEF TypeInv, TypeOK
        <4>2. users'[i] \in User /\ users'[i].permission = users[i].permission
          BY <2>1, <3>2, <4>1 DEF User
        <4>. QED BY <2>1, <3>2, <4>2, NoneIsNothing DEF permission_of
      <3>. QED BY <3>1, <3>2
    <2>. QED BY <2>3, SeatingSteps DEF Goal
  <1>10. ASSUME NEW id \in Ids, disconnect_handle(id) PROVE Goal
    <2>1. CASE disconnect_idle(id) \/ disconnect_player(id) \/ disconnect_croupier(id)
      <3>1. users' = [users EXCEPT ![id] = None]
        BY <2>1 DEF disconnect_idle, disconnect_player, disconnect_croupier, remove_user
      <3>2. \A i \in Ids : users'[i] = IF i \in {id} THEN None ELSE users[i]
        BY <3>1 DEF TypeInv, TypeOK
      <3>. QED BY <3>2, SeatingRemoved DEF Goal
    <2>2. CASE disconnect_croupier_hangs(id)
      BY <1>8, <2>2 DEF disconnect_croupier_hangs, Others, has_session, get_session,
                       TypeInv, TypeOK, Session
    <2>3. CASE disconnect_throws(id)
      BY <2>3, SeatingStill DEF disconnect_throws, Goal
    <2>. QED BY <1>10, <2>1, <2>2, <2>3 DEF disconnect_handle
  <1>11. ASSUME restart PROVE Goal
    <2>1. \A i \in Ids : users'[i] = IF i \in Ids THEN None ELSE users[i]
      BY <1>11 DEF restart, Empty
    <2>. QED BY <2>1, SeatingRemoved DEF Goal
  <1>12. ASSUME users' = users PROVE Goal BY <1>12, SeatingStill DEF Goal
  <1>13. ASSUME \/ UNCHANGED vars
                \/ clear_bets
                \/ \E login \in Logins : spin_fails(login)
                \/ \E id \in Ids : \/ \E login \in Logins : do_signup(id, login)
                                   \/ \E bet \in Offers : do_bet(id, bet)
                                   \/ \E n \in Outcomes : do_spin(id, n)
                                   \/ do_sync(id)
         PROVE  users' = users
    BY <1>13 DEF vars, clear_bets, spin_fails, do_signup, do_bet, do_spin, do_sync
  <1>14. ASSUME NEW id \in Ids, NEW login \in Logins, do_kick(id, login) PROVE Goal
    BY <1>8, <1>14 DEF do_kick
  <1>. QED BY <1>1, <1>2, <1>3, <1>4, <1>5, <1>6, <1>7, <1>9, <1>10, <1>11, <1>12, <1>13, <1>14
       DEF Next, do_leave

(* SeatingKept: whatever his client lets the administrator set, and to     *)
(* whomever, a permission with a seat is taken by joining or creating and  *)
(* by nothing else.                                                        *)
THEOREM SeatsAreTaken == Spec => SeatingKept
  <1>1. TypeInv /\ RowsUnseated /\ [Next]_vars =>
            [\A id \in Ids : SeatingOf(id)!Next \/ UNCHANGED permission_of(id)]_vars
    BY SeatingNext DEF Seats
  <1>. QED BY <1>1, Typing, AccountsUnseated, PTL DEF Spec, SeatingKept
-----------------------------------------------------------------------------
(* The table of a croupier.                                                *)

AsCroupier(id) == users[id] # None /\ IsCroupier(id)
Keeps(id) ==
    /\ has_session(id)
    /\ get_session(id).croupier = users[id].login
    /\ users[id].login \in get_session(id).users

\* No two croupiers at one table: when one of them leaves and closes it, the
\* table of no other is closed.  Logins do not tell them apart, for two guests
\* to whom a careless administrator has given STAFF may both open tables.
OwnTables == \A i, j \in Ids :
    AsCroupier(i) /\ AsCroupier(j) /\ i # j => id2name[i] # id2name[j]

SeatInv == status = "up" => OwnTables /\ \A id \in Ids : AsCroupier(id) => Keeps(id)

(* Those who leave are no croupiers of a table that stays open.            *)
LEMMA SeatKept ==
    ASSUME TypeInv, NEW ids \in SUBSET Ids, NEW i \in Ids, AsCroupier(i), Keeps(i),
           \A k \in ids : id2name[k] = id2name[i] => CanLeave(k)
    PROVE  LET session == Vacated(ids)[id2name[i]]
           IN  /\ id2name[i] \in Tables /\ session # None
               /\ session.croupier = users[i].login
               /\ users[i].login \in session.users
  <1>1. id2name[i] \in Tables /\ sessions[id2name[i]] # None
    BY DEF Keeps, has_session, TypeInv, TypeOK
  <1>2. users[i].login \notin Gone(ids, id2name[i])
    BY DEF Keeps, Gone, CanLeave, get_session
  <1>3. Vacated(ids)[id2name[i]] # None BY <1>1, VacatedType DEF TypeInv
  <1>4. /\ Vacated(ids)[id2name[i]].croupier = sessions[id2name[i]].croupier
        /\ Vacated(ids)[id2name[i]].users =
               sessions[id2name[i]].users \ Gone(ids, id2name[i])
    BY <1>1 DEF Vacated
  <1>. QED BY <1>1, <1>2, <1>3, <1>4 DEF Keeps, get_session

(* Whoever leaves gets a permission without a seat back.                   *)
LEMMA RestoredUnseated ==
    ASSUME TypeInv, RowsUnseated, NEW ids \in SUBSET Ids, \A i \in ids : users[i] # None,
           users' = Restored(ids), NEW i \in Ids, AsCroupier(i)'
    PROVE  i \notin ids /\ users'[i] = users[i] /\ AsCroupier(i)
  <1>1. ASSUME i \in ids PROVE FALSE
    <2>1. users[i] \in User /\ users[i].login \in Logins
      BY <1>1 DEF TypeInv, TypeOK, User
    <2>2. users'[i].permission = data_base[users[i].login].permission
      BY <1>1, <2>1 DEF Restored, User
    <2>3. ~Allowed(data_base[users[i].login].permission, CROUPIER)
      BY <1>1, <2>1, UnseatedMasks DEF RowsUnseated, TypeInv, Known
    <2>. QED BY <2>2, <2>3 DEF AsCroupier, IsCroupier
  <1>. QED BY <1>1 DEF Restored, AsCroupier, IsCroupier

(* Players leave; no table is closed.                                      *)
LEMMA PlayersLeave ==
    ASSUME TypeInv, RowsUnseated, SeatInv, status = "up", NEW ids \in SUBSET Ids,
           \A i \in ids : users[i] # None /\ CanLeave(i),
           leave_players(ids), id2name' = id2name
    PROVE  SeatInv'
  <1>1. sessions' = Vacated(ids) /\ users' = Restored(ids) BY DEF leave_players
  <1>2. ASSUME NEW i \in Ids, AsCroupier(i)' PROVE AsCroupier(i) /\ Keeps(i)'
    <2>1. users'[i] = users[i] /\ AsCroupier(i) /\ Keeps(i)
      BY <1>1, <1>2, RestoredUnseated DEF SeatInv
    <2>. QED BY <1>1, <2>1, SeatKept, NoneAssumption DEF Keeps, has_session, get_session
  <1>. QED BY <1>2 DEF SeatInv, OwnTables

(* The users of some connections get permissions that are not a croupier's,*)
(* or none, and no table changes but by new users.                         *)
LEMMA NoNewCroupier ==
    ASSUME TypeInv, SeatInv, status = "up",
           \A i \in Ids : AsCroupier(i)' =>
               /\ AsCroupier(i) /\ users'[i].login = users[i].login
               /\ id2name'[i] = id2name[i],
           \A name \in Tables : sessions[name] # None =>
               /\ sessions'[name] # None
               /\ sessions'[name].croupier = sessions[name].croupier
               /\ sessions[name].users \subseteq sessions'[name].users
    PROVE  SeatInv'
  <1>1. ASSUME NEW i \in Ids, AsCroupier(i)' PROVE Keeps(i)'
    <2>1. Keeps(i) /\ id2name'[i] = id2name[i] /\ users'[i].login = users[i].login
      BY <1>1 DEF SeatInv
    <2>2. id2name[i] \in Tables /\ sessions[id2name[i]] # None
      BY <2>1 DEF Keeps, has_session, TypeInv, TypeOK
    <2>. QED BY <2>1, <2>2, NoneAssumption DEF Keeps, has_session, get_session
  <1>. QED BY <1>1 DEF SeatInv, OwnTables

(* local_set_user_permission with a permission that is not a croupier's.   *)
LEMMA SetPermissionSeat ==
    ASSUME TypeInv, SeatInv, status = "up", NEW id \in Ids, users[id] # None,
           NEW permission \in SUBSET ALL, ~Allowed(permission, CROUPIER),
           local_set_user_permission(id, permission)
    PROVE  \A i \in Ids : AsCroupier(i)' =>
               i # id /\ AsCroupier(i) /\ users'[i].login = users[i].login
  <1>1. users[id] \in User BY DEF TypeInv, TypeOK
  <1>2. [users[id] EXCEPT !.permission = permission].permission = permission
    BY <1>1 DEF User
  <1>. QED BY <1>2 DEF local_set_user_permission, add_user, AsCroupier, IsCroupier, TypeInv, TypeOK

(* A connection that gets the user of a row is no croupier.                *)
LEMMA AddUserSeat ==
    ASSUME TypeInv, RowsUnseated, NEW id \in Ids, NEW login \in Logins,
           data_base[login] # None, add_user(id, get_user(login))
    PROVE  \A i \in Ids : AsCroupier(i)' =>
               AsCroupier(i) /\ users'[i].login = users[i].login
  <1>1. get_user(login).permission = data_base[login].permission
        /\ ~Allowed(data_base[login].permission, CROUPIER)
    BY GetUserPermission, UnseatedMasks DEF RowsUnseated
  <1>. QED BY <1>1 DEF add_user, AsCroupier, IsCroupier, TypeInv, TypeOK

(* A new table, and its croupier at it.                                    *)
LEMMA CreateSeat ==
    ASSUME TypeInv, SeatInv, NEW id \in Ids, NEW name \in Tables, do_create(id, name)
    PROVE  SeatInv'
  <1>1. status = "up" /\ users[id] \in User /\ sessions[name] = None
    BY DEF do_create, IsFree, Executes, Serving, TypeInv, TypeOK
  <1>2. NewTable(name, users[id].login) \in Session /\ users[id].login \in Logins
    BY <1>1 DEF NewTable, NoBets, Session, User
  <1>3. /\ sessions'[name] = NewTable(name, users[id].login)
        /\ \A other \in Tables \ {name} : sessions'[other] = sessions[other]
        /\ id2name'[id] = name
        /\ \A i \in Ids \ {id} : id2name'[i] = id2name[i] /\ users'[i] = users[i]
        /\ users'[id].login = users[id].login
    BY <1>1 DEF do_create, Seat, local_set_user_permission, add_user, TypeInv, TypeOK, User
  <1>4. Keeps(id)'
    BY <1>2, <1>3, NoneIsNothing, NoneAssumption
       DEF Keeps, has_session, get_session, NewTable
  <1>5. ASSUME NEW i \in Ids \ {id}, AsCroupier(i)'
        PROVE  AsCroupier(i) /\ Keeps(i)' /\ id2name'[i] # name /\ id2name'[i] = id2name[i]
    <2>1. AsCroupier(i) /\ Keeps(i) BY <1>1, <1>3, <1>5 DEF SeatInv, AsCroupier, IsCroupier
    <2>2. id2name[i] \in Tables \ {name}
      BY <1>1, <2>1 DEF Keeps, has_session, TypeInv, TypeOK
    <2>. QED BY <1>3, <2>1, <2>2 DEF Keeps, has_session, get_session
  <1>. QED BY <1>1, <1>3, <1>4, <1>5 DEF SeatInv, OwnTables

(* A croupier and the players leave, and the croupier's table is closed.   *)
LEMMA CroupierLeaves ==
    ASSUME TypeInv, RowsUnseated, SeatInv, NEW id \in Ids, leave_croupier(id)
    PROVE  SeatInv'
  <1>1. /\ status = "up" /\ AsCroupier(id) /\ id2name[id] \in Tables /\ id2name' = id2name
    BY DEF leave_croupier, Executes, Serving, AsCroupier, IsCroupier, has_session, TypeInv, TypeOK
  <1>2. PICK leaving \in SUBSET Ids :
            /\ id \in leaving
            /\ \A i \in leaving : users[i] # None
            /\ \A i \in leaving \ {id} : CanLeave(i)
            /\ sessions' = [Vacated(leaving) EXCEPT ![id2name[id]] = None]
            /\ users' = Restored(leaving)
    BY CroupierLeaving DEF TypeInv
  <1>4. Vacated(leaving) \in [Tables -> Session \cup {None}]
    BY <1>2, VacatedType DEF TypeInv
  <1>5. ASSUME NEW i \in Ids, AsCroupier(i)' PROVE AsCroupier(i) /\ Keeps(i)'
    <2>1. i # id /\ users'[i] = users[i] /\ AsCroupier(i) /\ Keeps(i)
      BY <1>1, <1>2, <1>5, RestoredUnseated DEF SeatInv
    <2>2. id2name[i] # id2name[id] BY <1>1, <2>1 DEF SeatInv, OwnTables
    <2>3. \A k \in leaving : id2name[k] = id2name[i] => CanLeave(k) BY <1>2, <2>2
    <2>4. LET session == Vacated(leaving)[id2name[i]]
          IN  /\ id2name[i] \in Tables /\ session # None
              /\ session.croupier = users[i].login
              /\ users[i].login \in session.users
      BY <1>2, <2>1, <2>3, SeatKept
    <2>. QED BY <1>1, <1>2, <1>4, <2>1, <2>2, <2>4, NoneAssumption
         DEF Keeps, has_session, get_session
  <1>. QED BY <1>1, <1>5 DEF SeatInv, OwnTables

(* Every action, one by one.                                               *)
LEMMA SeatNext == TypeInv /\ RowsUnseated /\ SeatInv /\ [Next]_vars => SeatInv'
  <1>. SUFFICES ASSUME TypeInv, RowsUnseated, SeatInv, [Next]_vars PROVE SeatInv' OBVIOUS
  <1>0. data_base[GuestLogin] # None /\ GuestLogin \in Logins
    BY GuestIsLogin DEF TypeInv, Known
  <1>1. ASSUME NEW id \in Ids, connect_handle(id) \/ do_signout(id) PROVE SeatInv'
    <2>1. /\ add_user(id, get_user(GuestLogin)) /\ status = "up"
          /\ UNCHANGED <<sessions, id2name>>
      BY <1>1 DEF connect_handle, do_signout, Executes, Serving
    <2>. QED BY <1>0, <2>1, AddUserSeat, NoNewCroupier
  <1>2. ASSUME NEW id \in Ids, NEW login \in Logins, do_signin(id, login) PROVE SeatInv'
    <2>1. /\ add_user(id, get_user(login)) /\ status = "up" /\ data_base[login] # None
          /\ UNCHANGED <<sessions, id2name>>
      BY <1>2 DEF do_signin, MaySignin, Executes, Serving
    <2>. QED BY <2>1, AddUserSeat, NoNewCroupier
  <1>3. ASSUME NEW id \in Ids, NEW login \in SettableLogins, NEW permission \in Grants,
               do_set_permission(id, login, permission)
        PROVE  SeatInv'
    <2>1. login \in Logins /\ permission \in SUBSET ALL /\ ~Allowed(permission, CROUPIER)
      BY ConstantsAssumption, PermissionsType, UnseatedMasks
    <2>2. status = "up" /\ UNCHANGED <<sessions, id2name>>
      BY <1>3 DEF do_set_permission, Executes, Serving
    <2>3. CASE login2id[login] # None /\ users[login2id[login]] # None
      <3>1. login2id[login] \in Ids BY <2>1, <2>3 DEF TypeInv, TypeOK
      <3>2. local_set_user_permission(login2id[login], permission)
        BY <1>3, <2>3 DEF do_set_permission
      <3>. QED BY <2>1, <2>2, <2>3, <3>1, <3>2, SetPermissionSeat, NoNewCroupier
    <2>4. CASE ~(login2id[login] # None /\ users[login2id[login]] # None)
      <3>1. users' = users BY <1>3, <2>4 DEF do_set_permission
      <3>. QED BY <2>2, <3>1, NoNewCroupier DEF AsCroupier, IsCroupier
    <2>. QED BY <2>3, <2>4
  <1>4. ASSUME NEW id \in Ids, NEW name \in Tables, do_join(id, name) PROVE SeatInv'
    <2>1. \A i \in Ids : AsCroupier(i)' =>
              i # id /\ AsCroupier(i) /\ users'[i].login = users[i].login
      BY <1>4, SetPermissionSeat, PermissionsType, UnseatedMasks
         DEF do_join, Executes, Serving
    <2>2. \A i \in Ids \ {id} : id2name'[i] = id2name[i]
      BY <1>4 DEF do_join, Seat, TypeInv, TypeOK
    <2>3. sessions[name] \in Session BY <1>4 DEF do_join, TypeInv, TypeOK
    <2>4. /\ sessions' = [sessions EXCEPT ![name].users = @ \cup {users[id].login}]
          /\ users[id].login \in Logins /\ status = "up"
      BY <1>4 DEF do_join, Executes, Serving, TypeInv, TypeOK, User
    <2>5. [sessions[name] EXCEPT !.users = @ \cup {users[id].login}] \in Session
      BY <2>3, <2>4 DEF Session
    <2>6. \A other \in Tables : sessions[other] # None =>
              /\ sessions'[other] # None
              /\ sessions'[other].croupier = sessions[other].croupier
              /\ sessions[other].users \subseteq sessions'[other].users
      BY <2>3, <2>4, <2>5, NoneIsNothing DEF TypeInv, TypeOK, Session
    <2>. QED BY <2>1, <2>2, <2>4, <2>6, NoNewCroupier
  <1>5. ASSUME NEW id \in Ids, NEW name \in Tables, do_create(id, name) PROVE SeatInv'
    BY <1>5, CreateSeat
  <1>6. ASSUME NEW id \in Ids, leave_player(id) PROVE SeatInv'
    BY <1>6, PlayersLeave DEF leave_player, Executes, Serving, CanLeave
  <1>7. ASSUME NEW id \in Ids, leave_croupier(id) PROVE SeatInv' BY <1>7, CroupierLeaves
  <1>8. ASSUME NEW id \in Ids, leave_croupier_fails(id) PROVE SeatInv'
    <2>1. PICK done \in SUBSET {login \in Others(id) : CanUnseat(login)} :
              leave_players(IdsOf(done))
      BY <1>8 DEF leave_croupier_fails
    <2>2. IdsOf(done) \in SUBSET Ids /\ \A i \in IdsOf(done) : users[i] # None /\ CanLeave(i)
      BY <1>8, <2>1, OthersOnline DEF leave_croupier_fails, TypeInv
    <2>. QED BY <1>8, <2>1, <2>2, PlayersLeave DEF leave_croupier_fails, Executes, Serving
  <1>9. ASSUME NEW id \in Ids, NEW login \in Logins, do_kick(id, login) PROVE SeatInv'
    <2>1. /\ {login2id[login]} \in SUBSET Ids
          /\ \A i \in {login2id[login]} : users[i] # None /\ CanLeave(i)
      BY <1>9 DEF do_kick, CanUnseat, CanLeave, TypeInv, TypeOK
    <2>. QED BY <1>9, <2>1, PlayersLeave DEF do_kick, Executes, Serving
  <1>10. ASSUME NEW id \in Ids, disconnect_handle(id) PROVE SeatInv'
    <2>1. ASSUME remove_user(id, login2id)
          PROVE  \A i \in Ids : AsCroupier(i)' =>
                     i # id /\ AsCroupier(i) /\ users'[i] = users[i]
      BY <2>1 DEF remove_user, AsCroupier, IsCroupier, TypeInv, TypeOK
    <2>2. CASE disconnect_idle(id)
      BY <2>1, <2>2, NoNewCroupier DEF disconnect_idle, Serving
    <2>3. CASE disconnect_player(id)
      <3>1. ASSUME NEW i \in Ids, AsCroupier(i)' PROVE AsCroupier(i) /\ Keeps(i)'
        <4>1. users'[i] = users[i] /\ AsCroupier(i) /\ Keeps(i)
          BY <2>1, <2>3, <3>1 DEF disconnect_player, Serving, SeatInv
        <4>. QED BY <2>3, <4>1, SeatKept, NoneAssumption
             DEF disconnect_player, Keeps, has_session, get_session
      <3>. QED BY <2>3, <3>1 DEF disconnect_player, Serving, SeatInv, OwnTables
    <2>4. CASE disconnect_croupier(id)
      <3>1. AsCroupier(id) /\ status = "up" /\ id2name[id] \in Tables
            /\ sessions' = [sessions EXCEPT ![id2name[id]] = None] /\ id2name' = id2name
        BY <2>4 DEF disconnect_croupier, Serving, AsCroupier, has_session, TypeInv, TypeOK
      <3>2. ASSUME NEW i \in Ids, AsCroupier(i)' PROVE AsCroupier(i) /\ Keeps(i)'
        <4>1. i # id /\ users'[i] = users[i] /\ AsCroupier(i) /\ Keeps(i)
          BY <2>1, <2>4, <3>1, <3>2 DEF disconnect_croupier, SeatInv
        <4>2. id2name[i] # id2name[id] BY <3>1, <4>1 DEF SeatInv, OwnTables
        <4>. QED BY <3>1, <4>1, <4>2, NoneAssumption
             DEF Keeps, has_session, get_session, TypeInv, TypeOK
      <3>. QED BY <3>1, <3>2 DEF SeatInv, OwnTables
    <2>5. CASE disconnect_croupier_hangs(id) \/ disconnect_throws(id)
      BY <2>5 DEF disconnect_croupier_hangs, disconnect_throws, SeatInv
    <2>. QED BY <1>10, <2>2, <2>3, <2>4, <2>5 DEF disconnect_handle
  <1>11. ASSUME restart PROVE SeatInv'
    BY <1>11 DEF restart, Empty, SeatInv, OwnTables, AsCroupier
  <1>12. ASSUME NEW login \in Logins, pay(login) PROVE SeatInv'
    <2>1. /\ login2id[login] \in Ids /\ users[login2id[login]] \in User
          /\ UNCHANGED <<sessions, id2name>> /\ status = "up"
      BY <1>12 DEF pay, Payable, Spinning, TypeInv, TypeOK
    <2>2. PICK balance : users' = [users EXCEPT ![login2id[login]].balance = balance]
      BY <1>12 DEF pay
    <2>3. \A i \in Ids : users'[i] # None =>
              /\ users[i] # None /\ users'[i].permission = users[i].permission
              /\ users'[i].login = users[i].login
      BY <2>1, <2>2, NoneIsNothing DEF TypeInv, TypeOK, User
    <2>. QED BY <2>1, <2>3, NoNewCroupier DEF AsCroupier, IsCroupier
  <1>13. ASSUME NEW id \in Ids, NEW bet \in Offers, do_bet(id, bet) PROVE SeatInv'
    <2>. DEFINE session == sessions[id2name[id]]
                login   == users[id].login
                bets    == [session.bets EXCEPT ![login] = push_back(session.bets[login], bet)]
    <2>1. /\ UNCHANGED <<users, id2name>> /\ status = "up"
          /\ id2name[id] \in Tables /\ session \in Session /\ login \in Logins /\ bet \in Bet
      BY <1>13, ConstantsAssumption
         DEF do_bet, Executes, Serving, has_session, TypeInv, TypeOK, User
    <2>2. bets \in [Logins -> Seq(Bet)] BY <2>1 DEF push_back, Session
    <2>3. sessions' = [sessions EXCEPT ![id2name[id]] = [session EXCEPT !.bets = bets]]
      BY <1>13, <2>1 DEF do_bet, get_session, TypeInv, TypeOK
    <2>. HIDE DEF bets
    <2>4. [session EXCEPT !.bets = bets] \in Session BY <2>1, <2>2 DEF Session
    <2>5. \A name \in Tables : sessions[name] # None =>
              /\ sessions'[name] # None
              /\ sessions'[name].croupier = sessions[name].croupier
              /\ sessions[name].users \subseteq sessions'[name].users
      BY <2>1, <2>3, <2>4, NoneIsNothing DEF TypeInv, TypeOK, Session
    <2>. QED BY <2>1, <2>5, NoNewCroupier DEF AsCroupier, IsCroupier
  <1>14. ASSUME clear_bets PROVE SeatInv'
    <2>1. UNCHANGED <<users, id2name>> /\ status = "up" /\ spin \in Spin
          /\ sessions[spin.table] \in Session
          /\ sessions' = [sessions EXCEPT ![spin.table].bets = NoBets]
      BY <1>14 DEF clear_bets, Spinning, TypeInv, TypeOK, SpinAtTable, Spin
    <2>2. NoBets \in [Logins -> Seq(Bet)] BY DEF NoBets
    <2>3. [sessions[spin.table] EXCEPT !.bets = NoBets] \in Session BY <2>1, <2>2 DEF Session
    <2>4. \A name \in Tables : sessions[name] # None =>
              /\ sessions'[name] # None
              /\ sessions'[name].croupier = sessions[name].croupier
              /\ sessions[name].users \subseteq sessions'[name].users
      BY <2>1, <2>3, NoneIsNothing DEF TypeInv, TypeOK, Session
    <2>. QED BY <2>1, <2>4, NoNewCroupier DEF AsCroupier, IsCroupier
  <1>15. ASSUME \/ UNCHANGED vars
                \/ \E login \in Logins : spin_fails(login)
                \/ \E id \in Ids : \/ do_sync(id)
                                   \/ \E login \in Logins : do_signup(id, login)
                                   \/ \E n \in Outcomes : do_spin(id, n)
         PROVE  SeatInv'
    BY <1>15 DEF vars, spin_fails, do_sync, do_signup, do_spin, SeatInv, OwnTables,
                 AsCroupier, IsCroupier, Keeps, has_session, get_session
  <1>. QED BY <1>1, <1>2, <1>3, <1>4, <1>5, <1>6, <1>7, <1>8, <1>9, <1>10, <1>11, <1>12,
              <1>13, <1>14, <1>15
       DEF Next, do_leave

(* CroupierKeepsTable: whoever is kicked, leaves, is dropped or has his    *)
(* permission changed, a croupier who has not left has a table, is the     *)
(* croupier named there and is among its users.                            *)
THEOREM TableOfCroupier == Spec => []CroupierKeepsTable
  <1>1. Init => SeatInv BY DEF Init, Empty, SeatInv, OwnTables, AsCroupier
  <1>2. SeatInv => CroupierKeepsTable
    BY DEF SeatInv, CroupierKeepsTable, AsCroupier, Keeps
  <1>. QED BY <1>1, <1>2, SeatNext, Typing, AccountsUnseated, PTL DEF Spec
-----------------------------------------------------------------------------
(* The seats of a table.                                                   *)

\* A set of users that fits a table: the test with == in add_player compares
\* the size of a finite set, which grows by one.
Fits(logins) == IsFiniteSet(logins) /\ Cardinality(logins) <= MAX_PLAYERS
AllFit == \A name \in Tables : sessions[name] # None => Fits(sessions[name].users)

(* Fewer users fit as well.                                                *)
LEMMA FewerFit ==
    ASSUME NEW logins, Fits(logins), NEW fewer \in SUBSET logins PROVE Fits(fewer)
  <1>1. IsFiniteSet(fewer) /\ Cardinality(fewer) <= Cardinality(logins)
    BY FS_Subset DEF Fits
  <1>2. Cardinality(fewer) \in Nat /\ Cardinality(logins) \in Nat
    BY <1>1, FS_CardinalityType DEF Fits
  <1>. QED BY <1>1, <1>2, ConstantsAssumption DEF Fits

(* add_player lets one more in when the number is not MAX_PLAYERS.         *)
LEMMA OneMoreFits ==
    ASSUME NEW logins, Fits(logins), Cardinality(logins) # MAX_PLAYERS, NEW login
    PROVE  Fits(logins \cup {login})
  <1>1. /\ IsFiniteSet(logins \cup {login})
        /\ \/ Cardinality(logins \cup {login}) = Cardinality(logins)
           \/ Cardinality(logins \cup {login}) = Cardinality(logins) + 1
    BY FS_AddElement DEF Fits
  <1>2. Cardinality(logins) \in Nat /\ MAX_PLAYERS \in Nat
    BY FS_CardinalityType, ConstantsAssumption DEF Fits
  <1>. QED BY <1>1, <1>2 DEF Fits

(* A table keeps its users, loses some, or is closed.                      *)
LEMMA NobodyComes ==
    ASSUME AllFit,
           \A name \in Tables : sessions'[name] # None =>
               sessions[name] # None /\ sessions'[name].users \subseteq sessions[name].users
    PROVE  AllFit'
  BY FewerFit DEF AllFit

(* leave_player makes nobody come.                                         *)
LEMMA VacatedFewer ==
    ASSUME TypeInv, NEW ids \in SUBSET Ids, NEW name \in Tables, Vacated(ids)[name] # None
    PROVE  sessions[name] # None /\ Vacated(ids)[name].users \subseteq sessions[name].users
  BY DEF Vacated

(* Only do_join and do_create seat anybody.                                *)
LEMMA FitNext == TypeInv /\ AllFit /\ [Next]_vars => AllFit'
  <1>. SUFFICES ASSUME TypeInv, AllFit, [Next]_vars PROVE AllFit' OBVIOUS
  <1>1. ASSUME NEW id \in Ids, NEW name \in Tables, do_join(id, name) PROVE AllFit'
    <2>1. sessions[name] \in Session /\ Fits(sessions[name].users)
      BY <1>1 DEF do_join, TypeInv, TypeOK, AllFit
    <2>2. Fits(sessions[name].users \cup {users[id].login})
      BY <1>1, <2>1, OneMoreFits DEF do_join, HasRoom
    <2>3. sessions' = [sessions EXCEPT ![name] =
              [sessions[name] EXCEPT !.users = sessions[name].users \cup {users[id].login}]]
      BY <1>1 DEF do_join
    <2>4. sessions'[name].users = sessions[name].users \cup {users[id].login}
          /\ \A other \in Tables \ {name} : sessions'[other] = sessions[other]
      BY <2>1, <2>3 DEF TypeInv, TypeOK, Session
    <2>. QED BY <2>2, <2>4 DEF AllFit
  <1>2. ASSUME NEW id \in Ids, NEW name \in Tables, do_create(id, name) PROVE AllFit'
    <2>1. /\ sessions'[name].users = {users[id].login}
          /\ \A other \in Tables \ {name} : sessions'[other] = sessions[other]
      BY <1>2 DEF do_create, NewTable, TypeInv, TypeOK
    <2>2. Fits({users[id].login})
      <3>1. IsFiniteSet({users[id].login}) /\ Cardinality({users[id].login}) = 1
        BY FS_Singleton
      <3>2. MAX_PLAYERS \in Nat \ {0} BY ConstantsAssumption
      <3>. QED BY <3>1, <3>2 DEF Fits
    <2>. QED BY <2>1, <2>2 DEF AllFit
  <1>3. ASSUME NEW id \in Ids, leave_player(id) PROVE AllFit'
    BY <1>3, VacatedFewer, NobodyComes DEF leave_player, leave_players
  <1>4. ASSUME NEW id \in Ids, leave_croupier(id) PROVE AllFit'
    <2>1. PICK leaving \in SUBSET Ids :
              sessions' = [Vacated(leaving) EXCEPT ![id2name[id]] = None]
      BY <1>4, CroupierLeaving DEF TypeInv
    <2>2. Vacated(leaving) \in [Tables -> Session \cup {None}]
      BY <2>1, VacatedType DEF TypeInv
    <2>4. \A name \in Tables : sessions'[name] # None => sessions'[name] = Vacated(leaving)[name]
      BY <2>1, <2>2
    <2>. QED BY <2>1, <2>4, VacatedFewer, NobodyComes
  <1>5. ASSUME NEW id \in Ids, leave_croupier_fails(id) PROVE AllFit'
    <2>1. PICK done \in SUBSET {login \in Others(id) : CanUnseat(login)} :
              leave_players(IdsOf(done))
      BY <1>5 DEF leave_croupier_fails
    <2>2. IdsOf(done) \in SUBSET Ids
      BY <1>5, <2>1, OthersOnline DEF leave_croupier_fails, TypeInv
    <2>. QED BY <2>1, <2>2, VacatedFewer, NobodyComes DEF leave_players
  <1>6. ASSUME NEW id \in Ids, NEW login \in Logins, do_kick(id, login) PROVE AllFit'
    <2>1. {login2id[login]} \in SUBSET Ids BY <1>6 DEF do_kick, CanUnseat, TypeInv, TypeOK
    <2>. QED BY <1>6, <2>1, VacatedFewer, NobodyComes DEF do_kick, leave_players
  <1>7. ASSUME NEW id \in Ids, disconnect_handle(id) PROVE AllFit'
    <2>1. CASE disconnect_idle(id) \/ disconnect_throws(id)
      BY <2>1, NobodyComes DEF disconnect_idle, disconnect_throws
    <2>2. CASE disconnect_player(id)
      BY <2>2, VacatedFewer, NobodyComes DEF disconnect_player
    <2>3. CASE disconnect_croupier(id)
      BY <2>3, NobodyComes DEF disconnect_croupier, TypeInv, TypeOK
    <2>4. CASE disconnect_croupier_hangs(id)
      <3>1. PICK login \in Others(id) : CanUnseat(login) /\ leave_players({login2id[login]})
        BY <2>4 DEF disconnect_croupier_hangs
      <3>2. IdsOf({login}) = {login2id[login]} BY DEF IdsOf
      <3>3. {login2id[login]} \in SUBSET Ids
        BY <2>4, <3>1, <3>2, OthersOnline DEF disconnect_croupier_hangs, TypeInv
      <3>. QED BY <3>1, <3>3, VacatedFewer, NobodyComes DEF leave_players
    <2>. QED BY <1>7, <2>1, <2>2, <2>3, <2>4 DEF disconnect_handle
  <1>8. ASSUME restart PROVE AllFit' BY <1>8 DEF restart, Empty, AllFit
  <1>9. ASSUME NEW id \in Ids, NEW bet \in Offers, do_bet(id, bet) PROVE AllFit'
    <2>1. id2name[id] \in Tables /\ sessions[id2name[id]] \in Session
      BY <1>9 DEF do_bet, has_session, TypeInv, TypeOK
    <2>2. PICK bets : sessions' = [sessions EXCEPT ![id2name[id]].bets[users[id].login] = bets]
      BY <1>9 DEF do_bet
    <2>3. sessions'[id2name[id]].users = sessions[id2name[id]].users
          /\ \A other \in Tables \ {id2name[id]} : sessions'[other] = sessions[other]
      BY <2>1, <2>2 DEF TypeInv, TypeOK, Session
    <2>. QED BY <1>9, <2>1, <2>3, NobodyComes DEF do_bet, has_session
  <1>10. ASSUME clear_bets PROVE AllFit'
    <2>1. /\ spin.table \in Tables /\ sessions[spin.table] \in Session
          /\ sessions[spin.table] # None
          /\ sessions' = [sessions EXCEPT ![spin.table].bets = NoBets]
      BY <1>10 DEF clear_bets, Spinning, TypeInv, TypeOK, SpinAtTable, Spin
    <2>2. sessions'[spin.table].users = sessions[spin.table].users
          /\ \A other \in Tables \ {spin.table} : sessions'[other] = sessions[other]
      BY <2>1 DEF TypeInv, TypeOK, Session
    <2>. QED BY <2>1, <2>2, NobodyComes
  <1>11. CASE UNCHANGED sessions BY <1>11 DEF AllFit
  <1>12. \/ UNCHANGED sessions \/ clear_bets \/ restart
         \/ \E id \in Ids : \/ disconnect_handle(id) \/ do_leave(id)
                            \/ \E login \in Logins : do_kick(id, login)
                            \/ \E name \in Tables : do_join(id, name) \/ do_create(id, name)
                            \/ \E bet \in Offers : do_bet(id, bet)
    BY DEF Next, vars, connect_handle, do_signout, do_sync, do_signin, do_signup,
           do_set_permission, do_spin, pay, spin_fails
  <1>. QED BY <1>1, <1>2, <1>3, <1>4, <1>5, <1>6, <1>7, <1>8, <1>9, <1>10, <1>11, <1>12
       DEF do_leave

(* TableCapacity: the test for equality in add_player is enough, whatever  *)
(* the number of seats: no table ever has more users.                      *)
THEOREM CapacityKept == Spec => []TableCapacity
  <1>1. Init => AllFit BY DEF Init, Empty, AllFit
  <1>2. AllFit => TableCapacity BY DEF AllFit, Fits, TableCapacity
  <1>. QED BY <1>1, <1>2, FitNext, Typing, PTL DEF Spec
=============================================================================
