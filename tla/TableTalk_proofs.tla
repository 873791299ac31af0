-------------------------- MODULE TableTalk_proofs --------------------------
(***************************************************************************)
(* What write, users and tables say fits the seats, and what bets says     *)
(* fits the balance, for any number of connections, tables and players, as *)
(* long as the administrator leaves those who sit at a table alone.        *)
(***************************************************************************)
EXTENDS TableTalk, GameServerBets_proofs

(* The table of a client that has a seat, and everybody else at it.        *)
LEMMA TableOf ==
    ASSUME Context, NEW id \in Ids, AtTable(id)
    PROVE  /\ has_session(id) /\ id2name[id] \in Tables /\ Open(id2name[id])
           /\ get_session(id) = sessions[id2name[id]]
           /\ users[id].login \in Users(id2name[id])
           /\ \A login \in Users(id2name[id]) :
                  /\ login2id[login] \in Ids /\ Seated(login2id[login])
                  /\ users[login2id[login]].login = login
                  /\ id2name[login2id[login]] = id2name[id]
                  /\ Sits(login, id2name[id])
  <1>1. Seated(id) BY DEF AtTable, Seated
  <1>2. Matched BY DEF Context, MatchInv
  <1>3. has_session(id) /\ users[id].login \in get_session(id).users
    BY <1>1, <1>2 DEF Matched, UsersSeeTables
  <1>4. id2name[id] \in Tables
    BY <1>3 DEF has_session, Context, TypeInv, TypeOK
  <1>5. Open(id2name[id]) /\ get_session(id) = sessions[id2name[id]]
    BY <1>3 DEF has_session, Open, get_session
  <1>6. users[id].login \in Users(id2name[id]) BY <1>3, <1>5 DEF Users
  <1>7. ASSUME NEW login \in Users(id2name[id])
        PROVE  /\ login2id[login] \in Ids /\ Seated(login2id[login])
               /\ users[login2id[login]].login = login
               /\ id2name[login2id[login]] = id2name[id]
               /\ Sits(login, id2name[id])
    <2>1. Sits(login, id2name[id]) BY <1>2, <1>4, <1>5 DEF Matched, TablesSeeUsers
    <2>. QED BY <2>1, <1>4, <1>5, SitterSeated
  <1>. QED BY <1>3, <1>4, <1>5, <1>6, <1>7

(* No get_id and no get_user of these handlers throws.                     *)
LEMMA NobodyMissing ==
    ASSUME Context, NEW id \in Ids, AtTable(id)
    PROVE  Answers(id)
  <1>1. has_session(id) BY TableOf
  <1>2. ASSUME NEW login \in get_session(id).users
        PROVE  login2id[login] # None /\ users[login2id[login]] # None
    <2>1. login \in Users(id2name[id]) BY TableOf DEF Users
    <2>. QED BY <2>1, TableOf DEF Sits
  <1>. QED BY <1>1, <1>2 DEF Answers

LEMMA Neighbours ==
    ASSUME Context, NEW id \in Ids, AtTable(id)
    PROVE  LET neighbours == {i \in Ids \ {id} : AtTable(i) /\ id2name[i] = id2name[id]}
           IN  /\ do_write(id) = neighbours
               /\ \A i \in neighbours : do_write_to(id, users[i].login) = {i}
  <1>. DEFINE name       == id2name[id]
              neighbours == {i \in Ids \ {id} : AtTable(i) /\ id2name[i] = name}
  <1>1. ASSUME NEW i \in do_write(id) PROVE i \in neighbours
    <2>1. PICK login \in Users(name) : i = login2id[login]
      BY TableOf DEF do_write, IdsOf, Users
    <2>2. i \in Ids /\ Seated(i) /\ id2name[i] = name BY <2>1, TableOf
    <2>3. i # id BY <1>1 DEF do_write
    <2>. QED BY <2>2, <2>3 DEF AtTable, Seated
  <1>2. ASSUME NEW i \in neighbours
        PROVE  users[i].login \in Users(name) /\ login2id[users[i].login] = i
    <2>1. users[i].login \in Users(name) BY TableOf
    <2>2. users[i] # None BY DEF AtTable
    <2>3. name \in Tables /\ Open(name) BY TableOf
    <2>. QED BY <2>1, <2>2, <2>3, OneSitter
  <1>3. ASSUME NEW i \in neighbours PROVE i \in do_write(id)
    <2>1. users[i].login \in get_session(id).users BY <1>2, TableOf DEF Users
    <2>2. i \in IdsOf(get_session(id).users) BY <1>2, <2>1 DEF IdsOf
    <2>. QED BY <2>2 DEF do_write
  <1>4. ASSUME NEW i \in neighbours PROVE do_write_to(id, users[i].login) = {i}
    <2>1. users[i].login \in get_session(id).users BY <1>2, TableOf DEF Users
    <2>2. IdsOf({users[i].login}) = {i} BY <1>2 DEF IdsOf
    <2>. QED BY <2>1, <2>2 DEF do_write_to
  <1>5. do_write(id) = neighbours BY <1>1, <1>3
  <1>. QED BY <1>4, <1>5

LEMMA Roles ==
    ASSUME Context, NEW id \in Ids, AtTable(id)
    PROVE  /\ \A entry \in do_users(id) :
                  /\ entry.role = "croupier" <=> entry.login = get_session(id).croupier
                  /\ entry.role = "player" =>
                         Allowed(users[login2id[entry.login]].permission, PLAYER)
           /\ \E entry \in do_users(id) : entry.role = "croupier"
  <1>. DEFINE Entry(login) ==
           [login |-> login, role |-> Role(users[login2id[login]].permission)]
  <1>0. get_session(id) = sessions[id2name[id]] /\ Users(id2name[id]) = get_session(id).users
    BY TableOf DEF Users
  <1>1. ASSUME NEW login \in Users(id2name[id])
        PROVE  /\ Entry(login).role = "croupier" <=> login = get_session(id).croupier
               /\ Entry(login).role = "player" =>
                      Allowed(users[login2id[login]].permission, PLAYER)
    <2>1. users[login2id[login]].permission =
              IF login = get_session(id).croupier THEN CROUPIER ELSE PLAYER
      BY <1>0, TableOf DEF Sits
    <2>2. Allowed(PLAYER, PLAYER) BY DEF Allowed, PLAYER
    <2>. QED BY <2>1, <2>2, SeatMasks DEF Role
  <1>2. do_users(id) = {Entry(login) : login \in Users(id2name[id])}
    BY <1>0 DEF do_users
  <1>3. get_session(id).croupier \in Users(id2name[id])
    BY <1>0, TableOf DEF Context, MatchInv, Matched, CroupierSits
  <1>. HIDE DEF Entry
  <1>4. \A login : Entry(login).login = login BY DEF Entry
  <1>5. ASSUME NEW entry \in do_users(id)
        PROVE  /\ entry.role = "croupier" <=> entry.login = get_session(id).croupier
               /\ entry.role = "player" =>
                      Allowed(users[login2id[entry.login]].permission, PLAYER)
    <2>1. PICK login \in Users(id2name[id]) : entry = Entry(login) BY <1>2
    <2>2. entry.login = login BY <2>1, <1>4
    <2>. QED BY <1>1, <2>1, <2>2
  <1>6. \E entry \in do_users(id) : entry.role = "croupier"
    <2>1. Entry(get_session(id).croupier) \in do_users(id) BY <1>2, <1>3
    <2>2. Entry(get_session(id).croupier).role = "croupier" BY <1>1, <1>3
    <2>. QED BY <2>1, <2>2
  <1>. QED BY <1>5, <1>6

\* write reaches the others at the table and nobody else, and does not throw halfway.
THEOREM TalkStaysAlways == ASSUME CarefulAdmin PROVE Spec => []TalkStaysAtTable
  <1>1. TypeInv /\ LoginMapped /\ RowsUnseated /\ MatchInv => TalkStaysAtTable
    <2>1. SUFFICES ASSUME TypeInv, LoginMapped, RowsUnseated, MatchInv, Answering,
                          NEW id \in Ids, AtTable(id)
                   PROVE  /\ Answers(id)
                          /\ LET neighbours == {i \in Ids \ {id} : AtTable(i)
                                                    /\ id2name[i] = id2name[id]}
                             IN  /\ do_write(id) = neighbours
                                 /\ \A i \in neighbours : do_write_to(id, users[i].login) = {i}
      BY DEF TalkStaysAtTable
    <2>2. Context BY <2>1 DEF Context, Answering
    <2>. QED BY <2>1, <2>2, NobodyMissing, Neighbours
  <1>. QED BY <1>1, Matching, Typing, OneConnectionPerLogin, AccountsUnseated, PTL

\* The roles that users shows are those of the permissions the server acts on.
THEOREM RolesShownAlways == ASSUME CarefulAdmin PROVE Spec => []RolesShown
  <1>1. TypeInv /\ LoginMapped /\ RowsUnseated /\ MatchInv => RolesShown
    <2>1. SUFFICES ASSUME TypeInv, LoginMapped, RowsUnseated, MatchInv, Answering,
                          NEW id \in Ids, AtTable(id)
                   PROVE  /\ Answers(id)
                          /\ \A entry \in do_users(id) :
                                 /\ entry.role = "croupier"
                                        <=> entry.login = get_session(id).croupier
                                 /\ entry.role = "player" =>
                                        Allowed(users[login2id[entry.login]].permission, PLAYER)
                          /\ \E entry \in do_users(id) : entry.role = "croupier"
      BY DEF RolesShown
    <2>2. Context BY <2>1 DEF Context, Answering
    <2>. QED BY <2>1, <2>2, NobodyMissing, Roles
  <1>. QED BY <1>1, Matching, Typing, OneConnectionPerLogin, AccountsUnseated, PTL

(* A table is sat at by as many connections as it has users: login2id      *)
(* takes each user to a connection of its own.                             *)
LEMMA PlayersCounted ==
    ASSUME Context, AllFit, NEW name \in Tables, Open(name)
    PROVE  /\ Count(name) = Cardinality({id \in Ids : AtTable(id) /\ id2name[id] = name})
           /\ Count(name) \in 1 .. MAX_PLAYERS
  <1>. DEFINE sitters     == {id \in Ids : AtTable(id) /\ id2name[id] = name}
              connections == [login \in Users(name) |-> login2id[login]]
  <1>1. Fits(Users(name)) BY DEF AllFit, Open, Users
  <1>2. ASSUME NEW login \in Users(name)
        PROVE  connections[login] \in sitters /\ users[connections[login]].login = login
    <2>1. /\ login2id[login] \in Ids /\ Seated(login2id[login])
          /\ users[login2id[login]].login = login /\ id2name[login2id[login]] = name
      BY SitterSeated
    <2>. QED BY <2>1 DEF Seated, AtTable
  <1>3. ASSUME NEW id \in sitters
        PROVE  users[id].login \in Users(name) /\ connections[users[id].login] = id
    <2>1. Seated(id) /\ id2name[id] = name BY DEF AtTable, Seated
    <2>. QED BY <2>1, SeatedSits
  <1>4. connections \in Bijection(Users(name), sitters)
    <2>1. connections \in [Users(name) -> sitters] BY <1>2
    <2>2. \A a, b \in Users(name) : connections[a] = connections[b] => a = b
      <3>. HIDE DEF connections, sitters
      <3>. QED BY <1>2
    <2>3. \A id \in sitters : \E login \in Users(name) : connections[login] = id BY <1>3
    <2>. HIDE DEF connections, sitters
    <2>. QED BY <2>1, <2>2, <2>3 DEF Bijection, Injection, Surjection, IsInjective
  <1>5. Cardinality(sitters) = Cardinality(Users(name))
    <2>. HIDE DEF connections, sitters
    <2>1. ExistsBijection(Users(name), sitters) BY <1>4 DEF ExistsBijection
    <2>. QED BY <1>1, <2>1, FS_Bijection DEF Fits
  <1>6. Users(name) # {} BY DEF Context, MatchInv, Matched, CroupierSits
  <1>7. Cardinality(Users(name)) \in Nat /\ Cardinality(Users(name)) # 0
    BY <1>1, <1>6, FS_CardinalityType, FS_EmptySet DEF Fits
  <1>. QED BY <1>1, <1>5, <1>7, ConstantsAssumption DEF Count, Users, Fits

\* What tables says of a table is so, and whoever asks to join finds somebody there.
THEOREM TablesShownAlways == ASSUME CarefulAdmin PROVE Spec => []TablesShown
  <1>1. TypeInv /\ LoginMapped /\ RowsUnseated /\ MatchInv /\ AllFit => TablesShown
    <2>1. SUFFICES ASSUME TypeInv, LoginMapped, RowsUnseated, MatchInv, AllFit, Answering,
                          NEW entry \in do_tables
                   PROVE  /\ entry.num_players = Cardinality(
                                  {id \in Ids : AtTable(id) /\ id2name[id] = entry.name})
                          /\ entry.num_players \in 1 .. entry.max_players
      BY DEF TablesShown
    <2>2. Context BY <2>1 DEF Context, Answering
    <2>3. PICK name \in Tables :
              /\ Open(name)
              /\ entry = [name |-> name, num_players |-> Count(name), max_players |-> MAX_PLAYERS]
      BY DEF do_tables, Open
    <2>4. entry.name = name /\ entry.num_players = Count(name) /\ entry.max_players = MAX_PLAYERS
      BY <2>3
    <2>. QED BY <2>1, <2>2, <2>3, <2>4, PlayersCounted
  <1>2. Init => AllFit BY DEF Init, Empty, AllFit
  <1>3. Spec => []AllFit BY <1>2, FitNext, Typing, PTL DEF Spec
  <1>. QED BY <1>1, <1>3, Matching, Typing, OneConnectionPerLogin, AccountsUnseated, PTL

\* Nobody is shown bets that the balance shown does not cover, nor bets of strangers.
THEOREM BetsShownAlways == ASSUME CarefulAdmin, NoOverflow PROVE Spec => []BetsShown
  <1>1. TypeInv /\ LoginMapped /\ RowsUnseated /\ MatchInv /\ BalanceCached /\ BetsCovered
        => BetsShown
    <2>. SUFFICES ASSUME TypeInv, LoginMapped, RowsUnseated, MatchInv, BalanceCached,
                         BetsCovered, Answering, NEW id \in Ids, AtTable(id)
                  PROVE  /\ Staked(do_bets(id)[users[id].login]) <= do_balance(id)
                         /\ \A login \in Logins : do_bets(id)[login] # <<>> =>
                                login \in get_session(id).users
      BY DEF BetsShown
    <2>1. Context BY DEF Context, Answering
    <2>2. /\ id2name[id] \in Tables /\ Open(id2name[id]) /\ users[id].login \in Users(id2name[id])
          /\ get_session(id) = sessions[id2name[id]] /\ users[id] # None
      BY <2>1, TableOf DEF AtTable
    <2>3. users[id].login \in Logins /\ users[id].login # GuestLogin
      BY <2>1, <2>2, SitterSeated
    <2>4. /\ data_base[users[id].login] # None
          /\ users[id].balance = data_base[users[id].login].balance
      BY <2>2, <2>3 DEF BalanceCached
    <2>5. StillStaked(id2name[id], users[id].login) = Staked(do_bets(id)[users[id].login])
      BY <2>2 DEF StillStaked, do_bets, Answering
    <2>6. Staked(do_bets(id)[users[id].login]) <= do_balance(id)
      BY <2>2, <2>3, <2>4, <2>5 DEF BetsCovered, Open, do_balance
    <2>7. \A login \in Logins : do_bets(id)[login] # <<>> => login \in get_session(id).users
      BY <2>1, <2>2 DEF Context, MatchInv, Matched, BettorsSit, do_bets, Users
    <2>. QED BY <2>6, <2>7
  <1>. QED BY <1>1, BetsAlwaysCovered, Matching, Typing, OneConnectionPerLogin,
              AccountsUnseated, BalanceIsAccount, PTL
=============================================================================
