# Asinc-Roulette: a verification project

`src/` is a roulette server and its client (`src/ReadMe.md` is the assignment it
answers). Clients sign in over an encrypted session on a home-made reliable UDP
transport; some open tables as croupiers, others join them and bet; a croupier spins
the wheel and the server settles the bets in an SQLite database.

## The system

| part | files | state | operations |
|---|---|---|---|
| Game server | `core/Server.*` | `users` (connection -> login, permission, balance), `login2id`, `id2name` (connection -> table), `sessions` (table -> croupier, users, bets) | the command handlers, `connect_handle`, `disconnect_handle` |
| Permissions | `commands/permissions.h`, `handlers/` | bit masks, one per command | a command runs when some bit of its mask is held |
| Database | `core/DataBase.*`, `init.cpp` | one row per login: password, salt, permission, balance | `new_user`, `get_user`, `set_user_balance`, `set_user_permission`, each a statement of its own |
| Bets | `core/config.h`, `Server::validate`, `wining`, `pay` | tables of ranges, multipliers, colours, corners | pure |
| Transfer server | `transfer/udp/TransferServer.*` | `connections` (socket, `free`, `close`), a pool of threads, one mutex | `run` (the loop), `task` (on the pool), `send`, `kill`, the timers |
| UDP socket | `transfer/udp/LinuxSocket.*` | `send_buffer`, `receive_buffer`, expected id and package, two timers | `send`, `update(data)`, `update(timeout)`, `receive`, `close` |
| Transfer client | `transfer/udp/TransferClient.*` | a socket, an input and an output thread | the loop, `stop` |
| Session layer | `session/` | keys and `INIT`/`READY` on each side | handshake, encrypt, decrypt |
| Client | `core/Client.*`, `handlers/ClientHandlers.*`, `commands/ClientCommands.*` | its own copy of the permission | reads a line, checks it, sends; applies answers |
| Console, parser | `commands/Command*`, `simple/` | none | words and help; the console kills connections, stops the server and sends texts |

The calls go down `Client -> SessionClient -> TransferClient -> LinuxSocket` and up
`LinuxSocket -> TransferServer -> SessionServer -> Server -> DataBase`. Handlers answer
with `send`, which goes back down through the session and locks the mutex of the
transfer server; the transfer server calls `disconnect_handle` with that mutex held.

What makes it hard: handlers run on four pool threads with no lock on the maps of
`Server`; four maps must agree about who sits where, and each handler updates some of
them; an administrator can change a permission under a seated user; `do_spin` pays bet
by bet, each with its own database write, while the bets exist in memory only; the
transport may drop a client at any time, from another thread and under a mutex; a task
may outlive the connection it was started for; several threads send to one client, and
the first message carries the key; and the transport acknowledges messages without saying
which.

## The modules

| module | models | against |
|---|---|---|
| `Permissions` | the masks as sets of bits | `commands/permissions.h` |
| `Seating` | how the permission of a connection may change: the contract between `GameServer` and `Conversation` | |
| `Bets` | ranges, multipliers, colours, corners, `validate`, `wining`, the sum of `do_bet` | `core/config.h`, `core/Server.cpp` |
| `BetTable` | every bet a client can ask for, refused or spun on every pocket | `commands/ClientCommands.cpp`, `core/Server.cpp` |
| `MCBets` | the instance of it | |
| `BetTable_proofs` | theorems: how many pockets win, the odds, the colours, the corners | |
| `Casino` | what the players are promised of their money: accounts, stakes, the wheel | |
| `GameServer` | every handler of `Server` that changes state, over the database | `core/Server.cpp`, `core/DataBase.cpp`, `init.cpp`, `handlers/ServerHandlers.cpp` |
| `MCGameServer` | instances of it | |
| `GameServer_proofs` | theorems about it: types, connections, balances, permissions known to clients, how they change, the table of a croupier, capacity | |
| `GameServerBets_proofs` | theorems: bets last until they are paid, are always covered, and the refinement of `Casino` | |
| `GameServerCareful_proofs` | theorems under a careful administrator: seats, disconnection, payment | |
| `TableTalk` | what the handlers that only read send: `write`, `users`, `tables`, `bets`, `balance` | `core/Server.cpp` |
| `TableTalk_proofs` | theorems: who is reached by `write`, what `users`, `tables` and `bets` show | |
| `HandlerRaces`, `MCHandlerRaces` | `do_signin`, `do_create`, `do_join` split between their tests and their writes, on several threads | `core/Server.cpp` |
| `SerialHandling` | what the session layer takes the transfer server for: messages handled one at a time, in order | |
| `TransferServer` | the receiving thread, the pool, the flags, the timers, the console, the map of sessions | `transfer/udp/TransferServer.cpp`, `session/SessionServer.cpp`, `transfer/udp/LinuxSocket.cpp` |
| `MCTransferServer` | the instance of it | |
| `TransferServer_proofs` | theorems: types, one task per connection, the refinement of `SerialHandling`, sessions | |
| `Conversation` | a client and the server's side of its connection: handshake, ciphers, commands, permissions | `core/Client.cpp`, `session/`, `handlers/`, `commands/ClientCommands.cpp` |
| `MCConversation` | the instance of it | |
| `Conversation_proofs` | theorems: types, the order of the ciphers, the two tables of permissions, the refinement of `Seating` | |
| `ReliableStream` | what the session layer takes a socket for: a stream of messages each way | |
| `UdpSocket` | the two sockets of a connection and the network between them | `transfer/udp/LinuxSocket.cpp`, the loops that drive it |
| `MCUdpSocket` | instances of it | |
| `UdpSocket_proofs` | theorems: types, the refinement of `ReliableStream`, what is kept until it arrives | |

### GameServer

The variables are the four maps, the database, the spin under way, the permission each
client was last told, and whether the process is up, hung or terminated. The name of an
action is the name of the handler. Its first conjunct is the permission test of
`session_handle`; then come the conditions under which it does not answer with an error,
for a handler that refuses before it has changed anything is a stuttering step. Two
handlers can fail half way, and then the failing branch is an action of its own
(`leave_croupier_fails`, `spin_fails`): the loop over an `unordered_set` stops at the
first user who cannot leave, and which ones have left by then is a free choice.
`leave_croupier` calls `get_id` in each turn of its loop, after the `add_user` of the turns
before may have pointed `login2id` at a connection that has left already; whom it passes
over for that reason (`LoginsOf`) is part of the action.

`leave_player`, which `do_leave`, `do_kick`, `leave_croupier` and the disconnection all
call, is the heart of the model: it works on the table `id2name` names, which is never
erased, and on the connection `login2id` names, which may be stale. `leave_players(ids)`
is its effect for a set of connections.

`do_spin` is a sequence: `do_spin` announces the pocket, each `pay` settles one bet in
the database and in `users`, and `clear_bets` empties the table. A `restart` may fall
between any two of them; it keeps the database and nothing else. Other handlers wait
until the spin is over.

Disconnection is five actions, for five outcomes of `do_disconnect`: nothing to leave, a
player leaves, a croupier closes an empty table, the handler asks for the mutex that its
own caller holds (`disconnect_croupier_hangs`), and a `Server::error` that nobody
catches (`disconnect_throws`).

At the end of the module `account`, `stakes` and `wheel` are what `Casino` sees of this
state: of every table the bets that are not paid yet, which is a shorter sequence after each
`pay` although `session.bets` changes only when the loop has ended. `do_bet`, `do_signup`,
`do_spin`, `pay`, `clear_bets` and `restart` map to `PlaceBet`, `OpenAccount`, `Turn`, `Pay`,
`Stop` and `Crash`; leaving, in all its forms, maps to `Withdraw`, and the rest to a
`Withdraw` of nobody. `Casino` knows nothing of connections, seats, permissions or the two
copies of a balance, and its arithmetic does not wrap.

Left out: passwords and salts, the wording of messages, SQL errors. Taken for granted:

- Handlers run one at a time, and wait while a spin pays (`Serving`). They do not in the
  program, which locks nothing: `HandlerRaces` shows what this hides, and the
  properties and theorems about spins and bets are about handlers that do not overlap.
- The identifier `unsafe_kill` passes to `disconnect_handle` is that of the connection.
  The code passes a reference into a map node it has just erased, whose value is
  whatever the allocator left there.
- A granted permission has none of the bits of a seat (`Grants`): the client's command
  refuses to send one (`Client.cpp:109`), the server writes whatever it gets.
- Where a property needs it, `CarefulAdmin`: permissions are changed only for users who
  sit at no table, and not for the guest. The run `anyadmin` lifts it, and `terminate`
  shows what then breaks. Whose permission may be set at all is `SettableLogins`; no theorem
  assumes anything of it, and in `anyadmin` it has the guest and the administrator too.

### Seating

`Conversation` says of the handlers only what they may do to one client's permission
(`Effects`, `set_permission`, `set_guest_permission`); `GameServer` has the handlers
themselves. `Seating` is what the two have to agree on, and both implement it: a permission
with the bit of a seat is taken by `Join`, from a permission of WAIT, or by `Create`, from
STAFF, and is then PLAYER or CROUPIER and nothing else; every other change (`Become`) is to
one without. In the code this is spread over the masks `init` and `new_user` write, the one
`do_set_permission` writes without a test (`Server.cpp:166`), the test in the client that
sends it (`Client.cpp:109`), and the two handlers that give a seat. `SeatingKept` is the
step of `Seating` for every connection of `GameServer` (TLC cannot evaluate one temporal
formula per connection, so it is stated as an action property); `SeatingImplemented` is the
refinement by `Conversation`.

### TableTalk

`TableTalk` extends `GameServer` with what the five reading handlers send, as functions of
its state: the connections `do_write` reaches, the entries of `do_users`, `do_tables` and
`do_bets`, the number of `do_balance`. `Answers` is what they need in order not to throw in
the middle of their loop. Their properties relate what one client is shown to what the
server lets the others do, and are checked in the runs of `GameServer`.

### HandlerRaces

`GameServer` is one handler at a time; the program is four threads. `TransferServer` shows
that a connection has one task at most, so what can overlap are handlers of different
connections. `tests(id, h, of)` is everything such a handler reads before it writes, and
`do_signin`, `do_create` and `do_join` are the writes. The code locks nothing, and
`OneCroupier` fails: two clients create one table. Two that join find the last seat free in
the same way, and as the test is for equality the table is then open to any number: that
`TableCapacity` holds in `GameServer` is due to its handlers coming one by one. Two accesses to one `unordered_map` at the same instant are undefined
and not modelled.

### TransferServer

Three kinds of threads. `loop` is where the receiving thread is: it waits, enters a new
connection (`receive`), makes its session (`connect_handle`), gives it the datagram
(`update`), sees whether there is a message (`empty`), starts a task unless there is one
(`handle_connection`), runs the timers (`update_timeout`), closes what has to be closed
(`disconnect_unavailable_connections`), or leaves (`disconnect_connections`). Each is a step
of its own, since tasks and console run beside them. `pool` and
`worker` are the thread pool and the tasks on it: `begin`, `take` (a message leaves the
buffer and the session is looked up), `handle`, `finish` (the buffer is seen empty), `end`
(`close` and `free` are written). The console may `kill`, `send` and `stop` between any two
steps of the others; it is one thread, so it neither stops in the middle of a kill nor kills
after it has stopped (`server.cpp:17`), while a handler may `send` at any time. The flags `free` and `close` and the receive buffer are read and written by two
threads with the code's own steps, so the gap between `finish` and `end`, in which a
message finds the connection busy and starts nothing, is in the model; so is the overwriting
of `close`.

A connection is `<<id, number>>`, because a task keeps its `shared_ptr` when the entry has
gone and the client may have another connection by then; `clients` holds the number of the
connection that made the session. A kill clears the two maps one after the other:
`unsafe_kill` takes the entries out of `connections`, and `disconnect_handle` follows for
each of the ids in `erased`. While there are any, somebody has the mutex, so that nobody
else kills or sends; the loop takes no mutex and may let the same client in between the two.
Its `connect_handle` then finds the old session, leaves it, and `disconnect_handle` takes it
away: the run `reconnect`. `orphans` is history and holds the connections this has happened
to. Killing several ids erases their entries at once, which only the loop could tell from
one by one, and then the loop is the killer. The timer and `close` of a connection that is
in the map no more are read by nobody and are left out of the state (`Unlinked`).
`defined` is FALSE after a null pointer in the loop, a reference to an erased entry, or a
session used after it was erased; then nothing moves and nothing is claimed. `Accepted` is
`LinuxSocket::update(data)` for messages of one package (`UdpSocket` has the rest).
The result of the lambda in `handle_connection`, which returns nothing, is a free choice.
Left out: that the loop reads `connections` without the mutex, errors of the system calls,
two clients that `Socket::concat` gives one identifier.

### Conversation

One client, the server's side of its connection, and a sequence of messages each way; that
the streams are reliable is what `UdpSocket` shows, and that the server handles the
requests one by one is what `TransferServer` shows. Of the client there are the state of
`SessionClient`, the state of its `Session`, its permission and how its process stands; its
two threads are `output`, `session_output` and `input`. Of the server the same, and `out`:
three threads send to a client, the task of its own requests, a handler of somebody else's
and the console. Each makes its message, encrypts it (`encrypt`, which reads the state with
no lock) and puts it on the stream (`send`, under the mutex), in three steps that others
interleave with. A message is what it says (`init`, a text, a permission, anything else) and
the cipher it was given; the first the client deciphers must be the key.

`commands` and `handlers` are the two tables of permissions, of `ClientCommands` and of
`ServerHandlers`. `Effects` is what a handler may do to this client's permission;
everything else it does is `GameServer`'s. An administrator may set his own permission: his
request then has a permission among its answers. `news`, `set_permission` and
`set_guest_permission` are handlers of others: a message, a new permission, a new permission
of the account guest, which reaches the latest that connected. `drop` ends the connection; the
client does not learn of it, as `TransferClient::start` ignores both EXIT and its own timer
(so what `ReadMe.md:37` asks of the client, to handle being disconnected by the server, is
not there, and what it sends later opens another connection).

`raced` and `early` are history: they name the two overlaps that the properties except.

### UdpSocket

Each end is a record with the fields of its `LinuxSocket`. `buffered_send` cuts a message
into packages with an id, a number and a count; `accepted`, `ignored` and `acknowledged`
are the outcomes of `update(data)` for the package at hand, `wait` and `retry` of
`update(timeout)`. A message is a name, a number of packages and a flag: whether its text
and the delimiter fill all packages but the last, which is then empty. The receiver finds
the delimiter in the package before that one and hands the message out before it
acknowledges it; the model keeps this. `received` is everything that ever went through
`receive_buffer`.

The network is a queue per direction that may lose packages, and, by `Faults`, duplicate
or reorder them; the run has losses. With duplicates TLC refutes `UndeliveredKept`: a
SUCCESS names no message (`LinuxSocket.cpp:176`), and its second copy removes one that has
not arrived. The bounds are `Script` (what each end sends), `MaxUnacked` (messages in
a `send_buffer`) and `MaxInFlight` (packages on the way to one end; an acknowledgement
always fits). Left out: messages of 256 packages, errors of the system calls, `EXIT`, the
disconnect timer, and the threads of one client racing on its socket.

## The runs

| run | instance | what it shows |
|---|---|---|
| `bets` | all 16 types, numbers 0..38, stakes 0..2, 37 pockets | which bets favour the player, which can never win, what a zero pays; the colours and the corners agree with the wheel and the layout |
| `seats` | 3 connections, 2 tables, 4 logins, 2 seats | permissions, seats and both maps stay in step; a disconnection never throws; a table never exceeds its capacity; `write` stays at the table, `users` and `tables` show what is |
| `money` | 3 connections, 1 table, 3 seats, bets of 1 and 2, balances 0..4, `INT_MAX` = 255 | stakes are covered by the balance at every step of a spin, a spin pays every bet, only the bettor's account moves, bets last until they are paid, what `bets` shows fits `balance`, and the server implements `Casino` |
| `anyadmin` | 3 connections, 1 table of 2, 1 member of staff, anybody's permission set at will, the guest's and the administrator's too | what survives a careless administrator: one connection per login, balances equal to the database, a croupier has its table, capacity; each client has been told the permission it has, or takes itself for a plain guest; seats are taken and never granted |
| `udp` | ids modulo 3, two unacknowledged messages, a lossy queue; four messages one way, one the other | the sockets implement `ReliableStream`; what has not arrived is still kept; the server's messages arrive |
| `transport` | 1 client that connects twice, 2 threads, 2 messages, a timeout of 1 | one task per connection; the refinement of `SerialHandling`; the right session; a silent client is dropped and no message waits for ever |
| `client` | 2 requests, 1 handler of somebody else's, 1 text of the console, three accounts | the ciphers stay in step; the two copies of the permission agree in the end and whenever nothing is under way; no request is refused that was allowed when typed, unless the permission has changed; the refinement of `Seating` |
| `races` | 2 connections, 2 accounts, 1 table | finding: two croupiers of one table |
| `reconnect` | 1 client that connects twice, 1 thread | finding: a client that comes back while it is killed has no session |
| `hang` | 2 connections, 1 table | finding: dropping a croupier with players hangs the server |
| `terminate` | 2 connections, careless administrator | finding: a croupier made a plain user joins its own table, and its disconnection ends the process |
| `overflow` | `INT_MAX` = 7 | finding: a bet that overflows the sum is accepted |

Why the bounds are enough. Every relation between two pieces of the game's state involves
at most two users and two tables; three connections allow a croupier, a player and
somebody who re-uses a name or whose entry is stale, and two seats make a table full.
One of the four logins starts without a row, so signing up happens. Bets of one and two
units on a capital of two reach both exact cover and refusal, and the wheel has one
winning and one losing pocket. `MinBalance` and `MaxBalance` only keep the wheel still
when a balance has left the range; spins before that reach both ends. Connections and
tables are interchangeable, and so are the players when the database treats them alike,
which is what the symmetry sets say; no liveness is checked under symmetry. In the socket
model `ID_MODULUS` = 3 makes the ids wrap within four messages while the number of
unacknowledged messages stays below it. That inequality is needed: with `MaxUnacked` equal
to `ID_MODULUS` an old message could be taken for a new one. Nothing in the code bounds
`send_buffer`, so in the program the condition is fewer than 256 messages waiting.

In `transport` one client that connects twice is every order of a connection's tasks, its
drop and its successor's; another client would add rounds of the timers, which the model
takes at any time, and tasks before this client's in the pool. Two threads let a task of
the first connection run beside one of the second. Two messages are a repeated one and one
that arrives while a task ends; a timeout of 1 still lets a flag be set and overwritten. In
`client` two requests make one overtake the answer to the other, one handler of somebody
else's is enough to overlap with either, and the accounts are a user, the administrator (who
is staff too) and one with nothing at all. Both are small for a reason: the theorems below
have no bounds.

In `anyadmin` whoever may be set multiplies the states, so there is one player: with the
administrator, who is staff himself, and the guest, who may be made a user and join, three
accounts compete for two seats. `money` has one
table, so that nobody bets at two is said there of nothing; `ServerIsCasino` says it of any
number. In `reconnect` the wanted state
is ten steps away and needs no message to be handled.

`ReadMe.md:55` also names attempts to repeat a bet, without saying what is to come of them.
The code takes any number of bets of one player, of one kind or another, as long as the
balance covers their sum, and `BetsCovered` is about that sum.

Not run, because a test of two commands shows it: that `do_signout` leaves the login in
`login2id` (`Server.cpp:63-65`), so that the same user is told he is already logged in when
he signs in again; and that `list` prints ranges which are one off
(`ClientCommands.cpp:138` prints 1..37 where `Server.cpp:393` accepts 0..36).

Fairness. The game runs check safety only. `transport` assumes that the receiving thread
and each thread of the pool go on, and that handlers return: neither waits for anything but
the mutex, and the one way to wait for ever is the run `hang`. No datagram need arrive and
the console need do nothing. `SilentIsDropped` has two exceptions, both in the code: a client
that is heard again and again, and one that somebody sends to again and again, since sending
resets the timer that should find it gone (`LinuxSocket.cpp:96`). In `client` the threads of
both sides go on and messages arrive, as `ServerMessagesArrive` says of one direction; that
the requests do is taken for granted there. `Agreement` allows the connection to end first.

`udp` uses weak fairness of the timer and of
processing what is at the head of a queue, because both loops call `update` without end,
and strong fairness of accepting the awaited package: a network that loses the same
package every time guarantees nothing. It is stated for the direction from the server. The
client's timer advances only when nothing at all arrives for a second
(`TransferClient.cpp:25`), while the server's advances in every round (`TransferServer.cpp:124`),
so a server that keeps repeating itself can keep a client silent, and nothing is claimed
for what the client sends.

## The theorems

`BetTable_proofs` says of every stake and every number, however large, what the run `bets`
shows of small ones. `Requests` allows any natural number, since `command_bet` sends
whatever is typed that is not negative; `validate` is left to refuse it.

- `WinningPockets`: `wining(n, b)` is true of exactly `Chances(b)` pockets, for each of the
  sixteen types and every number `validate` lets through. The provers do not count, so
  `Numbered` does: a set that a function numbers one by one from `i` to `j` has `j - i + 1`
  elements. The even pockets, the columns, dozens, vertical splits, streets and lines are
  all pockets with some remainder (`ParityPockets`, `RemainderPockets`); the
  colours are numbered by their place in the table of `config.h` (`RedPockets`,
  `BlackPockets`), and the corners are compared block by block (`CornerBlocks`).
- `HouseKeepsEdge`, `SomeCannotWin`: `Spec => []HouseEdge`, `Spec => []BetsThatCannotWin`.
  With `Chances`, the player's sum over a spin of every pocket is his stake times a number
  that depends on the type alone, or on whether a street or a line is one that can win.
- `ZeroPaysFew`, `OneColour`: `Spec => []ZeroPays`, `Spec => []ColoursPartition`. The first
  is not inductive: a ball that lies in a pocket for a bet `validate` would have refused (a
  corner past the end of the table) is no counterexample only because it never does (`Fits`).
- `CornersAreBlocks`: `Spec => []CornersFollowLayout`.

`GameServer_proofs` proves, for all sets of connections, logins and tables, all bets and
all integer widths, from the named assumptions of `GameServer` alone (the guest and the
administrator are two different logins, `None` is nothing else, what is granted has no
seat bit). `CarefulAdmin` may be false, and `SettableLogins` any accounts: these theorems
hold for any administrator who uses the client's command.

- `TypeCorrect`: `Spec => []TypeOK`. The types are not inductive by themselves: `pay`
  reads `users[login2id[login]]` and writes the account of the login it finds there,
  and `leave_player` reads a row of the database for the login of a connection, so the
  maps must agree on what exists. `TypeInv` adds that every login in use has a row
  (`Known`) and that the table of a spin under way is open (`SpinAtTable`).
- `OneConnectionPerLogin`: `Spec => []LoginMapped`. A login is in use on one connection
  at most and `login2id` points there. The test in `do_signin` is enough for that because
  entries only ever disappear together with the user they name: that
  `do_signout` leaves an entry behind is why the invariant is inductive relative to `TypeInv`
  (`MappedNext`).
- `BalanceIsAccount`: `Spec => []BalanceCached`. The balance a bet is compared with is
  the one in the database, at every step of a spin. By `LoginMapped` the only copy of a
  balance is the one `pay` writes through (`CachedNext`).
- `ClientKnowsPermission`: `Spec => []ClientInSync`. Wherever a handler writes a permission
  it tells the same one, but for `do_signout`, which tells GUEST and gives what the guest
  has. That is GUEST as long as nobody sets it (`GuestUnset`); when somebody has, the client
  may take itself for less or more than it is, the one case `ClientInSync` names
  (`GuestAccountSet`). The lemma `AccountsUnseated` (no row has the bits of a seat,
  `RowsUnseated`), which several proofs use, says what follows from `Grants`.
- `SeatsAreTaken`: `Spec => SeatingKept`, from `TypeInv` and `RowsUnseated`. What a handler
  does to permissions is one of four things, each with a lemma: it adds a user, sets one
  permission, restores those of the rows, or removes users (`SeatingAdd`, `SeatingSet`,
  `SeatingRestored`, `SeatingRemoved`); `SeatingNext` has one step per action.
- `TableOfCroupier`: `Spec => []CroupierKeepsTable`. The strengthening `SeatInv` says
  besides that two connections with the permission of a croupier name different tables
  (`OwnTables`); logins cannot tell them apart, since an administrator may make STAFF of
  two guests, who share one. Closing one table therefore takes nobody else's, and a player
  who leaves is not the croupier named there.
- `CapacityKept`: `Spec => []TableCapacity`, for any `MAX_PLAYERS`. Strengthened by the
  finiteness of `session.users` (`AllFit`), without which its size means nothing.

`GameServerBets_proofs` proves `BetsKeptUntilPaid` (`Spec => BetsHonoured`): the bets of
whoever stays at a table are touched by `do_bet` and `clear_bets` only (`KeptNext`), and by
the time of the latter the loop has stopped exactly at the end of each vector, because it
never runs past it (`PaidInRange`). This holds for any administrator. The others assume
`CarefulAdmin` and `NoOverflow`, that no int overflows: 36 times `MaxBalance` fits, and so
does every offer added to a balance that can be reached. The program enforces neither, nor
that a table whose players are richer than `MaxBalance` does not spin; the run `overflow` shows
what happens without it, and the instance `money` satisfies it.

- `BetsAlwaysCovered`: `Spec => []BetsCovered`. `do_bet` compares one sum with one balance,
  once; a spin then changes the balance bet by bet while the others at the table wait. That
  every loss is covered is easy only for the first bet, so the invariant (`MoneyInv`, theorem
  `Money`) counts what is still to be paid: it is at most the balance, no balance is
  negative, and during a spin the balance plus 35 times what is still to be paid is at most
  `36 * MaxBalance` (`Solvent`), so that not even a win of every bet wraps. Each `pay`
  keeps all three (`MoneyPay`), with the range of `Winnings` (`WinningsRange`).
- `sums` is a recursive function. That it exists (`SumsDefined`), grows (`SumsGrow`) and is
  one bet larger after `push_back` (`StakedMore`) would be inductions; the library's
  induction rules are out of the provers' reach, and `LeastElement` (of a set of naturals,
  from the well-foundedness of `<`) and `UpTo` take their place.
- `ServerIsCasino`: `Spec => CasinoImplemented`, the refinement, by one lemma per action of
  `Casino` (`CasinoBet`, `CasinoPay`, ...). It needs the other theorems: a bettor sits
  at one table only (`Matching`, below), the balance `do_bet` reads is the account's
  (`BalanceIsAccount`), `spin_fails` cannot happen (`EverybodyPayable`), and arithmetic does
  not wrap (`Money`). `BetsNext` and `BalancesNext` say once for all handlers who writes bets
  and balances.

`GameServerCareful_proofs` has the theorems that assume `CarefulAdmin`; the runs
`anyadmin` and `terminate` show why. `Matching` is the invariant behind all of
them: `SeatsMatch`, in two halves (`TablesSeeUsers`, `UsersSeeTables`), and three facts it
is not inductive without: a croupier is among the users of the table, so cannot join it
as a player (`CroupierSits`); a guest, whose login stands for many connections, has the
permission GUEST and sits nowhere (`GuestPlain`); and whoever has bets at a table is one
of its users (`BettorsSit`). From it:

- `SeatsInStep`: `Spec => []SeatsMatch`.
- `DisconnectionReturns`: `Spec => []NeverTerminated`; `disconnect_throws` has no state it
  could be taken in (`NothingThrows`).
- `SpinPaysAll`: `Spec => SpinSettles`; whoever has a bet is seated, so `get_id` and
  `get_user` find him (`EverybodyPayable`).
- `OnlyBettorsPaid`: `Spec => PaidToBettor`; the connection paid is the bettor's.

`TableTalk_proofs` stands on the same invariants, gathered as `Context`:

- `TalkStaysAlways`, `RolesShownAlways`: `Spec => []TalkStaysAtTable` and
  `Spec => []RolesShown`, under `CarefulAdmin`. `TableOf` says of somebody seated what the
  invariants say of the whole table; from there both are about one table.
- `TablesShownAlways`: `Spec => []TablesShown`, under `CarefulAdmin`. `PlayersCounted` makes
  `login2id` a bijection between the users of a table and the connections seated there;
  `AllFit` bounds their number, and the croupier is one.
- `BetsShownAlways`: `Spec => []BetsShown`, under `NoOverflow` too, from `BetsAlwaysCovered`,
  `BalanceIsAccount` and `BettorsSit`.

`TransferServer_proofs` assumes that the bounds are naturals and nothing of the numbers of
clients and threads:

- `TypeCorrect`, `OneTaskAlways`: `Spec => []TypeOK`, `Spec => []OneTask`; the latter is
  inductive, but a change of `pool` and `worker` has to be followed through positions of a
  sequence (`OneTaskUpdate`, `OneTaskBegin`, `OneTaskEnd`).
- `HandlesSerially`: `Spec => HandlingSerial`, the refinement. The state it needs is in
  `InOrder`: what has been handled and what is in the buffer are together the numbers from 0
  up to the one awaited. `update` maps to `Arrive`, `take` to `Begin` (by `OneTask` nobody
  else is at it), `handle` to `End`, and every other step to a stutter.
- `OwnSessionAlways`: `Spec => []OwnSession`. The strengthening `Maps` follows the two maps
  through the moments in which one has an entry and the other has not yet, or no longer:
  the loop between `receive` and `connect_handle`, a kill between its two erasures, and both
  at once, after which the connection is one of `orphans` and the property says nothing.

`Conversation_proofs` assumes naturals and accounts without the bits of a seat:

- `TypeCorrect`: `Spec => []TypeOK`.
- `RefusedWhenStaleAlways`: `Spec => RefusedWhenStale`. `Asked` says that every request
  under way was allowed to the permission it was typed with; `SameTables` compares the two
  tables, and a change to either breaks it.
- `KeyComesFirstAlways`: `Spec => []KeyComesFirst`, whatever the number of messages. A
  conversation that no exception has befallen is in one of four phases (`Phases`): nothing
  is ciphered yet (`Fresh`); the answer to the key is being made and nobody else may speak
  (`Greeting`); it is under way alone or ahead of everything else (`Greeted`); the client
  has it and all that follows is ciphered by it (`Talking`). Each action keeps the phase
  or moves to the next.
- `AgreeAtRestAlways`: `Spec => []AgreeAtRest`. The invariant `Latest` says where the server's
  permission is, if nothing named has befallen it: one of the threads is about to send it, or
  else it is the last permission on its way to the client, or none is on its way and it is
  the client's. `Greets` says that whoever handles commands has sent the key, so that its
  sending cannot fail and lose a permission.
- `SeatingRefined`: `Spec => SeatingImplemented`. The invariant it needs is that the account
  guest has no seat (`GuestUnseated`): a sign-out returns what the latest
  `set_guest_permission` has written.

`UdpSocket_proofs` needs no more than the assumptions of `UdpSocket` for the types:

- `TypeCorrect`: `Spec => []TypeOK`, under every fault. `FlattenSeq` is a recursive function
  that `CHOOSE` picks; `Flattened` shows that it exists and has its values in `Seq(S)`,
  counting on `NoDescent` (no set of numbers from 1 to `n` but the empty one is closed
  under going down by one)
  where the provers have no induction.

The other two assume `Reliable`: a network that may lose packages but does nothing else to
them, and `MaxUnacked < ID_MODULUS`, fewer unacknowledged messages than the 256 ids a
`char` has. The program enforces neither, and neither can be dropped: on instances of three
messages TLC refutes `StreamImplemented` with as many messages kept as there are ids, and
with reordering, and `UndeliveredKept` with duplicates. The invariant, `InOrder`, counts
messages where the code has ids: `Done`, those of which a receiver has taken every package,
and `Popped`, those a SUCCESS has taken off.

- `Sending`: the `send_buffer` is what was sent after the first `Popped` messages, which have
  all come. `Receiving`: the id awaited is `Done` modulo `ID_MODULUS`, and the buffer holds
  the first pieces of that message. A full message is pushed one package before it is done.
- `OnTheWay`: every package on the way has the number of a message. The numbers of the
  SUCCESSes ascend and lie between `Popped` and `Done`, so each one takes off a message that
  has come (`Acknowledged`). Those of the texts are within `MaxUnacked` of one another and
  of `Done`, so a package with the awaited id belongs to the awaited message and not to one
  a whole round of ids away (`SameRemainder`, `NextOneTaken`).
- `StreamAlways`: `Spec => StreamImplemented`. `buffered_send` maps to `Send`, `accepted` to
  `Arrive` when it completes a message, and every other step to a stutter.
- `UndeliveredKeptAlways`: `Spec => []UndeliveredKept`, from `Sending` and `Receiving`.

Each proof has one step per action of `Next`; what several actions share (`add_user`,
`local_set_user_permission`, `leave_players`, `pay`) is a lemma about that helper.

Only model-checked: what must eventually happen (`SilentIsDropped`, `ArrivedIsHandled`,
`Agreement`, `ServerMessagesArrive`), which needs `ENABLED`. The theorems about
`GameServer` speak of handlers one at a time, and the bounds `MaxBets`, `MinBalance` and
`MaxBalance` of any size.

## The plan

Done: `Permissions`, `Bets`, `GameServer` over `Casino`, `TableTalk`, `UdpSocket` over
`ReliableStream`, `TransferServer` over `SerialHandling`, `Conversation`, `HandlerRaces`,
`Seating` under `GameServer` and `Conversation`, and the theorems above.

`HandlerRaces` stays with the three handlers it has. Leaving, kicking and disconnecting
would refute further invariants of `GameServer` in the way `OneCroupier` is
refuted, two threads between their tests and their writes, and show nothing new about the code.

Not modelled, and not planned: the TCP transport (`CMakeLists.txt` builds UDP), the echo
server and client of `simple/`, `playground.cpp`, the splitting of a line into words and the
help (no state), the cryptography itself, errors of the system calls, and data races on one
container, which are undefined behaviour. `unsafe_kill` hands `disconnect_handle` a reference
to an identifier that has just been freed; the models take the value to be unchanged.
That a connection may be dropped too early, because the timers count rounds and not time,
and that EXIT is ignored, are hazards without a property: what the code does there is plain,
and no line of the repository says otherwise.
