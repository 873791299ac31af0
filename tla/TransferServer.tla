--------------------------- MODULE TransferServer ---------------------------
(***************************************************************************)
(* transfer/udp/TransferServer.cpp with the maps of SessionServer.cpp: one *)
(* thread receives datagrams and runs the timers, a pool of threads runs   *)
(* one task per connection that has messages, and a console kills and      *)
(* stops.  A Connection outlives its entry in the map as long as a task    *)
(* holds its shared_ptr, so each is known by its id and a number of its    *)
(* own.  The threads share receive_buffer, free and close as the code does *)
(* and its single accesses are taken to be atomic.                         *)
(***************************************************************************)
EXTENDS Integers, Sequences

CONSTANTS
    Ids,                \* identifier_t: the addresses of the clients
    Threads,            \* of the pool: NUM_THREADS of them
    None,               \* no task
    DISCONNECT_TIMEOUT, \* in units of TIMEOUT_MSEC: 60 in the program
    MaxMessages,        \* bound: messages in the conversation of a client
    MaxConnections      \* bound: connections of one client, one after another

Links == Ids \X (1 .. MaxConnections)

ASSUME TransferAssumption ==
    /\ {DISCONNECT_TIMEOUT, MaxMessages, MaxConnections} \subseteq Nat
    /\ None \notin Links

VARIABLES
    connections,   \* id -> number of its Connection in the map, or 0
    clients,       \* id -> number of the connection its session was made for, or 0
    erased,        \* ids without an entry whose disconnect_handle is still to come:
                   \* whoever kills them holds the mutex
    opened,        \* id -> how many connections it has had
    connection,    \* link -> fields of the Connection and its socket
    handled,       \* link -> messages its tasks have received
    pool,          \* links whose task waits for a thread
    worker,        \* thread -> the task it runs
    loop,          \* the thread of run(): where it is and with what
    stop_requests,
    defined,       \* FALSE: undefined behaviour has happened
    orphans        \* history: links whose connect_handle fell into a kill of their id

vars == <<connections, clients, erased, opened, connection, handled, pool, worker, loop,
          stop_requests, defined, orphans>>

NewConnection ==
    [receive_buffer |-> <<>>, expected_id |-> 0, disconnect_timeout |-> 0,
     free |-> TRUE, close |-> FALSE]

Idle == [link |-> None, at |-> "idle", close |-> FALSE, session |-> 0]

Waiting == [at |-> "epoll_wait", link |-> None, package_id |-> 0]

Init ==
    /\ connections = [id \in Ids |-> 0] /\ clients = [id \in Ids |-> 0]
    /\ opened = [id \in Ids |-> 0]
    /\ connection = [l \in Links |-> NewConnection]
    /\ handled = [l \in Links |-> <<>>]
    /\ pool = <<>>
    /\ worker = [w \in Threads |-> Idle]
    /\ loop = Waiting
    /\ stop_requests = FALSE /\ defined = TRUE
    /\ erased = {} /\ orphans = {}

\* The Connection that the map holds for id.
Of(id) == <<id, connections[id]>>

Alive(l) == connections[l[1]] = l[2]
-----------------------------------------------------------------------------
(* run(): epoll_wait returns with a datagram or, at last, without one.     *)

\* A datagram with a message of the client, new or repeated; another kind (a
\* SUCCESS, an EXIT) is to the server what a message is that it has had.  None
\* of this takes the mutex.
receive(id, package_id) ==
    /\ defined /\ loop.at = "epoll_wait" /\ ~stop_requests
    /\ IF connections[id] # 0
       THEN /\ loop' = [at |-> "update", link |-> Of(id), package_id |-> package_id]
            /\ UNCHANGED <<connections, opened>>
       ELSE /\ opened[id] < MaxConnections
            /\ opened' = [opened EXCEPT ![id] = @ + 1]
            /\ connections' = [connections EXCEPT ![id] = opened[id] + 1]
            /\ loop' = [at |-> "connect_handle", link |-> <<id, opened[id] + 1>>,
                        package_id |-> package_id]
    /\ UNCHANGED <<clients, erased, connection, handled, pool, worker, stop_requests,
                   defined, orphans>>

\* emplace leaves an entry alone that is there.
connect_handle ==
    LET id == loop.link[1]
    IN  /\ defined /\ loop.at = "connect_handle"
        /\ clients' = [clients EXCEPT ![id] = IF @ = 0 THEN loop.link[2] ELSE @]
        /\ orphans' = IF id \in erased THEN orphans \cup {loop.link} ELSE orphans
        /\ loop' = [loop EXCEPT !.at = "update"]
        /\ UNCHANGED <<connections, erased, opened, connection, handled, pool, worker,
                       stop_requests, defined>>

\* Mutant: every package is the one waited for.
AcceptedAny(c, package_id) ==
    [c EXCEPT !.receive_buffer = Append(@, package_id), !.expected_id = @ + 1,
              !.disconnect_timeout = 0]

Accepted(c, package_id) ==
    LET new == package_id = c.expected_id
    IN  [c EXCEPT !.receive_buffer = IF new THEN Append(@, package_id) ELSE @,
                  !.expected_id = IF new THEN @ + 1 ELSE @,
                  !.disconnect_timeout = 0]

update ==
    /\ defined /\ loop.at = "update" /\ Alive(loop.link)
    /\ connection' = [connection EXCEPT ![loop.link] = Accepted(@, loop.package_id)]
    /\ loop' = [loop EXCEPT !.at = "empty"]
    /\ UNCHANGED <<connections, clients, erased, opened, handled, pool, worker,
                   stop_requests, defined, orphans>>

\* if (!empty())
empty ==
    /\ defined /\ loop.at = "empty" /\ Alive(loop.link)
    /\ loop' = IF connection[loop.link].receive_buffer # <<>>
               THEN [loop EXCEPT !.at = "handle_connection"]
               ELSE [Waiting EXCEPT !.at = "update_timeout"]
    /\ UNCHANGED <<connections, clients, erased, opened, connection, handled, pool, worker,
                   stop_requests, defined, orphans>>

\* Mutant: handle_connection without connection->free = false.
Busy(c) == c
Engaged(c) == [c EXCEPT !.free = FALSE]

\* The connection gets a task unless it has one.  It is the caller's copy of the
\* pointer by now, so its entry in the map may have gone.
handle_connection ==
    LET l == loop.link
    IN  /\ defined /\ loop.at = "handle_connection"
        /\ IF connection[l].free
           THEN /\ connection' = [connection EXCEPT ![l] = Engaged(@)]
                /\ pool' = Append(pool, l)
           ELSE UNCHANGED <<connection, pool>>
        /\ loop' = [Waiting EXCEPT !.at = "update_timeout"]
        /\ UNCHANGED <<connections, clients, erased, opened, handled, worker, stop_requests,
                       defined, orphans>>

\* Of a connection that was killed, connections[id] makes a null pointer; killed
\* later, up to the copy, it leaves a reference into the map to nothing.
update_null ==
    /\ defined /\ loop.at \in {"update", "empty", "handle_connection"} /\ ~Alive(loop.link)
    /\ defined' = FALSE
    /\ UNCHANGED <<connections, clients, erased, opened, connection, handled, pool, worker,
                   loop, stop_requests, orphans>>
-----------------------------------------------------------------------------
(* The end of a round: every connection's timer, then the ones to close.   *)

Live == {Of(id) : id \in {i \in Ids : connections[i] # 0}}

\* Mutant: a connection with messages to handle is not silent.
ExpiresIdle(c) == c.disconnect_timeout = DISCONNECT_TIMEOUT /\ c.receive_buffer = <<>>

\* disconnect_timeout += timeout, compared with >; what is beyond the limit is
\* all the same.
Expires(c) == c.disconnect_timeout = DISCONNECT_TIMEOUT

Ticked(c) ==
    [c EXCEPT !.disconnect_timeout = IF @ = DISCONNECT_TIMEOUT THEN @ ELSE @ + 1,
              !.close = @ \/ Expires(c)]

\* After a datagram, or after epoll_wait has waited TIMEOUT_MSEC for one.
update_timeout ==
    /\ defined
    /\ loop.at = "update_timeout" \/ (loop.at = "epoll_wait" /\ ~stop_requests)
    /\ connection' = [l \in Links |-> IF l \in Live THEN Ticked(connection[l])
                                      ELSE connection[l]]
    /\ loop' = [Waiting EXCEPT !.at = "disconnect"]
    /\ UNCHANGED <<connections, clients, erased, opened, handled, pool, worker, stop_requests,
                   defined, orphans>>

\* What is in the map no more lives as long as a task holds it, but its timer and
\* close are read by nobody: what is left in them is left out.
Unlinked(c) == [c EXCEPT !.disconnect_timeout = 0, !.close = FALSE]

\* unsafe_kill of ids, with the mutex: the entries in the map go now and
\* disconnect_handle follows for each.  The code does both for one id before it
\* looks at the next; only who has the mutex, or is the loop, could tell.
unsafe_kill(ids) ==
    /\ erased = {}
    /\ connections' = [id \in Ids |-> IF id \in ids THEN 0 ELSE connections[id]]
    /\ connection' = [l \in Links |-> IF l[1] \in ids /\ Alive(l) THEN Unlinked(connection[l])
                                      ELSE connection[l]]
    /\ erased' = ids
    /\ UNCHANGED <<clients, opened, handled, pool, worker, stop_requests, defined, orphans>>

\* Mutant: SessionServer::disconnect_handle without clients.erase.
Remembered(id) == clients

Forgotten(id) == [clients EXCEPT ![id] = 0]

\* With the last one the mutex is free and the loop, if it was the killer, goes on.
disconnect_handle(id) ==
    /\ defined /\ id \in erased
    /\ clients' = Forgotten(id)
    /\ erased' = erased \ {id}
    /\ loop' = IF loop.at = "unsafe_kill" /\ erased = {id} THEN Waiting ELSE loop
    /\ UNCHANGED <<connections, opened, connection, handled, pool, worker, stop_requests,
                   defined, orphans>>

disconnect_unavailable_connections ==
    LET ids == {id \in Ids : connections[id] # 0 /\ connection[Of(id)].close}
    IN  /\ defined /\ loop.at = "disconnect"
        /\ unsafe_kill(ids)
        /\ loop' = IF ids = {} THEN Waiting ELSE [Waiting EXCEPT !.at = "unsafe_kill"]

disconnect_connections ==
    /\ defined /\ loop.at = "epoll_wait" /\ stop_requests
    /\ unsafe_kill({id \in Ids : connections[id] # 0})
    /\ loop' = [Waiting EXCEPT !.at = "end"]
-----------------------------------------------------------------------------
(* The console: one thread, which reads no command while it executes the   *)
(* last one, and none once it has told the server to stop.                 *)

kill(id) ==
    /\ defined /\ connections[id] # 0 /\ ~stop_requests
    /\ unsafe_kill({id})
    /\ UNCHANGED loop

\* The console, and any handler, may send to anybody; that, too, is a sign of
\* life to the timer.
send(id) ==
    /\ defined /\ connections[id] # 0 /\ erased = {}
    /\ connection' = [connection EXCEPT ![Of(id)].disconnect_timeout = 0]
    /\ UNCHANGED <<connections, clients, erased, opened, handled, pool, worker, loop,
                   stop_requests, defined, orphans>>

stop ==
    /\ defined /\ ~stop_requests
    /\ erased # {} => loop.at = "unsafe_kill"
    /\ stop_requests' = TRUE
    /\ UNCHANGED <<connections, clients, erased, opened, connection, handled, pool, worker, loop,
                   defined, orphans>>
-----------------------------------------------------------------------------
(* task(), on a thread w of the pool.                                      *)

Begun(l) == [link |-> l, at |-> "test", close |-> FALSE, session |-> 0]

begin(w) ==
    /\ defined /\ worker[w] = Idle /\ pool # <<>>
    /\ worker' = [worker EXCEPT ![w] = Begun(Head(pool))]
    /\ pool' = Tail(pool)
    /\ UNCHANGED <<connections, clients, erased, opened, connection, handled, loop, stop_requests,
                   defined, orphans>>

HasMore(w) == ~worker[w].close /\ connection[worker[w].link].receive_buffer # <<>>

\* receive(), and SessionServer::handle looks the session up ...
take(w) ==
    LET l == worker[w].link
    IN  /\ defined /\ worker[w].at = "test" /\ HasMore(w)
        /\ clients[l[1]] # 0
        /\ handled' = [handled EXCEPT ![l] = Append(@, Head(connection[l].receive_buffer))]
        /\ connection' = [connection EXCEPT ![l].receive_buffer = Tail(@)]
        /\ worker' = [worker EXCEPT ![w].at = "handle", ![w].session = clients[l[1]]]
        /\ UNCHANGED <<connections, clients, erased, opened, pool, loop, stop_requests,
                   defined, orphans>>

\* ... and works on it.  The lambda around it returns nothing, so the result
\* is whatever there is; an exception means TRUE.
handle(w) ==
    /\ defined /\ worker[w].at = "handle"
    /\ clients[worker[w].link[1]] = worker[w].session
    /\ \E close \in BOOLEAN :
           worker' = [worker EXCEPT ![w].at = "test", ![w].close = close, ![w].session = 0]
    /\ UNCHANGED <<connections, clients, erased, opened, connection, handled, pool, loop,
                   stop_requests, defined, orphans>>

\* The session is not there, or is erased while a handler refers to it.
handle_undefined(w) ==
    /\ defined
    /\ \/ worker[w].at = "test" /\ HasMore(w) /\ clients[worker[w].link[1]] = 0
       \/ worker[w].at = "handle" /\ clients[worker[w].link[1]] # worker[w].session
    /\ defined' = FALSE
    /\ UNCHANGED <<connections, clients, erased, opened, connection, handled, pool, worker,
                   loop, stop_requests, orphans>>

finish(w) ==
    /\ defined /\ worker[w].at = "test" /\ ~HasMore(w)
    /\ worker' = [worker EXCEPT ![w].at = "end"]
    /\ UNCHANGED <<connections, clients, erased, opened, connection, handled, pool, loop,
                   stop_requests, defined, orphans>>

\* Mutant: a task that ends without connection->free = true.
NeverFreed(c, close) == [c EXCEPT !.close = close]

\* Under connection->mutex; what the timer wrote to close is overwritten.
Freed(c, close) == [c EXCEPT !.close = close, !.free = TRUE]

end(w) ==
    LET l == worker[w].link
    IN  /\ defined /\ worker[w].at = "end"
        /\ connection' = [connection EXCEPT ![l] = Freed(@, worker[w].close /\ Alive(l))]
        /\ worker' = [worker EXCEPT ![w] = Idle]
        /\ UNCHANGED <<connections, clients, erased, opened, handled, pool, loop,
                       stop_requests, defined, orphans>>
-----------------------------------------------------------------------------
arrive(id) == \E package_id \in 0 .. MaxMessages - 1 : receive(id, package_id)

run == \/ \E id \in Ids : arrive(id)
       \/ connect_handle \/ update \/ empty \/ handle_connection \/ update_null
       \/ update_timeout
       \/ disconnect_unavailable_connections \/ disconnect_connections

task(w) == begin(w) \/ take(w) \/ handle(w) \/ handle_undefined(w)
           \/ finish(w) \/ end(w)

Next ==
    \/ run \/ stop
    \/ \E id \in Ids : kill(id) \/ send(id) \/ disconnect_handle(id)
    \/ \E w \in Threads : task(w)

Spec == Init /\ [][Next]_vars

\* The threads go on, who has the mutex too; handlers return.
FairSpec ==
    /\ Spec /\ WF_vars(run)
    /\ \A id \in Ids : WF_vars(disconnect_handle(id))
    /\ \A w \in Threads : WF_vars(task(w))
-----------------------------------------------------------------------------
Connection ==
    [receive_buffer     : Seq(0 .. MaxMessages - 1),
     expected_id        : 0 .. MaxMessages,
     disconnect_timeout : 0 .. DISCONNECT_TIMEOUT,
     free               : BOOLEAN,
     close              : BOOLEAN]

Task == [link : Links, at : {"test", "handle", "end"}, close : BOOLEAN,
         session : 0 .. MaxConnections]

Round == [at : {"connect_handle", "update", "empty", "handle_connection"}, link : Links,
          package_id : 0 .. MaxMessages - 1]
         \cup [at : {"epoll_wait", "update_timeout", "disconnect", "unsafe_kill", "end"},
               link : {None}, package_id : {0}]

TypeOK ==
    /\ connections \in [Ids -> 0 .. MaxConnections]
    /\ clients \in [Ids -> 0 .. MaxConnections]
    /\ opened \in [Ids -> 0 .. MaxConnections]
    /\ connection \in [Links -> Connection]
    /\ handled \in [Links -> Seq(0 .. MaxMessages - 1)]
    /\ pool \in Seq(Links)
    /\ worker \in [Threads -> Task \cup {Idle}]
    /\ loop \in Round
    /\ stop_requests \in BOOLEAN /\ defined \in BOOLEAN
    /\ erased \subseteq Ids /\ orphans \subseteq Links

\* A connection has one task, waiting or running, exactly while it is not free:
\* the flag, written by two threads, never loses a task and never lets a second
\* one start.
OneTask ==
    /\ \A l \in Links : ~connection[l].free <=>
           (\E i \in DOMAIN pool : pool[i] = l) \/ (\E w \in Threads : worker[w].link = l)
    /\ \A i, j \in DOMAIN pool : pool[i] = pool[j] => i = j
    /\ \A i \in DOMAIN pool, w \in Threads : worker[w].link # pool[i]
    /\ \A v, w \in Threads : worker[v].link = worker[w].link /\ worker[v] # Idle => v = w

\* The pool handles the messages of a connection as SerialHandling says,
\* whatever else runs, is dropped or is connected again meanwhile.
Handling == INSTANCE SerialHandling WITH
    Links   <- Links,
    arrived <- [l \in Links |-> connection[l].expected_id],
    handled <- handled,
    busy    <- [l \in Links |-> \E w \in Threads :
                   worker[w].link = l /\ worker[w].at = "handle"]

HandlingSerial == Handling!Spec

\* A handler works on the session that its own connection opened, unless that
\* connection has been dropped behind its back, or came while the console was
\* killing the one before it, whose session was perhaps still there.
OwnSession ==
    \A w \in Threads :
        LET l == worker[w].link
        IN  worker[w].at = "handle" /\ Alive(l) /\ l \notin orphans =>
                worker[w].session = l[2] /\ clients[l[1]] = l[2]

\* Whoever is connected, and has been through connect_handle, has a session of
\* its own: what a server that accepts connections promises.
Connected ==
    \A id \in Ids :
        connections[id] = 0 \/ clients[id] = connections[id]
            \/ (loop.at = "connect_handle" /\ loop.link = Of(id))

\* A client that falls silent is dropped, unless somebody keeps sending to it,
\* although the flag its timer sets may be overwritten by a task that ends.
SilentIsDropped ==
    \A id \in Ids :
        \/ []<><<arrive(id)>>_vars
        \/ []<><<send(id)>>_vars
        \/ []<>(connections[id] = 0 \/ ~defined)

\* The messages that have arrived are handled or their connection goes, with the
\* same exception: one may be left behind by a task that has just seen an empty
\* buffer, and then it takes another datagram or the timer to end the wait.
ArrivedIsHandled ==
    \A l \in Links :
        \/ []<><<send(l[1])>>_vars
        \/ []<>(connection[l].receive_buffer = <<>> \/ connections[l[1]] # l[2] \/ ~defined)
=============================================================================
