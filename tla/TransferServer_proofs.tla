------------------------ MODULE TransferServer_proofs ------------------------
(***************************************************************************)
(* Theorems about TransferServer for any set of clients, any number of     *)
(* threads and any bounds: the type invariant, one task per connection,    *)
(* the refinement of SerialHandling, and that a handler works on a session *)
(* of its own connection.                                                  *)
(***************************************************************************)
EXTENDS TransferServer, SequenceTheorems, TLAPS

\* What the assumption says of each constant.
LEMMA Bounds ==
    DISCONNECT_TIMEOUT \in Nat /\ MaxMessages \in Nat /\ MaxConnections \in Nat
    /\ None \notin Links
  BY TransferAssumption

\* What update() makes of a connection is a connection.
LEMMA AcceptedType ==
    ASSUME NEW c \in Connection, NEW p \in 0 .. MaxMessages - 1
    PROVE  Accepted(c, p) \in Connection /\ Engaged(Accepted(c, p)) \in Connection
<1> USE Bounds
<1>1. Append(c.receive_buffer, p) \in Seq(0 .. MaxMessages - 1)
  BY AppendProperties DEF Connection
<1> DEFINE b == IF p = c.expected_id THEN Append(c.receive_buffer, p) ELSE c.receive_buffer
           e == IF p = c.expected_id THEN c.expected_id + 1 ELSE c.expected_id
<1>2. b \in Seq(0 .. MaxMessages - 1)
  BY <1>1 DEF Connection
<1>3. e \in 0 .. MaxMessages
  BY DEF Connection
<1>4. Accepted(c, p) = [c EXCEPT !.receive_buffer = b, !.expected_id = e,
                                 !.disconnect_timeout = 0]
  BY DEF Accepted
<1> HIDE DEF b, e
<1>5. Accepted(c, p) \in Connection
  <2>1. Accepted(c, p) = [receive_buffer |-> b, expected_id |-> e,
                          disconnect_timeout |-> 0, free |-> c.free, close |-> c.close]
    BY <1>4 DEF Connection
  <2>2. c.free \in BOOLEAN /\ c.close \in BOOLEAN /\ 0 \in 0 .. DISCONNECT_TIMEOUT
    BY DEF Connection
  <2>3. QED
    BY <1>2, <1>3, <2>1, <2>2 DEF Connection
<1>6. QED
  BY <1>5 DEF Connection, Engaged

\* So is what a timer makes of it.
LEMMA TickedType ==
    ASSUME NEW c \in Connection
    PROVE  Ticked(c) \in Connection
<1> USE Bounds
<1> DEFINE t == IF c.disconnect_timeout = DISCONNECT_TIMEOUT THEN c.disconnect_timeout
                ELSE c.disconnect_timeout + 1
           x == c.close \/ Expires(c)
<1>1. t \in 0 .. DISCONNECT_TIMEOUT
  BY DEF Connection
<1>2. x \in BOOLEAN
  OBVIOUS
<1>3. Ticked(c) = [c EXCEPT !.disconnect_timeout = t, !.close = x]
  BY DEF Ticked
<1> HIDE DEF t, x
<1>4. QED
  BY <1>1, <1>2, <1>3 DEF Connection

\* A kill keeps of a connection what its tasks read.
LEMMA KilledConnection ==
    ASSUME TypeOK, NEW ids \in SUBSET Ids, unsafe_kill(ids)
    PROVE  /\ connection' \in [Links -> Connection]
           /\ \A l \in Links : /\ connection'[l].receive_buffer = connection[l].receive_buffer
                              /\ connection'[l].expected_id = connection[l].expected_id
                              /\ connection'[l].free = connection[l].free
<1>1. ASSUME NEW c \in Connection
      PROVE  /\ Unlinked(c) \in Connection
             /\ Unlinked(c).receive_buffer = c.receive_buffer
             /\ Unlinked(c).expected_id = c.expected_id
             /\ Unlinked(c).free = c.free
  <2>1. ASSUME NEW t \in 0 .. DISCONNECT_TIMEOUT, NEW x \in BOOLEAN
        PROVE  LET d == [c EXCEPT !.disconnect_timeout = t, !.close = x]
               IN  /\ d \in Connection /\ d.receive_buffer = c.receive_buffer
                   /\ d.expected_id = c.expected_id /\ d.free = c.free
    BY DEF Connection
  <2>2. 0 \in 0 .. DISCONNECT_TIMEOUT
    BY Bounds
  <2>3. QED
    BY <2>1, <2>2 DEF Unlinked
<1>2. \A l \in Links : connection[l] \in Connection
  BY DEF TypeOK
<1>3. /\ DOMAIN connection' = Links
      /\ connection' = [l \in Links |-> connection'[l]]
      /\ \A l \in Links : connection'[l] = connection[l] \/ connection'[l] = Unlinked(connection[l])
  BY DEF unsafe_kill
<1>4. QED
  BY <1>1, <1>2, <1>3

\* A task that begins is one, and stays one when a handler has returned.
LEMMA TaskBegun == \A l \in Links : Begun(l) \in Task
  BY Bounds DEF Begun, Task

LEMMA TaskSet ==
    ASSUME NEW t \in Task, NEW x \in BOOLEAN, NEW session \in 0 .. MaxConnections
    PROVE  [t EXCEPT !.at = "test", !.close = x, !.session = session] \in Task
  BY DEF Task

LEMMA TaskHandled ==
    ASSUME NEW t \in Task, NEW x \in BOOLEAN
    PROVE  [t EXCEPT !.at = "test", !.close = x, !.session = 0] \in Task
<1>1. 0 \in 0 .. MaxConnections
  BY Bounds
<1>2. QED
  BY <1>1, TaskSet

\* A link is a client and the number of one of its connections.
LEMMA LinkParts ==
    ASSUME NEW l \in Links
    PROVE  l[1] \in Ids /\ l[2] \in 1 .. MaxConnections /\ l[2] # 0
  BY Bounds DEF Links

\* While it has a datagram the loop has a link and a message.
LEMMA LoopLink ==
    ASSUME TypeOK, loop.at \in {"connect_handle", "update", "empty", "handle_connection"}
    PROVE  loop.link \in Links /\ loop.package_id \in 0 .. MaxMessages - 1
  BY DEF TypeOK, Round

\* It keeps them when it goes on.
LEMMA LoopMoves ==
    ASSUME TypeOK, loop.at \in {"connect_handle", "update", "empty", "handle_connection"},
           NEW at \in {"connect_handle", "update", "empty", "handle_connection"}
    PROVE  [loop EXCEPT !.at = at] \in Round
  BY DEF TypeOK, Round

\* Types hold in the initial states.
LEMMA TypeInit == Init => TypeOK
<1> USE Bounds
<1> SUFFICES ASSUME Init PROVE TypeOK
  OBVIOUS
<1>1. NewConnection \in Connection
  BY DEF NewConnection, Connection
<1>2. Waiting \in Round
  BY DEF Waiting, Round
<1>3. <<>> \in Seq(0 .. MaxMessages - 1) /\ <<>> \in Seq(Links)
  OBVIOUS
<1>4. connection \in [Links -> Connection] /\ handled \in [Links -> Seq(0 .. MaxMessages - 1)]
  BY <1>1, <1>3 DEF Init
<1>5. /\ connections \in [Ids -> 0 .. MaxConnections]
      /\ clients \in [Ids -> 0 .. MaxConnections]
      /\ opened \in [Ids -> 0 .. MaxConnections]
  BY DEF Init
<1>6. worker \in [Threads -> Task \cup {Idle}] /\ pool \in Seq(Links) /\ loop \in Round
      /\ stop_requests \in BOOLEAN /\ defined \in BOOLEAN
      /\ erased \subseteq Ids /\ orphans \subseteq Links
  BY <1>2, <1>3 DEF Init
<1>7. QED
  BY <1>4, <1>5, <1>6 DEF TypeOK

\* A step keeps the types.
LEMMA TypeStep == TypeOK /\ [Next]_vars => TypeOK'
<1> USE Bounds
<1> SUFFICES ASSUME TypeOK, [Next]_vars PROVE TypeOK'
  OBVIOUS
<1> USE DEF TypeOK
<1>1. ASSUME NEW id \in Ids, NEW p \in 0 .. MaxMessages - 1, receive(id, p) PROVE TypeOK'
  <2>1. loop' \in Round
    <3>1. CASE connections[id] # 0
      <4>1. Of(id) \in Links
        BY <3>1 DEF Of, Links
      <4>2. loop' = [at |-> "update", link |-> Of(id), package_id |-> p]
        BY <1>1, <3>1 DEF receive
      <4>3. QED
        BY <4>1, <4>2 DEF Round
    <3>2. CASE connections[id] = 0
      <4>1. <<id, opened[id] + 1>> \in Links
        BY <1>1, <3>2 DEF receive, Links
      <4>2. loop' = [at |-> "connect_handle", link |-> <<id, opened[id] + 1>>,
                     package_id |-> p]
        BY <1>1, <3>2 DEF receive
      <4>3. QED
        BY <4>1, <4>2 DEF Round
    <3>3. QED
      BY <3>1, <3>2
  <2>2. connections' \in [Ids -> 0 .. MaxConnections] /\ opened' \in [Ids -> 0 .. MaxConnections]
    <3>1. CASE connections[id] # 0
      BY <1>1, <3>1 DEF receive
    <3>2. CASE connections[id] = 0
      <4>1. opened[id] + 1 \in 0 .. MaxConnections
        BY <1>1, <3>2 DEF receive
      <4>2. /\ connections' = [connections EXCEPT ![id] = opened[id] + 1]
            /\ opened' = [opened EXCEPT ![id] = opened[id] + 1]
        BY <1>1, <3>2 DEF receive
      <4>3. QED
        BY <4>1, <4>2
    <3>3. QED
      BY <3>1, <3>2
  <2>3. QED
    BY <1>1, <2>1, <2>2 DEF receive
<1>2. CASE connect_handle
  <2>1. loop.link \in Links /\ loop.package_id \in 0 .. MaxMessages - 1
    BY <1>2, LoopLink DEF connect_handle
  <2>2. loop.link[1] \in Ids /\ loop.link[2] \in 1 .. MaxConnections
    BY <2>1, LinkParts
  <2>3. loop' \in Round
    BY <1>2, LoopMoves DEF connect_handle
  <2>4. clients' \in [Ids -> 0 .. MaxConnections]
    <3> DEFINE n == IF clients[loop.link[1]] = 0 THEN loop.link[2] ELSE clients[loop.link[1]]
    <3>1. clients' = [clients EXCEPT ![loop.link[1]] = n]
      BY <1>2 DEF connect_handle
    <3>2. n \in 0 .. MaxConnections
      BY <2>2
    <3> HIDE DEF n
    <3>3. QED
      BY <2>2, <3>1, <3>2
  <2>5. orphans' \subseteq Links
    BY <1>2, <2>1 DEF connect_handle
  <2>6. QED
    BY <1>2, <2>3, <2>4, <2>5 DEF connect_handle
<1>3. CASE update
  <2> DEFINE l == loop.link
             d == Accepted(connection[l], loop.package_id)
  <2>1. l \in Links /\ loop.package_id \in 0 .. MaxMessages - 1
    BY <1>3, LoopLink DEF update
  <2>2. d \in Connection
    BY <2>1, AcceptedType
  <2>3. connection' = [connection EXCEPT ![l] = d]
    BY <1>3, <2>1 DEF update
  <2> HIDE DEF d
  <2>4. connection' \in [Links -> Connection]
    BY <2>2, <2>3
  <2>5. loop' \in Round
    BY <1>3, LoopMoves DEF update
  <2>6. QED
    BY <1>3, <2>4, <2>5 DEF update
<1>21. CASE empty
  <2>1. loop' \in Round
    BY <1>21, LoopMoves DEF empty, Waiting, Round
  <2>2. QED
    BY <1>21, <2>1 DEF empty
<1>22. CASE handle_connection
  <2> DEFINE l == loop.link
             d == Engaged(connection[l])
  <2>1. l \in Links
    BY <1>22, LoopLink DEF handle_connection
  <2>2. d \in Connection
    BY <2>1 DEF Engaged, Connection
  <2>3. connection' = connection \/ connection' = [connection EXCEPT ![l] = d]
    BY <1>22, <2>1 DEF handle_connection
  <2>4. pool' = pool \/ pool' = Append(pool, l)
    BY <1>22 DEF handle_connection
  <2> HIDE DEF d, l
  <2>5. connection' \in [Links -> Connection]
    BY <2>2, <2>3
  <2>6. pool' \in Seq(Links)
    <3>1. pool \in Seq(Links)
      OBVIOUS
    <3>2. Append(pool, l) \in Seq(Links)
      BY <2>1, <3>1, AppendProperties
    <3>3. QED
      BY <2>4, <3>1, <3>2
  <2>7. loop' \in Round
    BY <1>22 DEF handle_connection, Waiting, Round
  <2>8. QED
    BY <1>22, <2>5, <2>6, <2>7 DEF handle_connection
<1>4. CASE update_null
  BY <1>4 DEF update_null
<1>5. CASE update_timeout
  <2>1. connection' \in [Links -> Connection]
    BY <1>5, TickedType DEF update_timeout
  <2>2. loop' \in Round
    BY <1>5 DEF update_timeout, Waiting, Round
  <2>3. QED
    BY <1>5, <2>1, <2>2 DEF update_timeout
<1>6. ASSUME NEW ids \in SUBSET Ids, unsafe_kill(ids), loop' \in Round PROVE TypeOK'
  <2>1. connection' \in [Links -> Connection]
    BY <1>6, KilledConnection
  <2>2. QED
    BY <1>6, <2>1 DEF unsafe_kill
<1>7. CASE disconnect_unavailable_connections
  <2>1. loop' \in Round
    BY <1>7 DEF disconnect_unavailable_connections, Waiting, Round
  <2>2. QED
    BY <1>6, <1>7, <2>1 DEF disconnect_unavailable_connections
<1>8. CASE disconnect_connections
  <2>1. loop' \in Round
    BY <1>8 DEF disconnect_connections, Waiting, Round
  <2>2. QED
    BY <1>6, <1>8, <2>1 DEF disconnect_connections
<1>9. ASSUME NEW id \in Ids, kill(id) PROVE TypeOK'
  BY <1>6, <1>9 DEF kill
<1>23. ASSUME NEW id \in Ids, disconnect_handle(id) PROVE TypeOK'
  <2>1. loop' \in Round
    BY <1>23 DEF disconnect_handle, Waiting, Round
  <2>2. clients' \in [Ids -> 0 .. MaxConnections]
    BY <1>23 DEF disconnect_handle, Forgotten
  <2>3. QED
    BY <1>23, <2>1, <2>2 DEF disconnect_handle
<1>10. ASSUME NEW id \in Ids, send(id) PROVE TypeOK'
  <2>1. Of(id) \in Links
    BY <1>10 DEF send, Of, Links
  <2>2. connection' \in [Links -> Connection]
    <3> DEFINE r == [connection[Of(id)] EXCEPT !.disconnect_timeout = 0]
    <3>1. connection' = [connection EXCEPT ![Of(id)] = r]
      BY <1>10 DEF send
    <3>2. connection[Of(id)] \in Connection /\ 0 \in 0 .. DISCONNECT_TIMEOUT
      BY <2>1
    <3>3. r \in Connection
      BY <3>2 DEF Connection
    <3> HIDE DEF r
    <3>4. QED
      BY <2>1, <3>1, <3>3
  <2>3. QED
    BY <1>10, <2>2 DEF send
<1>11. CASE stop
  BY <1>11 DEF stop
<1>12. ASSUME NEW w \in Threads, begin(w) PROVE TypeOK'
  <2>1. Head(pool) \in Links /\ Tail(pool) \in Seq(Links)
    BY <1>12, HeadTailProperties DEF begin
  <2>2. worker' \in [Threads -> Task \cup {Idle}]
    <3> DEFINE r == Begun(Head(pool))
    <3>1. worker' = [worker EXCEPT ![w] = r]
      BY <1>12 DEF begin
    <3>2. r \in Task
      BY <2>1, TaskBegun
    <3> HIDE DEF r
    <3>3. QED
      BY <3>1, <3>2
  <2>3. QED
    BY <1>12, <2>1, <2>2 DEF begin
<1>13. ASSUME NEW w \in Threads, worker[w].at # "idle"
       PROVE  worker[w] \in Task /\ worker[w].link \in Links
  BY <1>13 DEF Idle, Task
<1>14. ASSUME NEW w \in Threads, take(w) PROVE TypeOK'
  <2> DEFINE l == worker[w].link
  <2>1. worker[w] \in Task /\ l \in Links
    BY <1>13, <1>14 DEF take
  <2>2. l[1] \in Ids
    BY <2>1 DEF Links
  <2>3. connection[l].receive_buffer \in Seq(0 .. MaxMessages - 1) /\ connection[l].receive_buffer # <<>>
    BY <1>14, <2>1 DEF take, HasMore, Connection
  <2>4. /\ Head(connection[l].receive_buffer) \in 0 .. MaxMessages - 1
        /\ Tail(connection[l].receive_buffer) \in Seq(0 .. MaxMessages - 1)
    BY <2>3, HeadTailProperties
  <2>5. handled' \in [Links -> Seq(0 .. MaxMessages - 1)]
    BY <1>14, <2>1, <2>4, AppendProperties DEF take
  <2>6. connection' \in [Links -> Connection]
    <3> DEFINE t == Tail(connection[l].receive_buffer)
    <3>1. connection' = [connection EXCEPT ![l] = [connection[l] EXCEPT !.receive_buffer = t]]
      BY <1>14, <2>1 DEF take
    <3>2. t \in Seq(0 .. MaxMessages - 1)
      BY <2>4
    <3> HIDE DEF t, l
    <3>3. [connection[l] EXCEPT !.receive_buffer = t] \in Connection
      BY <2>1, <3>2 DEF Connection
    <3>4. QED
      BY <3>1, <3>3
  <2>7. worker' \in [Threads -> Task \cup {Idle}]
    <3> DEFINE r == [worker[w] EXCEPT !.at = "handle", !.session = clients[l[1]]]
    <3>1. worker' = [worker EXCEPT ![w] = r]
      BY <1>14 DEF take
    <3>2. r \in Task
      BY <2>1, <2>2 DEF Task
    <3>3. QED
      BY <3>1, <3>2
  <2>8. QED
    BY <1>14, <2>5, <2>6, <2>7 DEF take
<1>15. ASSUME NEW w \in Threads, handle(w) PROVE TypeOK'
  <2>1. worker[w] \in Task
    BY <1>13, <1>15 DEF handle
  <2>2. PICK close \in BOOLEAN :
            worker' = [worker EXCEPT ![w].at = "test", ![w].close = close, ![w].session = 0]
    BY <1>15 DEF handle
  <2> DEFINE r == [worker[w] EXCEPT !.at = "test", !.close = close, !.session = 0]
  <2>3. worker' = [worker EXCEPT ![w] = r]
    BY <2>2
  <2>4. r \in Task
    BY <2>1, TaskHandled
  <2> HIDE DEF r
  <2>5. QED
    BY <1>15, <2>3, <2>4 DEF handle
<1>16. ASSUME NEW w \in Threads, handle_undefined(w) PROVE TypeOK'
  BY <1>16 DEF handle_undefined
<1>17. ASSUME NEW w \in Threads, finish(w) PROVE TypeOK'
  <2>1. worker[w] \in Task
    BY <1>13, <1>17 DEF finish
  <2>2. worker' \in [Threads -> Task \cup {Idle}]
    <3> DEFINE r == [worker[w] EXCEPT !.at = "end"]
    <3>1. worker' = [worker EXCEPT ![w] = r]
      BY <1>17 DEF finish
    <3>2. r \in Task
      <4>1. \A t \in Task : [t EXCEPT !.at = "end"] \in Task
        BY DEF Task
      <4>2. QED
        BY <2>1, <4>1
    <3>3. QED
      BY <3>1, <3>2
  <2>3. QED
    BY <1>17, <2>2 DEF finish
<1>18. ASSUME NEW w \in Threads, end(w) PROVE TypeOK'
  <2>1. worker[w] \in Task /\ worker[w].link \in Links
    BY <1>13, <1>18 DEF end
  <2>2. connection' \in [Links -> Connection]
    <3> DEFINE l == worker[w].link
               x == worker[w].close /\ Alive(l)
               r == Freed(connection[l], x)
    <3>1. x \in BOOLEAN /\ l \in Links
      BY <2>1
    <3>2. connection' = [connection EXCEPT ![l] = r]
      BY <1>18, <3>1 DEF end
    <3>3. r \in Connection
      <4> HIDE DEF x, l
      <4>1. QED
        BY <3>1 DEF Connection, Freed
    <3>4. QED
      BY <3>1, <3>2, <3>3
  <2>3. worker' \in [Threads -> Task \cup {Idle}]
    BY <1>18 DEF end
  <2>4. QED
    BY <1>18, <2>2, <2>3 DEF end
<1>19. CASE UNCHANGED vars
  BY <1>19 DEF vars
<1>20. QED
  BY <1>1, <1>2, <1>3, <1>4, <1>5, <1>7, <1>8, <1>9, <1>10, <1>11, <1>12, <1>14, <1>15,
     <1>16, <1>17, <1>18, <1>19, <1>21, <1>22, <1>23 DEF Next, run, arrive, task

\* Every state of the transfer server has its type: no package_id is counted
\* past the conversation and no timer past its limit.
THEOREM TypeCorrect == Spec => []TypeOK
  BY TypeInit, TypeStep, PTL DEF Spec
-----------------------------------------------------------------------------
(* One task.                                                               *)

\* Append and Tail, index by index.
LEMMA Appended ==
    ASSUME NEW S, NEW s \in Seq(S), NEW e \in S
    PROVE  /\ Len(s) \in Nat /\ DOMAIN s = 1 .. Len(s)
           /\ DOMAIN Append(s, e) = 1 .. Len(s) + 1
           /\ \A i \in 1 .. Len(s) : Append(s, e)[i] = s[i]
           /\ Append(s, e)[Len(s) + 1] = e
<1>1. Append(s, e) \in Seq(S) /\ Len(Append(s, e)) = Len(s) + 1
  BY AppendProperties
<1>2. QED
  BY <1>1, AppendProperties, LenProperties

LEMMA Tailed ==
    ASSUME NEW S, NEW s \in Seq(S), s # <<>>
    PROVE  /\ Len(s) \in Nat \ {0} /\ DOMAIN s = 1 .. Len(s)
           /\ Head(s) \in S /\ Head(s) = s[1]
           /\ Tail(s) \in Seq(S) /\ Len(Tail(s)) = Len(s) - 1
           /\ DOMAIN Tail(s) = 1 .. Len(s) - 1
           /\ \A i \in 1 .. Len(s) - 1 : Tail(s)[i] = s[i + 1]
<1>1. Len(s) \in Nat \ {0} /\ DOMAIN s = 1 .. Len(s)
  BY EmptySeq, LenProperties
<1>2. Head(s) \in S /\ Tail(s) \in Seq(S) /\ Len(Tail(s)) = Len(s) - 1
  BY HeadTailProperties
<1>3. DOMAIN Tail(s) = 1 .. Len(s) - 1
  BY <1>2, LenProperties
<1>4. Head(s) = s[1]
  BY DEF Head
<1>5. QED
  BY <1>1, <1>2, <1>3, <1>4, HeadTailProperties

\* A thread has a link to work on exactly if it has a task.
LEMMA LinkOfTask ==
    ASSUME TypeOK, NEW w \in Threads
    PROVE  /\ worker[w].link \in Links \/ worker[w].link = None
           /\ worker[w].link = None <=> worker[w] = Idle
           /\ worker[w].at = "idle" <=> worker[w] = Idle
           /\ worker[w].at # "idle" => worker[w] \in Task
<1>1. worker[w] \in Task \cup {Idle}
  BY DEF TypeOK
<1>2. CASE worker[w] \in Task
  BY <1>2, Bounds DEF Task, Idle
<1>3. CASE worker[w] = Idle
  BY <1>3 DEF Idle
<1>4. QED
  BY <1>1, <1>2, <1>3

\* OneTask speaks of the pool, the links of the threads and the flag only.
LEMMA OneTaskFrame ==
    ASSUME TypeOK, TypeOK', OneTask, pool' = pool,
           \A w \in Threads : worker'[w].link = worker[w].link,
           \A l \in Links : connection'[l].free = connection[l].free
    PROVE  OneTask'
<1>1. \A w \in Threads : worker'[w] \in Task \/ worker'[w] = Idle
  BY DEF TypeOK
<1>2. \A w \in Threads : worker'[w] # Idle => worker[w] # Idle
  <2>1. SUFFICES ASSUME NEW w \in Threads, worker'[w] # Idle PROVE worker[w].link # None
    <3>1. Idle.link = None
      BY DEF Idle
    <3>2. QED
      BY <3>1
  <2>2. worker'[w].link \in Links
    BY <1>1, <2>1 DEF Task
  <2>3. QED
    BY <2>2, Bounds
<1>3. QED
  BY <1>2 DEF OneTask

\* Nobody has a task in the beginning.
LEMMA OneTaskInit == Init => OneTask
<1>1. SUFFICES ASSUME Init PROVE OneTask
  OBVIOUS
<1>2. \A w \in Threads : worker[w] = Idle /\ worker[w].link = None
  BY <1>1 DEF Init, Idle
<1>3. \A l \in Links : connection[l].free = TRUE /\ l # None
  BY <1>1, Bounds DEF Init, NewConnection
<1>4. DOMAIN pool = {}
  BY <1>1 DEF Init
<1>5. QED
  BY <1>2, <1>3, <1>4 DEF OneTask

\* handle_connection() starts a task only for a connection that is free.
LEMMA OneTaskStart ==
    ASSUME TypeOK, TypeOK', OneTask, handle_connection
    PROVE  OneTask'
<1> DEFINE l == loop.link
           c == connection[l]
<1>1. l \in Links /\ worker' = worker
  BY LoopLink DEF handle_connection
<1>2. c \in Connection
  BY <1>1 DEF TypeOK
<1>3. Engaged(c).free = FALSE
  BY <1>2 DEF Engaged, Connection
<1>4. CASE ~c.free
  BY <1>1, <1>4, OneTaskFrame DEF handle_connection
<1>5. CASE c.free
  <2>1. connection' = [connection EXCEPT ![l] = Engaged(c)] /\ pool' = Append(pool, l)
    BY <1>1, <1>5 DEF handle_connection
  <2>2. \A m \in Links : connection'[m].free = IF m = l THEN FALSE ELSE connection[m].free
    BY <1>1, <1>3, <2>1 DEF TypeOK
  <2>3. (\A i \in DOMAIN pool : pool[i] # l) /\ (\A w \in Threads : worker[w].link # l)
    BY <1>1, <1>5 DEF OneTask
  <2>4. pool \in Seq(Links)
    BY DEF TypeOK
  <2> DEFINE n == Len(pool)
  <2>5. /\ n \in Nat /\ DOMAIN pool = 1 .. n /\ DOMAIN pool' = 1 .. n + 1
        /\ \A i \in 1 .. n : pool'[i] = pool[i]
        /\ pool'[n + 1] = l
    BY <1>1, <2>1, <2>4, Appended
  <2>6. \A i \in DOMAIN pool' : i \in DOMAIN pool \/ i = n + 1
    BY <2>5
  <2>7. \A m \in Links : (\E i \in DOMAIN pool' : pool'[i] = m)
                            <=> m = l \/ (\E i \in DOMAIN pool : pool[i] = m)
    BY <2>5, <2>6
  <2> HIDE DEF l, c, n
  <2>8. \A m \in Links : ~connection'[m].free <=>
            ((\E i \in DOMAIN pool' : pool'[i] = m) \/ (\E w \in Threads : worker'[w].link = m))
    BY <1>1, <2>2, <2>7 DEF OneTask
  <2>9. \A i, j \in DOMAIN pool' : pool'[i] = pool'[j] => i = j
    BY <2>3, <2>5, <2>6 DEF OneTask
  <2>10. \A i \in DOMAIN pool', w \in Threads : worker'[w].link # pool'[i]
    BY <1>1, <2>3, <2>5, <2>6 DEF OneTask
  <2>11. QED
    BY <1>1, <2>8, <2>9, <2>10 DEF OneTask
<1>6. QED
  BY <1>4, <1>5

\* begin() moves a task from the pool to a thread.
LEMMA OneTaskBegin ==
    ASSUME TypeOK, TypeOK', OneTask, NEW w \in Threads, begin(w)
    PROVE  OneTask'
<1> DEFINE l == Head(pool)
           n == Len(pool)
<1>1. pool \in Seq(Links) /\ pool # <<>> /\ pool' = Tail(pool) /\ connection' = connection
  BY DEF TypeOK, begin
<1>2. /\ n \in Nat \ {0} /\ DOMAIN pool = 1 .. n /\ l \in Links /\ l = pool[1]
      /\ DOMAIN pool' = 1 .. n - 1
      /\ \A i \in 1 .. n - 1 : pool'[i] = pool[i + 1]
  BY <1>1, Tailed
<1>3. worker[w] = Idle /\ worker' = [worker EXCEPT ![w] = Begun(l)]
  BY DEF begin
<1>4. Begun(l).link = l /\ Begun(l) # Idle /\ worker[w].link = None /\ l # None
  BY <1>2, <1>3, Bounds DEF Begun, Idle
<1>5. \A v \in Threads : worker'[v] = IF v = w THEN Begun(l) ELSE worker[v]
  BY <1>3 DEF TypeOK
<1> HIDE DEF l, n
<1>6. \A i \in DOMAIN pool' : i + 1 \in DOMAIN pool /\ pool'[i] = pool[i + 1] /\ pool'[i] # l
  <2>1. \A i \in DOMAIN pool' : i + 1 \in DOMAIN pool /\ 1 \in DOMAIN pool /\ i + 1 # 1
    BY <1>2
  <2>2. QED
    BY <1>2, <2>1 DEF OneTask
<1>7. \A i \in DOMAIN pool : i = 1 \/ (i - 1 \in DOMAIN pool' /\ pool'[i - 1] = pool[i])
  BY <1>2
<1>8. \A m \in Links : m # l =>
          ((\E i \in DOMAIN pool' : pool'[i] = m) <=> (\E i \in DOMAIN pool : pool[i] = m))
  BY <1>2, <1>6, <1>7
<1>9. \A m \in Links : m # l =>
          ((\E v \in Threads : worker'[v].link = m) <=> (\E v \in Threads : worker[v].link = m))
  BY <1>4, <1>5, Bounds
<1>10. ~connection[l].free /\ worker'[w].link = l
  BY <1>2, <1>4, <1>5 DEF OneTask
<1>11. \A m \in Links : ~connection'[m].free <=>
           ((\E i \in DOMAIN pool' : pool'[i] = m) \/ (\E v \in Threads : worker'[v].link = m))
  BY <1>1, <1>2, <1>8, <1>9, <1>10 DEF OneTask
<1>12. \A i, j \in DOMAIN pool' : pool'[i] = pool'[j] => i = j
  <2>1. \A i, j \in DOMAIN pool' : pool'[i] = pool'[j] => i + 1 = j + 1
    BY <1>6 DEF OneTask
  <2>2. QED
    BY <1>2, <2>1
<1>13. \A i \in DOMAIN pool', v \in Threads : worker'[v].link # pool'[i]
  BY <1>4, <1>5, <1>6 DEF OneTask
<1>14. 1 \in DOMAIN pool
  BY <1>2
<1>15. \A v \in Threads : worker[v].link # l
  BY <1>2, <1>14 DEF OneTask
<1>16. \A u, v \in Threads : worker'[u].link = worker'[v].link /\ worker'[u] # Idle => u = v
  BY <1>4, <1>5, <1>15 DEF OneTask
<1>17. QED
  BY <1>11, <1>12, <1>13, <1>16 DEF OneTask

\* A task that ends makes its connection free.
LEMMA OneTaskEnd ==
    ASSUME TypeOK, TypeOK', OneTask, NEW w \in Threads, end(w)
    PROVE  OneTask'
<1> DEFINE l == worker[w].link
<1>1. worker[w] # Idle /\ l \in Links /\ l # None
  BY LinkOfTask, Bounds DEF end, Idle
<1>2. pool' = pool
  BY DEF end
<1>3. \A m \in Links : connection'[m].free = IF m = l THEN TRUE ELSE connection[m].free
  <2>1. connection[l] \in Connection
    BY <1>1 DEF TypeOK
  <2>2. connection'[l].free = TRUE
    BY <1>1, <2>1 DEF end, Freed, TypeOK, Connection
  <2>3. \A m \in Links : m # l => connection'[m] = connection[m]
    BY DEF end, TypeOK
  <2>4. QED
    BY <2>2, <2>3
<1>4. \A v \in Threads : worker'[v] = IF v = w THEN Idle ELSE worker[v]
  BY DEF end, TypeOK
<1>5. Idle.link = None
  BY DEF Idle
<1>6. \A v \in Threads : worker[v].link = l => v = w
  BY <1>1 DEF OneTask
<1>7. \A i \in DOMAIN pool : pool[i] # l
  BY DEF OneTask
<1> HIDE DEF l
<1>8. \A m \in Links : m # l =>
          ((\E v \in Threads : worker'[v].link = m) <=> (\E v \in Threads : worker[v].link = m))
  <2>1. SUFFICES ASSUME NEW m \in Links, m # l
                 PROVE  (\E v \in Threads : worker'[v].link = m)
                            <=> (\E v \in Threads : worker[v].link = m)
    OBVIOUS
  <2>2. worker[w].link = l /\ m # None
    BY <2>1, Bounds DEF l
  <2>3. QED
    BY <1>4, <1>5, <2>1, <2>2
<1>9. \A v \in Threads : worker'[v].link # l
  BY <1>1, <1>4, <1>5, <1>6
<1>10. \A m \in Links : ~connection'[m].free <=>
           ((\E i \in DOMAIN pool' : pool'[i] = m) \/ (\E v \in Threads : worker'[v].link = m))
  BY <1>2, <1>3, <1>7, <1>8, <1>9 DEF OneTask
<1>11. \A i \in DOMAIN pool', v \in Threads : worker'[v].link # pool'[i]
  <2>1. \A i \in DOMAIN pool : pool[i] # None
    BY Bounds, LenProperties, ElementOfSeq DEF TypeOK
  <2>2. QED
    BY <1>2, <1>4, <1>5, <2>1 DEF OneTask
<1>12. \A u, v \in Threads : worker'[u].link = worker'[v].link /\ worker'[u] # Idle => u = v
  <2>1. \A v \in Threads : worker[v] # Idle => worker[v].link # None
    BY LinkOfTask
  <2>2. QED
    BY <1>4, <1>5, <2>1 DEF OneTask
<1>13. QED
  BY <1>2, <1>10, <1>11, <1>12 DEF OneTask

\* A step keeps one task for each connection.
LEMMA OneTaskStep ==
    ASSUME TypeOK, TypeOK', OneTask, [Next]_vars
    PROVE  OneTask'
<1>1. ASSUME NEW id \in Ids, NEW p \in 0 .. MaxMessages - 1, receive(id, p) PROVE OneTask'
  BY <1>1, OneTaskFrame DEF receive
<1>2. CASE connect_handle
  BY <1>2, OneTaskFrame DEF connect_handle
<1>3. CASE update
  <2>1. \A l \in Links : connection'[l].free = connection[l].free
    <3>1. loop.link \in Links /\ connection[loop.link] \in Connection
      BY <1>3, LoopLink DEF update, TypeOK
    <3>2. QED
      BY <1>3, <3>1 DEF update, Accepted, TypeOK, Connection
  <2>2. QED
    BY <1>3, <2>1, OneTaskFrame DEF update
<1>19. CASE empty
  BY <1>19, OneTaskFrame DEF empty
<1>20. CASE handle_connection
  BY <1>20, OneTaskStart
<1>21. ASSUME NEW id \in Ids, disconnect_handle(id) PROVE OneTask'
  BY <1>21, OneTaskFrame DEF disconnect_handle
<1>4. CASE update_null
  BY <1>4, OneTaskFrame DEF update_null
<1>5. CASE update_timeout
  <2>1. \A l \in Links : connection'[l].free = connection[l].free
    BY <1>5 DEF update_timeout, Ticked, TypeOK, Connection
  <2>2. QED
    BY <1>5, <2>1, OneTaskFrame DEF update_timeout
<1>25. ASSUME NEW ids \in SUBSET Ids, unsafe_kill(ids) PROVE OneTask'
  BY <1>25, KilledConnection, OneTaskFrame DEF unsafe_kill
<1>6. CASE disconnect_unavailable_connections
  BY <1>6, <1>25 DEF disconnect_unavailable_connections
<1>7. CASE disconnect_connections
  BY <1>7, <1>25 DEF disconnect_connections
<1>8. ASSUME NEW id \in Ids, kill(id) PROVE OneTask'
  BY <1>8, <1>25 DEF kill
<1>9. ASSUME NEW id \in Ids, send(id) PROVE OneTask'
  <2>1. \A l \in Links : connection'[l].free = connection[l].free
    BY <1>9 DEF send, TypeOK, Connection
  <2>2. QED
    BY <1>9, <2>1, OneTaskFrame DEF send
<1>10. CASE stop
  BY <1>10, OneTaskFrame DEF stop
<1>11. ASSUME NEW w \in Threads, begin(w) PROVE OneTask'
  BY <1>11, OneTaskBegin
<1>12. ASSUME NEW w \in Threads, take(w) PROVE OneTask'
  <2>1. \A v \in Threads : worker'[v].link = worker[v].link
    BY <1>12, LinkOfTask DEF take, TypeOK, Task
  <2>2. \A l \in Links : connection'[l].free = connection[l].free
    BY <1>12 DEF take, TypeOK, Connection
  <2>3. QED
    BY <1>12, <2>1, <2>2, OneTaskFrame DEF take
<1>13. ASSUME NEW w \in Threads, handle(w) PROVE OneTask'
  <2>1. \A v \in Threads : worker'[v].link = worker[v].link
    BY <1>13, LinkOfTask DEF handle, TypeOK, Task
  <2>2. QED
    BY <1>13, <2>1, OneTaskFrame DEF handle
<1>14. ASSUME NEW w \in Threads, handle_undefined(w) PROVE OneTask'
  BY <1>14, OneTaskFrame DEF handle_undefined
<1>15. ASSUME NEW w \in Threads, finish(w) PROVE OneTask'
  <2>1. \A v \in Threads : worker'[v].link = worker[v].link
    BY <1>15, LinkOfTask DEF finish, TypeOK, Task
  <2>2. QED
    BY <1>15, <2>1, OneTaskFrame DEF finish
<1>16. ASSUME NEW w \in Threads, end(w) PROVE OneTask'
  BY <1>16, OneTaskEnd
<1>17. CASE UNCHANGED vars
  BY <1>17, OneTaskFrame DEF vars
<1>18. QED
  BY <1>1, <1>2, <1>3, <1>4, <1>5, <1>6, <1>7, <1>8, <1>9, <1>10, <1>11, <1>12, <1>13,
     <1>14, <1>15, <1>16, <1>17, <1>19, <1>20, <1>21 DEF Next, run, arrive, task

\* The flag free, which the receiving thread clears and a task sets, gives each
\* connection one task and loses none, for any number of threads and clients.
THEOREM OneTaskAlways == Spec => []OneTask
<1>1. TypeOK /\ OneTask /\ [Next]_vars => TypeOK' /\ OneTask'
  BY TypeStep, OneTaskStep
<1>2. QED
  BY <1>1, TypeInit, OneTaskInit, PTL DEF Spec
-----------------------------------------------------------------------------
(* The messages of a connection, in order.                                 *)

\* What has been handled and what waits in the buffer are the messages 0, 1, ...
\* up to the one expected next.
InOrder ==
    \A l \in Links :
        /\ Len(handled[l]) + Len(connection[l].receive_buffer) = connection[l].expected_id
        /\ \A i \in 1 .. Len(connection[l].receive_buffer) :
               connection[l].receive_buffer[i] = Len(handled[l]) + i - 1

\* It speaks of the buffers, the counters and what was handled.
LEMMA InOrderFrame ==
    ASSUME InOrder, handled' = handled,
           \A l \in Links :
               /\ connection'[l].receive_buffer = connection[l].receive_buffer
               /\ connection'[l].expected_id = connection[l].expected_id
    PROVE  InOrder'
  BY DEF InOrder

\* Nothing has arrived in the beginning.
LEMMA InOrderInit == Init => InOrder
<1>1. Len(<<>>) = 0 /\ 1 .. 0 = {}
  OBVIOUS
<1>2. QED
  BY <1>1 DEF Init, InOrder, NewConnection

\* What update() makes of the buffer and the counter.
LEMMA UpdateConnection ==
    ASSUME TypeOK, update
    PROVE  LET l == loop.link
               c == connection[l]
               p == loop.package_id
           IN  /\ l \in Links /\ c \in Connection /\ p \in 0 .. MaxMessages - 1
               /\ \A m \in Links : m # l => connection'[m] = connection[m]
               /\ connection'[l].receive_buffer = (IF p = c.expected_id
                                                   THEN Append(c.receive_buffer, p)
                                                   ELSE c.receive_buffer)
               /\ connection'[l].expected_id = (IF p = c.expected_id THEN c.expected_id + 1
                                                ELSE c.expected_id)
<1> DEFINE l == loop.link
           c == connection[l]
           p == loop.package_id
           d == Accepted(c, p)
<1>1. l \in Links /\ p \in 0 .. MaxMessages - 1
  BY LoopLink DEF update
<1>2. c \in Connection
  BY <1>1 DEF TypeOK
<1>3. connection' = [connection EXCEPT ![l] = d]
  BY <1>1 DEF update
<1>4. /\ d.receive_buffer = (IF p = c.expected_id THEN Append(c.receive_buffer, p)
                             ELSE c.receive_buffer)
      /\ d.expected_id = (IF p = c.expected_id THEN c.expected_id + 1 ELSE c.expected_id)
  BY <1>2 DEF Accepted, Connection
<1> HIDE DEF l, c, p, d
<1>5. connection'[l] = d /\ \A m \in Links : m # l => connection'[m] = connection[m]
  BY <1>1, <1>3 DEF TypeOK
<1>6. QED
  BY <1>1, <1>2, <1>4, <1>5 DEF l, c, p

\* handle_connection() leaves the buffers and the counters alone.
LEMMA StartConnection ==
    ASSUME TypeOK, handle_connection
    PROVE  \A l \in Links : /\ connection'[l].receive_buffer = connection[l].receive_buffer
                            /\ connection'[l].expected_id = connection[l].expected_id
<1> DEFINE m == loop.link
           c == connection[m]
           d == Engaged(c)
<1>1. m \in Links /\ c \in Connection
  BY LoopLink DEF handle_connection, TypeOK
<1>2. d.receive_buffer = c.receive_buffer /\ d.expected_id = c.expected_id
  BY <1>1 DEF Engaged, Connection
<1>3. connection' = connection \/ connection' = [connection EXCEPT ![m] = d]
  BY <1>1 DEF handle_connection
<1> HIDE DEF d, c, m
<1>4. \A l \in Links : connection'[l] = connection[l] \/ (l = m /\ connection'[l] = d)
  BY <1>1, <1>3 DEF TypeOK
<1>5. QED
  BY <1>2, <1>4 DEF c

\* What a task takes is the head of its connection's buffer.
LEMMA TakeConnection ==
    ASSUME TypeOK, InOrder, NEW w \in Threads, take(w)
    PROVE  LET l == worker[w].link
               b == connection[l].receive_buffer
           IN  /\ l \in Links /\ worker[w] \in Task
               /\ b \in Seq(0 .. MaxMessages - 1) /\ Len(b) \in Nat \ {0}
               /\ handled[l] \in Seq(0 .. MaxMessages - 1) /\ Len(handled[l]) \in Nat
               /\ Head(b) \in 0 .. MaxMessages - 1 /\ Head(b) = Len(handled[l])
               /\ handled' = [handled EXCEPT ![l] = Append(handled[l], Len(handled[l]))]
               /\ \A m \in Links : m # l => connection'[m] = connection[m]
               /\ connection'[l].receive_buffer = Tail(b)
               /\ \A m \in Links : connection'[m].expected_id = connection[m].expected_id
<1> DEFINE l == worker[w].link
           b == connection[l].receive_buffer
<1>1. worker[w] \in Task
  BY LinkOfTask DEF take
<1>2. l \in Links
  BY <1>1 DEF Task
<1>3. connection[l] \in Connection /\ handled[l] \in Seq(0 .. MaxMessages - 1)
  BY <1>2 DEF TypeOK
<1>4. b \in Seq(0 .. MaxMessages - 1) /\ b # <<>>
  BY <1>3 DEF take, HasMore, Connection
<1>5. /\ Len(b) \in Nat \ {0} /\ Head(b) \in 0 .. MaxMessages - 1 /\ Head(b) = b[1]
      /\ Len(handled[l]) \in Nat
  BY <1>3, <1>4, Tailed, LenProperties
<1>6. b[1] = Len(handled[l])
  <2>1. 1 \in 1 .. Len(b)
    BY <1>5
  <2>2. b[1] = Len(handled[l]) + 1 - 1
    BY <1>2, <2>1 DEF InOrder
  <2>3. QED
    BY <1>5, <2>2
<1>7. /\ handled' = [handled EXCEPT ![l] = Append(handled[l], Head(b))]
      /\ connection' = [connection EXCEPT ![l] = [connection[l] EXCEPT !.receive_buffer = Tail(b)]]
  BY DEF take
<1>8. /\ \A m \in Links : m # l => connection'[m] = connection[m]
      /\ connection'[l].receive_buffer = Tail(b)
      /\ connection'[l].expected_id = connection[l].expected_id
  BY <1>2, <1>3, <1>7 DEF TypeOK, Connection
<1>9. \A m \in Links : connection'[m].expected_id = connection[m].expected_id
  BY <1>8
<1>10. QED
  BY <1>1, <1>2, <1>3, <1>4, <1>5, <1>6, <1>7, <1>8, <1>9

\* Numbers that count up go on doing so when the next is appended or the first
\* is taken.
LEMMA CountUp ==
    ASSUME NEW S, NEW b \in Seq(S), NEW p \in S, NEW k \in Nat, k + Len(b) = p,
           \A i \in 1 .. Len(b) : b[i] = k + i - 1
    PROVE  /\ k + Len(Append(b, p)) = p + 1
           /\ \A i \in 1 .. Len(Append(b, p)) : Append(b, p)[i] = k + i - 1
<1>1. Len(b) \in Nat
  BY LenProperties
<1>2. /\ Len(Append(b, p)) = Len(b) + 1 /\ Append(b, p)[Len(b) + 1] = p
      /\ \A i \in 1 .. Len(b) : Append(b, p)[i] = b[i]
  BY AppendProperties
<1>3. \A i \in 1 .. Len(b) + 1 : i \in 1 .. Len(b) \/ i = Len(b) + 1
  BY <1>1
<1>4. \A i \in 1 .. Len(b) + 1 : Append(b, p)[i] = k + i - 1
  <2>1. k + (Len(b) + 1) - 1 = p
    BY <1>1
  <2>2. QED
    BY <1>2, <1>3, <2>1
<1>5. k + (Len(b) + 1) = p + 1
  BY <1>1
<1>6. QED
  BY <1>2, <1>4, <1>5

LEMMA CountDown ==
    ASSUME NEW S, NEW b \in Seq(S), b # <<>>, NEW k \in Nat,
           \A i \in 1 .. Len(b) : b[i] = k + i - 1
    PROVE  /\ k + 1 + Len(Tail(b)) = k + Len(b)
           /\ \A i \in 1 .. Len(Tail(b)) : Tail(b)[i] = k + 1 + i - 1
<1>1. /\ Len(b) \in Nat \ {0} /\ Len(Tail(b)) = Len(b) - 1
      /\ \A i \in 1 .. Len(b) - 1 : Tail(b)[i] = b[i + 1]
  BY Tailed
<1>2. \A i \in 1 .. Len(b) - 1 : i + 1 \in 1 .. Len(b) /\ k + (i + 1) - 1 = k + 1 + i - 1
  BY <1>1
<1>3. \A i \in 1 .. Len(b) - 1 : b[i + 1] = k + 1 + i - 1
  BY <1>2
<1>4. k + 1 + (Len(b) - 1) = k + Len(b)
  BY <1>1
<1>5. QED
  BY <1>1, <1>3, <1>4

\* A new message goes to the end of the buffer.
LEMMA InOrderUpdate ==
    ASSUME TypeOK, InOrder, update
    PROVE  InOrder'
<1> DEFINE l == loop.link
           c == connection[l]
           p == loop.package_id
           b == c.receive_buffer
<1>1. /\ l \in Links /\ c \in Connection /\ p \in 0 .. MaxMessages - 1
      /\ \A m \in Links : m # l => connection'[m] = connection[m]
      /\ connection'[l].receive_buffer = (IF p = c.expected_id THEN Append(b, p) ELSE b)
      /\ connection'[l].expected_id = (IF p = c.expected_id THEN c.expected_id + 1
                                       ELSE c.expected_id)
  BY UpdateConnection
<1>2. handled' = handled
  BY DEF update
<1>3. CASE p # c.expected_id
  <2>1. \A m \in Links : /\ connection'[m].receive_buffer = connection[m].receive_buffer
                         /\ connection'[m].expected_id = connection[m].expected_id
    BY <1>1, <1>3
  <2>2. QED
    BY <1>2, <2>1, InOrderFrame
<1>4. CASE p = c.expected_id
  <2>1. b \in Seq(0 .. MaxMessages - 1) /\ handled[l] \in Seq(0 .. MaxMessages - 1)
    BY <1>1 DEF Connection, TypeOK
  <2>2. Len(b) \in Nat /\ Len(handled[l]) \in Nat
    BY <2>1, LenProperties
  <2>3. Len(handled[l]) + Len(b) = p /\ \A i \in 1 .. Len(b) : b[i] = Len(handled[l]) + i - 1
    BY <1>1, <1>4 DEF InOrder
  <2>4. /\ Len(handled[l]) + Len(Append(b, p)) = p + 1
        /\ \A i \in 1 .. Len(Append(b, p)) : Append(b, p)[i] = Len(handled[l]) + i - 1
    <3> DEFINE k == Len(handled[l])
    <3>1. /\ k \in Nat /\ k + Len(b) = p /\ \A i \in 1 .. Len(b) : b[i] = k + i - 1
          /\ b \in Seq(0 .. MaxMessages - 1) /\ p \in 0 .. MaxMessages - 1
      BY <1>1, <2>1, <2>2, <2>3
    <3> HIDE DEF k, b, p
    <3>2. /\ k + Len(Append(b, p)) = p + 1
          /\ \A i \in 1 .. Len(Append(b, p)) : Append(b, p)[i] = k + i - 1
      BY <3>1, CountUp
    <3>3. QED
      BY <3>2 DEF k, b, p
  <2>5. connection'[l].receive_buffer = Append(b, p) /\ connection'[l].expected_id = p + 1
    BY <1>1, <1>4
  <2> HIDE DEF l, c, b, p
  <2>6. QED
    BY <1>1, <1>2, <2>4, <2>5 DEF InOrder
<1>5. QED
  BY <1>3, <1>4

\* The message taken is the next in order.
LEMMA InOrderTake ==
    ASSUME TypeOK, InOrder, NEW w \in Threads, take(w)
    PROVE  InOrder'
<1> DEFINE l == worker[w].link
           b == connection[l].receive_buffer
           h == handled[l]
<1>1. /\ l \in Links /\ b \in Seq(0 .. MaxMessages - 1) /\ Len(b) \in Nat \ {0}
      /\ h \in Seq(0 .. MaxMessages - 1) /\ Len(h) \in Nat /\ Len(h) \in 0 .. MaxMessages - 1
      /\ handled' = [handled EXCEPT ![l] = Append(h, Len(h))]
      /\ \A m \in Links : m # l => connection'[m] = connection[m]
      /\ connection'[l].receive_buffer = Tail(b)
      /\ \A m \in Links : connection'[m].expected_id = connection[m].expected_id
  BY TakeConnection
<1>2. b # <<>>
  BY DEF take, HasMore
<1>3. handled'[l] = Append(h, Len(h)) /\ \A m \in Links : m # l => handled'[m] = handled[m]
  BY <1>1 DEF TypeOK
<1>4. Len(handled'[l]) = Len(h) + 1
  BY <1>1, <1>3, AppendProperties
<1>5. /\ Len(h) + Len(b) = connection[l].expected_id
      /\ \A i \in 1 .. Len(b) : b[i] = Len(h) + i - 1
  BY <1>1 DEF InOrder
<1>6. /\ Len(h) + 1 + Len(Tail(b)) = Len(h) + Len(b)
      /\ \A i \in 1 .. Len(Tail(b)) : Tail(b)[i] = Len(h) + 1 + i - 1
  BY <1>1, <1>2, <1>5, CountDown
<1>7. /\ Len(handled'[l]) + Len(connection'[l].receive_buffer) = connection'[l].expected_id
      /\ \A i \in 1 .. Len(connection'[l].receive_buffer) :
             connection'[l].receive_buffer[i] = Len(handled'[l]) + i - 1
  BY <1>1, <1>4, <1>5, <1>6
<1>8. SUFFICES ASSUME NEW m \in Links
      PROVE  /\ Len(handled'[m]) + Len(connection'[m].receive_buffer)
                     = connection'[m].expected_id
             /\ \A i \in 1 .. Len(connection'[m].receive_buffer) :
                    connection'[m].receive_buffer[i] = Len(handled'[m]) + i - 1
  BY DEF InOrder
<1>9. CASE m = l
  BY <1>7, <1>9
<1>10. CASE m # l
  <2>1. handled'[m] = handled[m] /\ connection'[m] = connection[m]
    BY <1>1, <1>3, <1>10
  <2>2. QED
    BY <2>1 DEF InOrder
<1>11. QED
  BY <1>9, <1>10

\* Every step leaves the messages in order.
LEMMA InOrderStep ==
    ASSUME TypeOK, InOrder, [Next]_vars
    PROVE  InOrder'
<1>1. ASSUME NEW id \in Ids, NEW p \in 0 .. MaxMessages - 1, receive(id, p) PROVE InOrder'
  BY <1>1, InOrderFrame DEF receive
<1>2. CASE connect_handle
  BY <1>2, InOrderFrame DEF connect_handle
<1>3. CASE update
  BY <1>3, InOrderUpdate
<1>17. CASE empty
  BY <1>17, InOrderFrame DEF empty
<1>18. CASE handle_connection
  <2>1. \A l \in Links : /\ connection'[l].receive_buffer = connection[l].receive_buffer
                         /\ connection'[l].expected_id = connection[l].expected_id
    BY <1>18, StartConnection
  <2>2. QED
    BY <1>18, <2>1, InOrderFrame DEF handle_connection
<1>19. ASSUME NEW id \in Ids, disconnect_handle(id) PROVE InOrder'
  BY <1>19, InOrderFrame DEF disconnect_handle
<1>4. CASE update_null
  BY <1>4, InOrderFrame DEF update_null
<1>5. CASE update_timeout
  <2>1. \A l \in Links : /\ connection'[l].receive_buffer = connection[l].receive_buffer
                         /\ connection'[l].expected_id = connection[l].expected_id
    BY <1>5 DEF update_timeout, Ticked, TypeOK, Connection
  <2>2. QED
    BY <1>5, <2>1, InOrderFrame DEF update_timeout
<1>25. ASSUME NEW ids \in SUBSET Ids, unsafe_kill(ids) PROVE InOrder'
  BY <1>25, KilledConnection, InOrderFrame DEF unsafe_kill
<1>6. CASE disconnect_unavailable_connections
  BY <1>6, <1>25 DEF disconnect_unavailable_connections
<1>7. CASE disconnect_connections
  BY <1>7, <1>25 DEF disconnect_connections
<1>8. ASSUME NEW id \in Ids, kill(id) PROVE InOrder'
  BY <1>8, <1>25 DEF kill
<1>9. ASSUME NEW id \in Ids, send(id) PROVE InOrder'
  <2>1. \A l \in Links : /\ connection'[l].receive_buffer = connection[l].receive_buffer
                         /\ connection'[l].expected_id = connection[l].expected_id
    BY <1>9 DEF send, TypeOK, Connection
  <2>2. QED
    BY <1>9, <2>1, InOrderFrame DEF send
<1>10. CASE stop
  BY <1>10, InOrderFrame DEF stop
<1>11. ASSUME NEW w \in Threads, begin(w) PROVE InOrder'
  BY <1>11, InOrderFrame DEF begin
<1>12. ASSUME NEW w \in Threads, take(w) PROVE InOrder'
  BY <1>12, InOrderTake
<1>13. ASSUME NEW w \in Threads, handle(w) \/ handle_undefined(w) \/ finish(w) PROVE InOrder'
  BY <1>13, InOrderFrame DEF handle, handle_undefined, finish
<1>14. ASSUME NEW w \in Threads, end(w) PROVE InOrder'
  <2>1. \A l \in Links : /\ connection'[l].receive_buffer = connection[l].receive_buffer
                         /\ connection'[l].expected_id = connection[l].expected_id
    BY <1>14 DEF end, Freed, TypeOK, Connection
  <2>2. QED
    BY <1>14, <2>1, InOrderFrame DEF end
<1>15. CASE UNCHANGED vars
  BY <1>15, InOrderFrame DEF vars
<1>16. QED
  BY <1>1, <1>2, <1>3, <1>4, <1>5, <1>6, <1>7, <1>8, <1>9, <1>10, <1>11, <1>12, <1>13,
     <1>14, <1>15, <1>17, <1>18, <1>19 DEF Next, run, arrive, task
-----------------------------------------------------------------------------
(* The pool implements SerialHandling.                                     *)

\* The three variables of SerialHandling, in terms of this module's.
Arrived == [l \in Links |-> connection[l].expected_id]
AtWork  == [l \in Links |-> \E w \in Threads :
               worker[w].link = l /\ worker[w].at = "handle"]

\* A step that changes none of them is a stutter.
LEMMA Stutter ==
    ASSUME handled' = handled,
           \A l \in Links : connection'[l].expected_id = connection[l].expected_id,
           \A w \in Threads : /\ worker'[w].at = "handle" <=> worker[w].at = "handle"
                              /\ worker[w].at = "handle" => worker'[w].link = worker[w].link
    PROVE  UNCHANGED Handling!handling
<1>1. Arrived' = Arrived
  BY DEF Arrived
<1>2. AtWork' = AtWork
  <2>1. \A l \in Links : (\E w \in Threads : worker'[w].link = l /\ worker'[w].at = "handle")
                            <=> (\E w \in Threads : worker[w].link = l /\ worker[w].at = "handle")
    OBVIOUS
  <2>2. QED
    BY <2>1 DEF AtWork
<1>3. QED
  BY <1>1, <1>2 DEF Handling!handling, Arrived, AtWork

\* update() of a new message is Arrive, of a repeated one a stutter.
LEMMA UpdateMaps ==
    ASSUME TypeOK, update
    PROVE  [Handling!Next]_(Handling!handling)
<1> DEFINE l == loop.link
           c == connection[l]
           p == loop.package_id
<1>1. /\ l \in Links /\ c \in Connection
      /\ \A m \in Links : m # l => connection'[m] = connection[m]
      /\ connection'[l].expected_id = (IF p = c.expected_id THEN c.expected_id + 1
                                       ELSE c.expected_id)
  BY UpdateConnection
<1>2. handled' = handled /\ worker' = worker
  BY DEF update
<1>3. CASE p # c.expected_id
  <2>1. \A m \in Links : connection'[m].expected_id = connection[m].expected_id
    BY <1>1, <1>3
  <2>2. QED
    BY <1>2, <2>1, Stutter
<1>4. CASE p = c.expected_id
  <2>1. Arrived' = [Arrived EXCEPT ![l] = @ + 1]
    <3> HIDE DEF l
    <3>1. QED
      BY <1>1, <1>4 DEF Arrived
  <2>2. AtWork' = AtWork
    BY <1>2 DEF AtWork
  <2>3. Handling!Arrive(l)
    BY <1>2, <2>1, <2>2 DEF Handling!Arrive, Arrived, AtWork
  <2>4. Handling!Next
    BY <1>1, <2>3 DEF Handling!Next, Handling!Arrive, Handling!Begin, Handling!End
  <2>5. QED
    BY <2>4
<1>5. QED
  BY <1>3, <1>4

\* take() is Begin: nobody else works on the connection, and its next message is there.
LEMMA TakeMaps ==
    ASSUME TypeOK, OneTask, InOrder, NEW w \in Threads, take(w)
    PROVE  [Handling!Next]_(Handling!handling)
<1> DEFINE l == worker[w].link
           b == connection[l].receive_buffer
<1>1. /\ l \in Links /\ worker[w] \in Task
      /\ Len(b) \in Nat \ {0} /\ Len(handled[l]) \in Nat
      /\ handled' = [handled EXCEPT ![l] = Append(handled[l], Len(handled[l]))]
      /\ \A m \in Links : connection'[m].expected_id = connection[m].expected_id
  BY TakeConnection
<1>2. Arrived' = Arrived
  BY <1>1 DEF Arrived
<1>3. Len(handled[l]) < Arrived[l]
  <2>1. Len(handled[l]) + Len(b) = connection[l].expected_id
    BY <1>1 DEF InOrder
  <2>2. Arrived[l] = connection[l].expected_id
    BY <1>1 DEF Arrived
  <2> HIDE DEF l, b, Arrived
  <2>3. QED
    BY <1>1, <2>1, <2>2
<1>4. \A v \in Threads : worker[v].link = l => v = w
  <2>1. \A v \in Threads : worker[v].link = l => worker[v] # Idle
    BY <1>1, LinkOfTask, Bounds
  <2>2. QED
    BY <2>1 DEF OneTask
<1>5. worker[w].at = "test"
  BY DEF take
<1>6. AtWork[l] = FALSE
  BY <1>1, <1>4, <1>5 DEF AtWork
<1>7. /\ worker'[w].link = l /\ worker'[w].at = "handle"
      /\ \A v \in Threads : v # w => worker'[v] = worker[v]
  BY <1>1 DEF take, TypeOK, Task
<1>8. AtWork' = [AtWork EXCEPT ![l] = TRUE]
  <2> HIDE DEF l
  <2>1. \A m \in Links : m # l =>
            ((\E v \in Threads : worker'[v].link = m /\ worker'[v].at = "handle")
                 <=> (\E v \in Threads : worker[v].link = m /\ worker[v].at = "handle"))
    BY <1>5, <1>7
  <2>2. \E v \in Threads : worker'[v].link = l /\ worker'[v].at = "handle"
    BY <1>7
  <2>3. \A m \in Links : AtWork'[m] = IF m = l THEN TRUE ELSE AtWork[m]
    BY <2>1, <2>2, Zenon DEF AtWork
  <2>4. AtWork' = [m \in Links |-> AtWork'[m]] /\ AtWork = [m \in Links |-> AtWork[m]]
    BY DEF AtWork
  <2> HIDE DEF AtWork
  <2>5. QED
    BY <1>1, <2>3, <2>4
<1>9. Handling!Begin(l)
  BY <1>1, <1>2, <1>3, <1>6, <1>8 DEF Handling!Begin, Arrived, AtWork
<1>10. Handling!Next
  BY <1>1, <1>9 DEF Handling!Next, Handling!Arrive, Handling!Begin, Handling!End
<1>11. QED
  BY <1>10

\* handle() is End.
LEMMA HandleMaps ==
    ASSUME TypeOK, OneTask, NEW w \in Threads, handle(w)
    PROVE  [Handling!Next]_(Handling!handling)
<1> DEFINE l == worker[w].link
<1>1. worker[w] \in Task /\ l \in Links /\ worker[w].at = "handle"
  BY LinkOfTask DEF handle, Task
<1>2. connection' = connection /\ handled' = handled
  BY DEF handle
<1>3. \A v \in Threads : worker[v].link = l => v = w
  <2>1. \A v \in Threads : worker[v].link = l => worker[v] # Idle
    BY <1>1, LinkOfTask, Bounds
  <2>2. QED
    BY <2>1 DEF OneTask
<1>4. worker'[w].link = l /\ worker'[w].at = "test"
      /\ \A v \in Threads : v # w => worker'[v] = worker[v]
  BY <1>1 DEF handle, TypeOK, Task
<1>5. AtWork[l] = TRUE
  BY <1>1 DEF AtWork
<1>6. AtWork' = [AtWork EXCEPT ![l] = FALSE]
  <2> HIDE DEF l
  <2>1. \A m \in Links : m # l =>
            ((\E v \in Threads : worker'[v].link = m /\ worker'[v].at = "handle")
                 <=> (\E v \in Threads : worker[v].link = m /\ worker[v].at = "handle"))
    <3>1. worker[w].link = l
      BY DEF l
    <3>2. QED
      BY <1>4, <3>1
  <2>2. ~\E v \in Threads : worker'[v].link = l /\ worker'[v].at = "handle"
    BY <1>3, <1>4
  <2>3. \A m \in Links : AtWork'[m] = IF m = l THEN FALSE ELSE AtWork[m]
    BY <2>1, <2>2, Zenon DEF AtWork
  <2>4. AtWork' = [m \in Links |-> AtWork'[m]] /\ AtWork = [m \in Links |-> AtWork[m]]
    BY DEF AtWork
  <2> HIDE DEF AtWork
  <2>5. QED
    BY <1>1, <2>3, <2>4
<1>7. Handling!End(l)
  BY <1>2, <1>5, <1>6 DEF Handling!End, AtWork
<1>8. Handling!Next
  BY <1>1, <1>7 DEF Handling!Next, Handling!Arrive, Handling!Begin, Handling!End
<1>9. QED
  BY <1>8

\* Nothing has arrived, been handled or is at work in the beginning.
LEMMA InitMaps == Init => Handling!Init
<1>1. SUFFICES ASSUME Init PROVE Handling!Init
  OBVIOUS
<1>2. \A w \in Threads : worker[w].at = "idle"
  BY <1>1 DEF Init, Idle
<1>3. Arrived = [l \in Links |-> 0]
  BY <1>1 DEF Init, NewConnection, Arrived
<1>4. AtWork = [l \in Links |-> FALSE]
  BY <1>2 DEF AtWork
<1>5. QED
  BY <1>1, <1>3, <1>4 DEF Init, Handling!Init, Arrived, AtWork

\* Every step of the transfer server is one of SerialHandling or a stutter.
LEMMA StepMaps ==
    ASSUME TypeOK, OneTask, InOrder, [Next]_vars
    PROVE  [Handling!Next]_(Handling!handling)
<1>1. ASSUME NEW id \in Ids, NEW p \in 0 .. MaxMessages - 1, receive(id, p)
      PROVE  [Handling!Next]_(Handling!handling)
  BY <1>1, Stutter DEF receive
<1>2. CASE connect_handle
  BY <1>2, Stutter DEF connect_handle
<1>3. CASE update
  BY <1>3, UpdateMaps
<1>19. CASE empty
  BY <1>19, Stutter DEF empty
<1>20. CASE handle_connection
  <2>1. \A l \in Links : connection'[l].expected_id = connection[l].expected_id
    BY <1>20, StartConnection
  <2>2. QED
    BY <1>20, <2>1, Stutter DEF handle_connection
<1>21. ASSUME NEW id \in Ids, disconnect_handle(id) PROVE [Handling!Next]_(Handling!handling)
  BY <1>21, Stutter DEF disconnect_handle
<1>4. CASE update_null
  BY <1>4, Stutter DEF update_null
<1>5. CASE update_timeout
  <2>1. \A l \in Links : connection'[l].expected_id = connection[l].expected_id
    BY <1>5 DEF update_timeout, Ticked, TypeOK, Connection
  <2>2. QED
    BY <1>5, <2>1, Stutter DEF update_timeout
<1>25. ASSUME NEW ids \in SUBSET Ids, unsafe_kill(ids)
       PROVE  [Handling!Next]_(Handling!handling)
  BY <1>25, KilledConnection, Stutter DEF unsafe_kill
<1>6. CASE disconnect_unavailable_connections
  BY <1>6, <1>25 DEF disconnect_unavailable_connections
<1>7. CASE disconnect_connections
  BY <1>7, <1>25 DEF disconnect_connections
<1>8. ASSUME NEW id \in Ids, kill(id) PROVE [Handling!Next]_(Handling!handling)
  BY <1>8, <1>25 DEF kill
<1>9. ASSUME NEW id \in Ids, send(id) PROVE [Handling!Next]_(Handling!handling)
  <2>1. \A l \in Links : connection'[l].expected_id = connection[l].expected_id
    BY <1>9 DEF send, TypeOK, Connection
  <2>2. QED
    BY <1>9, <2>1, Stutter DEF send
<1>10. CASE stop
  BY <1>10, Stutter DEF stop
<1>11. ASSUME NEW w \in Threads, begin(w) PROVE [Handling!Next]_(Handling!handling)
  <2>1. worker[w].at = "idle"
    BY <1>11 DEF begin, Idle
  <2>2. worker'[w].at = "test" /\ \A v \in Threads : v # w => worker'[v] = worker[v]
    BY <1>11 DEF begin, Begun, TypeOK
  <2>3. handled' = handled /\ connection' = connection
    BY <1>11 DEF begin
  <2>4. QED
    BY <2>1, <2>2, <2>3, Stutter
<1>12. ASSUME NEW w \in Threads, take(w) PROVE [Handling!Next]_(Handling!handling)
  BY <1>12, TakeMaps
<1>13. ASSUME NEW w \in Threads, handle(w) PROVE [Handling!Next]_(Handling!handling)
  BY <1>13, HandleMaps
<1>14. ASSUME NEW w \in Threads, handle_undefined(w)
       PROVE  [Handling!Next]_(Handling!handling)
  BY <1>14, Stutter DEF handle_undefined
<1>15. ASSUME NEW w \in Threads, finish(w) PROVE [Handling!Next]_(Handling!handling)
  <2>1. worker[w].at = "test" /\ worker[w] \in Task
    BY <1>15, LinkOfTask DEF finish
  <2>2. worker'[w].at = "end" /\ \A v \in Threads : v # w => worker'[v] = worker[v]
    BY <1>15, <2>1 DEF finish, TypeOK, Task
  <2>3. handled' = handled /\ connection' = connection
    BY <1>15 DEF finish
  <2>4. QED
    BY <2>1, <2>2, <2>3, Stutter
<1>16. ASSUME NEW w \in Threads, end(w) PROVE [Handling!Next]_(Handling!handling)
  <2>1. \A l \in Links : connection'[l].expected_id = connection[l].expected_id
    BY <1>16 DEF end, Freed, TypeOK, Connection
  <2>2. worker[w].at = "end"
    BY <1>16 DEF end
  <2>3. worker'[w].at = "idle" /\ \A v \in Threads : v # w => worker'[v] = worker[v]
    BY <1>16 DEF end, Idle, TypeOK
  <2>4. handled' = handled
    BY <1>16 DEF end
  <2>5. QED
    BY <2>1, <2>2, <2>3, <2>4, Stutter
<1>17. CASE UNCHANGED vars
  BY <1>17, Stutter DEF vars
<1>18. QED
  BY <1>1, <1>2, <1>3, <1>4, <1>5, <1>6, <1>7, <1>8, <1>9, <1>10, <1>11, <1>12, <1>13,
     <1>14, <1>15, <1>16, <1>17, <1>19, <1>20, <1>21 DEF Next, run, arrive, task

\* The thread pool implements SerialHandling: the messages of a connection reach
\* their handlers one at a time and in order, whatever the other threads do.
THEOREM HandlesSerially == Spec => HandlingSerial
<1>1. TypeOK /\ OneTask /\ InOrder /\ [Next]_vars => TypeOK' /\ OneTask' /\ InOrder'
  BY TypeStep, OneTaskStep, InOrderStep
<1>2. TypeOK /\ OneTask /\ InOrder /\ [Next]_vars => [Handling!Next]_(Handling!handling)
  BY StepMaps
<1>3. QED
  BY <1>1, <1>2, TypeInit, OneTaskInit, InOrderInit, InitMaps, PTL
     DEF Spec, HandlingSerial, Handling!Spec
-----------------------------------------------------------------------------
(* The sessions.                                                           *)

\* The newest connection of a client: the map of connections speaks of it and so
\* does the loop.  The map of sessions does too, but for a client that is being
\* killed, whose session may be an older one; and while that one is there, a
\* connection of the client is new, or has been an orphan since connect_handle.
\* A session without a connection is there only during a kill and before a null
\* pointer.  A task is of no connection that is still to come.
Maps ==
    /\ \A id \in Ids : connections[id] = 0 \/ connections[id] = opened[id]
    /\ \A id \in Ids : clients[id] = 0 \/ clients[id] = opened[id] \/ id \in erased
    /\ \A id \in erased : connections[id] # 0 =>
           Of(id) \in orphans \/ (loop.at = "connect_handle" /\ loop.link = Of(id))
    /\ \A id \in Ids : connections[id] = 0 /\ clients[id] # 0 =>
           id \in erased \/ (loop.at = "update" /\ loop.link[1] = id)
    /\ loop.at = "connect_handle" => clients[loop.link[1]] = 0 \/ loop.link[1] \in erased
    /\ loop.link # None => loop.link[2] = opened[loop.link[1]]
    /\ \A i \in DOMAIN pool : pool[i][2] <= opened[pool[i][1]]
    /\ \A w \in Threads : worker[w] # Idle =>
           worker[w].link[2] <= opened[worker[w].link[1]]

\* Nobody works yet for a connection whose session is still to be made.
NoneEarly ==
    loop.at = "connect_handle" =>
        /\ \A i \in DOMAIN pool : pool[i] # loop.link
        /\ \A w \in Threads : worker[w].link # loop.link

Sessions == Maps /\ NoneEarly /\ OwnSession

\* There are neither connections nor tasks in the beginning.
LEMMA SessionsInit == Init => Sessions
<1>1. SUFFICES ASSUME Init PROVE Sessions
  OBVIOUS
<1>2. \A w \in Threads : worker[w] = Idle /\ worker[w].at # "handle"
  BY <1>1 DEF Init, Idle
<1>3. loop.at # "connect_handle" /\ loop.link = None /\ DOMAIN pool = {} /\ erased = {}
  BY <1>1 DEF Init, Waiting
<1>4. Maps
  BY <1>1, <1>2, <1>3 DEF Init, Maps
<1>5. QED
  BY <1>2, <1>3, <1>4 DEF Sessions, NoneEarly, OwnSession

\* Links of tasks are links.
LEMMA LinksOfTasks ==
    ASSUME TypeOK
    PROVE  /\ \A i \in DOMAIN pool : pool[i] \in Links
           /\ \A w \in Threads : worker[w] # Idle => worker[w].link \in Links
<1>1. \A i \in DOMAIN pool : pool[i] \in Links
  BY LenProperties, ElementOfSeq DEF TypeOK
<1>2. QED
  BY <1>1, LinkOfTask

\* A step of a thread that leaves the maps, the pool and the loop alone and
\* looks no session up.
LEMMA SessionsFrame ==
    ASSUME TypeOK, Sessions,
           UNCHANGED <<connections, clients, erased, opened, orphans, pool, loop>>,
           \A w \in Threads :
               \/ worker'[w] = worker[w] \/ worker'[w] = Idle
               \/ worker[w] # Idle /\ worker'[w].link = worker[w].link
                      /\ worker'[w].at # "handle"
    PROVE  Sessions'
<1>1. \A w \in Threads : worker'[w] # Idle =>
          worker[w] # Idle /\ worker'[w].link = worker[w].link
  OBVIOUS
<1>2. Maps'
  BY <1>1 DEF Sessions, Maps, Of
<1>3. NoneEarly'
  <2>1. loop.at = "connect_handle" => loop.link # None
    BY LoopLink, Bounds
  <2>2. \A w \in Threads : worker'[w].link = worker[w].link \/ worker'[w].link = None
    BY DEF Idle
  <2>3. QED
    BY <2>1, <2>2 DEF Sessions, NoneEarly
<1>4. \A w \in Threads : worker'[w].at = "handle" => worker'[w] = worker[w]
  BY DEF Idle
<1>5. OwnSession'
  BY <1>4 DEF Sessions, OwnSession, Alive
<1>6. QED
  BY <1>2, <1>3, <1>5 DEF Sessions

\* A step of the loop from one place to another that opens nothing.
LEMMA SessionsLoop ==
    ASSUME TypeOK, Sessions,
           UNCHANGED <<connections, clients, erased, opened, orphans, pool, worker>>,
           loop.at \notin {"connect_handle", "update"} \/ (loop.at = "update" /\ Alive(loop.link)),
           loop'.at # "connect_handle",
           loop'.link = None \/ loop'.link = loop.link
               \/ \E id \in Ids : loop'.link = Of(id) /\ connections[id] # 0
    PROVE  Sessions'
<1>1. loop'.link # None => loop'.link[2] = opened[loop'.link[1]]
  BY DEF Sessions, Maps, Of
<1>2. loop.at = "update" => loop.link[1] \in Ids /\ loop.link[2] # 0
  BY LoopLink, LinkParts
<1>3. \A id \in Ids : connections[id] = 0 /\ clients[id] # 0 => id \in erased
  BY <1>2 DEF Sessions, Maps, Alive
<1>4. \A id \in erased : connections[id] # 0 => Of(id) \in orphans
  BY DEF Sessions, Maps
<1>5. Maps'
  BY <1>1, <1>3, <1>4 DEF Sessions, Maps, Of
<1>6. NoneEarly' /\ OwnSession'
  BY DEF Sessions, NoneEarly, OwnSession, Alive
<1>7. QED
  BY <1>5, <1>6 DEF Sessions

\* A datagram of a client without a connection opens the next one.
LEMMA SessionsReceive ==
    ASSUME TypeOK, Sessions, NEW id \in Ids, NEW p \in 0 .. MaxMessages - 1, receive(id, p)
    PROVE  Sessions'
<1>1. UNCHANGED <<clients, erased, orphans, pool, worker>> /\ loop.at = "epoll_wait"
  BY DEF receive
<1>2. CASE connections[id] # 0
  <2>1. /\ connections' = connections /\ opened' = opened
        /\ loop' = [at |-> "update", link |-> Of(id), package_id |-> p]
    BY <1>2 DEF receive
  <2>2. loop'.at = "update" /\ loop'.link = Of(id)
    BY <2>1
  <2>3. QED
    BY <1>1, <1>2, <2>1, <2>2, SessionsLoop
<1>3. CASE connections[id] = 0
  <2> DEFINE l == <<id, opened[id] + 1>>
  <2>1. /\ opened' = [opened EXCEPT ![id] = opened[id] + 1]
        /\ connections' = [connections EXCEPT ![id] = opened[id] + 1]
        /\ loop' = [at |-> "connect_handle", link |-> l, package_id |-> p]
    BY <1>3 DEF receive
  <2>2. opened \in [Ids -> 0 .. MaxConnections] /\ connections \in [Ids -> 0 .. MaxConnections]
    BY DEF TypeOK
  <2>3. /\ opened'[id] = opened[id] + 1 /\ connections'[id] = opened[id] + 1
        /\ \A i \in Ids : i # id => opened'[i] = opened[i] /\ connections'[i] = connections[i]
        /\ \A i \in Ids : opened[i] <= opened'[i] /\ opened[i] \in Nat
    BY <2>1, <2>2, Bounds
  <2>4. loop'.at = "connect_handle" /\ loop'.link = l /\ l[1] = id /\ l[2] = opened[id] + 1
    BY <2>1
  <2>5. clients[id] = 0 \/ id \in erased
    BY <1>1, <1>3 DEF Sessions, Maps
  <2>6. \A m \in Links : m[2] <= opened[m[1]] =>
            m[2] <= opened'[m[1]] /\ ~(m[1] = id /\ m[2] = opened[id] + 1)
    BY <2>3, LinkParts, Bounds
  <2>7. /\ \A i \in DOMAIN pool : pool[i] \in Links /\ pool[i][2] <= opened[pool[i][1]]
        /\ \A w \in Threads : worker[w] # Idle =>
               worker[w].link \in Links /\ worker[w].link[2] <= opened[worker[w].link[1]]
    BY LinksOfTasks DEF Sessions, Maps
  <2>8. NoneEarly'
    <3>1. \A i \in DOMAIN pool : pool[i] # l
      BY <2>4, <2>6, <2>7
    <3>2. \A w \in Threads : worker[w].link # l
      <4>1. \A w \in Threads : worker[w] = Idle => worker[w].link # l
        <5>1. opened[id] \in 0 .. MaxConnections /\ opened[id] < MaxConnections
          BY <1>3, <2>2 DEF receive
        <5>2. l \in Links
          BY <5>1, Bounds DEF Links
        <5>3. QED
          BY <5>2, Bounds DEF Idle
      <4>2. QED
        BY <2>4, <2>6, <2>7, <4>1
    <3> HIDE DEF l
    <3>3. QED
      BY <1>1, <2>4, <3>1, <3>2 DEF NoneEarly
  <2>9. Maps'
    <3>1. \A i \in Ids : connections'[i] = 0 \/ connections'[i] = opened'[i]
      BY <2>3 DEF Sessions, Maps
    <3>2. \A i \in Ids : clients'[i] = 0 \/ clients'[i] = opened'[i] \/ i \in erased'
      BY <1>1, <2>3, <2>5 DEF Sessions, Maps
    <3>3. \A i \in erased' : connections'[i] # 0 =>
              Of(i)' \in orphans' \/ (loop'.at = "connect_handle" /\ loop'.link = Of(i)')
      <4>1. \A i \in erased : i \in Ids
        BY DEF TypeOK
      <4>2. Of(id)' = l
        BY <2>3 DEF Of
      <4>3. \A i \in erased : i # id => Of(i)' = Of(i) /\ connections'[i] = connections[i]
        BY <2>3, <4>1 DEF Of
      <4>4. \A i \in erased : i # id /\ connections[i] # 0 => Of(i) \in orphans
        BY <1>1 DEF Sessions, Maps
      <4>5. QED
        BY <1>1, <2>4, <4>2, <4>3, <4>4
    <3>4. \A i \in Ids : connections'[i] = 0 /\ clients'[i] # 0 => i \in erased'
      BY <1>1, <2>3 DEF Sessions, Maps
    <3>5. /\ \A i \in DOMAIN pool' : pool'[i][2] <= opened'[pool'[i][1]]
          /\ \A w \in Threads : worker'[w] # Idle =>
                 worker'[w].link[2] <= opened'[worker'[w].link[1]]
      BY <1>1, <2>6, <2>7
    <3> HIDE DEF l
    <3>6. QED
      BY <1>1, <2>3, <2>4, <2>5, <3>1, <3>2, <3>3, <3>4, <3>5 DEF Maps
  <2>10. OwnSession'
    <3>1. SUFFICES ASSUME NEW w \in Threads, worker[w].at = "handle",
                          connections'[worker[w].link[1]] = worker[w].link[2],
                          worker[w].link \notin orphans
                   PROVE  /\ worker[w].session = worker[w].link[2]
                          /\ clients[worker[w].link[1]] = worker[w].link[2]
      BY <1>1 DEF OwnSession, Alive
    <3>2. worker[w] # Idle /\ worker[w].link \in Links
      BY <3>1, LinksOfTasks DEF Idle
    <3>3. worker[w].link[1] # id
      BY <2>3, <2>6, <2>7, <3>1, <3>2
    <3>4. connections[worker[w].link[1]] = worker[w].link[2]
      BY <2>3, <3>1, <3>2, <3>3, LinkParts
    <3>5. QED
      BY <3>1, <3>4 DEF Sessions, OwnSession, Alive
  <2>11. QED
    BY <2>8, <2>9, <2>10 DEF Sessions
<1>4. QED
  BY <1>2, <1>3

\* The session opened by connect_handle is of the newest connection; where an
\* older one stays, the connection is an orphan.
LEMMA SessionsConnect ==
    ASSUME TypeOK, Sessions, connect_handle
    PROVE  Sessions'
<1> DEFINE l == loop.link
           id == l[1]
           n == IF clients[id] = 0 THEN l[2] ELSE clients[id]
<1>1. l \in Links /\ id \in Ids /\ l[2] = opened[id] /\ l[2] # 0 /\ l = <<id, l[2]>>
  <2>1. l \in Links
    BY LoopLink DEF connect_handle
  <2>2. l[2] = opened[id]
    BY <2>1, Bounds DEF Sessions, Maps
  <2>3. l = <<id, l[2]>>
    BY <2>1 DEF Links
  <2>4. QED
    BY <2>1, <2>2, <2>3, LinkParts
<1>2. /\ UNCHANGED <<connections, erased, opened, pool, worker>>
      /\ clients' = [clients EXCEPT ![id] = n]
      /\ orphans' = IF id \in erased THEN orphans \cup {l} ELSE orphans
      /\ loop.at = "connect_handle" /\ loop'.at = "update" /\ loop'.link = l
  <2>1. loop'.at = "update" /\ loop'.link = l
    BY DEF connect_handle, TypeOK, Round
  <2>2. QED
    BY <2>1 DEF connect_handle
<1>3. \A i \in Ids : clients'[i] = IF i = id THEN n ELSE clients[i]
  BY <1>1, <1>2 DEF TypeOK
<1>4. n # 0 /\ (id \notin erased => n = opened[id])
  BY <1>1, <1>2 DEF Sessions, Maps
<1>5. \A i \in Ids : i # id => ~(connections[i] = 0 /\ clients[i] # 0) \/ i \in erased
  BY <1>2 DEF Sessions, Maps
<1>6. \A i \in erased : connections[i] # 0 => Of(i) \in orphans'
  BY <1>2 DEF Sessions, Maps, Of
<1> HIDE DEF n
<1>7. Maps'
  <2>1. \A i \in Ids : clients'[i] = 0 \/ clients'[i] = opened'[i] \/ i \in erased'
    BY <1>2, <1>3, <1>4 DEF Sessions, Maps
  <2>2. \A i \in Ids : connections'[i] = 0 /\ clients'[i] # 0 =>
            i \in erased' \/ (loop'.at = "update" /\ loop'.link[1] = i)
    BY <1>2, <1>3, <1>5
  <2>3. \A i \in erased' : connections'[i] # 0 => Of(i)' \in orphans'
    BY <1>2, <1>6 DEF Of
  <2> HIDE DEF l, id
  <2>4. loop'.link[2] = opened'[loop'.link[1]]
    BY <1>1, <1>2 DEF id
  <2>5. QED
    BY <1>2, <2>1, <2>2, <2>3, <2>4 DEF Sessions, Maps
<1>8. NoneEarly'
  BY <1>2 DEF NoneEarly
<1>9. OwnSession'
  <2>1. SUFFICES ASSUME NEW w \in Threads, worker[w].at = "handle", Alive(worker[w].link),
                        worker[w].link \notin orphans
                 PROVE  /\ worker[w].session = worker[w].link[2]
                        /\ clients'[worker[w].link[1]] = worker[w].link[2]
    BY <1>2 DEF OwnSession, Alive
  <2>2. worker[w].link \in Links
    BY <2>1, LinksOfTasks DEF Idle
  <2>3. /\ worker[w].session = worker[w].link[2]
        /\ clients[worker[w].link[1]] = worker[w].link[2]
    BY <2>1 DEF Sessions, OwnSession
  <2>4. worker[w].link[1] \in Ids /\ clients[worker[w].link[1]] # 0
    BY <2>2, <2>3, LinkParts
  <2>5. clients'[worker[w].link[1]] = clients[worker[w].link[1]]
    BY <1>3, <2>4 DEF n
  <2>6. QED
    BY <2>3, <2>5
<1>10. QED
  BY <1>7, <1>8, <1>9 DEF Sessions

\* A task is started for the newest connection of a client only.
LEMMA SessionsStart ==
    ASSUME TypeOK, Sessions, handle_connection
    PROVE  Sessions'
<1> DEFINE l == loop.link
<1>1. /\ UNCHANGED <<connections, clients, erased, opened, orphans, worker>>
      /\ loop'.at = "update_timeout" /\ loop'.link = None
      /\ pool' = pool \/ pool' = Append(pool, l)
      /\ loop.at = "handle_connection"
  BY DEF handle_connection, Waiting
<1>2. l \in Links /\ l[2] = opened[l[1]] /\ opened[l[1]] \in Nat
  <2>1. l \in Links
    BY <1>1, LoopLink
  <2>2. QED
    BY <2>1, LinkParts, Bounds DEF Sessions, Maps, TypeOK
<1>3. \A i \in DOMAIN pool' : pool'[i][2] <= opened[pool'[i][1]]
  <2>1. pool \in Seq(Links)
    BY DEF TypeOK
  <2> HIDE DEF l
  <2>2. CASE pool' = Append(pool, l)
    <3>1. /\ DOMAIN pool = 1 .. Len(pool) /\ Len(pool) \in Nat
          /\ DOMAIN pool' = 1 .. Len(pool) + 1
          /\ \A i \in 1 .. Len(pool) : pool'[i] = pool[i]
          /\ pool'[Len(pool) + 1] = l
      BY <1>2, <2>1, <2>2, Appended
    <3>2. \A i \in 1 .. Len(pool) + 1 : i \in 1 .. Len(pool) \/ i = Len(pool) + 1
      BY <3>1
    <3>3. l[2] <= opened[l[1]]
      BY <1>2
    <3>4. QED
      BY <3>1, <3>2, <3>3 DEF Sessions, Maps
  <2>3. CASE pool' = pool
    BY <2>3 DEF Sessions, Maps
  <2>4. QED
    BY <1>1, <2>2, <2>3
<1> HIDE DEF l
<1>4. Maps'
  <2>1. \A i \in erased : connections[i] # 0 => Of(i) \in orphans
    BY <1>1 DEF Sessions, Maps
  <2>2. \A i \in Ids : connections[i] = 0 /\ clients[i] # 0 => i \in erased
    BY <1>1 DEF Sessions, Maps
  <2>3. QED
    BY <1>1, <1>3, <2>1, <2>2 DEF Sessions, Maps, Of
<1>5. NoneEarly' /\ OwnSession'
  BY <1>1 DEF Sessions, NoneEarly, OwnSession, Alive
<1>6. QED
  BY <1>4, <1>5 DEF Sessions

\* A kill takes the entries out of the map of connections first.
LEMMA SessionsKill ==
    ASSUME TypeOK, Sessions, NEW ids \in SUBSET Ids, unsafe_kill(ids),
           loop' = loop \/ (loop'.at # "connect_handle" /\ loop'.link = None
                                /\ loop.at \notin {"connect_handle", "update"})
    PROVE  Sessions'
<1>1. /\ \A id \in Ids : connections'[id] = IF id \in ids THEN 0 ELSE connections[id]
      /\ erased = {} /\ erased' = ids
      /\ UNCHANGED <<clients, opened, pool, worker, orphans>>
  BY DEF unsafe_kill
<1>2. loop.at = "connect_handle" => loop.link \in Links /\ loop.link[1] \in Ids
  BY LoopLink, LinkParts
<1>3. Maps'
  <2>1. /\ \A id \in Ids : connections'[id] = 0 \/ connections'[id] = opened'[id]
        /\ \A id \in Ids : clients'[id] = 0 \/ clients'[id] = opened'[id] \/ id \in erased'
        /\ \A id \in erased' : connections'[id] = 0
    BY <1>1 DEF Sessions, Maps
  <2>2. \A id \in Ids : connections'[id] = 0 /\ clients'[id] # 0 =>
            id \in erased' \/ (loop'.at = "update" /\ loop'.link[1] = id)
    BY <1>1 DEF Sessions, Maps
  <2>3. loop'.at = "connect_handle" => clients'[loop'.link[1]] = 0
    BY <1>1, <1>2 DEF Sessions, Maps
  <2>4. loop'.link # None => loop'.link[2] = opened'[loop'.link[1]]
    BY <1>1 DEF Sessions, Maps
  <2>5. QED
    BY <1>1, <2>1, <2>2, <2>3, <2>4 DEF Sessions, Maps
<1>4. NoneEarly'
  BY <1>1 DEF Sessions, NoneEarly
<1>5. OwnSession'
  <2>1. SUFFICES ASSUME NEW w \in Threads, worker[w].at = "handle",
                        connections'[worker[w].link[1]] = worker[w].link[2],
                        worker[w].link \notin orphans
                 PROVE  /\ worker[w].session = worker[w].link[2]
                        /\ clients[worker[w].link[1]] = worker[w].link[2]
    BY <1>1 DEF OwnSession, Alive
  <2>2. worker[w].link[1] \in Ids /\ worker[w].link[2] # 0
    BY <2>1, LinksOfTasks, LinkParts DEF Idle
  <2>3. connections[worker[w].link[1]] = worker[w].link[2]
    BY <1>1, <2>1, <2>2
  <2>4. QED
    BY <2>1, <2>3 DEF Sessions, OwnSession, Alive
<1>6. QED
  BY <1>3, <1>4, <1>5 DEF Sessions

\* The session goes after its connection: no handler of a connection that came
\* in between, other than an orphan, works on it.
LEMMA SessionsDisconnect ==
    ASSUME TypeOK, Sessions, NEW id \in Ids, disconnect_handle(id)
    PROVE  Sessions'
<1>1. /\ \A i \in Ids : clients'[i] = IF i = id THEN 0 ELSE clients[i]
      /\ id \in erased /\ erased' = erased \ {id}
      /\ UNCHANGED <<connections, opened, pool, worker, orphans>>
      /\ loop' = loop \/ (loop'.at = "epoll_wait" /\ loop'.link = None
                              /\ loop.at = "unsafe_kill")
  BY DEF disconnect_handle, Forgotten, TypeOK, Waiting
<1>2. loop.at = "connect_handle" => loop.link \in Links /\ loop.link[1] \in Ids
  BY LoopLink, LinkParts
<1>3. Maps'
  <2>1. /\ \A i \in Ids : connections'[i] = 0 \/ connections'[i] = opened'[i]
        /\ \A i \in Ids : clients'[i] = 0 \/ clients'[i] = opened'[i] \/ i \in erased'
    BY <1>1 DEF Sessions, Maps
  <2>2. \A i \in Ids : connections'[i] = 0 /\ clients'[i] # 0 =>
            i \in erased' \/ (loop'.at = "update" /\ loop'.link[1] = i)
    BY <1>1 DEF Sessions, Maps
  <2>3. loop'.at = "connect_handle" => clients'[loop'.link[1]] = 0 \/ loop'.link[1] \in erased'
    BY <1>1, <1>2 DEF Sessions, Maps
  <2>4. loop'.link # None => loop'.link[2] = opened'[loop'.link[1]]
    BY <1>1 DEF Sessions, Maps
  <2>5. \A i \in erased' : connections'[i] # 0 =>
            Of(i)' \in orphans' \/ (loop'.at = "connect_handle" /\ loop'.link = Of(i)')
    BY <1>1 DEF Sessions, Maps, Of
  <2>6. QED
    BY <1>1, <2>1, <2>2, <2>3, <2>4, <2>5 DEF Sessions, Maps
<1>4. NoneEarly'
  BY <1>1 DEF Sessions, NoneEarly
<1>5. OwnSession'
  <2>1. SUFFICES ASSUME NEW w \in Threads, worker[w].at = "handle", Alive(worker[w].link),
                        worker[w].link \notin orphans
                 PROVE  /\ worker[w].session = worker[w].link[2]
                        /\ clients'[worker[w].link[1]] = worker[w].link[2]
    BY <1>1 DEF OwnSession, Alive
  <2> DEFINE l == worker[w].link
  <2>2. l \in Links
    BY <2>1, LinksOfTasks DEF Idle
  <2>3. l[1] \in Ids /\ l[2] # 0 /\ l = <<l[1], l[2]>>
    BY <2>2, LinkParts DEF Links
  <2>4. l[1] # id
    <3>1. SUFFICES ASSUME l[1] = id PROVE FALSE
      OBVIOUS
    <3>2. Of(id) = l /\ connections[id] # 0
      BY <2>1, <2>3, <3>1 DEF Of, Alive
    <3>3. loop.at = "connect_handle" /\ loop.link = l
      BY <1>1, <2>1, <3>2 DEF Sessions, Maps
    <3>4. QED
      BY <3>3 DEF Sessions, NoneEarly
  <2>5. worker[w].session = l[2] /\ clients[l[1]] = l[2]
    BY <2>1 DEF Sessions, OwnSession
  <2>6. QED
    BY <1>1, <2>3, <2>4, <2>5
<1>6. QED
  BY <1>3, <1>4, <1>5 DEF Sessions

\* A thread takes a task over from the pool.
LEMMA SessionsBegin ==
    ASSUME TypeOK, Sessions, NEW w \in Threads, begin(w)
    PROVE  Sessions'
<1> DEFINE l == Head(pool)
<1>1. /\ pool \in Seq(Links) /\ pool # <<>> /\ pool' = Tail(pool)
      /\ UNCHANGED <<connections, clients, erased, opened, orphans, loop>>
  BY DEF begin, TypeOK
<1>2. /\ Len(pool) \in Nat \ {0} /\ DOMAIN pool = 1 .. Len(pool) /\ l = pool[1]
      /\ DOMAIN pool' = 1 .. Len(pool) - 1
      /\ \A i \in 1 .. Len(pool) - 1 : pool'[i] = pool[i + 1]
  BY <1>1, Tailed
<1>3. \A i \in DOMAIN pool' : i + 1 \in DOMAIN pool /\ pool'[i] = pool[i + 1]
  BY <1>2
<1>4. 1 \in DOMAIN pool
  BY <1>2
<1>5. l[2] <= opened[l[1]]
  BY <1>2, <1>4 DEF Sessions, Maps
<1>6. /\ worker'[w].link = l /\ worker'[w].at = "test"
      /\ \A v \in Threads : v # w => worker'[v] = worker[v]
  BY DEF begin, Begun, TypeOK
<1>7. l = pool[1]
  BY <1>2
<1> HIDE DEF l
<1>8. Maps'
  <2>1. \A i \in DOMAIN pool' : pool'[i][2] <= opened'[pool'[i][1]]
    BY <1>1, <1>3 DEF Sessions, Maps
  <2>2. \A v \in Threads : worker'[v] # Idle =>
            worker'[v].link[2] <= opened'[worker'[v].link[1]]
    BY <1>1, <1>5, <1>6 DEF Sessions, Maps
  <2>3. QED
    BY <1>1, <2>1, <2>2 DEF Sessions, Maps, Of
<1>9. NoneEarly'
  BY <1>1, <1>3, <1>4, <1>6, <1>7 DEF Sessions, NoneEarly
<1>10. OwnSession'
  BY <1>1, <1>6 DEF Sessions, OwnSession, Alive
<1>11. QED
  BY <1>8, <1>9, <1>10 DEF Sessions

\* The session a handler gets is of its connection if that is still in the map
\* and no orphan.
LEMMA SessionsTake ==
    ASSUME TypeOK, Sessions, NEW w \in Threads, take(w)
    PROVE  Sessions'
<1> DEFINE l == worker[w].link
<1>1. worker[w] \in Task /\ worker[w] # Idle
  BY LinkOfTask DEF take, Idle
<1>2. /\ worker'[w].link = l /\ worker'[w].at = "handle" /\ worker'[w].session = clients[l[1]]
      /\ \A v \in Threads : v # w => worker'[v] = worker[v]
      /\ UNCHANGED <<connections, clients, erased, opened, orphans, pool, loop>>
      /\ clients[l[1]] # 0
  BY <1>1 DEF take, TypeOK, Task
<1>3. Maps'
  BY <1>1, <1>2 DEF Sessions, Maps, Of
<1>4. NoneEarly'
  BY <1>2 DEF Sessions, NoneEarly
<1>5. l \in Links /\ l[1] \in Ids /\ l[2] # 0 /\ l = <<l[1], l[2]>>
  <2>1. l \in Links
    BY <1>1 DEF Task
  <2>2. QED
    BY <2>1, LinkParts DEF Links
<1>6. Alive(l) /\ l \notin orphans => clients[l[1]] = l[2]
  <2>1. SUFFICES ASSUME connections[l[1]] = l[2], l \notin orphans PROVE clients[l[1]] = l[2]
    BY DEF Alive
  <2>2. Of(l[1]) = l
    BY <1>5, <2>1 DEF Of
  <2>3. l[1] \notin erased
    BY <1>5, <2>1, <2>2 DEF Sessions, Maps, NoneEarly
  <2>4. QED
    BY <1>2, <1>5, <2>1, <2>3 DEF Sessions, Maps
<1>7. OwnSession'
  <2>1. SUFFICES ASSUME NEW v \in Threads, worker'[v].at = "handle", Alive(worker'[v].link),
                        worker'[v].link \notin orphans
                 PROVE  /\ worker'[v].session = worker'[v].link[2]
                        /\ clients[worker'[v].link[1]] = worker'[v].link[2]
    BY <1>2 DEF OwnSession, Alive
  <2>2. CASE v = w
    BY <1>2, <1>6, <2>1, <2>2
  <2>3. CASE v # w
    BY <1>2, <2>1, <2>3 DEF Sessions, OwnSession
  <2>4. QED
    BY <2>2, <2>3
<1>8. QED
  BY <1>3, <1>4, <1>7 DEF Sessions

\* Any other step of a thread.
LEMMA SessionsTask ==
    ASSUME TypeOK, Sessions, NEW w \in Threads,
           handle(w) \/ handle_undefined(w) \/ finish(w) \/ end(w)
    PROVE  Sessions'
<1>1. UNCHANGED <<connections, clients, erased, opened, orphans, pool, loop>>
  BY DEF handle, handle_undefined, finish, end
<1>2. \A v \in Threads : worker'[v] = worker[v] \/ worker'[v] = Idle
          \/ (worker[v] # Idle /\ worker'[v].link = worker[v].link /\ worker'[v].at # "handle")
  <2>1. CASE handle(w)
    <3>1. worker[w] \in Task /\ worker[w] # Idle
      BY <2>1, LinkOfTask DEF handle, Idle
    <3>2. PICK close \in BOOLEAN :
              worker' = [worker EXCEPT ![w].at = "test", ![w].close = close, ![w].session = 0]
      BY <2>1 DEF handle
    <3>3. worker'[w].link = worker[w].link /\ worker'[w].at = "test"
      BY <3>1, <3>2 DEF TypeOK, Task
    <3>4. \A v \in Threads : v # w => worker'[v] = worker[v]
      BY <3>2 DEF TypeOK
    <3>5. QED
      BY <3>1, <3>3, <3>4
  <2>2. CASE finish(w)
    <3>1. worker[w] \in Task /\ worker[w] # Idle
      BY <2>2, LinkOfTask DEF finish, Idle
    <3>2. QED
      BY <2>2, <3>1 DEF finish, TypeOK, Task
  <2>3. CASE handle_undefined(w)
    BY <2>3 DEF handle_undefined
  <2>4. CASE end(w)
    BY <2>4 DEF end, TypeOK
  <2>5. QED
    BY <2>1, <2>2, <2>3, <2>4
<1>3. QED
  BY <1>1, <1>2, SessionsFrame

\* Every step keeps the maps and the sessions of the tasks.
LEMMA SessionsStep ==
    ASSUME TypeOK, Sessions, [Next]_vars
    PROVE  Sessions'
<1>1. ASSUME NEW id \in Ids, NEW p \in 0 .. MaxMessages - 1, receive(id, p) PROVE Sessions'
  BY <1>1, SessionsReceive
<1>2. CASE connect_handle
  BY <1>2, SessionsConnect
<1>3. CASE update
  <2>1. loop'.at = "empty" /\ loop'.link = loop.link
    BY <1>3 DEF update, TypeOK, Round
  <2>2. QED
    BY <1>3, <2>1, SessionsLoop DEF update
<1>4. CASE empty
  <2>1. loop'.at # "connect_handle" /\ (loop'.link = loop.link \/ loop'.link = None)
    BY <1>4 DEF empty, Waiting, TypeOK, Round
  <2>2. QED
    BY <1>4, <2>1, SessionsLoop DEF empty
<1>5. CASE handle_connection
  BY <1>5, SessionsStart
<1>6. ASSUME UNCHANGED <<connections, clients, erased, opened, orphans, pool, worker, loop>>
      PROVE  Sessions'
  BY <1>6, SessionsFrame
<1>7. CASE update_null
  BY <1>6, <1>7 DEF update_null
<1>8. CASE update_timeout
  <2>1. loop'.at = "disconnect" /\ loop'.link = None
    BY <1>8 DEF update_timeout, Waiting
  <2>2. QED
    BY <1>8, <2>1, SessionsLoop DEF update_timeout
<1>9. CASE disconnect_unavailable_connections
  <2> DEFINE ids == {id \in Ids : connections[id] # 0 /\ connection[Of(id)].close}
  <2>1. unsafe_kill(ids) /\ ids \in SUBSET Ids
    BY <1>9 DEF disconnect_unavailable_connections
  <2>2. loop'.at # "connect_handle" /\ loop'.link = None /\ loop.at = "disconnect"
    BY <1>9 DEF disconnect_unavailable_connections, Waiting
  <2> HIDE DEF ids
  <2>3. QED
    BY <2>1, <2>2, SessionsKill
<1>10. CASE disconnect_connections
  <2> DEFINE ids == {id \in Ids : connections[id] # 0}
  <2>1. unsafe_kill(ids) /\ ids \in SUBSET Ids
    BY <1>10 DEF disconnect_connections
  <2>2. loop'.at # "connect_handle" /\ loop'.link = None /\ loop.at = "epoll_wait"
    BY <1>10 DEF disconnect_connections, Waiting
  <2> HIDE DEF ids
  <2>3. QED
    BY <2>1, <2>2, SessionsKill
<1>11. ASSUME NEW id \in Ids, kill(id) PROVE Sessions'
  BY <1>11, SessionsKill DEF kill
<1>12. ASSUME NEW id \in Ids, disconnect_handle(id) PROVE Sessions'
  BY <1>12, SessionsDisconnect
<1>13. ASSUME NEW id \in Ids, send(id) PROVE Sessions'
  BY <1>6, <1>13 DEF send
<1>14. CASE stop
  BY <1>6, <1>14 DEF stop
<1>15. ASSUME NEW w \in Threads, begin(w) PROVE Sessions'
  BY <1>15, SessionsBegin
<1>16. ASSUME NEW w \in Threads, take(w) PROVE Sessions'
  BY <1>16, SessionsTake
<1>17. ASSUME NEW w \in Threads, handle(w) \/ handle_undefined(w) \/ finish(w) \/ end(w)
       PROVE  Sessions'
  BY <1>17, SessionsTask
<1>18. CASE UNCHANGED vars
  BY <1>6, <1>18 DEF vars
<1>19. QED
  BY <1>1, <1>2, <1>3, <1>4, <1>5, <1>7, <1>8, <1>9, <1>10, <1>11, <1>12, <1>13, <1>14,
     <1>15, <1>16, <1>17, <1>18 DEF Next, run, arrive, task

\* While a connection is in the map its handlers work on the session it opened,
\* not on one that a dropped connection of the same client left behind; except
\* for connections that were entered during the kill of the one before, between
\* the erasure of its two entries.
THEOREM OwnSessionAlways == Spec => []OwnSession
<1>1. TypeOK /\ Sessions /\ [Next]_vars => TypeOK' /\ Sessions'
  BY TypeStep, SessionsStep
<1>2. Sessions => OwnSession
  BY DEF Sessions
<1>3. QED
  BY <1>1, <1>2, TypeInit, SessionsInit, PTL DEF Spec
=============================================================================
