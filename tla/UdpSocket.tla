----------------------------- MODULE UdpSocket -----------------------------
(***************************************************************************)
(* transfer/udp/LinuxSocket.cpp: the two sockets of one connection, and    *)
(* the network between them.  A message travels as numbered packages; the  *)
(* receiver takes the one package it waits for, answers SUCCESS when the   *)
(* last one of a message has come, and ignores every other; the sender     *)
(* keeps each message until a SUCCESS and repeats them all on a timer.     *)
(* Neither side closes here and no timer runs out.                         *)
(***************************************************************************)
EXTENDS Integers, SequencesExt

CONSTANTS
    Messages,       \* what the two ends send
    ID_MODULUS,     \* package_id is a char: 256 in the program
    RETRY_TIMEOUT,  \* in units of TransferServer::TIMEOUT_MSEC: 1 in the program
    Faults,         \* of the network, out of {"lose", "duplicate", "reorder"}
    Script,         \* bound: what each end sends, end -> sequence of messages
    MaxUnacked,     \* bound: messages in a send_buffer
    MaxInFlight     \* bound: packages on the way to one end, beside the SUCCESSes

\* A message has so many packages.  It is full when its text and DELIMITER
\* fill all but the last of them, which is then empty.
Message == [name : STRING, packages : 1 .. 255, full : BOOLEAN]

ASSUME SocketAssumption ==
    /\ \A m \in Messages : m \in Message /\ (m.full => m.packages > 1)
    /\ ID_MODULUS \in Nat \ {0} /\ RETRY_TIMEOUT \in Nat
    /\ MaxUnacked \in Nat /\ MaxInFlight \in Nat
    /\ Faults \subseteq {"lose", "duplicate", "reorder"}

Ends    == {"client", "server"}
peer(e) == IF e = "client" THEN "server" ELSE "client"

ASSUME ScriptAssumption == Script \in [Ends -> Seq(Messages)]

VARIABLES
    socket,    \* end -> the fields of its LinuxSocket
    network,   \* end -> the packages on the way to it
    sent,      \* end -> the messages it has sent
    received   \* end -> what has gone through its receive_buffer, a queue

vars == <<socket, network, sent, received>>

WAIT_PACKAGE == 0

\* The fields of a LinuxSocket, as they are initialised.
NewSocket ==
    [package_id       |-> 0,    \* of the next message to send
     send_buffer      |-> <<>>, \* messages not acknowledged, with their ids
     expected_id      |-> 0,    \* the package waited for ...
     expected_number  |-> 0,
     expected_numbers |-> WAIT_PACKAGE,
     buffer           |-> <<>>, \* ... and what has come before it
     retry_timeout    |-> 0]

Init ==
    /\ socket = [e \in Ends |-> NewSocket]
    /\ network = [e \in Ends |-> <<>>]
    /\ sent = [e \in Ends |-> <<>>]
    /\ received = [e \in Ends |-> <<>>]
-----------------------------------------------------------------------------
(* Packages.                                                               *)

\* The text of package number n of a message.  (substr is given the end of
\* the part for its length; the receiver reads BUFFER_SIZE bytes of the
\* datagram, and so just the part.)
Text(m, n) == IF m.full /\ n = m.packages - 1 THEN <<>> ELSE <<[message |-> m, number |-> n]>>

\* The piece of text in which DELIMITER ends.
EndsMessage(piece) ==
    piece.number = piece.message.packages - (IF piece.message.full THEN 2 ELSE 1)

\* A whole message, as receive() hands it out.
Whole(m) == [n \in 1 .. m.packages - (IF m.full THEN 1 ELSE 0) |->
                [message |-> m, number |-> n - 1]]

Success == [type |-> "SUCCESS"]

Packages(entry) ==
    [n \in 1 .. entry.message.packages |->
        [type |-> "USER", id |-> entry.id, number |-> n - 1,
         numbers |-> entry.message.packages, text |-> Text(entry.message, n - 1)]]

raw_send(e, packages) ==
    /\ Len(network[peer(e)] \o packages) <= MaxInFlight
    /\ network' = [network EXCEPT ![peer(e)] = @ \o packages]

buffered_send(e, m) ==
    LET entry == [id |-> socket[e].package_id, message |-> m]
    IN  /\ IsPrefix(Append(sent[e], m), Script[e])
        /\ Len(socket[e].send_buffer) < MaxUnacked
        /\ raw_send(e, Packages(entry))
        /\ socket' = [socket EXCEPT ![e].package_id = (@ + 1) % ID_MODULUS,
                                    ![e].send_buffer = Append(@, entry)]
        /\ sent' = [sent EXCEPT ![e] = Append(@, m)]
        /\ UNCHANGED received
-----------------------------------------------------------------------------
(* update(timeout).                                                        *)

\* The client calls it after TIMEOUT_MSEC without a package, the server in
\* every round of its loop.
MayTick(e) == e = "client" => network[e] = <<>>

\* Mutant: the timer is compared before it is advanced.
ExpiredLate(e) == socket[e].retry_timeout > RETRY_TIMEOUT

Expired(e) == socket[e].retry_timeout + 1 > RETRY_TIMEOUT

wait(e) ==
    /\ MayTick(e) /\ ~Expired(e)
    /\ socket' = [socket EXCEPT ![e].retry_timeout = @ + 1]
    /\ UNCHANGED <<network, sent, received>>

\* Mutant: only the message sent last is repeated.
ResendLast(e) ==
    LET entries == socket[e].send_buffer
    IN  IF entries = <<>> THEN <<>> ELSE Packages(Last(entries))

Resend(e) == FlattenSeq([i \in DOMAIN socket[e].send_buffer |-> Packages(socket[e].send_buffer[i])])

retry(e) ==
    /\ MayTick(e) /\ Expired(e)
    /\ raw_send(e, Resend(e))
    /\ socket' = [socket EXCEPT ![e].retry_timeout = 0]
    /\ UNCHANGED <<sent, received>>
-----------------------------------------------------------------------------
(* update(data): a package comes in.                                       *)

\* What may come in next, and what is left on the way then.
Arrivals(e) == IF "reorder" \in Faults THEN DOMAIN network[e] ELSE {1} \cap DOMAIN network[e]

Leaves(e, i) ==
    \/ network' = [network EXCEPT ![e] = RemoveAt(@, i)]
    \/ "duplicate" \in Faults /\ UNCHANGED network

lose(e) ==
    /\ "lose" \in Faults
    /\ \E i \in Arrivals(e) : network' = [network EXCEPT ![e] = RemoveAt(@, i)]
    /\ UNCHANGED <<socket, sent, received>>

\* Mutant: a SUCCESS takes the newest message off.
pop_back(entries) == IF entries = <<>> THEN <<>> ELSE Front(entries)

\* send_buffer.pop_front(), of a queue that may be empty.
pop_front(entries) == IF entries = <<>> THEN <<>> ELSE Tail(entries)

acknowledged(e) ==
    /\ \E i \in Arrivals(e) : network[e][i] = Success /\ Leaves(e, i)
    /\ socket' = [socket EXCEPT ![e].send_buffer = pop_front(@),
                                ![e].retry_timeout =
                                    IF socket[e].send_buffer = <<>> THEN @ ELSE 0]
    /\ UNCHANGED <<sent, received>>

\* Mutant: any package with the right number is taken.
AcceptsAnyId(s, package) ==
    /\ package.number = s.expected_number
    /\ s.expected_numbers \in {WAIT_PACKAGE, package.numbers}

Accepts(s, package) ==
    /\ package.id = s.expected_id
    /\ package.number = s.expected_number
    /\ s.expected_numbers \in {WAIT_PACKAGE, package.numbers}

ignored(e) ==
    /\ \E i \in Arrivals(e) :
           /\ network[e][i].type = "USER" /\ ~Accepts(socket[e], network[e][i])
           /\ Leaves(e, i)
    /\ UNCHANGED <<socket, sent, received>>

\* The socket after a package it accepts.
Counted(s, package) ==
    IF package.number + 1 = package.numbers
    THEN [s EXCEPT !.expected_number = 0, !.expected_numbers = WAIT_PACKAGE,
                   !.expected_id = (@ + 1) % ID_MODULUS, !.retry_timeout = 0]
    ELSE [s EXCEPT !.expected_number = @ + 1, !.expected_numbers = package.numbers,
                   !.retry_timeout = 0]

\* buffer.append, and receive_buffer.push of the message DELIMITER ends.
Completes(text) == text # <<>> /\ EndsMessage(text[1])
Buffered(s, text) ==
    [s EXCEPT !.buffer = IF Completes(text) THEN <<>> ELSE @ \o text]
Pushed(s, text) == IF Completes(text) THEN <<s.buffer \o text>> ELSE <<>>

accepted(e) ==
    /\ \E i \in Arrivals(e) :
           LET package == network[e][i]
               s == socket[e]
           IN  /\ package.type = "USER" /\ Accepts(s, package)
               /\ socket' = [socket EXCEPT ![e] = Buffered(Counted(s, package), package.text)]
               /\ received' = [received EXCEPT ![e] = @ \o Pushed(s, package.text)]
               /\ \E rest \in {RemoveAt(network[e], i)} \cup
                              (IF "duplicate" \in Faults THEN {network[e]} ELSE {}) :
                      IF package.number + 1 = package.numbers
                      THEN network' = [network EXCEPT ![e] = rest,
                                                      ![peer(e)] = Append(@, Success)]
                      ELSE network' = [network EXCEPT ![e] = rest]
    /\ UNCHANGED sent
-----------------------------------------------------------------------------
update(e) == acknowledged(e) \/ ignored(e) \/ accepted(e)
tick(e)   == wait(e) \/ retry(e)

Next == \E e \in Ends :
    \/ \E m \in Messages : buffered_send(e, m)
    \/ tick(e) \/ update(e) \/ lose(e)

Spec == Init /\ [][Next]_vars

\* The loops go on, the network moves what it does not lose, and it does not
\* lose the awaited package every time.
FairSpec == Spec /\ \A e \in Ends :
    WF_vars(tick(e)) /\ WF_vars(update(e)) /\ SF_vars(accepted(e))
-----------------------------------------------------------------------------
Entry  == [id : 0 .. ID_MODULUS - 1, message : Messages]
Piece  == [message : Messages, number : 0 .. 254]
Socket == [package_id       : 0 .. ID_MODULUS - 1,
           send_buffer      : Seq(Entry),
           expected_id      : 0 .. ID_MODULUS - 1,
           expected_number  : 0 .. 254,
           expected_numbers : 0 .. 255,
           buffer           : Seq(Piece),
           retry_timeout    : 0 .. RETRY_TIMEOUT]

Package ==
    [type : {"SUCCESS"}] \cup
    [type : {"USER"}, id : 0 .. ID_MODULUS - 1, number : 0 .. 254, numbers : 1 .. 255,
     text : Seq(Piece)]

TypeOK ==
    /\ socket \in [Ends -> Socket]
    /\ network \in [Ends -> Seq(Package)]
    /\ sent \in [Ends -> Seq(Messages)]
    /\ received \in [Ends -> Seq(Seq(Piece))]

\* The text of a message, or of parts of several: then it is nobody's.
Garbled == [name |-> "garbled", packages |-> 1, full |-> FALSE]
MessageOf(text) ==
    IF \E m \in Messages : text = Whole(m) THEN CHOOSE m \in Messages : text = Whole(m)
    ELSE Garbled

arrived == [e \in Ends |->
    [i \in DOMAIN received[e] |-> MessageOf(received[e][i])]]

\* The sockets implement a stream of messages in each direction: nothing is
\* lost out of the middle, repeated, reordered or put together wrongly.
Stream == INSTANCE ReliableStream WITH
    Messages <- Messages, sent <- sent, arrived <- arrived
StreamImplemented == Stream!Spec

\* What has not arrived is still in the send_buffer, and will be repeated: a
\* SUCCESS, which does not say for what, never takes off such a message.
UndeliveredKept == \A e \in Ends :
    IsSuffix(SubSeq(sent[e], Len(arrived[peer(e)]) + 1, Len(sent[e])),
             [i \in DOMAIN socket[e].send_buffer |-> socket[e].send_buffer[i].message])

\* Whatever the network loses, every message of the server arrives.  (The
\* client's may not: a server that repeats its own messages all the time keeps
\* the client from ever waiting in vain, and so from repeating.)
ServerMessagesArrive == []<>(Len(arrived["client"]) = Len(sent["server"]))
=============================================================================
