---------------------------- MODULE Conversation ----------------------------
(***************************************************************************)
(* One client and the server's side of its connection: core/Client.cpp     *)
(* with its handlers and commands over session/SessionClient.cpp, and      *)
(* Server::session_handle over session/SessionServer.cpp.  Below, two      *)
(* reliable streams (ReliableStream) until the server drops the client;    *)
(* what it sends then opens another connection (TransferServer).           *)
(* Three threads of the server send to the client: the task of its own     *)
(* requests, a handler of somebody else's, and the console.  What a        *)
(* handler does to the game is GameServer's subject; here it is to the     *)
(* permission of this client and to the messages it gets.                  *)
(***************************************************************************)
EXTENDS Permissions, Naturals, Sequences

CONSTANTS
    None,         \* nothing to send
    Accounts,     \* permissions an account may have, or be given, in the database:
                  \* Client::set_permission lets no other than those of WAIT through
    MaxRequests,  \* bounds: commands the user types,
    MaxNews,      \* messages from handlers of other clients' requests,
    MaxTexts      \* texts the console sends to this client

\* What a message says, a permission if it tells one, and how it is encrypted.
Messages == [says : {"init", "text", "done", "permission"}, permission : SUBSET ALL,
             cipher : {"plain", "rsa", "aes"}]

ASSUME ConversationAssumption ==
    /\ {MaxRequests, MaxNews, MaxTexts} \subseteq Nat
    /\ Accounts # {} /\ Accounts \subseteq SUBSET WAIT
    /\ None \notin Messages

Threads == {"task", "other", "console"}

VARIABLES
    client,    \* SessionClient::state, Session::state, permission, the process
    server,    \* the same of the server, and whether the connection is there
    requests,  \* on the way to the server
    answers,   \* on the way to the client
    out,       \* thread of the server -> the message it is sending, or None
    count,     \* requests, news and texts so far
    guest,     \* permission of the account guest in the database
    raced,     \* history: the latest permission was told by two threads at a time
    early      \* history: another's handler told it one before INIT_MESSAGE was sent

vars == <<client, server, requests, answers, out, count, guest, raced, early>>

Init ==
    /\ client = [state |-> "INIT", crypto |-> "INIT", permission |-> GUEST,
                 status |-> "running"]
    /\ server = [state |-> "INIT", crypto |-> "INIT", permission |-> GUEST,
                 connected |-> TRUE, status |-> "running"]
    /\ requests = <<>> /\ answers = <<>>
    /\ out = [t \in Threads |-> None]
    /\ count = [requests |-> 0, news |-> 0, texts |-> 0]
    /\ guest = GUEST /\ raced = FALSE /\ early = FALSE
-----------------------------------------------------------------------------
(* What may be asked, and what is answered.                                *)

Commands == {"signin", "signup", "signout", "join", "create", "leave", "tables", "users",
             "write", "disconnect", "sync", "set_permission", "spin", "bet", "bets",
             "balance", "kick"}

\* The permission ServerHandlers asks for.
handlers(c) ==
    CASE c = "signin"         -> GUEST
      [] c = "signout"        -> WAIT
      [] c = "join"           -> WAIT
      [] c = "create"         -> STAFF
      [] c = "leave"          -> PLAY
      [] c = "tables"         -> WAIT
      [] c = "users"          -> PLAY
      [] c = "write"          -> PLAY
      [] c = "disconnect"     -> ALL
      [] c = "sync"           -> AUTH
      [] c = "signup"         -> GUEST
      [] c = "set_permission" -> ADMIN
      [] c = "spin"           -> CROUPIER
      [] c = "bet"            -> PLAYER
      [] c = "bets"           -> PLAY
      [] c = "balance"        -> AUTH
      [] c = "kick"           -> CROUPIER

\* Mutant: the client lets everybody create.
commands_wait(c) == IF c = "create" THEN WAIT ELSE handlers(c)

\* The permission ClientCommands asks for; help and list stay with the client.
commands(c) ==
    CASE c \in {"signin", "signup"}                  -> GUEST
      [] c \in {"signout", "join", "tables"}         -> WAIT
      [] c = "create"                                -> STAFF
      [] c \in {"leave", "users", "write", "bets"}   -> PLAY
      [] c \in {"sync", "balance"}                   -> AUTH
      [] c = "set_permission"                        -> ADMIN
      [] c \in {"spin", "kick"}                      -> CROUPIER
      [] c = "bet"                                   -> PLAYER
      [] c = "disconnect"                            -> ALL

\* The permission of the client after a handler that succeeds.  set_permission is of
\* the account of whoever asks; for another's it answers without one, as fail does ...
Effects(c) ==
    CASE c \in {"signin", "leave"} -> Accounts \cup {guest}
      [] c = "set_permission"      -> Accounts
      [] c = "signout"             -> {guest}
      [] c = "join"                -> {PLAYER}
      [] c = "create"              -> {CROUPIER}
      [] OTHER                     -> {server.permission}

\* ... and the one it is told, if it is: do_signout says GUEST whatever the account has.
TellsPermission == {"signin", "signout", "join", "create", "leave", "sync", "set_permission"}

Announced(c, p) == IF c = "signout" THEN GUEST ELSE p

Message(says, permission) == [says |-> says, permission |-> permission, cipher |-> "plain"]

INIT_MESSAGE == Message("init", NONE)
Text         == Message("text", NONE)
Done         == Message("done", NONE)      \* answers, errors and news that tell no permission
Told(p)      == Message("permission", p)
-----------------------------------------------------------------------------
(* The client's two threads.                                               *)

Running == client.status = "running"

\* Mutant: the key, too, is sent by the function that waits for the handshake.
request_ready(command) ==
    requests' = IF client.state = "READY"
                THEN Append(requests, [command |-> command, by |-> client.permission])
                ELSE requests

\* What Client's members send; "by" is history: the permission it was typed with.
request(command) ==
    requests' = Append(requests, [command |-> command, by |-> client.permission])

\* SessionClient::output in INIT; in WAIT it does nothing.
output ==
    /\ Running /\ client.state = "INIT"
    /\ client' = [client EXCEPT !.state = "WAIT"]
    /\ request("public_key")
    /\ UNCHANGED <<server, answers, out, count, guest, raced, early>>

\* ... and in READY: the user types a command whose arguments are right; what is
\* typed wrongly or not allowed changes nothing.
session_output(command) ==
    /\ Running /\ client.state = "READY" /\ count.requests < MaxRequests
    /\ Allowed(client.permission, commands(command))
    /\ request(command)
    /\ count' = [count EXCEPT !.requests = @ + 1]
    /\ client' = [client EXCEPT !.status = IF command = "disconnect" THEN "stopped" ELSE @]
    /\ UNCHANGED <<server, answers, out, guest, raced, early>>

\* Session::decrypt expects the key with the first message and never after.
Deciphers(message) == message.cipher = (IF client.crypto = "INIT" THEN "rsa" ELSE "aes")

\* Mutant: the handlers of the client forget the permission.
AppliedNever(message) == client.permission

\* ClientHandlers, all of them for ALL, which NONE is no part of.
Applied(message) ==
    IF message.says = "permission" /\ Allowed(client.permission, ALL)
    THEN message.permission ELSE client.permission

\* SessionClient::input in WAIT, session_input in READY; an exception that is not
\* one of the handlers' ends the process: a cipher out of step, another first
\* message, a text that is no JSON.
input ==
    LET message == Head(answers)
        good    == /\ Deciphers(message)
                   /\ \/ client.state = "WAIT" /\ message.says = "init"
                      \/ client.state = "READY" /\ message.says \in {"done", "permission"}
    IN  /\ Running /\ answers # <<>>
        /\ answers' = Tail(answers)
        /\ client' = IF good THEN [state |-> "READY", crypto |-> "READY",
                                   permission |-> Applied(message), status |-> "running"]
                     ELSE [client EXCEPT !.status = "terminated"]
        /\ UNCHANGED <<server, requests, out, count, guest, raced, early>>
-----------------------------------------------------------------------------
(* The server's threads.                                                   *)

Serving == server.status = "running" /\ server.connected

says(t, message) == out' = [out EXCEPT ![t] = message]

\* A handler writes the permission of the client and makes the message of it;
\* another may be about to send one.
tell(t, p, announced) ==
    /\ server' = [server EXCEPT !.permission = p]
    /\ says(t, Told(announced))
    /\ raced' = \E u \in Threads \ {t} : out[u] # None /\ out[u].says = "permission"

\* SessionServer::handle of the public key
handshake ==
    /\ Serving /\ out["task"] = None
    /\ requests # <<>> /\ Head(requests).command = "public_key"
    /\ requests' = Tail(requests)
    /\ server' = [server EXCEPT !.state = "READY"]
    /\ says("task", INIT_MESSAGE)
    /\ UNCHANGED <<client, answers, count, guest, raced, early>>

\* The handler, or Handlers::execute before it, throws: session_handle answers
\* with an error.
fail == says("task", Done) /\ UNCHANGED <<server, raced>>

\* Mutant: the permission is left to the client to test.
MayExecuteAny(command) == TRUE

\* Handlers::execute
MayExecute(command) == Allowed(server.permission, handlers(command))

\* Several answers of a handler are one, the one that tells a permission if one does;
\* disconnect has none, and write has one for those it is written to.
execute(command) ==
    /\ MayExecute(command)
    /\ \/ /\ command \in TellsPermission
          /\ \E p \in Effects(command) : tell("task", p, Announced(command, p))
       \/ command \notin TellsPermission \cup {"disconnect"} /\ fail
       \/ command \in {"disconnect", "write"} /\ UNCHANGED <<server, out, raced>>

session_handle ==
    /\ Serving /\ out["task"] = None
    /\ requests # <<>> /\ Head(requests).command \in Commands
    /\ requests' = Tail(requests)
    /\ fail \/ execute(Head(requests).command)
    /\ UNCHANGED <<client, answers, count, guest, early>>

\* INIT_MESSAGE is still to be sent.
Ungreeted == server.state = "INIT" \/ (out["task"] # None /\ out["task"].says = "init")

\* Other clients' handlers: somebody at the table writes, spins or pays ...
news ==
    /\ Serving /\ ~Ungreeted /\ out["other"] = None /\ count.news < MaxNews
    /\ count' = [count EXCEPT !.news = @ + 1]
    /\ says("other", Done)
    /\ UNCHANGED <<client, server, requests, answers, guest, raced, early>>

\* ... kicks this client, closes its table or sets the permission of its account ...
set_permission ==
    /\ Serving /\ ~Ungreeted /\ out["other"] = None /\ count.news < MaxNews
    /\ count' = [count EXCEPT !.news = @ + 1]
    /\ \E p \in Accounts : tell("other", p, p)
    /\ UNCHANGED <<client, requests, answers, guest, early>>

\* ... or of the account guest, which login2id maps to the latest that connected,
\* whoever it has become.
set_guest_permission ==
    /\ Serving /\ out["other"] = None /\ count.news < MaxNews
    /\ count' = [count EXCEPT !.news = @ + 1]
    /\ \E p \in Accounts : tell("other", p, p) /\ guest' = p
    /\ early' = (early \/ Ungreeted)
    /\ UNCHANGED <<client, requests, answers>>

\* The console's send and broadcast, to anybody at any time.
text ==
    /\ Serving /\ out["console"] = None /\ count.texts < MaxTexts
    /\ count' = [count EXCEPT !.texts = @ + 1]
    /\ says("console", Text)
    /\ UNCHANGED <<client, server, requests, answers, guest, raced, early>>

\* Mutant: the state becomes READY with the decryption only.
CiphersAgain(t) == {"rsa"}

\* Session::encrypt tests and writes its state with no lock: while a thread has the
\* key to send, another may have seen INIT as well.
Ciphers(t) ==
    {IF server.crypto = "INIT" THEN "rsa" ELSE "aes"} \cup
    {c \in {"rsa"} : \E u \in Threads \ {t} : out[u] # None /\ out[u].cipher = c}

Makes(t) == Serving /\ out[t] # None /\ out[t].cipher = "plain"

\* SessionServer::send up to the encryption ...
encrypt(t) ==
    /\ Makes(t)
    /\ server.crypto = "READY" \/ server.state = "READY"
    /\ \E c \in Ciphers(t) : says(t, [out[t] EXCEPT !.cipher = c])
    /\ server' = [server EXCEPT !.crypto = "READY"]
    /\ UNCHANGED <<client, requests, answers, count, guest, raced, early>>

\* ... which fails before the key of the client is known, but leaves the state READY.
\* Of this Session::error the task of another client makes the end of that client's
\* connection; the console does not catch it.
encrypt_fails(t) ==
    /\ Makes(t)
    /\ server.crypto = "INIT" /\ server.state = "INIT"
    /\ server' = [server EXCEPT !.crypto = "READY",
                                !.status = IF t = "console" THEN "terminated" ELSE @]
    /\ says(t, None)
    /\ UNCHANGED <<client, requests, answers, count, guest, raced, early>>

\* Mutant: raw_send.
SendsRaw(t) == Serving /\ out[t] # None

Sends(t) == Serving /\ out[t] # None /\ out[t].cipher # "plain"

\* ... and TransferServer::send, under the mutex.
send(t) ==
    /\ Sends(t)
    /\ answers' = Append(answers, out[t])
    /\ says(t, None)
    /\ UNCHANGED <<client, server, requests, count, guest, raced, early>>

\* The timer, an exception of a handler, kill, shutdown: unsafe_kill.  The EXIT that
\* the client gets by it, and the end of its own timer, TransferClient::start ignores.
drop ==
    /\ Serving
    /\ server' = [server EXCEPT !.connected = FALSE]
    /\ UNCHANGED <<client, requests, answers, out, count, guest, raced, early>>
-----------------------------------------------------------------------------
task == handshake \/ session_handle

Next ==
    \/ output \/ input \/ \E command \in Commands : session_output(command)
    \/ handshake \/ session_handle \/ news \/ set_permission \/ set_guest_permission
    \/ text \/ drop
    \/ \E t \in Threads : encrypt(t) \/ encrypt_fails(t) \/ send(t)

Spec == Init /\ [][Next]_vars

\* Threads go on, and messages arrive.  Users, other clients and the console do
\* what they like.
FairSpec ==
    /\ Spec
    /\ WF_vars(output) /\ WF_vars(input) /\ WF_vars(task)
    /\ \A t \in Threads : WF_vars(encrypt(t)) /\ WF_vars(send(t))
-----------------------------------------------------------------------------
\* The types; what is on its way to the client is encrypted.
TypeOK ==
    /\ client \in [state : {"INIT", "WAIT", "READY"}, crypto : {"INIT", "READY"},
                   permission : SUBSET ALL, status : {"running", "stopped", "terminated"}]
    /\ server \in [state : {"INIT", "READY"}, crypto : {"INIT", "READY"},
                   permission : SUBSET ALL, connected : BOOLEAN,
                   status : {"running", "terminated"}]
    /\ requests \in Seq([command : Commands \cup {"public_key"}, by : SUBSET ALL])
    /\ answers \in Seq({m \in Messages : m.cipher # "plain"})
    /\ out \in [Threads -> Messages \cup {None}]
    /\ count \in [requests : 0 .. MaxRequests, news : 0 .. MaxNews, texts : 0 .. MaxTexts]
    /\ guest \in SUBSET ALL /\ raced \in BOOLEAN /\ early \in BOOLEAN

\* No client is broken, and no server by one, unless the console sends a text or
\* somebody sets the permission of guest while the client connects: the key comes
\* with the first message and only then, however the threads that send overlap.
KeyComesFirst ==
    client.status = "terminated" \/ server.status = "terminated"
        => early \/ count.texts > 0

Arrived == requests = <<>> /\ answers = <<>> /\ \A t \in Threads : out[t] = None

\* What may set the two copies of the permission apart: two handlers that tell it at
\* a time, a guest account that is none, and NONE, which a client keeps, as its
\* handlers, too, ask for a permission.
Astray == raced \/ guest # GUEST \/ client.permission = NONE

\* Once everything sent has arrived the client's copy of its permission is the
\* server's.
AgreeAtRest == Arrived /\ Running /\ ~Astray => client.permission = server.permission

\* A request is refused for its permission only if the permission has changed, or
\* is changing, since it was typed: the two tables agree.
RefusedWhenStale ==
    [][session_handle /\ ~Allowed(server.permission, handlers(Head(requests).command))
           => Head(requests).by # server.permission]_vars

\* What this says of the handlers of others, and of its own, is what Seating allows,
\* and so does GameServer: a seat is not given by any of them, and taken by join and
\* create only, even when the request was typed with a permission that has changed.
TheSeat == INSTANCE Seating
    WITH permission <- IF server.connected THEN server.permission ELSE NONE

SeatingImplemented == TheSeat!Spec

\* The handshake comes to an end, and the two copies of the permission come to agree.
Agreement ==
    <>[](\/ client.state = "READY" /\ (Astray \/ client.permission = server.permission)
         \/ ~Running \/ ~Serving)
=============================================================================
