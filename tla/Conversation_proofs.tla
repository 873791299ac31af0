------------------------ MODULE Conversation_proofs ------------------------
(***************************************************************************)
(* Proofs about Conversation, for all accounts and any number of requests, *)
(* news and texts: its types, the order in which the key and the messages  *)
(* arrive, the agreement of the two tables of permissions, and that of the *)
(* two copies of the permission.                                           *)
(***************************************************************************)
EXTENDS Conversation, TLAPS

Requests == [command : Commands \cup {"public_key"}, by : SUBSET ALL]
Sent     == {m \in Messages : m.cipher # "plain"}

LEMMA Bounds ==
    /\ MaxRequests \in Nat /\ MaxNews \in Nat /\ MaxTexts \in Nat
    /\ Accounts \subseteq SUBSET WAIT /\ None \notin Messages
BY ConversationAssumption

USE Bounds

LEMMA Masks == SUBSET WAIT \subseteq SUBSET ALL /\ GUEST \in SUBSET ALL
               /\ PLAYER \in SUBSET ALL /\ CROUPIER \in SUBSET ALL /\ NONE \in SUBSET ALL
BY DEF ALL, AUTH, WAIT, PLAY, GUEST, USER, STAFF, PLAYER, CROUPIER, ADMIN, NONE

LEMMA MessageType ==
    /\ INIT_MESSAGE \in Messages /\ Text \in Messages /\ Done \in Messages
    /\ \A p \in SUBSET ALL : Told(p) \in Messages
BY Masks DEF INIT_MESSAGE, Text, Done, Told, Message, Messages

\* What a handler may leave as the permission, and tell, is a permission.
LEMMA EffectsType ==
    ASSUME TypeOK, NEW c \in Commands, NEW p \in Effects(c)
    PROVE  p \in SUBSET ALL /\ Announced(c, p) \in SUBSET ALL
<1>1. Accounts \subseteq SUBSET ALL
  BY Masks
<1>2. guest \in SUBSET ALL /\ server.permission \in SUBSET ALL
  BY DEF TypeOK
<1>3. p \in SUBSET ALL
  BY <1>1, <1>2, Masks DEF Effects
<1> QED
  BY <1>3, Masks DEF Announced

LEMMA SaysType ==
    ASSUME TypeOK, NEW t \in Threads, NEW m \in Messages \cup {None}, says(t, m)
    PROVE  out' \in [Threads -> Messages \cup {None}]
BY DEF says, TypeOK

LEMMA TellType ==
    ASSUME TypeOK, NEW t \in Threads, NEW p \in SUBSET ALL, NEW q \in SUBSET ALL,
           tell(t, p, q)
    PROVE  /\ out' \in [Threads -> Messages \cup {None}]
           /\ server' \in [state : {"INIT", "READY"}, crypto : {"INIT", "READY"},
                           permission : SUBSET ALL, connected : BOOLEAN,
                           status : {"running", "terminated"}]
           /\ raced' \in BOOLEAN
<1>1. says(t, Told(q)) /\ Told(q) \in Messages \cup {None}
  BY MessageType DEF tell
<1>2. out' \in [Threads -> Messages \cup {None}]
  BY <1>1, SaysType
<1> QED
  BY <1>2 DEF tell, TypeOK

LEMMA InitType == Init => TypeOK
<1> SUFFICES ASSUME Init PROVE TypeOK
  OBVIOUS
<1>1. GUEST \in SUBSET ALL
  BY Masks
<1>2. requests \in Seq([command : Commands \cup {"public_key"}, by : SUBSET ALL])
      /\ answers \in Seq({m \in Messages : m.cipher # "plain"})
  BY DEF Init
<1>3. out \in [Threads -> Messages \cup {None}]
  BY DEF Init
<1>4. count \in [requests : 0 .. MaxRequests, news : 0 .. MaxNews, texts : 0 .. MaxTexts]
  BY DEF Init
<1>5. client \in [state : {"INIT", "WAIT", "READY"}, crypto : {"INIT", "READY"},
                  permission : SUBSET ALL, status : {"running", "stopped", "terminated"}]
  BY <1>1 DEF Init
<1>6. server \in [state : {"INIT", "READY"}, crypto : {"INIT", "READY"},
                  permission : SUBSET ALL, connected : BOOLEAN,
                  status : {"running", "terminated"}]
  BY <1>1 DEF Init
<1> QED
  BY <1>1, <1>2, <1>3, <1>4, <1>5, <1>6 DEF Init, TypeOK

\* The counters stay within their bounds.
LEMMA CountType ==
    ASSUME TypeOK
    PROVE  LET C == [requests : 0 .. MaxRequests, news : 0 .. MaxNews, texts : 0 .. MaxTexts]
           IN  /\ count.requests < MaxRequests => [count EXCEPT !.requests = @ + 1] \in C
               /\ count.news < MaxNews => [count EXCEPT !.news = @ + 1] \in C
               /\ count.texts < MaxTexts => [count EXCEPT !.texts = @ + 1] \in C
<1>1. count \in [requests : 0 .. MaxRequests, news : 0 .. MaxNews, texts : 0 .. MaxTexts]
  BY DEF TypeOK
<1> QED
  BY <1>1

LEMMA RequestType ==
    ASSUME TypeOK, NEW c \in Commands \cup {"public_key"}, request(c)
    PROVE  requests' \in Seq(Requests)
BY DEF request, TypeOK, Requests

LEMMA StepType == TypeOK /\ [Next]_vars => TypeOK'
<1> SUFFICES ASSUME TypeOK, [Next]_vars PROVE TypeOK'
  OBVIOUS
<1>a. "task" \in Threads /\ "other" \in Threads /\ "console" \in Threads
  BY DEF Threads
<1>b. requests # <<>> => /\ Tail(requests) \in Seq(Requests)
                         /\ Head(requests) \in Requests
  <2>1. requests \in Seq(Requests)
    BY DEF TypeOK, Requests
  <2> QED
    BY <2>1
<1>1. CASE output
  <2>1. requests' \in Seq(Requests)
    BY <1>1, RequestType DEF output
  <2> QED
    BY <1>1, <2>1 DEF output, TypeOK, Requests
<1>2. CASE input
  <2>1. Tail(answers) \in Seq(Sent) /\ Head(answers) \in Sent
    BY <1>2 DEF input, TypeOK, Sent
  <2>2. Applied(Head(answers)) \in SUBSET ALL
    BY <2>1 DEF Applied, Sent, Messages, TypeOK
  <2> QED
    BY <1>2, <2>1, <2>2 DEF input, TypeOK, Sent
<1>3. ASSUME NEW command \in Commands, session_output(command) PROVE TypeOK'
  <2>1. requests' \in Seq(Requests)
    BY <1>3, RequestType DEF session_output
  <2>2. count' \in [requests : 0 .. MaxRequests, news : 0 .. MaxNews, texts : 0 .. MaxTexts]
    BY <1>3, CountType DEF session_output
  <2>3. client' \in [state : {"INIT", "WAIT", "READY"}, crypto : {"INIT", "READY"},
                   permission : SUBSET ALL, status : {"running", "stopped", "terminated"}]
    BY <1>3 DEF session_output, TypeOK
  <2> QED
    BY <1>3, <2>1, <2>2, <2>3 DEF session_output, TypeOK, Requests
<1>4. CASE handshake
  <2>1. out' \in [Threads -> Messages \cup {None}]
    BY <1>4, <1>a, MessageType, SaysType DEF handshake
  <2> QED
    BY <1>4, <1>b, <2>1 DEF handshake, TypeOK, Requests
<1>5. CASE session_handle
  <2>1. CASE fail
    <3>1. out' \in [Threads -> Messages \cup {None}]
      BY <2>1, <1>a, MessageType, SaysType DEF fail
    <3> QED
      BY <1>5, <1>b, <2>1, <3>1 DEF session_handle, fail, TypeOK, Requests
  <2>2. ASSUME NEW c \in Commands, NEW p \in Effects(c), tell("task", p, Announced(c, p))
        PROVE  TypeOK'
    <3>1. p \in SUBSET ALL /\ Announced(c, p) \in SUBSET ALL
      BY EffectsType
    <3>2. /\ out' \in [Threads -> Messages \cup {None}]
          /\ server' \in [state : {"INIT", "READY"}, crypto : {"INIT", "READY"},
                          permission : SUBSET ALL, connected : BOOLEAN,
                          status : {"running", "terminated"}]
          /\ raced' \in BOOLEAN
      BY <2>2, <3>1, <1>a, TellType
    <3> QED
      BY <1>5, <1>b, <3>2 DEF session_handle, TypeOK, Requests
  <2>3. CASE UNCHANGED <<server, out, raced>>
    BY <1>5, <1>b, <2>3 DEF session_handle, TypeOK, Requests
  <2> QED
    BY <1>5, <2>1, <2>2, <2>3 DEF session_handle, execute, MayExecute
<1>6. CASE news
  <2>1. out' \in [Threads -> Messages \cup {None}]
    BY <1>6, <1>a, MessageType, SaysType DEF news
  <2>2. count' \in [requests : 0 .. MaxRequests, news : 0 .. MaxNews, texts : 0 .. MaxTexts]
    BY <1>6, CountType DEF news
  <2> QED
    BY <1>6, <2>1, <2>2 DEF news, TypeOK
<1>7. CASE set_permission
  <2>1. PICK p \in Accounts : tell("other", p, p)
    BY <1>7 DEF set_permission
  <2>2. p \in SUBSET ALL
    BY Masks
  <2>3. /\ out' \in [Threads -> Messages \cup {None}]
        /\ server' \in [state : {"INIT", "READY"}, crypto : {"INIT", "READY"},
                        permission : SUBSET ALL, connected : BOOLEAN,
                        status : {"running", "terminated"}]
        /\ raced' \in BOOLEAN
    BY <2>1, <2>2, <1>a, TellType
  <2>5. count' \in [requests : 0 .. MaxRequests, news : 0 .. MaxNews, texts : 0 .. MaxTexts]
    BY <1>7, CountType DEF set_permission
  <2> QED
    BY <1>7, <2>5, <2>3 DEF set_permission, TypeOK
<1>8. CASE set_guest_permission
  <2>1. PICK p \in Accounts : tell("other", p, p) /\ guest' = p
    BY <1>8 DEF set_guest_permission
  <2>2. p \in SUBSET ALL
    BY Masks
  <2>3. /\ out' \in [Threads -> Messages \cup {None}]
        /\ server' \in [state : {"INIT", "READY"}, crypto : {"INIT", "READY"},
                        permission : SUBSET ALL, connected : BOOLEAN,
                        status : {"running", "terminated"}]
        /\ raced' \in BOOLEAN
    BY <2>1, <2>2, <1>a, TellType
  <2>4. early' \in BOOLEAN
    BY <1>8 DEF set_guest_permission
  <2>5. count' \in [requests : 0 .. MaxRequests, news : 0 .. MaxNews, texts : 0 .. MaxTexts]
    BY <1>8, CountType DEF set_guest_permission
  <2> QED
    BY <1>8, <2>5, <2>1, <2>2, <2>3, <2>4 DEF set_guest_permission, TypeOK
<1>9. CASE text
  <2>1. out' \in [Threads -> Messages \cup {None}]
    BY <1>9, <1>a, MessageType, SaysType DEF text
  <2>2. count' \in [requests : 0 .. MaxRequests, news : 0 .. MaxNews, texts : 0 .. MaxTexts]
    BY <1>9, CountType DEF text
  <2> QED
    BY <1>9, <2>1, <2>2 DEF text, TypeOK
<1>10. CASE drop
  BY <1>10 DEF drop, TypeOK
<1>11. ASSUME NEW t \in Threads, encrypt(t) PROVE TypeOK'
  <2>1. PICK c \in Ciphers(t) : says(t, [out[t] EXCEPT !.cipher = c])
    BY <1>11 DEF encrypt
  <2>2. c \in {"rsa", "aes"} /\ out[t] \in Messages
    BY <1>11 DEF Ciphers, encrypt, Makes, TypeOK
  <2>3. [out[t] EXCEPT !.cipher = c] \in Messages \cup {None}
    BY <2>2 DEF Messages
  <2>4. out' \in [Threads -> Messages \cup {None}]
    BY <2>1, <2>3, SaysType
  <2> QED
    BY <1>11, <2>4 DEF encrypt, TypeOK
<1>12. ASSUME NEW t \in Threads, encrypt_fails(t) PROVE TypeOK'
  <2>1. out' \in [Threads -> Messages \cup {None}]
    BY <1>12, SaysType DEF encrypt_fails
  <2> QED
    BY <1>12, <2>1 DEF encrypt_fails, TypeOK
<1>13. ASSUME NEW t \in Threads, send(t) PROVE TypeOK'
  <2>1. out[t] \in Sent
    BY <1>13 DEF send, Sends, TypeOK, Sent
  <2>2. out' \in [Threads -> Messages \cup {None}]
    BY <1>13, SaysType DEF send
  <2>3. answers' \in Seq(Sent)
    BY <1>13, <2>1 DEF send, TypeOK, Sent
  <2> QED
    BY <1>13, <2>2, <2>3 DEF send, TypeOK, Sent
<1>14. CASE UNCHANGED vars
  BY <1>14 DEF vars, TypeOK
<1> QED
  BY <1>1, <1>2, <1>3, <1>4, <1>5, <1>6, <1>7, <1>8, <1>9, <1>10, <1>11, <1>12, <1>13,
     <1>14 DEF Next

\* The types, for all values of the constants.
THEOREM TypeCorrect == Spec => []TypeOK
BY InitType, StepType, PTL DEF Spec
-----------------------------------------------------------------------------
(* Refused only when stale.                                                *)

\* What is on its way was allowed when it was typed.
Asked == \A i \in 1 .. Len(requests) :
             requests[i].command \in Commands =>
                 Allowed(requests[i].by, handlers(requests[i].command))

\* The client and the server ask for the same permissions.
LEMMA SameTables == \A c \in Commands : commands(c) = handlers(c)
BY DEF Commands, commands, handlers

LEMMA AskedOfNewest ==
    ASSUME TypeOK, Asked, NEW r \in Requests, requests' = Append(requests, r),
           r.command \in Commands => Allowed(r.by, handlers(r.command))
    PROVE  Asked'
<1>1. requests \in Seq(Requests)
  BY DEF TypeOK, Requests
<1>2. Len(requests') = Len(requests) + 1 /\ Len(requests) \in Nat
  BY <1>1
<1> SUFFICES ASSUME NEW i \in 1 .. Len(requests'), requests'[i].command \in Commands
             PROVE  Allowed(requests'[i].by, handlers(requests'[i].command))
  BY DEF Asked
<1>3. CASE i = Len(requests) + 1
  BY <1>1, <1>3
<1>4. CASE i \in 1 .. Len(requests)
  <2>1. requests'[i] = requests[i]
    BY <1>1, <1>4
  <2> QED
    BY <2>1, <1>4 DEF Asked
<1> QED
  BY <1>2, <1>3, <1>4

\* What is left of a sequence without its head.
LEMMA RestOf ==
    ASSUME NEW S, NEW s \in Seq(S), s # <<>>
    PROVE  \A i \in 1 .. Len(Tail(s)) : Tail(s)[i] = s[i + 1] /\ i + 1 \in 1 .. Len(s)
OBVIOUS

LEMMA AskedOfRest ==
    ASSUME TypeOK, Asked, requests # <<>>, requests' = Tail(requests)
    PROVE  Asked'
<1>1. requests \in Seq(Requests)
  BY DEF TypeOK, Requests
<1>2. Len(requests') = Len(requests) - 1 /\ Len(requests) \in Nat
  BY <1>1
<1> SUFFICES ASSUME NEW i \in 1 .. Len(requests'), requests'[i].command \in Commands
             PROVE  Allowed(requests'[i].by, handlers(requests'[i].command))
  BY DEF Asked
<1>3. requests'[i] = requests[i + 1] /\ i + 1 \in 1 .. Len(requests)
  BY <1>1, <1>2
<1> QED
  BY <1>3 DEF Asked

LEMMA StepAsked == TypeOK /\ Asked /\ [Next]_vars => Asked'
<1> SUFFICES ASSUME TypeOK, Asked, [Next]_vars PROVE Asked'
  OBVIOUS
<1>1. CASE requests' = requests
  BY <1>1 DEF Asked
<1>2. CASE output
  <2>1. "public_key" \notin Commands /\ client.permission \in SUBSET ALL
    BY DEF Commands, TypeOK
  <2> DEFINE r == [command |-> "public_key", by |-> client.permission]
  <2>2. r \in Requests /\ r.command \notin Commands
    BY <2>1 DEF Requests
  <2>3. requests' = Append(requests, r)
    BY <1>2 DEF output, request
  <2> QED
    BY <2>2, <2>3, AskedOfNewest
<1>3. ASSUME NEW command \in Commands, session_output(command) PROVE Asked'
  <2> DEFINE r == [command |-> command, by |-> client.permission]
  <2>1. r \in Requests
    BY DEF Requests, TypeOK
  <2>2. requests' = Append(requests, r)
    BY <1>3 DEF session_output, request
  <2>3. Allowed(r.by, handlers(r.command))
    BY <1>3, SameTables DEF session_output
  <2> HIDE DEF r
  <2> QED
    BY <2>1, <2>2, <2>3, AskedOfNewest
<1>4. CASE handshake
  BY <1>4, AskedOfRest DEF handshake
<1>5. CASE session_handle
  BY <1>5, AskedOfRest DEF session_handle
<1>6. CASE input \/ news \/ set_permission \/ set_guest_permission \/ text \/ drop
           \/ (\E t \in Threads : encrypt(t) \/ encrypt_fails(t) \/ send(t))
           \/ UNCHANGED vars
  <2>1. requests' = requests
    BY <1>6 DEF input, news, set_permission, set_guest_permission, text, drop, encrypt,
       encrypt_fails, send, vars
  <2> QED
    BY <2>1, <1>1
<1> QED
  BY <1>2, <1>3, <1>4, <1>5, <1>6 DEF Next

LEMMA InitAsked == Init => Asked
BY DEF Init, Asked

\* The server refuses a request only if the permission it was typed with is not the
\* one it finds: whatever the accounts, what the client lets through is allowed.
THEOREM RefusedWhenStaleAlways == Spec => RefusedWhenStale
<1>1. TypeOK /\ Asked /\ [Next]_vars
      => [session_handle /\ ~Allowed(server.permission, handlers(Head(requests).command))
              => Head(requests).by # server.permission]_vars
  <2> SUFFICES ASSUME TypeOK, Asked, session_handle,
                      ~Allowed(server.permission, handlers(Head(requests).command))
               PROVE  Head(requests).by # server.permission
    OBVIOUS
  <2>1. requests \in Seq(Requests) /\ requests # <<>> /\ Head(requests).command \in Commands
    BY DEF session_handle, TypeOK, Requests
  <2>2. Head(requests) = requests[1] /\ 1 \in 1 .. Len(requests)
    BY <2>1
  <2>3. Allowed(Head(requests).by, handlers(Head(requests).command))
    BY <2>1, <2>2 DEF Asked
  <2> QED
    BY <2>3
<1> QED
  BY <1>1, InitType, StepType, InitAsked, StepAsked, PTL DEF Spec, RefusedWhenStale
-----------------------------------------------------------------------------
(* The key comes first.  Until a text or an early permission is made, a    *)
(* conversation is in one of four phases, one after the other.             *)

\* A message that needs no key of its own, and one thread's share of the same.
Follows(m) == m.says \in {"done", "permission"} /\ m.cipher = "aes"
Ordinary   == \A t \in Threads : out[t] # None =>
                  out[t].says \in {"done", "permission"} /\ out[t].cipher \in {"plain", "aes"}
Silent     == \A t \in Threads : out[t] = None

\* Nothing but the public key is on its way, or it is still to be sent.
Fresh ==
    /\ server.state = "INIT" /\ server.crypto = "INIT" /\ client.crypto = "INIT"
    /\ answers = <<>> /\ Silent
    /\ \/ client.state = "INIT" /\ requests = <<>>
       \/ client.state = "WAIT" /\ Len(requests) = 1 /\ requests[1].command = "public_key"

\* The server has it, and its first message is still to be sent.
Greeting ==
    /\ server.state = "READY" /\ client.state = "WAIT" /\ client.crypto = "INIT"
    /\ requests = <<>> /\ answers = <<>>
    /\ \A t \in Threads \ {"task"} : out[t] = None
    /\ out["task"] # None /\ out["task"].says = "init"
    /\ \/ server.crypto = "INIT" /\ out["task"].cipher = "plain"
       \/ server.crypto = "READY" /\ out["task"].cipher = "rsa"

\* It is on its way, before any other.
Greeted ==
    /\ server.state = "READY" /\ server.crypto = "READY"
    /\ client.state = "WAIT" /\ client.crypto = "INIT"
    /\ requests = <<>> /\ Ordinary
    /\ Len(answers) > 0 /\ answers[1].says = "init" /\ answers[1].cipher = "rsa"
    /\ \A i \in 2 .. Len(answers) : Follows(answers[i])

Talking ==
    /\ server.state = "READY" /\ server.crypto = "READY"
    /\ client.state = "READY" /\ client.crypto = "READY"
    /\ \A i \in 1 .. Len(requests) : requests[i].command \in Commands
    /\ Ordinary
    /\ \A i \in 1 .. Len(answers) : Follows(answers[i])

Phases ==
    ~early /\ count.texts = 0 =>
        /\ client.status # "terminated" /\ server.status = "running"
        /\ Fresh \/ Greeting \/ Greeted \/ Talking

Talks == /\ client.status # "terminated" /\ server.status = "running"
         /\ Fresh \/ Greeting \/ Greeted \/ Talking

\* What is not the subject of a phase leaves it.
LEMMA PhaseUnchanged ==
    ASSUME Talks, client' = client, server' = server \/ server' = [server EXCEPT !.connected = FALSE],
           requests' = requests, answers' = answers, out' = out,
           server \in [state : {"INIT", "READY"}, crypto : {"INIT", "READY"},
                       permission : SUBSET ALL, connected : BOOLEAN,
                       status : {"running", "terminated"}]
    PROVE  Talks'
BY DEF Talks, Fresh, Greeting, Greeted, Talking, Ordinary, Silent

\* A message that tells or answers something is made once the key has been sent.
LEMMA PhaseNews ==
    ASSUME TypeOK, Talks, ~Ungreeted, NEW t \in Threads, NEW m \in Messages,
           m.says \in {"done", "permission"}, m.cipher = "plain",
           says(t, m), client' = client, answers' = answers,
           server'.state = server.state, server'.crypto = server.crypto,
           server'.status = server.status,
           requests' = requests \/ (requests # <<>> /\ requests' = Tail(requests))
    PROVE  Talks'
<1>1. Greeted \/ Talking
  BY DEF Talks, Fresh, Greeting, Ungreeted
<1>2. Ordinary'
  BY <1>1 DEF Greeted, Talking, Ordinary, says, TypeOK
<1>3. CASE Greeted
  <2>1. requests' = <<>>
    BY <1>3 DEF Greeted
  <2> QED
    BY <1>2, <1>3, <2>1 DEF Greeted, Talks
<1>4. CASE Talking
  <2>1. \A i \in 1 .. Len(requests') : requests'[i].command \in Commands
    <3>1. requests \in Seq(Requests)
      BY DEF TypeOK, Requests
    <3>2. CASE requests' = requests
      BY <1>4, <3>2 DEF Talking
    <3>3. CASE requests # <<>> /\ requests' = Tail(requests)
      <4>1. Len(requests') = Len(requests) - 1 /\ Len(requests) \in Nat
        BY <3>1, <3>3
      <4>2. \A i \in 1 .. Len(requests') :
               requests'[i] = requests[i + 1] /\ i + 1 \in 1 .. Len(requests)
        BY <3>1, <3>3, RestOf
      <4> QED
        BY <1>4, <4>2 DEF Talking
    <3> QED
      BY <3>2, <3>3
  <2> QED
    BY <1>2, <1>4, <2>1 DEF Talking, Talks
<1> QED
  BY <1>1, <1>3, <1>4

LEMMA StepPhases == TypeOK /\ Phases /\ [Next]_vars => Phases'
<1> SUFFICES ASSUME TypeOK, Phases, [Next]_vars, ~early', count'.texts = 0 PROVE Talks'
  BY DEF Phases, Talks
<1>a. "task" \in Threads /\ "other" \in Threads /\ "console" \in Threads
      /\ (\A t \in Threads : t \in {"task", "other", "console"})
  BY DEF Threads
<1>b. count \in [requests : 0 .. MaxRequests, news : 0 .. MaxNews, texts : 0 .. MaxTexts]
  BY DEF TypeOK
<1>c. ~early /\ count.texts = 0 /\ ~text
  <2>1. ~text
    BY <1>b DEF text
  <2>2. ~early
    BY DEF Next, output, input, session_output, handshake, session_handle, news,
       set_permission, set_guest_permission, text, drop, encrypt, encrypt_fails, send, vars
  <2>3. count.texts = 0
    <3>1. count'.texts = count.texts
      BY <1>b, <2>1 DEF Next, output, input, session_output, handshake, session_handle, news,
         set_permission, set_guest_permission, drop, encrypt, encrypt_fails, send, vars
    <3> QED
      BY <3>1
  <2> QED
    BY <2>1, <2>2, <2>3
<1>d. Talks
  BY <1>c DEF Phases, Talks
<1>e. server \in [state : {"INIT", "READY"}, crypto : {"INIT", "READY"},
                  permission : SUBSET ALL, connected : BOOLEAN,
                  status : {"running", "terminated"}]
      /\ client \in [state : {"INIT", "WAIT", "READY"}, crypto : {"INIT", "READY"},
                     permission : SUBSET ALL, status : {"running", "stopped", "terminated"}]
      /\ requests \in Seq(Requests) /\ answers \in Seq(Sent)
      /\ out \in [Threads -> Messages \cup {None}]
  BY DEF TypeOK, Requests, Sent
<1>1. CASE output
  <2>1. Fresh
    BY <1>1, <1>d DEF output, Talks, Greeting, Greeted, Talking
  <2>2. requests = <<>>
    BY <1>1, <2>1 DEF output, Fresh
  <2>3. Len(requests') = 1 /\ requests'[1].command = "public_key"
    BY <1>1, <2>2 DEF output, request
  <2>4. client'.state = "WAIT" /\ client'.crypto = client.crypto /\ client'.status = client.status
    BY <1>1, <1>e DEF output
  <2> QED
    BY <1>1, <1>d, <2>1, <2>3, <2>4 DEF output, Talks, Fresh, Silent
<1>2. CASE input
  <2>1. Greeted \/ Talking
    BY <1>2, <1>d DEF input, Talks, Fresh, Greeting
  <2>2. /\ Head(answers) = answers[1] /\ Len(answers) \in Nat /\ 1 \in 1 .. Len(answers)
        /\ Len(answers') = Len(answers) - 1
        /\ \A i \in 1 .. Len(answers') :
               answers'[i] = answers[i + 1] /\ i + 1 \in 2 .. Len(answers)
    BY <1>2, <1>e DEF input
  <2>3. \A i \in 1 .. Len(answers') : Follows(answers'[i])
    <3> SUFFICES ASSUME NEW i \in 1 .. Len(answers') PROVE Follows(answers'[i])
      OBVIOUS
    <3>1. answers'[i] = answers[i + 1] /\ i + 1 \in 2 .. Len(answers) /\ i + 1 \in 1 .. Len(answers)
      BY <2>2
    <3> QED
      BY <2>1, <3>1 DEF Greeted, Talking
  <2>4. Deciphers(Head(answers))
        /\ \/ client.state = "WAIT" /\ Head(answers).says = "init"
           \/ client.state = "READY" /\ Head(answers).says \in {"done", "permission"}
    BY <2>1, <2>2 DEF Greeted, Talking, Follows, Deciphers
  <2>5. client'.state = "READY" /\ client'.crypto = "READY" /\ client'.status = "running"
    BY <1>2, <2>4 DEF input
  <2>6. \A i \in 1 .. Len(requests) : requests[i].command \in Commands
    BY <2>1 DEF Greeted, Talking
  <2>7. server.state = "READY" /\ server.crypto = "READY" /\ Ordinary /\ server.status = "running"
    BY <2>1, <1>d DEF Greeted, Talking, Talks
  <2>8. requests' = requests /\ server' = server /\ out' = out
    BY <1>2 DEF input
  <2> QED
    BY <2>3, <2>5, <2>6, <2>7, <2>8 DEF Talks, Talking, Ordinary
<1>3. ASSUME NEW command \in Commands, session_output(command) PROVE Talks'
  <2>1. Talking
    BY <1>3, <1>d DEF session_output, Talks, Fresh, Greeting, Greeted
  <2> DEFINE r == [command |-> command, by |-> client.permission]
  <2>2. requests' = Append(requests, r) /\ r \in Requests /\ r.command \in Commands
    BY <1>3, <1>e DEF session_output, request, Requests
  <2> HIDE DEF r
  <2>3. \A i \in 1 .. Len(requests') : requests'[i].command \in Commands
    <3>1. Len(requests') = Len(requests) + 1 /\ Len(requests) \in Nat
      BY <1>e, <2>2
    <3>2. \A i \in 1 .. Len(requests) : requests'[i] = requests[i]
      BY <1>e, <2>2
    <3>3. requests'[Len(requests) + 1] = r
      BY <1>e, <2>2
    <3> QED
      BY <2>1, <2>2, <3>1, <3>2, <3>3 DEF Talking
  <2>4. client'.state = client.state /\ client'.crypto = client.crypto
        /\ client'.status # "terminated"
    BY <1>3, <1>d, <1>e DEF session_output, Talks
  <2> QED
    BY <1>3, <1>d, <2>1, <2>3, <2>4 DEF session_output, Talks, Talking, Ordinary
<1>4. CASE handshake
  <2>1. Fresh
    <3>1. "public_key" \notin Commands /\ Head(requests) = requests[1] /\ 1 \in 1 .. Len(requests)
      BY <1>4, <1>e DEF handshake, Commands
    <3> QED
      BY <1>4, <1>d, <3>1 DEF handshake, Talks, Greeting, Greeted, Talking
  <2>2. requests' = <<>> /\ client.state = "WAIT"
    BY <1>4, <1>e, <2>1 DEF handshake, Fresh
  <2>3. out' = [out EXCEPT !["task"] = INIT_MESSAGE]
    BY <1>4 DEF handshake, says
  <2>4. /\ out'["task"] = INIT_MESSAGE /\ INIT_MESSAGE \in Messages
        /\ \A t \in Threads \ {"task"} : out'[t] = None
    BY <1>a, <1>e, <2>1, <2>3, MessageType DEF Fresh, Silent
  <2>5. INIT_MESSAGE.says = "init" /\ INIT_MESSAGE.cipher = "plain"
    BY DEF INIT_MESSAGE, Message
  <2>6. server'.state = "READY" /\ server'.crypto = "INIT" /\ server'.status = "running"
    BY <1>4, <1>d, <1>e, <2>1 DEF handshake, Fresh, Talks
  <2>7. client' = client /\ answers' = answers
    BY <1>4 DEF handshake
  <2>8. Greeting'
    BY <2>1, <2>2, <2>4, <2>5, <2>6, <2>7 DEF Greeting, Fresh
  <2> QED
    BY <2>6, <2>7, <2>8, <1>d DEF Talks
<1>5. CASE session_handle
  <2>1. requests # <<>> /\ Head(requests) = requests[1] /\ Head(requests).command \in Commands
        /\ 1 \in 1 .. Len(requests) /\ out["task"] = None /\ requests' = Tail(requests)
        /\ client' = client /\ answers' = answers
    BY <1>5, <1>e DEF session_handle
  <2>2. Talking
    <3>1. "public_key" \notin Commands
      BY DEF Commands
    <3> QED
      BY <1>d, <2>1, <3>1 DEF Talks, Fresh, Greeting, Greeted
  <2>3. ~Ungreeted
    BY <2>1, <2>2 DEF Talking, Ungreeted
  <2>4. CASE fail
    <3>1. Done \in Messages /\ Done.says = "done" /\ Done.cipher = "plain"
      BY MessageType DEF Done, Message
    <3>2. says("task", Done) /\ server' = server
      BY <2>4 DEF fail
    <3> QED
      BY <1>a, <1>d, <2>1, <2>3, <3>1, <3>2, PhaseNews
  <2>5. ASSUME NEW c \in Commands, NEW p \in Effects(c), tell("task", p, Announced(c, p))
        PROVE  Talks'
    <3> DEFINE m == Told(Announced(c, p))
    <3>1. m \in Messages /\ m.says = "permission" /\ m.cipher = "plain"
      BY MessageType, EffectsType DEF Told, Message
    <3>2. says("task", m)
      BY <2>5 DEF tell
    <3>3. server'.state = server.state /\ server'.crypto = server.crypto
          /\ server'.status = server.status
      BY <2>5, <1>e DEF tell
    <3> HIDE DEF m
    <3> QED
      BY <1>a, <1>d, <2>1, <2>3, <3>1, <3>2, <3>3, PhaseNews
  <2>6. CASE UNCHANGED <<server, out, raced>>
    <3>1. \A i \in 1 .. Len(requests') : requests'[i].command \in Commands
      <4>1. Len(requests') = Len(requests) - 1 /\ Len(requests) \in Nat
        BY <1>e, <2>1
      <4>2. \A i \in 1 .. Len(requests') :
               requests'[i] = requests[i + 1] /\ i + 1 \in 1 .. Len(requests)
        BY <1>e, <2>1, <4>1
      <4> QED
        BY <2>2, <4>2 DEF Talking
    <3> QED
      BY <1>d, <2>1, <2>2, <2>6, <3>1 DEF Talks, Talking, Ordinary
  <2> QED
    BY <1>5, <2>1, <2>4, <2>5, <2>6 DEF session_handle, execute, MayExecute
<1>6. CASE news
  <2>1. Done \in Messages /\ Done.says = "done" /\ Done.cipher = "plain"
    BY MessageType DEF Done, Message
  <2>2. says("other", Done) /\ ~Ungreeted /\ UNCHANGED <<client, server, requests, answers>>
    BY <1>6 DEF news
  <2> QED
    BY <1>a, <1>d, <2>1, <2>2, PhaseNews
<1>7. ASSUME NEW p \in Accounts, tell("other", p, p), ~Ungreeted,
             UNCHANGED <<client, requests, answers>>
      PROVE  Talks'
  <2>1. p \in SUBSET ALL
    BY Masks
  <2>2. Told(p) \in Messages /\ Told(p).says = "permission" /\ Told(p).cipher = "plain"
    BY <2>1, MessageType DEF Told, Message
  <2>3. says("other", Told(p)) /\ server'.state = server.state
        /\ server'.crypto = server.crypto /\ server'.status = server.status
    BY <1>7, <1>e DEF tell
  <2> QED
    BY <1>a, <1>d, <1>7, <2>2, <2>3, PhaseNews
<1>8. CASE set_permission
  BY <1>7, <1>8 DEF set_permission
<1>9. CASE set_guest_permission
  <2>1. ~Ungreeted
    BY <1>9 DEF set_guest_permission
  <2>2. PICK p \in Accounts : tell("other", p, p)
    BY <1>9 DEF set_guest_permission
  <2> QED
    BY <1>7, <1>9, <2>1, <2>2 DEF set_guest_permission
<1>10. CASE drop
  BY <1>10, <1>d, <1>e, PhaseUnchanged DEF drop
<1>11. CASE UNCHANGED vars
  BY <1>11, <1>d, <1>e, PhaseUnchanged DEF vars
<1>12. ASSUME NEW t \in Threads, encrypt(t) PROVE Talks'
  <2>1. out[t] # None /\ out[t].cipher = "plain" /\ out[t] \in Messages
    BY <1>12, <1>e DEF encrypt, Makes
  <2>2. PICK c \in Ciphers(t) : out' = [out EXCEPT ![t] = [out[t] EXCEPT !.cipher = c]]
    BY <1>12 DEF encrypt, says
  <2>3. /\ out'[t].says = out[t].says /\ out'[t].cipher = c /\ out'[t] \in Messages
        /\ \A u \in Threads \ {t} : out'[u] = out[u]
    <3>1. out'[t] = [out[t] EXCEPT !.cipher = c]
      BY <1>e, <2>2
    <3>2. c \in {"rsa", "aes"}
      BY DEF Ciphers
    <3> QED
      BY <1>e, <2>1, <2>2, <3>1, <3>2 DEF Messages
  <2>4. server'.state = server.state /\ server'.crypto = "READY"
        /\ server'.status = server.status
    BY <1>12, <1>e DEF encrypt
  <2>5. UNCHANGED <<client, requests, answers>>
    BY <1>12 DEF encrypt
  <2>6. CASE Fresh
    BY <2>1, <2>6 DEF Fresh, Silent
  <2>7. CASE Greeting
    <3>1. t = "task" /\ server.crypto = "INIT"
      BY <2>1, <2>7 DEF Greeting
    <3>2. c = "rsa"
      BY <2>7, <3>1 DEF Ciphers, Greeting
    <3>3. out'["task"] # None
      BY <2>3, <3>1
    <3>4. Greeting'
      BY <2>3, <2>4, <2>5, <2>7, <3>1, <3>2, <3>3 DEF Greeting
    <3> QED
      BY <1>d, <2>4, <2>5, <3>4 DEF Talks
  <2>8. CASE Greeted \/ Talking
    <3>1. Ordinary /\ server.crypto = "READY"
      BY <2>8 DEF Greeted, Talking
    <3>2. c = "aes"
      BY <3>1 DEF Ciphers, Ordinary
    <3>3. Ordinary'
      BY <2>1, <2>3, <3>1, <3>2 DEF Ordinary
    <3>4. Greeted' \/ Talking'
      BY <2>4, <2>5, <2>8, <3>3 DEF Greeted, Talking
    <3> QED
      BY <1>d, <2>4, <2>5, <3>4 DEF Talks
  <2> QED
    BY <1>d, <2>6, <2>7, <2>8 DEF Talks
<1>13. ASSUME NEW t \in Threads, encrypt_fails(t) PROVE Talks'
  BY <1>13, <1>d DEF encrypt_fails, Makes, Talks, Fresh, Silent, Greeting, Greeted, Talking
<1>14. ASSUME NEW t \in Threads, send(t) PROVE Talks'
  <2>1. /\ out[t] # None /\ out[t].cipher # "plain" /\ out[t] \in Sent
        /\ answers' = Append(answers, out[t])
        /\ UNCHANGED <<client, server, requests>>
    BY <1>14, <1>e DEF send, Sends, Sent
  <2>2. out'[t] = None /\ \A u \in Threads \ {t} : out'[u] = out[u]
    BY <1>14, <1>e DEF send, says
  <2>3. /\ Len(answers') = Len(answers) + 1 /\ Len(answers) \in Nat
        /\ answers'[Len(answers) + 1] = out[t]
        /\ \A i \in 1 .. Len(answers) : answers'[i] = answers[i]
    BY <1>e, <2>1
  <2>4. CASE Fresh
    BY <2>1, <2>4 DEF Fresh, Silent
  <2>5. CASE Greeting
    <3>1. t = "task" /\ out[t].says = "init" /\ out[t].cipher = "rsa"
          /\ server.crypto = "READY" /\ answers = <<>>
      BY <2>1, <2>5 DEF Greeting
    <3>2. Ordinary'
      BY <2>2, <2>5, <3>1 DEF Ordinary, Greeting
    <3>3. Len(answers') = 1 /\ answers'[1] = out[t]
      BY <2>1, <3>1
    <3>4. Greeted'
      BY <2>1, <2>5, <3>1, <3>2, <3>3 DEF Greeted, Greeting
    <3> QED
      BY <1>d, <2>1, <3>4 DEF Talks
  <2>6. CASE Greeted \/ Talking
    <3>1. Ordinary /\ Follows(out[t])
      BY <2>1, <2>6 DEF Greeted, Talking, Ordinary, Follows
    <3>2. Ordinary'
      BY <2>2, <3>1 DEF Ordinary
    <3>3. CASE Greeted
      <4>1. answers'[1] = answers[1] /\ Len(answers') > 0
        BY <2>3, <3>3 DEF Greeted
      <4>2. \A i \in 2 .. Len(answers') : Follows(answers'[i])
        <5> SUFFICES ASSUME NEW i \in 2 .. Len(answers') PROVE Follows(answers'[i])
          OBVIOUS
        <5>1. CASE i = Len(answers) + 1
          BY <2>3, <3>1, <5>1
        <5>2. CASE i \in 2 .. Len(answers)
          <6>1. answers'[i] = answers[i]
            BY <2>3, <5>2
          <6> QED
            BY <3>3, <5>2, <6>1 DEF Greeted
        <5> QED
          BY <2>3, <5>1, <5>2
      <4>3. Greeted'
        BY <2>1, <3>2, <3>3, <4>1, <4>2 DEF Greeted
      <4> QED
        BY <1>d, <2>1, <4>3 DEF Talks
    <3>4. CASE Talking
      <4>1. \A i \in 1 .. Len(answers') : Follows(answers'[i])
        <5> SUFFICES ASSUME NEW i \in 1 .. Len(answers') PROVE Follows(answers'[i])
          OBVIOUS
        <5>1. CASE i = Len(answers) + 1
          BY <2>3, <3>1, <5>1
        <5>2. CASE i \in 1 .. Len(answers)
          <6>1. answers'[i] = answers[i]
            BY <2>3, <5>2
          <6> QED
            BY <3>4, <5>2, <6>1 DEF Talking
        <5> QED
          BY <2>3, <5>1, <5>2
      <4>2. Talking'
        BY <2>1, <3>2, <3>4, <4>1 DEF Talking
      <4> QED
        BY <1>d, <2>1, <4>2 DEF Talks
    <3> QED
      BY <2>6, <3>3, <3>4
  <2> QED
    BY <1>d, <2>4, <2>5, <2>6 DEF Talks
<1> QED
  BY <1>c, <1>1, <1>2, <1>3, <1>4, <1>5, <1>6, <1>8, <1>9, <1>10, <1>11, <1>12, <1>13, <1>14
     DEF Next

LEMMA InitPhases == Init => Phases
BY DEF Init, Phases, Fresh, Silent

LEMMA PhasesSuffice == TypeOK /\ Phases => KeyComesFirst
<1> SUFFICES ASSUME TypeOK, Phases, ~early, ~(count.texts > 0)
             PROVE  client.status # "terminated" /\ server.status # "terminated"
  BY DEF KeyComesFirst
<1>1. count.texts \in 0 .. MaxTexts
  BY DEF TypeOK
<1>2. count.texts = 0
  BY <1>1
<1> QED
  BY <1>2 DEF Phases

\* Neither process breaks unless the console sends a text or somebody sets the
\* permission of guest too early, whatever the order in which the threads of the
\* server encrypt and send.
THEOREM KeyComesFirstAlways == Spec => []KeyComesFirst
BY InitType, StepType, InitPhases, StepPhases, PhasesSuffice, PTL DEF Spec
-----------------------------------------------------------------------------
(* The two copies of the permission.                                       *)

Tells(m) == m # None /\ m.says = "permission"
Quiet    == \A t \in Threads : ~Tells(out[t])

\* Who handles the commands of a client has greeted it, and so can encrypt.
Greets ==
    /\ client.state = "READY" => server.state = "READY"
    /\ server.state = "INIT" =>
          /\ out["task"] = None
          /\ \A t \in Threads : out[t] # None => out[t].says # "init"
          /\ \A i \in 1 .. Len(requests) : requests[i].command \notin Commands
          /\ \A i \in 1 .. Len(answers) : answers[i].says # "init"
          /\ guest = GUEST => Quiet

\* The permission of the server is the latest that the client is told: one thread
\* has it, or it is the last on the way, or the client has it.
Latest ==
    guest = GUEST /\ ~raced /\ Running /\ client.permission # NONE =>
        \/ \E t \in Threads :
               /\ Tells(out[t]) /\ out[t].permission = server.permission
               /\ \A u \in Threads \ {t} : ~Tells(out[u])
        \/ /\ Quiet
           /\ \E i \in 1 .. Len(answers) :
                  /\ Tells(answers[i]) /\ answers[i].permission = server.permission
                  /\ \A j \in i + 1 .. Len(answers) : ~Tells(answers[j])
        \/ /\ Quiet /\ \A i \in 1 .. Len(answers) : ~Tells(answers[i])
           /\ client.permission = server.permission

\* What tells nobody a permission changes nothing in that.
LEMMA LatestFrame ==
    ASSUME Latest, client'.permission = client.permission,
           client'.status = "running" => client.status = "running",
           server'.permission = server.permission, guest' = guest, raced' = raced,
           answers' = answers,
           \A t \in Threads :
               /\ Tells(out[t])' <=> Tells(out[t])
               /\ Tells(out[t]) => out'[t].permission = out[t].permission
    PROVE  Latest'
BY DEF Latest, Quiet, Running, Tells

\* What is said to the client that is no permission.
LEMMA SaysQuietly ==
    ASSUME TypeOK, NEW t \in Threads, NEW m \in Messages \cup {None},
           says(t, m), ~Tells(m), ~Tells(out[t])
    PROVE  \A u \in Threads :
               /\ Tells(out[u])' <=> Tells(out[u])
               /\ Tells(out[u]) => out'[u].permission = out[u].permission
BY DEF says, TypeOK, Tells

LEMMA Untold ==
    /\ ~Tells(None) /\ ~Tells(INIT_MESSAGE) /\ ~Tells(Text) /\ ~Tells(Done)
    /\ \A p \in SUBSET ALL : Tells(Told(p)) /\ Told(p).permission = p
BY MessageType DEF Tells, INIT_MESSAGE, Text, Done, Told, Message

\* A permission that is told while nobody tells another is the latest.
LEMMA LatestTold ==
    ASSUME TypeOK, NEW t \in Threads, NEW p \in SUBSET ALL, tell(t, p, p)
    PROVE  Latest'
<1> SUFFICES ASSUME ~raced'
             PROVE  /\ Tells(out'[t]) /\ out'[t].permission = server'.permission
                    /\ \A u \in Threads \ {t} : ~Tells(out'[u])
  BY DEF Latest, Tells
<1>1. out' = [out EXCEPT ![t] = Told(p)] /\ server'.permission = p
  BY DEF tell, says, TypeOK
<1>2. \A u \in Threads \ {t} : ~Tells(out[u])
  BY DEF tell, Tells
<1> QED
  BY <1>1, <1>2, Untold DEF TypeOK

\* No account is given the permission of a guest.
LEMMA NoGuestAccount == GUEST \notin Accounts
<1>1. GUEST \notin SUBSET WAIT
  BY DEF GUEST, WAIT, USER, STAFF, ADMIN
<1> QED
  BY <1>1

LEMMA StepGreets == TypeOK /\ Greets /\ [Next]_vars => Greets'
<1> SUFFICES ASSUME TypeOK, Greets, [Next]_vars PROVE Greets'
  OBVIOUS
<1>1. CASE output
  <2>1. requests \in Seq(Requests) /\ "public_key" \notin Commands
    BY DEF TypeOK, Requests, Commands
  <2>2. client'.state = "WAIT" /\ UNCHANGED <<server, answers, out, guest>>
    BY <1>1 DEF output, TypeOK
  <2> DEFINE r == [command |-> "public_key", by |-> client.permission]
  <2>3. requests' = Append(requests, r)
    BY <1>1 DEF output, request
  <2>4. ASSUME server.state = "INIT", NEW i \in 1 .. Len(requests')
        PROVE  requests'[i].command \notin Commands
    <3>1. CASE i = Len(requests) + 1
      BY <2>1, <2>3, <3>1
    <3>2. CASE i \in 1 .. Len(requests)
      <4>1. requests'[i] = requests[i]
        BY <2>1, <2>3, <3>2
      <4> QED
        BY <2>4, <3>2, <4>1 DEF Greets
    <3>3. Len(requests') = Len(requests) + 1 /\ Len(requests) \in Nat
      BY <2>1, <2>3
    <3> QED
      BY <3>1, <3>2, <3>3
  <2> QED
    BY <2>2, <2>4 DEF Greets, Quiet, Tells
<1>2. CASE \E command \in Commands : session_output(command)
  <2>1. client.state = "READY" /\ server' = server
    BY <1>2 DEF session_output
  <2> QED
    BY <2>1 DEF Greets
<1>3. CASE input
  <2>1. answers \in Seq(Messages) /\ answers # <<>> /\ answers' = Tail(answers)
        /\ UNCHANGED <<server, requests, out, guest>>
    BY <1>3 DEF input, TypeOK
  <2>2. \A i \in 1 .. Len(answers') :
           answers'[i] = answers[i + 1] /\ i + 1 \in 1 .. Len(answers)
    BY <2>1, RestOf
  <2>3. Head(answers) = answers[1] /\ 1 \in 1 .. Len(answers)
    BY <2>1
  <2>4. client'.state = "READY" => client.state = "READY" \/ answers[1].says = "init"
    BY <1>3, <2>3 DEF input, TypeOK
  <2>5. client'.state = "READY" => server.state = "READY"
    BY <2>3, <2>4 DEF Greets, TypeOK
  <2> QED
    BY <2>1, <2>2, <2>5 DEF Greets, Quiet, Tells
<1>4. CASE handshake
  <2>1. server'.state = "READY"
    BY <1>4 DEF handshake, TypeOK
  <2> QED
    BY <2>1 DEF Greets
<1>5. CASE session_handle
  <2>1. requests \in Seq(Requests) /\ requests # <<>> /\ Head(requests).command \in Commands
    BY <1>5 DEF session_handle, TypeOK, Requests
  <2>2. Head(requests) = requests[1] /\ 1 \in 1 .. Len(requests)
    BY <2>1
  <2>3. server.state = "READY"
    BY <2>1, <2>2 DEF Greets, TypeOK
  <2>4. server'.state = server.state
    BY <1>5 DEF session_handle, fail, execute, MayExecute, tell, TypeOK
  <2> QED
    BY <2>3, <2>4 DEF Greets
<1>6. CASE news \/ set_permission
  <2>1. server.state = "READY"
    BY <1>6 DEF news, set_permission, Ungreeted, TypeOK
  <2>2. server'.state = server.state
    BY <1>6 DEF news, set_permission, tell, TypeOK
  <2> QED
    BY <2>1, <2>2 DEF Greets
<1>7. CASE set_guest_permission
  <2>1. PICK p \in Accounts : tell("other", p, p) /\ guest' = p
    BY <1>7 DEF set_guest_permission
  <2>2. server'.state = server.state /\ out' = [out EXCEPT !["other"] = Told(p)]
        /\ UNCHANGED <<client, requests, answers>>
    BY <1>7, <2>1 DEF set_guest_permission, tell, says, TypeOK
  <2>3. Told(p).says = "permission"
    BY DEF Told, Message
  <2>4. \A t \in Threads : out'[t] = out[t] \/ out'[t].says = "permission"
    BY <2>2, <2>3 DEF TypeOK
  <2>5. out'["task"] = out["task"]
    BY <2>2 DEF TypeOK, Threads
  <2> QED
    BY <2>1, <2>2, <2>4, <2>5, NoGuestAccount DEF Greets
<1>8. CASE text
  <2>1. out' = [out EXCEPT !["console"] = Text]
        /\ UNCHANGED <<client, server, requests, answers, guest>>
    BY <1>8 DEF text, says
  <2>2. Text.says = "text"
    BY DEF Text, Message
  <2>3. \A t \in Threads : out'[t] = out[t] \/ out'[t].says = "text"
    BY <2>1, <2>2 DEF TypeOK
  <2>4. out'["task"] = out["task"]
    BY <2>1 DEF TypeOK, Threads
  <2> QED
    BY <2>1, <2>3, <2>4 DEF Greets, Quiet, Tells
<1>9. CASE drop \/ UNCHANGED vars
  <2>1. server'.state = server.state /\ UNCHANGED <<client, requests, answers, out, guest>>
    BY <1>9 DEF drop, vars, TypeOK
  <2> QED
    BY <2>1 DEF Greets, Quiet, Tells
<1>10. ASSUME NEW t \in Threads, encrypt(t) \/ encrypt_fails(t) PROVE Greets'
  <2>1. server'.state = server.state /\ UNCHANGED <<client, requests, answers, guest>>
    BY <1>10 DEF encrypt, encrypt_fails, TypeOK
  <2>2. out[t] # None
    BY <1>10 DEF encrypt, encrypt_fails, Makes
  <2>3. \A u \in Threads : out'[u] = out[u] \/ out'[u] = None
                           \/ (out[u] # None /\ out'[u].says = out[u].says)
    <3>1. CASE encrypt_fails(t)
      BY <3>1 DEF encrypt_fails, says, TypeOK
    <3>2. CASE encrypt(t)
      <4>1. PICK c \in Ciphers(t) : out' = [out EXCEPT ![t] = [out[t] EXCEPT !.cipher = c]]
        BY <3>2 DEF encrypt, says
      <4>2. out[t] \in Messages
        BY <2>2 DEF TypeOK
      <4>3. [out[t] EXCEPT !.cipher = c].says = out[t].says
        BY <4>2 DEF Messages
      <4> QED
        BY <2>2, <4>1, <4>3 DEF TypeOK
    <3> QED
      BY <1>10, <3>1, <3>2
  <2>4. server.state = "INIT" => t # "task"
    BY <2>2 DEF Greets
  <2>5. t # "task" => out'["task"] = out["task"]
    BY <1>10 DEF encrypt, encrypt_fails, says, TypeOK, Threads
  <2> QED
    BY <2>1, <2>3, <2>4, <2>5 DEF Greets, Quiet, Tells
<1>11. ASSUME NEW t \in Threads, send(t) PROVE Greets'
  <2>1. answers \in Seq(Messages) /\ out[t] \in Messages /\ out[t] # None
        /\ answers' = Append(answers, out[t]) /\ out' = [out EXCEPT ![t] = None]
        /\ UNCHANGED <<client, server, requests, guest>>
    BY <1>11 DEF send, Sends, says, TypeOK
  <2>2. Len(answers') = Len(answers) + 1 /\ Len(answers) \in Nat
    BY <2>1
  <2>3. \A i \in 1 .. Len(answers') :
           \/ i \in 1 .. Len(answers) /\ answers'[i] = answers[i]
           \/ answers'[i] = out[t]
    BY <2>1
  <2>4. \A u \in Threads : out'[u] = out[u] \/ out'[u] = None
    BY <2>1 DEF TypeOK
  <2> QED
    BY <2>1, <2>3, <2>4 DEF Greets, Quiet, Tells, Threads
<1> QED
  BY <1>1, <1>2, <1>3, <1>4, <1>5, <1>6, <1>7, <1>8, <1>9, <1>10, <1>11 DEF Next

\* A permission, or another message, goes onto the stream.
LEMMA LatestSent ==
    ASSUME TypeOK, Latest, NEW t \in Threads, send(t)
    PROVE  Latest'
<1>1. answers \in Seq(Messages) /\ answers' = Append(answers, out[t])
      /\ out' = [out EXCEPT ![t] = None] /\ UNCHANGED <<client, server, guest, raced>>
  BY DEF send, Sends, says, TypeOK
<1>2. /\ Len(answers') = Len(answers) + 1 /\ Len(answers) \in Nat
      /\ answers'[Len(answers) + 1] = out[t]
      /\ \A i \in 1 .. Len(answers) : answers'[i] = answers[i]
  BY <1>1
<1>3. ~Tells(out'[t]) /\ \A u \in Threads \ {t} : out'[u] = out[u]
  BY <1>1 DEF TypeOK, Tells
<1> SUFFICES ASSUME guest = GUEST, ~raced, Running, client.permission # NONE PROVE Latest'
  BY <1>1 DEF Latest, Running
<1>4. ASSUME NEW u \in Threads, Tells(out[u]), out[u].permission = server.permission,
             \A v \in Threads \ {u} : ~Tells(out[v])
      PROVE  Latest'
  <2>1. CASE u = t
    <3>1. Quiet'
      BY <1>3, <1>4, <2>1 DEF Quiet, Tells
    <3>2. Len(answers) + 1 \in 1 .. Len(answers') /\ Len(answers) + 1 + 1 .. Len(answers') = {}
      BY <1>2
    <3> QED
      BY <1>1, <1>2, <1>4, <2>1, <3>1, <3>2 DEF Latest, Tells
  <2>2. CASE u # t
    <3>1. /\ Tells(out'[u]) /\ out'[u].permission = server.permission
          /\ \A v \in Threads \ {u} : ~Tells(out'[v])
      BY <1>3, <1>4, <2>2
    <3> QED
      BY <1>1, <3>1 DEF Latest, Tells
  <2> QED
    BY <2>1, <2>2
<1>5. ASSUME Quiet, NEW i \in 1 .. Len(answers), Tells(answers[i]),
             answers[i].permission = server.permission,
             \A j \in i + 1 .. Len(answers) : ~Tells(answers[j])
      PROVE  Latest'
  <2>1. Quiet' /\ ~Tells(out[t])
    BY <1>3, <1>5 DEF Quiet, Tells
  <2>2. i \in 1 .. Len(answers') /\ answers'[i] = answers[i]
    BY <1>2
  <2>3. \A j \in i + 1 .. Len(answers') : ~Tells(answers'[j])
    <3> TAKE j \in i + 1 .. Len(answers')
    <3>1. j = Len(answers) + 1 \/ j \in i + 1 .. Len(answers)
      BY <1>2
    <3>2. j \in i + 1 .. Len(answers) => j \in 1 .. Len(answers)
      BY <1>2
    <3> QED
      BY <1>2, <1>5, <2>1, <3>1, <3>2
  <2> QED
    BY <1>1, <1>5, <2>1, <2>2, <2>3 DEF Latest, Tells
<1>6. ASSUME Quiet, \A i \in 1 .. Len(answers) : ~Tells(answers[i]),
             client.permission = server.permission
      PROVE  Latest'
  <2>1. Quiet' /\ ~Tells(out[t])
    BY <1>3, <1>6 DEF Quiet, Tells
  <2>2. \A i \in 1 .. Len(answers') : ~Tells(answers'[i])
    <3> TAKE i \in 1 .. Len(answers')
    <3>1. i = Len(answers) + 1 \/ i \in 1 .. Len(answers)
      BY <1>2
    <3> QED
      BY <1>2, <1>6, <2>1, <3>1
  <2> QED
    BY <1>1, <1>6, <2>1, <2>2 DEF Latest, Tells
<1> QED
  BY <1>4, <1>5, <1>6 DEF Latest

\* The client takes the first message off the stream.
LEMMA LatestTaken ==
    ASSUME TypeOK, Latest, input
    PROVE  Latest'
<1>1. answers \in Seq(Messages) /\ answers # <<>> /\ answers' = Tail(answers)
      /\ UNCHANGED <<server, out, guest, raced>>
  BY DEF input, TypeOK
<1>2. /\ Len(answers') = Len(answers) - 1 /\ Len(answers) \in Nat
      /\ \A i \in 1 .. Len(answers') :
             answers'[i] = answers[i + 1] /\ i + 1 \in 1 .. Len(answers)
      /\ Head(answers) = answers[1] /\ 1 \in 1 .. Len(answers)
  BY <1>1, RestOf
<1> SUFFICES ASSUME guest = GUEST, ~raced, Running', client'.permission # NONE PROVE Latest'
  BY <1>1 DEF Latest
<1>3. Running /\ client'.permission = Applied(answers[1])
  BY <1>2 DEF input, Running, TypeOK
<1>4. client.permission # NONE
  BY <1>3 DEF Applied, Allowed, NONE
<1>5. Allowed(client.permission, ALL)
  BY <1>4 DEF Allowed, TypeOK, NONE
<1>6. answers[1] \in Messages /\ (Tells(answers[1]) <=> answers[1].says = "permission")
  BY <1>1, <1>2 DEF Tells
<1>7. ASSUME NEW u \in Threads, Tells(out[u]), out[u].permission = server.permission,
             \A v \in Threads \ {u} : ~Tells(out[v])
      PROVE  Latest'
  BY <1>1, <1>7 DEF Latest, Tells
<1>8. ASSUME Quiet, NEW i \in 1 .. Len(answers), Tells(answers[i]),
             answers[i].permission = server.permission,
             \A j \in i + 1 .. Len(answers) : ~Tells(answers[j])
      PROVE  Latest'
  <2>1. Quiet'
    BY <1>1, <1>8 DEF Quiet, Tells
  <2>2. CASE i = 1
    <3>1. client'.permission = server.permission
      BY <1>3, <1>5, <1>6, <1>8, <2>2 DEF Applied
    <3>2. \A j \in 1 .. Len(answers') : ~Tells(answers'[j])
      <4> TAKE j \in 1 .. Len(answers')
      <4>1. answers'[j] = answers[j + 1] /\ j + 1 \in i + 1 .. Len(answers)
        BY <1>2, <2>2
      <4> QED
        BY <1>8, <4>1
    <3> QED
      BY <1>1, <2>1, <3>1, <3>2 DEF Latest, Tells
  <2>3. CASE i # 1
    <3>1. i - 1 \in 1 .. Len(answers') /\ answers'[i - 1] = answers[i]
      BY <1>2, <2>3
    <3>2. \A j \in i - 1 + 1 .. Len(answers') : ~Tells(answers'[j])
      <4> TAKE j \in i - 1 + 1 .. Len(answers')
      <4>1. answers'[j] = answers[j + 1] /\ j + 1 \in i + 1 .. Len(answers)
        BY <1>2
      <4> QED
        BY <1>8, <4>1
    <3> QED
      BY <1>1, <1>8, <2>1, <3>1, <3>2 DEF Latest, Tells
  <2> QED
    BY <2>2, <2>3
<1>9. ASSUME Quiet, \A i \in 1 .. Len(answers) : ~Tells(answers[i]),
             client.permission = server.permission
      PROVE  Latest'
  <2>1. Quiet'
    BY <1>1, <1>9 DEF Quiet, Tells
  <2>2. client'.permission = server.permission
    BY <1>2, <1>3, <1>6, <1>9 DEF Applied
  <2>3. \A j \in 1 .. Len(answers') : ~Tells(answers'[j])
    BY <1>2, <1>9
  <2> QED
    BY <1>1, <2>1, <2>2, <2>3 DEF Latest, Tells
<1> QED
  BY <1>3, <1>4, <1>7, <1>8, <1>9 DEF Latest

LEMMA StepLatest == TypeOK /\ Greets /\ Latest /\ [Next]_vars => Latest'
<1> SUFFICES ASSUME TypeOK, Greets, Latest, [Next]_vars PROVE Latest'
  OBVIOUS
<1> USE Untold
<1>1. CASE output \/ (\E command \in Commands : session_output(command)) \/ drop \/ UNCHANGED vars
  <2>1. /\ client'.permission = client.permission /\ server'.permission = server.permission
        /\ client'.status = "running" => client.status = "running"
        /\ UNCHANGED <<answers, out, guest, raced>>
    BY <1>1 DEF output, session_output, drop, vars, Running, TypeOK
  <2> QED
    BY <2>1, LatestFrame DEF Tells
<1>2. CASE handshake \/ news \/ text
  <2>1. /\ client' = client /\ server'.permission = server.permission
        /\ UNCHANGED <<answers, guest, raced>>
    BY <1>2 DEF handshake, news, text, TypeOK
  <2>2. \E t \in Threads, m \in {INIT_MESSAGE, Text, Done} : says(t, m) /\ out[t] = None
    BY <1>2 DEF handshake, news, text, Threads
  <2>3. \A u \in Threads : /\ Tells(out[u])' <=> Tells(out[u])
                           /\ Tells(out[u]) => out'[u].permission = out[u].permission
    BY <2>2, SaysQuietly, MessageType
  <2> QED
    BY <2>1, <2>3, LatestFrame
<1>3. CASE session_handle
  <2> DEFINE c == Head(requests).command
  <2>1. c \in Commands /\ out["task"] = None /\ (fail \/ execute(c))
        /\ UNCHANGED <<client, answers, guest>>
    BY <1>3 DEF session_handle
  <2>2. CASE fail
    <3>1. says("task", Done) /\ UNCHANGED <<server, raced>>
      BY <2>2 DEF fail
    <3>2. \A u \in Threads : /\ Tells(out[u])' <=> Tells(out[u])
                             /\ Tells(out[u]) => out'[u].permission = out[u].permission
      BY <2>1, <3>1, SaysQuietly, MessageType DEF Threads
    <3> QED
      BY <2>1, <3>1, <3>2, LatestFrame
  <2>3. ASSUME NEW p \in Effects(c), tell("task", p, Announced(c, p)) PROVE Latest'
    <3> SUFFICES ASSUME guest = GUEST PROVE Latest'
      BY <2>1 DEF Latest
    <3>1. Announced(c, p) = p
      BY <2>3 DEF Announced, Effects
    <3> QED
      BY <2>1, <2>3, <3>1, EffectsType, LatestTold DEF Threads
  <2>4. CASE UNCHANGED <<server, out, raced>>
    BY <2>1, <2>4, LatestFrame DEF Tells
  <2> QED
    BY <2>1, <2>2, <2>3, <2>4 DEF execute, MayExecute
<1>4. CASE set_permission
  BY <1>4, LatestTold, Masks DEF set_permission, Threads
<1>5. CASE set_guest_permission
  <2>1. guest' # GUEST
    BY <1>5, NoGuestAccount DEF set_guest_permission
  <2> QED
    BY <2>1 DEF Latest
<1>6. ASSUME NEW t \in Threads, encrypt(t) PROVE Latest'
  <2>1. client' = client /\ server'.permission = server.permission
        /\ UNCHANGED <<answers, guest, raced>> /\ out[t] # None
    BY <1>6 DEF encrypt, Makes, TypeOK
  <2>2. PICK c \in Ciphers(t) : out' = [out EXCEPT ![t] = [out[t] EXCEPT !.cipher = c]]
    BY <1>6 DEF encrypt, says
  <2>3. out[t] \in Messages
    BY <2>1 DEF TypeOK
  <2>4. c \in {"plain", "rsa", "aes"}
    BY DEF Ciphers
  <2>5. /\ [out[t] EXCEPT !.cipher = c] \in Messages
        /\ [out[t] EXCEPT !.cipher = c].says = out[t].says
        /\ [out[t] EXCEPT !.cipher = c].permission = out[t].permission
    BY <2>3, <2>4 DEF Messages
  <2>6. \A u \in Threads : /\ Tells(out[u])' <=> Tells(out[u])
                           /\ Tells(out[u]) => out'[u].permission = out[u].permission
    BY <2>1, <2>2, <2>5 DEF TypeOK, Tells
  <2> QED
    BY <2>1, <2>6, LatestFrame
<1>7. ASSUME NEW t \in Threads, encrypt_fails(t) PROVE Latest'
  <2>1. client' = client /\ server'.permission = server.permission
        /\ UNCHANGED <<answers, guest, raced>> /\ server.state = "INIT" /\ says(t, None)
    BY <1>7 DEF encrypt_fails, TypeOK
  <2> SUFFICES ASSUME guest = GUEST PROVE Latest'
    BY <2>1 DEF Latest
  <2>2. ~Tells(out[t])
    BY <2>1 DEF Greets, Quiet
  <2> QED
    BY <2>1, <2>2, SaysQuietly, LatestFrame
<1> QED
  BY <1>1, <1>2, <1>3, <1>4, <1>5, <1>6, <1>7, LatestSent, LatestTaken DEF Next

LEMMA InitLatest == Init => Greets /\ Latest
BY DEF Init, Greets, Latest, Quiet, Tells, Threads

\* Once everything sent has arrived the client's copy of its permission is the
\* server's, but for the causes that Astray names: for any accounts, and however many
\* handlers and threads have told it.
THEOREM AgreeAtRestAlways == Spec => []AgreeAtRest
<1>1. Latest => AgreeAtRest
  BY Untold DEF Latest, AgreeAtRest, Arrived, Astray, Tells
<1> QED
  BY <1>1, InitType, StepType, InitLatest, StepGreets, StepLatest, PTL DEF Spec
-----------------------------------------------------------------------------
(* The permission changes as Seating lets it.                              *)

seat == IF server.connected THEN server.permission ELSE NONE

(* The masks of Seating are those of commands/permissions.h.               *)
LEMMA SeatMasks ==
    /\ TheSeat!Unseated = {p \in SUBSET ALL : ~Allowed(p, PLAY)}
    /\ TheSeat!Join <=> Allowed(seat, WAIT) /\ seat' = PLAYER
    /\ TheSeat!Create <=> Allowed(seat, STAFF) /\ seat' = CROUPIER
<1>1. TheSeat!ALL = ALL /\ TheSeat!PLAY = PLAY /\ TheSeat!WAIT = WAIT /\ TheSeat!STAFF = STAFF
  BY DEF TheSeat!ALL, TheSeat!NONE, TheSeat!GUEST, TheSeat!AUTH, TheSeat!WAIT, TheSeat!USER,
         TheSeat!STAFF, TheSeat!ADMIN, TheSeat!PLAY, TheSeat!PLAYER, TheSeat!CROUPIER,
         ALL, NONE, GUEST, AUTH, WAIT, USER, STAFF, ADMIN, PLAY, PLAYER, CROUPIER
<1> QED
  BY <1>1 DEF TheSeat!Unseated, TheSeat!Join, TheSeat!Create, TheSeat!Allowed,
              TheSeat!PLAYER, TheSeat!CROUPIER, Allowed, PLAYER, CROUPIER, seat

Unseated == {p \in SUBSET ALL : ~Allowed(p, PLAY)}

(* Neither an account nor a guest has a seat; nobody at all has one.       *)
LEMMA AccountsUnseated == Accounts \cup {GUEST, NONE} \subseteq Unseated
BY Masks DEF Unseated, Allowed, PLAY, WAIT, GUEST, USER, STAFF, PLAYER, CROUPIER, ADMIN, NONE

(* The steps of Seating, by the permission before and after.               *)
LEMMA SeatSteps ==
    ASSUME \/ seat' = seat
           \/ seat' \in Unseated
           \/ Allowed(seat, WAIT) /\ seat' = PLAYER
           \/ Allowed(seat, STAFF) /\ seat' = CROUPIER
    PROVE  [TheSeat!Next]_seat
BY SeatMasks DEF TheSeat!Next, TheSeat!Become, Unseated, seat

(* A handler that tells the client its permission.                         *)
LEMMA SeatTold ==
    ASSUME TypeOK, Serving, NEW t, NEW p, NEW q, tell(t, p, q)
    PROVE  seat = server.permission /\ seat' = p
BY DEF Serving, tell, TypeOK, seat

(* The guest account has no seat to give, and every step keeps to Seating. *)
GuestUnseated == guest \in Unseated

LEMMA StepSeats ==
    TypeOK /\ GuestUnseated /\ [Next]_vars => GuestUnseated' /\ [TheSeat!Next]_seat
<1> SUFFICES ASSUME TypeOK, GuestUnseated, [Next]_vars
             PROVE  GuestUnseated' /\ [TheSeat!Next]_seat
  OBVIOUS
<1>1. CASE session_handle
  <2> DEFINE c == Head(requests).command
  <2>1. c \in Commands /\ Serving /\ guest' = guest /\ (fail \/ execute(c))
    BY <1>1 DEF session_handle
  <2> HIDE DEF c
  <2>2. CASE server' = server
    BY <2>1, <2>2, SeatSteps DEF seat, GuestUnseated
  <2>3. ASSUME NEW p \in Effects(c), MayExecute(c), tell("task", p, Announced(c, p))
        PROVE  [TheSeat!Next]_seat
    <3>1. seat = server.permission /\ seat' = p
      BY <2>1, <2>3, SeatTold
    <3>2. CASE c = "join"
      BY <2>3, <3>1, <3>2, SeatSteps DEF MayExecute, handlers, Effects
    <3>3. CASE c = "create"
      BY <2>3, <3>1, <3>3, SeatSteps DEF MayExecute, handlers, Effects
    <3>4. CASE c \in {"signin", "leave", "signout", "set_permission"}
      BY <2>3, <3>1, <3>4, SeatSteps, AccountsUnseated DEF Effects, GuestUnseated
    <3>5. CASE c \notin {"join", "create", "signin", "leave", "signout", "set_permission"}
      BY <2>3, <3>1, <3>5, SeatSteps DEF Effects
    <3> QED
      BY <3>2, <3>3, <3>4, <3>5
  <2> QED
    BY <2>1, <2>2, <2>3 DEF fail, execute, GuestUnseated
<1>2. CASE set_permission \/ set_guest_permission
  <2>1. PICK p \in Accounts : tell("other", p, p) /\ guest' \in {p, guest}
    BY <1>2 DEF set_permission, set_guest_permission
  <2>2. seat' = p
    BY <1>2, <2>1, SeatTold DEF set_permission, set_guest_permission
  <2> QED
    BY <2>1, <2>2, SeatSteps, AccountsUnseated DEF GuestUnseated
<1>3. CASE drop
  <2>1. seat' = NONE /\ guest' = guest
    BY <1>3 DEF drop, TypeOK, seat
  <2> QED
    BY <2>1, SeatSteps, AccountsUnseated DEF GuestUnseated
<1>4. ASSUME \/ output \/ input \/ \E command \in Commands : session_output(command)
             \/ handshake \/ news \/ text \/ UNCHANGED vars
             \/ \E t \in Threads : encrypt(t) \/ encrypt_fails(t) \/ send(t)
      PROVE  GuestUnseated' /\ [TheSeat!Next]_seat
  <2>1. guest' = guest /\ UNCHANGED <<server.connected, server.permission>>
    BY <1>4 DEF output, input, session_output, handshake, news, text, encrypt, encrypt_fails,
                send, vars, TypeOK
  <2> QED
    BY <2>1, SeatSteps DEF seat, GuestUnseated
<1> QED
  BY <1>1, <1>2, <1>3, <1>4 DEF Next

(* SeatingImplemented: whatever is typed, told and set on the way, and     *)
(* however it overlaps, the permission of the connection is given without  *)
(* a seat or taken with one by join and create.                            *)
THEOREM SeatingRefined == Spec => SeatingImplemented
<1>1. Init => GuestUnseated /\ TheSeat!Init
  BY AccountsUnseated, SeatMasks DEF Init, GuestUnseated, Unseated, TheSeat!Init
<1>2. TypeOK /\ GuestUnseated /\ [Next]_vars => GuestUnseated' /\ [TheSeat!Next]_seat
  BY StepSeats
<1> QED
  BY <1>1, <1>2, TypeCorrect, PTL DEF Spec, SeatingImplemented, TheSeat!Spec, seat
=============================================================================
