-------------------------- MODULE UdpSocket_proofs --------------------------
(***************************************************************************)
(* Proofs about UdpSocket, for any messages, scripts and bounds: the types *)
(* under every fault and, over a network that only loses packages, that    *)
(* the two sockets implement ReliableStream and keep what has not arrived. *)
(* InOrder is the argument: each package on the way belongs to a message   *)
(* so near to the one its receiver waits for that no other has its id, and *)
(* each SUCCESS to a message that has come and is still kept.              *)
(***************************************************************************)
EXTENDS UdpSocket, FiniteSetTheorems, SequenceTheorems, TLAPS
-----------------------------------------------------------------------------
(* Sequences.                                                              *)

\* No set of numbers from 1 to n is closed under going down by one: this stands for
\* induction where the provers have none.
LEMMA NoDescent ==
    ASSUME NEW n \in Nat, NEW S \in SUBSET (1 .. n), \A k \in S : k - 1 \in S
    PROVE  S = {}
<1> SUFFICES ASSUME NEW top \in S PROVE FALSE
  OBVIOUS
<1> DEFINE below == {k \in S : k <= top}
           down  == [k \in below |-> k - 1]
<1>1. IsFiniteSet(below)
  <2>1. IsFiniteSet(1 .. n) BY FS_Interval
  <2>2. below \in SUBSET (1 .. n) OBVIOUS
  <2> QED BY <2>1, <2>2, FS_Subset
<1>2. down \in Injection(below, below)
  <2>1. ASSUME NEW k \in below PROVE k - 1 \in below
    <3>1. k \in 1 .. n /\ top \in 1 .. n OBVIOUS
    <3> QED BY <3>1
  <2>2. down \in [below -> below] BY <2>1
  <2>3. \A a, b \in below : down[a] = down[b] => a = b OBVIOUS
  <2> QED BY <2>2, <2>3 DEF Injection, IsInjective
<1>3. down \in Surjection(below, below)
  BY <1>1, <1>2, FS_Injection
<1>4. \E k \in below : down[k] = top
  <2> HIDE DEF down
  <2>1. top \in below OBVIOUS
  <2> QED BY <1>3, <2>1 DEF Surjection
<1> QED BY <1>4

\* FlattenSeq puts sequences over S together to a sequence over S: its recursive
\* function exists, and has its values in Seq(S), at every index.
LEMMA Flattened ==
    ASSUME NEW S, NEW ss \in Seq(Seq(S))
    PROVE  FlattenSeq(ss) \in Seq(S)
<1> DEFINE Step(f, i) == IF i = 1 THEN ss[i] ELSE f[i - 1] \o ss[i]
<1>1. CASE Len(ss) = 0
  BY <1>1 DEF FlattenSeq
<1>2. CASE Len(ss) # 0
  <2> DEFINE Stuck == {k \in 1 .. Len(ss) : ~ \E f : f = [i \in 1 .. k |-> Step(f, i)]}
  <2>1. ASSUME NEW k \in Stuck PROVE k - 1 \in Stuck
    <3>1. k \in 1 .. Len(ss) OBVIOUS
    <3>2. k # 1
      <4> DEFINE f == [i \in 1 .. 1 |-> ss[i]]
      <4>1. f = [i \in 1 .. 1 |-> Step(f, i)] OBVIOUS
      <4> HIDE DEF f
      <4> QED BY <4>1
    <3> SUFFICES ASSUME NEW g, g = [i \in 1 .. k - 1 |-> Step(g, i)]
                 PROVE  \E f : f = [i \in 1 .. k |-> Step(f, i)]
      <4>1. k - 1 \in 1 .. Len(ss) BY <3>1, <3>2
      <4> HIDE DEF Step
      <4> QED BY <4>1, Zenon
    <3> DEFINE f == [i \in 1 .. k |-> IF i = k THEN g[k - 1] \o ss[k] ELSE g[i]]
    <3>3. ASSUME NEW i \in 1 .. k PROVE f[i] = Step(f, i)
      <4>1. CASE i = k
        <5>1. f[i] = g[i - 1] \o ss[i] BY <4>1
        <5>2. i - 1 \in 1 .. k /\ i - 1 # k /\ i # 1 BY <4>1, <3>1, <3>2
        <5>3. f[i - 1] = g[i - 1] BY <5>2
        <5> HIDE DEF f
        <5> QED BY <5>1, <5>2, <5>3
      <4>2. CASE i # k
        <5>1. i \in 1 .. k - 1 /\ i - 1 # k BY <4>2, <3>1
        <5>2. f[i] = g[i] /\ g[i] = Step(g, i) BY <5>1, <4>2
        <5>3. i # 1 => f[i - 1] = g[i - 1] BY <5>1
        <5> HIDE DEF f
        <5> QED BY <5>2, <5>3
      <4> QED BY <4>1, <4>2
    <3>4. f = [i \in 1 .. k |-> f[i]] OBVIOUS
    <3> HIDE DEF f, Step
    <3>5. f = [i \in 1 .. k |-> Step(f, i)] BY <3>3, <3>4
    <3> QED BY <3>5
  <2>2. Stuck = {}
    <3>1. Stuck \subseteq 1 .. Len(ss) /\ Len(ss) \in Nat
      <4> HIDE DEF Step
      <4> QED OBVIOUS
    <3> HIDE DEF Stuck
    <3> QED BY <2>1, <3>1, NoDescent
  <2>3. PICK f : f = [i \in 1 .. Len(ss) |-> Step(f, i)]
    <3>1. Len(ss) \in 1 .. Len(ss) BY <1>2
    <3> HIDE DEF Step
    <3> QED BY <2>2, <3>1, Zenon
  <2> DEFINE g == CHOOSE h : h = [i \in 1 .. Len(ss) |-> Step(h, i)]
  <2>4. g = [i \in 1 .. Len(ss) |-> Step(g, i)]
    BY <2>3
  <2>5. FlattenSeq(ss) = g[Len(ss)]
    BY <1>2 DEF FlattenSeq
  <2> HIDE DEF g
  <2> DEFINE Odd == {k \in 1 .. Len(ss) : g[k] \notin Seq(S)}
  <2>6. ASSUME NEW k \in Odd PROVE k - 1 \in Odd
    <3>1. k \in 1 .. Len(ss) /\ g[k] \notin Seq(S) OBVIOUS
    <3>2. g[k] = Step(g, k) BY <2>4, <3>1
    <3>3. k # 1 BY <3>1, <3>2
    <3>4. g[k - 1] \notin Seq(S) BY <3>1, <3>2, <3>3
    <3> QED BY <3>1, <3>3, <3>4
  <2>7. Odd = {}
    <3>1. Odd \in SUBSET (1 .. Len(ss)) /\ Len(ss) \in Nat OBVIOUS
    <3> HIDE DEF Odd
    <3> QED BY <2>6, <3>1, NoDescent
  <2> QED BY <1>2, <2>5, <2>7
<1> QED BY <1>1, <1>2
-----------------------------------------------------------------------------
(* Packages.                                                               *)

Part(entry, n) ==
    [type |-> "USER", id |-> entry.id, number |-> n,
     numbers |-> entry.message.packages, text |-> Text(entry.message, n)]
Parts(entry) == {Part(entry, n) : n \in 0 .. entry.message.packages - 1}

\* All that is ever on the way.
Wire == {Success} \cup UNION {Parts(entry) : entry \in Entry}

\* What SocketAssumption says of one message.
LEMMA MessageFacts ==
    ASSUME NEW m \in Messages
    PROVE  /\ m.packages \in 1 .. 255 /\ m.full \in BOOLEAN
           /\ m.full => m.packages > 1
BY SocketAssumption DEF Message

\* The packages of a message are parts of it.
LEMMA PackagesType ==
    ASSUME NEW entry \in Entry
    PROVE  Packages(entry) \in Seq(Parts(entry)) /\ Packages(entry) \in Seq(Wire)
<1>1. entry.message.packages \in Nat
  BY MessageFacts DEF Entry
<1>2. \A n \in 1 .. entry.message.packages : Packages(entry)[n] \in Parts(entry)
  BY <1>1 DEF Packages, Parts, Part
<1>3. Packages(entry) \in Seq(Parts(entry))
  <2>1. /\ DOMAIN Packages(entry) = 1 .. entry.message.packages
        /\ Packages(entry) = [n \in DOMAIN Packages(entry) |-> Packages(entry)[n]]
    BY <1>1 DEF Packages
  <2> QED BY <1>1, <1>2, <2>1
<1>4. Parts(entry) \subseteq Wire
  BY DEF Wire
<1> QED BY <1>3, <1>4, SeqMonotonic

\* A package on the way that is not SUCCESS is one of text with a number below the
\* number of its message's packages.
LEMMA WireFacts ==
    ASSUME NEW p \in Wire, p.type = "USER" \/ p # Success
    PROVE  /\ p.type = "USER" /\ p # Success
           /\ p.id \in 0 .. ID_MODULUS - 1 /\ p.numbers \in 1 .. 255
           /\ p.number \in 0 .. p.numbers - 1 /\ p.text \in Seq(Piece)
           /\ p \in Package
<1>1. PICK entry \in Entry : \E n \in 0 .. entry.message.packages - 1 : p = Part(entry, n)
  BY DEF Wire, Parts, Success
<1>0. PICK n \in 0 .. entry.message.packages - 1 : p = Part(entry, n)
  BY <1>1
<1>2. entry.message \in Messages /\ entry.message.packages \in 1 .. 255
      /\ entry.id \in 0 .. ID_MODULUS - 1
  BY MessageFacts DEF Entry
<1>3. n \in 0 .. 254
  BY <1>2
<1>4. Text(entry.message, n) \in Seq(Piece)
  <2>1. [message |-> entry.message, number |-> n] \in Piece
    BY <1>2, <1>3 DEF Piece
  <2> DEFINE piece == [message |-> entry.message, number |-> n]
  <2> HIDE DEF piece
  <2>2. <<piece>> \in Seq(Piece) /\ <<>> \in Seq(Piece)
    BY <2>1 DEF piece
  <2> QED BY <2>2 DEF Text, piece
<1>5. /\ p.type = "USER" /\ p.id = entry.id /\ p.number = n
      /\ p.numbers = entry.message.packages /\ p.text = Text(entry.message, n)
      /\ p = [type |-> "USER", id |-> p.id, number |-> p.number, numbers |-> p.numbers,
              text |-> p.text]
  BY <1>0 DEF Part
<1>6. p # Success
  BY <1>5 DEF Success
<1>7. p.id \in 0 .. ID_MODULUS - 1 /\ p.numbers \in 1 .. 255
      /\ p.number \in 0 .. p.numbers - 1 /\ p.number \in 0 .. 254 /\ p.text \in Seq(Piece)
  BY <1>2, <1>3, <1>4, <1>5
<1>8. p \in Package
  BY <1>5, <1>7 DEF Package
<1> QED BY <1>5, <1>6, <1>7, <1>8

\* What may be on the way has the type of packages.
LEMMA WirePackages == Wire \subseteq Package
<1>1. Success \in Package BY DEF Success, Package
<1> QED BY <1>1, WireFacts
-----------------------------------------------------------------------------
(* Types.                                                                  *)

\* The fields of a Socket, named so that the provers need not look into them.
Identifiers == 0 .. ID_MODULUS - 1
Numbers     == 0 .. 254
Counts      == 0 .. 255
Timer       == 0 .. RETRY_TIMEOUT
Entries     == Seq(Entry)
Texts       == Seq(Piece)

\* The same record type, by its named fields.
LEMMA SocketFields ==
    Socket = [package_id : Identifiers, send_buffer : Entries, expected_id : Identifiers,
              expected_number : Numbers, expected_numbers : Counts, buffer : Texts,
              retry_timeout : Timer]
BY DEF Socket, Identifiers, Numbers, Counts, Timer, Entries, Texts

TypeInv ==
    /\ socket \in [Ends -> Socket]
    /\ network \in [Ends -> Seq(Wire)]
    /\ sent \in [Ends -> Seq(Messages)]
    /\ received \in [Ends -> Seq(Seq(Piece))]

\* The constants are numbers.
LEMMA Constants ==
    /\ ID_MODULUS \in Nat \ {0} /\ RETRY_TIMEOUT \in Nat
    /\ MaxUnacked \in Nat /\ MaxInFlight \in Nat
BY SocketAssumption

\* There are two ends, each the other's peer.
LEMMA PeerFacts == \A e \in Ends : peer(e) \in Ends /\ peer(e) # e /\ peer(peer(e)) = e
BY DEF Ends, peer

\* The ids wrap around within their range.
LEMMA IdsWrap ==
    /\ 0 \in 0 .. ID_MODULUS - 1
    /\ \A id \in 0 .. ID_MODULUS - 1 : (id + 1) % ID_MODULUS \in 0 .. ID_MODULUS - 1
BY Constants

\* The inductive types imply those that TLC checks.
LEMMA TypeImplies == TypeInv => TypeOK
BY WirePackages, SeqMonotonic DEF TypeInv, TypeOK

\* The sockets as they are initialised have their types.
LEMMA TypeInit == Init => TypeInv
BY IdsWrap, Constants DEF Init, TypeInv, NewSocket, Socket, WAIT_PACKAGE

\* raw_send leaves only packages on the way.
LEMMA SentType ==
    ASSUME TypeInv, NEW e \in Ends, NEW packages \in Seq(Wire), raw_send(e, packages)
    PROVE  network' \in [Ends -> Seq(Wire)]
BY PeerFacts, ConcatProperties DEF TypeInv, raw_send

\* What a retry repeats are packages.
LEMMA ResendType == ASSUME TypeInv, NEW e \in Ends PROVE Resend(e) \in Seq(Wire)
<1>1. socket[e].send_buffer \in Seq(Entry) BY DEF TypeInv, Socket
<1> DEFINE all == [i \in DOMAIN socket[e].send_buffer |-> Packages(socket[e].send_buffer[i])]
<1>2. all \in Seq(Seq(Wire))
  <2>1. \A i \in 1 .. Len(socket[e].send_buffer) : Packages(socket[e].send_buffer[i]) \in Seq(Wire)
    BY <1>1, PackagesType
  <2> QED BY <1>1, <2>1, IsASeq
<1> QED BY <1>2, Flattened DEF Resend

\* RemoveAt keeps the type of a sequence.
LEMMA ShorterType ==
    ASSUME NEW S, NEW s \in Seq(S), NEW i \in DOMAIN s
    PROVE  RemoveAt(s, i) \in Seq(S)
<1>1. i \in 1 .. Len(s) OBVIOUS
<1>2. SubSeq(s, 1, i - 1) \in Seq(S) /\ SubSeq(s, i + 1, Len(s)) \in Seq(S)
  BY <1>1, SubSeqProperties
<1> QED BY <1>2 DEF RemoveAt

\* What comes in is a package on the way.
LEMMA ArrivalFacts ==
    ASSUME TypeInv, NEW e \in Ends, NEW i \in Arrivals(e)
    PROVE  /\ i \in DOMAIN network[e] /\ network[e][i] \in Wire
           /\ RemoveAt(network[e], i) \in Seq(Wire)
<1>1. network[e] \in Seq(Wire) /\ i \in DOMAIN network[e]
  BY DEF TypeInv, Arrivals
<1> QED BY <1>1, ShorterType

\* A package that leaves the network leaves only packages behind.
LEMMA LeavesType ==
    ASSUME TypeInv, NEW e \in Ends, NEW i \in Arrivals(e), Leaves(e, i)
    PROVE  network' \in [Ends -> Seq(Wire)]
<1> DEFINE rest == RemoveAt(network[e], i)
<1>1. rest \in Seq(Wire) BY ArrivalFacts
<1>2. network' = [network EXCEPT ![e] = rest] \/ network' = network BY DEF Leaves
<1> HIDE DEF rest
<1> QED BY <1>1, <1>2 DEF TypeInv

\* Counting a package keeps the types: a number that is not the last has a next one.
LEMMA CountedType ==
    ASSUME NEW s \in Socket, NEW p \in Wire, p.type = "USER", Accepts(s, p)
    PROVE  Counted(s, p) \in Socket
<1>1. p.numbers \in 1 .. 255 /\ p.number \in 0 .. p.numbers - 1
  BY WireFacts
<1>2. s.expected_number = p.number BY DEF Accepts
<1>3. 0 \in Timer /\ 0 \in Numbers /\ WAIT_PACKAGE \in Counts /\ p.numbers \in Counts
  BY <1>1, Constants DEF WAIT_PACKAGE, Timer, Counts, Numbers
<1>4. CASE p.number + 1 = p.numbers
  <2> DEFINE id == (s.expected_id + 1) % ID_MODULUS
  <2>1. id \in Identifiers BY IdsWrap DEF Socket, Identifiers
  <2>2. Counted(s, p) = [s EXCEPT !.expected_number = 0, !.expected_numbers = WAIT_PACKAGE,
                                  !.expected_id = id, !.retry_timeout = 0]
    BY <1>4 DEF Counted
  <2> HIDE DEF id
  <2> QED BY <1>3, <2>1, <2>2, SocketFields
<1>5. CASE p.number + 1 # p.numbers
  <2> DEFINE next == s.expected_number + 1
  <2>1. next \in Numbers BY <1>1, <1>2, <1>5 DEF Numbers
  <2>2. Counted(s, p) = [s EXCEPT !.expected_number = next,
                                  !.expected_numbers = p.numbers, !.retry_timeout = 0]
    BY <1>5 DEF Counted
  <2> HIDE DEF next
  <2> QED BY <1>3, <2>1, <2>2, SocketFields
<1> QED BY <1>4, <1>5

\* The text goes to the buffer or, with the buffer, to what has been received.
LEMMA BufferedType ==
    ASSUME NEW s \in Socket, NEW text \in Seq(Piece)
    PROVE  Buffered(s, text) \in Socket /\ Pushed(s, text) \in Seq(Seq(Piece))
<1> DEFINE whole == s.buffer \o text
<1>1. whole \in Texts /\ <<>> \in Texts BY DEF Socket, Texts
<1>2. Buffered(s, text) = [s EXCEPT !.buffer = IF Completes(text) THEN <<>> ELSE whole]
      /\ Pushed(s, text) = IF Completes(text) THEN <<whole>> ELSE <<>>
  BY DEF Buffered, Pushed
<1> HIDE DEF whole
<1>3. Buffered(s, text) \in Socket BY <1>1, <1>2, SocketFields
<1>4. <<whole>> \in Seq(Texts) /\ <<>> \in Seq(Texts) BY <1>1
<1> QED BY <1>2, <1>3, <1>4 DEF Texts

\* The types are inductive.
LEMMA TypeNext == TypeInv /\ [Next]_vars => TypeInv'
<1> SUFFICES ASSUME TypeInv, [Next]_vars PROVE TypeInv' OBVIOUS
<1>t. /\ socket \in [Ends -> Socket] /\ network \in [Ends -> Seq(Wire)]
      /\ sent \in [Ends -> Seq(Messages)] /\ received \in [Ends -> Seq(Seq(Piece))]
  BY DEF TypeInv
<1>1. CASE UNCHANGED vars
  BY <1>1, <1>t DEF vars, TypeInv
<1>2. ASSUME NEW e \in Ends, NEW m \in Messages, buffered_send(e, m) PROVE TypeInv'
  <2> DEFINE entry == [id |-> socket[e].package_id, message |-> m]
             id == (socket[e].package_id + 1) % ID_MODULUS
             buffered == Append(socket[e].send_buffer, entry)
  <2>1. entry \in Entry /\ id \in Identifiers
    BY IdsWrap, <1>t DEF Entry, Socket, Identifiers
  <2>2. buffered \in Entries BY <2>1, <1>t DEF Socket, Entries
  <2>3. network' \in [Ends -> Seq(Wire)]
    BY <1>2, <2>1, PackagesType, SentType DEF buffered_send
  <2>4. socket' = [socket EXCEPT ![e] = [socket[e] EXCEPT !.package_id = id,
                                                          !.send_buffer = buffered]]
    BY <1>2, <1>t DEF buffered_send
  <2> HIDE DEF entry, id, buffered
  <2>5. [socket[e] EXCEPT !.package_id = id, !.send_buffer = buffered] \in Socket
    BY <2>1, <2>2, <1>t, SocketFields
  <2>6. socket' \in [Ends -> Socket] BY <2>4, <2>5, <1>t
  <2>7. sent' \in [Ends -> Seq(Messages)] /\ received' = received
    BY <1>2, <1>t DEF buffered_send
  <2> QED BY <2>3, <2>6, <2>7, <1>t DEF TypeInv
<1>3. ASSUME NEW e \in Ends, wait(e) PROVE TypeInv'
  <2> DEFINE time == socket[e].retry_timeout + 1
  <2>1. time \in Timer BY <1>3, <1>t, Constants DEF wait, Expired, Socket, Timer
  <2>2. socket' = [socket EXCEPT ![e] = [socket[e] EXCEPT !.retry_timeout = time]]
    BY <1>3, <1>t DEF wait
  <2> HIDE DEF time
  <2>3. [socket[e] EXCEPT !.retry_timeout = time] \in Socket BY <2>1, <1>t, SocketFields
  <2> QED BY <1>3, <2>2, <2>3, <1>t DEF TypeInv, wait
<1>4. ASSUME NEW e \in Ends, retry(e) PROVE TypeInv'
  <2>1. network' \in [Ends -> Seq(Wire)] BY <1>4, ResendType, SentType DEF retry
  <2>2. socket' = [socket EXCEPT ![e] = [socket[e] EXCEPT !.retry_timeout = 0]]
    BY <1>4, <1>t DEF retry
  <2>3. 0 \in Timer BY Constants DEF Timer
  <2>4. [socket[e] EXCEPT !.retry_timeout = 0] \in Socket BY <2>3, <1>t, SocketFields
  <2> QED BY <1>4, <2>1, <2>2, <2>4, <1>t DEF TypeInv, retry
<1>5. ASSUME NEW e \in Ends, acknowledged(e) PROVE TypeInv'
  <2> DEFINE left == pop_front(socket[e].send_buffer)
             time == IF socket[e].send_buffer = <<>> THEN socket[e].retry_timeout ELSE 0
  <2>1. network' \in [Ends -> Seq(Wire)]
    BY <1>5, LeavesType DEF acknowledged
  <2>2. left \in Entries BY <1>t DEF Socket, Entries, pop_front
  <2>3. time \in Timer BY <1>t, Constants DEF Socket, Timer
  <2>4. socket' = [socket EXCEPT ![e] = [socket[e] EXCEPT !.send_buffer = left,
                                                          !.retry_timeout = time]]
    BY <1>5, <1>t DEF acknowledged
  <2> HIDE DEF left, time
  <2>5. [socket[e] EXCEPT !.send_buffer = left, !.retry_timeout = time] \in Socket
    BY <2>2, <2>3, <1>t, SocketFields
  <2> QED BY <1>5, <2>1, <2>4, <2>5, <1>t DEF TypeInv, acknowledged
<1>6. ASSUME NEW e \in Ends, ignored(e) PROVE TypeInv'
  BY <1>6, <1>t, LeavesType DEF ignored, TypeInv
<1>7. ASSUME NEW e \in Ends, lose(e) PROVE TypeInv'
  BY <1>7, <1>t, ArrivalFacts DEF lose, TypeInv
<1>8. ASSUME NEW e \in Ends, accepted(e) PROVE TypeInv'
  <2> DEFINE s == socket[e]
  <2>1. PICK i \in Arrivals(e) :
            /\ network[e][i].type = "USER" /\ Accepts(s, network[e][i])
            /\ socket' = [socket EXCEPT ![e] =
                    Buffered(Counted(s, network[e][i]), network[e][i].text)]
            /\ received' = [received EXCEPT ![e] = @ \o Pushed(s, network[e][i].text)]
            /\ \E rest \in {RemoveAt(network[e], i)} \cup
                              (IF "duplicate" \in Faults THEN {network[e]} ELSE {}) :
                  IF network[e][i].number + 1 = network[e][i].numbers
                  THEN network' = [network EXCEPT ![e] = rest,
                                                  ![peer(e)] = Append(@, Success)]
                  ELSE network' = [network EXCEPT ![e] = rest]
    BY <1>8 DEF accepted
  <2>2. network[e][i] \in Wire /\ RemoveAt(network[e], i) \in Seq(Wire)
    BY ArrivalFacts
  <2>3. network[e][i].text \in Seq(Piece) BY <2>1, <2>2, WireFacts
  <2>4. socket' \in [Ends -> Socket]
    BY <2>1, <2>2, <2>3, <1>t, CountedType, BufferedType
  <2>5. received' \in [Ends -> Seq(Seq(Piece))]
    <3>1. received[e] \o Pushed(s, network[e][i].text) \in Seq(Seq(Piece))
      BY <2>3, <1>t, BufferedType, ConcatProperties
    <3> QED BY <2>1, <3>1, <1>t
  <2>6. network' \in [Ends -> Seq(Wire)]
    <3>1. Success \in Wire BY DEF Wire
    <3>2. PICK rest \in Seq(Wire) :
              \/ network' = [network EXCEPT ![e] = rest, ![peer(e)] = Append(@, Success)]
              \/ network' = [network EXCEPT ![e] = rest]
      BY <2>1, <2>2, <1>t
    <3>3. network[peer(e)] \in Seq(Wire) BY <1>t, PeerFacts
    <3> DEFINE more == Append(network[peer(e)], Success)
    <3>4. more \in Seq(Wire) BY <3>1, <3>3, AppendProperties
    <3>5. \/ network' = [network EXCEPT ![e] = rest, ![peer(e)] = more]
          \/ network' = [network EXCEPT ![e] = rest]
      BY <3>2, <1>t, PeerFacts
    <3> HIDE DEF more
    <3> QED BY <3>2, <3>4, <3>5, <1>t
  <2>7. sent' = sent BY <1>8 DEF accepted
  <2> QED BY <2>4, <2>5, <2>6, <2>7, <1>t DEF TypeInv
<1> QED
  BY <1>1, <1>2, <1>3, <1>4, <1>5, <1>6, <1>7, <1>8 DEF Next, tick, update

\* Every field keeps its type, whatever the network does.
THEOREM TypeCorrect == Spec => []TypeOK
<1> QED BY TypeInit, TypeNext, TypeImplies, PTL DEF Spec
-----------------------------------------------------------------------------
(* What comes in order.                                                    *)

\* The network may lose packages but does nothing else to them, and the numbers
\* of the messages kept differ.
Reliable == Faults \subseteq {"lose"} /\ MaxUnacked < ID_MODULUS

\* The messages of which every package has been taken by e: one that is full has
\* been pushed before its last package.
Done(e) ==
    Len(received[e])
        - IF socket[e].expected_number > 0 /\ socket[e].buffer = <<>> THEN 1 ELSE 0

\* The messages of e that a SUCCESS has taken off.
Popped(e) == Len(sent[e]) - Len(socket[e].send_buffer)

Numbered(messages, j) == [id |-> (j - 1) % ID_MODULUS, message |-> messages[j]]

\* The send_buffer holds the end of what was sent, from a message on that has come
\* completely or is the next to come.
Sending(e) ==
    LET s == socket[e]
    IN  /\ s.package_id = Len(sent[e]) % ID_MODULUS
        /\ Len(s.send_buffer) <= MaxUnacked
        /\ Popped(e) \in 0 .. Done(peer(e))
        /\ \A i \in 1 .. Len(s.send_buffer) : s.send_buffer[i] = Numbered(sent[e], Popped(e) + i)

\* Of the next message the first expected_number packages have come; the last of
\* a full one brings no text.
Receiving(e) ==
    LET s == socket[e]
        m == sent[peer(e)][Done(e) + 1]
    IN  /\ Done(e) \in 0 .. Len(sent[peer(e)])
        /\ s.expected_id = Done(e) % ID_MODULUS
        /\ \A j \in 1 .. Done(e) : received[e][j] = Whole(sent[peer(e)][j])
        /\ s.expected_number = 0 => s.expected_numbers = WAIT_PACKAGE /\ s.buffer = <<>>
        /\ s.expected_number > 0 =>
              /\ Done(e) < Len(sent[peer(e)])
              /\ s.expected_numbers = m.packages /\ s.expected_number < m.packages
              /\ IF m.full /\ s.expected_number = m.packages - 1
                 THEN s.buffer = <<>> /\ received[e][Done(e) + 1] = Whole(m)
                 ELSE s.buffer = [n \in 1 .. s.expected_number |->
                                     [message |-> m, number |-> n - 1]]

\* Each package on the way has the number of a message: a SUCCESS that of one that
\* has come completely and is still kept, in ascending order; a package of text
\* one so near to those ahead of it and to the one waited for that no other has
\* the same id.
InStep(at, packages, messages, popped, told, done) ==
    \A i \in 1 .. Len(packages) :
        /\ packages[i] = Success =>
              /\ at[i] > popped /\ at[i] <= told
              /\ \A j \in 1 .. i - 1 : packages[j] = Success => at[j] < at[i]
        /\ packages[i] # Success =>
              /\ at[i] \in 1 .. Len(messages)
              /\ packages[i] \in Parts(Numbered(messages, at[i]))
              /\ done < at[i] + MaxUnacked
              /\ \A j \in 1 .. i - 1 : packages[j] # Success => at[j] < at[i] + MaxUnacked

OnTheWay(e) ==
    \E at \in [1 .. Len(network[e]) -> Nat] :
        InStep(at, network[e], sent[peer(e)], Popped(e), Done(peer(e)), Done(e))

InOrder == \A e \in Ends : Sending(e) /\ Receiving(e) /\ OnTheWay(e)

-----------------------------------------------------------------------------
(* Arithmetic of the ids.                                                  *)

\* Quotient and remainder.
LEMMA Division ==
    ASSUME NEW m \in Nat \ {0}, NEW a \in Nat
    PROVE  a \div m \in Nat /\ a % m \in 0 .. m - 1 /\ a = m * (a \div m) + (a % m)
OBVIOUS

\* The remainder of a sum of multiples and something smaller.
LEMMA Remainder ==
    ASSUME NEW m \in Nat \ {0}, NEW q \in Nat, NEW r \in 0 .. m - 1
    PROVE  (m * q + r) % m = r
OBVIOUS

\* Multiples are at least one modulus apart.
LEMMA Ordered == ASSUME NEW m \in Nat \ {0}, NEW q \in Nat, NEW p \in Nat, q < p
    PROVE  m * q + m <= m * p
<1>1. PICK d \in Nat : p = q + 1 + d
  <2>1. p - q - 1 \in Nat /\ p = q + 1 + (p - q - 1) OBVIOUS
  <2> QED BY <2>1
<1>2. m * p = m * q + m + m * d BY <1>1
<1>3. m * d \in Nat OBVIOUS
<1> QED BY <1>2, <1>3

\* Numbers less than the modulus apart with one remainder are equal: messages so
\* near to each other have different ids.
LEMMA SameRemainder ==
    ASSUME NEW m \in Nat \ {0}, NEW a \in Nat, NEW b \in Nat, a % m = b % m, a - b < m, b - a < m
    PROVE  a = b
<1>1. ASSUME NEW x \in Nat, NEW y \in Nat, x % m = y % m, x < y PROVE y - x >= m
  <2> DEFINE q == x \div m
             p == y \div m
             r == x % m
  <2>1. q \in Nat /\ p \in Nat /\ r \in 0 .. m - 1 /\ x = m * q + r /\ y = m * p + r
    BY <1>1, Division
  <2>2. m * q \in Nat /\ m * p \in Nat BY <2>1
  <2> HIDE DEF q, p, r
  <2>3. q < p
    <3> SUFFICES ASSUME p <= q PROVE FALSE BY <2>1
    <3>1. CASE p = q BY <3>1, <2>1, <1>1
    <3>2. CASE p < q
      <4>1. m * p + m <= m * q BY <3>2, <2>1, Ordered
      <4> QED BY <4>1, <2>1, <2>2, <1>1
    <3> QED BY <3>1, <3>2, <2>1
  <2>4. m * q + m <= m * p BY <2>1, <2>3, Ordered
  <2> QED BY <2>1, <2>2, <2>4
<1>2. ~ (a < b) /\ ~ (b < a)
  <2>1. a < b => b - a >= m BY <1>1, Zenon
  <2>2. b < a => a - b >= m BY <1>1, Zenon
  <2> QED BY <2>1, <2>2
<1> QED BY <1>2

\* The id that follows that of a message is the id of the next message.
LEMMA NextRemainder ==
    ASSUME NEW m \in Nat \ {0}, NEW a \in Nat
    PROVE  ((a % m) + 1) % m = (a + 1) % m
<1> DEFINE q == a \div m
           r == a % m
<1>1. q \in Nat /\ r \in 0 .. m - 1 /\ a = m * q + r BY Division
<1>2. CASE r + 1 < m
  <2>1. (m * q + (r + 1)) % m = r + 1 /\ (m * 0 + (r + 1)) % m = r + 1
    <3> HIDE DEF q, r
    <3>1. r + 1 \in 0 .. m - 1 BY <1>1, <1>2
    <3> QED BY <1>1, <3>1, Remainder
  <2> QED BY <2>1, <1>1
<1>3. CASE r + 1 = m
  <2>1. (m * (q + 1) + 0) % m = 0 /\ (m * 1 + 0) % m = 0
    <3> HIDE DEF q, r
    <3>1. 0 \in 0 .. m - 1 /\ q + 1 \in Nat BY <1>1
    <3> QED BY <3>1, Remainder
  <2>2. a + 1 = m * (q + 1) + 0 /\ r + 1 = m * 1 + 0
    <3> HIDE DEF q, r
    <3> QED BY <1>1, <1>3
  <2> QED BY <2>1, <2>2
<1> QED BY <1>1, <1>2, <1>3
-----------------------------------------------------------------------------
(* Numbers of the packages on the way.                                     *)

\* The first package leaves; a message may be popped with it or be done.
LEMMA FirstLeaves ==
    ASSUME NEW packages \in Seq(Wire), packages # <<>>,
           NEW at \in [1 .. Len(packages) -> Nat], NEW messages,
           NEW popped \in Int, NEW told \in Int, NEW done \in Int,
           InStep(at, packages, messages, popped, told, done),
           NEW popped2 \in Int, NEW done2 \in Int,
           popped2 = popped \/ (packages[1] = Success /\ popped2 = popped + 1),
           done2 = done \/ (packages[1] # Success /\ done2 = at[1])
    PROVE  \E at2 \in [1 .. Len(Tail(packages)) -> Nat] :
               InStep(at2, Tail(packages), messages, popped2, told, done2)
<1> DEFINE rest == Tail(packages)
           n    == Len(packages) - 1
           at2  == [i \in 1 .. n |-> at[i + 1]]
<1>1. /\ Len(packages) \in Nat /\ Len(packages) > 0 /\ Len(rest) = n /\ n \in Nat
      /\ \A i \in 1 .. n : i + 1 \in 1 .. Len(packages) /\ rest[i] = packages[i + 1]
                            /\ at2[i] = at[i + 1]
  OBVIOUS
<1>2. at2 \in [1 .. Len(rest) -> Nat]
  BY <1>1
<1> HIDE DEF rest, at2, n
<1>3. ASSUME NEW i \in 1 .. n
      PROVE  /\ rest[i] = Success =>
                    /\ at2[i] > popped2 /\ at2[i] <= told
                    /\ \A j \in 1 .. i - 1 : rest[j] = Success => at2[j] < at2[i]
             /\ rest[i] # Success =>
                    /\ at2[i] \in 1 .. Len(messages)
                    /\ rest[i] \in Parts(Numbered(messages, at2[i]))
                    /\ done2 < at2[i] + MaxUnacked
                    /\ \A j \in 1 .. i - 1 : rest[j] # Success => at2[j] < at2[i] + MaxUnacked
  <2>1. i + 1 \in 1 .. Len(packages) /\ rest[i] = packages[i + 1] /\ at2[i] = at[i + 1]
        /\ 1 \in 1 .. Len(packages) /\ 1 \in 1 .. (i + 1) - 1
    BY <1>1
  <2>2. \A j \in 1 .. i - 1 : j + 1 \in 1 .. (i + 1) - 1 /\ rest[j] = packages[j + 1]
                              /\ at2[j] = at[j + 1]
    BY <1>1
  <2>3. CASE rest[i] = Success
    <3>1. /\ at[i + 1] > popped /\ at[i + 1] <= told
          /\ \A j \in 1 .. (i + 1) - 1 : packages[j] = Success => at[j] < at[i + 1]
      BY <2>1, <2>3 DEF InStep
    <3>2. packages[1] = Success => at[1] > popped
      BY <2>1 DEF InStep
    <3>3. at[i + 1] > popped2
      BY <3>1, <3>2, <2>1
    <3> QED BY <2>1, <2>2, <2>3, <3>1, <3>3
  <2>4. CASE rest[i] # Success
    <3>1. /\ at[i + 1] \in 1 .. Len(messages)
          /\ packages[i + 1] \in Parts(Numbered(messages, at[i + 1]))
          /\ done < at[i + 1] + MaxUnacked
          /\ \A j \in 1 .. (i + 1) - 1 : packages[j] # Success => at[j] < at[i + 1] + MaxUnacked
      BY <2>1, <2>4 DEF InStep
    <3>2. done2 < at[i + 1] + MaxUnacked
      BY <3>1, <2>1
    <3> QED BY <2>1, <2>2, <2>4, <3>1, <3>2
  <2> QED BY <2>3, <2>4
<1>4. InStep(at2, rest, messages, popped2, told, done2)
  BY <1>1, <1>3 DEF InStep
<1> QED BY <1>2, <1>4 DEF rest

\* A SUCCESS follows, for one more message.
LEMMA SuccessFollows ==
    ASSUME NEW packages \in Seq(Wire), NEW at \in [1 .. Len(packages) -> Nat], NEW messages,
           NEW popped \in Int, NEW told \in Nat, NEW done \in Int, popped <= told,
           InStep(at, packages, messages, popped, told, done)
    PROVE  \E at2 \in [1 .. Len(Append(packages, Success)) -> Nat] :
               InStep(at2, Append(packages, Success), messages, popped, told + 1, done)
<1> DEFINE more == Append(packages, Success)
           n    == Len(packages)
           at2  == [i \in 1 .. n + 1 |-> IF i = n + 1 THEN told + 1 ELSE at[i]]
<1>1. /\ n \in Nat /\ Len(more) = n + 1 /\ more[n + 1] = Success /\ at2[n + 1] = told + 1
      /\ \A i \in 1 .. n : more[i] = packages[i] /\ at2[i] = at[i] /\ at[i] \in Nat
  OBVIOUS
<1>2. at2 \in [1 .. Len(more) -> Nat]
  BY <1>1
<1> HIDE DEF more, at2, n
<1>3. ASSUME NEW i \in 1 .. n + 1
      PROVE  /\ more[i] = Success =>
                    /\ at2[i] > popped /\ at2[i] <= told + 1
                    /\ \A j \in 1 .. i - 1 : more[j] = Success => at2[j] < at2[i]
             /\ more[i] # Success =>
                    /\ at2[i] \in 1 .. Len(messages)
                    /\ more[i] \in Parts(Numbered(messages, at2[i]))
                    /\ done < at2[i] + MaxUnacked
                    /\ \A j \in 1 .. i - 1 : more[j] # Success => at2[j] < at2[i] + MaxUnacked
  <2>1. CASE i = n + 1
    <3>1. \A j \in 1 .. n : packages[j] = Success => at[j] <= told
      BY DEF InStep, n
    <3> QED BY <1>1, <2>1, <3>1
  <2>2. CASE i # n + 1
    <3>1. i \in 1 .. n /\ \A j \in 1 .. i - 1 : j \in 1 .. n
      BY <1>1, <2>2
    <3>2. /\ packages[i] = Success =>
                 /\ at[i] > popped /\ at[i] <= told
                 /\ \A j \in 1 .. i - 1 : packages[j] = Success => at[j] < at[i]
          /\ packages[i] # Success =>
                 /\ at[i] \in 1 .. Len(messages)
                 /\ packages[i] \in Parts(Numbered(messages, at[i]))
                 /\ done < at[i] + MaxUnacked
                 /\ \A j \in 1 .. i - 1 : packages[j] # Success => at[j] < at[i] + MaxUnacked
      BY <3>1 DEF InStep, n
    <3>3. /\ more[i] = packages[i] /\ at2[i] = at[i] /\ at[i] \in Nat
          /\ \A j \in 1 .. i - 1 : more[j] = packages[j] /\ at2[j] = at[j]
      BY <1>1, <3>1
    <3> QED BY <3>2, <3>3
  <2> QED BY <2>1, <2>2
<1>4. InStep(at2, more, messages, popped, told + 1, done)
  BY <1>1, <1>3 DEF InStep
<1> QED BY <1>2, <1>4 DEF more

\* Packages follow of messages that are kept, at most MaxUnacked in number.
LEMMA PackagesFollow ==
    ASSUME NEW packages \in Seq(Wire), NEW at \in [1 .. Len(packages) -> Nat],
           NEW messages \in Seq(Messages), NEW popped \in Int, NEW told \in Int, NEW done \in Int,
           InStep(at, packages, messages, popped, told, done),
           NEW messages2 \in Seq(Messages), Len(messages) <= Len(messages2), done <= Len(messages2),
           \A j \in 1 .. Len(messages) : messages2[j] = messages[j],
           NEW more \in Seq(Wire),
           \A k \in 1 .. Len(more) : \E j \in 1 .. Len(messages2) :
               more[k] \in Parts(Numbered(messages2, j)) /\ Len(messages2) < j + MaxUnacked
    PROVE  \E at2 \in [1 .. Len(packages \o more) -> Nat] :
               InStep(at2, packages \o more, messages2, popped, told, done)
<1> DEFINE all == packages \o more
           n   == Len(packages)
           new == [k \in 1 .. Len(more) |-> CHOOSE j \in 1 .. Len(messages2) :
                       more[k] \in Parts(Numbered(messages2, j)) /\ Len(messages2) < j + MaxUnacked]
           at2 == [i \in 1 .. n + Len(more) |-> IF i <= n THEN at[i] ELSE new[i - n]]
<1>1. \A k \in 1 .. Len(more) :
          /\ new[k] \in 1 .. Len(messages2) /\ more[k] \in Parts(Numbered(messages2, new[k]))
          /\ Len(messages2) < new[k] + MaxUnacked /\ more[k] # Success
  <2>1. ASSUME NEW k \in 1 .. Len(more)
        PROVE  /\ new[k] \in 1 .. Len(messages2) /\ more[k] \in Parts(Numbered(messages2, new[k]))
               /\ Len(messages2) < new[k] + MaxUnacked
    <3>1. \E j \in 1 .. Len(messages2) :
               more[k] \in Parts(Numbered(messages2, j)) /\ Len(messages2) < j + MaxUnacked
      OBVIOUS
    <3> QED BY <3>1
  <2>2. ASSUME NEW k \in 1 .. Len(more), NEW entry, more[k] \in Parts(entry)
        PROVE  more[k] # Success
    BY <2>2 DEF Parts, Part, Success
  <2> QED BY <2>1, <2>2
<1> HIDE DEF new
<1>2. /\ n \in Nat /\ Len(more) \in Nat /\ Len(all) = n + Len(more)
      /\ \A i \in 1 .. n : all[i] = packages[i] /\ at2[i] = at[i] /\ at[i] \in Nat
      /\ \A i \in 1 .. Len(all) : i > n =>
             /\ i - n \in 1 .. Len(more) /\ all[i] = more[i - n] /\ at2[i] = new[i - n]
  OBVIOUS
<1>3. at2 \in [1 .. Len(all) -> Nat]
  BY <1>1, <1>2
<1> HIDE DEF all, at2, n
<1>4. ASSUME NEW i \in 1 .. n
      PROVE  /\ packages[i] = Success =>
                    /\ at[i] > popped /\ at[i] <= told
                    /\ \A j \in 1 .. i - 1 : packages[j] = Success => at[j] < at[i]
             /\ packages[i] # Success =>
                    /\ at[i] \in 1 .. Len(messages)
                    /\ packages[i] \in Parts(Numbered(messages2, at[i]))
                    /\ done < at[i] + MaxUnacked
                    /\ \A j \in 1 .. i - 1 : packages[j] # Success => at[j] < at[i] + MaxUnacked
  BY DEF InStep, Numbered, n
<1>5. ASSUME NEW i \in 1 .. Len(all)
      PROVE  /\ all[i] = Success =>
                    /\ at2[i] > popped /\ at2[i] <= told
                    /\ \A j \in 1 .. i - 1 : all[j] = Success => at2[j] < at2[i]
             /\ all[i] # Success =>
                    /\ at2[i] \in 1 .. Len(messages2)
                    /\ all[i] \in Parts(Numbered(messages2, at2[i]))
                    /\ done < at2[i] + MaxUnacked
                    /\ \A j \in 1 .. i - 1 : all[j] # Success => at2[j] < at2[i] + MaxUnacked
  <2>0. Len(messages) \in Nat /\ Len(messages2) \in Nat /\ MaxUnacked \in Nat
    BY Constants
  <2>1. CASE i <= n
    <3>1. i \in 1 .. n /\ \A j \in 1 .. i - 1 : j \in 1 .. n
      BY <1>2, <2>1
    <3>2. /\ all[i] = packages[i] /\ at2[i] = at[i] /\ at[i] \in Nat
          /\ \A j \in 1 .. i - 1 : all[j] = packages[j] /\ at2[j] = at[j]
      BY <1>2, <3>1
    <3>3. at[i] \in 1 .. Len(messages) => at[i] \in 1 .. Len(messages2)
      BY <2>0
    <3> QED BY <1>4, <3>1, <3>2, <3>3
  <2>2. CASE i > n
    <3>1. all[i] # Success /\ at2[i] \in 1 .. Len(messages2)
          /\ all[i] \in Parts(Numbered(messages2, at2[i])) /\ Len(messages2) < at2[i] + MaxUnacked
      BY <1>1, <1>2, <2>2
    <3>0. Len(all) \in Nat /\ \A j \in 1 .. i - 1 : j \in 1 .. Len(all)
      BY <1>2
    <3>2. ASSUME NEW j \in 1 .. i - 1, all[j] # Success PROVE at2[j] <= Len(messages2)
      <4>0. j \in 1 .. Len(all) BY <3>0
      <4>1. CASE j <= n
        <5>1. j \in 1 .. n BY <1>2, <4>0, <4>1
        <5>2. all[j] = packages[j] /\ at2[j] = at[j] BY <5>1, <1>2
        <5>3. at[j] \in 1 .. Len(messages) BY <1>4, <3>2, <5>1, <5>2
        <5> QED BY <2>0, <5>2, <5>3
      <4>2. CASE j > n
        <5>1. j - n \in 1 .. Len(more) /\ at2[j] = new[j - n] BY <1>2, <4>0, <4>2
        <5>2. new[j - n] \in 1 .. Len(messages2) BY <1>1, <5>1
        <5> QED BY <2>0, <5>1, <5>2
      <4> QED BY <1>2, <4>0, <4>1, <4>2
    <3>3. \A j \in 1 .. i - 1 : at2[j] \in Nat
      BY <3>0, <1>3
    <3> QED BY <2>0, <3>1, <3>2, <3>3
  <2> QED BY <1>2, <2>1, <2>2
<1>6. InStep(at2, all, messages2, popped, told, done)
  BY <1>5 DEF InStep
<1> QED BY <1>3, <1>6 DEF all
-----------------------------------------------------------------------------
(* Steps.                                                                  *)

\* The types of what InOrder counts.
LEMMA Counters ==
    ASSUME TypeInv, NEW e \in Ends
    PROVE  /\ Done(e) \in Int /\ Popped(e) \in Int
           /\ Len(sent[e]) \in Nat /\ Len(received[e]) \in Nat
           /\ Len(socket[e].send_buffer) \in Nat
           /\ network[e] \in Seq(Wire) /\ sent[e] \in Seq(Messages)
           /\ socket[e].send_buffer \in Seq(Entry) /\ socket[e].expected_number \in Nat
<1>1. /\ sent[e] \in Seq(Messages) /\ received[e] \in Seq(Seq(Piece))
      /\ network[e] \in Seq(Wire) /\ socket[e] \in Socket
  BY DEF TypeInv
<1>2. socket[e].send_buffer \in Seq(Entry) /\ socket[e].expected_number \in Nat
  <2>1. socket[e].send_buffer \in Entries /\ socket[e].expected_number \in Numbers
    BY <1>1, SocketFields
  <2>2. socket[e].expected_number \in Nat BY <2>1 DEF Numbers
  <2> QED BY <2>1, <2>2 DEF Entries
<1> QED BY <1>1, <1>2 DEF Done, Popped

\* A network that loses at most hands out what comes first.
LEMMA FirstArrives ==
    ASSUME TypeInv, Reliable, NEW e \in Ends, NEW i \in Arrivals(e)
    PROVE  /\ i = 1 /\ network[e] # <<>> /\ network[e][1] \in Wire
           /\ RemoveAt(network[e], i) = Tail(network[e])
           /\ Leaves(e, i) => network' = [network EXCEPT ![e] = Tail(network[e])]
<1>1. network[e] \in Seq(Wire) BY DEF TypeInv
<1>2. i = 1 /\ 1 \in 1 .. Len(network[e]) BY <1>1 DEF Arrivals, Reliable
<1>3. network[e] # <<>> /\ network[e][1] \in Wire BY <1>1, <1>2
<1>4. RemoveAt(network[e], 1) = Tail(network[e])
  <2>1. SubSeq(network[e], 1, 1 - 1) = <<>> BY <1>1, SubSeqEmpty
  <2>2. SubSeq(network[e], 1 + 1, Len(network[e])) = Tail(network[e])
    BY <1>1, <1>3, TailIsSubSeq
  <2>3. Tail(network[e]) \in Seq(Wire) BY <1>1, <1>3
  <2> QED BY <2>1, <2>2, <2>3, ConcatEmptySeq DEF RemoveAt
<1> QED BY <1>2, <1>3, <1>4 DEF Leaves, Reliable

\* A receiver stays in order when its fields stay and the other end at most sends more.
LEMMA ReceiverKept ==
    ASSUME TypeInv, NEW e \in Ends, Receiving(e), received'[e] = received[e],
           socket'[e].expected_id = socket[e].expected_id,
           socket'[e].expected_number = socket[e].expected_number,
           socket'[e].expected_numbers = socket[e].expected_numbers,
           socket'[e].buffer = socket[e].buffer,
           Len(sent'[peer(e)]) \in Nat, Len(sent[peer(e)]) <= Len(sent'[peer(e)]),
           \A j \in 1 .. Len(sent[peer(e)]) : sent'[peer(e)][j] = sent[peer(e)][j]
    PROVE  Receiving(e)' /\ Done(e)' = Done(e)
<1>1. Done(e)' = Done(e) BY DEF Done
<1>2. Done(e) \in 0 .. Len(sent[peer(e)]) /\ Len(sent[peer(e)]) \in Nat
  BY Counters, PeerFacts DEF Receiving
<1>3. Done(e) \in 0 .. Len(sent'[peer(e)]) BY <1>2
<1>4. \A j \in 1 .. Done(e) : sent'[peer(e)][j] = sent[peer(e)][j] BY <1>2
<1>5. ASSUME Done(e) < Len(sent[peer(e)])
      PROVE  sent'[peer(e)][Done(e) + 1] = sent[peer(e)][Done(e) + 1] /\ Done(e) < Len(sent'[peer(e)])
  <2>1. Done(e) + 1 \in 1 .. Len(sent[peer(e)]) BY <1>2, <1>5
  <2> QED BY <1>2, <1>5, <2>1
<1> DEFINE m == sent[peer(e)][Done(e) + 1]
<1>6. \A j \in 1 .. Done(e)' : received'[e][j] = Whole(sent'[peer(e)][j])
  BY <1>1, <1>4 DEF Receiving
<1>7. ASSUME socket'[e].expected_number > 0
      PROVE  /\ Done(e)' < Len(sent'[peer(e)]) /\ sent'[peer(e)][Done(e)' + 1] = m
             /\ socket'[e].expected_numbers = m.packages /\ socket'[e].expected_number < m.packages
             /\ IF m.full /\ socket'[e].expected_number = m.packages - 1
                THEN socket'[e].buffer = <<>> /\ received'[e][Done(e)' + 1] = Whole(m)
                ELSE socket'[e].buffer = [n \in 1 .. socket'[e].expected_number |->
                                             [message |-> m, number |-> n - 1]]
  <2>1. /\ Done(e) < Len(sent[peer(e)])
        /\ socket[e].expected_numbers = m.packages /\ socket[e].expected_number < m.packages
        /\ IF m.full /\ socket[e].expected_number = m.packages - 1
           THEN socket[e].buffer = <<>> /\ received[e][Done(e) + 1] = Whole(m)
           ELSE socket[e].buffer = [n \in 1 .. socket[e].expected_number |->
                                       [message |-> m, number |-> n - 1]]
    BY <1>7 DEF Receiving
  <2>2. Done(e)' < Len(sent'[peer(e)]) /\ sent'[peer(e)][Done(e)' + 1] = m
    BY <2>1, <1>1, <1>5
  <2> HIDE DEF m
  <2> QED BY <2>1, <2>2, <1>1
<1> HIDE DEF m
<1> QED BY <1>1, <1>3, <1>6, <1>7 DEF Receiving

\* A sender stays in order when its fields stay and more of its messages are done.
LEMMA SenderKept ==
    ASSUME TypeInv, NEW e \in Ends, Sending(e), sent'[e] = sent[e],
           socket'[e].package_id = socket[e].package_id,
           socket'[e].send_buffer = socket[e].send_buffer,
           Done(peer(e))' \in Int, Done(peer(e))' >= Done(peer(e))
    PROVE  Sending(e)' /\ Popped(e)' = Popped(e)
<1>1. Popped(e)' = Popped(e) BY DEF Popped
<1>2. Popped(e) \in 0 .. Done(peer(e))' BY Counters, PeerFacts DEF Sending
<1> QED BY <1>1, <1>2 DEF Sending

\* What is on the way stays in step when nothing it refers to changes.
LEMMA WayKept ==
    ASSUME NEW e \in Ends, OnTheWay(e), network'[e] = network[e],
           sent'[peer(e)] = sent[peer(e)], Popped(e)' = Popped(e),
           Done(peer(e))' = Done(peer(e)), Done(e)' = Done(e)
    PROVE  OnTheWay(e)'
BY DEF OnTheWay

\* So it does when the first package leaves and nothing else changes.
LEMMA WayShorter ==
    ASSUME TypeInv, NEW e \in Ends, OnTheWay(e), network[e] # <<>>,
           network'[e] = Tail(network[e]),
           sent'[peer(e)] = sent[peer(e)], Popped(e)' = Popped(e),
           Done(peer(e))' = Done(peer(e)), Done(e)' = Done(e)
    PROVE  OnTheWay(e)'
<1>1. PICK at \in [1 .. Len(network[e]) -> Nat] :
          InStep(at, network[e], sent[peer(e)], Popped(e), Done(peer(e)), Done(e))
  BY DEF OnTheWay
<1>2. \E at2 \in [1 .. Len(Tail(network[e])) -> Nat] :
          InStep(at2, Tail(network[e]), sent[peer(e)], Popped(e), Done(peer(e)), Done(e))
  BY <1>1, FirstLeaves, Counters, PeerFacts
<1> QED BY <1>2 DEF OnTheWay

\* InOrder is kept when a package is lost or ignored.
LEMMA PackageLeaves ==
    ASSUME TypeInv, InOrder, NEW e \in Ends, network[e] # <<>>,
           network' = [network EXCEPT ![e] = Tail(network[e])],
           UNCHANGED <<socket, sent, received>>
    PROVE  InOrder'
<1>0. network \in [Ends -> Seq(Wire)] BY DEF TypeInv
<1>1. \A x \in Ends : Done(x)' = Done(x) /\ Popped(x)' = Popped(x)
  BY DEF Done, Popped
<1>2. ASSUME NEW x \in Ends PROVE Sending(x)' /\ Receiving(x)'
  BY DEF InOrder, Sending, Receiving, Done, Popped
<1>3. ASSUME NEW x \in Ends PROVE OnTheWay(x)'
  <2>1. OnTheWay(x) BY DEF InOrder
  <2>2. CASE x = e
    <3>1. network'[x] = Tail(network[x]) /\ network[x] # <<>> BY <1>0, <2>2
    <3> QED BY <1>1, <2>1, <3>1, WayShorter, PeerFacts
  <2>3. CASE x # e
    <3>1. network'[x] = network[x] BY <1>0, <2>3
    <3> QED BY <1>1, <2>1, <3>1, WayKept, PeerFacts
  <2> QED BY <2>2, <2>3
<1> QED BY <1>2, <1>3 DEF InOrder

\* InOrder is kept by a SUCCESS that is taken: it is for the first message kept, as
\* those on the way are in ascending order and for messages still kept.
LEMMA Acknowledged ==
    ASSUME TypeInv, Reliable, InOrder, NEW e \in Ends, acknowledged(e)
    PROVE  InOrder'
<1> DEFINE buffered == socket[e].send_buffer
           left     == pop_front(buffered)
           time     == IF buffered = <<>> THEN socket[e].retry_timeout ELSE 0
<1>1. /\ network[e] # <<>> /\ network[e][1] = Success
      /\ network' = [network EXCEPT ![e] = Tail(network[e])]
  <2>1. PICK i \in Arrivals(e) : network[e][i] = Success /\ Leaves(e, i)
    BY DEF acknowledged
  <2> QED BY <2>1, FirstArrives
<1>2. /\ socket' = [socket EXCEPT ![e] = [socket[e] EXCEPT !.send_buffer = left,
                                                         !.retry_timeout = time]]
      /\ sent' = sent /\ received' = received
  BY DEF acknowledged, TypeInv
<1> HIDE DEF time
<1>t. /\ socket \in [Ends -> Socket] /\ network \in [Ends -> Seq(Wire)]
  BY DEF TypeInv
<1>3. PICK at \in [1 .. Len(network[e]) -> Nat] :
          InStep(at, network[e], sent[peer(e)], Popped(e), Done(peer(e)), Done(e))
  BY DEF OnTheWay, InOrder
<1>4. at[1] > Popped(e) /\ at[1] <= Done(peer(e)) /\ at[1] \in Nat
  <2>1. 1 \in 1 .. Len(network[e]) BY <1>1, Counters
  <2> QED BY <1>1, <1>3, <2>1 DEF InStep
<1>5. Done(peer(e)) \in 0 .. Len(sent[e])
  BY PeerFacts DEF InOrder, Receiving
<1>6. Popped(e) + 1 <= Done(peer(e)) /\ Popped(e) < Len(sent[e]) /\ buffered # <<>>
  <2>1. Popped(e) < Len(sent[e]) /\ Popped(e) + 1 <= Done(peer(e))
    BY <1>4, <1>5, Counters, PeerFacts
  <2>2. Len(buffered) \in Nat /\ Len(sent[e]) \in Nat BY Counters
  <2>3. Popped(e) = Len(sent[e]) - Len(buffered) BY DEF Popped
  <2>4. Len(buffered) # 0
    <3> HIDE DEF buffered
    <3> QED BY <2>1, <2>2, <2>3
  <2> QED BY <2>1, <2>4
<1>7. left = Tail(buffered) /\ Len(left) = Len(buffered) - 1
      /\ \A i \in 1 .. Len(left) : left[i] = buffered[i + 1] /\ i + 1 \in 1 .. Len(buffered)
  BY <1>6, Counters DEF pop_front
<1> HIDE DEF left
<1>8. /\ socket'[e].send_buffer = left /\ socket'[e].package_id = socket[e].package_id
      /\ socket'[peer(e)] = socket[peer(e)]
      /\ \A x \in Ends : /\ socket'[x].expected_number = socket[x].expected_number
                         /\ socket'[x].expected_numbers = socket[x].expected_numbers
                         /\ socket'[x].expected_id = socket[x].expected_id
                         /\ socket'[x].buffer = socket[x].buffer
  <2>1. socket'[e] = [socket[e] EXCEPT !.send_buffer = left, !.retry_timeout = time]
    BY <1>2, <1>t
  <2>2. \A x \in Ends : x # e => socket'[x] = socket[x] BY <1>2, <1>t
  <2>3. socket[e] \in Socket BY <1>t
  <2>4. /\ socket'[e].send_buffer = left /\ socket'[e].package_id = socket[e].package_id
        /\ socket'[e].expected_number = socket[e].expected_number
        /\ socket'[e].expected_numbers = socket[e].expected_numbers
        /\ socket'[e].expected_id = socket[e].expected_id
        /\ socket'[e].buffer = socket[e].buffer
    BY <2>1, <2>3, SocketFields
  <2> QED BY <2>2, <2>4, PeerFacts
<1>9. \A x \in Ends : Done(x)' = Done(x) BY <1>2, <1>8 DEF Done
<1>10. Popped(e)' = Popped(e) + 1
  <2>1. Len(left) = Len(buffered) - 1 /\ Len(buffered) \in Nat /\ Len(sent[e]) \in Nat
    BY <1>7, Counters
  <2>2. Popped(e)' = Len(sent[e]) - Len(left) /\ Popped(e) = Len(sent[e]) - Len(buffered)
    BY <1>2, <1>8 DEF Popped
  <2> QED BY <2>1, <2>2
<1>11. Popped(peer(e))' = Popped(peer(e)) BY <1>2, <1>8 DEF Popped
<1>12. ASSUME NEW x \in Ends PROVE Receiving(x)'
  <2>1. Len(sent'[peer(x)]) \in Nat /\ sent' = sent BY <1>2, Counters, PeerFacts
  <2> QED BY <1>2, <1>8, <2>1, ReceiverKept DEF InOrder
<1>13. Sending(e)'
  <2>1. Sending(e) BY DEF InOrder
  <2>2. Popped(e)' \in 0 .. Done(peer(e))'
    BY <1>6, <1>9, <1>10, <2>1, Counters, PeerFacts DEF Sending
  <2>3. Len(left) <= MaxUnacked BY <1>7, <2>1, Counters, Constants DEF Sending
  <2>4. ASSUME NEW i \in 1 .. Len(left) PROVE left[i] = Numbered(sent[e], Popped(e)' + i)
    <3>1. left[i] = Numbered(sent[e], Popped(e) + (i + 1))
      BY <1>7, <2>1 DEF Sending
    <3>2. Popped(e)' + i = Popped(e) + (i + 1) BY <1>10, <1>7, Counters
    <3> QED BY <3>1, <3>2
  <2> QED BY <1>2, <1>8, <2>1, <2>2, <2>3, <2>4 DEF Sending
<1>14. Sending(peer(e))'
  <2>1. Sending(peer(e)) /\ Done(peer(peer(e)))' = Done(peer(peer(e))) /\ Done(peer(peer(e))) \in Int
    BY <1>9, Counters, PeerFacts DEF InOrder
  <2> QED BY <1>2, <1>8, <2>1, SenderKept, PeerFacts
<1>15. OnTheWay(e)'
  <2>1. \E at2 \in [1 .. Len(Tail(network[e])) -> Nat] :
            InStep(at2, Tail(network[e]), sent[peer(e)], Popped(e) + 1, Done(peer(e)), Done(e))
    <3>1. /\ network[e] \in Seq(Wire) /\ Popped(e) \in Int /\ Popped(e) + 1 \in Int
          /\ Done(peer(e)) \in Int /\ Done(e) \in Int
      BY Counters, PeerFacts
    <3> QED BY <1>1, <1>3, <3>1, FirstLeaves
  <2>2. network'[e] = Tail(network[e]) BY <1>1, <1>t
  <2> QED BY <1>2, <1>9, <1>10, <2>1, <2>2, PeerFacts DEF OnTheWay
<1>16. OnTheWay(peer(e))'
  <2>1. network'[peer(e)] = network[peer(e)] BY <1>1, <1>t, PeerFacts
  <2> QED BY <1>2, <1>9, <1>11, <2>1, WayKept, PeerFacts DEF InOrder
<1>17. \A x \in Ends : x = e \/ x = peer(e) BY DEF Ends, peer
<1> QED BY <1>12, <1>13, <1>14, <1>15, <1>16, <1>17 DEF InOrder

\* What is on the way stays in step when packages of messages follow that are kept.
LEMMA WayLonger ==
    ASSUME TypeInv, NEW e \in Ends, OnTheWay(e), Receiving(e),
           NEW more \in Seq(Wire), network'[e] = network[e] \o more,
           sent'[peer(e)] \in Seq(Messages), Len(sent[peer(e)]) <= Len(sent'[peer(e)]),
           \A j \in 1 .. Len(sent[peer(e)]) : sent'[peer(e)][j] = sent[peer(e)][j],
           Popped(e)' = Popped(e), Done(peer(e))' = Done(peer(e)), Done(e)' = Done(e),
           \A k \in 1 .. Len(more) : \E j \in 1 .. Len(sent'[peer(e)]) :
               /\ more[k] \in Parts(Numbered(sent'[peer(e)], j))
               /\ Len(sent'[peer(e)]) < j + MaxUnacked
    PROVE  OnTheWay(e)'
<1> DEFINE messages == sent[peer(e)]
           messages2 == sent'[peer(e)]
<1>1. PICK at \in [1 .. Len(network[e]) -> Nat] :
          InStep(at, network[e], messages, Popped(e), Done(peer(e)), Done(e))
  BY DEF OnTheWay
<1>2. /\ network[e] \in Seq(Wire) /\ Popped(e) \in Int /\ Done(peer(e)) \in Int
      /\ Done(e) \in Int /\ messages \in Seq(Messages) /\ messages2 \in Seq(Messages)
      /\ Len(messages) \in Nat /\ Len(messages2) \in Nat
  BY Counters, PeerFacts
<1>3. Done(e) <= Len(messages)
  BY <1>2 DEF Receiving
<1>4. Done(e) <= Len(messages2) BY <1>2, <1>3
<1>5. \E at2 \in [1 .. Len(network[e] \o more) -> Nat] :
          InStep(at2, network[e] \o more, messages2, Popped(e), Done(peer(e)), Done(e))
  <2> HIDE DEF messages, messages2
  <2>1. /\ Len(messages) <= Len(messages2)
        /\ \A j \in 1 .. Len(messages) : messages2[j] = messages[j]
        /\ \A k \in 1 .. Len(more) : \E j \in 1 .. Len(messages2) :
               more[k] \in Parts(Numbered(messages2, j)) /\ Len(messages2) < j + MaxUnacked
    BY DEF messages, messages2
  <2> QED BY <1>1, <1>2, <1>4, <2>1, PackagesFollow
<1> QED BY <1>5 DEF OnTheWay

\* InOrder is kept when a timer advances.
LEMMA Waited ==
    ASSUME TypeInv, InOrder, NEW e \in Ends, wait(e)
    PROVE  InOrder'
<1>1. /\ socket' = [socket EXCEPT ![e] = [socket[e] EXCEPT !.retry_timeout = @ + 1]]
      /\ UNCHANGED <<network, sent, received>> /\ socket \in [Ends -> Socket]
  BY DEF wait, TypeInv
<1>2. \A x \in Ends :
          /\ socket'[x].send_buffer = socket[x].send_buffer
          /\ socket'[x].package_id = socket[x].package_id
          /\ socket'[x].expected_number = socket[x].expected_number
          /\ socket'[x].expected_numbers = socket[x].expected_numbers
          /\ socket'[x].expected_id = socket[x].expected_id
          /\ socket'[x].buffer = socket[x].buffer
  <2>1. socket'[e] = [socket[e] EXCEPT !.retry_timeout = @ + 1] /\ socket[e] \in Socket
    BY <1>1
  <2>2. \A x \in Ends : x # e => socket'[x] = socket[x] BY <1>1
  <2> QED BY <2>1, <2>2, SocketFields
<1>3. \A x \in Ends : Done(x)' = Done(x) /\ Popped(x)' = Popped(x)
  BY <1>1, <1>2 DEF Done, Popped
<1>4. ASSUME NEW x \in Ends PROVE Sending(x)' /\ Receiving(x)' /\ OnTheWay(x)'
  <2>1. Sending(x) /\ Receiving(x) /\ OnTheWay(x) BY DEF InOrder
  <2>2. Len(sent'[peer(x)]) \in Nat /\ Done(peer(x)) \in Int BY <1>1, Counters, PeerFacts
  <2>3. Sending(x)' BY <1>1, <1>2, <1>3, <2>1, <2>2, SenderKept, PeerFacts
  <2>4. Receiving(x)' BY <1>1, <1>2, <2>1, <2>2, ReceiverKept, PeerFacts
  <2>5. OnTheWay(x)' BY <1>1, <1>3, <2>1, WayKept, PeerFacts
  <2> QED BY <2>3, <2>4, <2>5
<1> QED BY <1>4 DEF InOrder

(* What is repeated are packages of the messages that are kept.            *)
LEMMA ResentParts ==
    ASSUME TypeInv, InOrder, NEW e \in Ends
    PROVE  \A k \in 1 .. Len(Resend(e)) : \E j \in 1 .. Len(sent[e]) :
               /\ Resend(e)[k] \in Parts(Numbered(sent[e], j))
               /\ Len(sent[e]) < j + MaxUnacked
<1> DEFINE buffered == socket[e].send_buffer
           kept == UNION {Parts(buffered[i]) : i \in 1 .. Len(buffered)}
           all == [i \in DOMAIN buffered |-> Packages(buffered[i])]
<1>1. buffered \in Seq(Entry) /\ Len(buffered) \in Nat /\ Len(sent[e]) \in Nat BY Counters
<1>2. ASSUME NEW i \in 1 .. Len(buffered) PROVE Packages(buffered[i]) \in Seq(kept)
  <2>1. Packages(buffered[i]) \in Seq(Parts(buffered[i])) BY <1>1, PackagesType
  <2>2. Parts(buffered[i]) \subseteq kept OBVIOUS
  <2> HIDE DEF kept
  <2> QED BY <2>1, <2>2, SeqMonotonic
<1>3. all \in Seq(Seq(kept))
  <2> HIDE DEF kept
  <2>1. DOMAIN buffered = 1 .. Len(buffered) BY <1>1
  <2> QED BY <1>1, <1>2, <2>1
<1>4. Resend(e) \in Seq(kept) BY <1>3, Flattened DEF Resend
<1>5. ASSUME NEW k \in 1 .. Len(Resend(e))
      PROVE  \E j \in 1 .. Len(sent[e]) : /\ Resend(e)[k] \in Parts(Numbered(sent[e], j))
                                          /\ Len(sent[e]) < j + MaxUnacked
  <2>1. Resend(e)[k] \in kept
    <3> HIDE DEF kept
    <3> QED BY <1>4
  <2>2. PICK i \in 1 .. Len(buffered) : Resend(e)[k] \in Parts(buffered[i]) BY <2>1
  <2>3. buffered[i] = Numbered(sent[e], Popped(e) + i) /\ Len(buffered) <= MaxUnacked
        /\ Popped(e) \in 0 .. Done(peer(e))
    BY DEF InOrder, Sending
  <2>4. Popped(e) = Len(sent[e]) - Len(buffered) /\ Popped(e) \in Nat
    BY <2>3, Counters, PeerFacts DEF Popped
  <2>5. Popped(e) + i \in 1 .. Len(sent[e]) /\ Len(sent[e]) < (Popped(e) + i) + MaxUnacked
    <3> HIDE DEF buffered
    <3> QED BY <1>1, <2>3, <2>4, Constants
  <2> QED BY <2>2, <2>3, <2>5
<1> QED BY <1>5

\* InOrder is kept when everything unacknowledged is repeated.
LEMMA Retried ==
    ASSUME TypeInv, InOrder, NEW e \in Ends, retry(e)
    PROVE  InOrder'
<1> DEFINE r == peer(e)
<1>1. /\ socket' = [socket EXCEPT ![e] = [socket[e] EXCEPT !.retry_timeout = 0]]
      /\ UNCHANGED <<sent, received>> /\ socket \in [Ends -> Socket]
      /\ network' = [network EXCEPT ![r] = network[r] \o Resend(e)]
      /\ network \in [Ends -> Seq(Wire)]
  BY DEF retry, raw_send, TypeInv
<1>2. \A x \in Ends :
          /\ socket'[x].send_buffer = socket[x].send_buffer
          /\ socket'[x].package_id = socket[x].package_id
          /\ socket'[x].expected_number = socket[x].expected_number
          /\ socket'[x].expected_numbers = socket[x].expected_numbers
          /\ socket'[x].expected_id = socket[x].expected_id
          /\ socket'[x].buffer = socket[x].buffer
  <2>1. socket'[e] = [socket[e] EXCEPT !.retry_timeout = 0] /\ socket[e] \in Socket
    BY <1>1
  <2>2. \A x \in Ends : x # e => socket'[x] = socket[x] BY <1>1
  <2> QED BY <2>1, <2>2, SocketFields
<1>3. \A x \in Ends : Done(x)' = Done(x) /\ Popped(x)' = Popped(x)
  BY <1>1, <1>2 DEF Done, Popped
<1>4. ASSUME NEW x \in Ends PROVE Sending(x)' /\ Receiving(x)'
  <2>1. Sending(x) /\ Receiving(x) BY DEF InOrder
  <2>2. Len(sent'[peer(x)]) \in Nat /\ Done(peer(x)) \in Int BY <1>1, Counters, PeerFacts
  <2>3. Sending(x)' BY <1>1, <1>2, <1>3, <2>1, <2>2, SenderKept, PeerFacts
  <2>4. Receiving(x)' BY <1>1, <1>2, <2>1, <2>2, ReceiverKept, PeerFacts
  <2> QED BY <2>3, <2>4
<1>5. r \in Ends /\ peer(r) = e BY PeerFacts
<1>6. OnTheWay(r)'
  <2>1. OnTheWay(r) /\ Receiving(r) BY <1>5 DEF InOrder
  <2>2. network'[r] = network[r] \o Resend(e) BY <1>1, <1>5
  <2>3. sent' = sent /\ sent[peer(r)] \in Seq(Messages) /\ Len(sent[peer(r)]) \in Nat
    BY <1>1, <1>5, Counters
  <2>4. Popped(r)' = Popped(r) /\ Done(peer(r))' = Done(peer(r)) /\ Done(r)' = Done(r)
    BY <1>3, <1>5
  <2>5. \A k \in 1 .. Len(Resend(e)) : \E j \in 1 .. Len(sent'[peer(r)]) :
            /\ Resend(e)[k] \in Parts(Numbered(sent'[peer(r)], j))
            /\ Len(sent'[peer(r)]) < j + MaxUnacked
    BY <1>5, <2>3, ResentParts
  <2>6. Resend(e) \in Seq(Wire) BY ResendType
  <2>7. /\ sent'[peer(r)] \in Seq(Messages) /\ Len(sent[peer(r)]) <= Len(sent'[peer(r)])
        /\ \A j \in 1 .. Len(sent[peer(r)]) : sent'[peer(r)][j] = sent[peer(r)][j]
    BY <2>3
  <2> HIDE DEF r
  <2> QED BY <1>5, <2>1, <2>2, <2>4, <2>5, <2>6, <2>7, WayLonger
<1>7. OnTheWay(e)'
  <2>1. network'[e] = network[e] BY <1>1, PeerFacts
  <2> QED BY <1>1, <1>3, <2>1, WayKept, PeerFacts DEF InOrder
<1>8. \A x \in Ends : x = e \/ x = r BY DEF Ends, peer
<1> QED BY <1>4, <1>6, <1>7, <1>8 DEF InOrder

\* InOrder is kept when a message is sent: it is the newest of at most MaxUnacked.
LEMMA BufferedSent ==
    ASSUME TypeInv, InOrder, NEW e \in Ends, NEW m \in Messages, buffered_send(e, m)
    PROVE  InOrder'
<1> DEFINE r        == peer(e)
           n        == Len(sent[e])
           buffered == socket[e].send_buffer
           entry    == [id |-> socket[e].package_id, message |-> m]
           id       == (socket[e].package_id + 1) % ID_MODULUS
           more     == Append(buffered, entry)
           messages == Append(sent[e], m)
<1>0. Sending(e) /\ Popped(e) \in 0 .. Done(r) BY DEF InOrder, Sending
<1>1. /\ socket' = [socket EXCEPT ![e] = [socket[e] EXCEPT !.package_id = id, !.send_buffer = more]]
      /\ sent' = [sent EXCEPT ![e] = messages] /\ received' = received
      /\ network' = [network EXCEPT ![r] = network[r] \o Packages(entry)]
      /\ Len(buffered) < MaxUnacked
      /\ socket \in [Ends -> Socket] /\ network \in [Ends -> Seq(Wire)]
      /\ sent \in [Ends -> Seq(Messages)]
  BY DEF buffered_send, raw_send, TypeInv
<1>2. /\ r \in Ends /\ r # e /\ peer(r) = e /\ n \in Nat /\ Len(buffered) \in Nat
      /\ sent[e] \in Seq(Messages) /\ buffered \in Seq(Entry) /\ entry \in Entry
      /\ MaxUnacked \in Nat /\ Done(r) \in Int
  <2>1. socket[e].package_id \in Identifiers BY <1>1, SocketFields
  <2>2. entry \in Entry BY <2>1 DEF Entry, Identifiers
  <2> QED BY <2>2, Counters, PeerFacts, Constants
<1>3. /\ Len(messages) = n + 1 /\ messages[n + 1] = m /\ messages \in Seq(Messages)
      /\ \A j \in 1 .. n : messages[j] = sent[e][j]
  BY <1>2
<1>4. /\ Len(more) = Len(buffered) + 1 /\ more[Len(buffered) + 1] = entry
      /\ \A i \in 1 .. Len(buffered) : more[i] = buffered[i]
  BY <1>2
<1>5. entry = Numbered(messages, n + 1) /\ id = (n + 1) % ID_MODULUS
  <2>1. socket[e].package_id = n % ID_MODULUS BY <1>0 DEF Sending
  <2>2. ((n % ID_MODULUS) + 1) % ID_MODULUS = (n + 1) % ID_MODULUS
    BY <1>2, Constants, NextRemainder
  <2>3. (n + 1) - 1 = n BY <1>2
  <2> QED BY <1>3, <2>1, <2>2, <2>3 DEF Numbered
<1> HIDE DEF messages, more, id, entry
<1>6. /\ socket'[e].send_buffer = more /\ socket'[e].package_id = id
      /\ \A x \in Ends :
            /\ x # e => socket'[x] = socket[x]
            /\ socket'[x].expected_number = socket[x].expected_number
            /\ socket'[x].expected_numbers = socket[x].expected_numbers
            /\ socket'[x].expected_id = socket[x].expected_id
            /\ socket'[x].buffer = socket[x].buffer
  <2>1. socket'[e] = [socket[e] EXCEPT !.package_id = id, !.send_buffer = more]
        /\ socket[e] \in Socket
    BY <1>1
  <2>2. \A x \in Ends : x # e => socket'[x] = socket[x] BY <1>1
  <2> QED BY <2>1, <2>2, SocketFields
<1>7. sent'[e] = messages /\ \A x \in Ends : x # e => sent'[x] = sent[x]
  BY <1>1
<1>8. \A x \in Ends : Done(x)' = Done(x) BY <1>1, <1>6 DEF Done
<1>9. \A x \in Ends : Popped(x)' = Popped(x)
  <2>1. Popped(e)' = Popped(e)
    <3>1. Popped(e)' = Len(messages) - Len(more) /\ Popped(e) = n - Len(buffered)
      BY <1>6, <1>7 DEF Popped
    <3> HIDE DEF n, buffered
    <3> QED BY <1>2, <1>3, <1>4, <3>1
  <2>2. \A x \in Ends : x # e => Popped(x)' = Popped(x) BY <1>6, <1>7 DEF Popped
  <2> QED BY <2>1, <2>2
<1>10. ASSUME NEW x \in Ends PROVE Receiving(x)'
  <2>1. Receiving(x) /\ peer(x) \in Ends BY PeerFacts DEF InOrder
  <2>2. /\ Len(sent'[peer(x)]) \in Nat /\ Len(sent[peer(x)]) <= Len(sent'[peer(x)])
        /\ \A j \in 1 .. Len(sent[peer(x)]) : sent'[peer(x)][j] = sent[peer(x)][j]
    <3>1. CASE peer(x) = e BY <3>1, <1>2, <1>3, <1>7
    <3>2. CASE peer(x) # e BY <3>2, <1>7, <2>1, Counters
    <3> QED BY <3>1, <3>2
  <2> QED BY <1>1, <1>6, <2>1, <2>2, ReceiverKept
<1>11. Sending(r)'
  <2>1. Sending(r) /\ Done(peer(r)) \in Int BY <1>2, Counters DEF InOrder
  <2> QED BY <1>2, <1>6, <1>7, <1>8, <2>1, SenderKept
<1>12. Sending(e)'
  <2>1. Popped(e)' \in 0 .. Done(r)' BY <1>0, <1>2, <1>8, <1>9
  <2>2. Len(more) <= MaxUnacked BY <1>1, <1>2, <1>4
  <2>3. ASSUME NEW i \in 1 .. Len(more) PROVE more[i] = Numbered(messages, Popped(e)' + i)
    <3>0. Popped(e) = n - Len(buffered) BY DEF Popped
    <3>1. CASE i = Len(buffered) + 1
      <4>1. Popped(e)' + i = n + 1
        <5>1. Popped(e)' = Popped(e) BY <1>9
        <5> HIDE DEF n, buffered
        <5> QED BY <1>2, <3>0, <3>1, <5>1
      <4> QED BY <1>4, <1>5, <3>1, <4>1
    <3>2. CASE i # Len(buffered) + 1
      <4>1. i \in 1 .. Len(buffered) BY <1>2, <1>4, <3>2
      <4>2. Popped(e) + i \in 1 .. n
        <5>1. Popped(e) \in Nat BY <1>0, <1>2
        <5> HIDE DEF n, buffered
        <5> QED BY <1>2, <3>0, <4>1, <5>1
      <4>3. buffered[i] = Numbered(sent[e], Popped(e) + i) BY <1>0, <4>1 DEF Sending
      <4> QED BY <1>3, <1>4, <1>9, <4>1, <4>2, <4>3 DEF Numbered
    <3> QED BY <3>1, <3>2
  <2> QED BY <1>3, <1>5, <1>6, <1>7, <2>1, <2>2, <2>3 DEF Sending
<1>13. OnTheWay(e)'
  <2>1. network'[e] = network[e] /\ sent'[r] = sent[r] BY <1>1, <1>2, <1>7
  <2> QED BY <1>2, <1>8, <1>9, <2>1, WayKept DEF InOrder
<1>14. OnTheWay(r)'
  <2>1. OnTheWay(r) /\ Receiving(r) BY <1>2 DEF InOrder
  <2>2. network'[r] = network[r] \o Packages(entry) BY <1>1, <1>2
  <2>3. Packages(entry) \in Seq(Wire) /\ Packages(entry) \in Seq(Parts(entry))
    BY <1>2, PackagesType
  <2>4. ASSUME NEW k \in 1 .. Len(Packages(entry))
        PROVE  \E j \in 1 .. Len(sent'[peer(r)]) :
                   /\ Packages(entry)[k] \in Parts(Numbered(sent'[peer(r)], j))
                   /\ Len(sent'[peer(r)]) < j + MaxUnacked
    <3>1. Packages(entry)[k] \in Parts(Numbered(messages, n + 1)) BY <1>5, <2>3
    <3>2. n + 1 \in 1 .. Len(messages) /\ Len(messages) < (n + 1) + MaxUnacked
      BY <1>1, <1>2, <1>3
    <3> QED BY <1>2, <1>7, <3>1, <3>2
  <2>5. /\ sent'[peer(r)] \in Seq(Messages) /\ Len(sent[peer(r)]) <= Len(sent'[peer(r)])
        /\ \A j \in 1 .. Len(sent[peer(r)]) : sent'[peer(r)][j] = sent[peer(r)][j]
    BY <1>2, <1>3, <1>7
  <2>6. Popped(r)' = Popped(r) /\ Done(peer(r))' = Done(peer(r)) /\ Done(r)' = Done(r)
    BY <1>2, <1>8, <1>9
  <2> HIDE DEF r
  <2> QED BY <1>2, <2>1, <2>2, <2>3, <2>4, <2>5, <2>6, WayLonger
<1>15. \A x \in Ends : x = e \/ x = r BY DEF Ends, peer
<1> QED BY <1>10, <1>11, <1>12, <1>13, <1>14, <1>15 DEF InOrder

(* The package accepted is the next one of the next message, and no other  *)
(* that has its id by chance.                                              *)
LEMMA NextOneTaken ==
    ASSUME TypeInv, Reliable, InOrder, NEW e \in Ends, network[e] # <<>>,
           NEW p \in Wire, p = network[e][1], p.type = "USER", Accepts(socket[e], p),
           NEW at \in [1 .. Len(network[e]) -> Nat],
           InStep(at, network[e], sent[peer(e)], Popped(e), Done(peer(e)), Done(e)),
           NEW m, m = sent[peer(e)][Done(e) + 1]
    PROVE  /\ at[1] = Done(e) + 1 /\ Done(e) < Len(sent[peer(e)]) /\ m \in Messages
           /\ p.numbers = m.packages /\ p.number \in 0 .. m.packages - 1
           /\ p.number = socket[e].expected_number /\ p.text = Text(m, p.number)
<1> DEFINE messages == sent[peer(e)]
           j == at[1]
<1>1. /\ messages \in Seq(Messages) /\ Len(messages) \in Nat /\ MaxUnacked \in Nat
      /\ Done(e) \in 0 .. Len(messages) /\ Done(e) \in Nat /\ ID_MODULUS \in Nat \ {0}
  <2>1. Done(e) \in 0 .. Len(messages) BY DEF InOrder, Receiving
  <2> QED BY <2>1, Counters, PeerFacts, Constants
<1>2. p # Success /\ 1 \in 1 .. Len(network[e]) /\ p.numbers \in 1 .. 255
      /\ p.number \in 0 .. p.numbers - 1
  <2>1. network[e] \in Seq(Wire) BY Counters
  <2>2. 1 \in 1 .. Len(network[e]) BY <2>1
  <2> QED BY <2>2, WireFacts
<1>3. /\ j \in 1 .. Len(messages) /\ p \in Parts(Numbered(messages, j))
      /\ Done(e) < j + MaxUnacked
  BY <1>2 DEF InStep
<1>4. Len(messages) <= Done(e) + MaxUnacked
  <2> DEFINE kept == Len(socket[peer(e)].send_buffer)
  <2>1. Sending(peer(e)) /\ peer(peer(e)) = e /\ peer(e) \in Ends BY PeerFacts DEF InOrder
  <2>2. Popped(peer(e)) \in 0 .. Done(e) /\ kept <= MaxUnacked BY <2>1 DEF Sending
  <2>3. Popped(peer(e)) = Len(messages) - kept BY DEF Popped
  <2>4. kept \in Nat BY <2>1, Counters
  <2> HIDE DEF kept, messages
  <2> QED BY <1>1, <2>2, <2>3, <2>4
<1>5. PICK n \in 0 .. Numbered(messages, j).message.packages - 1 : p = Part(Numbered(messages, j), n)
  BY <1>3 DEF Parts
<1>6. /\ p.id = (j - 1) % ID_MODULUS /\ p.number = n /\ p.numbers = messages[j].packages
      /\ p.text = Text(messages[j], n)
  BY <1>5 DEF Part, Numbered
<1>7. p.id = Done(e) % ID_MODULUS /\ p.number = socket[e].expected_number
  BY DEF Accepts, InOrder, Receiving
<1>8. j - 1 = Done(e)
  <2>1. j - 1 \in Nat /\ (j - 1) - Done(e) < ID_MODULUS /\ Done(e) - (j - 1) < ID_MODULUS
    <3>1. MaxUnacked < ID_MODULUS BY DEF Reliable
    <3> HIDE DEF j, messages
    <3> QED BY <1>1, <1>3, <1>4, <3>1
  <2>2. (j - 1) % ID_MODULUS = Done(e) % ID_MODULUS BY <1>6, <1>7
  <2> HIDE DEF j
  <2> QED BY <1>1, <2>1, <2>2, SameRemainder
<1>9. j = Done(e) + 1
  <2> HIDE DEF j, messages
  <2> QED BY <1>1, <1>3, <1>8
<1>10. m = messages[j] /\ m \in Messages /\ Done(e) < Len(messages)
  <2>1. m = messages[j] BY <1>9
  <2>2. m \in Messages BY <1>1, <1>3, <2>1
  <2>3. Done(e) < Len(messages)
    <3> HIDE DEF j, messages
    <3> QED BY <1>1, <1>3, <1>9
  <2> QED BY <2>1, <2>2, <2>3
<1> QED BY <1>2, <1>6, <1>7, <1>9, <1>10

Pieces(m, n) == [i \in 1 .. n |-> [message |-> m, number |-> i - 1]]

(* What has come of the next message.                                      *)
LEMMA PartlyCome ==
    ASSUME TypeInv, NEW e \in Ends, Receiving(e), Done(e) < Len(sent[peer(e)]),
           NEW m \in Messages, m = sent[peer(e)][Done(e) + 1]
    PROVE  LET k == socket[e].expected_number
           IN  /\ received[e] \in Seq(Seq(Piece))
               /\ IF m.full /\ k = m.packages - 1
                  THEN /\ socket[e].buffer = <<>> /\ Len(received[e]) = Done(e) + 1
                       /\ received[e][Done(e) + 1] = Whole(m)
                  ELSE socket[e].buffer = Pieces(m, k) /\ Len(received[e]) = Done(e)
<1> DEFINE k == socket[e].expected_number
<1>1. k \in Nat /\ Len(received[e]) \in Nat BY Counters
<1>2. m.packages \in 1 .. 255 /\ m.full \in BOOLEAN /\ (m.full => m.packages > 1) BY MessageFacts
<1>3. CASE k = 0
  <2>1. socket[e].buffer = <<>> BY <1>3 DEF Receiving
  <2>2. Done(e) = Len(received[e]) BY <1>1, <1>3 DEF Done
  <2>3. Pieces(m, 0) = <<>> BY DEF Pieces
  <2> QED BY <1>2, <1>3, <2>1, <2>2, <2>3 DEF TypeInv
<1>4. CASE k # 0
  <2>1. k > 0 BY <1>1, <1>4
  <2>2. IF m.full /\ k = m.packages - 1
        THEN socket[e].buffer = <<>> /\ received[e][Done(e) + 1] = Whole(m)
        ELSE socket[e].buffer = Pieces(m, k)
    BY <2>1 DEF Receiving, Pieces
  <2>3. Pieces(m, k) # <<>>
    <3>1. 1 \in DOMAIN Pieces(m, k) BY <1>1, <2>1 DEF Pieces
    <3> QED BY <3>1
  <2>4. Done(e) = IF socket[e].buffer = <<>> THEN Len(received[e]) - 1 ELSE Len(received[e])
    <3>1. socket[e].buffer = <<>> => Done(e) = Len(received[e]) - 1 BY <2>1 DEF Done
    <3>2. socket[e].buffer # <<>> => Done(e) = Len(received[e])
      <4>1. socket[e].buffer # <<>> => Done(e) = Len(received[e]) - 0 BY DEF Done
      <4>2. Len(received[e]) - 0 = Len(received[e]) BY <1>1
      <4> QED BY <4>1, <4>2
    <3> QED BY <3>1, <3>2
  <2> QED BY <1>1, <2>2, <2>3, <2>4 DEF TypeInv
<1> QED BY <1>3, <1>4

\* One more piece, and when the pieces are a whole message.
LEMMA NextPiece ==
    ASSUME NEW m \in Messages, NEW k \in Nat
    PROVE  /\ Pieces(m, k) \o <<[message |-> m, number |-> k]>> = Pieces(m, k + 1)
           /\ Pieces(m, k + 1) # <<>>
           /\ k + 1 = m.packages - (IF m.full THEN 1 ELSE 0) => Pieces(m, k + 1) = Whole(m)
<1> DEFINE Bit(n) == [message |-> m, number |-> n]
           all == {Bit(n) : n \in Nat}
<1>1. Pieces(m, k) \o <<Bit(k)>> = Pieces(m, k + 1)
  <2>1. \A n \in Nat : Bit(n) \in all OBVIOUS
  <2>2. \A n \in Nat : Pieces(m, n) = [i \in 1 .. n |-> Bit(i - 1)]
    BY DEF Pieces
  <2> HIDE DEF Bit, all
  <2>3. \A n \in Nat : Pieces(m, n) \in Seq(all) /\ Len(Pieces(m, n)) = n
    BY <2>1, <2>2
  <2>4. k + 1 \in Nat /\ <<Bit(k)>> \in Seq(all) BY <2>1
  <2>5. /\ Pieces(m, k) \o <<Bit(k)>> \in Seq(all)
        /\ Len(Pieces(m, k) \o <<Bit(k)>>) = k + 1
        /\ \A i \in 1 .. k + 1 : (Pieces(m, k) \o <<Bit(k)>>)[i] = Bit(i - 1)
    BY <2>2, <2>3, <2>4
  <2>6. /\ Pieces(m, k + 1) \in Seq(all) /\ Len(Pieces(m, k + 1)) = k + 1
        /\ \A i \in 1 .. k + 1 : Pieces(m, k + 1)[i] = Bit(i - 1)
    BY <2>2, <2>3, <2>4
  <2> DEFINE one == Pieces(m, k) \o <<Bit(k)>>
             two == Pieces(m, k + 1)
  <2>7. /\ one \in Seq(all) /\ two \in Seq(all) /\ Len(one) = Len(two)
        /\ \A i \in 1 .. Len(one) : one[i] = two[i]
    BY <2>5, <2>6
  <2> HIDE DEF one, two
  <2>8. one = two BY <2>7, SeqEqual
  <2> QED BY <2>8 DEF one, two
<1>2. Pieces(m, k + 1) # <<>>
  <2>1. 1 \in DOMAIN Pieces(m, k + 1) BY DEF Pieces
  <2> QED BY <2>1
<1>3. k + 1 = m.packages - (IF m.full THEN 1 ELSE 0) => Pieces(m, k + 1) = Whole(m)
  BY DEF Pieces, Whole
<1> QED BY <1>1, <1>2, <1>3

\* Arithmetic of package numbers.
LEMMA LastNumbers ==
    \A n \in 1 .. 255, k \in Nat :
        /\ n - 0 = n
        /\ k + 1 = n <=> k = n - 1
        /\ k + 1 = n - 1 <=> k = n - 2
        /\ k = n - 1 => k # n - 2
        /\ k = 0 => k < n
        /\ k < n /\ k + 1 # n => k + 1 < n
OBVIOUS

\* One more package of m, the next message, has come: the socket and what has
\* come are then s and came.
Advances(e, m, s, came) ==
    LET k    == socket[e].expected_number
        last == k + 1 = m.packages
    IN  /\ s.package_id = socket[e].package_id /\ s.send_buffer = socket[e].send_buffer
        /\ s.expected_id =
               IF last THEN (socket[e].expected_id + 1) % ID_MODULUS ELSE socket[e].expected_id
        /\ s.expected_number = IF last THEN 0 ELSE k + 1
        /\ s.expected_numbers = IF last THEN WAIT_PACKAGE ELSE m.packages
        /\ IF last \/ (m.full /\ k + 1 = m.packages - 1)
           THEN /\ s.buffer = <<>> /\ Len(came) = Done(e) + 1 /\ came[Done(e) + 1] = Whole(m)
                /\ \A j \in 1 .. Done(e) : came[j] = received[e][j]
           ELSE s.buffer = Pieces(m, k + 1) /\ came = received[e] /\ Len(came) = Done(e)
        /\ came = received[e] \/ (Len(received[e]) = Done(e) /\ came = Append(received[e], Whole(m)))

(* What a package that is accepted leaves of the socket and of what has    *)
(* come: a message is pushed with its last text, one that is full with the *)
(* last but one of its packages.                                           *)
LEMMA Taken ==
    ASSUME TypeInv, NEW e \in Ends, Receiving(e), Done(e) < Len(sent[peer(e)]),
           NEW m \in Messages, m = sent[peer(e)][Done(e) + 1],
           NEW p \in Wire, p.numbers = m.packages, p.number \in 0 .. m.packages - 1,
           p.number = socket[e].expected_number, p.text = Text(m, p.number),
           NEW s, s = Buffered(Counted(socket[e], p), p.text),
           NEW came, came = received[e] \o Pushed(socket[e], p.text)
    PROVE  Advances(e, m, s, came)
<1> DEFINE k    == socket[e].expected_number
           last == k + 1 = m.packages
           part == [message |-> m, number |-> k]
           c    == Counted(socket[e], p)
           buffer == IF Completes(p.text) THEN <<>> ELSE socket[e].buffer \o p.text
<1>1. /\ k \in Nat /\ k \in 0 .. m.packages - 1 /\ m.packages \in 1 .. 255
      /\ m.full \in BOOLEAN /\ (m.full => m.packages > 1)
      /\ Len(received[e]) \in Nat /\ Done(e) \in Nat
  <2>1. Done(e) \in Nat BY Counters, PeerFacts DEF Receiving
  <2> QED BY <2>1, MessageFacts, Counters
<1>2. socket[e] \in Socket BY DEF TypeInv
<1>0. /\ k + 1 = m.packages <=> k = m.packages - 1
      /\ k + 1 = m.packages - 1 <=> k = m.packages - 2
      /\ k = m.packages - 1 => k # m.packages - 2
  <2> HIDE DEF k
  <2> QED BY <1>1, LastNumbers, Zenon
<1>3. /\ c.package_id = socket[e].package_id /\ c.send_buffer = socket[e].send_buffer
      /\ c.expected_id = IF last THEN (socket[e].expected_id + 1) % ID_MODULUS ELSE socket[e].expected_id
      /\ c.expected_number = IF last THEN 0 ELSE k + 1
      /\ c.expected_numbers = IF last THEN WAIT_PACKAGE ELSE m.packages
      /\ c.buffer = socket[e].buffer
      /\ \A text : [c EXCEPT !.buffer = text].package_id = c.package_id
      /\ \A text : /\ [c EXCEPT !.buffer = text].send_buffer = c.send_buffer
                  /\ [c EXCEPT !.buffer = text].expected_id = c.expected_id
                  /\ [c EXCEPT !.buffer = text].expected_number = c.expected_number
                  /\ [c EXCEPT !.buffer = text].expected_numbers = c.expected_numbers
                  /\ [c EXCEPT !.buffer = text].buffer = text
  <2>1. CASE last BY <1>2, <2>1, SocketFields DEF Counted
  <2>2. CASE ~last BY <1>2, <2>2, SocketFields DEF Counted
  <2> QED BY <2>1, <2>2
<1>4. /\ s.package_id = socket[e].package_id /\ s.send_buffer = socket[e].send_buffer
      /\ s.expected_id = IF last THEN (socket[e].expected_id + 1) % ID_MODULUS ELSE socket[e].expected_id
      /\ s.expected_number = IF last THEN 0 ELSE k + 1
      /\ s.expected_numbers = IF last THEN WAIT_PACKAGE ELSE m.packages
      /\ s.buffer = buffer
  <2>1. s = [c EXCEPT !.buffer = IF Completes(p.text) THEN <<>> ELSE c.buffer \o p.text]
    BY DEF Buffered
  <2>2. s = [c EXCEPT !.buffer = buffer] BY <1>3, <2>1
  <2> HIDE DEF c, buffer
  <2> QED BY <1>3, <2>2
<1>5. received[e] \in Seq(Seq(Piece)) BY DEF TypeInv
<1>6. IF last \/ (m.full /\ k + 1 = m.packages - 1)
      THEN /\ buffer = <<>> /\ Len(came) = Done(e) + 1 /\ came[Done(e) + 1] = Whole(m)
           /\ \A j \in 1 .. Done(e) : came[j] = received[e][j]
           /\ \/ came = received[e]
              \/ Len(received[e]) = Done(e) /\ came = Append(received[e], Whole(m))
      ELSE buffer = Pieces(m, k + 1) /\ came = received[e] /\ Len(came) = Done(e)
  <2>1. CASE m.full /\ last
    <3>1. k = m.packages - 1 BY <1>1, <2>1
    <3>2. p.text = <<>> BY <2>1, <3>1 DEF Text
    <3>3. /\ socket[e].buffer = <<>> /\ Len(received[e]) = Done(e) + 1
          /\ received[e][Done(e) + 1] = Whole(m)
      BY <2>1, <3>1, PartlyCome
    <3>4. ~Completes(p.text) BY <3>2 DEF Completes
    <3>5. came = received[e] BY <1>5, <3>4 DEF Pushed
    <3>6. buffer = <<>> BY <3>2, <3>3, <3>4
    <3> HIDE DEF buffer, k
    <3> QED BY <1>1, <2>1, <3>3, <3>5, <3>6
  <2>2. CASE ~(m.full /\ last)
    <3>1. ~(m.full /\ k = m.packages - 1) BY <1>0, <2>2, Zenon
    <3>2. p.text = <<part>> BY <3>1 DEF Text
    <3>3. socket[e].buffer = Pieces(m, k) /\ Len(received[e]) = Done(e)
      BY <3>1, PartlyCome
    <3>4. socket[e].buffer \o p.text = Pieces(m, k + 1) BY <1>1, <3>2, <3>3, NextPiece
    <3>5. /\ m.full => (Completes(p.text) <=> k = m.packages - 2)
          /\ ~m.full => (Completes(p.text) <=> k = m.packages - 1)
      BY <3>2 DEF Completes, EndsMessage
    <3>6. CASE last \/ (m.full /\ k + 1 = m.packages - 1)
      <4>1. Completes(p.text) BY <1>0, <2>2, <3>5, <3>6, Zenon
      <4>0. k + 1 = m.packages - (IF m.full THEN 1 ELSE 0)
        <5>1. CASE m.full BY <2>2, <3>6, <5>1, Zenon
        <5>2. CASE ~m.full
          <6>1. k + 1 = m.packages BY <3>6, <5>2, Zenon
          <6>2. m.packages - 0 = m.packages BY <1>1, LastNumbers, Zenon
          <6> QED BY <5>2, <6>1, <6>2, Zenon
        <5> QED BY <5>1, <5>2
      <4>2. Pieces(m, k + 1) = Whole(m) BY <1>1, <4>0, NextPiece
      <4>3. buffer = <<>> BY <4>1
      <4>4. Pushed(socket[e], p.text) = <<Whole(m)>> BY <3>4, <4>1, <4>2 DEF Pushed
      <4>5. came = received[e] \o <<Whole(m)>> BY <4>4
      <4>6. came = Append(received[e], Whole(m)) BY <1>5, <4>5, AppendIsConcat
      <4>7. /\ Len(came) = Done(e) + 1 /\ came[Done(e) + 1] = Whole(m)
            /\ \A j \in 1 .. Done(e) : came[j] = received[e][j]
        BY <1>5, <3>3, <4>6
      <4> HIDE DEF buffer, k, last
      <4> QED BY <3>3, <3>6, <4>3, <4>6, <4>7
    <3>7. CASE ~(last \/ (m.full /\ k + 1 = m.packages - 1))
      <4>2. ~Completes(p.text) BY <1>0, <3>5, <3>7, Zenon
      <4>3. came = received[e] BY <1>5, <4>2 DEF Pushed
      <4>4. buffer = Pieces(m, k + 1) BY <3>4, <4>2
      <4> HIDE DEF buffer, k, last
      <4> QED BY <3>3, <3>7, <4>3, <4>4
    <3> QED BY <3>6, <3>7
  <2> QED BY <2>1, <2>2
<1>7. came = received[e] \/ (Len(received[e]) = Done(e) /\ came = Append(received[e], Whole(m)))
  <2> HIDE DEF k, last, buffer
  <2> QED BY <1>6
<1>8. IF last \/ (m.full /\ k + 1 = m.packages - 1)
      THEN /\ s.buffer = <<>> /\ Len(came) = Done(e) + 1 /\ came[Done(e) + 1] = Whole(m)
           /\ \A j \in 1 .. Done(e) : came[j] = received[e][j]
      ELSE s.buffer = Pieces(m, k + 1) /\ came = received[e] /\ Len(came) = Done(e)
  <2> HIDE DEF k, last, buffer
  <2> QED BY <1>4, <1>6
<1> HIDE DEF k, last, buffer, part, c
<1> QED BY <1>4, <1>7, <1>8 DEF k, last, Advances

\* accepted takes the next package of the next message.
LEMMA AcceptedEffect ==
    ASSUME TypeInv, Reliable, InOrder, NEW e \in Ends, accepted(e),
           NEW at \in [1 .. Len(network[e]) -> Nat],
           InStep(at, network[e], sent[peer(e)], Popped(e), Done(peer(e)), Done(e)),
           NEW m, m = sent[peer(e)][Done(e) + 1]
    PROVE  /\ at[1] = Done(e) + 1 /\ Done(e) < Len(sent[peer(e)]) /\ m \in Messages
           /\ network[e] # <<>> /\ network[e][1] # Success
           /\ Advances(e, m, socket'[e], received'[e])
           /\ socket'[peer(e)] = socket[peer(e)] /\ received'[peer(e)] = received[peer(e)]
           /\ sent' = sent
           /\ network'[e] = Tail(network[e])
           /\ network'[peer(e)] =
                  IF socket[e].expected_number + 1 = m.packages
                  THEN Append(network[peer(e)], Success) ELSE network[peer(e)]
<1> DEFINE p == network[e][1]
<1>1. /\ network[e] # <<>> /\ p \in Wire /\ p.type = "USER" /\ Accepts(socket[e], p)
      /\ socket' = [socket EXCEPT ![e] = Buffered(Counted(socket[e], p), p.text)]
      /\ received' = [received EXCEPT ![e] = received[e] \o Pushed(socket[e], p.text)]
      /\ IF p.number + 1 = p.numbers
         THEN network' = [network EXCEPT ![e] = Tail(network[e]),
                                         ![peer(e)] = Append(@, Success)]
         ELSE network' = [network EXCEPT ![e] = Tail(network[e])]
  <2>1. PICK i \in Arrivals(e) :
            /\ network[e][i].type = "USER" /\ Accepts(socket[e], network[e][i])
            /\ socket' = [socket EXCEPT ![e] =
                    Buffered(Counted(socket[e], network[e][i]), network[e][i].text)]
            /\ received' = [received EXCEPT ![e] = @ \o Pushed(socket[e], network[e][i].text)]
            /\ \E rest \in {RemoveAt(network[e], i)} \cup
                              (IF "duplicate" \in Faults THEN {network[e]} ELSE {}) :
                  IF network[e][i].number + 1 = network[e][i].numbers
                  THEN network' = [network EXCEPT ![e] = rest,
                                                  ![peer(e)] = Append(@, Success)]
                  ELSE network' = [network EXCEPT ![e] = rest]
    BY DEF accepted
  <2>2. i = 1 /\ network[e] # <<>> /\ network[e][1] \in Wire
        /\ RemoveAt(network[e], i) = Tail(network[e])
    BY FirstArrives
  <2>3. "duplicate" \notin Faults BY DEF Reliable
  <2>4. received' = [received EXCEPT ![e] = received[e] \o Pushed(socket[e], p.text)]
    BY <2>1, <2>2 DEF TypeInv
  <2> QED BY <2>1, <2>2, <2>3, <2>4
<1> HIDE DEF p
<1>2. p = network[e][1] BY DEF p
<1>3. /\ at[1] = Done(e) + 1 /\ Done(e) < Len(sent[peer(e)]) /\ m \in Messages
      /\ p.numbers = m.packages /\ p.number \in 0 .. m.packages - 1
      /\ p.number = socket[e].expected_number /\ p.text = Text(m, p.number)
  BY <1>1, <1>2, NextOneTaken
<1>4. /\ socket'[e] = Buffered(Counted(socket[e], p), p.text)
      /\ received'[e] = received[e] \o Pushed(socket[e], p.text)
      /\ socket'[peer(e)] = socket[peer(e)] /\ received'[peer(e)] = received[peer(e)]
  BY <1>1, PeerFacts DEF TypeInv
<1>5. Advances(e, m, socket'[e], received'[e])
  <2>1. Receiving(e) BY DEF InOrder
  <2> QED BY <1>1, <1>3, <1>4, <2>1, Taken
<1>6. p # Success BY <1>1, WireFacts
<1>7. sent' = sent BY DEF accepted
<1>8. /\ network'[e] = Tail(network[e])
      /\ network'[peer(e)] =
             IF socket[e].expected_number + 1 = m.packages
             THEN Append(network[peer(e)], Success) ELSE network[peer(e)]
  BY <1>1, <1>3, PeerFacts DEF TypeInv
<1> QED BY <1>1, <1>2, <1>3, <1>4, <1>5, <1>6, <1>7, <1>8

\* InOrder is kept by a package that is accepted.
LEMMA Accepted ==
    ASSUME TypeInv, Reliable, InOrder, NEW e \in Ends, accepted(e)
    PROVE  InOrder'
<1> DEFINE r == peer(e)
           d == Done(e)
           m == sent[r][d + 1]
           k == socket[e].expected_number
           last == k + 1 = m.packages
<1>1. PICK at \in [1 .. Len(network[e]) -> Nat] :
          InStep(at, network[e], sent[r], Popped(e), Done(r), d)
  BY DEF InOrder, OnTheWay
<1>2. /\ at[1] = d + 1 /\ d < Len(sent[r]) /\ m \in Messages
      /\ network[e] # <<>> /\ network[e][1] # Success
      /\ Advances(e, m, socket'[e], received'[e])
      /\ socket'[r] = socket[r] /\ received'[r] = received[r] /\ sent' = sent
      /\ network'[e] = Tail(network[e])
      /\ network'[r] = IF last THEN Append(network[r], Success) ELSE network[r]
  BY <1>1, AcceptedEffect
<1>3. /\ r \in Ends /\ r # e /\ peer(r) = e /\ k \in Nat /\ d \in Int /\ Done(r) \in Int
      /\ Popped(e) \in Int /\ Popped(r) \in Int /\ Len(sent[r]) \in Nat
      /\ network[e] \in Seq(Wire) /\ network[r] \in Seq(Wire)
  BY Counters, PeerFacts
<1>4. /\ Receiving(e) /\ Receiving(r) /\ Sending(e) /\ Sending(r) /\ OnTheWay(r)
      /\ d \in 0 .. Len(sent[r]) /\ Popped(r) \in 0 .. d
  BY <1>3 DEF InOrder, Receiving, Sending
<1>5. m.packages \in 1 .. 255 /\ m.full \in BOOLEAN /\ (m.full => m.packages > 1)
  BY <1>2, MessageFacts
<1> DEFINE s == socket'[e]
           came == received'[e]
           early == m.full /\ k + 1 = m.packages - 1
<1>6. /\ s.package_id = socket[e].package_id /\ s.send_buffer = socket[e].send_buffer
      /\ s.expected_id = IF last THEN (socket[e].expected_id + 1) % ID_MODULUS ELSE socket[e].expected_id
      /\ s.expected_number = IF last THEN 0 ELSE k + 1
      /\ s.expected_numbers = IF last THEN WAIT_PACKAGE ELSE m.packages
      /\ IF last \/ early
         THEN /\ s.buffer = <<>> /\ Len(came) = d + 1 /\ came[d + 1] = Whole(m)
              /\ \A j \in 1 .. d : came[j] = received[e][j]
         ELSE s.buffer = Pieces(m, k + 1) /\ came = received[e] /\ Len(came) = d
  BY <1>2 DEF Advances
<1>d. /\ Done(e)' = Len(came) - IF s.expected_number > 0 /\ s.buffer = <<>> THEN 1 ELSE 0
      /\ Done(r)' = Done(r)
  BY <1>2 DEF Done
<1>p. Popped(e)' = Popped(e) /\ Popped(r)' = Popped(r)
  BY <1>2, <1>6 DEF Popped
<1>k. k < m.packages
  <2>1. socket[e].expected_number = 0 \/ socket[e].expected_number < m.packages
    BY <1>3, <1>4 DEF Receiving
  <2>2. socket[e].expected_number \in Nat BY <1>3
  <2> QED BY <1>5, <2>1, <2>2, LastNumbers, Zenon
<1>w. \A j \in 1 .. d : received[e][j] = Whole(sent[r][j])
  BY <1>4 DEF Receiving
<1>i. socket[e].expected_id = d % ID_MODULUS
  BY <1>4 DEF Receiving
<1> HIDE DEF d, m, k, last, s, came, r, early
<1>7. Done(e)' = IF last THEN d + 1 ELSE d
  <2>1. CASE last
    <3>1. Done(e)' = Len(came) - 0 BY <1>6, <1>d, <2>1
    <3> QED BY <1>3, <1>6, <2>1, <3>1
  <2>2. CASE ~last /\ early
    <3>1. Done(e)' = Len(came) - 1 BY <1>3, <1>6, <1>d, <2>2
    <3> QED BY <1>3, <1>6, <2>2, <3>1
  <2>3. CASE ~last /\ ~early
    <3>1. s.buffer # <<>> BY <1>2, <1>3, <1>6, <2>3, NextPiece
    <3>2. Done(e)' = Len(came) - 0 BY <1>d, <3>1
    <3> QED BY <1>3, <1>6, <2>3, <3>2
  <2> QED BY <2>1, <2>2, <2>3
<1>8. Receiving(e)'
  <2>1. Done(e)' \in 0 .. Len(sent'[r]) BY <1>2, <1>3, <1>4, <1>7
  <2>2. s.expected_id = Done(e)' % ID_MODULUS
    <3>1. ((d % ID_MODULUS) + 1) % ID_MODULUS = (d + 1) % ID_MODULUS
      <4>1. d \in Nat BY <1>4
      <4>2. ID_MODULUS \in Nat \ {0} BY Constants
      <4> QED BY <4>1, <4>2, NextRemainder
    <3> QED BY <1>6, <1>7, <1>i, <3>1
  <2>3. \A j \in 1 .. Done(e)' : came[j] = Whole(sent'[r][j])
    <3>1. m = sent[r][d + 1] BY DEF m
    <3>2. CASE last
      <4>1. \A j \in 1 .. d + 1 : j \in 1 .. d \/ j = d + 1 BY <1>4
      <4> QED BY <1>2, <1>6, <1>7, <1>w, <3>1, <3>2, <4>1
    <3>3. CASE ~last
      <4>1. \A j \in 1 .. d : came[j] = received[e][j] BY <1>6
      <4> QED BY <1>2, <1>7, <1>w, <3>3, <4>1
    <3> QED BY <3>2, <3>3
  <2>4. s.expected_number = 0 => s.expected_numbers = WAIT_PACKAGE /\ s.buffer = <<>>
    BY <1>3, <1>6
  <2>5. ASSUME s.expected_number > 0
        PROVE  /\ Done(e)' < Len(sent'[r]) /\ sent'[r][Done(e)' + 1] = m
               /\ s.expected_numbers = m.packages /\ s.expected_number < m.packages
               /\ IF m.full /\ s.expected_number = m.packages - 1
                  THEN s.buffer = <<>> /\ came[Done(e)' + 1] = Whole(m)
                  ELSE s.buffer = [n \in 1 .. s.expected_number |-> [message |-> m, number |-> n - 1]]
    <3>1. ~last /\ s.expected_number = k + 1 /\ Done(e)' = d BY <1>6, <1>7, <2>5
    <3>2. k + 1 < m.packages
      <4>1. k + 1 # m.packages BY <3>1 DEF last
      <4> QED BY <1>3, <1>5, <1>k, <4>1, LastNumbers, Zenon
    <3>3. early <=> m.full /\ s.expected_number = m.packages - 1 BY <3>1 DEF early
    <3>4. sent'[r][d + 1] = m BY <1>2 DEF m
    <3>5. ~early => s.buffer = [n \in 1 .. s.expected_number |-> [message |-> m, number |-> n - 1]]
      BY <1>6, <3>1 DEF Pieces
    <3> QED BY <1>2, <1>6, <3>1, <3>2, <3>3, <3>4, <3>5
  <2> QED BY <2>1, <2>2, <2>3, <2>4, <2>5 DEF Receiving, s, came, r
<1>9. Receiving(r)'
  <2>1. Len(sent'[peer(r)]) \in Nat /\ sent' = sent BY <1>2, <1>3, Counters
  <2> QED BY <1>2, <1>3, <1>4, <2>1, ReceiverKept
<1>10. Sending(r)'
  <2>1. Done(peer(r))' \in Int /\ Done(peer(r))' >= Done(peer(r))
    <3>1. peer(r) = e /\ Done(e) = d BY <1>3 DEF d
    <3> QED BY <1>3, <1>7, <3>1
  <2> QED BY <1>2, <1>3, <1>4, <2>1, SenderKept
<1>11. Sending(e)'
  <2>1. Done(peer(e))' \in Int /\ Done(peer(e))' >= Done(peer(e))
    BY <1>3, <1>d DEF r
  <2> QED BY <1>2, <1>4, <1>6, <2>1, SenderKept DEF s
<1>12. OnTheWay(e)'
  <2>1. Done(e)' \in Int /\ (Done(e)' = d \/ Done(e)' = at[1]) BY <1>2, <1>3, <1>7
  <2>2. \E at2 \in [1 .. Len(Tail(network[e])) -> Nat] :
            InStep(at2, Tail(network[e]), sent[r], Popped(e), Done(r), Done(e)')
    <3>1. InStep(at, network[e], sent[r], Popped(e), Done(r), d)
      BY <1>1 DEF d, r
    <3>2. /\ network[e] \in Seq(Wire) /\ network[e] # <<>> /\ network[e][1] # Success
          /\ at \in [1 .. Len(network[e]) -> Nat]
          /\ Popped(e) \in Int /\ Done(r) \in Int /\ d \in Int
      BY <1>1, <1>2, <1>3
    <3> QED BY <2>1, <3>1, <3>2, FirstLeaves
  <2> QED BY <1>2, <1>d, <1>p, <2>2 DEF OnTheWay, r
<1>13. OnTheWay(r)'
  <2>0. Done(e) = d BY DEF d
  <2>1. PICK to \in [1 .. Len(network[r]) -> Nat] :
            InStep(to, network[r], sent[e], Popped(r), d, Done(r))
    BY <1>3, <1>4, <2>0 DEF OnTheWay
  <2>2. CASE last
    <3>1. d \in Nat /\ Popped(r) <= d BY <1>4
    <3>2. \E at2 \in [1 .. Len(Append(network[r], Success)) -> Nat] :
              InStep(at2, Append(network[r], Success), sent[e], Popped(r), d + 1, Done(r))
      BY <1>3, <2>1, <3>1, SuccessFollows
    <3> QED BY <1>2, <1>3, <1>7, <1>d, <1>p, <2>2, <3>2 DEF OnTheWay
  <2>3. CASE ~last
    BY <1>2, <1>3, <1>7, <1>d, <1>p, <2>0, <2>1, <2>3 DEF OnTheWay
  <2> QED BY <2>2, <2>3
<1>14. \A x \in Ends : x = e \/ x = r BY DEF Ends, peer, r
<1> QED BY <1>8, <1>9, <1>10, <1>11, <1>12, <1>13, <1>14 DEF InOrder

\* The two new sockets are in order.
LEMMA InitInOrder == Init => InOrder
<1> SUFFICES ASSUME Init, NEW e \in Ends PROVE Sending(e) /\ Receiving(e) /\ OnTheWay(e)
  BY DEF InOrder
<1>1. \A x \in Ends : /\ socket[x] = NewSocket /\ network[x] = <<>>
                      /\ sent[x] = <<>> /\ received[x] = <<>>
  BY DEF Init
<1>2. \A x \in Ends : Done(x) = 0 /\ Popped(x) = 0
  BY <1>1 DEF Done, Popped, NewSocket
<1>3. 0 % ID_MODULUS = 0 /\ MaxUnacked \in Nat
  <2>1. ID_MODULUS \in Nat \ {0} BY Constants
  <2>2. 0 \in 0 .. ID_MODULUS - 1 /\ ID_MODULUS * 0 + 0 = 0 BY <2>1
  <2>3. (ID_MODULUS * 0 + 0) % ID_MODULUS = 0 BY <2>1, <2>2, Remainder
  <2> QED BY <2>2, <2>3, Constants
<1>4. Sending(e) BY <1>1, <1>2, <1>3, PeerFacts DEF Sending, NewSocket
<1>5. Receiving(e) BY <1>1, <1>2, <1>3, PeerFacts DEF Receiving, NewSocket
<1>6. OnTheWay(e)
  <2>1. Len(network[e]) = 0 BY <1>1
  <2>2. [i \in {} |-> 0] \in [1 .. Len(network[e]) -> Nat] BY <2>1
  <2>3. InStep([i \in {} |-> 0], network[e], sent[peer(e)], Popped(e), Done(peer(e)), Done(e))
    BY <2>1 DEF InStep
  <2> QED BY <2>2, <2>3 DEF OnTheWay
<1> QED BY <1>4, <1>5, <1>6

\* InOrder is inductive, under Reliable and the types.
LEMMA InOrderNext ==
    ASSUME Reliable, TypeInv, InOrder, [Next]_vars
    PROVE  InOrder'
<1>1. CASE UNCHANGED vars
  <2>1. \A x \in Ends : Done(x)' = Done(x) /\ Popped(x)' = Popped(x)
    BY <1>1 DEF vars, Done, Popped
  <2>2. ASSUME NEW x \in Ends PROVE Sending(x)' /\ Receiving(x)'
    BY <1>1 DEF vars, InOrder, Sending, Receiving, Done, Popped
  <2>3. ASSUME NEW x \in Ends PROVE OnTheWay(x)'
    <3>1. network'[x] = network[x] /\ sent' = sent BY <1>1 DEF vars
    <3> QED BY <2>1, <3>1, WayKept, PeerFacts DEF InOrder
  <2> QED BY <2>2, <2>3 DEF InOrder
<1>2. ASSUME NEW e \in Ends, NEW m \in Messages, buffered_send(e, m) PROVE InOrder'
  BY <1>2, BufferedSent
<1>3. ASSUME NEW e \in Ends, wait(e) PROVE InOrder' BY <1>3, Waited
<1>4. ASSUME NEW e \in Ends, retry(e) PROVE InOrder' BY <1>4, Retried
<1>5. ASSUME NEW e \in Ends, acknowledged(e) PROVE InOrder' BY <1>5, Acknowledged
<1>6. ASSUME NEW e \in Ends, ignored(e) PROVE InOrder'
  <2>1. PICK i \in Arrivals(e) : Leaves(e, i) BY <1>6 DEF ignored
  <2>2. UNCHANGED <<socket, sent, received>> BY <1>6 DEF ignored
  <2> QED BY <2>1, <2>2, FirstArrives, PackageLeaves
<1>7. ASSUME NEW e \in Ends, lose(e) PROVE InOrder'
  <2>1. PICK i \in Arrivals(e) : network' = [network EXCEPT ![e] = RemoveAt(@, i)]
    BY <1>7 DEF lose
  <2>2. network' = [network EXCEPT ![e] = Tail(network[e])] /\ network[e] # <<>>
    BY <2>1, FirstArrives DEF TypeInv
  <2>3. UNCHANGED <<socket, sent, received>> BY <1>7 DEF lose
  <2> QED BY <2>2, <2>3, PackageLeaves
<1>8. ASSUME NEW e \in Ends, accepted(e) PROVE InOrder' BY <1>8, Accepted
<1> QED
  BY <1>1, <1>2, <1>3, <1>4, <1>5, <1>6, <1>7, <1>8 DEF Next, tick, update
-----------------------------------------------------------------------------
(* What has arrived.                                                       *)

\* A whole text is that of one message.
LEMMA WholeOfOne ==
    ASSUME NEW m \in Messages
    PROVE  MessageOf(Whole(m)) = m
<1>1. \A x \in Messages : Whole(x)[1].message = x
  <2> TAKE x \in Messages
  <2>1. 1 \in 1 .. x.packages - (IF x.full THEN 1 ELSE 0) BY MessageFacts
  <2> QED BY <2>1 DEF Whole
<1>2. \A x \in Messages : Whole(x) = Whole(m) => x = m BY <1>1
<1> DEFINE whole == Whole(m)
<1>3. \E x \in Messages : whole = Whole(x) OBVIOUS
<1>4. MessageOf(whole) = CHOOSE x \in Messages : whole = Whole(x) BY <1>3 DEF MessageOf
<1> QED BY <1>2, <1>3, <1>4

\* The first n of what the other end has sent.
FirstSent(e, n) == [j \in 1 .. n |-> sent[peer(e)][j]]

\* What has arrived at an end is what the other has sent first, one message more than
\* is done when the last package of a full one has still to come.
LEMMA Come ==
    ASSUME TypeInv, InOrder, NEW e \in Ends
    PROVE  /\ Len(received[e]) \in Nat /\ Len(received[e]) <= Len(sent[peer(e)])
           /\ Done(e) \in Nat /\ Done(e) <= Len(received[e])
           /\ arrived[e] = FirstSent(e, Len(received[e]))
           /\ Len(arrived[e]) = Len(received[e])
           /\ DOMAIN arrived[e] = 1 .. Len(received[e])
<1> DEFINE n == Len(received[e])
           d == Done(e)
           messages == sent[peer(e)]
<1>1. /\ n \in Nat /\ d \in 0 .. Len(messages) /\ Len(messages) \in Nat
      /\ messages \in Seq(Messages) /\ Receiving(e) /\ received[e] \in Seq(Seq(Piece))
  BY Counters, PeerFacts DEF InOrder, Receiving, TypeInv
<1>2. \/ n = d
      \/ n = d + 1 /\ d < Len(messages) /\ received[e][d + 1] = Whole(messages[d + 1])
  <2>1. CASE d < Len(messages)
    <3>1. messages[d + 1] \in Messages BY <1>1, <2>1
    <3> QED BY <1>1, <2>1, <3>1, PartlyCome
  <2>2. CASE ~(d < Len(messages))
    <3>1. ~ (socket[e].expected_number > 0) BY <1>1, <2>2 DEF Receiving
    <3>2. d = n - 0 BY <3>1 DEF Done
    <3> HIDE DEF n, d
    <3> QED BY <1>1, <3>2
  <2> QED BY <2>1, <2>2
<1>3. \A j \in 1 .. d : received[e][j] = Whole(messages[j]) BY <1>1 DEF Receiving
<1> HIDE DEF d
<1>4. n <= Len(messages) /\ d <= n /\ d \in Nat
  <2> HIDE DEF n, messages
  <2> QED BY <1>1, <1>2
<1>5. ASSUME NEW j \in 1 .. n PROVE MessageOf(received[e][j]) = messages[j]
  <2>1. received[e][j] = Whole(messages[j])
    <3>1. j \in 1 .. d \/ (j = d + 1 /\ n = d + 1)
      <4> HIDE DEF n, messages
      <4> QED BY <1>1, <1>2, <1>4
    <3> QED BY <1>2, <1>3, <3>1, <1>4
  <2>2. messages[j] \in Messages
    <3>1. j \in 1 .. Len(messages) 
      <4> HIDE DEF n, messages
      <4> QED BY <1>1, <1>4
    <3> QED BY <1>1, <3>1
  <2> QED BY <2>1, <2>2, WholeOfOne
<1>6. arrived[e] = [j \in 1 .. n |-> MessageOf(received[e][j])] BY <1>1 DEF arrived
<1>7. arrived[e] = FirstSent(e, n) BY <1>5, <1>6 DEF FirstSent
<1> QED BY <1>1, <1>4, <1>6, <1>7 DEF d

\* The same after a step.
LEMMA ComeNext ==
    (TypeInv /\ InOrder)' =>
        (\A e \in Ends : /\ Len(received[e]) \in Nat /\ Len(received[e]) <= Len(sent[peer(e)])
                         /\ arrived[e] = FirstSent(e, Len(received[e])))'
<1>1. TypeInv /\ InOrder =>
          \A e \in Ends : /\ Len(received[e]) \in Nat /\ Len(received[e]) <= Len(sent[peer(e)])
                          /\ arrived[e] = FirstSent(e, Len(received[e]))
  BY Come
<1> QED BY <1>1, PTL

\* What has arrived changes only with received.
LEMMA NothingArrives ==
    ASSUME received' = received
    PROVE  arrived' = arrived
BY DEF arrived, MessageOf, Whole, Garbled

\* accepted lets the next message arrive or nothing.
LEMMA OneArrives ==
    ASSUME Reliable, TypeInv, InOrder, TypeInv', InOrder', NEW e \in Ends, accepted(e)
    PROVE  UNCHANGED Stream!streams \/ Stream!Arrive(e)
<1> DEFINE r == peer(e)
           n == Len(received[e])
           m == sent[r][Done(e) + 1]
<1>1. /\ Advances(e, m, socket'[e], received'[e])
      /\ received'[r] = received[r] /\ sent' = sent
  <2>1. PICK at \in [1 .. Len(network[e]) -> Nat] :
            InStep(at, network[e], sent[r], Popped(e), Done(r), Done(e))
    BY DEF InOrder, OnTheWay
  <2> QED BY <2>1, AcceptedEffect
<1>2. r \in Ends /\ r # e /\ \A x \in Ends : x = e \/ x = r BY DEF Ends, peer
<1>3. \A x \in Ends : /\ arrived[x] = FirstSent(x, Len(received[x]))
                      /\ Len(arrived[x]) = Len(received[x])
                      /\ Len(received[x]) \in Nat
  BY Come
<1>4. \A x \in Ends : arrived'[x] = FirstSent(x, Len(received'[x]))
  <2>1. \A x \in Ends : arrived'[x] = FirstSent(x, Len(received[x]))' BY ComeNext
  <2> QED BY <1>1, <2>1 DEF FirstSent
<1>5. Len(received'[e]) \in Nat /\ Len(received'[e]) <= Len(sent[r])
  BY <1>1, ComeNext
<1>6. arrived = [x \in Ends |-> arrived[x]] /\ arrived' = [x \in Ends |-> arrived'[x]]
  BY DEF arrived
<1>7. arrived'[r] = arrived[r] BY <1>1, <1>2, <1>3, <1>4
<1>8. CASE received'[e] = received[e]
  <2>1. arrived'[e] = arrived[e] BY <1>3, <1>4, <1>8
  <2>2. arrived' = arrived BY <1>2, <1>6, <1>7, <2>1
  <2> QED BY <1>1, <2>2 DEF Stream!streams
<1>9. CASE received'[e] = Append(received[e], Whole(m))
  <2>1. Len(received'[e]) = n + 1
    BY <1>9 DEF TypeInv
  <2>2. arrived[e] = FirstSent(e, n) /\ Len(arrived[e]) = n /\ n \in Nat BY <1>3
  <2>3. Len(arrived[e]) < Len(sent[r]) /\ Len(sent[r]) \in Nat
    BY <1>2, <1>5, <2>1, <2>2, Counters
  <2>4. arrived'[e] = Append(arrived[e], sent[r][n + 1])
    <3>1. arrived'[e] = FirstSent(e, n + 1) BY <1>4, <2>1
    <3>2. sent[r] \in Seq(Messages) BY <1>2, Counters
    <3>3. /\ FirstSent(e, n) \in Seq(Messages) /\ FirstSent(e, n + 1) \in Seq(Messages)
          /\ sent[r][n + 1] \in Messages
      BY <2>2, <2>3, <3>2 DEF FirstSent
    <3>4. \A i \in 1 .. n + 1 : FirstSent(e, n + 1)[i] = Append(FirstSent(e, n), sent[r][n + 1])[i]
      BY <2>2, <3>3 DEF FirstSent
    <3>5. Len(FirstSent(e, n + 1)) = n + 1 /\ Len(Append(FirstSent(e, n), sent[r][n + 1])) = n + 1
      BY <2>2, <3>3 DEF FirstSent
    <3>6. FirstSent(e, n + 1) = Append(FirstSent(e, n), sent[r][n + 1])
      BY <3>3, <3>4, <3>5, SeqEqual, AppendProperties
    <3> QED BY <2>2, <3>1, <3>6
  <2>5. arrived' = [arrived EXCEPT ![e] = Append(@, sent[r][Len(@) + 1])]
    BY <1>2, <1>6, <1>7, <2>2, <2>4
  <2> QED BY <1>1, <2>3, <2>5 DEF Stream!Arrive, Stream!peer, peer
<1> QED BY <1>1, <1>8, <1>9 DEF Advances

\* Every step is one of the stream or a stutter.
LEMMA StreamNext ==
    ASSUME Reliable, TypeInv, InOrder, TypeInv', InOrder', [Next]_vars
    PROVE  [Stream!Next]_(Stream!streams)
<1>0. Stream!Ends = Ends BY DEF Stream!Ends, Ends
<1>1. CASE UNCHANGED vars
  BY <1>1, NothingArrives DEF vars, Stream!streams
<1>2. ASSUME NEW e \in Ends, NEW m \in Messages, buffered_send(e, m)
      PROVE  Stream!Send(e, m)
  <2>1. sent' = [sent EXCEPT ![e] = Append(@, m)] /\ received' = received
    BY <1>2 DEF buffered_send
  <2> QED BY <2>1, NothingArrives DEF Stream!Send
<1>3. ASSUME NEW e \in Ends, wait(e) \/ retry(e) \/ acknowledged(e) \/ ignored(e) \/ lose(e)
      PROVE  UNCHANGED Stream!streams
  <2>1. UNCHANGED <<sent, received>>
    BY <1>3 DEF wait, retry, acknowledged, ignored, lose
  <2> QED BY <2>1, NothingArrives DEF Stream!streams
<1>4. ASSUME NEW e \in Ends, accepted(e)
      PROVE  UNCHANGED Stream!streams \/ Stream!Arrive(e)
  BY <1>4, OneArrives
<1> QED
  BY <1>0, <1>1, <1>2, <1>3, <1>4 DEF Next, tick, update, Stream!Next

\* Over a network that loses packages but neither repeats nor reorders them, and
\* with fewer messages kept than there are ids, the two sockets implement a
\* reliable stream of messages in each direction.
THEOREM StreamAlways ==
    ASSUME Reliable
    PROVE  Spec => StreamImplemented
<1>1. Init => Stream!Init
  BY DEF Init, Stream!Init, arrived, Stream!Ends, Ends
<1>2. Init => TypeInv /\ InOrder BY TypeInit, InitInOrder
<1>3. TypeInv /\ InOrder /\ [Next]_vars => (TypeInv /\ InOrder)'
  BY TypeNext, InOrderNext
<1>4. TypeInv /\ InOrder /\ (TypeInv /\ InOrder)' /\ [Next]_vars => [Stream!Next]_(Stream!streams)
  BY StreamNext
<1> QED BY <1>1, <1>2, <1>3, <1>4, PTL DEF Spec, StreamImplemented, Stream!Spec

\* The send_buffer ends with what has not arrived.
LEMMA Kept == ASSUME TypeInv, InOrder PROVE UndeliveredKept
<1> SUFFICES ASSUME NEW e \in Ends
             PROVE  IsSuffix(SubSeq(sent[e], Len(arrived[peer(e)]) + 1, Len(sent[e])),
                             [i \in DOMAIN socket[e].send_buffer |-> socket[e].send_buffer[i].message])
  BY DEF UndeliveredKept
<1> DEFINE messages == sent[e]
           buffered == socket[e].send_buffer
           a == Len(arrived[peer(e)])
           b == Popped(e)
           n == Len(sent[e])
           k == Len(buffered)
           rest == SubSeq(messages, a + 1, n)
           kept == [i \in DOMAIN buffered |-> buffered[i].message]
<1>1. /\ messages \in Seq(Messages) /\ buffered \in Seq(Entry) /\ n \in Nat /\ k \in Nat
      /\ a \in Nat /\ a <= n /\ b \in 0 .. a /\ b = n - k
  <2>1. a \in Nat /\ a <= n /\ Done(peer(e)) \in Nat /\ Done(peer(e)) <= a
    BY Come, PeerFacts
  <2>2. b \in 0 .. Done(peer(e)) BY DEF InOrder, Sending
  <2>3. b = n - k BY DEF Popped
  <2>4. messages \in Seq(Messages) /\ buffered \in Seq(Entry) /\ n \in Nat /\ k \in Nat
    BY Counters
  <2>5. b \in 0 .. a
    <3> HIDE DEF a, b
    <3> QED BY <2>1, <2>2
  <2> QED BY <2>1, <2>3, <2>4, <2>5
<1>2. \A i \in 1 .. k : buffered[i].message = messages[b + i]
  <2>1. \A i \in 1 .. k : buffered[i] = Numbered(messages, b + i)
    BY DEF InOrder, Sending
  <2>2. \A j : Numbered(messages, j).message = messages[j] BY DEF Numbered
  <2> HIDE DEF k, buffered, messages, b
  <2> QED BY <2>1, <2>2, Zenon
<1>3. /\ rest \in Seq(Messages) /\ Len(rest) = n - a
      /\ \A i \in 1 .. n - a : rest[i] = messages[a + i]
  <2> HIDE DEF messages, a, n
  <2>1. n = Len(messages) BY DEF n, messages
  <2>2. a + 1 \in 1 .. n + 1 BY <1>1
  <2> QED BY <1>1, <2>1, <2>2
<1>4. Len(kept) = k /\ \A i \in 1 .. k : kept[i] = messages[b + i]
  <2>1. DOMAIN buffered = 1 .. k BY <1>1
  <2> HIDE DEF buffered, messages, b, k
  <2> QED BY <1>1, <1>2, <2>1
<1> HIDE DEF messages, buffered, a, b, n, k, rest, kept
<1> DEFINE tser == Reverse(rest)
           tpek == Reverse(kept)
<1>5. n - a <= k /\ n - a \in Nat /\ \A i \in 1 .. n - a : i \in 1 .. k
  BY <1>1
<1>6. /\ Len(tser) = n - a /\ DOMAIN tser = 1 .. n - a
      /\ \A i \in 1 .. n - a : tser[i] = messages[n + 1 - i]
  <2>1. tser = [i \in 1 .. n - a |-> rest[(n - a - i) + 1]] BY <1>3 DEF Reverse
  <2>2. ASSUME NEW i \in 1 .. n - a PROVE rest[(n - a - i) + 1] = messages[n + 1 - i]
    <3>1. (n - a - i) + 1 \in 1 .. n - a /\ a + ((n - a - i) + 1) = n + 1 - i BY <1>1
    <3> QED BY <1>3, <3>1
  <2> HIDE DEF tser
  <2> QED BY <1>5, <2>1, <2>2
<1>7. /\ Len(tpek) = k
      /\ \A i \in 1 .. n - a : tpek[i] = messages[n + 1 - i]
  <2>1. tpek = [i \in 1 .. k |-> kept[(k - i) + 1]] BY <1>4 DEF Reverse
  <2>2. ASSUME NEW i \in 1 .. n - a PROVE kept[(k - i) + 1] = messages[n + 1 - i]
    <3>1. (k - i) + 1 \in 1 .. k /\ b + ((k - i) + 1) = n + 1 - i BY <1>1, <1>5
    <3> QED BY <1>4, <3>1
  <2> HIDE DEF tpek
  <2> QED BY <1>1, <1>5, <2>1, <2>2
<1>8. SubSeq(tser, 1, n - a) = SubSeq(tpek, 1, n - a)
  <2>1. /\ SubSeq(tser, 1, n - a) = [i \in 1 .. n - a |-> tser[i]]
        /\ SubSeq(tpek, 1, n - a) = [i \in 1 .. n - a |-> tpek[i]]
    <3> HIDE DEF tser, tpek
    <3> QED BY <1>5
  <2> HIDE DEF tser, tpek
  <2> QED BY <1>6, <1>7, <2>1
<1>9. IsPrefix(tser, tpek) 
  <2> HIDE DEF tser, tpek
  <2> QED BY <1>5, <1>6, <1>7, <1>8 DEF IsPrefix
<1>10. IsSuffix(rest, kept) BY <1>9 DEF IsSuffix
<1> QED BY <1>10 DEF rest, kept, messages, buffered, a, n

\* Under the same assumption what has not arrived is still in the send_buffer: a
\* SUCCESS, which does not say for what, never takes off such a message.
THEOREM UndeliveredKeptAlways ==
    ASSUME Reliable
    PROVE  Spec => []UndeliveredKept
<1>1. Init => TypeInv /\ InOrder BY TypeInit, InitInOrder
<1>2. TypeInv /\ InOrder /\ [Next]_vars => (TypeInv /\ InOrder)'
  BY TypeNext, InOrderNext
<1>3. TypeInv /\ InOrder => UndeliveredKept BY Kept
<1> QED BY <1>1, <1>2, <1>3, PTL DEF Spec
=============================================================================
