--------------------------- MODULE ReliableStream ---------------------------
(***************************************************************************)
(* What the session layer takes a transport/udp socket for: a stream of    *)
(* messages in each direction.  What arrives is what was sent, whole, once *)
(* and in order; something may always be under way.                        *)
(***************************************************************************)
EXTENDS Sequences, Naturals

CONSTANT Messages

Ends    == {"client", "server"}
peer(e) == IF e = "client" THEN "server" ELSE "client"

VARIABLES sent,     \* end -> the messages it has sent
          arrived   \* end -> the messages that have arrived there

streams == <<sent, arrived>>

Init == sent = [e \in Ends |-> <<>>] /\ arrived = [e \in Ends |-> <<>>]

Send(e, m) ==
    /\ sent' = [sent EXCEPT ![e] = Append(@, m)]
    /\ UNCHANGED arrived

Arrive(e) ==
    /\ Len(arrived[e]) < Len(sent[peer(e)])
    /\ arrived' = [arrived EXCEPT ![e] = Append(@, sent[peer(e)][Len(@) + 1])]
    /\ UNCHANGED sent

Next == \E e \in Ends : Arrive(e) \/ \E m \in Messages : Send(e, m)

Spec == Init /\ [][Next]_streams
=============================================================================
