--------------------------- MODULE SerialHandling ---------------------------
(***************************************************************************)
(* What the session layer takes the transfer server for: the messages of a *)
(* connection are handled one at a time and in the order they arrive; any  *)
(* number of connections at once.  Nothing says that all are handled.      *)
(***************************************************************************)
EXTENDS Naturals, Sequences

CONSTANT Links    \* the connections there ever are

VARIABLES arrived,  \* link -> how many messages have arrived, 0, 1, 2 ...
          handled,  \* link -> the messages given to a handler so far
          busy      \* link -> a handler is at work

handling == <<arrived, handled, busy>>

Init ==
    /\ arrived = [l \in Links |-> 0]
    /\ handled = [l \in Links |-> <<>>]
    /\ busy = [l \in Links |-> FALSE]

Arrive(l) ==
    /\ arrived' = [arrived EXCEPT ![l] = @ + 1]
    /\ UNCHANGED <<handled, busy>>

Begin(l) ==
    /\ ~busy[l] /\ Len(handled[l]) < arrived[l]
    /\ handled' = [handled EXCEPT ![l] = Append(@, Len(@))]
    /\ busy' = [busy EXCEPT ![l] = TRUE]
    /\ UNCHANGED arrived

End(l) ==
    /\ busy[l]
    /\ busy' = [busy EXCEPT ![l] = FALSE]
    /\ UNCHANGED <<arrived, handled>>

Next == \E l \in Links : Arrive(l) \/ Begin(l) \/ End(l)

Spec == Init /\ [][Next]_handling
=============================================================================
