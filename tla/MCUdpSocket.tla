---------------------------- MODULE MCUdpSocket ----------------------------
(***************************************************************************)
(* Small instances of UdpSocket: four messages of one package, of two, and *)
(* one that fills the first of its two; the fourth has the id of the first.*)
(***************************************************************************)
EXTENDS UdpSocket

Of(name, packages, full) == [name |-> name, packages |-> packages, full |-> full]
Long    == Of("long", 2, FALSE)
Short   == Of("short", 1, FALSE)
Full    == Of("full", 2, TRUE)
Again   == Of("last", 1, FALSE)
Request == Of("request", 1, FALSE)
Kinds   == {Long, Short, Full, Again, Request}

Chat  == [e \in Ends |-> IF e = "server" THEN <<Long, Short, Full, Again>> ELSE <<Request>>]
=============================================================================
