--------------------------- MODULE MCHandlerRaces ---------------------------
(***************************************************************************)
(* Two connections, two accounts of staff and one table are enough.        *)
(***************************************************************************)
EXTENDS HandlerRaces

CONSTANTS c1, c2, p, q, t1
=============================================================================
