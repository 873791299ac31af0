------------------------------- MODULE MCBets -------------------------------
(***************************************************************************)
(* Every kind of bet on every number some kind accepts, and beyond (38 is  *)
(* past every range), for nothing, for one unit and for two.               *)
(***************************************************************************)
EXTENDS BetTable

AllNumbers == 0 .. 38
FewValues  == 0 .. 2
=============================================================================
