-------------------------- MODULE MCTransferServer --------------------------
(***************************************************************************)
(* One client that connects twice, two threads of the pool: what another   *)
(* client adds is ticks of the timers, which come anyway when nothing      *)
(* arrives, and tasks that keep a thread of the pool.                      *)
(***************************************************************************)
EXTENDS TransferServer
=============================================================================
