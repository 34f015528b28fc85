------------------------- MODULE MC_RemoteService -------------------------
(* Model-checking instance of RemoteService.  The number of send rules,  *)
(* the replies, the queue length and the bounds are set per run.         *)
EXTENDS RemoteService
=============================================================================
