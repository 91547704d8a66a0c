------------------------- MODULE MCConcurrentCalls -------------------------
(***************************************************************************)
(* Three calls, the first to a backend that minds no context: enough for a *)
(* winner while one call is under way and another has already failed.      *)
(***************************************************************************)
EXTENDS ConcurrentCalls

MCDeaf == {1}
=============================================================================
