------------------------------ MODULE MCRelay ------------------------------
(***************************************************************************)
(* A body of two chunks: enough for a copy cut short in the middle and for *)
(* a chunk that waits for another.  One call, or two concurrent ones.      *)
(***************************************************************************)
EXTENDS Relay

MCConcurrency == {1, 2}
=============================================================================
