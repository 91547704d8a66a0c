-------------------------- MODULE MCParallelMerge --------------------------
(***************************************************************************)
(* Three backends, the first with no filter, answering with one key or     *)
(* with no body at all: enough for a failure before, between and after     *)
(* responses, and for a request whose filters leave one or two backends.   *)
(***************************************************************************)
EXTENDS ParallelMerge

CONSTANT name

MCKeys     == {name}
MCKeySets  == {{name}}
MCFiltered == {2, 3}
=============================================================================
