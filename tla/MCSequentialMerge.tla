------------------------- MODULE MCSequentialMerge -------------------------
(***************************************************************************)
(* Three backends, each with a filter.  The second and the third use both  *)
(* values of the first response, which the second may overwrite in the     *)
(* merged one, and the third one of the second.  The id of the first is an *)
(* empty string.                                                           *)
(***************************************************************************)
EXTENDS SequentialMerge

CONSTANTS id, name

MCKeys     == {id, name}
MCKeySets  == {{}, {name}, {id, name}}
MCFiltered == 1..N
MCReplacements ==
  [b \in 1..N |-> CASE b = 2 -> {[from |-> 1, key |-> id], [from |-> 1, key |-> name]}
                    [] b = 3 -> {[from |-> 1, key |-> id], [from |-> 1, key |-> name],
                                 [from |-> 2, key |-> id]}
                    [] OTHER -> {}]
MCBlank    == {[from |-> 1, key |-> id]}

=============================================================================
