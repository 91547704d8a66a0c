----------------------------- MODULE Documents -----------------------------
(***************************************************************************)
(* Documents, and what the formatter of a backend does to them one key at  *)
(* a time (proxy/formatter.go).  A document is a tree of dictionaries;     *)
(* whatever is not a dictionary is a leaf, lists too: no operation looks   *)
(* into them.  A dotted name is the sequence of its parts, and leads to a  *)
(* part of a document as a path.                                           *)
(***************************************************************************)
EXTENDS Integers, Sequences

CONSTANTS Names,  \* the keys of documents and the parts of dotted names
          Depth   \* documents are nested as deep as that at most

ASSUME DepthAssumption == Depth \in Nat

Leaf(v)    == [dict |-> FALSE, val |-> v, kids |-> <<>>]
Dict(kids) == [dict |-> TRUE, val |-> "", kids |-> kids]
EmptyDict  == Dict(<<>>)

Keys(d)        == DOMAIN d.kids
Put(d, k, v)   == Dict([l \in Keys(d) \cup {k} |-> IF l = k THEN v ELSE d.kids[l]])
Without(d, k)  == Dict([l \in Keys(d) \ {k} |-> d.kids[l]])

\* What d has under a path; it is for paths of d.
At(d, path) ==
  LET at[n \in 0..Len(path)] == IF n = 0 THEN d ELSE at[n - 1].kids[path[n]]
  IN  at[Len(path)]

HasPath(d, path) ==
  \A i \in 1..Len(path) : path[i] \in Keys(At(d, SubSeq(path, 1, i - 1)))

Paths(d) == {p \in UNION {[1..n -> Names] : n \in 0..Depth} : HasPath(d, p)}

\* The entries of d and of all that is in it.
Nodes(d) == Paths(d) \ {<<>>}

Document(d) ==
  \A p \in Paths(d) : LET e == At(d, p)
                      IN  /\ Keys(e) \subseteq Names
                          /\ ~e.dict \/ Len(p) = Depth => Keys(e) = {}

-----------------------------------------------------------------------------
\* Target: the dictionary under a path takes the place of the document;
\* nothing is left where there is none.
ExtractTarget(target, d) ==
  IF HasPath(d, target) /\ At(d, target).dict THEN At(d, target) ELSE EmptyDict

\* Mapping.  A key renamed to itself is gone: the value is stored, then
\* deleted.
RenamedCopy(d, from, to) == IF from \in Keys(d) THEN Put(d, to, d.kids[from]) ELSE d

Renamed(d, from, to) ==
  IF from \in Keys(d) THEN Without(Put(d, to, d.kids[from]), from) ELSE d

\* Only the first part of a dotted new name counts.
NewName(format, key) == Head(format.mapping[key])

Grouped(format, d) ==
  IF format.group = "" THEN d ELSE Dict([k \in {format.group} |-> d])
=============================================================================
