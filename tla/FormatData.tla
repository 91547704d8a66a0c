----------------------------- MODULE FormatData -----------------------------
(***************************************************************************)
(* The filters of proxy/formatter.go: the trees they make of a list of     *)
(* dotted names, and their recursive walk through a tree and a document.   *)
(* The iterations over a Go map whose order cannot be seen in the result   *)
(* are done at once.                                                       *)
(***************************************************************************)
EXTENDS Documents, SequencesExt

-----------------------------------------------------------------------------
(* The trees.  They are built in place: the dictionaries on the way to the *)
(* end of a path are those of the tree, or new ones where it has none.     *)

Graft(tree, path, leaf) ==
  LET len == Len(path)
      \* what stands in the end under all but the last n parts of the path
      grafted[n \in 0..len] ==
        IF n = 0 THEN leaf
        ELSE Put(ExtractTarget(SubSeq(path, 1, len - n), tree),
                 path[len - n + 1], grafted[n - 1])
  IN  grafted[len]

\* A path replaces the entries below it, and an entry above it: the list of
\* allowed names is not a set.
AddAllowed(tree, path) == Graft(tree, path, Leaf("allowed"))

AddDeniedBelow(tree, path) == Graft(tree, path, Leaf("denied"))

\* A denied entry covers whatever is below it, also what comes later.
AddDenied(tree, path) ==
  IF \E n \in 1..Len(path) - 1 : LET p == SubSeq(path, 1, n)
                                 IN  HasPath(tree, p) /\ ~At(tree, p).dict
  THEN tree ELSE Graft(tree, path, Leaf("denied"))

AddPath(kind, tree, path) ==
  IF kind = "allow" THEN AddAllowed(tree, path) ELSE AddDenied(tree, path)

PathTree(kind, list) ==
  LET tree[n \in 0..Len(list)] ==
        IF n = 0 THEN EmptyDict ELSE AddPath(kind, tree[n - 1], list[n])
  IN  tree[Len(list)]

-----------------------------------------------------------------------------
(* One call for a part of the tree and the part of the document that goes  *)
(* with it; left is what the recursive calls leave of the entries that the *)
(* tree has too.                                                           *)

\* A dictionary that loses all its entries goes too.
AllowlistPrune(tree, d, left) ==
  Dict([k \in {l \in Keys(d) \cap Keys(tree) :
                \/ ~tree.kids[l].dict
                \/ d.kids[l].dict /\ Keys(left[l]) # {}} |->
          IF tree.kids[k].dict THEN left[k] ELSE d.kids[k]])

\* An emptied dictionary stays.
RecDelete(tree, d, left) ==
  IF ~d.dict THEN d
  ELSE Dict([k \in {l \in Keys(d) : l \in Keys(tree) => tree.kids[l].dict} |->
               IF k \in Keys(tree) THEN left[k] ELSE d.kids[k]])

Walk(kind, tree, d) ==
  LET left[p \in Paths(d)] ==
        LET t == At(tree, p)
            e == At(d, p)
            below == [k \in Keys(e) \cap Keys(t) |-> left[Append(p, k)]]
        IN  IF kind = "allow" THEN AllowlistPrune(t, e, below) ELSE RecDelete(t, e, below)
  IN  left[<<>>]

\* The filter of a backend: its deny list counts only without an allow list.
NewPropertyFilter(format, d) ==
  IF format.allow # <<>> THEN Walk("allow", PathTree("allow", format.allow), d)
                         ELSE Walk("deny", PathTree("deny", format.deny), d)
=============================================================================
