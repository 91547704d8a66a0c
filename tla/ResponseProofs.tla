--------------------------- MODULE ResponseProofs ---------------------------
(***************************************************************************)
(* Proofs about Response, for every endpoint, format, answer and document: *)
(* what the formatter's trees and their recursive walk select, by          *)
(* induction over the paths of documents, and what becomes of the answer.  *)
(***************************************************************************)
EXTENDS Response, SequenceTheorems, WellFoundedInduction, TLAPS

\* What the stages before know of the answer.
AnswerInv ==
  /\ \E g \in Given : endpoint = g[1] /\ answer = g[2]
  /\ stage \in {"round trip", "status", "parse", "filter", "rename"} => resp = Nil /\ err = ""
  /\ stage \in {"status", "parse", "filter", "rename"} => answer.status # 0
  /\ stage \in {"parse", "filter", "rename"} => NoOp \/ StatusOK
  /\ stage \in {"filter", "rename"} => ~NoOp /\ StatusOK /\ answer.decodes
  /\ stage = "filter" => data = ExtractTarget(Format.target, answer.doc)

\* New names that are apart from each other and from all names in use.
Apart(format, before) ==
  LET old == DOMAIN format.mapping \cap Keys(before)
  IN  /\ \A k, l \in old : NewName(format, k) = NewName(format, l) => k = l
      /\ \A k \in old : NewName(format, k) \notin Keys(before) \cup DOMAIN format.mapping

\* The keys renamed so far have given way to their new names.
RenamedSoFar(format, before, d, left) ==
  LET done == (DOMAIN format.mapping \ left) \cap Keys(before)
  IN  /\ Keys(d) = (Keys(before) \ done) \cup {NewName(format, k) : k \in done}
      /\ \A k \in Keys(before) :
           d.kids[IF k \in done THEN NewName(format, k) ELSE k] = before.kids[k]

RenameInv ==
  stage = "rename" /\ Apart(Format, filtered) => RenamedSoFar(Format, filtered, data, todo)

\* The second document is the first with static data, if any.
SameButStatic(whole, d) ==
  LET keys == Keys(whole) \ {"static"}
  IN  Keys(d) \ {"static"} = keys /\ \A k \in keys : d.kids[k] = whole.kids[k]

Shaped(r) == r = [data |-> r.data, complete |-> r.complete, status |-> r.status]

\* What the proxy hands up: how a complete response came about, and where one
\* comes from when the backend failed.
OutcomeInv ==
  /\ resp # Nil => Shaped(resp)
  /\ stage = "static" \/ endpoint.static = "none" => (resp # Nil => err = "")
  /\ err = "status code" => ~NoOp /\ ~StatusOK /\ endpoint.onError = "code"
  /\ stage \in {"static", "handler", "done"} /\ resp = Nil => err # ""
  /\ resp # Nil /\ resp.complete =>
       /\ ~NoOp /\ StatusOK /\ answer.decodes /\ err = ""
       /\ SameButStatic(Grouped(Format, data), resp.data)
  /\ resp # Nil /\ endpoint.static = "none" =>
       \/ StatusOK /\ answer.decodes
       \/ NoOp /\ resp.status = answer.status /\ answer.status # 0
       \/ ~NoOp /\ endpoint.onError = "details" /\ ~StatusOK /\ answer.status # 0

IInv ==
  TypeOK /\ AnswerInv /\ RenameInv /\ OutcomeInv /\ CompletedFromSuccess /\ ErrorNotDisguised

-----------------------------------------------------------------------------
(* Induction, and sequences as names. *)

LEMMA IntervalInduction ==
  ASSUME NEW N \in Nat, NEW S, 0 \in S, \A n \in 0..N-1 : n \in S => n + 1 \in S
  PROVE  0..N \subseteq S
<1> DEFINE R == OpToRel(<, Nat)
           T == {n \in 0..N : n \notin S}
<1>1. SUFFICES ASSUME T # {} PROVE FALSE  OBVIOUS
<1>2. IsWellFoundedOn(R, Nat)  BY NatLessThanWellFounded
<1>3. R = {p \in Nat \X Nat : p[1] < p[2]}  BY DEF OpToRel
<1> HIDE DEF R
<1>4. T \in SUBSET Nat  OBVIOUS
<1>5. PICK x \in T : \A y \in T : <<y, x>> \notin R  BY <1>1, <1>2, <1>4, WFMin
<1>6. x \in Nat \ {0} /\ x <= N  OBVIOUS
<1>7. x - 1 \in 0..N-1 /\ x - 1 < x /\ (x - 1) + 1 = x  BY <1>6
<1>8. <<x - 1, x>> \in R  BY <1>3, <1>6, <1>7
<1>9. x - 1 \in S  BY <1>5, <1>7, <1>8
<1>10. QED  BY <1>5, <1>7, <1>9

\* Induction over the paths: from each to the next longer ones.
LEMMA PathInduction ==
  ASSUME NEW N, NEW S, <<>> \in S,
         \A p \in Seq(N), k \in N : p \in S => Append(p, k) \in S
  PROVE  Seq(N) \subseteq S
<1>1. SUFFICES ASSUME NEW q \in Seq(N) PROVE q \in S  OBVIOUS
<1> DEFINE T == {n \in 0..Len(q) : \A p \in Seq(N) : Len(p) = n => p \in S}
<1>2. Len(q) \in Nat  BY LenProperties
<1>3. 0 \in T
  <2>1. \A p \in Seq(N) : Len(p) = 0 => p = <<>>  BY EmptySeq
  <2>2. QED  BY <1>2, <2>1
<1>4. ASSUME NEW n \in 0..Len(q)-1, n \in T PROVE n + 1 \in T
  <2>1. n + 1 \in 0..Len(q)  BY <1>2
  <2>2. ASSUME NEW p \in Seq(N), Len(p) = n + 1 PROVE p \in S
    <3>1. p # <<>>  BY <2>2, EmptySeq
    <3>2. PICK s \in Seq(N), k \in N : p = Append(s, k)  BY <3>1, SequenceEmptyOrAppend
    <3>3. Len(s) \in Nat /\ Len(p) = Len(s) + 1  BY <3>2, AppendProperties, LenProperties
    <3>4. s \in S  BY <1>4, <2>2, <3>3
    <3>5. QED  BY <3>2, <3>4
  <2>3. QED  BY <2>1, <2>2
<1>5. Len(q) \in T
  <2> HIDE DEF T
  <2>1. 0..Len(q) \subseteq T  BY <1>2, <1>3, <1>4, IntervalInduction
  <2>2. QED  BY <1>2, <2>1
<1>6. QED  BY <1>5

\* Prefixes, position by position.
LEMMA PrefixDef ==
  ASSUME NEW N, NEW p \in Seq(N), NEW q \in Seq(N)
  PROVE  IsPrefix(p, q) <=> /\ Len(p) <= Len(q)
                            /\ \A i \in 1..Len(p) : p[i] = q[i]
<1>1. Len(p) \in Nat /\ Len(q) \in Nat  BY LenProperties
<1>2. SubSeq(p, 1, Len(p)) = p  BY SubSeqFull
<1>3. SUFFICES ASSUME Len(p) <= Len(q)
               PROVE  p = SubSeq(q, 1, Len(p)) <=> \A i \in 1..Len(p) : p[i] = q[i]
  BY <1>1, <1>2 DEF IsPrefix
<1>4. \A i \in 1..Len(p) : q[i] \in N  BY <1>1, <1>3, ElementOfSeq
<1> DEFINE s == SubSeq(q, 1, Len(p))
<1>5. s \in Seq(N) /\ Len(s) = Len(p) /\ \A i \in 1..Len(p) : s[i] = q[i]
  BY <1>1, <1>4, SubSeqProperties
<1> HIDE DEF s
<1>6. QED  BY <1>5, SeqEqual DEF s

LEMMA PrefixOrder ==
  ASSUME NEW N, NEW p \in Seq(N), NEW q \in Seq(N)
  PROVE  /\ IsPrefix(p, p) /\ IsPrefix(<<>>, p)
         /\ IsPrefix(p, <<>>) => p = <<>>
         /\ IsPrefix(p, q) /\ IsPrefix(q, p) => p = q
<1> DEFINE e == <<>>
<1>1. Len(p) \in Nat /\ Len(q) \in Nat /\ e \in Seq(N) /\ Len(e) = 0 /\ (Len(p) = 0 => p = e)
  BY LenProperties, EmptySeq
<1> HIDE DEF e
<1>2. IsPrefix(p, p) /\ IsPrefix(e, p)
  <2>1. 1..Len(e) = {}  BY <1>1
  <2>2. IsPrefix(e, p) <=> Len(e) <= Len(p) /\ \A i \in 1..Len(e) : e[i] = p[i]
    BY <1>1, PrefixDef
  <2>3. IsPrefix(p, p) <=> Len(p) <= Len(p) /\ \A i \in 1..Len(p) : p[i] = p[i]
    BY <1>1, PrefixDef
  <2>4. QED  BY <1>1, <2>1, <2>2, <2>3
<1>3. ASSUME IsPrefix(p, e) PROVE p = e
  <2>1. Len(p) <= Len(e)  BY <1>1, <1>3, PrefixDef
  <2>2. QED  BY <1>1, <2>1
<1>4. ASSUME IsPrefix(p, q), IsPrefix(q, p) PROVE p = q
  <2>1. Len(p) = Len(q) /\ \A i \in 1..Len(p) : p[i] = q[i]  BY <1>1, <1>4, PrefixDef
  <2>2. QED  BY <2>1, SeqEqual
<1>5. QED  BY <1>2, <1>3, <1>4 DEF e

LEMMA PrefixTransitive ==
  ASSUME NEW N, NEW p \in Seq(N), NEW q \in Seq(N), NEW r \in Seq(N)
  PROVE  /\ IsPrefix(p, q) /\ IsPrefix(q, r) => IsPrefix(p, r)
         /\ IsPrefix(p, r) /\ IsPrefix(q, r) => IsPrefix(p, q) \/ IsPrefix(q, p)
<1>1. Len(p) \in Nat /\ Len(q) \in Nat /\ Len(r) \in Nat  BY LenProperties
<1>2. QED  BY <1>1, PrefixDef

LEMMA PrefixAppend ==
  ASSUME NEW N, NEW p \in Seq(N), NEW q \in Seq(N), NEW k \in N
  PROVE  /\ IsPrefix(q, Append(p, k)) <=> IsPrefix(q, p) \/ q = Append(p, k)
         /\ IsPrefix(Append(p, k), q) <=>
              IsPrefix(p, q) /\ Len(p) < Len(q) /\ q[Len(p) + 1] = k
         /\ IsPrefix(p, Append(p, k)) /\ ~IsPrefix(Append(p, k), p)
<1> DEFINE pk == Append(p, k)
<1>1. /\ pk \in Seq(N) /\ Len(pk) = Len(p) + 1 /\ pk[Len(p) + 1] = k
      /\ \A i \in 1..Len(p) : pk[i] = p[i]
      /\ Len(p) \in Nat /\ Len(q) \in Nat
  BY AppendProperties, LenProperties
<1> HIDE DEF pk
<1>2. IsPrefix(q, pk) <=> IsPrefix(q, p) \/ q = pk
  <2>1. CASE Len(q) <= Len(p)
    <3>1. q # pk  BY <1>1, <2>1
    <3>2. \A i \in 1..Len(q) : i \in 1..Len(p) /\ pk[i] = p[i]  BY <1>1, <2>1
    <3>3. QED  BY <1>1, <2>1, <3>1, <3>2, PrefixDef
  <2>2. CASE Len(q) > Len(p)
    <3>1. ~IsPrefix(q, p)  BY <1>1, <2>2, PrefixDef
    <3>2. IsPrefix(q, pk) => Len(q) = Len(pk) /\ \A i \in 1..Len(q) : q[i] = pk[i]
      BY <1>1, <2>2, PrefixDef
    <3>3. IsPrefix(q, pk) => q = pk  BY <1>1, <3>2, SeqEqual
    <3>4. q = pk => IsPrefix(q, pk)  BY <1>1, PrefixOrder
    <3>5. QED  BY <3>1, <3>3, <3>4
  <2>3. QED  BY <1>1, <2>1, <2>2
<1>3. IsPrefix(pk, q) <=> IsPrefix(p, q) /\ Len(p) < Len(q) /\ q[Len(p) + 1] = k
  <2>1. \A i \in 1..Len(p) + 1 : i \in 1..Len(p) \/ i = Len(p) + 1  BY <1>1
  <2>2. IsPrefix(pk, q) <=> /\ Len(p) + 1 <= Len(q)
                            /\ \A i \in 1..Len(p) + 1 : pk[i] = q[i]
    BY <1>1, PrefixDef
  <2>3. IsPrefix(p, q) <=> Len(p) <= Len(q) /\ \A i \in 1..Len(p) : p[i] = q[i]
    BY PrefixDef
  <2>4. QED  BY <1>1, <2>1, <2>2, <2>3
<1>4. IsPrefix(p, pk)  BY <1>1, PrefixDef
<1>5. ~IsPrefix(pk, p)  BY <1>1, PrefixDef
<1>6. QED  BY <1>2, <1>3, <1>4, <1>5 DEF pk

-----------------------------------------------------------------------------
(* Paths. *)

\* A walk along a path ends where one along a longer path passes.
LEMMA AtFacts ==
  ASSUME NEW d
  PROVE  /\ At(d, <<>>) = d
         /\ \A p \in Seq(Names), k \in Names : At(d, Append(p, k)) = At(d, p).kids[k]
<1> DEFINE Steps(p, w) == w = [n \in 0..Len(p) |-> IF n = 0 THEN d ELSE w[n - 1].kids[p[n]]]
           S == {p \in Seq(Names) : \E w : Steps(p, w)}
<1>1. ASSUME NEW p, NEW w, Len(p) \in Nat, Steps(p, w)
      PROVE  w[0] = d /\ \A n \in 1..Len(p) : w[n] = w[n - 1].kids[p[n]]
  <2>1. 0 \in 0..Len(p) /\ \A n \in 1..Len(p) : n \in 0..Len(p) /\ n # 0  BY <1>1
  <2>2. QED  BY <1>1, <2>1
<1>2. ASSUME NEW p \in Seq(Names), p \in S PROVE Steps(p, CHOOSE w : Steps(p, w))
  <2> HIDE DEF Steps
  <2>1. QED  BY <1>2
<1>3. ASSUME NEW p PROVE At(d, p) = (CHOOSE w : Steps(p, w))[Len(p)]
  BY DEF At
<1>4. <<>> \in S /\ Len(<<>>) = 0
  <2>1. <<>> \in Seq(Names) /\ Len(<<>>) = 0  BY EmptySeq
  <2> DEFINE v == [n \in 0..0 |-> d]
  <2>2. v = [n \in 0..0 |-> IF n = 0 THEN d ELSE v[n - 1].kids[<<>>[n]]]
    <3>1. \A n \in 0..0 : n = 0  OBVIOUS
    <3>2. QED  BY <3>1
  <2>3. Steps(<<>>, v)  BY <2>1, <2>2
  <2> HIDE DEF v, Steps
  <2>4. QED  BY <2>1, <2>3
<1>5. ASSUME NEW p \in Seq(Names), NEW k \in Names, p \in S PROVE Append(p, k) \in S
  <2> DEFINE q == Append(p, k)
  <2>1. /\ q \in Seq(Names) /\ Len(q) = Len(p) + 1 /\ q[Len(p) + 1] = k /\ Len(p) \in Nat
        /\ \A i \in 1..Len(p) : q[i] = p[i]
    BY AppendProperties, LenProperties
  <2> HIDE DEF q
  <2>2. PICK w : Steps(p, w)  BY <1>5
  <2>3. w[0] = d /\ \A n \in 1..Len(p) : w[n] = w[n - 1].kids[p[n]]  BY <1>1, <2>1, <2>2
  <2> DEFINE v == [n \in 0..Len(p) + 1 |-> IF n = Len(p) + 1 THEN w[Len(p)].kids[k] ELSE w[n]]
  <2>4. ASSUME NEW n \in 0..Len(p) + 1
        PROVE  v[n] = IF n = 0 THEN d ELSE v[n - 1].kids[q[n]]
    <3>1. CASE n = 0  BY <2>1, <2>3, <3>1
    <3>2. CASE n = Len(p) + 1
      <4>1. v[n] = w[Len(p)].kids[k] /\ v[n - 1] = w[Len(p)] /\ n # 0 /\ q[n] = k
        BY <2>1, <3>2
      <4>2. QED  BY <4>1
    <3>3. CASE n \in 1..Len(p)
      <4>1. v[n] = w[n] /\ v[n - 1] = w[n - 1] /\ n # 0 /\ q[n] = p[n]  BY <2>1, <3>3
      <4>2. QED  BY <2>3, <3>3, <4>1
    <3>4. QED  BY <2>1, <3>1, <3>2, <3>3
  <2>5. v = [n \in 0..Len(p) + 1 |-> IF n = 0 THEN d ELSE v[n - 1].kids[q[n]]]
    <3>1. v = [n \in 0..Len(p) + 1 |-> v[n]]  OBVIOUS
    <3> HIDE DEF v
    <3>2. QED  BY <2>4, <3>1
  <2>6. Steps(q, v)  BY <2>1, <2>5
  <2> HIDE DEF v, Steps
  <2>7. QED  BY <2>1, <2>6 DEF q
<1>6. Seq(Names) \subseteq S
  <2> HIDE DEF S
  <2>1. QED  BY <1>4, <1>5, PathInduction
<1>7. At(d, <<>>) = d
  <2>1. <<>> \in Seq(Names)  BY EmptySeq
  <2>2. PICK w : Steps(<<>>, w) /\ At(d, <<>>) = w[0]  BY <1>2, <1>3, <1>4, <2>1
  <2>3. QED  BY <1>1, <1>4, <2>2
<1>8. ASSUME NEW p \in Seq(Names), NEW k \in Names
      PROVE  At(d, Append(p, k)) = At(d, p).kids[k]
  <2> DEFINE q == Append(p, k)
  <2>1. /\ q \in Seq(Names) /\ Len(q) = Len(p) + 1 /\ q[Len(p) + 1] = k /\ Len(p) \in Nat
        /\ \A i \in 1..Len(p) : q[i] = p[i]
    BY AppendProperties, LenProperties
  <2> HIDE DEF q, Steps, S
  <2>2. PICK w : Steps(p, w) /\ At(d, p) = w[Len(p)]  BY <1>2, <1>3, <1>6
  <2>3. PICK v : Steps(q, v) /\ At(d, q) = v[Len(q)]  BY <1>2, <1>3, <1>6, <2>1
  <2>4. w[0] = d /\ \A n \in 1..Len(p) : w[n] = w[n - 1].kids[p[n]]  BY <1>1, <2>1, <2>2
  <2>5. v[0] = d /\ \A n \in 1..Len(p) + 1 : v[n] = v[n - 1].kids[q[n]]
    BY <1>1, <2>1, <2>3
  <2> DEFINE T == {n \in 0..Len(p) : v[n] = w[n]}
  <2>6. 0 \in T  BY <2>1, <2>4, <2>5
  <2>7. ASSUME NEW n \in 0..Len(p)-1, n \in T PROVE n + 1 \in T
    <3>1. n + 1 \in 1..Len(p) /\ n + 1 \in 1..Len(p) + 1 /\ (n + 1) - 1 = n  BY <2>1
    <3>2. q[n + 1] = p[n + 1]  BY <2>1, <3>1
    <3>3. v[n + 1] = v[n].kids[q[n + 1]]  BY <2>5, <3>1
    <3>4. w[n + 1] = w[n].kids[p[n + 1]]  BY <2>4, <3>1
    <3>5. QED  BY <2>7, <3>1, <3>2, <3>3, <3>4
  <2>8. Len(p) \in T
    <3> HIDE DEF T
    <3>1. 0..Len(p) \subseteq T  BY <2>1, <2>6, <2>7, IntervalInduction
    <3>2. QED  BY <2>1, <3>1
  <2>9. v[Len(p) + 1] = v[Len(p)].kids[k]
    <3>1. Len(p) + 1 \in 1..Len(p) + 1 /\ (Len(p) + 1) - 1 = Len(p)  BY <2>1
    <3>2. QED  BY <2>1, <2>5, <3>1
  <2>10. QED  BY <2>1, <2>2, <2>3, <2>8, <2>9 DEF q
<1>9. QED  BY <1>7, <1>8

LEMMA AtAppend ==
  ASSUME NEW d, NEW p \in Seq(Names), NEW k \in Names
  PROVE  At(d, Append(p, k)) = At(d, p).kids[k]
BY AtFacts

LEMMA FrontOfAppend ==
  ASSUME NEW N, NEW p \in Seq(N), NEW k \in N, NEW i \in 0..Len(p)
  PROVE  SubSeq(Append(p, k), 1, i) = SubSeq(p, 1, i)
<1> DEFINE q == Append(p, k)
<1>1. /\ q \in Seq(N) /\ Len(q) = Len(p) + 1 /\ Len(p) \in Nat
      /\ \A j \in 1..Len(p) : q[j] = p[j]
  BY AppendProperties, LenProperties
<1>2. /\ \A j \in 1..i : j \in 1..Len(p) /\ j \in 1..Len(q)  BY <1>1
<1>3. \A j \in 1..i : p[j] \in N /\ q[j] \in N  BY <1>1, <1>2, ElementOfSeq
<1> HIDE DEF q
<1> DEFINE s == SubSeq(q, 1, i)  t == SubSeq(p, 1, i)
<1>4. s \in Seq(N) /\ Len(s) = i /\ \A j \in 1..i : s[j] = q[j]
  BY <1>1, <1>3, SubSeqProperties
<1>5. t \in Seq(N) /\ Len(t) = i /\ \A j \in 1..i : t[j] = p[j]
  BY <1>1, <1>3, SubSeqProperties
<1> HIDE DEF s, t
<1>6. s = t  BY <1>1, <1>2, <1>4, <1>5, SeqEqual
<1>7. QED  BY <1>6 DEF s, t, q

LEMMA HasPathFacts ==
  ASSUME NEW d
  PROVE  /\ HasPath(d, <<>>)
         /\ \A p \in Seq(Names), k \in Names :
              HasPath(d, Append(p, k)) <=> HasPath(d, p) /\ k \in Keys(At(d, p))
<1>1. HasPath(d, <<>>)
  <2>1. Len(<<>>) = 0  BY EmptySeq
  <2>2. QED  BY <2>1 DEF HasPath
<1>2. ASSUME NEW p \in Seq(Names), NEW k \in Names
      PROVE  HasPath(d, Append(p, k)) <=> HasPath(d, p) /\ k \in Keys(At(d, p))
  <2> DEFINE q == Append(p, k)
  <2>1. /\ q \in Seq(Names) /\ Len(q) = Len(p) + 1 /\ q[Len(p) + 1] = k /\ Len(p) \in Nat
        /\ \A i \in 1..Len(p) : q[i] = p[i]
    BY AppendProperties, LenProperties
  <2>2. \A i \in 0..Len(p) : SubSeq(q, 1, i) = SubSeq(p, 1, i)  BY FrontOfAppend
  <2>3. SubSeq(p, 1, Len(p)) = p  BY SubSeqFull
  <2> HIDE DEF q
  <2>4. HasPath(d, q) <=> \A i \in 1..Len(p) + 1 : q[i] \in Keys(At(d, SubSeq(q, 1, i - 1)))
    BY <2>1 DEF HasPath
  <2>5. HasPath(d, p) <=> \A i \in 1..Len(p) : p[i] \in Keys(At(d, SubSeq(p, 1, i - 1)))
    BY DEF HasPath
  <2>6. \A i \in 1..Len(p) : /\ i \in 1..Len(p) + 1 /\ q[i] = p[i]
                             /\ SubSeq(q, 1, i - 1) = SubSeq(p, 1, i - 1)
    BY <2>1, <2>2
  <2>7. /\ Len(p) + 1 \in 1..Len(p) + 1 /\ q[Len(p) + 1] = k
        /\ SubSeq(q, 1, (Len(p) + 1) - 1) = p
    BY <2>1, <2>2, <2>3
  <2>8. \A i \in 1..Len(p) + 1 : i \in 1..Len(p) \/ i = Len(p) + 1  BY <2>1
  <2>9. QED  BY <2>4, <2>5, <2>6, <2>7, <2>8 DEF q
<1>3. QED  BY <1>1, <1>2

LEMMA PathsAbove ==
  ASSUME NEW d, NEW q \in Seq(Names), NEW p \in Seq(Names), HasPath(d, p), IsPrefix(q, p)
  PROVE  HasPath(d, q)
<1> DEFINE S == {r \in Seq(Names) : HasPath(d, r) /\ IsPrefix(q, r) => HasPath(d, q)}
<1>1. <<>> \in S
  <2>1. <<>> \in Seq(Names)  BY EmptySeq
  <2>2. IsPrefix(q, <<>>) => q = <<>>  BY PrefixOrder
  <2>3. QED  BY <2>1, <2>2, HasPathFacts
<1>2. ASSUME NEW r \in Seq(Names), NEW k \in Names, r \in S PROVE Append(r, k) \in S
  <2>1. Append(r, k) \in Seq(Names)  BY AppendProperties
  <2>2. IsPrefix(q, Append(r, k)) => IsPrefix(q, r) \/ q = Append(r, k)  BY PrefixAppend
  <2>3. HasPath(d, Append(r, k)) => HasPath(d, r)  BY HasPathFacts
  <2>4. QED  BY <1>2, <2>1, <2>2, <2>3
<1>3. p \in S
  <2> HIDE DEF S
  <2>1. QED  BY <1>1, <1>2, PathInduction
<1>4. QED  BY <1>3

\* Only dictionaries have entries.
WellShaped(d) == \A p \in Seq(Names) : HasPath(d, p) /\ ~At(d, p).dict => Keys(At(d, p)) = {}

LEMMA DictsAbove ==
  ASSUME NEW d, WellShaped(d), NEW q \in Seq(Names), NEW p \in Seq(Names),
         HasPath(d, p), IsPrefix(q, p), q # p
  PROVE  /\ At(d, q).dict /\ Len(q) < Len(p) /\ p[Len(q) + 1] \in Names
         /\ HasPath(d, Append(q, p[Len(q) + 1])) /\ IsPrefix(Append(q, p[Len(q) + 1]), p)
<1>1. Len(p) \in Nat /\ Len(q) \in Nat  BY LenProperties
<1>2. Len(q) < Len(p)
  <2>1. Len(q) <= Len(p) /\ \A i \in 1..Len(q) : q[i] = p[i]  BY PrefixDef
  <2>2. Len(q) # Len(p)  BY <2>1, SeqEqual
  <2>3. QED  BY <1>1, <2>1, <2>2
<1> DEFINE k == p[Len(q) + 1]
<1>3. k \in Names  BY <1>1, <1>2, ElementOfSeq
<1> HIDE DEF k
<1>4. IsPrefix(Append(q, k), p)  BY <1>2, <1>3, PrefixAppend DEF k
<1>5. Append(q, k) \in Seq(Names)  BY <1>3, AppendProperties
<1>6. HasPath(d, Append(q, k))  BY <1>4, <1>5, PathsAbove
<1>7. HasPath(d, q) /\ k \in Keys(At(d, q))  BY <1>3, <1>6, HasPathFacts
<1>8. At(d, q).dict  BY <1>7 DEF WellShaped
<1>9. QED  BY <1>2, <1>3, <1>4, <1>6, <1>8 DEF k

LEMMA PathsFacts ==
  ASSUME NEW d
  PROVE  \A p : p \in Paths(d) <=> p \in Seq(Names) /\ Len(p) \in 0..Depth /\ HasPath(d, p)
<1>1. \A p : p \in UNION {[1..n -> Names] : n \in 0..Depth}
             <=> p \in Seq(Names) /\ Len(p) \in 0..Depth
  <2>1. ASSUME NEW n \in 0..Depth, NEW p \in [1..n -> Names]
        PROVE  p \in Seq(Names) /\ Len(p) = n
    BY <2>1, DepthAssumption
  <2>2. ASSUME NEW p \in Seq(Names), Len(p) \in 0..Depth PROVE p \in [1..Len(p) -> Names]
    BY LenProperties
  <2>3. QED  BY <2>1, <2>2
<1>2. QED  BY <1>1 DEF Paths

\* The paths of a document, among all paths there are.
LEMMA DocumentFacts ==
  ASSUME NEW d, Document(d)
  PROVE  /\ WellShaped(d)
         /\ \A p \in Seq(Names) : HasPath(d, p) => Len(p) <= Depth /\ Keys(At(d, p)) \subseteq Names
         /\ Paths(d) = {p \in Seq(Names) : HasPath(d, p)}
<1> DEFINE S == {p \in Seq(Names) : HasPath(d, p) => p \in Paths(d)}
<1>1. \A p : p \in Paths(d) <=> p \in Seq(Names) /\ Len(p) \in 0..Depth /\ HasPath(d, p)
  BY PathsFacts
<1>2. <<>> \in S
  <2>1. <<>> \in Seq(Names) /\ Len(<<>>) = 0  BY EmptySeq
  <2>2. 0 \in 0..Depth  BY DepthAssumption
  <2>3. QED  BY <1>1, <2>1, <2>2
<1>3. ASSUME NEW p \in Seq(Names), NEW k \in Names, p \in S PROVE Append(p, k) \in S
  <2>1. /\ Append(p, k) \in Seq(Names) /\ Len(Append(p, k)) = Len(p) + 1 /\ Len(p) \in Nat
    BY AppendProperties, LenProperties
  <2>2. SUFFICES ASSUME HasPath(d, p), k \in Keys(At(d, p)) PROVE Len(p) + 1 \in 0..Depth
    BY <1>1, <2>1, HasPathFacts
  <2>3. p \in Paths(d) /\ Len(p) \in 0..Depth  BY <1>1, <1>3, <2>2
  <2>4. Len(p) # Depth  BY <2>2, <2>3 DEF Document
  <2>5. QED  BY <2>1, <2>3, <2>4, DepthAssumption
<1>4. Seq(Names) \subseteq S
  <2> HIDE DEF S
  <2>1. QED  BY <1>2, <1>3, PathInduction
<1>5. \A p \in Seq(Names) : HasPath(d, p) => p \in Paths(d)  BY <1>4
<1>6. \A p \in Paths(d) : Keys(At(d, p)) \subseteq Names /\ (~At(d, p).dict => Keys(At(d, p)) = {})
  BY DEF Document
<1>7. \A p \in Seq(Names) : HasPath(d, p) => Len(p) <= Depth
  <2>1. \A m \in 0..Depth : m <= Depth  BY DepthAssumption
  <2>2. QED  BY <1>1, <1>5, <2>1
<1>8. QED  BY <1>1, <1>5, <1>6, <1>7 DEF WellShaped

-----------------------------------------------------------------------------
(* One key of a dictionary, and a path put into a tree. *)

LEMMA DictFacts ==
  ASSUME NEW kids
  PROVE  Dict(kids).dict /\ Dict(kids).kids = kids /\ Keys(Dict(kids)) = DOMAIN kids
BY DEF Dict, Keys

LEMMA PutFacts ==
  ASSUME NEW d, NEW k, NEW v
  PROVE  /\ Put(d, k, v).dict
         /\ Keys(Put(d, k, v)) = Keys(d) \cup {k}
         /\ Put(d, k, v).kids[k] = v
         /\ \A l \in Keys(d) \ {k} : Put(d, k, v).kids[l] = d.kids[l]
BY DEF Put, Dict, Keys

\* The recursion of Graft, from the end of the path to the root.
GraftedBy(g, tree, path, leaf) ==
  /\ Graft(tree, path, leaf) = g[Len(path)] /\ g[0] = leaf
  /\ \A n \in 1..Len(path) :
       g[n] = Put(ExtractTarget(SubSeq(path, 1, Len(path) - n), tree),
                  path[Len(path) - n + 1], g[n - 1])

LEMMA GraftSteps ==
  ASSUME NEW tree, NEW path \in Seq(Names), NEW leaf
  PROVE  \E g : GraftedBy(g, tree, path, leaf)
<1> DEFINE len == Len(path)
           Step(n, x) == Put(ExtractTarget(SubSeq(path, 1, len - n), tree), path[len - n + 1], x)
           Rec(m, w) == w = [n \in 0..m |-> IF n = 0 THEN leaf ELSE Step(n, w[n - 1])]
           T == {m \in 0..len : \E w : Rec(m, w)}
<1>0. len \in Nat  BY LenProperties
<1>1. Graft(tree, path, leaf) = (CHOOSE w : Rec(len, w))[len]  BY DEF Graft
<1> HIDE DEF Step, len
<1>2. 0 \in T
  <2> DEFINE v == [n \in 0..0 |-> leaf]
  <2>1. v = [n \in 0..0 |-> IF n = 0 THEN leaf ELSE Step(n, v[n - 1])]
    <3>1. \A n \in 0..0 : n = 0  OBVIOUS
    <3>2. QED  BY <3>1
  <2>2. Rec(0, v)  BY <2>1
  <2> HIDE DEF v, Rec
  <2>3. QED  BY <1>0, <2>2
<1>3. ASSUME NEW m \in 0..len-1, m \in T PROVE m + 1 \in T
  <2>1. PICK w : Rec(m, w)  BY <1>3
  <2> DEFINE v == [n \in 0..m+1 |-> IF n = m + 1 THEN Step(n, w[m]) ELSE w[n]]
  <2>2. ASSUME NEW n \in 0..m+1 PROVE v[n] = IF n = 0 THEN leaf ELSE Step(n, v[n - 1])
    <3>1. CASE n = m + 1  BY <1>0, <3>1
    <3>2. CASE n = 0  BY <3>2, <2>1
    <3>3. CASE n \in 1..m
      <4>1. v[n] = w[n] /\ v[n - 1] = w[n - 1]  BY <3>3
      <4>2. w[n] = Step(n, w[n - 1])  BY <3>3, <2>1
      <4>3. QED  BY <4>1, <4>2, <3>3
    <3>4. QED  BY <1>0, <3>1, <3>2, <3>3
  <2>3. v = [n \in 0..m+1 |-> IF n = 0 THEN leaf ELSE Step(n, v[n - 1])]
    <3>1. v = [n \in 0..m+1 |-> v[n]]  OBVIOUS
    <3> HIDE DEF v
    <3>2. QED  BY <2>2, <3>1
  <2>4. Rec(m + 1, v)  BY <2>3
  <2>5. m + 1 \in 0..len  BY <1>0
  <2> HIDE DEF v, Rec
  <2>6. QED  BY <2>4, <2>5
<1>4. len \in T
  <2> HIDE DEF T
  <2>1. 0..len \subseteq T  BY <1>0, <1>2, <1>3, IntervalInduction
  <2>2. QED  BY <1>0, <2>1
<1>5. PICK w : Rec(len, w) /\ Graft(tree, path, leaf) = w[len]
  <2> HIDE DEF Rec
  <2>1. QED  BY <1>1, <1>4
<1>6. w[0] = leaf /\ \A n \in 1..len : w[n] = Step(n, w[n - 1])
  <2>1. 0 \in 0..len /\ \A n \in 1..len : n \in 0..len /\ n # 0  BY <1>0
  <2>2. QED  BY <1>5, <2>1
<1>7. GraftedBy(w, tree, path, leaf)  BY <1>5, <1>6 DEF GraftedBy, Step, len
<1>8. QED  BY <1>7

LEMMA ExtractedKeys ==
  ASSUME NEW d, WellShaped(d), NEW p \in Seq(Names)
  PROVE  /\ ExtractTarget(p, d).dict \/ ExtractTarget(p, d) = At(d, p)
         /\ \A k \in Names : k \in Keys(ExtractTarget(p, d)) <=> HasPath(d, Append(p, k))
         /\ \A k \in Keys(ExtractTarget(p, d)) : ExtractTarget(p, d).kids[k] = At(d, p).kids[k]
<1>1. \A k \in Names : HasPath(d, Append(p, k)) <=> HasPath(d, p) /\ k \in Keys(At(d, p))
  BY HasPathFacts
<1>2. EmptyDict.dict /\ Keys(EmptyDict) = {}  BY DictFacts DEF EmptyDict
<1>3. CASE HasPath(d, p) /\ At(d, p).dict
  <2>1. ExtractTarget(p, d) = At(d, p)  BY <1>3 DEF ExtractTarget
  <2>2. QED  BY <1>1, <1>3, <2>1
<1>4. CASE ~(HasPath(d, p) /\ At(d, p).dict)
  <2>1. ExtractTarget(p, d) = EmptyDict  BY <1>4 DEF ExtractTarget
  <2>2. HasPath(d, p) => Keys(At(d, p)) = {}  BY <1>4 DEF WellShaped
  <2>3. QED  BY <1>1, <1>2, <2>1, <2>2
<1>5. QED  BY <1>3, <1>4

\* A tree after a path was put into it: the path and what is not below it.
LEMMA GraftFacts ==
  ASSUME NEW tree, WellShaped(tree), NEW path \in Seq(Names), path # <<>>,
         NEW leaf, ~leaf.dict, Keys(leaf) = {}
  PROVE  LET new == Graft(tree, path, leaf)
         IN  /\ new.dict
             /\ \A p \in Seq(Names) :
                  /\ HasPath(new, p) <=> \/ IsPrefix(p, path)
                                         \/ HasPath(tree, p) /\ ~IsPrefix(path, p)
                  /\ IsPrefix(p, path) /\ p # path => At(new, p).dict
                  /\ HasPath(new, p) /\ ~IsPrefix(p, path) => At(new, p) = At(tree, p)
             /\ At(new, path) = leaf
<1> DEFINE new == Graft(tree, path, leaf)
           len == Len(path)
<1>0. PICK g : GraftedBy(g, tree, path, leaf)  BY GraftSteps
<1>1. /\ new = g[len] /\ g[0] = leaf
      /\ \A n \in 1..len : g[n] = Put(ExtractTarget(SubSeq(path, 1, len - n), tree),
                                       path[len - n + 1], g[n - 1])
  BY <1>0 DEF GraftedBy
<1> HIDE DEF new, len
<1>2. len \in Nat \ {0}  BY EmptySeq DEF len
<1> DEFINE Old(p) == HasPath(tree, p) /\ ~IsPrefix(path, p)
           S == {p \in Seq(Names) :
                   /\ HasPath(new, p) <=> IsPrefix(p, path) \/ Old(p)
                   /\ IsPrefix(p, path) => At(new, p) = g[len - Len(p)]
                   /\ HasPath(new, p) /\ ~IsPrefix(p, path) => At(new, p) = At(tree, p)}
\* A dictionary on the way.
<1>3. ASSUME NEW p \in Seq(Names), IsPrefix(p, path), p # path
      PROVE  /\ Len(p) < len
             /\ g[len - Len(p)] = Put(ExtractTarget(p, tree), path[Len(p) + 1], g[len - (Len(p) + 1)])
  <2>1. Len(p) \in Nat /\ Len(p) <= len /\ \A i \in 1..Len(p) : p[i] = path[i]
    BY <1>3, PrefixDef, LenProperties DEF len
  <2>2. Len(p) # len  BY <1>3, <2>1, SeqEqual DEF len
  <2>3. SubSeq(path, 1, Len(p)) = p
    <3>1. SubSeq(p, 1, Len(p)) = p  BY SubSeqFull
    <3>2. QED  BY <1>3, <3>1 DEF IsPrefix
  <2>4. /\ len - Len(p) \in 1..len /\ len - (len - Len(p)) = Len(p)
        /\ (len - Len(p)) - 1 = len - (Len(p) + 1) /\ Len(p) < len
    BY <1>2, <2>1, <2>2
  <2>5. QED  BY <1>1, <2>3, <2>4
<1>4. <<>> \in S
  <2>1. <<>> \in Seq(Names) /\ Len(<<>>) = 0  BY EmptySeq
  <2>2. IsPrefix(<<>>, path)  BY PrefixOrder
  <2>3. HasPath(new, <<>>)  BY HasPathFacts
  <2>4. At(new, <<>>) = g[len]  BY <1>1, AtFacts
  <2>5. len - 0 = len  BY <1>2
  <2>6. QED  BY <2>1, <2>2, <2>3, <2>4, <2>5
<1>5. ASSUME NEW p \in Seq(Names), NEW k \in Names, p \in S PROVE Append(p, k) \in S
  <2> DEFINE q == Append(p, k)
  <2>1. q \in Seq(Names) /\ Len(q) = Len(p) + 1 /\ Len(p) \in Nat
    BY AppendProperties, LenProperties
  <2>2. /\ HasPath(new, q) <=> HasPath(new, p) /\ k \in Keys(At(new, p))
        /\ HasPath(tree, q) <=> HasPath(tree, p) /\ k \in Keys(At(tree, p))
    BY HasPathFacts
  <2>20. At(new, q) = At(new, p).kids[k] /\ At(tree, q) = At(tree, p).kids[k]
    BY AtAppend
  <2>3. /\ IsPrefix(path, q) <=> IsPrefix(path, p) \/ path = q
        /\ IsPrefix(q, path) <=> IsPrefix(p, path) /\ Len(p) < len /\ path[Len(p) + 1] = k
        /\ IsPrefix(p, q) /\ ~IsPrefix(q, p)
    BY PrefixAppend DEF len
  <2>4. IsPrefix(p, path) /\ IsPrefix(path, p) => p = path  BY PrefixOrder
  <2>5. ExtractTarget(p, tree).dict \/ ExtractTarget(p, tree) = At(tree, p)  BY ExtractedKeys
  <2>6. k \in Keys(ExtractTarget(p, tree)) <=> HasPath(tree, q)  BY ExtractedKeys
  <2>7. k \in Keys(ExtractTarget(p, tree)) => ExtractTarget(p, tree).kids[k] = At(tree, p).kids[k]
    BY ExtractedKeys
  <2>8. IsPrefix(path, path)  BY PrefixOrder
  <2> HIDE DEF q
  <2>9. CASE IsPrefix(p, path) /\ p # path
    <3> DEFINE e == ExtractTarget(p, tree)  l == path[Len(p) + 1]
    <3>1. Len(p) < len /\ At(new, p) = Put(e, l, g[len - Len(q)])
      BY <1>3, <1>5, <2>1, <2>9
    <3>2. /\ Keys(At(new, p)) = Keys(e) \cup {l} /\ At(new, p).kids[l] = g[len - Len(q)]
          /\ \A m \in Keys(e) \ {l} : At(new, p).kids[m] = e.kids[m]
      BY <3>1, PutFacts
    <3> HIDE DEF e
    <3>3. HasPath(new, p)  BY <1>5, <2>9
    <3>4. CASE k = l
      <4>1. IsPrefix(q, path)  BY <2>3, <2>9, <3>1, <3>4
      <4>2. HasPath(new, q) /\ At(new, q) = g[len - Len(q)]  BY <2>2, <2>20, <3>2, <3>3, <3>4
      <4>3. QED  BY <2>1, <4>1, <4>2 DEF q
    <3>5. CASE k # l
      <4>1. ~IsPrefix(q, path)  BY <2>3, <3>5
      <4>2. ~IsPrefix(path, q)  BY <2>3, <2>4, <2>8, <2>9, <4>1
      <4>3. HasPath(new, q) <=> HasPath(tree, q)  BY <2>2, <2>6, <3>2, <3>3, <3>5 DEF e
      <4>4. HasPath(new, q) => At(new, q) = At(tree, q)
        BY <2>2, <2>20, <2>6, <2>7, <3>2, <3>5, <4>3 DEF e
      <4>5. QED  BY <2>1, <4>1, <4>2, <4>3, <4>4 DEF q
    <3>6. QED  BY <3>4, <3>5
  <2>10. CASE p = path
    <3>1. len - Len(p) = 0  BY <1>2, <2>10 DEF len
    <3>2. Keys(At(new, p)) = {}  BY <1>1, <1>5, <2>8, <2>10, <3>1
    <3>3. ~HasPath(new, q) /\ ~IsPrefix(q, path) /\ IsPrefix(path, q)
      BY <2>2, <2>3, <2>8, <2>10, <3>2
    <3>4. QED  BY <2>1, <3>3 DEF q
  <2>11. CASE ~IsPrefix(p, path)
    <3>1. ~IsPrefix(q, path) /\ path # q  BY <2>3, <2>11
    <3>2. HasPath(new, q) <=> Old(q)
      <4>1. CASE HasPath(new, p)
        <5>1. At(new, p) = At(tree, p) /\ Old(p)  BY <1>5, <2>11, <4>1
        <5>2. QED  BY <2>2, <2>3, <3>1, <4>1, <5>1
      <4>2. CASE ~HasPath(new, p)
        <5>1. ~Old(p)  BY <1>5, <4>2
        <5>2. QED  BY <2>2, <2>3, <4>2, <5>1
      <4>3. QED  BY <4>1, <4>2
    <3>3. HasPath(new, q) => At(new, q) = At(tree, q)
      <4>1. HasPath(new, q) => At(new, p) = At(tree, p)  BY <1>5, <2>2, <2>11
      <4>2. QED  BY <2>2, <2>20, <4>1
    <3>4. QED  BY <2>1, <3>1, <3>2, <3>3 DEF q
  <2>12. QED  BY <2>9, <2>10, <2>11
<1>6. Seq(Names) \subseteq S
  <2> HIDE DEF S
  <2>1. QED  BY <1>4, <1>5, PathInduction
<1>7. ASSUME NEW p \in Seq(Names), IsPrefix(p, path), p # path PROVE At(new, p).dict
  <2>1. At(new, p) = g[len - Len(p)]  BY <1>6, <1>7
  <2>2. QED  BY <1>3, <1>7, <2>1, PutFacts
<1>8. At(new, path) = leaf
  <2>1. IsPrefix(path, path) /\ len - Len(path) = 0  BY <1>2, PrefixOrder DEF len
  <2>2. QED  BY <1>1, <1>6, <2>1
<1>9. new.dict
  <2>1. <<>> \in Seq(Names) /\ IsPrefix(<<>>, path) /\ At(new, <<>>) = new
    BY EmptySeq, PrefixOrder, AtFacts
  <2>2. QED  BY <1>7, <2>1
<1>10. QED  BY <1>6, <1>7, <1>8, <1>9 DEF new

\* The paths to the leaves of a tree.
Marked(tree) == {p \in DottedNames : HasPath(tree, p) /\ ~At(tree, p).dict}

LEMMA LeafFacts ==
  ASSUME NEW v
  PROVE  ~Leaf(v).dict /\ Keys(Leaf(v)) = {}
BY DEF Leaf, Keys

LEMMA EmptyPaths ==
  ASSUME NEW p \in Seq(Names), HasPath(EmptyDict, p)
  PROVE  p = <<>>
<1>1. Keys(EmptyDict) = {}  BY DictFacts DEF EmptyDict
<1> DEFINE S == {q \in Seq(Names) : HasPath(EmptyDict, q) => q = <<>>}
<1>2. <<>> \in S  BY EmptySeq
<1>3. ASSUME NEW q \in Seq(Names), NEW k \in Names, q \in S PROVE Append(q, k) \in S
  <2>1. Append(q, k) \in Seq(Names)  BY AppendProperties
  <2>2. HasPath(EmptyDict, Append(q, k)) => HasPath(EmptyDict, q) /\ k \in Keys(At(EmptyDict, q))
    BY HasPathFacts
  <2>3. q = <<>> => At(EmptyDict, q) = EmptyDict  BY AtFacts
  <2>4. QED  BY <1>1, <1>3, <2>1, <2>2, <2>3
<1>4. Seq(Names) \subseteq S
  <2> HIDE DEF S
  <2>1. QED  BY <1>2, <1>3, PathInduction
<1>5. QED  BY <1>4

LEMMA EmptyTree == EmptyDict.dict /\ WellShaped(EmptyDict) /\ Marked(EmptyDict) = {}
<1>1. EmptyDict.dict /\ Keys(EmptyDict) = {}  BY DictFacts DEF EmptyDict
<1>2. At(EmptyDict, <<>>) = EmptyDict  BY AtFacts
<1>3. WellShaped(EmptyDict)  BY <1>1, <1>2, EmptyPaths DEF WellShaped
<1>4. Marked(EmptyDict) = {}  BY EmptyPaths DEF Marked, DottedNames
<1>5. QED  BY <1>1, <1>3, <1>4

LEMMA GraftMarks ==
  ASSUME NEW tree, WellShaped(tree), NEW path \in DottedNames,
         NEW leaf, ~leaf.dict, Keys(leaf) = {}
  PROVE  LET new == Graft(tree, path, leaf)
         IN  /\ new.dict /\ WellShaped(new)
             /\ Marked(new) = {m \in Marked(tree) : ~Comparable(m, path)} \cup {path}
<1> DEFINE new == Graft(tree, path, leaf)
<1>0. path \in Seq(Names) /\ path # <<>>  BY DEF DottedNames
<1>1. /\ new.dict /\ At(new, path) = leaf
      /\ \A p \in Seq(Names) :
           /\ HasPath(new, p) <=> \/ IsPrefix(p, path)
                                  \/ HasPath(tree, p) /\ ~IsPrefix(path, p)
           /\ IsPrefix(p, path) /\ p # path => At(new, p).dict
           /\ HasPath(new, p) /\ ~IsPrefix(p, path) => At(new, p) = At(tree, p)
  BY <1>0, GraftFacts
<1> HIDE DEF new
<1>2. WellShaped(new)
  <2>1. ASSUME NEW p \in Seq(Names), HasPath(new, p), ~At(new, p).dict
        PROVE  Keys(At(new, p)) = {}
    <3>1. CASE p = path  BY <1>1, <3>1
    <3>2. CASE p # path
      <4>1. ~IsPrefix(p, path)  BY <1>1, <2>1, <3>2
      <4>2. At(new, p) = At(tree, p) /\ HasPath(tree, p)  BY <1>1, <2>1, <4>1
      <4>3. QED  BY <2>1, <4>2 DEF WellShaped
    <3>3. QED  BY <3>1, <3>2
  <2>2. QED  BY <2>1 DEF WellShaped
<1>3. path \in Marked(new)
  <2>1. HasPath(new, path)  BY <1>0, <1>1, PrefixOrder
  <2>2. QED  BY <1>1, <2>1 DEF Marked
<1>4. ASSUME NEW m \in DottedNames, m # path
      PROVE  m \in Marked(new) <=> m \in Marked(tree) /\ ~Comparable(m, path)
  <2>0. m \in Seq(Names)  BY DEF DottedNames
  <2>1. CASE IsPrefix(m, path)
    <3>1. At(new, m).dict  BY <1>1, <1>4, <2>0, <2>1
    <3>2. QED  BY <2>1, <3>1 DEF Marked, Comparable
  <2>2. CASE ~IsPrefix(m, path)
    <3>1. /\ HasPath(new, m) <=> HasPath(tree, m) /\ ~IsPrefix(path, m)
          /\ HasPath(new, m) => At(new, m) = At(tree, m)
      BY <1>1, <2>0, <2>2
    <3>2. QED  BY <2>2, <3>1 DEF Marked, Comparable
  <2>3. QED  BY <2>1, <2>2
<1>5. Comparable(path, path)  BY <1>0, PrefixOrder DEF Comparable
<1>6. Marked(new) \subseteq DottedNames /\ Marked(tree) \subseteq DottedNames  BY DEF Marked
<1>7. Marked(new) = {m \in Marked(tree) : ~Comparable(m, path)} \cup {path}
  BY <1>3, <1>4, <1>5, <1>6
<1>8. QED  BY <1>1, <1>2, <1>7 DEF new

Covered(p, tree) == \E m \in Marked(tree) : IsPrefix(m, p)

\* A denied name covers what is below it, whatever the tree covered before.
LEMMA AddDeniedFacts ==
  ASSUME NEW tree, tree.dict, WellShaped(tree), NEW path \in DottedNames
  PROVE  LET new == AddDenied(tree, path)
         IN  /\ new.dict /\ WellShaped(new)
             /\ \A p \in Seq(Names) : Covered(p, new) <=> Covered(p, tree) \/ IsPrefix(path, p)
<1>0. path \in Seq(Names) /\ path # <<>>  BY DEF DottedNames
<1>1. Len(path) \in Nat /\ \A i \in 1..Len(path) : path[i] \in Names
  BY <1>0, LenProperties, ElementOfSeq
<1>2. CASE \E n \in 1..Len(path) - 1 : LET p == SubSeq(path, 1, n)
                                      IN  HasPath(tree, p) /\ ~At(tree, p).dict
  <2>1. AddDenied(tree, path) = tree  BY <1>2 DEF AddDenied
  <2>2. PICK n \in 1..Len(path) - 1 : LET p == SubSeq(path, 1, n)
                                      IN  HasPath(tree, p) /\ ~At(tree, p).dict
    BY <1>2
  <2> DEFINE m == SubSeq(path, 1, n)
  <2>3. m \in Seq(Names) /\ Len(m) = n /\ \A i \in 1..n : m[i] = path[i]
    BY <1>1, SubSeqProperties
  <2>4. HasPath(tree, m) /\ ~At(tree, m).dict  BY <2>2
  <2> HIDE DEF m
  <2>5. IsPrefix(m, path)  BY <1>0, <1>1, <2>3, PrefixDef
  <2>6. m # <<>>  BY <1>1, <2>3, EmptySeq
  <2>7. m \in Marked(tree)  BY <2>3, <2>4, <2>6 DEF Marked, DottedNames
  <2>8. \A p \in Seq(Names) : IsPrefix(path, p) => IsPrefix(m, p)
    BY <1>0, <2>3, <2>5, PrefixTransitive
  <2>9. QED  BY <2>1, <2>7, <2>8 DEF Covered
<1>3. CASE ~\E n \in 1..Len(path) - 1 : LET p == SubSeq(path, 1, n)
                                       IN  HasPath(tree, p) /\ ~At(tree, p).dict
  <2> DEFINE new == Graft(tree, path, Leaf("denied"))
  <2>1. AddDenied(tree, path) = new  BY <1>3 DEF AddDenied
  <2>2. /\ new.dict /\ WellShaped(new)
        /\ Marked(new) = {m \in Marked(tree) : ~Comparable(m, path)} \cup {path}
    BY LeafFacts, GraftMarks
  <2> HIDE DEF new
  <2>3. ASSUME NEW m \in Marked(tree), IsPrefix(m, path) PROVE m = path
    <3>1. m \in Seq(Names) /\ m # <<>> /\ HasPath(tree, m) /\ ~At(tree, m).dict
      BY DEF Marked, DottedNames
    <3>2. Len(m) \in Nat \ {0}  BY <3>1, EmptySeq
    <3>3. Len(m) <= Len(path) /\ \A i \in 1..Len(m) : m[i] = path[i]
      BY <1>0, <2>3, <3>1, PrefixDef
    <3>4. SubSeq(path, 1, Len(m)) = m
      <4>1. SubSeq(m, 1, Len(m)) = m  BY <3>1, SubSeqFull
      <4>2. QED  BY <2>3, <4>1 DEF IsPrefix
    <3>5. Len(m) \notin 1..Len(path) - 1  BY <1>3, <3>1, <3>4
    <3>6. Len(m) = Len(path)  BY <1>1, <3>2, <3>3, <3>5
    <3>7. QED  BY <1>0, <3>1, <3>3, <3>6, SeqEqual
  <2>4. ASSUME NEW p \in Seq(Names)
        PROVE  Covered(p, new) <=> Covered(p, tree) \/ IsPrefix(path, p)
    <3>1. Covered(p, new) => Covered(p, tree) \/ IsPrefix(path, p)  BY <2>2 DEF Covered
    <3>2. IsPrefix(path, p) => Covered(p, new)  BY <2>2 DEF Covered
    <3>3. ASSUME NEW m \in Marked(tree), IsPrefix(m, p) PROVE Covered(p, new)
      <4>1. m \in Seq(Names)  BY DEF Marked, DottedNames
      <4>2. CASE ~Comparable(m, path)  BY <2>2, <3>3, <4>2 DEF Covered
      <4>3. CASE IsPrefix(m, path)  BY <2>3, <3>2, <3>3, <4>3
      <4>4. CASE IsPrefix(path, m)  BY <1>0, <3>2, <3>3, <4>1, <4>4, PrefixTransitive
      <4>5. QED  BY <4>2, <4>3, <4>4 DEF Comparable
    <3>4. QED  BY <3>1, <3>2, <3>3 DEF Covered
  <2>5. QED  BY <2>1, <2>2, <2>4
<1>4. QED  BY <1>2, <1>3

\* The recursion of PathTree, name by name.
BuiltBy(tr, kind, list) ==
  /\ PathTree(kind, list) = tr[Len(list)] /\ tr[0] = EmptyDict
  /\ \A n \in 1..Len(list) : tr[n] = AddPath(kind, tr[n - 1], list[n])

LEMMA PathTreeSteps ==
  ASSUME NEW kind, NEW list, Len(list) \in Nat
  PROVE  \E tr : BuiltBy(tr, kind, list)
<1> DEFINE len == Len(list)
           Step(n, x) == AddPath(kind, x, list[n])
           Rec(m, w) == w = [n \in 0..m |-> IF n = 0 THEN EmptyDict ELSE Step(n, w[n - 1])]
           T == {m \in 0..len : \E w : Rec(m, w)}
<1>0. len \in Nat  OBVIOUS
<1>1. PathTree(kind, list) = (CHOOSE w : Rec(len, w))[len]  BY DEF PathTree
<1> HIDE DEF Step, len
<1>2. 0 \in T
  <2> DEFINE v == [n \in 0..0 |-> EmptyDict]
  <2>1. v = [n \in 0..0 |-> IF n = 0 THEN EmptyDict ELSE Step(n, v[n - 1])]
    <3>1. \A n \in 0..0 : n = 0  OBVIOUS
    <3>2. QED  BY <3>1
  <2>2. Rec(0, v)  BY <2>1
  <2> HIDE DEF v, Rec
  <2>3. QED  BY <1>0, <2>2
<1>3. ASSUME NEW m \in 0..len-1, m \in T PROVE m + 1 \in T
  <2>1. PICK w : Rec(m, w)  BY <1>3
  <2> DEFINE v == [n \in 0..m+1 |-> IF n = m + 1 THEN Step(n, w[m]) ELSE w[n]]
  <2>2. ASSUME NEW n \in 0..m+1 PROVE v[n] = IF n = 0 THEN EmptyDict ELSE Step(n, v[n - 1])
    <3>1. CASE n = m + 1  BY <1>0, <3>1
    <3>2. CASE n = 0  BY <3>2, <2>1
    <3>3. CASE n \in 1..m
      <4>1. v[n] = w[n] /\ v[n - 1] = w[n - 1]  BY <3>3
      <4>2. w[n] = Step(n, w[n - 1])  BY <3>3, <2>1
      <4>3. QED  BY <4>1, <4>2, <3>3
    <3>4. QED  BY <1>0, <3>1, <3>2, <3>3
  <2>3. v = [n \in 0..m+1 |-> IF n = 0 THEN EmptyDict ELSE Step(n, v[n - 1])]
    <3>1. v = [n \in 0..m+1 |-> v[n]]  OBVIOUS
    <3> HIDE DEF v
    <3>2. QED  BY <2>2, <3>1
  <2>4. Rec(m + 1, v)  BY <2>3
  <2>5. m + 1 \in 0..len  BY <1>0
  <2> HIDE DEF v, Rec
  <2>6. QED  BY <2>4, <2>5
<1>4. len \in T
  <2> HIDE DEF T
  <2>1. 0..len \subseteq T  BY <1>0, <1>2, <1>3, IntervalInduction
  <2>2. QED  BY <1>0, <2>1
<1>5. PICK w : Rec(len, w) /\ PathTree(kind, list) = w[len]
  <2> HIDE DEF Rec
  <2>1. QED  BY <1>1, <1>4
<1>6. w[0] = EmptyDict /\ \A n \in 1..len : w[n] = Step(n, w[n - 1])
  <2>1. 0 \in 0..len /\ \A n \in 1..len : n \in 0..len /\ n # 0  BY <1>0
  <2>2. QED  BY <1>5, <2>1
<1>7. BuiltBy(w, kind, list)  BY <1>5, <1>6 DEF BuiltBy, Step, len
<1>8. QED  BY <1>7

\* The tree of a deny list covers what extends a denied name.
LEMMA DenyTreeFacts ==
  ASSUME NEW list \in Seq(DottedNames)
  PROVE  LET tree == PathTree("deny", list)
         IN  /\ tree.dict /\ WellShaped(tree)
             /\ \A p \in Seq(Names) :
                  Covered(p, tree) <=> \E n \in 1..Len(list) : IsPrefix(list[n], p)
<1> DEFINE len == Len(list)
<1>1. len \in Nat /\ \A n \in 1..len : list[n] \in DottedNames
  BY LenProperties, ElementOfSeq
<1>2. PICK tr : BuiltBy(tr, "deny", list)  BY <1>1, PathTreeSteps
<1>3. /\ PathTree("deny", list) = tr[len] /\ tr[0] = EmptyDict
      /\ \A n \in 1..len : tr[n] = AddDenied(tr[n - 1], list[n])
  BY <1>2 DEF BuiltBy, AddPath
<1> HIDE DEF len
<1> DEFINE T == {m \in 0..len :
                   /\ tr[m].dict /\ WellShaped(tr[m])
                   /\ \A p \in Seq(Names) :
                        Covered(p, tr[m]) <=> \E n \in 1..m : IsPrefix(list[n], p)}
<1>4. 0 \in T
  <2>1. \A p : ~Covered(p, EmptyDict)  BY EmptyTree DEF Covered
  <2>2. 1..0 = {} /\ 0 \in 0..len  BY <1>1
  <2>3. QED  BY <1>3, <2>1, <2>2, EmptyTree
<1>5. ASSUME NEW m \in 0..len-1, m \in T PROVE m + 1 \in T
  <2>1. m + 1 \in 1..len /\ (m + 1) - 1 = m /\ m + 1 \in 0..len  BY <1>1
  <2>2. tr[m + 1] = AddDenied(tr[m], list[m + 1]) /\ list[m + 1] \in DottedNames
    BY <1>1, <1>3, <2>1
  <2>3. /\ tr[m].dict /\ WellShaped(tr[m])
        /\ \A p \in Seq(Names) : Covered(p, tr[m]) <=> \E n \in 1..m : IsPrefix(list[n], p)
    BY <1>5
  <2>4. /\ tr[m + 1].dict /\ WellShaped(tr[m + 1])
        /\ \A p \in Seq(Names) :
             Covered(p, tr[m + 1]) <=> Covered(p, tr[m]) \/ IsPrefix(list[m + 1], p)
    BY <2>2, <2>3, AddDeniedFacts
  <2>5. \A n : n \in 1..m + 1 <=> n \in 1..m \/ n = m + 1  BY <1>1
  <2>6. ASSUME NEW p \in Seq(Names)
        PROVE  Covered(p, tr[m + 1]) <=> \E n \in 1..m + 1 : IsPrefix(list[n], p)
    BY <2>3, <2>4, <2>5
  <2>7. QED  BY <2>1, <2>4, <2>6
<1>6. len \in T
  <2> HIDE DEF T
  <2>1. 0..len \subseteq T  BY <1>1, <1>4, <1>5, IntervalInduction
  <2>2. QED  BY <1>1, <2>1
<1>7. QED  BY <1>3, <1>6 DEF len

\* The tree of an allow list ends at the names that count.
LEMMA AllowTreeFacts ==
  ASSUME NEW list \in Seq(DottedNames)
  PROVE  LET tree == PathTree("allow", list)
         IN  /\ tree.dict /\ WellShaped(tree) /\ Marked(tree) = EffectiveAllow(list)
<1> DEFINE len == Len(list)
           Newest(m, j) == \A l \in j + 1..m : ~Comparable(list[j], list[l])
           Effective(m) == {list[i] : i \in {j \in 1..m : Newest(m, j)}}
<1>1. len \in Nat /\ \A n \in 1..len : list[n] \in DottedNames
  BY LenProperties, ElementOfSeq
<1>2. PICK tr : BuiltBy(tr, "allow", list)  BY <1>1, PathTreeSteps
<1>3. /\ PathTree("allow", list) = tr[len] /\ tr[0] = EmptyDict
      /\ \A n \in 1..len : tr[n] = Graft(tr[n - 1], list[n], Leaf("allowed"))
  BY <1>2 DEF BuiltBy, AddPath, AddAllowed
<1>4. EffectiveAllow(list) = Effective(len)  BY DEF EffectiveAllow
<1> HIDE DEF len
<1> DEFINE T == {m \in 0..len : tr[m].dict /\ WellShaped(tr[m]) /\ Marked(tr[m]) = Effective(m)}
<1>5. 0 \in T
  <2>1. Effective(0) = {} /\ 0 \in 0..len  BY <1>1
  <2>2. QED  BY <1>3, <2>1, EmptyTree
<1>6. ASSUME NEW m \in 0..len-1, m \in T PROVE m + 1 \in T
  <2> DEFINE q == list[m + 1]
  <2>1. m + 1 \in 1..len /\ (m + 1) - 1 = m /\ m + 1 \in 0..len /\ m \in Nat  BY <1>1
  <2>2. tr[m + 1] = Graft(tr[m], q, Leaf("allowed")) /\ q \in DottedNames
    BY <1>1, <1>3, <2>1
  <2>3. /\ tr[m + 1].dict /\ WellShaped(tr[m + 1])
        /\ Marked(tr[m + 1]) = {p \in Marked(tr[m]) : ~Comparable(p, q)} \cup {q}
    BY <1>6, <2>2, LeafFacts, GraftMarks
  <2>4. \A n : n \in 1..m + 1 <=> n \in 1..m \/ n = m + 1  BY <2>1
  <2>5. ASSUME NEW j \in 1..m PROVE Newest(m + 1, j) <=> Newest(m, j) /\ ~Comparable(list[j], q)
    <3>1. \A l : l \in j + 1..m + 1 <=> l \in j + 1..m \/ l = m + 1  BY <2>1
    <3>2. QED  BY <3>1
  <2>6. Newest(m + 1, m + 1)
    <3>1. (m + 1) + 1..m + 1 = {}  BY <2>1
    <3>2. QED  BY <3>1
  <2> HIDE DEF Newest, q
  <2>7. Effective(m + 1) = {p \in Effective(m) : ~Comparable(p, q)} \cup {q}
    BY <2>4, <2>5, <2>6 DEF q
  <2>8. QED  BY <1>6, <2>1, <2>3, <2>7
<1>7. len \in T
  <2> HIDE DEF T
  <2>1. 0..len \subseteq T  BY <1>1, <1>5, <1>6, IntervalInduction
  <2>2. QED  BY <1>1, <2>1
<1>8. QED  BY <1>3, <1>4, <1>7

-----------------------------------------------------------------------------
(* The walk through a tree and a document. *)

LeftBelow(left, tree, d, p) ==
  [k \in Keys(At(d, p)) \cap Keys(At(tree, p)) |-> left[Append(p, k)]]

OneCall(kind, t, e, below) ==
  IF kind = "allow" THEN AllowlistPrune(t, e, below) ELSE RecDelete(t, e, below)

\* The recursion of Walk: what is left under each path.
WalkedBy(left, kind, tree, d) ==
  /\ Walk(kind, tree, d) = left[<<>>]
  /\ \A p \in Paths(d) :
       left[p] = OneCall(kind, At(tree, p), At(d, p), LeftBelow(left, tree, d, p))

LEMMA PathsStep ==
  ASSUME NEW d, Document(d), NEW p \in Paths(d), NEW k \in Keys(At(d, p))
  PROVE  /\ p \in Seq(Names) /\ k \in Names /\ Append(p, k) \in Paths(d)
         /\ Len(Append(p, k)) = Len(p) + 1 /\ Len(p) \in Nat
<1>1. p \in Seq(Names) /\ HasPath(d, p)  BY DocumentFacts
<1>2. k \in Names  BY <1>1, DocumentFacts
<1>3. /\ Append(p, k) \in Seq(Names) /\ Len(Append(p, k)) = Len(p) + 1 /\ Len(p) \in Nat
  BY <1>1, <1>2, AppendProperties, LenProperties
<1>4. HasPath(d, Append(p, k))  BY <1>1, <1>2, HasPathFacts
<1>5. Append(p, k) \in Paths(d)  BY <1>3, <1>4, DocumentFacts
<1>6. QED  BY <1>1, <1>2, <1>3, <1>5

LEMMA WalkSteps ==
  ASSUME NEW kind, NEW tree, NEW d, Document(d)
  PROVE  \E left : WalkedBy(left, kind, tree, d)
<1> DEFINE Call(p, w) == OneCall(kind, At(tree, p), At(d, p), LeftBelow(w, tree, d, p))
           D(m) == {p \in Paths(d) : Len(p) > Depth - m}
           Rec(P, w) == w = [p \in P |-> Call(p, w)]
           T == {m \in 0..Depth + 1 : \E w : Rec(D(m), w)}
<1>1. Walk(kind, tree, d) = (CHOOSE w : Rec(Paths(d), w))[<<>>]
  BY DEF Walk, OneCall, LeftBelow
<1>2. Depth \in Nat  BY DepthAssumption
<1>3. \A p \in Paths(d) : Len(p) \in Nat /\ Len(p) <= Depth
  BY DocumentFacts, LenProperties
<1> HIDE DEF Call
<1>4. 0 \in T
  <2>1. D(0) = {}  BY <1>2, <1>3
  <2> DEFINE v == [p \in {} |-> p]
  <2>2. v = [p \in {} |-> Call(p, v)]  OBVIOUS
  <2>3. Rec(D(0), v)  BY <2>1, <2>2
  <2> HIDE DEF v, Rec, D
  <2>4. QED  BY <1>2, <2>3
<1>5. ASSUME NEW m \in 0..(Depth + 1) - 1, m \in T PROVE m + 1 \in T
  <2>1. PICK w : Rec(D(m), w)  BY <1>5
  <2>2. \A p \in D(m) : w[p] = Call(p, w)  BY <2>1
  <2> DEFINE v == [p \in D(m + 1) |-> IF p \in D(m) THEN w[p] ELSE Call(p, w)]
  <2>3. D(m) \subseteq D(m + 1)  BY <1>2, <1>3
  <2>4. ASSUME NEW p \in D(m + 1), NEW k \in Keys(At(d, p)) \cap Keys(At(tree, p))
        PROVE  v[Append(p, k)] = w[Append(p, k)]
    <3>1. /\ Append(p, k) \in Paths(d) /\ Len(Append(p, k)) = Len(p) + 1 /\ Len(p) \in Nat
      BY PathsStep
    <3>2. Append(p, k) \in D(m)  BY <1>2, <1>3, <3>1
    <3> HIDE DEF D
    <3>3. QED  BY <2>3, <3>2
  <2> HIDE DEF D
  <2>5. ASSUME NEW p \in D(m + 1) PROVE v[p] = Call(p, v)
    <3>1. v[p] = Call(p, w)  BY <2>2
    <3> HIDE DEF v
    <3>2. LeftBelow(v, tree, d, p) = LeftBelow(w, tree, d, p)  BY <2>4 DEF LeftBelow
    <3>3. QED  BY <3>1, <3>2 DEF Call
  <2>6. Rec(D(m + 1), v)
    <3>1. v = [p \in D(m + 1) |-> v[p]]  OBVIOUS
    <3> HIDE DEF v
    <3>2. QED  BY <2>5, <3>1
  <2>7. m + 1 \in 0..Depth + 1  BY <1>2
  <2> HIDE DEF v, Rec
  <2>8. QED  BY <2>6, <2>7
<1>6. Depth + 1 \in T
  <2> HIDE DEF T
  <2>1. 0..Depth + 1 \subseteq T  BY <1>2, <1>4, <1>5, IntervalInduction
  <2>2. QED  BY <1>2, <2>1
<1>7. D(Depth + 1) = Paths(d)  BY <1>2, <1>3
<1>8. PICK w : Rec(Paths(d), w) /\ Walk(kind, tree, d) = w[<<>>]
  <2> HIDE DEF Rec, D
  <2>1. QED  BY <1>1, <1>6, <1>7
<1>9. \A p \in Paths(d) : w[p] = Call(p, w)  BY <1>8
<1>10. WalkedBy(w, kind, tree, d)  BY <1>8, <1>9 DEF WalkedBy, Call
<1>11. QED  BY <1>10

\* The entries that one call of recDelete leaves.
LEMMA OneDeleted ==
  ASSUME NEW t, NEW e, ~e.dict => Keys(e) = {}, NEW below,
         NEW left, left = OneCall("deny", t, e, below)
  PROVE  /\ Keys(left) = {k \in Keys(e) : k \in Keys(t) => t.kids[k].dict}
         /\ \A k \in Keys(left) :
              left.kids[k] = IF k \in Keys(t) THEN below[k] ELSE e.kids[k]
<1>1. CASE ~e.dict
  <2>1. left = e /\ Keys(e) = {}  BY <1>1 DEF OneCall, RecDelete
  <2>2. QED  BY <2>1
<1>2. CASE e.dict
  <2> DEFINE kids == [k \in {l \in Keys(e) : l \in Keys(t) => t.kids[l].dict} |->
                        IF k \in Keys(t) THEN below[k] ELSE e.kids[k]]
  <2>1. left = Dict(kids)  BY <1>2 DEF OneCall, RecDelete
  <2>2. DOMAIN kids = {k \in Keys(e) : k \in Keys(t) => t.kids[k].dict}  OBVIOUS
  <2>3. \A k \in DOMAIN kids : kids[k] = IF k \in Keys(t) THEN below[k] ELSE e.kids[k]
    OBVIOUS
  <2> HIDE DEF kids
  <2>4. Keys(left) = DOMAIN kids /\ left.kids = kids  BY <2>1, DictFacts
  <2>5. QED  BY <2>2, <2>3, <2>4
<1>3. QED  BY <1>1, <1>2

\* The entries that one call of AllowlistPrune leaves.
LEMMA OnePruned ==
  ASSUME NEW t, NEW e, NEW below,
         NEW left, left = OneCall("allow", t, e, below)
  PROVE  /\ Keys(left) = {k \in Keys(e) \cap Keys(t) :
                            ~t.kids[k].dict \/ (e.kids[k].dict /\ Keys(below[k]) # {})}
         /\ \A k \in Keys(left) :
              left.kids[k] = IF t.kids[k].dict THEN below[k] ELSE e.kids[k]
<1> DEFINE kept == {l \in Keys(e) \cap Keys(t) :
                      \/ ~t.kids[l].dict
                      \/ e.kids[l].dict /\ Keys(below[l]) # {}}
           kids == [k \in kept |-> IF t.kids[k].dict THEN below[k] ELSE e.kids[k]]
<1>1. left = AllowlistPrune(t, e, below)  BY DEF OneCall
<1>2. AllowlistPrune(t, e, below) = Dict(kids)  BY ZenonT(30) DEF AllowlistPrune
<1>3. DOMAIN kids = kept
      /\ \A k \in kept : kids[k] = IF t.kids[k].dict THEN below[k] ELSE e.kids[k]
  OBVIOUS
<1> HIDE DEF kids, kept
<1>4. Keys(left) = DOMAIN kids /\ left.kids = kids  BY <1>1, <1>2, DictFacts
<1>5. QED  BY <1>3, <1>4 DEF kept

\* A mark on the way to a longer path: one above it, or itself.
LEMMA CoveredAppend ==
  ASSUME NEW tree, NEW p \in Seq(Names), NEW k \in Names
  PROVE  Covered(Append(p, k), tree) <=> Covered(p, tree) \/ Append(p, k) \in Marked(tree)
<1>1. Append(p, k) \in Seq(Names)  BY AppendProperties
<1>2. \A m \in Marked(tree) : m \in Seq(Names)  BY DEF Marked, DottedNames
<1>3. \A m \in Marked(tree) : IsPrefix(m, Append(p, k)) <=> IsPrefix(m, p) \/ m = Append(p, k)
  BY <1>2, PrefixAppend
<1>4. QED  BY <1>3 DEF Covered

LEMMA NotCoveredRoot ==
  ASSUME NEW tree
  PROVE  ~Covered(<<>>, tree)
<1>1. \A m \in Marked(tree) : m \in Seq(Names) /\ m # <<>>  BY DEF Marked, DottedNames
<1>2. \A m \in Marked(tree) : ~IsPrefix(m, <<>>)
  <2>1. SUFFICES ASSUME NEW m \in Marked(tree), IsPrefix(m, <<>>) PROVE FALSE  OBVIOUS
  <2>2. QED  BY <1>1, <2>1, PrefixOrder
<1>3. QED  BY <1>2 DEF Covered

\* What a path that is in the tree and not covered by it leads to is a dictionary.
LEMMA UncoveredDict ==
  ASSUME NEW tree, tree.dict, NEW p \in Seq(Names), HasPath(tree, p), ~Covered(p, tree)
  PROVE  At(tree, p).dict
<1>1. CASE p = <<>>  BY <1>1, AtFacts
<1>2. CASE p # <<>>
  <2>1. SUFFICES ASSUME ~At(tree, p).dict PROVE FALSE  OBVIOUS
  <2>2. p \in Marked(tree)  BY <1>2, <2>1 DEF Marked, DottedNames
  <2>3. IsPrefix(p, p)  BY PrefixOrder
  <2>4. QED  BY <2>2, <2>3 DEF Covered
<1>3. QED  BY <1>1, <1>2

LEMMA MarkedAppend ==
  ASSUME NEW tree, NEW p \in Seq(Names), NEW k \in Names
  PROVE  Append(p, k) \in Marked(tree) <=>
           HasPath(tree, p) /\ k \in Keys(At(tree, p)) /\ ~At(tree, p).kids[k].dict
<1>1. Append(p, k) \in DottedNames  BY AppendProperties DEF DottedNames
<1>2. HasPath(tree, Append(p, k)) <=> HasPath(tree, p) /\ k \in Keys(At(tree, p))
  BY HasPathFacts
<1>3. At(tree, Append(p, k)) = At(tree, p).kids[k]  BY AtAppend
<1>4. QED  BY <1>1, <1>2, <1>3 DEF Marked

\* What recDelete leaves: the paths that the tree does not cover.
LEMMA DeletedFacts ==
  ASSUME NEW tree, tree.dict, WellShaped(tree), NEW d, Document(d), NEW p \in Seq(Names)
  PROVE  HasPath(Walk("deny", tree, d), p) <=> HasPath(d, p) /\ ~Covered(p, tree)
<1> DEFINE r == Walk("deny", tree, d)
<1>1. PICK left : WalkedBy(left, "deny", tree, d)  BY WalkSteps
<1>2. r = left[<<>>]  BY <1>1 DEF WalkedBy
<1>3. ASSUME NEW q \in Seq(Names), HasPath(d, q)
      PROVE  LET t == At(tree, q)  e == At(d, q)
             IN  /\ Keys(left[q]) = {k \in Keys(e) : k \in Keys(t) => t.kids[k].dict}
                 /\ \A k \in Keys(left[q]) :
                      left[q].kids[k] = IF k \in Keys(t) THEN left[Append(q, k)] ELSE e.kids[k]
  <2>1. q \in Paths(d) /\ (~At(d, q).dict => Keys(At(d, q)) = {})
    BY <1>3, DocumentFacts DEF WellShaped
  <2> DEFINE below == LeftBelow(left, tree, d, q)
  <2>2. left[q] = OneCall("deny", At(tree, q), At(d, q), below)  BY <1>1, <2>1 DEF WalkedBy
  <2>3. /\ DOMAIN below = Keys(At(d, q)) \cap Keys(At(tree, q))
        /\ \A k \in DOMAIN below : below[k] = left[Append(q, k)]
    BY DEF LeftBelow
  <2> HIDE DEF below
  <2>4. /\ Keys(left[q]) = {k \in Keys(At(d, q)) : k \in Keys(At(tree, q)) => At(tree, q).kids[k].dict}
        /\ \A k \in Keys(left[q]) :
             left[q].kids[k] = IF k \in Keys(At(tree, q)) THEN below[k] ELSE At(d, q).kids[k]
    BY <2>1, <2>2, OneDeleted
  <2>5. QED  BY <2>3, <2>4
<1> HIDE DEF r
<1> DEFINE S == {q \in Seq(Names) :
                   /\ HasPath(r, q) <=> HasPath(d, q) /\ ~Covered(q, tree)
                   /\ HasPath(r, q) => At(r, q) = IF HasPath(tree, q) THEN left[q] ELSE At(d, q)}
<1>4. <<>> \in S
  <2>1. <<>> \in Seq(Names)  BY EmptySeq
  <2>2. HasPath(r, <<>>) /\ HasPath(d, <<>>) /\ HasPath(tree, <<>>)  BY HasPathFacts
  <2>3. At(r, <<>>) = r  BY AtFacts
  <2>4. QED  BY <1>2, <2>1, <2>2, <2>3, NotCoveredRoot
<1>5. ASSUME NEW q \in Seq(Names), NEW k \in Names, q \in S PROVE Append(q, k) \in S
  <2> DEFINE qk == Append(q, k)
  <2>1. qk \in Seq(Names)  BY AppendProperties
  <2>2. /\ HasPath(r, qk) <=> HasPath(r, q) /\ k \in Keys(At(r, q))
        /\ HasPath(d, qk) <=> HasPath(d, q) /\ k \in Keys(At(d, q))
        /\ HasPath(tree, qk) <=> HasPath(tree, q) /\ k \in Keys(At(tree, q))
    BY HasPathFacts
  <2>3. At(r, qk) = At(r, q).kids[k] /\ At(d, qk) = At(d, q).kids[k]  BY AtAppend
  <2>4. Covered(qk, tree) <=> Covered(q, tree) \/ qk \in Marked(tree)  BY CoveredAppend
  <2>5. qk \in Marked(tree) <=>
          HasPath(tree, q) /\ k \in Keys(At(tree, q)) /\ ~At(tree, q).kids[k].dict
    BY MarkedAppend
  <2> HIDE DEF qk
  <2>6. CASE ~HasPath(r, q)
    <3>1. ~HasPath(r, qk) /\ ~(HasPath(d, qk) /\ ~Covered(qk, tree))
      BY <1>5, <2>2, <2>4, <2>6
    <3>2. QED  BY <2>1, <3>1 DEF qk
  <2>7. CASE HasPath(r, q) /\ ~HasPath(tree, q)
    <3>1. At(r, q) = At(d, q) /\ HasPath(d, q) /\ ~Covered(q, tree)  BY <1>5, <2>7
    <3>2. HasPath(r, qk) <=> HasPath(d, qk) /\ ~Covered(qk, tree)
      BY <2>2, <2>4, <2>5, <2>7, <3>1
    <3>3. ~HasPath(tree, qk) /\ At(r, qk) = At(d, qk)  BY <2>2, <2>3, <2>7, <3>1
    <3>4. QED  BY <2>1, <3>2, <3>3 DEF qk
  <2>8. CASE HasPath(r, q) /\ HasPath(tree, q)
    <3> DEFINE t == At(tree, q)  e == At(d, q)
    <3>1. At(r, q) = left[q] /\ HasPath(d, q) /\ ~Covered(q, tree)  BY <1>5, <2>8
    <3>2. /\ Keys(left[q]) = {l \in Keys(e) : l \in Keys(t) => t.kids[l].dict}
          /\ \A l \in Keys(left[q]) :
               left[q].kids[l] = IF l \in Keys(t) THEN left[Append(q, l)] ELSE e.kids[l]
      BY <1>3, <3>1
    <3>3. HasPath(r, qk) <=> HasPath(d, qk) /\ ~Covered(qk, tree)
      BY <2>2, <2>4, <2>5, <2>8, <3>1, <3>2
    <3>4. HasPath(r, qk) => At(r, qk) = IF HasPath(tree, qk) THEN left[qk] ELSE At(d, qk)
      BY <2>2, <2>3, <2>8, <3>1, <3>2 DEF qk
    <3>5. QED  BY <2>1, <3>3, <3>4 DEF qk
  <2>9. QED  BY <2>6, <2>7, <2>8
<1>6. Seq(Names) \subseteq S
  <2> HIDE DEF S
  <2>1. QED  BY <1>4, <1>5, PathInduction
<1>7. QED  BY <1>6 DEF r

\* A path on the way to a mark that the document has too.
Kept(q, tree, d) == \E m \in Marked(tree) : HasPath(d, m) /\ IsPrefix(q, m)

LEMMA KeptAppend ==
  ASSUME NEW tree, NEW d, NEW p \in Seq(Names), NEW k \in Names, Kept(Append(p, k), tree, d)
  PROVE  Kept(p, tree, d) /\ HasPath(d, Append(p, k)) /\ HasPath(tree, Append(p, k))
<1>1. Append(p, k) \in Seq(Names)  BY AppendProperties
<1>2. PICK m \in Marked(tree) : HasPath(d, m) /\ IsPrefix(Append(p, k), m)  BY DEF Kept
<1>3. m \in Seq(Names) /\ HasPath(tree, m)  BY DEF Marked, DottedNames
<1>4. HasPath(d, Append(p, k)) /\ HasPath(tree, Append(p, k))
  BY <1>1, <1>2, <1>3, PathsAbove
<1>5. IsPrefix(p, m)  BY <1>2, <1>3, PrefixAppend
<1>6. QED  BY <1>2, <1>4, <1>5 DEF Kept

\* What the calls of the allow list's filter leave of an entry that is not
\* under a mark: the way to the marks below it.
LEMMA PrunedKeys ==
  ASSUME NEW tree, WellShaped(tree), NEW d, Document(d),
         NEW left, WalkedBy(left, "allow", tree, d),
         NEW q \in Seq(Names), HasPath(d, q), HasPath(tree, q), At(tree, q).dict
  PROVE  Keys(left[q]) = {k \in Names : Kept(Append(q, k), tree, d)}
<1> DEFINE Exact(p) == Keys(left[p]) = {k \in Names : Kept(Append(p, k), tree, d)}
           Both(p) == HasPath(d, p) /\ HasPath(tree, p) /\ At(tree, p).dict
           T == {m \in 0..Depth + 1 :
                   \A p \in Seq(Names) : Both(p) /\ Len(p) > Depth - m => Exact(p)}
<1>1. Depth \in Nat  BY DepthAssumption
<1>2. \A p \in Seq(Names) : HasPath(d, p) => Len(p) \in Nat /\ Len(p) <= Depth
  BY DocumentFacts, LenProperties
<1>3. 0 \in T  BY <1>1, <1>2
<1>4. ASSUME NEW m \in 0..(Depth + 1) - 1, m \in T PROVE m + 1 \in T
  <2>1. SUFFICES ASSUME NEW p \in Seq(Names), Both(p), Len(p) > Depth - (m + 1)
                 PROVE  Exact(p)
    BY <1>1
  <2> DEFINE t == At(tree, p)  e == At(d, p)  below == LeftBelow(left, tree, d, p)
  <2>2. p \in Paths(d)  BY <2>1, DocumentFacts
  <2>3. left[p] = OneCall("allow", t, e, below)  BY <2>2 DEF WalkedBy
  <2>4. Keys(left[p]) = {k \in Keys(e) \cap Keys(t) :
                           ~t.kids[k].dict \/ (e.kids[k].dict /\ Keys(below[k]) # {})}
    <3> HIDE DEF t, e, below
    <3>1. QED  BY <2>3, OnePruned
  <2>5. \A k \in Keys(e) \cap Keys(t) : below[k] = left[Append(p, k)]  BY DEF LeftBelow
  <2>6. Keys(e) \subseteq Names  BY <2>1, DocumentFacts
  <2> HIDE DEF below
  <2>7. ASSUME NEW k \in Names
        PROVE  k \in Keys(left[p]) <=> Kept(Append(p, k), tree, d)
    <3> DEFINE pk == Append(p, k)
    <3>1. pk \in Seq(Names) /\ Len(pk) = Len(p) + 1 /\ Len(p) \in Nat
      BY AppendProperties, LenProperties
    <3>2. /\ HasPath(d, pk) <=> k \in Keys(e)
          /\ HasPath(tree, pk) <=> k \in Keys(t)
      BY <2>1, HasPathFacts
    <3>3. At(d, pk) = e.kids[k] /\ At(tree, pk) = t.kids[k]  BY AtAppend
    <3>4. pk \in Marked(tree) <=> k \in Keys(t) /\ ~t.kids[k].dict  BY <2>1, MarkedAppend
    <3> HIDE DEF pk
    <3>5. Both(pk) => Exact(pk)  BY <1>1, <1>4, <2>1, <3>1
    <3>6. ASSUME k \in Keys(left[p]) PROVE Kept(pk, tree, d)
      <4>1. k \in Keys(e) /\ k \in Keys(t)  BY <2>4, <3>6
      <4>2. CASE ~t.kids[k].dict
        <5>1. pk \in Marked(tree) /\ HasPath(d, pk)  BY <3>2, <3>4, <4>1, <4>2
        <5>2. IsPrefix(pk, pk)  BY <3>1, PrefixOrder
        <5>3. QED  BY <5>1, <5>2 DEF Kept
      <4>3. CASE t.kids[k].dict
        <5>1. Both(pk)  BY <3>2, <3>3, <4>1, <4>3
        <5>2. Keys(left[pk]) # {}
          <6>1. Keys(below[k]) # {}  BY <2>4, <3>6, <4>3
          <6>2. below[k] = left[pk]  BY <2>5, <4>1 DEF pk
          <6>3. QED  BY <6>1, <6>2
        <5>3. PICK l \in Names : Kept(Append(pk, l), tree, d)  BY <3>5, <5>1, <5>2
        <5>4. QED  BY <3>1, <5>3, KeptAppend
      <4>4. QED  BY <4>2, <4>3
    <3>7. ASSUME Kept(pk, tree, d) PROVE k \in Keys(left[p])
      <4>1. k \in Keys(e) /\ k \in Keys(t)  BY <3>2, <3>7, KeptAppend DEF pk
      <4>2. PICK n \in Marked(tree) : HasPath(d, n) /\ IsPrefix(pk, n)  BY <3>7 DEF Kept
      <4>3. n \in Seq(Names) /\ HasPath(tree, n)  BY DEF Marked, DottedNames
      <4>4. CASE pk = n
        <5>1. ~t.kids[k].dict  BY <3>4, <4>4
        <5>2. QED  BY <2>4, <4>1, <5>1
      <4>5. CASE pk # n
        <5> DEFINE l == n[Len(pk) + 1]
        <5>1. At(tree, pk).dict  BY <3>1, <4>2, <4>3, <4>5, DictsAbove
        <5>2. /\ At(d, pk).dict /\ l \in Names /\ IsPrefix(Append(pk, l), n)
          BY <3>1, <4>2, <4>3, <4>5, DictsAbove, DocumentFacts
        <5> HIDE DEF l
        <5>3. Kept(Append(pk, l), tree, d)  BY <4>2, <5>2 DEF Kept
        <5>4. Both(pk)  BY <3>2, <4>1, <5>1
        <5>5. l \in Keys(left[pk])  BY <3>5, <5>2, <5>3, <5>4
        <5>6. below[k] = left[pk]  BY <2>5, <4>1 DEF pk
        <5>7. Keys(below[k]) # {}  BY <5>5, <5>6
        <5>8. e.kids[k].dict  BY <3>3, <5>2
        <5>9. QED  BY <2>4, <4>1, <5>7, <5>8
      <4>6. QED  BY <4>4, <4>5
    <3>8. QED  BY <3>6, <3>7 DEF pk
  <2>8. QED  BY <2>4, <2>6, <2>7
<1>5. Depth + 1 \in T
  <2> HIDE DEF T
  <2>1. 0..Depth + 1 \subseteq T  BY <1>1, <1>3, <1>4, IntervalInduction
  <2>2. QED  BY <1>1, <2>1
<1>6. QED  BY <1>1, <1>2, <1>5

\* What the allow list's filter leaves: the way to a mark that is there, and
\* what is below one.
LEMMA PrunedFacts ==
  ASSUME NEW tree, tree.dict, WellShaped(tree), NEW d, Document(d), NEW p \in Seq(Names)
  PROVE  HasPath(Walk("allow", tree, d), p) <=>
           /\ HasPath(d, p)
           /\ p = <<>> \/ \E m \in Marked(tree) : HasPath(d, m) /\ Comparable(p, m)
<1> DEFINE r == Walk("allow", tree, d)
           Stays(q) == HasPath(d, q) /\ (q = <<>> \/ Covered(q, tree) \/ Kept(q, tree, d))
<1>1. PICK left : WalkedBy(left, "allow", tree, d)  BY WalkSteps
<1>2. r = left[<<>>]  BY <1>1 DEF WalkedBy
<1>3. ASSUME NEW q \in Seq(Names), HasPath(d, q)
      PROVE  LET t == At(tree, q)  e == At(d, q)
             IN  \A k \in Keys(left[q]) :
                   /\ k \in Keys(t)
                   /\ left[q].kids[k] = IF t.kids[k].dict THEN left[Append(q, k)] ELSE e.kids[k]
  <2>1. q \in Paths(d)  BY <1>3, DocumentFacts
  <2> DEFINE below == LeftBelow(left, tree, d, q)
  <2>2. left[q] = OneCall("allow", At(tree, q), At(d, q), below)  BY <1>1, <2>1 DEF WalkedBy
  <2>3. \A k \in Keys(At(d, q)) \cap Keys(At(tree, q)) : below[k] = left[Append(q, k)]
    BY DEF LeftBelow
  <2> HIDE DEF below
  <2>4. /\ Keys(left[q]) \subseteq Keys(At(d, q)) \cap Keys(At(tree, q))
        /\ \A k \in Keys(left[q]) :
             left[q].kids[k] = IF At(tree, q).kids[k].dict THEN below[k] ELSE At(d, q).kids[k]
    BY <2>2, OnePruned
  <2>5. QED  BY <2>3, <2>4
<1> HIDE DEF r
<1> DEFINE S == {q \in Seq(Names) :
                   /\ HasPath(r, q) <=> Stays(q)
                   /\ HasPath(r, q) /\ ~Covered(q, tree) => HasPath(tree, q)
                   /\ HasPath(r, q) => At(r, q) = IF Covered(q, tree) THEN At(d, q) ELSE left[q]}
<1>4. <<>> \in S
  <2>1. <<>> \in Seq(Names)  BY EmptySeq
  <2>2. HasPath(r, <<>>) /\ HasPath(d, <<>>) /\ HasPath(tree, <<>>)  BY HasPathFacts
  <2>3. At(r, <<>>) = r  BY AtFacts
  <2>4. QED  BY <1>2, <2>1, <2>2, <2>3, NotCoveredRoot
<1>5. ASSUME NEW q \in Seq(Names), NEW k \in Names, q \in S PROVE Append(q, k) \in S
  <2> DEFINE qk == Append(q, k)
  <2>1. qk \in Seq(Names) /\ qk # <<>>  BY AppendProperties
  <2>2. /\ HasPath(r, qk) <=> HasPath(r, q) /\ k \in Keys(At(r, q))
        /\ HasPath(d, qk) <=> HasPath(d, q) /\ k \in Keys(At(d, q))
        /\ HasPath(tree, qk) <=> HasPath(tree, q) /\ k \in Keys(At(tree, q))
    BY HasPathFacts
  <2>3. At(r, qk) = At(r, q).kids[k] /\ At(d, qk) = At(d, q).kids[k]  BY AtAppend
  <2>4. Covered(qk, tree) <=> Covered(q, tree) \/ qk \in Marked(tree)  BY CoveredAppend
  <2>5. qk \in Marked(tree) <=>
          HasPath(tree, q) /\ k \in Keys(At(tree, q)) /\ ~At(tree, q).kids[k].dict
    BY MarkedAppend
  <2>6. Kept(qk, tree, d) => Kept(q, tree, d) /\ HasPath(d, qk) /\ HasPath(tree, qk)
    BY KeptAppend
  <2>7. qk \in Marked(tree) /\ HasPath(d, qk) => Kept(qk, tree, d)
    BY <2>1, PrefixOrder DEF Kept
  <2> HIDE DEF qk
  <2>8. CASE ~HasPath(r, q)
    <3>1. ~Stays(q) /\ ~HasPath(r, qk)  BY <1>5, <2>2, <2>8
    <3>2. ~Stays(qk)  BY <2>1, <2>2, <2>4, <2>6, <2>7, <3>1
    <3>3. QED  BY <2>1, <2>8, <3>1, <3>2 DEF qk
  <2>9. CASE HasPath(r, q) /\ Covered(q, tree)
    <3>1. At(r, q) = At(d, q) /\ HasPath(d, q)  BY <1>5, <2>9
    <3>2. HasPath(r, qk) <=> HasPath(d, qk)  BY <2>2, <2>9, <3>1
    <3>3. Covered(qk, tree) /\ At(r, qk) = At(d, qk)  BY <2>3, <2>4, <2>9, <3>1
    <3>4. QED  BY <2>1, <3>2, <3>3 DEF qk
  <2>10. CASE HasPath(r, q) /\ ~Covered(q, tree)
    <3> DEFINE t == At(tree, q)  e == At(d, q)
    <3>1. At(r, q) = left[q] /\ HasPath(d, q) /\ HasPath(tree, q)  BY <1>5, <2>10
    <3>2. At(tree, q).dict  BY <2>10, <3>1, UncoveredDict
    <3>3. Keys(left[q]) = {l \in Names : Kept(Append(q, l), tree, d)}
      BY <1>1, <3>1, <3>2, PrunedKeys
    <3>4. k \in Keys(left[q]) <=> Kept(qk, tree, d)  BY <3>3 DEF qk
    <3>5. HasPath(r, qk) <=> Kept(qk, tree, d)  BY <2>2, <2>10, <3>1, <3>4
    <3>6. Stays(qk) <=> Kept(qk, tree, d)  BY <2>1, <2>4, <2>6, <2>7, <2>10
    <3>7. ASSUME HasPath(r, qk)
          PROVE  At(r, qk) = IF Covered(qk, tree) THEN At(d, qk) ELSE left[qk]
      <4>1. k \in Keys(left[q])  BY <3>4, <3>5, <3>7
      <4>2. k \in Keys(t) /\ left[q].kids[k] = IF t.kids[k].dict THEN left[qk] ELSE e.kids[k]
        BY <1>3, <3>1, <4>1 DEF qk
      <4>3. Covered(qk, tree) <=> ~t.kids[k].dict  BY <2>4, <2>5, <2>10, <3>1, <4>2
      <4>4. At(r, qk) = left[q].kids[k]  BY <2>3, <3>1
      <4>5. QED  BY <2>3, <4>2, <4>3, <4>4
    <3>8. HasPath(r, qk) => HasPath(tree, qk)  BY <2>6, <3>5
    <3>9. QED  BY <2>1, <3>5, <3>6, <3>7, <3>8 DEF qk
  <2>11. QED  BY <2>8, <2>9, <2>10
<1>6. Seq(Names) \subseteq S
  <2> HIDE DEF S
  <2>1. QED  BY <1>4, <1>5, PathInduction
<1>7. HasPath(r, p) <=> Stays(p)  BY <1>6
<1>8. Stays(p) <=> /\ HasPath(d, p)
                   /\ p = <<>> \/ \E m \in Marked(tree) : HasPath(d, m) /\ Comparable(p, m)
  <2>1. \A m \in Marked(tree) : m \in Seq(Names)  BY DEF Marked, DottedNames
  <2>2. \A m \in Marked(tree) : HasPath(d, p) /\ IsPrefix(m, p) => HasPath(d, m)
    BY <2>1, PathsAbove
  <2>3. QED  BY <2>2 DEF Covered, Kept, Comparable
<1>9. QED  BY <1>7, <1>8 DEF r

\* Neither filter turns a dictionary into something else.
LEMMA WalkDict ==
  ASSUME NEW kind, NEW tree, NEW d, d.dict, Document(d)
  PROVE  Walk(kind, tree, d).dict
<1>1. PICK left : WalkedBy(left, kind, tree, d)  BY WalkSteps
<1>2. <<>> \in Paths(d) /\ At(d, <<>>) = d
  BY EmptySeq, HasPathFacts, DocumentFacts, AtFacts
<1> DEFINE t == At(tree, <<>>)  below == LeftBelow(left, tree, d, <<>>)
<1>3. Walk(kind, tree, d) = OneCall(kind, t, d, below)  BY <1>1, <1>2 DEF WalkedBy
<1> HIDE DEF t, below
<1>4. AllowlistPrune(t, d, below).dict  BY DictFacts DEF AllowlistPrune
<1>5. RecDelete(t, d, below).dict  BY DictFacts DEF RecDelete
<1>6. QED  BY <1>3, <1>4, <1>5 DEF OneCall

-----------------------------------------------------------------------------
(* The target of a format, and all together. *)

LEMMA ConcatAppend ==
  ASSUME NEW N, NEW t \in Seq(N), NEW p \in Seq(N), NEW k \in N
  PROVE  t \o Append(p, k) = Append(t \o p, k)
<1>1. Append(p, k) = p \o <<k>> /\ <<k>> \in Seq(N)  BY AppendIsConcat
<1>2. t \o p \in Seq(N)  BY ConcatProperties
<1>3. Append(t \o p, k) = (t \o p) \o <<k>>  BY <1>2, AppendIsConcat
<1>4. (t \o p) \o <<k>> = t \o (p \o <<k>>)  BY <1>1, ConcatAssociative
<1>5. QED  BY <1>1, <1>3, <1>4

\* A name that extends another one is the other with a rest, and the other way
\* around.
LEMMA RestFacts ==
  ASSUME NEW N, NEW t \in Seq(N), NEW q \in Seq(N), IsStrictPrefix(t, q),
         NEW s, s = SubSeq(q, Len(t) + 1, Len(q))
  PROVE  s \in Seq(N) /\ s # <<>> /\ q = t \o s
<1>1. Len(t) \in Nat /\ Len(q) \in Nat  BY LenProperties
<1>2. \A i \in Len(t) + 1..Len(q) : q[i] \in N  BY <1>1, ElementOfSeq
<1>3. Len(t) <= Len(q) /\ \A i \in 1..Len(t) : t[i] = q[i]
  BY PrefixDef DEF IsStrictPrefix
<1>4. Len(t) # Len(q)  BY <1>3, SeqEqual DEF IsStrictPrefix
<1>5. /\ s \in Seq(N) /\ Len(s) = Len(q) - Len(t) /\ Len(s) # 0
      /\ \A i \in 1..Len(q) - Len(t) : s[i] = q[Len(t) + i]
  <2>1. /\ s \in Seq(N)
        /\ Len(s) = IF Len(t) + 1 <= Len(q) THEN Len(q) - (Len(t) + 1) + 1 ELSE 0
        /\ \A i \in 1..Len(q) - (Len(t) + 1) + 1 : s[i] = q[(Len(t) + 1) + i - 1]
    BY <1>1, <1>2, SubSeqProperties
  <2>2. \A i \in 1..Len(q) - Len(t) : (Len(t) + 1) + i - 1 = Len(t) + i  BY <1>1
  <2>3. Len(q) - (Len(t) + 1) + 1 = Len(q) - Len(t)  BY <1>1
  <2>4. QED  BY <1>1, <1>3, <1>4, <2>1, <2>2, <2>3
<1>6. s # <<>>  BY <1>5, EmptySeq
<1> DEFINE c == t \o s
<1>7. /\ c \in Seq(N) /\ Len(c) = Len(q)
      /\ \A i \in 1..Len(q) : c[i] = IF i <= Len(t) THEN t[i] ELSE s[i - Len(t)]
  <2>1. /\ c \in Seq(N) /\ Len(c) = Len(t) + Len(s)
        /\ \A i \in 1..Len(t) + Len(s) : c[i] = IF i <= Len(t) THEN t[i] ELSE s[i - Len(t)]
    BY <1>5, ConcatProperties
  <2>2. Len(t) + Len(s) = Len(q)  BY <1>1, <1>5
  <2>3. QED  BY <2>1, <2>2
<1> HIDE DEF c
<1>8. ASSUME NEW i \in 1..Len(q) PROVE c[i] = q[i]
  <2>1. CASE i <= Len(t)
    <3>1. i \in 1..Len(t)  BY <1>1, <2>1
    <3>2. QED  BY <1>3, <1>7, <2>1, <3>1
  <2>2. CASE ~(i <= Len(t))
    <3>1. i - Len(t) \in 1..Len(q) - Len(t) /\ Len(t) + (i - Len(t)) = i  BY <1>1, <2>2
    <3>2. s[i - Len(t)] = q[Len(t) + (i - Len(t))]  BY <1>5, <3>1
    <3>3. QED  BY <1>7, <2>2, <3>1, <3>2
  <2>3. QED  BY <2>1, <2>2
<1>9. c = q  BY <1>7, <1>8, SeqEqual
<1>10. QED  BY <1>5, <1>6, <1>9 DEF c

LEMMA ExtensionFacts ==
  ASSUME NEW N, NEW t \in Seq(N), NEW s \in Seq(N), s # <<>>, NEW q, q = t \o s
  PROVE  q \in Seq(N) /\ IsStrictPrefix(t, q) /\ s = SubSeq(q, Len(t) + 1, Len(q))
<1>1. Len(t) \in Nat /\ Len(s) \in Nat /\ Len(s) # 0  BY LenProperties, EmptySeq
<1>2. /\ q \in Seq(N) /\ Len(q) = Len(t) + Len(s)
      /\ \A i \in 1..Len(t) + Len(s) : q[i] = IF i <= Len(t) THEN t[i] ELSE s[i - Len(t)]
  BY ConcatProperties
<1>3. \A i \in 1..Len(t) : t[i] = q[i]  BY <1>1, <1>2
<1>4. IsPrefix(t, q) /\ t # q
  <2>1. Len(t) <= Len(q) /\ Len(t) # Len(q)  BY <1>1, <1>2
  <2>2. QED  BY <1>2, <1>3, <2>1, PrefixDef
<1> DEFINE u == SubSeq(q, Len(t) + 1, Len(q))
<1>5. u \in Seq(N) /\ IsStrictPrefix(t, q) /\ q = t \o u
  BY <1>2, <1>4, RestFacts DEF IsStrictPrefix
<1> HIDE DEF u
<1>6. t \o s = t \o u  BY <1>5
<1>7. s = u  BY <1>5, <1>6, ConcatSimplifications
<1>8. QED  BY <1>2, <1>5, <1>7 DEF u

\* What is under a target: the paths that go on from there.
LEMMA TargetPaths ==
  ASSUME NEW doc, Document(doc), NEW target \in Seq(Names),
         HasPath(doc, target), NEW p \in Seq(Names)
  PROVE  LET d == At(doc, target)
         IN  /\ HasPath(d, p) <=> HasPath(doc, target \o p)
             /\ At(d, p) = At(doc, target \o p)
<1> DEFINE d == At(doc, target)
           S == {q \in Seq(Names) : /\ HasPath(d, q) <=> HasPath(doc, target \o q)
                                    /\ At(d, q) = At(doc, target \o q)}
<1>1. <<>> \in S
  <2>1. <<>> \in Seq(Names) /\ target \o <<>> = target  BY EmptySeq, ConcatEmptySeq
  <2>2. HasPath(d, <<>>) /\ At(d, <<>>) = d  BY HasPathFacts, AtFacts
  <2>3. QED  BY <2>1, <2>2
<1>2. ASSUME NEW q \in Seq(Names), NEW k \in Names, q \in S PROVE Append(q, k) \in S
  <2>1. target \o Append(q, k) = Append(target \o q, k)  BY ConcatAppend
  <2>2. Append(q, k) \in Seq(Names) /\ target \o q \in Seq(Names)
    BY AppendProperties, ConcatProperties
  <2> HIDE DEF d
  <2>3. /\ HasPath(d, Append(q, k)) <=> HasPath(d, q) /\ k \in Keys(At(d, q))
        /\ At(d, Append(q, k)) = At(d, q).kids[k]
    BY HasPathFacts, AtAppend
  <2>4. /\ HasPath(doc, Append(target \o q, k)) <=>
             HasPath(doc, target \o q) /\ k \in Keys(At(doc, target \o q))
        /\ At(doc, Append(target \o q, k)) = At(doc, target \o q).kids[k]
    BY <2>2, HasPathFacts, AtAppend
  <2>5. QED  BY <1>2, <2>1, <2>2, <2>3, <2>4
<1>3. Seq(Names) \subseteq S
  <2> HIDE DEF S
  <2>1. QED  BY <1>1, <1>2, PathInduction
<1>4. QED  BY <1>3

\* extractTarget leaves a document, with the entries below the target.
LEMMA TargetFacts ==
  ASSUME NEW doc, Document(doc), NEW target \in Seq(Names)
  PROVE  LET d == ExtractTarget(target, doc)
         IN  /\ d.dict /\ Document(d)
             /\ \A p \in Seq(Names) :
                  p # <<>> => (HasPath(d, p) <=> HasPath(doc, target \o p))
<1> DEFINE d == ExtractTarget(target, doc)
<1>1. EmptyDict.dict /\ Keys(EmptyDict) = {} /\ At(EmptyDict, <<>>) = EmptyDict
  BY AtFacts, DictFacts DEF EmptyDict
<1>2. CASE HasPath(doc, target) /\ At(doc, target).dict
  <2>1. d = At(doc, target)  BY <1>2 DEF ExtractTarget
  <2>2. \A p \in Seq(Names) : /\ HasPath(d, p) <=> HasPath(doc, target \o p)
                              /\ At(d, p) = At(doc, target \o p)
    BY <1>2, <2>1, TargetPaths
  <2> HIDE DEF d
  <2>3. ASSUME NEW p \in Paths(d)
        PROVE  /\ Keys(At(d, p)) \subseteq Names
               /\ ~At(d, p).dict \/ Len(p) = Depth => Keys(At(d, p)) = {}
    <3> DEFINE q == target \o p
    <3>1. p \in Seq(Names) /\ HasPath(d, p)  BY PathsFacts
    <3>2. HasPath(doc, q) /\ At(d, p) = At(doc, q)  BY <2>2, <3>1
    <3>3. q \in Seq(Names) /\ Len(q) = Len(target) + Len(p)  BY <3>1, ConcatProperties
    <3> HIDE DEF q
    <3>4. q \in Paths(doc) /\ Len(q) <= Depth  BY <3>2, <3>3, DocumentFacts
    <3>5. Len(p) = Depth => Len(q) = Depth
      BY <3>1, <3>3, <3>4, LenProperties, DepthAssumption
    <3>6. QED  BY <3>2, <3>4, <3>5 DEF Document
  <2>4. Document(d)  BY <2>3 DEF Document
  <2>5. d.dict  BY <1>2, <2>1
  <2>6. QED  BY <2>2, <2>4, <2>5 DEF d
<1>3. CASE ~(HasPath(doc, target) /\ At(doc, target).dict)
  <2>1. d = EmptyDict  BY <1>3 DEF ExtractTarget
  <2> HIDE DEF d
  <2>2. \A p \in Paths(EmptyDict) : p = <<>>  BY EmptyPaths, PathsFacts
  <2>3. Document(d)  BY <1>1, <2>1, <2>2 DEF Document
  <2>4. ASSUME NEW p \in Seq(Names), p # <<>> PROVE ~HasPath(doc, target \o p)
    <3>1. SUFFICES ASSUME HasPath(doc, target \o p) PROVE FALSE  OBVIOUS
    <3> DEFINE q == target \o p
    <3>2. q \in Seq(Names)  BY ConcatProperties
    <3>3. IsStrictPrefix(target, q)  BY <2>4, ExtensionFacts
    <3> HIDE DEF q
    <3>4. IsPrefix(target, q) /\ target # q  BY <3>3 DEF IsStrictPrefix
    <3>5. HasPath(doc, q)  BY <3>1 DEF q
    <3>6. HasPath(doc, target)  BY <3>2, <3>4, <3>5, PathsAbove
    <3>7. WellShaped(doc)  BY DocumentFacts
    <3>8. At(doc, target).dict  BY <3>2, <3>4, <3>5, <3>7, DictsAbove
    <3>9. QED  BY <1>3, <3>6, <3>8
  <2>5. \A p \in Seq(Names) : p # <<>> => ~HasPath(EmptyDict, p)  BY EmptyPaths
  <2>6. QED  BY <1>1, <2>1, <2>3, <2>4, <2>5 DEF d
<1>4. QED  BY <1>2, <1>3

LEMMA NodesFacts ==
  ASSUME NEW d, Document(d), NEW p
  PROVE  p \in Nodes(d) <=> p \in Seq(Names) /\ p # <<>> /\ HasPath(d, p)
BY DocumentFacts DEF Nodes

\* The entries of what is under a target, and those of the whole document.
LEMMA BelowFacts ==
  ASSUME NEW doc, Document(doc), NEW target \in Seq(Names)
  PROVE  Below(target, Nodes(doc)) = Nodes(ExtractTarget(target, doc))
<1> DEFINE d == ExtractTarget(target, doc)
           rest(q) == SubSeq(q, Len(target) + 1, Len(q))
<1>1. /\ Document(d)
      /\ \A p \in Seq(Names) : p # <<>> => (HasPath(d, p) <=> HasPath(doc, target \o p))
  BY TargetFacts
<1>2. \A p : p \in Below(target, Nodes(doc)) <=>
               \E q \in Nodes(doc) : IsStrictPrefix(target, q) /\ p = rest(q)
  BY DEF Below
<1> HIDE DEF d
<1>3. ASSUME NEW q \in Nodes(doc), IsStrictPrefix(target, q)
      PROVE  rest(q) \in Nodes(d)
  <2>1. q \in Seq(Names) /\ HasPath(doc, q)  BY NodesFacts
  <2>2. rest(q) \in Seq(Names) /\ rest(q) # <<>> /\ q = target \o rest(q)
    <3> DEFINE s == rest(q)
    <3>1. s = SubSeq(q, Len(target) + 1, Len(q))  OBVIOUS
    <3> HIDE DEF s
    <3>2. s \in Seq(Names)  BY <1>3, <2>1, <3>1, RestFacts
    <3>3. s # <<>>  BY <1>3, <2>1, <3>1, RestFacts
    <3>4. q = target \o s  BY <1>3, <2>1, <3>1, RestFacts
    <3>5. QED  BY <3>2, <3>3, <3>4 DEF s
  <2> HIDE DEF rest
  <2>3. HasPath(d, rest(q))  BY <1>1, <2>1, <2>2
  <2>4. QED  BY <1>1, <2>2, <2>3, NodesFacts
<1>4. ASSUME NEW p \in Nodes(d)
      PROVE  \E q \in Nodes(doc) : IsStrictPrefix(target, q) /\ p = rest(q)
  <2>1. p \in Seq(Names) /\ p # <<>> /\ HasPath(d, p)  BY <1>1, NodesFacts
  <2> DEFINE q == target \o p
  <2>2. HasPath(doc, q)  BY <1>1, <2>1
  <2>3. q \in Seq(Names)  BY <2>1, ConcatProperties
  <2>4. IsStrictPrefix(target, q) /\ p = rest(q)
    <3>1. q = target \o p  OBVIOUS
    <3> HIDE DEF q
    <3>2. IsStrictPrefix(target, q)  BY <2>1, <3>1, ExtensionFacts
    <3>3. p = SubSeq(q, Len(target) + 1, Len(q))  BY <2>1, <3>1, ExtensionFacts
    <3>4. QED  BY <3>2, <3>3
  <2>5. q # <<>>
    <3> HIDE DEF q
    <3>1. q = <<>> => target = <<>>
      BY <2>4, PrefixOrder DEF IsStrictPrefix
    <3>2. target # q  BY <2>4 DEF IsStrictPrefix
    <3>3. QED  BY <3>1, <3>2
  <2>6. q \in Nodes(doc)
    <3> HIDE DEF q
    <3>1. QED  BY <2>2, <2>3, <2>5, NodesFacts
  <2>7. QED  BY <2>4, <2>6
<1>5. QED  BY <1>2, <1>3, <1>4 DEF d

Lists(format) == format.allow \in Seq(DottedNames) /\ format.deny \in Seq(DottedNames)

\* The filter of a backend leaves what its lists select.
LEMMA FilterFacts ==
  ASSUME NEW format, Lists(format), NEW d, d.dict, Document(d)
  PROVE  /\ NewPropertyFilter(format, d).dict
         /\ Nodes(NewPropertyFilter(format, d)) = Selected(format, Nodes(d))
<1> DEFINE r == NewPropertyFilter(format, d)
<1>1. r.dict  BY WalkDict DEF NewPropertyFilter
<1>2. ASSUME NEW p \in Seq(Names), p # <<>>
      PROVE  HasPath(r, p) <=> p \in Selected(format, Nodes(d))
  <2>1. p \in Nodes(d) <=> HasPath(d, p)  BY <1>2, NodesFacts
  <2>2. CASE format.allow # <<>>
    <3> DEFINE tree == PathTree("allow", format.allow)
    <3>1. tree.dict /\ WellShaped(tree) /\ Marked(tree) = EffectiveAllow(format.allow)
      BY AllowTreeFacts DEF Lists
    <3>2. r = Walk("allow", tree, d)  BY <2>2 DEF NewPropertyFilter
    <3> HIDE DEF tree, r
    <3>3. HasPath(r, p) <=> /\ HasPath(d, p)
                            /\ \E m \in Marked(tree) : HasPath(d, m) /\ Comparable(p, m)
      BY <1>2, <3>1, <3>2, PrunedFacts
    <3>4. \A m \in Marked(tree) : HasPath(d, m) <=> m \in Nodes(d)
      BY NodesFacts DEF Marked, DottedNames
    <3>5. p \in Selected(format, Nodes(d)) <=>
            /\ p \in Nodes(d)
            /\ \E m \in Marked(tree) : m \in Nodes(d) /\ Comparable(p, m)
      BY <2>2, <3>1 DEF Selected
    <3>6. QED  BY <2>1, <3>3, <3>4, <3>5
  <2>3. CASE format.allow = <<>>
    <3> DEFINE tree == PathTree("deny", format.deny)
    <3>1. /\ tree.dict /\ WellShaped(tree)
          /\ Covered(p, tree) <=> \E n \in 1..Len(format.deny) : IsPrefix(format.deny[n], p)
      BY DenyTreeFacts DEF Lists
    <3>2. r = Walk("deny", tree, d)  BY <2>3 DEF NewPropertyFilter
    <3> HIDE DEF tree, r
    <3>3. HasPath(r, p) <=> HasPath(d, p) /\ ~Covered(p, tree)
      BY <3>1, <3>2, DeletedFacts
    <3>4. p \in Selected(format, Nodes(d)) <=>
            p \in Nodes(d) /\ ~\E n \in 1..Len(format.deny) : IsPrefix(format.deny[n], p)
      BY <2>3 DEF Selected
    <3>5. QED  BY <2>1, <3>1, <3>3, <3>4
  <2>4. QED  BY <2>2, <2>3
<1> HIDE DEF r
<1>3. \A p : p \in Nodes(r) <=> /\ p \in Seq(Names) /\ Len(p) \in 0..Depth
                                /\ HasPath(r, p) /\ p # <<>>
  BY PathsFacts DEF Nodes
<1>4. \A p \in Selected(format, Nodes(d)) : p \in Nodes(d)  BY DEF Selected
<1>5. \A p \in Nodes(d) : p \in Seq(Names) /\ p # <<>> /\ Len(p) \in 0..Depth
  BY PathsFacts DEF Nodes
<1>6. Nodes(r) = Selected(format, Nodes(d))  BY <1>2, <1>3, <1>4, <1>5
<1>7. QED  BY <1>1, <1>6 DEF r

LEMMA NoNodes ==
  ASSUME NEW d, Document(d), Keys(d) = {}
  PROVE  Nodes(d) = {}
<1>1. SUFFICES ASSUME NEW p \in Nodes(d) PROVE FALSE  OBVIOUS
<1> DEFINE e == <<>>
<1>2. p \in Seq(Names) /\ p # e /\ HasPath(d, p) /\ e \in Seq(Names) /\ At(d, e) = d
  BY NodesFacts, EmptySeq, AtFacts
<1>3. IsPrefix(e, p)  BY <1>2, PrefixOrder
<1>4. WellShaped(d)  BY DocumentFacts
<1> HIDE DEF e
<1> DEFINE k == p[Len(e) + 1]
<1>5. k \in Names /\ HasPath(d, Append(e, k))  BY <1>2, <1>3, <1>4, DictsAbove
<1> HIDE DEF k
<1>6. k \in Keys(At(d, e))  BY <1>2, <1>5, HasPathFacts
<1>7. QED  BY <1>2, <1>6

\* What the formatter does to a document before it renames.
LEMMA ExactFacts ==
  ASSUME NEW format, Lists(format), format.target \in Seq(Names), NEW doc, Document(doc),
         NEW d, d = ExtractTarget(format.target, doc),
         NEW r, r = IF Keys(d) = {} THEN d ELSE NewPropertyFilter(format, d)
  PROVE  Nodes(r) = Selected(format, Below(format.target, Nodes(doc)))
<1>1. d.dict /\ Document(d)  BY TargetFacts
<1>2. Below(format.target, Nodes(doc)) = Nodes(d)  BY BelowFacts
<1>3. CASE Keys(d) = {}
  <2>1. Nodes(d) = {} /\ r = d  BY <1>1, <1>3, NoNodes
  <2>2. Selected(format, {}) = {}  BY DEF Selected
  <2>3. QED  BY <1>2, <2>1, <2>2
<1>4. CASE Keys(d) # {}
  <2>1. r = NewPropertyFilter(format, d)  BY <1>4
  <2>2. QED  BY <1>1, <1>2, <2>1, FilterFacts
<1>5. QED  BY <1>3, <1>4

-----------------------------------------------------------------------------
(* Renaming. *)

\* A key renamed to one that is not in use: the value is all that moves.
LEMMA RenamedFacts ==
  ASSUME NEW d, NEW from \in Keys(d), NEW to, to \notin Keys(d)
  PROVE  /\ Keys(Renamed(d, from, to)) = (Keys(d) \ {from}) \cup {to}
         /\ Renamed(d, from, to).kids[to] = d.kids[from]
         /\ \A l \in Keys(d) \ {from} : Renamed(d, from, to).kids[l] = d.kids[l]
<1> DEFINE p == Put(d, to, d.kids[from])
<1>1. Renamed(d, from, to) = Dict([l \in Keys(p) \ {from} |-> p.kids[l]])
  BY DEF Renamed, Without
<1>2. Keys(p) = Keys(d) \cup {to} /\ p.kids[to] = d.kids[from]
      /\ \A l \in Keys(d) \ {to} : p.kids[l] = d.kids[l]
  BY PutFacts
<1> HIDE DEF p
<1> DEFINE q == [l \in Keys(p) \ {from} |-> p.kids[l]]
<1>3. Keys(Renamed(d, from, to)) = DOMAIN q /\ Renamed(d, from, to).kids = q
  BY <1>1, DictFacts
<1>4. DOMAIN q = (Keys(d) \ {from}) \cup {to} /\ \A l \in DOMAIN q : q[l] = p.kids[l]
  BY <1>2
<1> HIDE DEF q
<1>5. QED  BY <1>2, <1>3, <1>4

LEMMA RenamedDict ==
  ASSUME NEW d, d.dict, NEW from, NEW to
  PROVE  Renamed(d, from, to).dict
BY DEF Renamed, Without, Dict

-----------------------------------------------------------------------------
(* The steps. *)

LEMMA NilFacts ==
  ASSUME NEW d, NEW c, NEW s, NEW w, NEW b
  PROVE  /\ Nil # [data |-> d, complete |-> c, status |-> s]
         /\ Nil # [status |-> s, completed |-> c, render |-> w, body |-> b]
<1>1. DOMAIN Nil = {"none"}  BY DEF Nil
<1>2. DOMAIN [data |-> d, complete |-> c, status |-> s] = {"data", "complete", "status"}
  OBVIOUS
<1>3. DOMAIN [status |-> s, completed |-> c, render |-> w, body |-> b]
        = {"status", "completed", "render", "body"}
  OBVIOUS
<1>4. QED  BY <1>1, <1>2, <1>3

LEMMA GivenFacts ==
  ASSUME AnswerInv
  PROVE  /\ Endpoint(endpoint)
         /\ answer.status \in Nat /\ answer.decodes \in BOOLEAN
         /\ Document(answer.doc) /\ Lists(Format) /\ Format.target \in Seq(Names)
         /\ LET d == ExtractTarget(Format.target, answer.doc)
            IN  d.dict /\ NewPropertyFilter(Format, d).dict
<1>1. PICK g \in Given : endpoint = g[1] /\ answer = g[2]  BY DEF AnswerInv
<1>2. /\ Endpoint(endpoint) /\ answer.status \in Nat /\ answer.decodes \in BOOLEAN
      /\ Document(answer.doc)
  BY <1>1, GivenAssumption
<1>3. Lists(Format) /\ Format.target \in Seq(Names)
  BY <1>2 DEF Endpoint, Formatted, Format, Lists
<1>4. QED  BY <1>2, <1>3, TargetFacts, FilterFacts

LEMMA InitInv == Init => IInv
<1> SUFFICES ASSUME Init PROVE IInv  OBVIOUS
<1>1. EmptyDict.dict /\ Keys(EmptyDict) = {}  BY DictFacts DEF EmptyDict
<1>2. TypeOK  BY <1>1 DEF Init, TypeOK
<1>3. AnswerInv /\ RenameInv /\ OutcomeInv  BY DEF Init, AnswerInv, RenameInv, OutcomeInv
<1>4. CompletedFromSuccess /\ ErrorNotDisguised  BY DEF Init, CompletedFromSuccess, ErrorNotDisguised
<1>5. QED  BY <1>2, <1>3, <1>4 DEF IInv

\* Until the handler is done there is nothing to say of the client.
LEMMA NoClientYet ==
  ASSUME client = Nil
  PROVE  CompletedFromSuccess /\ ErrorNotDisguised
BY DEF CompletedFromSuccess, ErrorNotDisguised

LEMMA ContextEndsStep == IInv /\ ContextEnds => IInv'
<1> SUFFICES ASSUME IInv, ContextEnds PROVE IInv'  OBVIOUS
<1>1. /\ UNCHANGED <<endpoint, answer, stage, data, filtered, todo, resp, err, client>>
      /\ ctx' = "ended"
  BY DEF ContextEnds, given
<1>2. TypeOK'  BY <1>1 DEF IInv, TypeOK, Format, Errors
<1>3. AnswerInv' /\ RenameInv' /\ OutcomeInv'
  <2>1. Format' = Format /\ NoOp' = NoOp /\ StatusOK' = StatusOK
    BY <1>1 DEF NoOp, StatusOK, Format
  <2>2. AnswerInv'  BY <1>1, <2>1 DEF IInv, AnswerInv
  <2>3. RenameInv'  BY <1>1, <2>1 DEF IInv, RenameInv
  <2>4. OutcomeInv'  BY <1>1, <2>1 DEF IInv, OutcomeInv
  <2>5. QED  BY <2>2, <2>3, <2>4
<1>4. CompletedFromSuccess' /\ ErrorNotDisguised'
  BY <1>1 DEF IInv, CompletedFromSuccess, ErrorNotDisguised, NoOp, StatusOK, Format
<1>5. QED  BY <1>2, <1>3, <1>4 DEF IInv

\* What a function hands up without a document of the backend.
LEMMA ReturnsStep ==
  ASSUME IInv, NEW r, NEW e \in Errors \cup {""}, Returns(r, e),
         stage \in {"round trip", "status", "parse"},
         e = "" => r # Nil, r # Nil => e = "",
         e = "status code" => ~NoOp /\ ~StatusOK /\ endpoint.onError = "code",
         r # Nil => /\ Shaped(r) /\ r.data.dict /\ ~r.complete /\ r.complete \in BOOLEAN
                    /\ r.status = answer.status /\ answer.status # 0
                    /\ \/ NoOp
                       \/ endpoint.onError = "details" /\ ~StatusOK
  PROVE  IInv'
<1>1. /\ UNCHANGED <<endpoint, answer, ctx, data, filtered, todo, client>>
      /\ stage' = "static" /\ resp' = r /\ err' = e
  BY DEF Returns, given
<1>2. client = Nil /\ client' = Nil  BY <1>1 DEF IInv, TypeOK
<1>3. answer.status \in Nat  BY GivenFacts DEF IInv
<1>4. TypeOK'  BY <1>1, <1>2, <1>3 DEF IInv, TypeOK, Format, Errors
<1>5. AnswerInv' /\ RenameInv'  BY <1>1 DEF IInv, AnswerInv, RenameInv
<1>6. OutcomeInv'
  BY <1>1 DEF OutcomeInv, Shaped, NoOp, StatusOK
<1>7. CompletedFromSuccess' /\ ErrorNotDisguised'
  BY <1>2 DEF CompletedFromSuccess, ErrorNotDisguised
<1>8. QED  BY <1>4, <1>5, <1>6, <1>7 DEF IInv

\* A step from one function to the next that changes the document at most.
LEMMA GoesOn ==
  ASSUME IInv, client = Nil, UNCHANGED <<endpoint, answer, ctx, resp, err, client>>,
         stage \in {"round trip", "status", "parse", "filter", "rename"},
         stage' \in {"status", "parse", "filter", "rename"},
         data'.dict, filtered'.dict, todo' \subseteq DOMAIN Format.mapping,
         answer.status # 0,
         stage' \in {"parse", "filter", "rename"} => NoOp \/ StatusOK,
         stage' \in {"filter", "rename"} => ~NoOp /\ StatusOK /\ answer.decodes,
         stage' = "filter" => data' = ExtractTarget(Format.target, answer.doc),
         RenameInv'
  PROVE  IInv'
<1>1. resp = Nil /\ err = ""  BY DEF IInv, AnswerInv
<1>2. TypeOK'  BY <1>1 DEF IInv, TypeOK, Format, Errors
<1>3. AnswerInv'  BY <1>1 DEF IInv, AnswerInv, NoOp, StatusOK, Format
<1>4. OutcomeInv'  BY <1>1 DEF OutcomeInv
<1>5. CompletedFromSuccess' /\ ErrorNotDisguised'
  BY DEF CompletedFromSuccess, ErrorNotDisguised
<1>6. QED  BY <1>2, <1>3, <1>4, <1>5 DEF IInv

LEMMA NoClient == TypeOK /\ stage # "done" => client = Nil
BY DEF TypeOK

LEMMA RoundTripStep == IInv /\ RoundTrip => IInv'
<1> SUFFICES ASSUME IInv, RoundTrip PROVE IInv'  OBVIOUS
<1>1. stage = "round trip" /\ client = Nil  BY NoClient DEF RoundTrip, IInv
<1>2. CASE Returns(Nil, "context")  BY <1>1, <1>2, ReturnsStep DEF Errors
<1>3. CASE Returns(Nil, "transport")  BY <1>1, <1>3, ReturnsStep DEF Errors
<1>4. CASE /\ answer.status # 0 /\ stage' = "status"
           /\ UNCHANGED <<given, ctx, data, filtered, todo, resp, err, client>>
  <2>1. UNCHANGED <<endpoint, answer, ctx, data, filtered, todo, resp, err, client>>
    BY <1>4 DEF given
  <2>2. data'.dict /\ filtered'.dict /\ todo' \subseteq DOMAIN Format.mapping
    BY <2>1 DEF IInv, TypeOK
  <2>3. RenameInv'  BY <1>4 DEF RenameInv
  <2>4. QED  BY <1>1, <1>4, <2>1, <2>2, <2>3, GoesOn
<1>5. QED  BY <1>2, <1>3, <1>4 DEF RoundTrip

LEMMA HTTPStatusHandlerStep == IInv /\ HTTPStatusHandler => IInv'
<1> SUFFICES ASSUME IInv, HTTPStatusHandler PROVE IInv'  OBVIOUS
<1>1. /\ stage = "status" /\ client = Nil /\ answer.status # 0
      /\ endpoint.onError \in {"default", "code", "details"}
  BY NoClient, GivenFacts DEF HTTPStatusHandler, IInv, AnswerInv, Endpoint
<1>2. CASE NoOp \/ StatusOK
  <2>1. /\ UNCHANGED <<endpoint, answer, ctx, data, filtered, todo, resp, err, client>>
        /\ stage' = "parse"
    BY <1>2 DEF given, HTTPStatusHandler
  <2>2. data'.dict /\ filtered'.dict /\ todo' \subseteq DOMAIN Format.mapping
    BY <2>1 DEF IInv, TypeOK
  <2>3. RenameInv'  BY <2>1 DEF RenameInv
  <2>4. QED  BY <1>1, <1>2, <2>1, <2>2, <2>3, GoesOn
<1>3. CASE ~(NoOp \/ StatusOK) /\ endpoint.onError = "details"
  <2> DEFINE body == Put(EmptyDict, "error_backend", Leaf("details"))
             r == [data |-> body, complete |-> FALSE, status |-> answer.status]
  <2>1. Returns(r, "")  BY <1>3 DEF HTTPStatusHandler
  <2>2. body.dict  BY PutFacts
  <2> HIDE DEF body
  <2>3. /\ r # Nil /\ Shaped(r) /\ r.data.dict /\ ~r.complete /\ r.complete \in BOOLEAN
        /\ r.status = answer.status
    BY <2>2, NilFacts DEF Shaped
  <2> HIDE DEF r
  <2>4. QED  BY <1>1, <1>3, <2>1, <2>3, ReturnsStep
<1>4. CASE ~(NoOp \/ StatusOK) /\ endpoint.onError = "code"
  <2>1. Returns(Nil, "status code")  BY <1>4 DEF HTTPStatusHandler
  <2>2. QED  BY <1>1, <1>4, <2>1, ReturnsStep DEF Errors
<1>5. CASE ~(NoOp \/ StatusOK) /\ endpoint.onError = "default"
  <2>1. Returns(Nil, "invalid status")  BY <1>5 DEF HTTPStatusHandler
  <2>2. QED  BY <1>1, <2>1, ReturnsStep DEF Errors
<1>6. QED  BY <1>1, <1>2, <1>3, <1>4, <1>5

LEMMA ParseNoOpStep == IInv /\ ParseNoOp => IInv'
<1> SUFFICES ASSUME IInv, ParseNoOp PROVE IInv'  OBVIOUS
<1> DEFINE r == [data |-> EmptyDict, complete |-> FALSE, status |-> answer.status]
<1>1. stage = "parse" /\ NoOp /\ answer.status # 0 /\ Returns(r, "")
  BY DEF ParseNoOp, IInv, AnswerInv
<1>2. EmptyDict.dict  BY DictFacts DEF EmptyDict
<1>3. /\ r # Nil /\ Shaped(r) /\ r.data.dict /\ ~r.complete /\ r.complete \in BOOLEAN
      /\ r.status = answer.status
  BY <1>2, NilFacts DEF Shaped
<1> HIDE DEF r
<1>4. QED  BY <1>1, <1>3, ReturnsStep

LEMMA ParseFailsStep == IInv /\ ParseFails => IInv'
BY ReturnsStep DEF ParseFails, Errors

LEMMA ParseStep == IInv /\ Parse => IInv'
<1> SUFFICES ASSUME IInv, Parse PROVE IInv'  OBVIOUS
<1>1. /\ UNCHANGED <<endpoint, answer, ctx, filtered, todo, resp, err, client>>
      /\ stage = "parse" /\ stage' = "filter" /\ ~NoOp /\ answer.decodes
      /\ data' = ExtractTarget(Format.target, answer.doc)
  BY DEF given, Parse
<1>2. data'.dict  BY <1>1, GivenFacts DEF IInv
<1>3. filtered'.dict /\ todo' \subseteq DOMAIN Format.mapping  BY <1>1 DEF IInv, TypeOK
<1>4. client = Nil /\ answer.status # 0 /\ StatusOK
  BY <1>1, NoClient DEF IInv, AnswerInv
<1>5. RenameInv'  BY <1>1 DEF RenameInv
<1>6. QED  BY <1>1, <1>2, <1>3, <1>4, <1>5, GoesOn

LEMMA FilterStep == IInv /\ Filter => IInv'
<1> SUFFICES ASSUME IInv, Filter PROVE IInv'  OBVIOUS
<1>1. /\ UNCHANGED <<endpoint, answer, ctx, resp, err, client>>
      /\ stage = "filter" /\ stage' = "rename"
      /\ data' = IF Keys(data) = {} THEN data ELSE NewPropertyFilter(Format, data)
      /\ filtered' = data'
      /\ todo' = IF Keys(data') = {} THEN {} ELSE DOMAIN Format.mapping
  BY DEF given, Filter
<1>2. /\ client = Nil /\ answer.status # 0 /\ ~NoOp /\ StatusOK /\ answer.decodes
      /\ data = ExtractTarget(Format.target, answer.doc)
  BY <1>1, NoClient DEF IInv, AnswerInv
<1>3. data'.dict /\ filtered'.dict  BY <1>1, <1>2, GivenFacts DEF IInv
<1>4. todo' \subseteq DOMAIN Format.mapping  BY <1>1
<1>5. RenameInv'
  <2>1. Format' = Format  BY <1>1 DEF Format
  <2>2. RenamedSoFar(Format, data', data', todo')
    <3>1. (DOMAIN Format.mapping \ todo') \cap Keys(data') = {}  BY <1>1
    <3>2. QED  BY <3>1 DEF RenamedSoFar
  <2>3. QED  BY <1>1, <2>1, <2>2 DEF RenameInv
<1>6. QED  BY <1>1, <1>2, <1>3, <1>4, <1>5, GoesOn

\* One entry of the mapping, whichever Go comes to next: its key has not been
\* touched, and its new name is not in use.
LEMMA OneMoreRenamed ==
  ASSUME NEW format, NEW before, NEW d, NEW left, NEW key \in left,
         left \subseteq DOMAIN format.mapping,
         Apart(format, before), RenamedSoFar(format, before, d, left)
  PROVE  RenamedSoFar(format, before, Renamed(d, key, NewName(format, key)), left \ {key})
<1> DEFINE old  == DOMAIN format.mapping \cap Keys(before)
           new(k) == NewName(format, k)
           done == (DOMAIN format.mapping \ left) \cap Keys(before)
           more == (DOMAIN format.mapping \ (left \ {key})) \cap Keys(before)
           e    == Renamed(d, key, new(key))
<1>1. /\ \A k, l \in old : new(k) = new(l) => k = l
      /\ \A k \in old : new(k) \notin Keys(before) \cup DOMAIN format.mapping
  BY DEF Apart
<1>2. /\ Keys(d) = (Keys(before) \ done) \cup {new(k) : k \in done}
      /\ \A k \in Keys(before) : d.kids[IF k \in done THEN new(k) ELSE k] = before.kids[k]
  BY DEF RenamedSoFar
<1>3. done \subseteq old /\ key \notin done  OBVIOUS
<1> HIDE DEF new
<1>4. CASE key \in Keys(before)
  <2>1. key \in old /\ more = done \cup {key}  BY <1>4
  <2>2. key \in Keys(d) /\ new(key) \notin Keys(d)
    <3>1. new(key) \notin Keys(before) /\ \A k \in done : new(k) # new(key)
      BY <1>1, <1>3, <2>1
    <3>2. QED  BY <1>2, <1>3, <1>4, <3>1
  <2>3. /\ Keys(e) = (Keys(d) \ {key}) \cup {new(key)}
        /\ e.kids[new(key)] = d.kids[key]
        /\ \A l \in Keys(d) \ {key} : e.kids[l] = d.kids[l]
    BY <2>2, RenamedFacts
  <2> HIDE DEF e, done, more
  <2>4. \A k \in done : new(k) # key  BY <1>1, <1>3 DEF old
  <2>5. Keys(e) = (Keys(before) \ more) \cup {new(k) : k \in more}
    BY <1>2, <1>3, <1>4, <2>1, <2>3, <2>4
  <2>6. ASSUME NEW k \in Keys(before)
        PROVE  e.kids[IF k \in more THEN new(k) ELSE k] = before.kids[k]
    <3>1. CASE k = key  BY <1>2, <1>3, <1>4, <2>1, <2>3, <3>1
    <3>2. CASE k # key /\ k \in done
      <4>1. new(k) \in Keys(d) \ {key}  BY <1>2, <2>4, <3>2
      <4>2. QED  BY <1>2, <2>1, <2>3, <3>2, <4>1
    <3>3. CASE k # key /\ k \notin done
      <4>1. k \in Keys(d) \ {key}  BY <1>2, <3>3
      <4>2. QED  BY <1>2, <2>1, <2>3, <3>3, <4>1
    <3>4. QED  BY <3>1, <3>2, <3>3
  <2>7. QED  BY <2>5, <2>6 DEF RenamedSoFar, e, more, new
<1>5. CASE key \notin Keys(before)
  <2>1. more = done  BY <1>5
  <2>2. key \notin Keys(d)
    <3>1. \A k \in done : new(k) # key  BY <1>1, <1>3
    <3>2. QED  BY <1>2, <1>5, <3>1
  <2>3. e = d  BY <2>2 DEF Renamed
  <2>4. QED  BY <2>1, <2>3 DEF RenamedSoFar, new
<1>6. QED  BY <1>4, <1>5

LEMMA RenameStep == IInv /\ Rename => IInv'
<1> SUFFICES ASSUME IInv, Rename PROVE IInv'  OBVIOUS
<1>1. /\ UNCHANGED <<endpoint, answer, ctx, stage, filtered, resp, err, client>>
      /\ stage = "rename"
  BY DEF given, Rename
<1>2. PICK key \in todo : /\ data' = Renamed(data, key, NewName(Format, key))
                          /\ todo' = todo \ {key}
  BY DEF Rename
<1>3. todo \subseteq DOMAIN Format.mapping /\ data.dict /\ filtered'.dict
  BY <1>1 DEF IInv, TypeOK
<1>4. data'.dict  BY <1>2, <1>3, RenamedDict
<1>5. client = Nil /\ answer.status # 0 /\ ~NoOp /\ StatusOK /\ answer.decodes
  BY <1>1, NoClient DEF IInv, AnswerInv
<1>6. RenameInv'
  <2>1. Format' = Format  BY <1>1 DEF Format
  <2>2. Apart(Format, filtered) => RenamedSoFar(Format, filtered, data', todo')
    BY <1>1, <1>2, <1>3, OneMoreRenamed DEF IInv, RenameInv
  <2>3. QED  BY <1>1, <2>1, <2>2 DEF RenameInv
<1>7. QED  BY <1>1, <1>2, <1>3, <1>4, <1>5, <1>6, GoesOn

LEMMA GroupStep == IInv /\ Group => IInv'
<1> SUFFICES ASSUME IInv, Group PROVE IInv'  OBVIOUS
<1> DEFINE whole == Grouped(Format, data)
           r     == [data |-> whole, complete |-> TRUE, status |-> 0]
<1>1. /\ UNCHANGED <<endpoint, answer, ctx, data, filtered, todo, client>>
      /\ stage = "rename" /\ stage' = "static" /\ resp' = r /\ err' = ""
  BY DEF given, Group, Returns
<1>2. client = Nil /\ ~NoOp /\ StatusOK /\ answer.decodes
  BY <1>1, NoClient DEF IInv, AnswerInv
<1>3. whole.dict  BY DictFacts DEF Grouped, IInv, TypeOK
<1>4. whole' = whole  BY <1>1 DEF Format
<1> HIDE DEF whole
<1>5. /\ r # Nil /\ Shaped(r) /\ r.data = whole /\ r.complete
      /\ r.complete \in BOOLEAN /\ r.status \in Nat
  BY NilFacts DEF Shaped
<1> HIDE DEF r
<1>6. TypeOK'  BY <1>1, <1>2, <1>3, <1>5 DEF IInv, TypeOK, Format
<1>7. AnswerInv' /\ RenameInv'  BY <1>1 DEF IInv, AnswerInv, RenameInv
<1>8. NoOp' = NoOp /\ StatusOK' = StatusOK  BY <1>1 DEF NoOp, StatusOK
<1>9. OutcomeInv'
  BY <1>1, <1>2, <1>4, <1>5, <1>8 DEF OutcomeInv, SameButStatic, whole
<1>10. CompletedFromSuccess' /\ ErrorNotDisguised'
  BY <1>1, <1>2 DEF CompletedFromSuccess, ErrorNotDisguised
<1>11. QED  BY <1>6, <1>7, <1>9, <1>10 DEF IInv

LEMMA WithStaticFacts ==
  ASSUME NEW r, r # Nil => Shaped(r) /\ r.complete \in BOOLEAN /\ r.status \in Nat
  PROVE  LET w == WithStatic(r)
         IN  /\ w # Nil /\ Shaped(w) /\ w.data.dict /\ "static" \in Keys(w.data)
             /\ w.complete \in BOOLEAN /\ w.status \in Nat
             /\ r = Nil => ~w.complete
             /\ r # Nil => w.complete = r.complete /\ SameButStatic(r.data, w.data)
<1> DEFINE q == IF r = Nil THEN NewResponse ELSE r
           p == Put(q.data, "static", Leaf("static"))
<1>1. q = [data |-> q.data, complete |-> q.complete, status |-> q.status]
      /\ q.complete \in BOOLEAN /\ q.status \in Nat /\ (r = Nil => ~q.complete)
  BY DEF NewResponse, Shaped
<1>2. WithStatic(r) = [q EXCEPT !.data = p]  BY DEF WithStatic
<1> HIDE DEF p
<1>3. WithStatic(r) = [data |-> p, complete |-> q.complete, status |-> q.status]
  BY <1>1, <1>2
<1>4. /\ p.dict /\ "static" \in Keys(p)
      /\ SameButStatic(q.data, p)
  BY PutFacts DEF p, SameButStatic
<1>5. QED  BY <1>1, <1>3, <1>4, NilFacts DEF Shaped

LEMMA StaticMiddlewareStep == IInv /\ StaticMiddleware => IInv'
<1> SUFFICES ASSUME IInv, StaticMiddleware PROVE IInv'  OBVIOUS
<1>1. /\ UNCHANGED <<endpoint, answer, ctx, data, filtered, todo, err, client>>
      /\ stage = "static" /\ stage' = "handler"
      /\ resp' = IF Match THEN WithStatic(resp) ELSE resp
  BY DEF given, StaticMiddleware
<1>2. client = Nil  BY <1>1, NoClient DEF IInv
<1>3. resp # Nil => /\ Shaped(resp) /\ resp.complete \in BOOLEAN /\ resp.status \in Nat
                    /\ err = ""
  BY <1>1 DEF IInv, TypeOK, OutcomeInv
<1>4. endpoint.static = "none" => resp' = resp
  BY <1>1 DEF Match
<1> DEFINE w == WithStatic(resp)
<1>5. /\ w # Nil /\ Shaped(w) /\ w.data.dict /\ "static" \in Keys(w.data)
      /\ w.complete \in BOOLEAN /\ w.status \in Nat
      /\ resp = Nil => ~w.complete
      /\ resp # Nil => w.complete = resp.complete /\ SameButStatic(resp.data, w.data)
  BY <1>3, WithStaticFacts
<1>6. resp' = w \/ resp' = resp  BY <1>1
<1> HIDE DEF w
<1>7. TypeOK'  BY <1>1, <1>2, <1>3, <1>5, <1>6 DEF IInv, TypeOK, Format, Errors
<1>8. AnswerInv' /\ RenameInv'  BY <1>1 DEF IInv, AnswerInv, RenameInv
<1>9. /\ NoOp' = NoOp /\ StatusOK' = StatusOK /\ Format' = Format
      /\ Grouped(Format, data)' = Grouped(Format, data)
  BY <1>1 DEF NoOp, StatusOK, Format
<1>10. OutcomeInv'
  <2> DEFINE whole == Grouped(Format, data)
  <2>1. resp # Nil /\ resp.complete =>
          ~NoOp /\ StatusOK /\ answer.decodes /\ err = "" /\ SameButStatic(whole, resp.data)
    BY DEF IInv, OutcomeInv
  <2> HIDE DEF whole
  <2>2. resp' # Nil /\ resp'.complete =>
          ~NoOp /\ StatusOK /\ answer.decodes /\ err = "" /\ SameButStatic(whole, resp'.data)
    BY <1>5, <1>6, <2>1 DEF SameButStatic
  <2>3. /\ resp' # Nil => Shaped(resp')
        /\ resp' = Nil => err # ""
        /\ endpoint.static = "none" => (resp' # Nil => err = "")
        /\ err = "status code" => ~NoOp /\ ~StatusOK /\ endpoint.onError = "code"
    BY <1>1, <1>3, <1>4, <1>5, <1>6 DEF IInv, OutcomeInv
  <2>4. resp' # Nil /\ endpoint.static = "none" =>
          \/ StatusOK /\ answer.decodes
          \/ NoOp /\ resp'.status = answer.status /\ answer.status # 0
          \/ ~NoOp /\ endpoint.onError = "details" /\ ~StatusOK /\ answer.status # 0
    BY <1>4 DEF IInv, OutcomeInv
  <2>5. QED  BY <1>1, <1>9, <2>2, <2>3, <2>4 DEF OutcomeInv, Shaped, whole
<1>11. CompletedFromSuccess' /\ ErrorNotDisguised'
  BY <1>1, <1>2 DEF CompletedFromSuccess, ErrorNotDisguised
<1>12. QED  BY <1>7, <1>8, <1>10, <1>11 DEF IInv

\* The end of the handler leaves the response alone.
LEMMA AnsweredStep ==
  ASSUME IInv, stage = "handler", stage' = "done",
         UNCHANGED <<endpoint, answer, ctx, data, filtered, todo, resp, err>>,
         NEW s \in Nat, NEW c \in BOOLEAN, NEW w, NEW b,
         client' = [status |-> s, completed |-> c, render |-> w, body |-> b]
  PROVE  TypeOK' /\ AnswerInv' /\ RenameInv' /\ OutcomeInv'
<1>1. client' # Nil /\ client'.status \in Nat /\ client'.completed \in BOOLEAN
  BY NilFacts
<1>2. TypeOK'  BY <1>1 DEF IInv, TypeOK, Format, Errors
<1>3. AnswerInv' /\ RenameInv'  BY DEF IInv, AnswerInv, RenameInv
<1>4. OutcomeInv'  BY DEF IInv, OutcomeInv, Shaped, NoOp, StatusOK, Format
<1>5. QED  BY <1>2, <1>3, <1>4

LEMMA SendErrorStep == IInv /\ SendError => IInv'
<1> SUFFICES ASSUME IInv, SendError PROVE IInv'  OBVIOUS
<1>1. /\ UNCHANGED <<endpoint, answer, ctx, data, filtered, todo, resp, err>>
      /\ stage = "handler" /\ stage' = "done" /\ SendsError
      /\ client' = [status |-> StatusOfError, completed |-> Completed,
                     render |-> "error", body |-> Leaf("error")]
  BY DEF given, SendError
<1>2. Completed = FALSE  BY <1>1 DEF Completed, SendsError, HasData
<1>3. StatusOfError \in Nat
      /\ (StatusOfError < 400 => /\ StatusOfError = answer.status
                                 /\ ~NoOp /\ ~StatusOK /\ endpoint.onError = "code")
  <2>1. answer.status \in Nat  BY GivenFacts DEF IInv
  <2>2. err = "status code" => ~NoOp /\ ~StatusOK /\ endpoint.onError = "code"
    BY DEF IInv, OutcomeInv
  <2>3. HandlerErr = "status code" => err = "status code"  BY DEF HandlerErr
  <2>4. CASE HandlerErr = "status code"
    <3>1. StatusOfError = answer.status  BY <2>4 DEF StatusOfError
    <3>2. QED  BY <2>1, <2>2, <2>3, <2>4, <3>1
  <2>5. CASE HandlerErr # "status code"
    <3>1. StatusOfError = 500  BY <2>5 DEF StatusOfError
    <3>2. QED  BY <3>1
  <2>6. QED  BY <2>4, <2>5
<1>4. TypeOK' /\ AnswerInv' /\ RenameInv' /\ OutcomeInv'
  BY <1>1, <1>2, <1>3, AnsweredStep
<1>5. client'.completed = FALSE /\ client'.status = StatusOfError  BY <1>1, <1>2
<1>6. NoOp' = NoOp /\ StatusOK' = StatusOK  BY <1>1 DEF NoOp, StatusOK
<1>7. CompletedFromSuccess'  BY <1>5 DEF CompletedFromSuccess
<1>8. ErrorNotDisguised'  BY <1>1, <1>3, <1>5, <1>6 DEF ErrorNotDisguised
<1>9. QED  BY <1>4, <1>7, <1>8 DEF IInv

\* Only a no-op backend is streamed.
LEMMA RenderFacts ==
  ASSUME AnswerInv
  PROVE  \A render \in RendersOf(endpoint) :
           render \in {"whole", "text", "content", "collection"} \/ (render = "stream" /\ NoOp)
<1>1. endpoint.output = "no-op" => endpoint.encoding = "no-op"
  BY GivenFacts DEF AnswerInv, Endpoint
<1>2. GetRender(endpoint) \in
        {"json", "yaml", "string", "xml", "json-collection", "negotiate", "no-op"}
  BY DEF GetRender, Registered
<1>3. GetRender(endpoint) = "no-op" => NoOp  BY <1>1 DEF GetRender, NoOp
<1> DEFINE name == GetRender(endpoint)
<1> HIDE DEF name
<1>4. RendersOf(endpoint) = CASE name \in {"json", "yaml"}  -> {"whole"}
                              [] name = "string"          -> {"text"}
                              [] name = "xml"             -> {"content"}
                              [] name = "json-collection" -> {"collection"}
                              [] name = "negotiate"       -> {"whole", "content"}
                              [] name = "no-op"           -> {"stream"}
  BY DEF RendersOf, name
<1>5. name \in {"json", "yaml", "string", "xml", "json-collection", "negotiate", "no-op"}
      /\ (name = "no-op" => NoOp)
  BY <1>2, <1>3 DEF name
<1>6. QED  BY <1>4, <1>5

LEMMA RenderStep == IInv /\ Render => IInv'
<1> SUFFICES ASSUME IInv, Render PROVE IInv'  OBVIOUS
<1> DEFINE renders == RendersOf(endpoint)
           whole   == Grouped(Format, data)
<1>1. /\ UNCHANGED <<endpoint, answer, ctx, data, filtered, todo, resp, err>>
      /\ stage = "handler" /\ stage' = "done" /\ ~SendsError
  BY DEF given, Render
<1>2. PICK render \in renders :
        client' = [status |-> StatusRendered(render), completed |-> Completed,
                   render |-> render, body |-> Shown(render)]
  BY DEF Render
<1>3. resp # Nil => /\ resp.status \in Nat /\ resp.complete \in BOOLEAN
  BY DEF IInv, TypeOK
<1>4. StatusRendered(render) \in Nat  BY <1>3 DEF StatusRendered
<1>5. Completed \in BOOLEAN  BY <1>3 DEF Completed, HasData
<1>6. TypeOK' /\ AnswerInv' /\ RenameInv' /\ OutcomeInv'
  BY <1>1, <1>2, <1>4, <1>5, AnsweredStep
<1>7. /\ client'.status = StatusRendered(render) /\ client'.completed = Completed
      /\ client'.body = Shown(render) /\ client'.render = render
  BY <1>2
<1>8. /\ NoOp' = NoOp /\ StatusOK' = StatusOK /\ renders' = renders /\ whole' = whole
  BY <1>1 DEF NoOp, StatusOK, Format
<1>9. CompletedFromSuccess'
  <2>1. SUFFICES ASSUME Completed
                 PROVE  LET shown(k) == /\ k \in Keys(client'.body)
                                        /\ client'.body.kids[k] = whole.kids[k]
                        IN /\ ~NoOp /\ StatusOK /\ answer.decodes /\ err = ""
                           /\ render \in {"whole", "text", "content", "collection"}
                           /\ render = "whole" => \A k \in Keys(whole) \ {"static"} : shown(k)
                           /\ render = "text" =>
                                client'.body \in {ValueAt(whole, "content"), EmptyDict}
                           /\ render = "content" => client'.body = ValueAt(whole, "content")
                           /\ render = "collection" =>
                                client'.body = ValueAt(whole, "collection")
    BY <1>1, <1>7, <1>8 DEF CompletedFromSuccess
  <2>2. resp # Nil /\ resp.complete  BY <2>1 DEF Completed, HasData
  <2>3. ~NoOp /\ StatusOK /\ answer.decodes /\ err = "" /\ SameButStatic(whole, resp.data)
    BY <2>2 DEF IInv, OutcomeInv
  <2>4. render \in {"whole", "text", "content", "collection"}
    BY <1>2, <2>3, RenderFacts DEF IInv
  <2>5. render = "whole" => client'.body = resp.data  BY <1>7, <2>2 DEF Shown
  <2>6. \A key \in {"content", "collection"} : OneValue(key) = ValueAt(whole, key)
    BY <2>2, <2>3 DEF SameButStatic, OneValue, ValueAt
  <2>7. /\ render = "text" => client'.body \in {ValueAt(whole, "content"), EmptyDict}
        /\ render = "content" => client'.body = ValueAt(whole, "content")
        /\ render = "collection" => client'.body = ValueAt(whole, "collection")
    BY <1>7, <2>6 DEF Shown
  <2>8. QED  BY <2>3, <2>4, <2>5, <2>7 DEF SameButStatic
<1>10. ErrorNotDisguised'
  <2>1. SUFFICES ASSUME endpoint.static = "none"
                 PROVE  \/ StatusOK /\ (NoOp \/ answer.decodes)
                        \/ /\ StatusRendered(render) = answer.status
                           /\ ~StatusOK /\ (NoOp \/ endpoint.onError = "code")
                        \/ /\ answer.status # 0 /\ ~StatusOK
                           /\ endpoint.onError = "details" /\ ~NoOp
                        \/ answer.status # 0 /\ NoOp /\ renders # {"stream"}
    BY <1>1, <1>7, <1>8 DEF ErrorNotDisguised
  <2>2. resp # Nil
    <3>1. resp = Nil => HandlerErr # ""  BY <1>1 DEF IInv, OutcomeInv, HandlerErr
    <3>2. QED  BY <1>1, <3>1 DEF SendsError, HasData
  <2>3. \/ StatusOK /\ answer.decodes
        \/ NoOp /\ resp.status = answer.status /\ answer.status # 0
        \/ ~NoOp /\ endpoint.onError = "details" /\ ~StatusOK /\ answer.status # 0
    BY <2>1, <2>2 DEF IInv, OutcomeInv
  <2>4. renders = {"stream"} => render = "stream"  BY <1>2
  <2>5. renders = {"stream"} /\ resp.status = answer.status /\ answer.status # 0 =>
          StatusRendered(render) = answer.status
    BY <2>2, <2>4 DEF StatusRendered
  <2> HIDE DEF renders
  <2>6. QED  BY <2>3, <2>5
<1>11. QED  BY <1>6, <1>9, <1>10 DEF IInv

LEMMA UnchangedStep == IInv /\ UNCHANGED vars => IInv'
<1> SUFFICES ASSUME IInv, UNCHANGED vars PROVE IInv'  OBVIOUS
<1>1. UNCHANGED <<endpoint, answer, ctx, stage, data, filtered, todo, resp, err, client>>
  BY DEF vars
<1>2. TypeOK'  BY <1>1 DEF IInv, TypeOK, Format, Errors
<1>3. AnswerInv' /\ RenameInv'
  BY <1>1 DEF IInv, AnswerInv, RenameInv, NoOp, StatusOK, Format
<1>4. OutcomeInv'  BY <1>1 DEF IInv, OutcomeInv, NoOp, StatusOK, Format, Shaped
<1>5. CompletedFromSuccess' /\ ErrorNotDisguised'
  BY <1>1 DEF IInv, CompletedFromSuccess, ErrorNotDisguised, NoOp, StatusOK, Format
<1>6. QED  BY <1>2, <1>3, <1>4, <1>5 DEF IInv

LEMMA StepInv == IInv /\ [Next]_vars => IInv'
BY ContextEndsStep, RoundTripStep, HTTPStatusHandlerStep, ParseNoOpStep, ParseFailsStep,
   ParseStep, FilterStep, RenameStep, GroupStep, StaticMiddlewareStep, SendErrorStep,
   RenderStep, UnchangedStep
DEF Next, Done

LEMMA Invariance == Spec => []IInv
BY InitInv, StepInv, PTL DEF Spec

-----------------------------------------------------------------------------
(* The filters. *)

Exact(f, format, doc) == Nodes(f) = Selected(format, Below(format.target, Nodes(doc)))

\* The document the filters leave is exact when they are done, and is looked
\* at, but not changed, until the formatter returns.
LEMMA FilteredStep == IInv /\ FilteredExactly /\ [Next]_vars => FilteredExactly'
<1>1. FilteredExactly <=> (stage = "rename" => Exact(filtered, Format, answer.doc))
  BY DEF FilteredExactly, Exact
<1>2. FilteredExactly' <=> (stage' = "rename" => Exact(filtered', Format', answer'.doc))
  BY DEF FilteredExactly, Exact
<1> SUFFICES ASSUME IInv, FilteredExactly, [Next]_vars, stage' = "rename"
             PROVE  Exact(filtered', Format', answer'.doc)
  BY <1>2
<1>3. CASE Filter
  <2>1. /\ UNCHANGED <<endpoint, answer>> /\ stage = "filter"
        /\ filtered' = IF Keys(data) = {} THEN data ELSE NewPropertyFilter(Format, data)
    BY <1>3 DEF given, Filter
  <2>2. data = ExtractTarget(Format.target, answer.doc)  BY <2>1 DEF IInv, AnswerInv
  <2>3. Document(answer.doc) /\ Lists(Format) /\ Format.target \in Seq(Names)
    BY GivenFacts DEF IInv
  <2>4. Exact(filtered', Format, answer.doc)  BY <2>1, <2>2, <2>3, ExactFacts DEF Exact
  <2>5. Format' = Format /\ answer' = answer  BY <2>1 DEF Format
  <2>6. QED  BY <2>4, <2>5
<1>4. CASE UNCHANGED <<endpoint, answer, stage, filtered>>
  <2>1. Format' = Format /\ answer' = answer /\ filtered' = filtered /\ stage = "rename"
    BY <1>4 DEF Format
  <2>2. QED  BY <1>1, <2>1
<1>5. Filter \/ UNCHANGED <<endpoint, answer, stage, filtered>>
  <2>1. ContextEnds => UNCHANGED <<endpoint, answer, stage, filtered>>
    BY DEF ContextEnds, given
  <2>2. Rename => UNCHANGED <<endpoint, answer, stage, filtered>>
    BY DEF Rename, given
  <2>3. Done \/ UNCHANGED vars => UNCHANGED <<endpoint, answer, stage, filtered>>
    BY DEF Done, vars
  <2>4. ~RoundTrip /\ ~ParseNoOp /\ ~ParseFails /\ ~Parse /\ ~Group
    BY DEF RoundTrip, ParseNoOp, ParseFails, Parse, Group, Returns
  <2>5. ~StaticMiddleware /\ ~SendError /\ ~Render
    BY DEF StaticMiddleware, SendError, Render
  <2>6. ~HTTPStatusHandler
    <3>1. endpoint.onError \in {"default", "code", "details"}
      BY GivenFacts DEF IInv, Endpoint
    <3>2. QED  BY <3>1 DEF HTTPStatusHandler, Returns
  <2>7. QED  BY <2>1, <2>2, <2>3, <2>4, <2>5, <2>6 DEF Next
<1>6. QED  BY <1>3, <1>4, <1>5

-----------------------------------------------------------------------------

\* http.go, formatter.go, static.go and the handlers: the variables keep their
\* types; an error comes with a response only where static data was added.
THEOREM TypeCorrect == Spec => []TypeOK
<1>1. IInv => TypeOK  BY DEF IInv
<1>2. QED  BY <1>1, Invariance, PTL

\* formatter.go:97-225: for every document, target and list of dotted names, the
\* trees made of the names and the recursive walk leave what the names select,
\* and nothing else.
THEOREM FilteredExactlyAlways == Spec => []FilteredExactly
<1>1. Init => FilteredExactly  BY DEF Init, FilteredExactly
<1>2. QED  BY <1>1, FilteredStep, Invariance, PTL DEF Spec

\* formatter.go:69-74: for every document and mapping whose new names are apart
\* from the names in use, the order in which Go walks the mapping does not show.
THEOREM RenamedInAnyOrderAlways == Spec => []RenamedInAnyOrder
<1>1. IInv => RenamedInAnyOrder
  <2>1. SUFFICES ASSUME IInv, stage = "rename", todo = {}, Apart(Format, filtered)
                 PROVE  LET old == DOMAIN Format.mapping \cap Keys(filtered)
                        IN  /\ Keys(data) = (Keys(filtered) \ old)
                                             \cup {NewName(Format, k) : k \in old}
                            /\ \A k \in Keys(filtered) :
                                 data.kids[IF k \in old THEN NewName(Format, k) ELSE k]
                                   = filtered.kids[k]
    BY DEF RenamedInAnyOrder, Apart
  <2>2. RenamedSoFar(Format, filtered, data, {})  BY <2>1 DEF IInv, RenameInv
  <2>3. QED  BY <2>2 DEF RenamedSoFar
<1>2. QED  BY <1>1, Invariance, PTL

\* endpoint.go of both routers, render.go, static.go: X-Pucora-Completed is true
\* only if the backend succeeded; the body is then all that the formatter left, or
\* the one value of it that the render shows.
THEOREM CompletedFromSuccessAlways == Spec => []CompletedFromSuccess
<1>1. IInv => CompletedFromSuccess  BY DEF IInv
<1>2. QED  BY <1>1, Invariance, PTL

\* gin/endpoint.go:92-123, mux/endpoint.go:92-100: a failure reaches the client as
\* one, unless the configuration asks for static data, details or the status.
THEOREM ErrorNotDisguisedAlways == Spec => []ErrorNotDisguised
<1>1. IInv => ErrorNotDisguised  BY DEF IInv
<1>2. QED  BY <1>1, Invariance, PTL
=============================================================================
