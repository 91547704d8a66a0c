----------------------- MODULE ServiceDiscoveryProofs -----------------------
(***************************************************************************)
(* The host list of ServiceDiscovery, for every zone, scale, counter width *)
(* and number of requests.  Recursive functions are reasoned about with    *)
(* sets of indices that are closed under the step from n to n + 1.         *)
(***************************************************************************)
EXTENDS ServiceDiscovery, FiniteSetTheorems, WellFoundedInduction, TLAPS

LEMMA IntervalInduction ==
  ASSUME NEW N \in Nat, NEW S, 0 \in S, \A n \in 0..N-1 : n \in S => n + 1 \in S
  PROVE  0..N \subseteq S
<1> DEFINE R == OpToRel(<, Nat)
           T == {n \in 0..N : n \notin S}
<1>1. SUFFICES ASSUME T # {} PROVE FALSE  OBVIOUS
<1>2. IsWellFoundedOn(R, Nat)  BY NatLessThanWellFounded
<1>3. R = {p \in Nat \X Nat : p[1] < p[2]}  BY DEF OpToRel
<1> HIDE DEF R
<1>4. T \in SUBSET Nat  OBVIOUS
<1>5. PICK x \in T : \A y \in T : <<y, x>> \notin R  BY <1>1, <1>2, <1>4, WFMin
<1>6. x \in Nat \ {0} /\ x <= N  OBVIOUS
<1>7. x - 1 \in 0..N-1 /\ x - 1 < x /\ (x - 1) + 1 = x  BY <1>6
<1>8. <<x - 1, x>> \in R  BY <1>3, <1>6, <1>7
<1>9. x - 1 \in S  BY <1>5, <1>7, <1>8
<1>10. QED  BY <1>5, <1>7, <1>9

LEMMA Maximum ==
  ASSUME NEW N \in Nat, NEW S \in SUBSET (0..N), S # {}
  PROVE  \E d \in S : \A e \in S : e <= d
<1> DEFINE Bounded(n) == \A e \in S : e <= n
           T == {n \in 0..N : Bounded(N - n) \/ \E d \in S : \A e \in S : e <= d}
<1>1. 0 \in T  OBVIOUS
<1>2. ASSUME NEW n \in 0..N-1, n \in T PROVE n + 1 \in T
  <2>1. CASE \E d \in S : \A e \in S : e <= d  BY <2>1
  <2>2. CASE Bounded(N - n) /\ N - n \in S  BY <2>2
  <2>3. CASE Bounded(N - n) /\ N - n \notin S
    <3>1. ASSUME NEW x \in S PROVE x <= N - (n + 1)
      <4>1. x <= N - n /\ x # N - n /\ x \in Nat  BY <2>3
      <4>2. QED  BY <4>1
    <3>2. QED  BY <3>1
  <2>4. QED  BY <1>2, <2>1, <2>2, <2>3
<1>3. 0..N \subseteq T  BY <1>1, <1>2, IntervalInduction
<1>4. N \in T  BY <1>3
<1>5. CASE Bounded(N - N)
  <2>1. PICK d \in S : TRUE  OBVIOUS
  <2>2. \A x \in S : x = 0  BY <1>5
  <2>3. QED  BY <2>1, <2>2
<1>6. QED  BY <1>4, <1>5

-----------------------------------------------------------------------------
(* The sum of the weights. *)

Sums(ws) ==
  CHOOSE sum : sum = [n \in 0..Len(ws) |-> IF n = 0 THEN 0 ELSE sum[n - 1] + ws[n]]

LEMMA SumsExist ==
  ASSUME NEW ws \in Seq(Nat)
  PROVE  /\ SumAll(ws) = Sums(ws)[Len(ws)]
         /\ Sums(ws)[0] = 0
         /\ \A n \in 1..Len(ws) : Sums(ws)[n] = Sums(ws)[n - 1] + ws[n]
         /\ \A n \in 0..Len(ws) : Sums(ws)[n] \in Nat
<1> DEFINE L == Len(ws)
           Upto(m, s) == s = [n \in 0..m |-> IF n = 0 THEN 0 ELSE s[n - 1] + ws[n]]
           T == {m \in 0..L : \E s : Upto(m, s)}
<1>0. L \in Nat  OBVIOUS
<1>1. 0 \in T
  <2>1. Upto(0, [n \in 0..0 |-> 0])  OBVIOUS
  <2> HIDE DEF Upto
  <2>2. QED  BY <1>0, <2>1
<1>2. ASSUME NEW m \in 0..L-1, m \in T PROVE m + 1 \in T
  <2>1. PICK s : Upto(m, s)  BY <1>2
  <2>2. DEFINE t == [n \in 0..m+1 |-> IF n = m + 1 THEN s[m] + ws[m + 1] ELSE s[n]]
  <2>3. Upto(m + 1, t)
    <3>1. ASSUME NEW n \in 0..m+1 PROVE t[n] = IF n = 0 THEN 0 ELSE t[n - 1] + ws[n]
      <4>1. CASE n = m + 1  BY <4>1
      <4>2. CASE n = 0  BY <4>2, <2>1
      <4>3. CASE n \in 1..m
        <5>1. t[n] = s[n] /\ t[n - 1] = s[n - 1]  BY <4>3
        <5>2. s[n] = s[n - 1] + ws[n]  BY <4>3, <2>1
        <5>3. QED  BY <5>1, <5>2, <4>3
      <4>4. QED  BY <4>1, <4>2, <4>3
    <3>2. QED  BY <3>1
  <2> HIDE DEF Upto
  <2>4. m + 1 \in 0..L  BY <1>0
  <2>5. QED  BY <2>3, <2>4
<1>3. \E s : Upto(L, s)
  <2>1. 0..L \subseteq T
    <3> HIDE DEF T, L
    <3>1. QED  BY <1>0, <1>1, <1>2, IntervalInduction
  <2> HIDE DEF Upto
  <2>2. QED  BY <1>0, <2>1
<1> DEFINE S == Sums(ws)
<1>4. Upto(L, S)  BY <1>3 DEF Sums
<1>5. SumAll(ws) = S[L]  BY DEF SumAll, Sums
<1> HIDE DEF S
<1>6. S[0] = 0 /\ \A n \in 1..L : S[n] = S[n - 1] + ws[n]  BY <1>4
<1>7. 0..L \subseteq {n \in 0..L : S[n] \in Nat}
  <2> DEFINE U == {n \in 0..L : S[n] \in Nat}
  <2>0. 0 \in U  BY <1>0, <1>6
  <2>1. ASSUME NEW n \in 0..L-1, n \in U PROVE n + 1 \in U
    <3>1. ws[n + 1] \in Nat  OBVIOUS
    <3>2. S[n + 1] = S[n] + ws[n + 1]  BY <1>6
    <3>3. QED  BY <2>1, <3>1, <3>2
  <2> HIDE DEF L
  <2>2. QED  BY <1>0, <2>0, <2>1, IntervalInduction
<1>8. QED  BY <1>5, <1>6, <1>7 DEF S

\* No weight is above the sum, and the sum is not above as many heaviest ones.
LEMMA SumBounds ==
  ASSUME NEW ws \in Seq(Nat)
  PROVE  /\ SumAll(ws) \in Nat
         /\ \A i \in DOMAIN ws : ws[i] <= SumAll(ws)
         /\ \A m \in Nat : (\A i \in DOMAIN ws : ws[i] <= m) => SumAll(ws) <= Len(ws) * m
<1> DEFINE L == Len(ws)
           S == Sums(ws)
<1>1. /\ L \in Nat /\ DOMAIN ws = 1..L /\ \A i \in 1..L : ws[i] \in Nat
  OBVIOUS
<1>2. /\ SumAll(ws) = S[L] /\ S[0] = 0
      /\ \A n \in 1..L : S[n] = S[n - 1] + ws[n]
      /\ \A n \in 0..L : S[n] \in Nat
  BY SumsExist
<1> HIDE DEF S, L
<1>3. 0..L \subseteq {n \in 0..L : \A i \in 1..n : ws[i] <= S[n]}
  <2> DEFINE T == {n \in 0..L : \A i \in 1..n : ws[i] <= S[n]}
  <2>1. 0 \in T  BY <1>1
  <2>2. ASSUME NEW n \in 0..L-1, n \in T PROVE n + 1 \in T
    <3>1. n \in 0..L /\ n + 1 \in 1..L /\ S[n + 1] = S[n + 1 - 1] + ws[n + 1] /\ n + 1 - 1 = n  BY <1>1, <1>2
    <3>2. S[n] \in Nat /\ ws[n + 1] \in Nat  BY <1>1, <1>2, <3>1
    <3>3. ASSUME NEW i \in 1..n+1 PROVE ws[i] <= S[n + 1]
      <4>1. CASE i = n + 1  BY <4>1, <3>1, <3>2
      <4>2. CASE i \in 1..n
        <5>1. ws[i] <= S[n] /\ ws[i] \in Nat  BY <4>2, <2>2, <1>1
        <5>2. QED  BY <5>1, <3>1, <3>2
      <4>3. QED  BY <4>1, <4>2
    <3>4. QED  BY <3>3, <3>1
  <2>3. QED  BY <1>1, <2>1, <2>2, IntervalInduction
<1>4. ASSUME NEW m \in Nat, \A i \in DOMAIN ws : ws[i] <= m PROVE SumAll(ws) <= L * m
  <2> DEFINE T == {n \in 0..L : S[n] <= n * m}
  <2>1. 0 \in T  BY <1>1, <1>2
  <2>2. ASSUME NEW n \in 0..L-1, n \in T PROVE n + 1 \in T
    <3>1. n \in 0..L /\ n + 1 \in 1..L /\ S[n + 1] = S[n + 1 - 1] + ws[n + 1] /\ n + 1 - 1 = n  BY <1>1, <1>2
    <3>2. S[n] \in Nat /\ ws[n + 1] \in Nat /\ ws[n + 1] <= m  BY <1>1, <1>2, <1>4, <3>1
    <3>3. (n + 1) * m = n * m + m  BY <3>1
    <3>4. n * m \in Nat /\ S[n] <= n * m  BY <2>2
    <3>5. S[n + 1] <= (n + 1) * m
      BY <3>1, <3>2, <3>3, <3>4
    <3>6. QED  BY <3>5, <3>1
  <2>3. 0..L \subseteq T  BY <1>1, <2>1, <2>2, IntervalInduction
  <2>4. QED  BY <2>3, <1>1, <1>2
<1>5. L \in 0..L  BY <1>1
<1>6. QED  BY <1>1, <1>2, <1>3, <1>4, <1>5 DEF L

-----------------------------------------------------------------------------
(* normalize, gcd and compact. *)

LEMMA Division ==
  ASSUME NEW w \in Nat, NEW d \in Nat, d > 0
  PROVE  w = d * (w \div d) + (w % d)
OBVIOUS

LEMMA DivisionTypes ==
  ASSUME NEW w \in Nat, NEW d \in Nat, d > 0
  PROVE  w \div d \in Nat /\ w % d \in 0..d-1
<1>1. w \div d \in Int /\ w \div d >= 0  OBVIOUS
<1>2. w % d \in 0..d-1  OBVIOUS
<1>3. QED  BY <1>1, <1>2

LEMMA ExactDivision ==
  ASSUME NEW w \in Nat, NEW d \in Nat, d > 0, w % d = 0
  PROVE  w \div d \in Nat /\ w = d * (w \div d) /\ (w > 0 => w \div d > 0)
<1> DEFINE q == w \div d
<1>1. w = d * q + (w % d)  BY Division
<1>2. q \in Nat  BY DivisionTypes
<1> HIDE DEF q
<1>3. w = d * q  BY <1>1, <1>2
<1>4. q = 0 => w = 0  BY <1>3
<1>5. QED  BY <1>2, <1>3, <1>4 DEF q

LEMMA GcdDivides ==
  ASSUME NEW ws \in Seq(Nat)
  PROVE  Gcd(ws) \in Nat /\ (Gcd(ws) >= 2 => \A i \in DOMAIN ws : ws[i] % Gcd(ws) = 0)
<1> DEFINE common == {d \in 1..SumAll(ws) : \A i \in DOMAIN ws : ws[i] % d = 0}
<1>1. CASE common = {}  BY <1>1 DEF Gcd
<1>2. CASE common # {}
  <2>1. SumAll(ws) \in Nat  BY SumBounds
  <2>2. common \in SUBSET (0..SumAll(ws))  BY <2>1
  <2>3. \E d \in common : \A e \in common : e <= d  BY <2>1, <2>2, <1>2, Maximum
  <2>4. Gcd(ws) = CHOOSE d \in common : \A e \in common : e <= d  BY <1>2 DEF Gcd
  <2> HIDE DEF common
  <2>5. Gcd(ws) \in common  BY <2>3, <2>4
  <2>6. QED  BY <2>1, <2>5 DEF common
<1>3. QED  BY <1>1, <1>2

\* Where the sum is at most the scale nothing is touched; else each weight is
\* scaled, and the heaviest keeps a weight.
LEMMA NormalizeKeeps ==
  ASSUME NEW ws \in Seq(Nat)
  PROVE  /\ Normalize(ws) \in Seq(Nat) /\ Len(Normalize(ws)) = Len(ws)
         /\ SumAll(ws) <= Scale \/ SumAll(ws) <= Len(ws) => Normalize(ws) = ws
         /\ (\E i \in DOMAIN ws : ws[i] > 0) => \E i \in DOMAIN ws : Normalize(ws)[i] > 0
<1> DEFINE L == Len(ws)
           sum == SumAll(ws)
           scale == IF L > Scale THEN L ELSE Scale
           scaled == [i \in DOMAIN ws |-> (ws[i] * scale) \div sum]
<1>1. /\ L \in Nat /\ DOMAIN ws = 1..L /\ \A i \in 1..L : ws[i] \in Nat
      /\ sum \in Nat /\ scale \in Nat \ {0} /\ scale >= L /\ scale >= Scale
  BY SumBounds, ScaleAssumption
<1>2. Normalize(ws) = IF sum <= scale THEN ws ELSE scaled  BY DEF Normalize
<1>3. sum <= scale <=> sum <= Scale \/ sum <= L  BY <1>1, ScaleAssumption
<1>4. CASE sum <= scale  BY <1>2, <1>4
<1>5. CASE sum > scale
  <2>1. \A m \in Nat : (\A i \in DOMAIN ws : ws[i] <= m) => sum <= L * m  BY SumBounds
  <2>2. \A i \in DOMAIN ws : ws[i] <= sum  BY SumBounds
  <2> HIDE DEF L, sum, scale
  <2>3. ASSUME NEW w \in Nat PROVE (w * scale) \div sum \in Nat
    <3>1. w * scale \in Nat /\ sum \in Nat /\ sum > 0  BY <1>1, <1>5
    <3>2. QED  BY <3>1, DivisionTypes
  <2>4. scaled \in Seq(Nat) /\ Len(scaled) = L
    <3>1. scaled \in [1..L -> Nat]  BY <1>1, <2>3
    <3>2. QED  BY <3>1, <1>1
  <2>5. ASSUME NEW i \in DOMAIN ws, ws[i] > 0 PROVE \E k \in DOMAIN ws : scaled[k] > 0
    <3> DEFINE all == {ws[k] : k \in DOMAIN ws}
    <3>1. all \in SUBSET (0..sum) /\ all # {}  BY <1>1, <2>2
    <3>2. \E m \in all : \A w \in all : w <= m
      <4> HIDE DEF all
      <4>1. QED  BY <1>1, <3>1, Maximum
    <3>3. PICK k \in DOMAIN ws : \A j \in DOMAIN ws : ws[j] <= ws[k]  BY <3>2
    <3>4. ws[k] \in Nat  BY <1>1
    <3>5. sum <= L * ws[k]  BY <2>1, <3>3, <3>4
    <3>6. L * ws[k] <= scale * ws[k]
      BY <1>1, <3>4
    <3>7. sum <= ws[k] * scale /\ ws[k] * scale \in Nat  BY <1>1, <3>4, <3>5, <3>6
    <3>8. (ws[k] * scale) \div sum > 0
      <4> DEFINE n == ws[k] * scale
      <4>1. n \in Nat /\ sum <= n /\ sum \in Nat \ {0}  BY <1>1, <1>5, <3>7
      <4> DEFINE q == n \div sum
                 r == n % sum
      <4> HIDE DEF n
      <4>2. n = sum * q + r  BY <4>1, Division
      <4>3. q \in Nat /\ r \in 0..sum-1  BY <4>1, DivisionTypes
      <4> HIDE DEF q, r
      <4>4. q # 0  BY <4>1, <4>2, <4>3
      <4>5. q > 0  BY <4>3, <4>4
      <4>6. QED  BY <4>5 DEF n, q
    <3>9. QED  BY <3>8
  <2>6. Normalize(ws) = scaled /\ ~(sum <= Scale) /\ ~(sum <= L)
    BY <1>1, <1>2, <1>3, <1>5
  <2> HIDE DEF scaled
  <2>7. QED  BY <2>4, <2>5, <2>6 DEF L, sum
<1>6. QED  BY <1>1, <1>4, <1>5

\* Dividing by the greatest common divisor keeps the proportions.
LEMMA CompactKeeps ==
  ASSUME NEW ws \in Seq(Nat)
  PROVE  /\ Compact(ws) \in Seq(Nat) /\ Len(Compact(ws)) = Len(ws)
         /\ \E d \in Nat \ {0} : \A i \in DOMAIN ws : Normalize(ws)[i] = d * Compact(ws)[i]
         /\ (\E i \in DOMAIN ws : ws[i] > 0) => \E i \in DOMAIN ws : Compact(ws)[i] > 0
<1> DEFINE tmp == Normalize(ws)
           div == Gcd(tmp)
           divided == [i \in DOMAIN tmp |-> tmp[i] \div div]
<1>1. /\ tmp \in Seq(Nat) /\ Len(tmp) = Len(ws)
      /\ (\E i \in DOMAIN ws : ws[i] > 0) => \E i \in DOMAIN ws : tmp[i] > 0
  BY NormalizeKeeps
<1>2. div \in Nat /\ (div >= 2 => \A i \in DOMAIN tmp : tmp[i] % div = 0)  BY <1>1, GcdDivides
<1>3. Compact(ws) = IF div < 2 THEN tmp ELSE divided  BY DEF Compact
<1> HIDE DEF tmp, div
<1>4. /\ DOMAIN tmp = DOMAIN ws /\ DOMAIN ws = 1..Len(ws) /\ Len(ws) \in Nat
      /\ \A i \in DOMAIN ws : tmp[i] \in Nat
  BY <1>1
<1> DEFINE Kept(res) ==
      /\ res \in Seq(Nat) /\ Len(res) = Len(ws)
      /\ \E d \in Nat \ {0} : \A i \in DOMAIN ws : tmp[i] = d * res[i]
      /\ (\E i \in DOMAIN ws : ws[i] > 0) => \E i \in DOMAIN ws : res[i] > 0
<1>5. ASSUME div < 2 PROVE Kept(Compact(ws))
  <2>1. 1 \in Nat \ {0} /\ \A i \in DOMAIN ws : tmp[i] = 1 * tmp[i]  BY <1>4
  <2>2. \E d \in Nat \ {0} : \A i \in DOMAIN ws : tmp[i] = d * tmp[i]  BY <2>1
  <2>3. Kept(tmp)  BY <1>1, <2>2
  <2> HIDE DEF Kept
  <2>4. QED  BY <1>3, <1>5, <2>3
<1>6. ASSUME div >= 2 PROVE Kept(Compact(ws))
  <2>1. ASSUME NEW i \in DOMAIN ws
        PROVE  divided[i] \in Nat /\ tmp[i] = div * divided[i] /\ (tmp[i] > 0 => divided[i] > 0)
    <3>1. tmp[i] \in Nat /\ tmp[i] % div = 0 /\ div > 0  BY <1>2, <1>4, <1>6
    <3>2. divided[i] = tmp[i] \div div  BY <1>4
    <3>3. QED  BY <1>2, <3>1, <3>2, ExactDivision
  <2>2. divided \in Seq(Nat) /\ Len(divided) = Len(ws)
    <3>1. divided \in [1..Len(ws) -> Nat]  BY <1>4, <2>1
    <3>2. QED  BY <3>1, <1>4
  <2>3. Compact(ws) = divided  BY <1>2, <1>3, <1>6
  <2> HIDE DEF divided
  <2>4. div \in Nat \ {0}  BY <1>2, <1>6
  <2>5. \E d \in Nat \ {0} : \A i \in DOMAIN ws : tmp[i] = d * divided[i]  BY <2>1, <2>4
  <2>6. Kept(divided)  BY <1>1, <2>1, <2>2, <2>5
  <2> HIDE DEF Kept
  <2>7. QED  BY <2>3, <2>6
<1>7. Kept(Compact(ws))
  <2> HIDE DEF Kept
  <2>1. QED  BY <1>2, <1>5, <1>6
<1>8. QED  BY <1>7 DEF tmp

-----------------------------------------------------------------------------
(* The sorted answer, and the list of instances made from it. *)

Entries == [target : Nat, priority : Nat, weight : Nat]

\* The order of sort.Slice is total, so every entry has a place of its own.
LEMMA SortedLists ==
  ASSUME NEW E \in SUBSET Entries, IsFiniteSet(E)
  PROVE  /\ Sorted(E) \in Seq(E)
         /\ \A a \in E : \E k \in DOMAIN Sorted(E) : Sorted(E)[k] = a
<1> DEFINE N == Cardinality(E)
           ahead(a) == {b \in E : Before(b, a)}
           rank == [a \in E |-> Cardinality(ahead(a))]
<1>1. N \in Nat  BY FS_CardinalityType
<1>2. \A a \in E : /\ a.target \in Nat /\ a.priority \in Nat /\ a.weight \in Nat
                   /\ a = [target |-> a.target, priority |-> a.priority, weight |-> a.weight]
  BY DEF Entries
<1>3. \A a, b \in E : a = b \/ Before(a, b) \/ Before(b, a)
  <2>1. SUFFICES ASSUME NEW a \in E, NEW b \in E, ~Before(a, b), ~Before(b, a) PROVE a = b
    OBVIOUS
  <2>2. a.target = b.target /\ a.priority = b.priority /\ a.weight = b.weight
    BY <1>2, <2>1 DEF Before
  <2>3. QED  BY <1>2, <2>2
<1>4. \A a, b, c \in E : ~Before(a, a) /\ (Before(a, b) /\ Before(b, c) => Before(a, c))
  BY <1>2 DEF Before
<1>5. ASSUME NEW a \in E PROVE IsFiniteSet(ahead(a)) /\ rank[a] \in 0..N-1
  <2>1. IsFiniteSet(E \ {a}) /\ Cardinality(E \ {a}) = N - 1  BY FS_RemoveElement
  <2>2. ahead(a) \in SUBSET (E \ {a})  BY <1>4
  <2>3. IsFiniteSet(ahead(a)) /\ Cardinality(ahead(a)) <= N - 1  BY <2>1, <2>2, FS_Subset
  <2>4. Cardinality(ahead(a)) \in Nat  BY <2>3, FS_CardinalityType
  <2>5. QED  BY <1>1, <2>3, <2>4
<1>6. ASSUME NEW a \in E, NEW b \in E, Before(a, b) PROVE rank[a] # rank[b]
  <2>1. ahead(a) \in SUBSET ahead(b) /\ a \in ahead(b) /\ a \notin ahead(a)  BY <1>4, <1>6
  <2>2. IsFiniteSet(ahead(b))  BY <1>5
  <2> HIDE DEF ahead
  <2>3. Cardinality(ahead(a)) # Cardinality(ahead(b))  BY <2>1, <2>2, FS_Subset
  <2>4. QED  BY <2>3
<1> HIDE DEF N
<1>7. rank \in Injection(E, 0..N-1)
  <2>1. rank \in [E -> 0..N-1]  BY <1>5
  <2> HIDE DEF rank
  <2>2. \A a, b \in E : rank[a] = rank[b] => a = b  BY <1>3, <1>6
  <2>3. QED  BY <2>1, <2>2 DEF Injection, IsInjective
<1>8. rank \in Surjection(E, 0..N-1)
  <2>1. IsFiniteSet(0..N-1) /\ Cardinality(0..N-1) = N  BY <1>1, FS_Interval
  <2> HIDE DEF rank
  <2>2. QED  BY <1>7, <2>1, FS_Injection DEF N
<1>9. ASSUME NEW k \in 1..N PROVE Sorted(E)[k] \in E /\ rank[Sorted(E)[k]] = k - 1
  <2>1. k - 1 \in 0..N-1  BY <1>1
  <2>2. \E a \in E : rank[a] = k - 1
    <3> HIDE DEF rank
    <3>1. QED  BY <1>8, <2>1 DEF Surjection
  <2>3. \E a \in E : Cardinality(ahead(a)) = k - 1  BY <2>2
  <2>4. Sorted(E)[k] = CHOOSE a \in E : Cardinality(ahead(a)) = k - 1  BY DEF Sorted, N
  <2> HIDE DEF ahead
  <2>5. QED  BY <2>3, <2>4
<1>10. Sorted(E) \in Seq(E) /\ DOMAIN Sorted(E) = 1..N
  <2>1. DOMAIN Sorted(E) = 1..N  BY DEF Sorted, N
  <2>2. Sorted(E) \in [1..N -> E]
    <3> DEFINE s == [k \in 1..N |-> CHOOSE a \in E : Cardinality(ahead(a)) = k - 1]
    <3>1. Sorted(E) = s  BY DEF Sorted, N
    <3>2. s = [k \in 1..N |-> s[k]]  OBVIOUS
    <3> HIDE DEF s
    <3>3. QED  BY <3>1, <3>2, <1>9
  <2>3. QED  BY <1>1, <2>1, <2>2
<1>11. ASSUME NEW a \in E PROVE \E k \in 1..N : Sorted(E)[k] = a
  <2>1. rank[a] \in 0..N-1  BY <1>5
  <2> HIDE DEF rank
  <2>2. rank[a] + 1 \in 1..N /\ (rank[a] + 1) - 1 = rank[a]  BY <1>1, <2>1
  <2>3. Sorted(E)[rank[a] + 1] \in E /\ rank[Sorted(E)[rank[a] + 1]] = rank[a]
    BY <1>9, <2>2
  <2>4. Sorted(E)[rank[a] + 1] = a  BY <2>3, <1>3, <1>6
  <2>5. QED  BY <2>2, <2>4
<1>12. QED  BY <1>10, <1>11

\* FlattenSeq appends one list after the other.
LEMMA Flattened ==
  ASSUME NEW T, NEW ss \in Seq(Seq(T))
  PROVE  \E F \in [0..Len(ss) -> Seq(T)] :
           /\ F[0] = <<>> /\ FlattenSeq(ss) = F[Len(ss)]
           /\ \A n \in 1..Len(ss) : F[n] = F[n - 1] \o ss[n]
<1> DEFINE L == Len(ss)
           Upto(m, f) == f = [i \in 1..m |-> IF i = 1 THEN ss[i] ELSE f[i - 1] \o ss[i]]
           U == {m \in 0..L : \E f : Upto(m, f)}
<1>1. L \in Nat /\ \A i \in 1..L : ss[i] \in Seq(T)  OBVIOUS
<1> HIDE DEF L
<1>2. 0 \in U
  <2>1. Upto(0, [i \in 1..0 |-> <<>>])  OBVIOUS
  <2> HIDE DEF Upto
  <2>2. QED  BY <1>1, <2>1
<1>3. ASSUME NEW m \in 0..L-1, m \in U PROVE m + 1 \in U
  <2>1. PICK f : Upto(m, f)  BY <1>3
  <2> DEFINE new == IF m = 0 THEN ss[1] ELSE f[m] \o ss[m + 1]
             g == [i \in 1..m+1 |-> IF i = m + 1 THEN new ELSE f[i]]
  <2>2. Upto(m + 1, g)
    <3>1. ASSUME NEW i \in 1..m+1 PROVE g[i] = IF i = 1 THEN ss[i] ELSE g[i - 1] \o ss[i]
      <4>1. CASE i = m + 1
        <5>1. g[i] = new  BY <4>1
        <5>2. CASE m = 0  BY <4>1, <5>1, <5>2
        <5>3. CASE m # 0
          <6>1. i - 1 = m /\ i # 1 /\ m \in 1..m+1 /\ m # m + 1  BY <4>1, <5>3
          <6>2. g[i - 1] = f[m]  BY <6>1
          <6>3. QED  BY <4>1, <5>1, <5>3, <6>1, <6>2
        <5>4. QED  BY <5>2, <5>3
      <4>2. CASE i \in 1..m
        <5>1. g[i] = f[i] /\ (i # 1 => g[i - 1] = f[i - 1])  BY <4>2
        <5>2. f[i] = IF i = 1 THEN ss[i] ELSE f[i - 1] \o ss[i]  BY <4>2, <2>1
        <5>3. QED  BY <5>1, <5>2
      <4>3. QED  BY <4>1, <4>2
    <3>2. QED  BY <3>1
  <2> HIDE DEF Upto, g
  <2>3. m + 1 \in 0..L  BY <1>1
  <2>4. QED  BY <2>2, <2>3
<1>4. 0..L \subseteq U
  <2> HIDE DEF U
  <2>1. QED  BY <1>1, <1>2, <1>3, IntervalInduction
<1> DEFINE J == CHOOSE f : Upto(L, f)
           F == [n \in 0..L |-> IF n = 0 THEN <<>> ELSE J[n]]
<1>5. Upto(L, J)
  <2>1. \E f : Upto(L, f)
    <3> HIDE DEF Upto
    <3>1. QED  BY <1>1, <1>4
  <2> HIDE DEF Upto
  <2>2. QED  BY <2>1
<1>6. L > 0 => FlattenSeq(ss) = J[L]  BY DEF FlattenSeq, L
<1> HIDE DEF J
<1>7. \A i \in 1..L : J[i] = IF i = 1 THEN ss[i] ELSE J[i - 1] \o ss[i]  BY <1>5
<1>8. \A n \in 1..L : F[n] = F[n - 1] \o ss[n]
  <2>1. SUFFICES ASSUME NEW n \in 1..L PROVE F[n] = F[n - 1] \o ss[n]  OBVIOUS
  <2>2. F[n] = J[n] /\ ss[n] \in Seq(T)  BY <1>1
  <2>3. CASE n = 1
    <3>1. F[n - 1] = <<>>  BY <1>1, <2>3
    <3>2. <<>> \o ss[n] = ss[n]  BY <2>2
    <3>3. QED  BY <1>7, <2>2, <2>3, <3>1, <3>2
  <2>4. CASE n # 1
    <3>1. F[n - 1] = J[n - 1]  BY <1>1, <2>4
    <3>2. QED  BY <1>7, <2>2, <2>4, <3>1
  <2>5. QED  BY <2>3, <2>4
<1>9. F[0] = <<>>  BY <1>1
<1>10. F \in [0..L -> Seq(T)]
  <2>1. F = [n \in 0..L |-> F[n]]  OBVIOUS
  <2> HIDE DEF F
  <2> DEFINE V == {n \in 0..L : F[n] \in Seq(T)}
  <2>2. 0 \in V
    <3>1. <<>> \in Seq(T)  OBVIOUS
    <3>2. F[0] \in Seq(T)  BY <1>9, <3>1, Zenon
    <3>3. 0 \in 0..L  BY <1>1
    <3>4. QED  BY <3>2, <3>3
  <2>3. ASSUME NEW n \in 0..L-1, n \in V PROVE n + 1 \in V
    <3>1. n + 1 \in 1..L /\ (n + 1) - 1 = n  BY <1>1
    <3>2. F[n + 1] = F[n] \o ss[n + 1] /\ ss[n + 1] \in Seq(T)  BY <1>1, <1>8, <3>1
    <3>3. F[n + 1] \in Seq(T)  BY <2>3, <3>2
    <3>4. QED  BY <3>1, <3>3
  <2>4. 0..L \subseteq V
    <3> HIDE DEF V
    <3>1. QED  BY <1>1, <2>2, <2>3, IntervalInduction
  <2>5. QED  BY <2>1, <2>4
<1>11. FlattenSeq(ss) = F[L]
  <2>1. CASE L = 0  BY <2>1, <1>9 DEF FlattenSeq, L
  <2>2. CASE L > 0  BY <1>1, <1>6, <2>2
  <2>3. QED  BY <1>1, <2>1, <2>2
<1> HIDE DEF F
<1>12. QED  BY <1>8, <1>9, <1>10, <1>11 DEF L

-----------------------------------------------------------------------------
(* How often a host is in a list. *)

LEMMA CountConcat ==
  ASSUME NEW T, NEW s \in Seq(T), NEW t \in Seq(T), NEW x
  PROVE  /\ Count(s, x) \in Nat /\ Count(t, x) \in Nat
         /\ Count(s \o t, x) = Count(s, x) + Count(t, x)
<1> DEFINE m == Len(s)
           n == Len(t)
           A == {i \in 1..m : s[i] = x}
           B == {i \in 1..n : t[i] = x}
           C == {i \in m+1..m+n : t[i - m] = x}
           f == [i \in B |-> i + m]
<1>1. /\ m \in Nat /\ n \in Nat /\ DOMAIN s = 1..m /\ DOMAIN t = 1..n
      /\ DOMAIN (s \o t) = 1..m+n
      /\ \A i \in 1..m+n : (s \o t)[i] = IF i <= m THEN s[i] ELSE t[i - m]
  OBVIOUS
<1>2. {i \in DOMAIN (s \o t) : (s \o t)[i] = x} = A \cup C  BY <1>1
<1> HIDE DEF m, n
<1>3. IsFiniteSet(A) /\ IsFiniteSet(B) /\ IsFiniteSet(C)
  <2>1. IsFiniteSet(1..m) /\ IsFiniteSet(1..n) /\ IsFiniteSet(m+1..m+n)  BY <1>1, FS_Interval
  <2>2. A \in SUBSET (1..m) /\ B \in SUBSET (1..n) /\ C \in SUBSET (m+1..m+n)  OBVIOUS
  <2> HIDE DEF A, B, C
  <2>3. QED  BY <2>1, <2>2, FS_Subset
<1>4. Cardinality(C) = Cardinality(B)
  <2>1. f \in [B -> C]  BY <1>1
  <2>2. \A i, j \in B : f[i] = f[j] => i = j  BY <1>1
  <2>3. ASSUME NEW c \in C PROVE \E i \in B : f[i] = c
    <3>1. c - m \in B /\ (c - m) + m = c  BY <1>1
    <3>2. QED  BY <3>1
  <2> HIDE DEF f
  <2>4. f \in Bijection(B, C)
    BY <2>1, <2>2, <2>3 DEF Bijection, Injection, Surjection, IsInjective
  <2>5. ExistsBijection(B, C)  BY <2>4 DEF ExistsBijection
  <2>6. QED  BY <1>3, <2>5, FS_Bijection
<1>5. A \cap C = {}  BY <1>1
<1>6. Count(s \o t, x) = Cardinality(A \cup C) /\ Count(s, x) = Cardinality(A)
      /\ Count(t, x) = Cardinality(B)
  BY <1>1, <1>2 DEF Count
<1> HIDE DEF A, B, C
<1>7. Cardinality(A \cup C) = Cardinality(A) + Cardinality(C) - Cardinality(A \cap C)
  BY <1>3, FS_Union
<1>8. Cardinality(A \cap C) = 0  BY <1>5, FS_EmptySet
<1>9. Cardinality(A) \in Nat /\ Cardinality(B) \in Nat  BY <1>3, FS_CardinalityType
<1>10. QED  BY <1>4, <1>6, <1>7, <1>8, <1>9

LEMMA CountRepeated ==
  ASSUME NEW n \in Nat, NEW s, DOMAIN s = 1..n, NEW x
  PROVE  /\ (\A j \in 1..n : s[j] = x) => Count(s, x) = n
         /\ (\A j \in 1..n : s[j] # x) => Count(s, x) = 0
<1>1. ASSUME \A j \in 1..n : s[j] = x PROVE Count(s, x) = n
  <2>1. {i \in DOMAIN s : s[i] = x} = 1..n  BY <1>1
  <2>2. Cardinality(1..n) = n  BY FS_Interval
  <2>3. QED  BY <2>1, <2>2 DEF Count
<1>2. ASSUME \A j \in 1..n : s[j] # x PROVE Count(s, x) = 0
  <2>1. {i \in DOMAIN s : s[i] = x} = {}  BY <1>2
  <2>2. QED  BY <2>1, FS_EmptySet DEF Count
<1>3. QED  BY <1>1, <1>2

\* A shuffle loses no host.
LEMMA CountShuffled ==
  ASSUME NEW T, NEW s \in Seq(T), NEW p \in Bijection(DOMAIN s, DOMAIN s)
  PROVE  LET t == [i \in DOMAIN s |-> s[p[i]]]
         IN  /\ t \in Seq(T) /\ Len(t) = Len(s)
             /\ \A x : Count(t, x) = Count(s, x)
<1> DEFINE n == Len(s)
           t == [i \in DOMAIN s |-> s[p[i]]]
<1>1. n \in Nat /\ DOMAIN s = 1..n /\ \A i \in 1..n : s[i] \in T  OBVIOUS
<1>2. /\ p \in [1..n -> 1..n]
      /\ \A i, j \in 1..n : p[i] = p[j] => i = j
      /\ \A k \in 1..n : \E i \in 1..n : p[i] = k
  BY <1>1 DEF Bijection, Injection, Surjection, IsInjective
<1> HIDE DEF n
<1>3. t \in Seq(T) /\ Len(t) = n
  <2>1. t \in [1..n -> T]  BY <1>1, <1>2
  <2>2. QED  BY <1>1, <2>1
<1>4. ASSUME NEW x PROVE Count(t, x) = Count(s, x)
  <2> DEFINE A == {i \in DOMAIN t : t[i] = x}
             B == {i \in DOMAIN s : s[i] = x}
             f == [i \in A |-> p[i]]
  <2>1. IsFiniteSet(A)
    <3>1. IsFiniteSet(1..n) /\ A \in SUBSET (1..n)  BY <1>1, FS_Interval
    <3> HIDE DEF A
    <3>2. QED  BY <3>1, FS_Subset
  <2>2. f \in [A -> B]  BY <1>1, <1>2
  <2>3. \A i, j \in A : f[i] = f[j] => i = j  BY <1>1, <1>2
  <2>4. ASSUME NEW k \in B PROVE \E i \in A : f[i] = k
    <3>1. PICK i \in 1..n : p[i] = k  BY <1>1, <1>2
    <3>2. i \in A  BY <1>1, <3>1
    <3>3. QED  BY <3>1, <3>2
  <2> HIDE DEF f, A, B
  <2>5. f \in Bijection(A, B)
    BY <2>2, <2>3, <2>4 DEF Bijection, Injection, Surjection, IsInjective
  <2>6. ExistsBijection(A, B)  BY <2>5 DEF ExistsBijection
  <2>7. Cardinality(A) = Cardinality(B)  BY <2>1, <2>6, FS_Bijection
  <2>8. QED  BY <2>7 DEF Count, A, B
<1>5. QED  BY <1>3, <1>4 DEF n

-----------------------------------------------------------------------------
(* What the refresh makes of an answer. *)

\* Every entry with a weight that compact leaves is listed; weights that are
\* not scaled down are d times the number of times their hosts are listed.
LEMMA RepeatedList ==
  ASSUME NEW T, NEW srvs \in Seq(Entries), \A i \in DOMAIN srvs : srvs[i].target \in T
  PROVE  /\ Repeated(srvs) \in Seq(T)
         /\ (\E i \in DOMAIN srvs : srvs[i].weight > 0) => Repeated(srvs) # <<>>
         /\ LET sum == SumAll([i \in DOMAIN srvs |-> srvs[i].weight])
            IN  sum <= Scale \/ sum <= Len(srvs) =>
                  \E d \in Nat \ {0} : \A t :
                    SumAll([i \in DOMAIN srvs |->
                              IF srvs[i].target = t THEN srvs[i].weight ELSE 0])
                      = d * Count(Repeated(srvs), t)
<1> DEFINE L == Len(srvs)
           ws == [i \in DOMAIN srvs |-> srvs[i].weight]
           times == Compact(ws)
           ss == [i \in DOMAIN srvs |-> [j \in 1..times[i] |-> srvs[i].target]]
           list == Repeated(srvs)
<1>1. L \in Nat /\ DOMAIN srvs = 1..L /\ \A i \in 1..L : srvs[i] \in Entries
  OBVIOUS
<1> HIDE DEF L
<1>2. ws \in Seq(Nat) /\ Len(ws) = L /\ DOMAIN ws = 1..L
  <2>1. ws \in [1..L -> Nat]  BY <1>1 DEF Entries
  <2>2. QED  BY <1>1, <2>1
<1>3. \A i \in 1..L : ws[i] = srvs[i].weight  BY <1>1
<1> HIDE DEF ws
<1>4. /\ times \in Seq(Nat) /\ Len(times) = L
      /\ \E d \in Nat \ {0} : \A i \in 1..L : Normalize(ws)[i] = d * times[i]
      /\ (\E i \in 1..L : ws[i] > 0) => \E i \in 1..L : times[i] > 0
  BY <1>2, CompactKeeps
<1>5. list = FlattenSeq(ss)  BY DEF Repeated, ws
<1> HIDE DEF times
<1>6. \A i \in 1..L : times[i] \in Nat  BY <1>1, <1>4
<1>7. ss \in Seq(Seq(T)) /\ Len(ss) = L /\ \A i \in 1..L : ss[i] \in Seq(T)
  <2>1. ASSUME NEW i \in 1..L PROVE [j \in 1..times[i] |-> srvs[i].target] \in Seq(T)
    <3>1. srvs[i].target \in T /\ times[i] \in Nat  BY <1>1, <1>6
    <3>2. QED  BY <3>1
  <2>2. ss \in [1..L -> Seq(T)]  BY <1>1, <2>1
  <2> HIDE DEF ss
  <2>3. QED  BY <1>1, <2>2
<1>8. \A i \in 1..L : ss[i] = [j \in 1..times[i] |-> srvs[i].target]  BY <1>1
<1> HIDE DEF ss, list
<1>9. PICK F \in [0..L -> Seq(T)] : /\ F[0] = <<>> /\ list = F[L]
                                  /\ \A n \in 1..L : F[n] = F[n - 1] \o ss[n]
  BY <1>5, <1>7, Flattened
<1>10. list \in Seq(T) /\ \A n \in 0..L : F[n] \in Seq(T)  BY <1>1, <1>9
<1>11. ASSUME NEW k \in 1..L, srvs[k].weight > 0 PROVE list # <<>>
  <2>1. PICK i \in 1..L : times[i] > 0  BY <1>3, <1>4, <1>11
  <2> DEFINE U == {n \in 0..L : n >= i => Len(F[n]) > 0}
  <2>2. 0 \in U  BY <1>1
  <2>3. ASSUME NEW n \in 0..L-1, n \in U PROVE n + 1 \in U
    <3>1. n + 1 \in 1..L /\ (n + 1) - 1 = n /\ n \in 0..L  BY <1>1
    <3>2. F[n + 1] = F[n] \o ss[n + 1]  BY <1>9, <3>1
    <3>3. F[n] \in Seq(T) /\ ss[n + 1] \in Seq(T)  BY <1>7, <1>10, <3>1
    <3>4. Len(F[n + 1]) = Len(F[n]) + Len(ss[n + 1]) /\ Len(F[n]) \in Nat /\ Len(ss[n + 1]) \in Nat
      BY <3>2, <3>3
    <3>5. n + 1 = i => Len(ss[n + 1]) > 0
      <4>1. times[n + 1] \in Nat /\ ss[n + 1] = [j \in 1..times[n + 1] |-> srvs[n + 1].target]
        BY <1>6, <1>8, <3>1
      <4>2. Len(ss[n + 1]) = times[n + 1]  BY <4>1
      <4>3. QED  BY <2>1, <4>2
    <3>6. n + 1 >= i => Len(F[n + 1]) > 0  BY <2>3, <3>1, <3>4, <3>5
    <3>7. QED  BY <3>1, <3>6
  <2>4. 0..L \subseteq U
    <3> HIDE DEF U
    <3>1. QED  BY <1>1, <2>2, <2>3, IntervalInduction
  <2>5. Len(F[L]) > 0  BY <1>1, <2>4
  <2>6. QED  BY <1>9, <2>5
<1>12. ASSUME SumAll(ws) <= Scale \/ SumAll(ws) <= L
       PROVE  \E d \in Nat \ {0} : \A t :
                SumAll([i \in DOMAIN srvs |->
                          IF srvs[i].target = t THEN srvs[i].weight ELSE 0])
                  = d * Count(list, t)
  <2>1. Normalize(ws) = ws  BY <1>2, <1>12, NormalizeKeeps
  <2>2. PICK d \in Nat \ {0} : \A i \in 1..L : ws[i] = d * times[i]  BY <1>4, <2>1
  <2>3. ASSUME NEW t
        PROVE  SumAll([i \in DOMAIN srvs |->
                         IF srvs[i].target = t THEN srvs[i].weight ELSE 0])
                 = d * Count(list, t)
    <3> DEFINE own == [i \in DOMAIN srvs |-> IF srvs[i].target = t THEN srvs[i].weight ELSE 0]
               S == Sums(own)
               U == {n \in 0..L : S[n] = d * Count(F[n], t)}
    <3>1. own \in Seq(Nat) /\ Len(own) = L
      <4>1. own \in [1..L -> Nat]  BY <1>1 DEF Entries
      <4> HIDE DEF own
      <4>2. QED  BY <1>1, <4>1
    <3>2. \A i \in 1..L : own[i] = IF srvs[i].target = t THEN ws[i] ELSE 0  BY <1>1, <1>3
    <3> HIDE DEF own
    <3>3. /\ SumAll(own) = S[L] /\ S[0] = 0
          /\ \A n \in 1..L : S[n] = S[n - 1] + own[n]
      BY <3>1, SumsExist
    <3> HIDE DEF S
    <3>4. 0 \in U
      <4>1. Count(F[0], t) = 0
        <5>1. DOMAIN F[0] = {}  BY <1>9
        <5>2. {i \in DOMAIN F[0] : F[0][i] = t} = {}  BY <5>1
        <5>3. QED  BY <5>2, FS_EmptySet DEF Count
      <4>2. d * 0 = 0  OBVIOUS
      <4>3. QED  BY <1>1, <3>3, <4>1, <4>2
    <3>5. ASSUME NEW n \in 0..L-1, n \in U PROVE n + 1 \in U
      <4> DEFINE c == Count(F[n], t)
                 more == Count(ss[n + 1], t)
      <4>1. n + 1 \in 1..L /\ (n + 1) - 1 = n /\ n \in 0..L /\ n + 1 \in 0..L  BY <1>1
      <4>2. F[n + 1] = F[n] \o ss[n + 1] /\ F[n] \in Seq(T) /\ ss[n + 1] \in Seq(T)
        BY <1>7, <1>9, <1>10, <4>1
      <4>3. c \in Nat /\ more \in Nat /\ Count(F[n + 1], t) = c + more
        BY <4>2, CountConcat
      <4>4. times[n + 1] \in Nat /\ ss[n + 1] = [j \in 1..times[n + 1] |-> srvs[n + 1].target]
        BY <1>6, <1>8, <4>1
      <4>5. more = IF srvs[n + 1].target = t THEN times[n + 1] ELSE 0
        <5> DEFINE k == times[n + 1]
                   u == srvs[n + 1].target
        <5>1. k \in Nat /\ ss[n + 1] = [j \in 1..k |-> u]  BY <4>4
        <5> HIDE DEF k, u
        <5>2. DOMAIN ss[n + 1] = 1..k /\ \A j \in 1..k : ss[n + 1][j] = u  BY <5>1
        <5>3. more = IF u = t THEN k ELSE 0  BY <5>1, <5>2, CountRepeated
        <5>4. QED  BY <5>3 DEF k, u
      <4>6. S[n + 1] = S[n] + own[n + 1] /\ S[n] = d * c  BY <3>3, <3>5, <4>1
      <4> HIDE DEF c, more
      <4>7. own[n + 1] = d * more
        <5>1. ws[n + 1] = d * times[n + 1]  BY <2>2, <4>1
        <5>2. d * 0 = 0  OBVIOUS
        <5>3. QED  BY <3>2, <4>1, <4>5, <5>1, <5>2
      <4>8. d * (c + more) = d * c + d * more  BY <4>3
      <4>9. S[n + 1] = d * Count(F[n + 1], t)  BY <4>3, <4>6, <4>7, <4>8
      <4>10. QED  BY <4>1, <4>9
    <3>6. 0..L \subseteq U
      <4> HIDE DEF U
      <4>1. QED  BY <1>1, <3>4, <3>5, IntervalInduction
    <3>7. S[L] = d * Count(F[L], t)  BY <1>1, <3>6
    <3>8. QED  BY <1>9, <3>3, <3>7 DEF own
  <2>4. QED  BY <2>3
<1>13. QED  BY <1>1, <1>10, <1>11, <1>12 DEF list, ws, L

\* What may be stored for a zone: every host of its lowest priority that compact
\* leaves a weight, in its share of the list, however this is shuffled.
LEMMA StoredLists ==
  ASSUME NEW z \in Zones, NEW list \in Stored[z]
  PROVE  /\ list \in Seq(Targets(Lowest(z)))
         /\ (\E e \in Lowest(z) : e.weight > 0) => list # <<>>
         /\ Light(Lowest(z)) =>
              \A t, u : Count(list, t) * WeightOf(Lowest(z), u)
                           = Count(list, u) * WeightOf(Lowest(z), t)
<1> DEFINE low == Lowest(z)
           T == Targets(low)
           srvs == Sorted(low)
           all == Instances(z)
<1>1. low \in SUBSET Entries /\ IsFiniteSet(low)
  <2>1. low \in SUBSET z  BY DEF Lowest
  <2> HIDE DEF low
  <2>2. IsFiniteSet(z) /\ z \subseteq Entries  BY ZonesAssumption DEF Entries
  <2>3. QED  BY <2>1, <2>2, FS_Subset
<1>2. all = Repeated(srvs)  BY DEF Instances
<1>3. low = Lowest(z)  OBVIOUS
<1> HIDE DEF low, all
<1>4. srvs \in Seq(low) /\ \A a \in low : \E k \in DOMAIN srvs : srvs[k] = a
  BY <1>1, SortedLists
<1> HIDE DEF srvs
<1>5. srvs \in Seq(Entries)  BY <1>1, <1>4
<1>6. \A i \in DOMAIN srvs : srvs[i].target \in T  BY <1>4 DEF Targets
<1> HIDE DEF T
<1>7. /\ all \in Seq(T)
      /\ (\E i \in DOMAIN srvs : srvs[i].weight > 0) => all # <<>>
  BY <1>2, <1>5, <1>6, RepeatedList
<1>8. ASSUME Light(low)
      PROVE  \E d \in Nat \ {0} : \A t : WeightOf(low, t) = d * Count(all, t)
  <2>1. LET sum == SumAll([i \in DOMAIN srvs |-> srvs[i].weight])
        IN  sum <= Scale \/ sum <= Len(srvs)
    BY <1>8 DEF Light, srvs
  <2>2. \E d \in Nat \ {0} : \A t :
          SumAll([i \in DOMAIN srvs |-> IF srvs[i].target = t THEN srvs[i].weight ELSE 0])
            = d * Count(all, t)
    BY <1>2, <1>5, <1>6, <2>1, RepeatedList
  <2>3. \A t : WeightOf(low, t) =
          SumAll([i \in DOMAIN srvs |-> IF srvs[i].target = t THEN srvs[i].weight ELSE 0])
    BY DEF WeightOf, srvs
  <2>4. QED  BY <2>2, <2>3
<1>9. list \in Seq(T) /\ Len(list) = Len(all) /\ \A t : Count(list, t) = Count(all, t)
  <2>1. CASE list = all  BY <1>7, <2>1
  <2>2. CASE \E p \in Bijection(DOMAIN all, DOMAIN all) : list = [i \in DOMAIN all |-> all[p[i]]]
    BY <1>7, <2>2, CountShuffled
  <2>3. list = all \/ \E p \in Bijection(DOMAIN all, DOMAIN all) : list = [i \in DOMAIN all |-> all[p[i]]]
    BY DEF Stored, all
  <2>4. QED  BY <2>1, <2>2, <2>3
<1>10. (\E e \in low : e.weight > 0) => list # <<>>
  <2>1. SUFFICES ASSUME NEW e \in low, e.weight > 0 PROVE list # <<>>  OBVIOUS
  <2>2. all # <<>>  BY <1>4, <1>7, <2>1
  <2>3. Len(all) # 0  BY <1>7, <2>2
  <2>4. QED  BY <1>9, <2>3
<1>11. ASSUME Light(low), NEW t, NEW u
       PROVE  Count(list, t) * WeightOf(low, u) = Count(list, u) * WeightOf(low, t)
  <2> DEFINE ct == Count(list, t)
             cu == Count(list, u)
  <2>1. PICK d \in Nat \ {0} : \A x : WeightOf(low, x) = d * Count(list, x)
    BY <1>8, <1>9, <1>11
  <2>2. ct \in Nat /\ cu \in Nat  BY <1>9, CountConcat
  <2> HIDE DEF ct, cu
  <2>3. ct * (d * cu) = cu * (d * ct)  BY <2>2
  <2>4. QED  BY <2>1, <2>3 DEF ct, cu
<1>12. QED  BY <1>3, <1>9, <1>10, <1>11 DEF T

-----------------------------------------------------------------------------
(* The goroutine and the requests. *)

CacheInv ==
  \/ seen = Nil /\ cache = <<>>
  \/ seen \in Zones /\ cache \in Stored[seen]

FoundInv == updater = "store" => found \in Zones

\* A request that picks has a copy to pick from, and none has panicked.
CopyInv ==
  \A r \in Requests : /\ request[r] = "picking" => hosts[r] # <<>>
                      /\ got[r] \in AllTargets \cup {NoHosts}

IInv == TypeOK /\ CacheInv /\ FoundInv /\ CopyInv

LEMMA InitInv == Init => IInv
<1> SUFFICES ASSUME Init PROVE IInv  OBVIOUS
<1>1. TypeOK
  <2>1. <<>> \in Seq(AllTargets) /\ 0 \in 0..CounterValues - 1 /\ 0 \in 0..MaxChanges
    BY CounterAssumption
  <2>2. QED  BY <2>1 DEF Init, TypeOK
<1>2. QED  BY <1>1 DEF Init, IInv, CacheInv, FoundInv, CopyInv

LEMMA StoredTyped ==
  ASSUME NEW z \in Zones, NEW list \in Stored[z]
  PROVE  list \in Seq(AllTargets)
<1>1. list \in Seq(Targets(Lowest(z)))  BY StoredLists
<1>2. Targets(Lowest(z)) \subseteq AllTargets  BY DEF Targets, Lowest, AllTargets
<1>3. QED  BY <1>1, <1>2

\* An index below the length of the copy is one of the copy's.
LEMMA PickInCopy ==
  ASSUME NEW T, NEW list \in Seq(T), list # <<>>, NEW offset \in Nat
  PROVE  /\ Len(list) \in Nat \ {0}
         /\ offset < Len(list) => At(list, offset) \in T
         /\ offset % Len(list) \in 0..Len(list) - 1
<1>1. Len(list) \in Nat /\ Len(list) > 0  OBVIOUS
<1>2. offset % Len(list) \in 0..Len(list) - 1  BY <1>1, DivisionTypes
<1>3. QED  BY <1>1, <1>2 DEF At

\* The refresh stores what StoredLists describes; a request picks from a copy
\* that is not empty, whatever has become of the cache since.
LEMMA StepInv == IInv /\ [Next]_vars => IInv'
<1> SUFFICES ASSUME IInv, [Next]_vars PROVE IInv'  OBVIOUS
<1> USE DEF IInv
<1>1. CASE ZoneChanges
  <2>1. changes \in 0..MaxChanges  BY DEF TypeOK
  <2>2. changes' \in 0..MaxChanges  BY <1>1, <2>1, CounterAssumption DEF ZoneChanges
  <2>3. TypeOK'  BY <1>1, <2>2 DEF ZoneChanges, TypeOK
  <2>4. QED  BY <1>1, <2>3 DEF ZoneChanges, CacheInv, FoundInv, CopyInv
<1>2. CASE LookupSucceeds
  <2>1. TypeOK' /\ FoundInv'  BY <1>2 DEF LookupSucceeds, TypeOK, FoundInv
  <2>2. QED  BY <1>2, <2>1 DEF LookupSucceeds, CacheInv, CopyInv
<1>3. CASE UNCHANGED vars
  BY <1>3 DEF vars, TypeOK, CacheInv, FoundInv, CopyInv
<1>4. CASE Store
  <2>1. found \in Zones /\ cache' \in Stored[found] /\ seen' = found /\ updater' = "lookup"
    BY <1>4 DEF Store, FoundInv
  <2>2. cache' \in Seq(AllTargets)  BY <2>1, StoredTyped
  <2>3. TypeOK'  BY <1>4, <2>1, <2>2 DEF Store, TypeOK
  <2>4. QED  BY <1>4, <2>1, <2>3 DEF Store, CacheInv, FoundInv, CopyInv
<1>5. CASE \E r \in Requests :
             Snapshot(r) \/ FindsNone(r) \/ PickInTurn(r) \/ PickAtRandom(r) \/ Again(r)
  <2>1. PICK r \in Requests :
          Snapshot(r) \/ FindsNone(r) \/ PickInTurn(r) \/ PickAtRandom(r) \/ Again(r)
    BY <1>5
  <2>2. UNCHANGED <<zone, changes, cache, updater, found, seen, strategy>>
    BY <2>1 DEF Snapshot, FindsNone, PickInTurn, PickAtRandom, Again
  <2>3. CacheInv' /\ FoundInv'  BY <2>2 DEF CacheInv, FoundInv
  <2>4. /\ counter \in Nat /\ hosts[r] \in Seq(AllTargets)
        /\ request[r] = "picking" => hosts[r] # <<>>
    <3>1. counter \in 0..CounterValues - 1  BY DEF TypeOK
    <3>2. counter \in Nat  BY <3>1, CounterAssumption
    <3>3. QED  BY <3>2 DEF TypeOK, CopyInv
  <2>5. CASE Snapshot(r)
    <3>1. TypeOK'  BY <2>2, <2>5 DEF Snapshot, TypeOK
    <3>2. CopyInv'  BY <2>5 DEF Snapshot, TypeOK, CopyInv
    <3>3. QED  BY <2>3, <3>1, <3>2
  <2>6. CASE FindsNone(r)
    <3>1. TypeOK'  BY <2>2, <2>6 DEF FindsNone, TypeOK
    <3>2. CopyInv'  BY <2>6 DEF FindsNone, TypeOK, CopyInv
    <3>3. QED  BY <2>3, <3>1, <3>2
  <2>7. CASE PickInTurn(r)
    <3>1. counter' \in 0..CounterValues - 1
      <4>1. counter + 1 \in Nat /\ CounterValues \in Nat /\ CounterValues > 0
        BY <2>4, CounterAssumption
      <4>2. (counter + 1) % CounterValues \in 0..CounterValues - 1  BY <4>1, DivisionTypes
      <4>3. QED  BY <2>7, <4>2 DEF PickInTurn
    <3>2. got' = [got EXCEPT ![r] = At(hosts[r], counter % Len(hosts[r]))]
      BY <2>7 DEF PickInTurn
    <3>3. At(hosts[r], counter % Len(hosts[r])) \in AllTargets
      <4> DEFINE n == Len(hosts[r])
      <4>1. hosts[r] # <<>>  BY <2>4, <2>7 DEF PickInTurn
      <4>2. n \in Nat \ {0} /\ counter % n \in 0..n - 1  BY <2>4, <4>1, PickInCopy
      <4>3. counter % n \in Nat /\ counter % n < n  BY <4>2
      <4>4. QED  BY <2>4, <4>1, <4>3, PickInCopy
    <3>4. TypeOK'  BY <2>2, <2>7, <3>1, <3>2, <3>3 DEF PickInTurn, TypeOK
    <3>5. CopyInv'  BY <2>7, <3>2, <3>3 DEF PickInTurn, TypeOK, CopyInv
    <3>6. QED  BY <2>3, <3>4, <3>5
  <2>8. CASE PickAtRandom(r)
    <3>1. PICK offset \in 0..Len(hosts[r]) - 1 : got' = [got EXCEPT ![r] = At(hosts[r], offset)]
      BY <2>8 DEF PickAtRandom
    <3>2. At(hosts[r], offset) \in AllTargets
      <4>1. hosts[r] # <<>>  BY <2>4, <2>8 DEF PickAtRandom
      <4>2. offset \in Nat /\ offset < Len(hosts[r])  BY <2>4
      <4>3. QED  BY <2>4, <4>1, <4>2, PickInCopy
    <3>3. TypeOK'  BY <2>2, <2>8, <3>1, <3>2 DEF PickAtRandom, TypeOK
    <3>4. CopyInv'  BY <2>8, <3>1, <3>2 DEF PickAtRandom, TypeOK, CopyInv
    <3>5. QED  BY <2>3, <3>3, <3>4
  <2>9. CASE Again(r)
    <3>1. <<>> \in Seq(AllTargets)  OBVIOUS
    <3>2. TypeOK'  BY <2>2, <2>9, <3>1 DEF Again, TypeOK
    <3>3. CopyInv'  BY <2>9 DEF Again, TypeOK, CopyInv
    <3>4. QED  BY <2>3, <3>2, <3>3
  <2>10. QED  BY <2>1, <2>5, <2>6, <2>7, <2>8, <2>9
<1>6. QED  BY <1>1, <1>2, <1>3, <1>4, <1>5 DEF Next, LookupFails

LEMMA Invariance == Spec => []IInv
BY InitInv, StepInv, PTL DEF Spec

-----------------------------------------------------------------------------

\* subscriber.go and loadbalancing.go: the variables keep their types, for all
\* zones, scales and requests; the counter stays in its width.
THEOREM TypeCorrect == Spec => []TypeOK
<1>1. IInv => TypeOK  BY DEF IInv
<1>2. QED  BY <1>1, Invariance, PTL

\* loadbalancing.go:60: the pick of a request never leaves its copy, whatever
\* the refresh stores between the copy and the pick.
THEOREM NeverPanicsAlways == Spec => []NeverPanics
<1>1. IInv => NeverPanics
  <2>1. AllTargets \subseteq Nat  BY ZonesAssumption DEF AllTargets, Targets
  <2>2. QED  BY <2>1 DEF IInv, CopyInv, NeverPanics, NoHosts, Panic
<1>2. QED  BY <1>1, Invariance, PTL

\* subscriber.go:186-205: however many entries there are and whatever they weigh,
\* scaling and compacting leave at least one host in the list.
THEOREM HostsWhenPublishedAlways == Spec => []HostsWhenPublished
<1>1. IInv => HostsWhenPublished
  BY StoredLists DEF IInv, CacheInv, HostsWhenPublished
<1>2. QED  BY <1>1, Invariance, PTL

\* subscriber.go:110-205: each host of the lowest priority is in the cache in
\* proportion to the weights of its entries, if they need no scaling.
THEOREM ExactProportionsAlways == Spec => []ExactProportions
<1>1. IInv => ExactProportions
  <2>1. SUFFICES ASSUME IInv, seen # Nil PROVE ExactProportions
    BY DEF ExactProportions
  <2>2. seen \in Zones /\ cache \in Stored[seen]  BY <2>1 DEF IInv, CacheInv
  <2>3. cache \in Seq(Targets(Lowest(seen)))  BY <2>2, StoredLists
  <2>4. ToSet(cache) \subseteq Targets(Lowest(seen))  BY <2>3 DEF ToSet
  <2>5. Light(Lowest(seen)) =>
          \A t, u : Count(cache, t) * WeightOf(Lowest(seen), u)
                       = Count(cache, u) * WeightOf(Lowest(seen), t)
    BY <2>2, StoredLists
  <2>6. QED  BY <2>4, <2>5 DEF ExactProportions
<1>2. QED  BY <1>1, Invariance, PTL
=============================================================================
