------------------------ MODULE ParallelMergeProofs ------------------------
(***************************************************************************)
(* Proofs about ParallelMerge, for every number of backends, every set of  *)
(* keys and every choice of filters.                                       *)
(***************************************************************************)
EXTENDS ParallelMerge, FiniteSetTheorems, TLAPS

LEMMA BackendFinite ==
  IsFiniteSet(Backend) /\ Cardinality(Backend) = N
BY NAssumption, FS_Interval DEF Backend

-----------------------------------------------------------------------------
(* The accumulator and combineData. *)

LEMMA CombineType ==
  ASSUME NEW a \in Response, NEW r \in Response
  PROVE  /\ CombineData(2, <<a, r>>) \in Response
         /\ CombineData(2, <<a, r>>).data \in Data
<1> DEFINE parts2     == <<a, r>>
           usable     == {i \in DOMAIN parts2 : HasBody(parts2[i])}
           holders(k) == {i \in usable : k \in DOMAIN parts2[i].data}
           last(k)    == CHOOSE i \in holders(k) : \A j \in holders(k) : j <= i
           keys       == {key \in Keys : holders(key) # {}}
           body       == [k \in keys |-> parts2[last(k)].data[k]]
<1>1. ASSUME NEW k \in keys PROVE last(k) \in holders(k)
  <2>1. holders(k) \subseteq {1, 2} /\ holders(k) # {}  OBVIOUS
  <2>2. \E i \in holders(k) : \A j \in holders(k) : j <= i
    <3> HIDE DEF holders
    <3>1. CASE 2 \in holders(k)  BY <2>1, <3>1
    <3>2. CASE 2 \notin holders(k)  BY <2>1, <3>2
    <3>3. QED  BY <3>1, <3>2
  <2>3. QED  BY <2>2
<1>2. ASSUME NEW k \in keys PROVE parts2[last(k)].data[k] \in Backend
  <2>1. /\ last(k) \in DOMAIN parts2
        /\ HasBody(parts2[last(k)])
        /\ k \in DOMAIN parts2[last(k)].data
    BY <1>1
  <2>2. parts2[last(k)] \in Response
    <3> HIDE DEF last
    <3>1. last(k) \in {1, 2}  BY <2>1
    <3>2. QED  BY <3>1
  <2> HIDE DEF last
  <2>3. parts2[last(k)].data \in Data
    BY <2>1, <2>2, NilAssumption DEF HasBody, Response
  <2>4. QED  BY <2>1, <2>3 DEF Data
<1>3. body \in Data
  <2>1. keys \in SUBSET Keys  OBVIOUS
  <2>2. body \in [keys -> Backend]  BY <1>2
  <2> HIDE DEF body, keys
  <2>3. QED  BY <2>1, <2>2 DEF Data
<1>4. CombineData(2, <<a, r>>).data = body  BY DEF CombineData
<1>5. QED  BY <1>3 DEF CombineData, Response

\* Combining two responses keeps the keys of both, the second's value where
\* both have one, and is complete if both are and both have a body.
LEMMA CombineExact ==
  ASSUME NEW a \in Response, NEW r \in Response
  PROVE  LET both == CombineData(2, <<a, r>>)
             In(p, k) == HasBody(p) /\ k \in DOMAIN p.data
         IN  /\ HasBody(both) /\ DOMAIN both.data \subseteq Keys
             /\ \A k : k \in DOMAIN both.data <=> In(a, k) \/ In(r, k)
             /\ \A k \in DOMAIN both.data :
                  both.data[k] = IF In(r, k) THEN r.data[k] ELSE a.data[k]
             /\ both.complete <=> a.complete /\ r.complete /\ HasBody(a) /\ HasBody(r)
<1> DEFINE both       == CombineData(2, <<a, r>>)
           In(p, k)   == HasBody(p) /\ k \in DOMAIN p.data
           parts2     == <<a, r>>
           usable     == {i \in DOMAIN parts2 : HasBody(parts2[i])}
           holders(k) == {i \in usable : k \in DOMAIN parts2[i].data}
           last(k)    == CHOOSE i \in holders(k) : \A j \in holders(k) : j <= i
           keys       == {key \in Keys : holders(key) # {}}
<1>1. both.data = [k \in keys |-> parts2[last(k)].data[k]]
  BY DEF CombineData
<1>2. both.complete <=> usable = DOMAIN parts2 /\ \A i \in usable : parts2[i].complete
  BY DEF CombineData
<1>3. /\ \A k : 1 \in holders(k) <=> In(a, k)
      /\ \A k : 2 \in holders(k) <=> In(r, k)
      /\ \A k : holders(k) \subseteq {1, 2}
  OBVIOUS
<1>4. ASSUME NEW p \in Response, HasBody(p) PROVE DOMAIN p.data \subseteq Keys
  <2>1. p.data \in Data  BY <1>4, NilAssumption DEF HasBody, Response
  <2>2. QED  BY <2>1 DEF Data
<1>5. ASSUME NEW k PROVE k \in keys <=> In(a, k) \/ In(r, k)
  <2>1. In(a, k) \/ In(r, k) => k \in Keys  BY <1>4
  <2> HIDE DEF holders, In
  <2>2. holders(k) # {} <=> In(a, k) \/ In(r, k)  BY <1>3
  <2>3. QED  BY <2>1, <2>2
<1>6. ASSUME NEW k \in keys PROVE last(k) = IF In(r, k) THEN 2 ELSE 1
  <2>1. holders(k) # {}  OBVIOUS
  <2> HIDE DEF holders, In
  <2>2. CASE In(r, k)
    <3>1. 2 \in holders(k) /\ \A j \in holders(k) : j <= 2  BY <1>3, <2>2
    <3>2. \A i \in holders(k) : (\A j \in holders(k) : j <= i) => i = 2
      BY <1>3, <3>1
    <3>3. QED  BY <2>2, <3>1, <3>2
  <2>3. CASE ~In(r, k)
    <3>1. holders(k) = {1}  BY <1>3, <2>1, <2>3
    <3>2. QED  BY <2>3, <3>1
  <2>4. QED  BY <2>2, <2>3
<1>7. HasBody(both)
  <2>1. both \in Response /\ both.data \in Data  BY CombineType
  <2> HIDE DEF both
  <2>2. QED  BY <2>1, NilAssumption DEF HasBody
<1>8. DOMAIN both.data = keys  BY <1>1
<1>9. ASSUME NEW k \in DOMAIN both.data
      PROVE  both.data[k] = IF In(r, k) THEN r.data[k] ELSE a.data[k]
  <2>1. k \in keys  BY <1>8, <1>9
  <2>2. both.data[k] = parts2[last(k)].data[k]
    <3> HIDE DEF last, keys, both
    <3>1. QED  BY <1>1, <2>1
  <2>3. CASE In(r, k)
    <3>1. last(k) = 2  BY <1>6, <2>1, <2>3
    <3> HIDE DEF last, In
    <3>2. QED  BY <2>2, <2>3, <3>1
  <2>4. CASE ~In(r, k)
    <3>1. last(k) = 1  BY <1>6, <2>1, <2>4
    <3> HIDE DEF last, In
    <3>2. QED  BY <2>2, <2>4, <3>1
  <2>5. QED  BY <2>3, <2>4
<1>10. both.complete <=> a.complete /\ r.complete /\ HasBody(a) /\ HasBody(r)
  <2>1. DOMAIN parts2 = {1, 2} /\ parts2[1] = a /\ parts2[2] = r  OBVIOUS
  <2>2. usable = DOMAIN parts2 <=> HasBody(a) /\ HasBody(r)
    <3>1. 1 \in usable <=> HasBody(a)  OBVIOUS
    <3>2. 2 \in usable <=> HasBody(r)  OBVIOUS
    <3>3. usable \subseteq {1, 2}  BY <2>1
    <3>4. QED  BY <2>1, <3>1, <3>2, <3>3
  <2>3. usable = DOMAIN parts2 =>
          ((\A i \in usable : parts2[i].complete) <=> a.complete /\ r.complete)
    BY <2>1
  <2> HIDE DEF both, usable, parts2
  <2>4. QED  BY <1>2, <2>2, <2>3
<1>11. keys \subseteq Keys  OBVIOUS
<1>12. QED  BY <1>5, <1>7, <1>8, <1>9, <1>10, <1>11

LEMMA MergeErrorType ==
  ASSUME NEW a \in Accumulator, NEW e \in Error, a.pending > 0
  PROVE  MergeError(a, e) \in Accumulator
<1>1. Incomplete(a.data) \in Response \cup {Nil}
  BY DEF Accumulator, Incomplete, Response
<1>2. a.pending - 1 \in 0..N  BY NAssumption DEF Accumulator
<1>3. Append(a.errs, e) \in Seq(Error)  BY DEF Accumulator
<1>4. QED  BY <1>1, <1>2, <1>3 DEF MergeError, Accumulator

LEMMA MergeResponseType ==
  ASSUME NEW a \in Accumulator, NEW r \in Response, a.pending > 0
  PROVE  MergeResponse(a, r) \in Accumulator
<1>1. r # Nil  BY NilAssumption
<1>2. a.data # Nil => CombineData(2, <<a.data, r>>) \in Response
  BY CombineType DEF Accumulator
<1> DEFINE m == MergeResponse(a, r)
<1>3. /\ m = [pending |-> m.pending, data |-> m.data, errs |-> m.errs]
      /\ m.pending = a.pending - 1 /\ m.errs = a.errs
      /\ m.data = IF a.data = Nil THEN r ELSE CombineData(2, <<a.data, r>>)
  BY <1>1 DEF MergeResponse
<1>4. m.pending \in 0..N /\ m.data \in Response \cup {Nil} /\ m.errs \in Seq(Error)
  BY <1>2, <1>3, NAssumption DEF Accumulator
<1> HIDE DEF m
<1>5. QED  BY <1>3, <1>4 DEF Accumulator, m

LEMMA ResultType ==
  ASSUME NEW a \in Accumulator
  PROVE  Result(a) \in Reply
BY NilAssumption DEF Result, Reply, Accumulator, Incomplete, Response

\* A response that is called incomplete keeps its body.
LEMMA IncompleteKeeps ==
  ASSUME NEW a \in Response \cup {Nil}, a # Nil
  PROVE  Incomplete(a) # Nil /\ Incomplete(a).data = a.data
<1>1. [data |-> a.data, complete |-> FALSE] \in Response  BY DEF Response
<1>2. QED  BY <1>1, NilAssumption DEF Incomplete

-----------------------------------------------------------------------------
(* A buffered channel is the sequence of those whose message is in it,     *)
(* each of them at most once.                                              *)

\* A sender that is not in the channel joins those who are.
LEMMA SendLemma ==
  ASSUME NEW S, NEW s \in Seq(S), NEW b \in S
  PROVE  /\ Append(s, b) \in Seq(S)
         /\ Range(Append(s, b)) = Range(s) \cup {b}
         /\ IsInjective(s) /\ b \notin Range(s) => IsInjective(Append(s, b))
<1> DEFINE t == Append(s, b)
<1>1. /\ t \in Seq(S) /\ Len(t) = Len(s) + 1 /\ Len(s) \in Nat
      /\ DOMAIN t = 1..Len(s) + 1 /\ DOMAIN s = 1..Len(s)
      /\ \A i \in 1..Len(s) : t[i] = s[i]
      /\ t[Len(s) + 1] = b
  OBVIOUS
<1> HIDE DEF t
<1>2. Range(t) = Range(s) \cup {b}
  <2>1. Range(t) \subseteq Range(s) \cup {b}
    <3>1. SUFFICES ASSUME NEW i \in DOMAIN t PROVE t[i] \in Range(s) \cup {b}
      BY DEF Range
    <3>2. i \in 1..Len(s) \/ i = Len(s) + 1  BY <1>1
    <3>3. QED  BY <3>2, <1>1 DEF Range
  <2>2. Range(s) \subseteq Range(t)
    <3>1. SUFFICES ASSUME NEW i \in DOMAIN s PROVE s[i] \in Range(t)
      BY DEF Range
    <3>2. i \in DOMAIN t /\ t[i] = s[i]  BY <1>1
    <3>3. QED  BY <3>2 DEF Range
  <2>3. b \in Range(t)
    <3>1. Len(s) + 1 \in DOMAIN t  BY <1>1
    <3>2. QED  BY <3>1, <1>1 DEF Range
  <2>4. QED  BY <2>1, <2>2, <2>3
<1>3. ASSUME IsInjective(s), b \notin Range(s) PROVE IsInjective(t)
  <2>1. SUFFICES ASSUME NEW i \in DOMAIN t, NEW j \in DOMAIN t, t[i] = t[j]
                 PROVE  i = j
    BY DEF IsInjective
  <2>2. \A k \in 1..Len(s) : s[k] \in Range(s)  BY <1>1 DEF Range
  <2>3. i \in 1..Len(s) \/ i = Len(s) + 1  BY <1>1
  <2>4. j \in 1..Len(s) \/ j = Len(s) + 1  BY <1>1
  <2>5. QED  BY <1>1, <1>3, <2>1, <2>2, <2>3, <2>4 DEF IsInjective
<1>4. QED  BY <1>1, <1>2, <1>3 DEF t

\* The receiver takes the oldest message and leaves the others.
LEMMA ReceiveLemma ==
  ASSUME NEW S, NEW s \in Seq(S), s # <<>>
  PROVE  /\ Head(s) \in S /\ Tail(s) \in Seq(S)
         /\ Range(s) = {Head(s)} \cup Range(Tail(s))
         /\ IsInjective(s) => IsInjective(Tail(s)) /\ Head(s) \notin Range(Tail(s))
<1> DEFINE t == Tail(s)
           h == Head(s)
<1>1. /\ h \in S /\ t \in Seq(S) /\ Len(s) \in Nat \ {0}
      /\ Len(t) = Len(s) - 1 /\ h = s[1]
      /\ DOMAIN s = 1..Len(s) /\ DOMAIN t = 1..Len(s) - 1
      /\ \A i \in 1..Len(s) - 1 : t[i] = s[i + 1]
  OBVIOUS
<1> HIDE DEF t, h
<1>2. Range(s) = {h} \cup Range(t)
  <2>1. Range(s) \subseteq {h} \cup Range(t)
    <3>1. SUFFICES ASSUME NEW i \in DOMAIN s PROVE s[i] = h \/ s[i] \in Range(t)
      BY DEF Range
    <3>2. CASE i = 1  BY <3>2, <1>1
    <3>3. CASE i # 1
      <4>1. i - 1 \in DOMAIN t /\ t[i - 1] = s[i]  BY <3>3, <1>1
      <4>2. QED  BY <4>1 DEF Range
    <3>4. QED  BY <3>2, <3>3
  <2>2. h \in Range(s)
    <3>1. 1 \in DOMAIN s  BY <1>1
    <3>2. QED  BY <3>1, <1>1 DEF Range
  <2>3. Range(t) \subseteq Range(s)
    <3>1. SUFFICES ASSUME NEW i \in DOMAIN t PROVE t[i] \in Range(s)
      BY DEF Range
    <3>2. i + 1 \in DOMAIN s /\ s[i + 1] = t[i]  BY <1>1
    <3>3. QED  BY <3>2 DEF Range
  <2>4. QED  BY <2>1, <2>2, <2>3
<1>3. ASSUME IsInjective(s) PROVE IsInjective(t) /\ h \notin Range(t)
  <2>1. IsInjective(t)
    <3>1. SUFFICES ASSUME NEW i \in DOMAIN t, NEW j \in DOMAIN t, t[i] = t[j]
                   PROVE  i = j
      BY DEF IsInjective
    <3>2. i + 1 \in DOMAIN s /\ j + 1 \in DOMAIN s /\ s[i + 1] = s[j + 1]
      BY <1>1, <3>1
    <3>3. i + 1 = j + 1  BY <3>2, <1>3 DEF IsInjective
    <3>4. QED  BY <3>3, <1>1
  <2>2. ASSUME NEW i \in DOMAIN t, t[i] = h PROVE FALSE
    <3>1. 1 \in DOMAIN s /\ i + 1 \in DOMAIN s /\ s[i + 1] = s[1]
      BY <1>1, <2>2
    <3>2. i + 1 = 1  BY <3>1, <1>3 DEF IsInjective
    <3>3. QED  BY <3>2, <1>1
  <2>3. QED  BY <2>1, <2>2 DEF Range
<1>4. QED  BY <1>1, <1>2, <1>3 DEF t, h

\* A channel holds as many messages as it has senders.
LEMMA LengthLemma ==
  ASSUME NEW S, IsFiniteSet(S), NEW s \in Seq(S), IsInjective(s)
  PROVE  /\ Range(s) \subseteq S /\ IsFiniteSet(Range(s))
         /\ Len(s) = Cardinality(Range(s))
         /\ Len(s) <= Cardinality(S)
         /\ \A b \in S : b \notin Range(s) => Len(s) < Cardinality(S)
<1>1. Len(s) \in Nat /\ DOMAIN s = 1..Len(s) /\ s \in [1..Len(s) -> S]
  OBVIOUS
<1>2. Range(s) \subseteq S  BY <1>1 DEF Range
<1>3. IsFiniteSet(Range(s)) /\ Cardinality(Range(s)) <= Cardinality(S)
  BY <1>2, FS_Subset
<1>4. Len(s) = Cardinality(Range(s))
  <2>1. s \in Bijection(1..Len(s), Range(s))
    <3>1. s \in [1..Len(s) -> Range(s)]  BY <1>1 DEF Range
    <3>2. IsInjective(s)  OBVIOUS
    <3>3. \A y \in Range(s) : \E x \in 1..Len(s) : s[x] = y  BY <1>1 DEF Range
    <3>4. QED  BY <3>1, <3>2, <3>3 DEF Bijection, Injection, Surjection
  <2>2. IsFiniteSet(1..Len(s)) /\ Cardinality(1..Len(s)) = Len(s)
    BY <1>1, FS_Interval
  <2>3. ExistsBijection(1..Len(s), Range(s))  BY <2>1 DEF ExistsBijection
  <2>4. QED  BY <2>2, <2>3, FS_Bijection
<1>5. ASSUME NEW b \in S, b \notin Range(s) PROVE Len(s) < Cardinality(S)
  <2>1. Cardinality(Range(s)) # Cardinality(S)  BY <1>2, <1>5, FS_Subset
  <2>2. Cardinality(S) \in Nat  BY FS_CardinalityType
  <2>3. QED  BY <2>1, <2>2, <1>1, <1>3, <1>4
<1>6. QED  BY <1>2, <1>3, <1>4, <1>5

-----------------------------------------------------------------------------
(* Which messages are merged, step by step. *)

LEMMA CollectFailedMerges ==
  ASSUME TypeOK, ChannelInv, CollectFailed
  PROVE  /\ Head(failed) \in Backend \ Merged
         /\ Merged' = Merged \cup {Head(failed)}
         /\ Head(failed) \in Started
<1>1. failed \in Seq(Backend) /\ failed # <<>>  BY DEF TypeOK, CollectFailed
<1>2. /\ Head(failed) \in Backend
      /\ Range(failed) = {Head(failed)} \cup Range(Tail(failed))
      /\ Head(failed) \notin Range(Tail(failed))
  BY <1>1, ReceiveLemma DEF ChannelInv
<1>3. worker' = worker /\ parts' = parts /\ failed' = Tail(failed)
  BY DEF CollectFailed
<1>4. worker[Head(failed)] = "sent" /\ Head(failed) \notin Range(parts)
  BY <1>2 DEF ChannelInv
<1>5. QED  BY <1>2, <1>3, <1>4 DEF Merged, Started

LEMMA CollectPartMerges ==
  ASSUME TypeOK, ChannelInv, CollectPart
  PROVE  /\ Head(parts) \in Backend \ Merged
         /\ Merged' = Merged \cup {Head(parts)}
         /\ Usable(Head(parts)) /\ answer[Head(parts)].res \in Response
         /\ Head(parts) \in Started
<1>1. parts \in Seq(Backend) /\ parts # <<>>  BY DEF TypeOK, CollectPart
<1>2. /\ Head(parts) \in Backend
      /\ Range(parts) = {Head(parts)} \cup Range(Tail(parts))
      /\ Head(parts) \notin Range(Tail(parts))
  BY <1>1, ReceiveLemma DEF ChannelInv
<1>3. worker' = worker /\ failed' = failed /\ parts' = Tail(parts)
  BY DEF CollectPart
<1>4. /\ worker[Head(parts)] = "sent" /\ Head(parts) \notin Range(failed)
      /\ Usable(Head(parts))
  BY <1>2 DEF ChannelInv
<1>5. answer[Head(parts)].res \in Response
  BY <1>2, <1>4 DEF TypeOK, Usable, Answer
<1>6. QED  BY <1>2, <1>3, <1>4, <1>5 DEF Merged, Started

LEMMA SendMergesNothing ==
  ASSUME TypeOK, ChannelInv, NEW b \in Backend, SendFailed(b) \/ SendPart(b)
  PROVE  Merged' = Merged
<1>1. /\ Range(Append(failed, b)) = Range(failed) \cup {b}
      /\ Range(Append(parts, b)) = Range(parts) \cup {b}
  BY SendLemma DEF TypeOK
<1>2. worker[b] = "holding" /\ worker' = [worker EXCEPT ![b] = "sent"]
  BY DEF SendFailed, SendPart
<1>3. \A c \in Backend : worker'[c] = "sent" <=> worker[c] = "sent" \/ c = b
  BY <1>2 DEF TypeOK
<1>4. b \notin Range(failed) /\ b \notin Range(parts)  BY <1>2 DEF ChannelInv
<1>5. CASE SendFailed(b)  BY <1>1, <1>3, <1>4, <1>5, <1>2 DEF Merged, SendFailed
<1>6. CASE SendPart(b)  BY <1>1, <1>3, <1>4, <1>6, <1>2 DEF Merged, SendPart
<1>7. QED  BY <1>5, <1>6

-----------------------------------------------------------------------------
(* Type correctness. *)

LEMMA InitType == Init => TypeOK
BY NAssumption DEF Init, TypeOK, Backend, Answer, NewAccumulator, Accumulator

LEMMA NextType ==
  ASSUME TypeOK, ChannelInv, CountInv, [Next]_vars
  PROVE  TypeOK'
<1> USE DEF TypeOK
<1>n. N \in Nat /\ N > 1 /\ Backend = 1..N  BY NAssumption DEF Backend
<1>1. CASE Launch  BY <1>1, <1>n DEF Launch
<1>2. CASE Skip
  <2>1. index \in Backend /\ worker[index] = "idle"
    BY <1>2, <1>n, FilteredAssumption DEF Skip, CountInv
  <2>2. Skipped' = Skipped \cup {index} /\ index \notin Skipped
    BY <1>2, <2>1 DEF Skip, Skipped
  <2>3. IsFiniteSet(Skipped) /\ IsFiniteSet(Skipped')
        /\ Cardinality(Skipped') = Cardinality(Skipped) + 1
        /\ Cardinality(Skipped') <= N /\ Cardinality(Skipped) \in Nat
    <3>1. Skipped \subseteq Backend /\ Skipped' \subseteq Backend  BY DEF Skipped
    <3>2. QED  BY <2>2, <3>1, BackendFinite, FS_Subset, FS_AddElement, FS_CardinalityType
  <2>4. proxyCount' \in 0..N
    BY <1>2, <1>n, <2>3 DEF Skip, CountInv
  <2>5. QED  BY <1>2, <1>n, <2>1, <2>4 DEF Skip
<1>3. CASE StartCollecting
  <2>1. NewAccumulator(proxyCount) \in Accumulator
    BY DEF NewAccumulator, Accumulator
  <2>2. QED  BY <1>3, <1>n, <2>1 DEF StartCollecting
<1>4. CASE CollectFailed
  <2>1. acc.pending > 0  BY <1>4, <1>n DEF CollectFailed, CountInv
  <2>2. Head(failed) \in Error  BY <1>4, <1>n, CollectFailedMerges DEF Error
  <2>3. MergeError(acc, Head(failed)) \in Accumulator
    BY <2>1, <2>2, MergeErrorType
  <2>4. Tail(failed) \in Seq(Backend)  BY <1>4, ReceiveLemma DEF CollectFailed
  <2>5. index + 1 \in 0..N+1  BY <1>4, <1>n DEF CollectFailed
  <2>6. QED  BY <1>4, <2>3, <2>4, <2>5 DEF CollectFailed
<1>5. CASE CollectPart
  <2>1. acc.pending > 0  BY <1>5, <1>n DEF CollectPart, CountInv
  <2>2. MergeResponse(acc, answer[Head(parts)].res) \in Accumulator
    BY <1>5, <2>1, CollectPartMerges, MergeResponseType
  <2>4. Tail(parts) \in Seq(Backend)  BY <1>5, ReceiveLemma DEF CollectPart
  <2>5. index + 1 \in 0..N+1  BY <1>5, <1>n DEF CollectPart
  <2>6. QED  BY <1>5, <2>2, <2>4, <2>5 DEF CollectPart
<1>6. CASE Return  BY <1>6, ResultType DEF Return
<1>7. ASSUME NEW b \in Backend, ProxyReturns(b) PROVE TypeOK'
  <2>1. Answers(b) \subseteq Answer
    <3>1. Bodies(b) \subseteq Data \cup {Nil}
      BY KeySetsAssumption DEF Bodies, Data
    <3>2. QED  BY <3>1 DEF Answers, Answer, Response
  <2>2. answer' \in [Backend -> Answer]  BY <1>7, <2>1 DEF ProxyReturns
  <2>3. QED  BY <1>7, <2>2 DEF ProxyReturns
<1>8. ASSUME NEW b \in Backend, SendFailed(b) PROVE TypeOK'
  BY <1>8, SendLemma DEF SendFailed
<1>9. ASSUME NEW b \in Backend, SendPart(b) PROVE TypeOK'
  BY <1>9, SendLemma DEF SendPart
<1>10. CASE ContextEnds  BY <1>10 DEF ContextEnds
<1>11. CASE UNCHANGED vars  BY <1>11 DEF vars
<1>12. QED
  BY <1>1, <1>2, <1>3, <1>4, <1>5, <1>6, <1>7, <1>8, <1>9, <1>10, <1>11
  DEF Next, Main, Terminated

-----------------------------------------------------------------------------
(* Messages are in one channel, once. *)

LEMMA InitChannel == Init => ChannelInv
BY DEF Init, ChannelInv, IsInjective, Range

LEMMA NextChannel ==
  ASSUME TypeOK, TypeOK', ChannelInv, CountInv, [Next]_vars
  PROVE  ChannelInv'
<1> USE DEF ChannelInv
<1>1. CASE Launch
  <2>1. worker[index] = "idle"
    BY <1>1, NAssumption DEF Launch, CountInv, Backend
  <2>2. index \notin Range(parts) \cup Range(failed)  BY <2>1
  <2>3. QED  BY <1>1, <2>2 DEF Launch, TypeOK, Usable
<1>2. CASE Skip
  <2>1. worker[index] = "idle"
    BY <1>2, NAssumption, FilteredAssumption DEF Skip, CountInv, Backend
  <2>2. index \notin Range(parts) \cup Range(failed)  BY <2>1
  <2>3. QED  BY <1>2, <2>2 DEF Skip, TypeOK, Usable
<1>3. CASE StartCollecting  BY <1>3 DEF StartCollecting, Usable
<1>4. CASE CollectFailed
  <2>1. /\ Range(failed) = {Head(failed)} \cup Range(Tail(failed))
        /\ IsInjective(Tail(failed))
    BY <1>4, ReceiveLemma DEF CollectFailed, TypeOK
  <2>2. QED  BY <1>4, <2>1 DEF CollectFailed, Usable
<1>5. CASE CollectPart
  <2>1. /\ Range(parts) = {Head(parts)} \cup Range(Tail(parts))
        /\ IsInjective(Tail(parts))
    BY <1>5, ReceiveLemma DEF CollectPart, TypeOK
  <2>2. QED  BY <1>5, <2>1 DEF CollectPart, Usable
<1>6. CASE Return  BY <1>6 DEF Return, Usable
<1>7. ASSUME NEW b \in Backend, ProxyReturns(b) PROVE ChannelInv'
  <2>1. b \notin Range(parts) \cup Range(failed)  BY <1>7 DEF ProxyReturns
  <2>2. Range(parts) \subseteq Backend  BY BackendFinite, LengthLemma DEF TypeOK
  <2>3. \A c \in Range(parts) : answer'[c] = answer[c]
    BY <1>7, <2>1, <2>2 DEF ProxyReturns, TypeOK
  <2>4. \A c \in Range(parts) \cup Range(failed) : worker'[c] = worker[c]
    BY <1>7, <2>1 DEF ProxyReturns, TypeOK
  <2>5. QED  BY <1>7, <2>3, <2>4 DEF ProxyReturns, Usable
<1>8. ASSUME NEW b \in Backend, SendFailed(b) PROVE ChannelInv'
  <2>1. b \notin Range(parts) \cup Range(failed)  BY <1>8 DEF SendFailed
  <2>2. Range(failed') = Range(failed) \cup {b} /\ IsInjective(failed')
    BY <1>8, <2>1, SendLemma DEF SendFailed, TypeOK
  <2>3. worker'[b] = "sent"
        /\ \A c \in Range(parts) \cup Range(failed) : worker'[c] = worker[c]
    BY <1>8, <2>1 DEF SendFailed, TypeOK
  <2>4. QED  BY <1>8, <2>1, <2>2, <2>3 DEF SendFailed, Usable
<1>9. ASSUME NEW b \in Backend, SendPart(b) PROVE ChannelInv'
  <2>1. b \notin Range(parts) \cup Range(failed)  BY <1>9 DEF SendPart
  <2>2. Range(parts') = Range(parts) \cup {b} /\ IsInjective(parts')
    BY <1>9, <2>1, SendLemma DEF SendPart, TypeOK
  <2>3. worker'[b] = "sent"
        /\ \A c \in Range(parts) \cup Range(failed) : worker'[c] = worker[c]
    BY <1>9, <2>1 DEF SendPart, TypeOK
  <2>4. QED  BY <1>9, <2>1, <2>2, <2>3 DEF SendPart, Usable
<1>10. CASE ContextEnds  BY <1>10 DEF ContextEnds, Usable
<1>11. CASE UNCHANGED vars  BY <1>11 DEF vars, Usable
<1>12. QED
  BY <1>1, <1>2, <1>3, <1>4, <1>5, <1>6, <1>7, <1>8, <1>9, <1>10, <1>11
  DEF Next, Main, Terminated

-----------------------------------------------------------------------------
(* The loop variable and proxyCount count backends. *)

LEMMA MergedFinite ==
  /\ Merged \subseteq Started /\ IsFiniteSet(Merged) /\ Cardinality(Merged) \in Nat
  /\ Skipped \subseteq Backend /\ IsFiniteSet(Skipped) /\ Cardinality(Skipped) \in Nat
  /\ Started \subseteq Backend /\ IsFiniteSet(Started) /\ Cardinality(Started) \in Nat
<1>1. Merged \subseteq Started /\ Skipped \subseteq Backend /\ Started \subseteq Backend
  BY DEF Merged, Started, Skipped
<1>2. Merged \subseteq Backend  BY <1>1
<1>3. QED  BY <1>1, <1>2, BackendFinite, FS_Subset, FS_CardinalityType

\* Once every backend is launched or skipped, proxyCount were started.
LEMMA StartedCounted ==
  ASSUME proxyCount \in 0..N, proxyCount + Cardinality(Skipped) = N,
         \A b \in Backend : worker[b] # "idle"
  PROVE  Cardinality(Started) = proxyCount
<1>1. Started \cup Skipped = Backend /\ Started \cap Skipped = {}
  BY DEF Started, Skipped
<1>2. Cardinality(Backend) = Cardinality(Started) + Cardinality(Skipped) - 0
  BY <1>1, MergedFinite, FS_Union, FS_EmptySet
<1>3. QED  BY <1>2, BackendFinite, MergedFinite, NAssumption

LEMMA InitCount == Init => CountInv
<1> SUFFICES ASSUME Init PROVE CountInv  OBVIOUS
<1>1. Skipped = {} /\ Merged = {}  BY DEF Init, Skipped, Merged
<1>2. QED
  BY <1>1, FS_EmptySet, NAssumption DEF Init, CountInv, NewAccumulator, Backend

LEMMA NextCount ==
  ASSUME TypeOK, TypeOK', ChannelInv, CountInv, [Next]_vars
  PROVE  CountInv'
<1> USE DEF CountInv
<1>n. N \in Nat /\ N > 1 /\ Backend = 1..N  BY NAssumption DEF Backend
<1>t. /\ proxyCount \in 0..N /\ index \in 0..N+1
      /\ worker \in [Backend -> {"idle", "skipped", "calling", "holding", "sent"}]
  BY DEF TypeOK
<1>1. CASE Launch
  <2>1. worker[index] = "idle"  BY <1>1, <1>n DEF Launch
  <2>2. Skipped' = Skipped /\ Merged' = Merged
    BY <1>1, <1>t, <2>1 DEF Launch, Skipped, Merged
  <2>3. QED  BY <1>1, <1>n, <1>t, <2>2 DEF Launch
<1>2. CASE Skip
  <2>1. index \in Backend /\ worker[index] = "idle"
    BY <1>2, <1>n, FilteredAssumption DEF Skip
  <2>2. /\ Skipped' = Skipped \cup {index} /\ index \notin Skipped
        /\ Merged' = Merged
    BY <1>2, <1>t, <2>1 DEF Skip, Skipped, Merged
  <2>3. Cardinality(Skipped') = Cardinality(Skipped) + 1
    BY <2>2, MergedFinite, FS_AddElement
  <2>4. QED  BY <1>2, <1>n, <1>t, <2>1, <2>2, <2>3, MergedFinite DEF Skip
<1>3. CASE StartCollecting
  <2>1. Skipped' = Skipped /\ Merged' = {}
    BY <1>3 DEF StartCollecting, Skipped, Merged
  <2>2. QED
    BY <1>3, <1>n, <1>t, <2>1, FS_EmptySet DEF StartCollecting, NewAccumulator
<1>4. CASE CollectFailed
  <2>1. Merged' = Merged \cup {Head(failed)} /\ Head(failed) \notin Merged
    BY <1>4, CollectFailedMerges
  <2>2. Cardinality(Merged') = Cardinality(Merged) + 1
    BY <2>1, MergedFinite, FS_AddElement
  <2>3. Skipped' = Skipped  BY <1>4 DEF CollectFailed, Skipped
  <2>4. acc'.pending = acc.pending - 1  BY <1>4 DEF CollectFailed, MergeError
  <2>5. QED  BY <1>4, <1>t, <2>2, <2>3, <2>4 DEF CollectFailed
<1>5. CASE CollectPart
  <2>1. Merged' = Merged \cup {Head(parts)} /\ Head(parts) \notin Merged
    BY <1>5, CollectPartMerges
  <2>2. Cardinality(Merged') = Cardinality(Merged) + 1
    BY <2>1, MergedFinite, FS_AddElement
  <2>3. Skipped' = Skipped  BY <1>5 DEF CollectPart, Skipped
  <2>4. acc'.pending = acc.pending - 1  BY <1>5 DEF CollectPart, MergeResponse
  <2>5. QED  BY <1>5, <1>t, <2>2, <2>3, <2>4 DEF CollectPart
<1>6. CASE Return
  <2>1. Cardinality(Started) = proxyCount
    BY <1>6, <1>t, StartedCounted DEF Return
  <2>2. Cardinality(Merged) <= Cardinality(Started)
    BY MergedFinite, FS_Subset
  <2>3. Cardinality(Merged) = Cardinality(Started)
    BY <1>6, <1>t, <2>1, <2>2, MergedFinite DEF Return
  <2>4. Merged = Started  BY <2>3, MergedFinite, FS_Subset
  <2>5. Merged' = Merged /\ Started' = Started /\ Skipped' = Skipped
    BY <1>6 DEF Return, Merged, Started, Skipped
  <2>6. QED  BY <1>6, <2>4, <2>5 DEF Return
<1>7. ASSUME NEW b \in Backend,
             ProxyReturns(b) \/ SendFailed(b) \/ SendPart(b)
      PROVE  CountInv'
  <2>1. Merged' = Merged
    <3>1. CASE ProxyReturns(b)
      BY <1>t, <3>1 DEF ProxyReturns, Merged
    <3>2. QED  BY <3>1, <1>7, SendMergesNothing
  <2>2. /\ worker[b] \in {"calling", "holding"}
        /\ worker'[b] \in {"holding", "sent"}
        /\ \A c \in Backend \ {b} : worker'[c] = worker[c]
    BY <1>7, <1>t DEF ProxyReturns, SendFailed, SendPart
  <2>3. /\ Skipped' = Skipped /\ Started' = Started
        /\ \A c \in Backend : worker'[c] = "idle" <=> worker[c] = "idle"
    BY <2>2 DEF Skipped, Started
  <2>4. UNCHANGED <<main, index, proxyCount, acc>>
    BY <1>7 DEF ProxyReturns, SendFailed, SendPart
  <2> HIDE DEF NewAccumulator
  <2>5. QED  BY <2>1, <2>3, <2>4
<1>8. CASE ContextEnds
  <2>1. Merged' = Merged /\ Started' = Started /\ Skipped' = Skipped
    BY <1>8 DEF ContextEnds, Merged, Started, Skipped
  <2>2. QED  BY <1>8, <2>1 DEF ContextEnds
<1>9. CASE UNCHANGED vars
  <2>1. Merged' = Merged /\ Started' = Started /\ Skipped' = Skipped
    BY <1>9 DEF vars, Merged, Started, Skipped
  <2>2. QED  BY <1>9, <2>1 DEF vars
<1>10. QED
  BY <1>1, <1>2, <1>3, <1>4, <1>5, <1>6, <1>7, <1>8, <1>9
  DEF Next, Main, Terminated


-----------------------------------------------------------------------------
(* A response that counts as complete is made of complete ones. *)

LEMMA InitResponse == Init => ResponseInv /\ CompleteIsHonest
BY DEF Init, ResponseInv, CompleteIsHonest, NewAccumulator, Merged

\* What a step changes of the sets and operators the response speaks of,
\* when it is not one of the main goroutine.
LEMMA WorkersKeepMerged ==
  ASSUME TypeOK, ChannelInv, CountInv, NEW b \in Backend,
         ProxyReturns(b) \/ SendFailed(b) \/ SendPart(b)
  PROVE  /\ Merged' = Merged /\ Started' = Started
         /\ \A c \in Merged : answer'[c] = answer[c]
         /\ main # "returned"
         /\ UNCHANGED <<main, acc, reply>>
<1>1. worker[b] \in {"calling", "holding"}
  BY DEF ProxyReturns, SendFailed, SendPart
<1>2. b \in Started \ Merged  BY <1>1 DEF Started, Merged
<1>3. main # "returned"  BY <1>2 DEF CountInv
<1>4. Merged' = Merged
  <2>1. CASE ProxyReturns(b)  BY <2>1 DEF TypeOK, ProxyReturns, Merged
  <2>2. QED  BY <2>1, SendMergesNothing
<1>5. \A c \in Backend \ {b} : worker'[c] = worker[c] /\ answer'[c] = answer[c]
  BY DEF TypeOK, ProxyReturns, SendFailed, SendPart
<1>6. worker'[b] \in {"holding", "sent"}
  BY DEF TypeOK, ProxyReturns, SendFailed, SendPart
<1>7. Started' = Started  BY <1>1, <1>5, <1>6 DEF Started
<1>8. \A c \in Merged : answer'[c] = answer[c]
  BY <1>2, <1>5, MergedFinite
<1>9. UNCHANGED <<main, acc, reply>>
  BY DEF ProxyReturns, SendFailed, SendPart
<1>10. QED  BY <1>3, <1>4, <1>7, <1>8, <1>9

LEMMA NextResponse ==
  ASSUME TypeOK, ChannelInv, CountInv, ResponseInv, CompleteIsHonest, [Next]_vars
  PROVE  ResponseInv' /\ CompleteIsHonest'
<1> USE DEF ResponseInv, CompleteIsHonest
<1>n. Nil \notin Response  BY NilAssumption
<1>1. CASE Launch
  <2>1. Merged' = Merged
    BY <1>1, NAssumption DEF Launch, CountInv, Merged, TypeOK, Backend
  <2>2. QED  BY <1>1, <2>1 DEF Launch, CountInv, NewAccumulator
<1>2. CASE Skip
  <2>1. Merged' = Merged
    BY <1>2, FilteredAssumption, NAssumption
    DEF Skip, CountInv, Merged, TypeOK, Backend
  <2>2. QED  BY <1>2, <2>1 DEF Skip, CountInv, NewAccumulator
<1>3. CASE StartCollecting
  <2>1. Merged' = {}  BY <1>3 DEF StartCollecting, CountInv, Merged
  <2>2. QED  BY <1>3, <2>1 DEF StartCollecting, NewAccumulator
<1>4. CASE CollectFailed
  <2>1. Head(failed) \in Error
    BY <1>4, CollectFailedMerges, NAssumption DEF Error, Backend
  <2>2. acc'.errs # <<>>
    <3>1. acc'.errs = Append(acc.errs, Head(failed))
      BY <1>4 DEF CollectFailed, MergeError
    <3>2. acc.errs \in Seq(Error)  BY DEF TypeOK, Accumulator
    <3>3. QED  BY <3>1, <3>2, <2>1
  <2>3. QED  BY <1>4, <2>2 DEF CollectFailed
<1>5. CASE CollectPart
  <2> DEFINE h == Head(parts)
             r == answer[h].res
  <2>1. /\ Merged' = Merged \cup {h} /\ Usable(h) /\ r \in Response
    BY <1>5, CollectPartMerges
  <2>2. acc' = MergeResponse(acc, r)  BY <1>5 DEF CollectPart
  <2>3. /\ acc'.errs = acc.errs
        /\ acc'.data = IF acc.data = Nil THEN r ELSE CombineData(2, <<acc.data, r>>)
    BY <2>1, <2>2, <1>n DEF MergeResponse
  <2>4. acc.data # Nil => acc.data \in Response  BY DEF TypeOK, Accumulator
  <2>5. acc'.data \in Response /\ acc'.data # Nil
    BY <2>1, <2>3, <2>4, <1>n, CombineType
  <2>6. UNCHANGED <<answer, main, reply>>  BY <1>5 DEF CollectPart
  <2>7. ASSUME acc'.errs = <<>>, acc'.data.complete
        PROVE  \A b \in Merged' : Usable(b)' /\ answer'[b].res.complete
    <3>1. CASE acc.data = Nil
      BY <3>1, <2>1, <2>3, <2>6, <2>7 DEF Usable
    <3>2. CASE acc.data # Nil
      <4>1. acc.data.complete /\ r.complete
        BY <3>2, <2>1, <2>3, <2>4, <2>7, CombineExact
      <4>2. \A b \in Merged : Usable(b) /\ answer[b].res.complete
        BY <4>1, <3>2, <2>3, <2>7
      <4>3. QED  BY <4>1, <4>2, <2>1, <2>6 DEF Usable
    <3>3. QED  BY <3>1, <3>2
  <2>8. main = "collect" /\ reply = Nil  BY <1>5 DEF CollectPart
  <2>9. QED  BY <2>5, <2>6, <2>7, <2>8
<1>6. CASE Return
  <2>1. Merged' = Merged /\ Started' = Started
    BY <1>6 DEF Return, Merged, Started
  <2>2. Merged' = Started'
    BY <1>6, NextCount, NextType DEF Return, CountInv
  <2>3. reply' = Result(acc) /\ reply' # Nil
    <3>1. reply' = Result(acc)  BY <1>6 DEF Return
    <3>2. Result(acc) # Nil  BY ResultType, NilAssumption DEF TypeOK
    <3>3. QED  BY <3>1, <3>2
  <2>4. ASSUME reply'.res # Nil, reply'.res.complete
        PROVE  reply'.errs = <<>> /\ reply'.res = acc.data /\ acc.errs = <<>>
    BY <2>3, <2>4 DEF Result, Incomplete
  <2>5. UNCHANGED <<answer, acc>>  BY <1>6 DEF Return
  <2>6. main' = "returned"  BY <1>6 DEF Return
  <2>7. QED  BY <2>1, <2>2, <2>3, <2>4, <2>5, <2>6 DEF Usable
<1>7. ASSUME NEW b \in Backend,
             ProxyReturns(b) \/ SendFailed(b) \/ SendPart(b)
      PROVE  ResponseInv' /\ CompleteIsHonest'
  BY <1>7, WorkersKeepMerged DEF Usable
<1>8. CASE ContextEnds  BY <1>8 DEF ContextEnds, Merged, Started, Usable
<1>9. CASE UNCHANGED vars  BY <1>9 DEF vars, Merged, Started, Usable
<1>10. QED
  BY <1>1, <1>2, <1>3, <1>4, <1>5, <1>6, <1>7, <1>8, <1>9
  DEF Next, Main, Terminated

-----------------------------------------------------------------------------
(* Every backend merged is accounted for. *)

LEMMA InitAccount == Init => AccountInv
BY DEF Init, AccountInv, NewAccumulator, Merged, IsInjective, Range

LEMMA NextAccount ==
  ASSUME TypeOK, ChannelInv, CountInv, ResponseInv, AccountInv, [Next]_vars
  PROVE  AccountInv'
<1>1. CASE Launch \/ Skip
  <2>1. Merged = {} /\ acc = NewAccumulator(0) /\ main = "launch"
    BY <1>1 DEF Launch, Skip, CountInv
  <2>2. Merged' = {}
    BY <1>1, <2>1, FilteredAssumption, NAssumption
    DEF Launch, Skip, CountInv, Merged, TypeOK, Backend
  <2>3. acc' = acc /\ reply' = reply  BY <1>1 DEF Launch, Skip
  <2>4. reply = Nil  BY <2>1 DEF ResponseInv
  <2>5. QED  BY <2>1, <2>2, <2>3, <2>4 DEF AccountInv, NewAccumulator
<1>2. CASE StartCollecting
  <2>1. Merged' = {}  BY <1>2 DEF StartCollecting, CountInv, Merged
  <2>2. acc' = NewAccumulator(proxyCount) /\ reply' = reply /\ reply = Nil
    BY <1>2 DEF StartCollecting, ResponseInv
  <2>3. QED  BY <2>1, <2>2 DEF AccountInv, NewAccumulator, IsInjective, Range
<1>3. CASE CollectFailed
  <2> DEFINE h == Head(failed)
  <2>1. h \in Backend \ Merged /\ Merged' = Merged \cup {h}
    BY <1>3, CollectFailedMerges
  <2>2. acc' = MergeError(acc, h) /\ reply' = reply /\ answer' = answer /\ reply = Nil
    BY <1>3 DEF CollectFailed, ResponseInv
  <2>3. acc'.errs = Append(acc.errs, h) /\ acc'.data = Incomplete(acc.data)
    BY <2>2 DEF MergeError
  <2>4. acc.errs \in Seq(Error) /\ h \in Error /\ h \notin Range(acc.errs)
    BY <2>1, NAssumption DEF TypeOK, Accumulator, AccountInv, Error, Backend
  <2>5. IsInjective(acc'.errs) /\ Range(acc'.errs) = Range(acc.errs) \cup {h}
    BY <2>3, <2>4, SendLemma DEF AccountInv
  <2>6. \A b \in Merged : Kept(b) => Kept(b)'
    BY <2>2, <2>3, IncompleteKeeps DEF Kept, HasBody, TypeOK, Accumulator
  <2>7. QED  BY <2>1, <2>2, <2>5, <2>6 DEF AccountInv
<1>4. CASE CollectPart
  <2> PICK h, r : h = Head(parts) /\ r = answer[h].res
    OBVIOUS
  <2>1. Merged' = Merged \cup {h} /\ r \in Response /\ h \in Backend
    BY <1>4, CollectPartMerges
  <2>2. acc' = MergeResponse(acc, r) /\ reply' = reply /\ answer' = answer /\ reply = Nil
    BY <1>4 DEF CollectPart, ResponseInv
  <2>3. r # Nil /\ (acc.data # Nil => acc.data \in Response)
    BY <2>1, NilAssumption DEF TypeOK, Accumulator
  <2>4. /\ acc'.errs = acc.errs
        /\ acc'.data = IF acc.data = Nil THEN r ELSE CombineData(2, <<acc.data, r>>)
    BY <2>2, <2>3 DEF MergeResponse
  <2>5. CASE acc.data = Nil
    <3>1. \A b \in Merged : ~Kept(b)  BY <2>5 DEF Kept
    <3>2. acc'.data = r  BY <2>4, <2>5
    <3>3. Kept(h)'  BY <2>2, <2>3, <3>2 DEF Kept
    <3>4. QED  BY <2>1, <2>2, <2>4, <3>1, <3>3 DEF AccountInv
  <2>6. CASE acc.data # Nil
    <3> DEFINE both == CombineData(2, <<acc.data, r>>)
    <3>1. acc'.data = both /\ both \in Response /\ both # Nil
      BY <2>1, <2>3, <2>4, <2>6, CombineType, NilAssumption
    <3>2. /\ both.data # Nil
          /\ HasBody(acc.data) => DOMAIN acc.data.data \subseteq DOMAIN both.data
          /\ HasBody(r) => DOMAIN r.data \subseteq DOMAIN both.data
      BY <2>1, <2>3, <2>6, <3>1, CombineExact DEF HasBody
    <3> HIDE DEF both
    <3>3. HasBody(both)  BY <3>1, <3>2 DEF HasBody
    <3>4. Kept(h)'  BY <2>2, <3>1, <3>2, <3>3 DEF Kept
    <3>5. \A b \in Merged : Kept(b) => Kept(b)'  BY <2>2, <3>1, <3>2, <3>3 DEF Kept
    <3>6. QED  BY <2>1, <2>2, <2>4, <3>4, <3>5 DEF AccountInv
  <2>7. QED  BY <2>5, <2>6
<1>5. CASE Return
  <2>1. UNCHANGED <<worker, parts, failed, acc, answer>> /\ reply' = Result(acc)
    BY <1>5 DEF Return
  <2>2. Merged' = Merged /\ Result(acc)' = Result(acc)
    BY <2>1 DEF Merged, Result
  <2>3. \A b \in Merged : Kept(b)' = Kept(b)  BY <2>1 DEF Kept
  <2>4. QED  BY <2>1, <2>2, <2>3 DEF AccountInv
<1>6. ASSUME NEW b \in Backend,
             ProxyReturns(b) \/ SendFailed(b) \/ SendPart(b)
      PROVE  AccountInv'
  <2>1. /\ Merged' = Merged /\ UNCHANGED <<acc, reply>>
        /\ \A c \in Merged : answer'[c] = answer[c]
    BY <1>6, WorkersKeepMerged
  <2>2. \A c \in Merged : Kept(c)' = Kept(c)  BY <2>1 DEF Kept
  <2>3. Result(acc)' = Result(acc)  BY <2>1 DEF Result
  <2>4. QED  BY <2>1, <2>2, <2>3 DEF AccountInv
<1>7. CASE ContextEnds \/ UNCHANGED vars
  <2>1. UNCHANGED <<worker, parts, failed, acc, answer, reply>>
    BY <1>7 DEF ContextEnds, vars
  <2>2. Merged' = Merged /\ Result(acc)' = Result(acc)  BY <2>1 DEF Merged, Result
  <2>3. \A c \in Merged : Kept(c)' = Kept(c)  BY <2>1 DEF Kept
  <2>4. QED  BY <2>1, <2>2, <2>3 DEF AccountInv
<1>8. QED
  BY <1>1, <1>2, <1>3, <1>4, <1>5, <1>6, <1>7 DEF Next, Main, Terminated


-----------------------------------------------------------------------------
(* The theorems. *)

\* The inductive invariant holds in every state of every request.
THEOREM Invariance == Spec => []IInv
<1>1. Init => IInv
  BY InitType, InitChannel, InitCount, InitResponse DEF IInv
<1>2. IInv /\ [Next]_vars => IInv'
  BY NextType, NextChannel, NextCount, NextResponse DEF IInv
<1>3. QED  BY <1>1, <1>2, PTL DEF Spec

\* Each variable stays what its Go type and the loops of merging.go:279-309
\* allow: the accumulator never expects less than no message.
THEOREM TypeCorrect == Spec => []TypeOK
<1>1. IInv => TypeOK  BY DEF IInv
<1>2. QED  BY <1>1, Invariance, PTL

\* merging.go:285-286: with room for one message per backend in each channel,
\* requestPart never waits to send, for any number of backends.
THEOREM NoSenderWaitsAlways == Spec => []NoSenderWaits
<1>1. IInv => NoSenderWaits
  <2>1. SUFFICES ASSUME IInv, NEW b \in Backend, worker[b] = "holding"
                 PROVE  Len(parts) < Capacity /\ Len(failed) < Capacity
    BY DEF NoSenderWaits
  <2>2. b \notin Range(parts) /\ b \notin Range(failed)
    BY <2>1 DEF IInv, ChannelInv
  <2>3. /\ parts \in Seq(Backend) /\ IsInjective(parts)
        /\ failed \in Seq(Backend) /\ IsInjective(failed)
    BY <2>1 DEF IInv, TypeOK, ChannelInv
  <2>4. QED  BY <2>2, <2>3, BackendFinite, LengthLemma DEF Capacity
<1>2. QED  BY <1>1, Invariance, PTL

\* merging.go:455-484: a response the caller is told is complete is made of a
\* complete response of every backend asked, and comes with no error.
THEOREM CompleteIsHonestAlways == Spec => []CompleteIsHonest
<1>1. IInv => CompleteIsHonest  BY DEF IInv
<1>2. QED  BY <1>1, Invariance, PTL

\* merging.go:291-311: whatever the order of answers, errors and the timeout,
\* the reply has the error of each backend asked, once, or its keys.
THEOREM EveryBackendAccountedAlways == Spec => []EveryBackendAccounted
<1>1. Init => AccountInv  BY InitAccount
<1>2. IInv /\ AccountInv /\ [Next]_vars => AccountInv'
  BY NextAccount DEF IInv
<1>3. IInv /\ AccountInv => EveryBackendAccounted
  <2> SUFFICES ASSUME IInv, AccountInv, reply # Nil
               PROVE  /\ Len(reply.errs) = Cardinality(Range(reply.errs))
                      /\ Range(reply.errs) \subseteq Started
                      /\ \A b \in Started \ Range(reply.errs) :
                           /\ reply.res # Nil
                           /\ HasBody(answer[b].res) =>
                                /\ HasBody(reply.res)
                                /\ DOMAIN answer[b].res.data \subseteq DOMAIN reply.res.data
    BY DEF EveryBackendAccounted
  <2>1. reply = Result(acc) /\ Merged = Started
    BY DEF AccountInv, IInv, ResponseInv, CountInv
  <2>2. reply.errs = acc.errs /\ (reply.res = acc.data \/ reply.res = Incomplete(acc.data))
    BY <2>1 DEF Result
  <2>3. acc.errs \in Seq(Error) /\ IsFiniteSet(Error) /\ IsInjective(acc.errs)
    BY NAssumption, FS_Interval DEF IInv, TypeOK, Accumulator, Error, AccountInv
  <2>4. Len(acc.errs) = Cardinality(Range(acc.errs))
    BY <2>3, LengthLemma
  <2>5. \A b \in Started \ Range(acc.errs) : Kept(b)
    BY <2>1 DEF AccountInv
  <2>6. acc.data # Nil => reply.res # Nil /\ reply.res.data = acc.data.data
    BY <2>2, IncompleteKeeps DEF IInv, TypeOK, Accumulator
  <2>7. Range(acc.errs) \subseteq Started
    BY <2>1 DEF AccountInv
  <2>8. QED  BY <2>2, <2>4, <2>5, <2>6, <2>7 DEF Kept, HasBody
<1>4. QED  BY <1>1, <1>2, <1>3, Invariance, PTL DEF Spec

-----------------------------------------------------------------------------
(* The refinement of ForkJoin: every step of the main goroutine, of a      *)
(* requestPart or of the context maps to a step of the promise or leaves   *)
(* its variables alone.                                                    *)

\* The backends that delivered a value for a key.
Holders(k) == {b \in Delivered : HasBody(answer[b].res) /\ k \in DOMAIN answer[b].res.data}

AllComplete ==
  /\ \A b \in Delivered : answer[b].res.complete
  /\ (\E b, c \in Delivered : b # c) => \A b \in Delivered : HasBody(answer[b].res)

\* The response built so far is that of the backends that delivered so far.
GatherInv ==
  /\ \A b \in Delivered : answer[b].res \in Response
  /\ acc.data = Nil <=> Delivered = {}
  /\ HasBody(acc.data) =>
       /\ DOMAIN acc.data.data \subseteq Keys
       /\ \A k : k \in DOMAIN acc.data.data <=> Holders(k) # {}
       /\ \A k \in DOMAIN acc.data.data :
            \E b \in Holders(k) : acc.data.data[k] = answer[b].res.data[k]
  /\ acc.data # Nil /\ ~HasBody(acc.data) =>
       \E b : Delivered = {b} /\ ~HasBody(answer[b].res)
  /\ HasBody(acc.data) => \A b : Delivered = {b} => HasBody(answer[b].res)
  /\ acc.data # Nil /\ acc.errs = <<>> => (acc.data.complete <=> AllComplete)

LEMMA InitGather == Init => GatherInv
<1>1. SUFFICES ASSUME Init PROVE GatherInv  OBVIOUS
<1>2. Delivered = {}  BY <1>1 DEF Init, Delivered, Merged
<1>3. acc.data = Nil  BY <1>1 DEF Init, NewAccumulator
<1>4. QED  BY <1>2, <1>3 DEF GatherInv, HasBody

\* Steps that merge nothing leave the invariant alone.
LEMMA GatherKept ==
  ASSUME GatherInv, Delivered' = Delivered, UNCHANGED acc,
         \A b \in Delivered : answer'[b] = answer[b]
  PROVE  GatherInv'
<1>1. \A k : Holders(k)' = Holders(k)  BY DEF Holders
<1>2. AllComplete' = AllComplete  BY DEF AllComplete
<1>3. HasBody(acc.data)' = HasBody(acc.data)  OBVIOUS
<1>4. \A b \in Delivered : HasBody(answer'[b].res) <=> HasBody(answer[b].res)
  OBVIOUS
<1>5. \A b : Delivered = {b} => b \in Delivered  OBVIOUS
<1>6. \A k : \A b \in Holders(k) : answer'[b] = answer[b]  BY DEF Holders
<1>7. QED  BY <1>1, <1>2, <1>3, <1>4, <1>5, <1>6 DEF GatherInv

\* What a step does to the backends delivered.
LEMMA SameDelivered ==
  ASSUME Merged' = Merged, acc'.errs = acc.errs
  PROVE  Delivered' = Delivered
BY DEF Delivered

LEMMA ErrorDelivered ==
  ASSUME TypeOK, ChannelInv, AccountInv, CollectFailed
  PROVE  /\ Head(failed) \in Backend \ Merged
         /\ Merged' = Merged \cup {Head(failed)}
         /\ Delivered' = Delivered
<1>1. PICK h : h = Head(failed)  OBVIOUS
<1>2. h \in Backend \ Merged /\ Merged' = Merged \cup {h}
  BY <1>1, CollectFailedMerges
<1>3. acc'.errs = Append(acc.errs, h)
  BY <1>1 DEF CollectFailed, MergeError
<1>4. acc.errs \in Seq(Error) /\ h \in Error
  BY <1>2, NAssumption DEF TypeOK, Accumulator, Error, Backend
<1>5. Range(acc'.errs) = Range(acc.errs) \cup {h}
  BY <1>3, <1>4, SendLemma
<1>6. QED  BY <1>1, <1>2, <1>5 DEF Delivered

LEMMA PartDelivered ==
  ASSUME TypeOK, ChannelInv, AccountInv, CollectPart
  PROVE  /\ Head(parts) \in Backend \ Merged
         /\ Merged' = Merged \cup {Head(parts)}
         /\ Delivered' = Delivered \cup {Head(parts)}
         /\ answer[Head(parts)].res \in Response /\ UNCHANGED answer
         /\ acc'.errs = acc.errs
         /\ acc'.data = IF acc.data = Nil THEN answer[Head(parts)].res
                        ELSE CombineData(2, <<acc.data, answer[Head(parts)].res>>)
<1>1. PICK h : h = Head(parts)  OBVIOUS
<1>2. h \in Backend \ Merged /\ Merged' = Merged \cup {h} /\ answer[h].res \in Response
  BY <1>1, CollectPartMerges
<1>3. answer[h].res # Nil  BY <1>2, NilAssumption
<1>4. acc' = MergeResponse(acc, answer[h].res) /\ UNCHANGED answer
  BY <1>1 DEF CollectPart
<1>5. /\ acc'.errs = acc.errs
      /\ acc'.data = IF acc.data = Nil THEN answer[h].res
                     ELSE CombineData(2, <<acc.data, answer[h].res>>)
  BY <1>3, <1>4 DEF MergeResponse
<1>6. h \notin Range(acc.errs)  BY <1>2 DEF AccountInv
<1>7. Delivered' = Delivered \cup {h}  BY <1>2, <1>5, <1>6 DEF Delivered
<1>8. QED  BY <1>1, <1>2, <1>4, <1>5, <1>7

LEMMA MergeGathers ==
  ASSUME TypeOK, ChannelInv, AccountInv, GatherInv, CollectPart
  PROVE  GatherInv'
<1> PICK h, r : h = Head(parts) /\ r = answer[h].res
  OBVIOUS
<1>1. /\ h \in Backend \ Merged /\ h \notin Delivered
      /\ Delivered' = Delivered \cup {h}
      /\ r \in Response /\ answer' = answer
      /\ acc'.errs = acc.errs
      /\ acc'.data = IF acc.data = Nil THEN r ELSE CombineData(2, <<acc.data, r>>)
  BY PartDelivered DEF Delivered
<1>n. Nil \notin Response  BY NilAssumption
<1>2. \A b \in Delivered' : answer'[b].res \in Response
  BY <1>1 DEF GatherInv
<1>3. \A k : Holders(k)' = Holders(k) \cup {b \in {h} : HasBody(r) /\ k \in DOMAIN r.data}
  BY <1>1 DEF Holders
<1>4. CASE acc.data = Nil
  <2>1. acc'.data = r /\ r # Nil /\ Delivered = {} /\ Delivered' = {h}
    BY <1>1, <1>4, <1>n DEF GatherInv
  <2>2. \A k : Holders(k)' = {b \in {h} : HasBody(r) /\ k \in DOMAIN r.data}
    BY <1>3, <2>1 DEF Holders
  <2>3. HasBody(r) => DOMAIN r.data \subseteq Keys
    <3>1. HasBody(r) => r.data \in Data  BY <1>1, <1>n DEF HasBody, Response
    <3>2. QED  BY <3>1 DEF Data
  <2>4. AllComplete' <=> r.complete  BY <1>1, <2>1 DEF AllComplete
  <2>5. HasBody(acc.data)' <=> HasBody(r)  BY <2>1
  <2>6. HasBody(r) =>
          \A k : k \in DOMAIN r.data => h \in Holders(k)' /\ r.data[k] = answer'[h].res.data[k]
    BY <1>1, <2>2
  <2>7. \A k : HasBody(r) => (k \in DOMAIN r.data <=> Holders(k)' # {})
    BY <2>2
  <2>8. \A b : Delivered' = {b} => b = h  BY <2>1
  <2>9. QED
    BY <1>1, <1>2, <2>1, <2>3, <2>4, <2>5, <2>6, <2>7, <2>8 DEF GatherInv
<1>5. CASE acc.data # Nil
  <2> PICK both : both = CombineData(2, <<acc.data, r>>)
    OBVIOUS
  <2>1. acc.data \in Response  BY <1>5 DEF TypeOK, Accumulator
  <2>2. both \in Response  BY <1>1, <2>1, CombineType
  <2>3. /\ HasBody(both) /\ DOMAIN both.data \subseteq Keys
        /\ \A k : k \in DOMAIN both.data <=>
                    \/ HasBody(acc.data) /\ k \in DOMAIN acc.data.data
                    \/ HasBody(r) /\ k \in DOMAIN r.data
        /\ \A k \in DOMAIN both.data :
             both.data[k] = IF HasBody(r) /\ k \in DOMAIN r.data THEN r.data[k] ELSE acc.data.data[k]
        /\ both.complete <=> acc.data.complete /\ r.complete /\ HasBody(acc.data) /\ HasBody(r)
    BY <1>1, <2>1, CombineExact
  <2>4. acc'.data = both /\ both # Nil  BY <1>1, <1>5, <1>n, <2>2
  <2>5. ~HasBody(acc.data) => \A k : Holders(k) = {}
    BY <1>5 DEF GatherInv, Holders
  <2>6. ASSUME NEW k
        PROVE  HasBody(acc.data) /\ k \in DOMAIN acc.data.data <=> Holders(k) # {}
    BY <2>5 DEF GatherInv
  <2>7. \A k : k \in DOMAIN both.data <=> Holders(k)' # {}
    BY <1>3, <2>3, <2>6
  <2>8. ASSUME NEW k \in DOMAIN both.data
        PROVE  \E b \in Holders(k)' : both.data[k] = answer'[b].res.data[k]
    <3>1. CASE HasBody(r) /\ k \in DOMAIN r.data
      <4>1. h \in Holders(k)'  BY <1>3, <3>1
      <4>2. both.data[k] = answer'[h].res.data[k]  BY <1>1, <2>3, <3>1
      <4>3. QED  BY <4>1, <4>2
    <3>2. CASE ~(HasBody(r) /\ k \in DOMAIN r.data)
      <4>1. HasBody(acc.data) /\ k \in DOMAIN acc.data.data  BY <2>3, <3>2
      <4>2. PICK b \in Holders(k) : acc.data.data[k] = answer[b].res.data[k]
        BY <4>1 DEF GatherInv
      <4>3. b \in Holders(k)' /\ answer'[b] = answer[b]  BY <1>1, <1>3, <4>2
      <4>4. both.data[k] = acc.data.data[k]  BY <2>3, <3>2
      <4>5. QED  BY <4>2, <4>3, <4>4
    <3>3. QED  BY <3>1, <3>2
  <2>9. ASSUME acc.errs = <<>> PROVE both.complete <=> AllComplete'
    <3>1. acc.data.complete <=> AllComplete  BY <1>5, <2>9 DEF GatherInv
    <3>2. PICK c : c \in Delivered /\ c # h
      BY <1>1, <1>5 DEF GatherInv
    <3>3. (\E b, d \in Delivered' : b # d) /\ h \in Delivered'
      BY <1>1, <3>2
    <3>4. AllComplete' <=> /\ \A b \in Delivered : answer[b].res.complete /\ HasBody(answer[b].res)
                           /\ r.complete /\ HasBody(r)
      BY <1>1, <3>3 DEF AllComplete
    <3>5. CASE HasBody(acc.data)
      <4>1. ASSUME \A b \in Delivered : answer[b].res.complete /\ HasBody(answer[b].res)
            PROVE  AllComplete
        BY <4>1 DEF AllComplete
      <4>2. ASSUME AllComplete, NEW b \in Delivered PROVE HasBody(answer[b].res)
        <5>1. CASE \E d, f \in Delivered : d # f  BY <4>2, <5>1 DEF AllComplete
        <5>2. CASE ~\E d, f \in Delivered : d # f
          <6>1. Delivered = {b}  BY <4>2, <5>2
          <6>2. QED  BY <3>5, <6>1 DEF GatherInv
        <5>3. QED  BY <5>1, <5>2
      <4>3. QED  BY <2>3, <3>1, <3>4, <3>5, <4>1, <4>2 DEF AllComplete
    <3>6. CASE ~HasBody(acc.data)
      BY <1>5, <2>3, <3>4, <3>6 DEF GatherInv
    <3>7. QED  BY <3>5, <3>6
  <2>10. \A b : Delivered' # {b}
    BY <1>1, <1>5 DEF GatherInv
  <2>11. QED
    BY <1>1, <1>2, <2>3, <2>4, <2>7, <2>8, <2>9, <2>10 DEF GatherInv
<1>6. QED  BY <1>4, <1>5

LEMMA LaunchMergesNothing ==
  ASSUME TypeOK, CountInv, Launch \/ Skip \/ StartCollecting
  PROVE  /\ Merged = {} /\ Merged' = {} /\ Delivered = {} /\ Delivered' = {}
         /\ acc.data = Nil /\ acc'.data = Nil
<1>1. Merged = {} /\ acc = NewAccumulator(0)
  BY DEF Launch, Skip, StartCollecting, CountInv
<1>2. Merged' = {}
  <2>1. CASE Launch \/ Skip
    BY <1>1, <2>1, FilteredAssumption, NAssumption
    DEF Launch, Skip, CountInv, Merged, TypeOK, Backend
  <2>2. CASE StartCollecting  BY <1>1, <2>2 DEF StartCollecting, Merged
  <2>3. QED  BY <2>1, <2>2
<1>3. acc' = acc \/ acc' = NewAccumulator(proxyCount)
  BY DEF Launch, Skip, StartCollecting
<1>4. acc.data = Nil /\ acc'.data = Nil  BY <1>1, <1>3 DEF NewAccumulator
<1>5. QED  BY <1>1, <1>2, <1>4 DEF Delivered

LEMMA NextGather ==
  ASSUME TypeOK, ChannelInv, CountInv, ResponseInv, AccountInv, GatherInv, [Next]_vars
  PROVE  GatherInv'
<1>1. CASE Launch \/ Skip \/ StartCollecting
  <2>1. Merged' = {} /\ acc'.data = Nil  BY <1>1, LaunchMergesNothing
  <2>2. Delivered' = {}  BY <2>1 DEF Delivered
  <2>3. QED  BY <2>1, <2>2 DEF GatherInv, HasBody
<1>2. CASE CollectFailed
  <2>1. Delivered' = Delivered /\ Head(failed) \in Error
    BY <1>2, ErrorDelivered, NAssumption DEF Backend, Error
  <2>2. /\ acc'.data = Incomplete(acc.data) /\ answer' = answer
        /\ acc'.errs = Append(acc.errs, Head(failed))
    BY <1>2 DEF CollectFailed, MergeError
  <2>3. acc'.errs # <<>>
    <3>1. acc.errs \in Seq(Error)  BY DEF TypeOK, Accumulator
    <3>2. QED  BY <2>1, <2>2, <3>1
  <2>4. /\ acc.data = Nil <=> acc'.data = Nil
        /\ acc.data # Nil => acc'.data.data = acc.data.data
    <3>1. acc.data = Nil => acc'.data = Nil  BY <2>2 DEF Incomplete
    <3>2. acc.data # Nil => acc'.data # Nil /\ acc'.data.data = acc.data.data
      BY <2>2, IncompleteKeeps DEF TypeOK, Accumulator
    <3>3. QED  BY <3>1, <3>2
  <2>5. HasBody(acc.data)' <=> HasBody(acc.data)  BY <2>4 DEF HasBody
  <2>6. \A k : Holders(k)' = Holders(k)  BY <2>1, <2>2 DEF Holders
  <2>7. HasBody(acc.data) => acc'.data.data = acc.data.data  BY <2>4 DEF HasBody
  <2>8. QED  BY <2>1, <2>2, <2>3, <2>4, <2>5, <2>6, <2>7 DEF GatherInv
<1>3. CASE CollectPart  BY <1>3, MergeGathers
<1>4. CASE Return \/ ContextEnds \/ UNCHANGED vars
  <2>1. UNCHANGED <<worker, parts, failed, acc, answer>>
    BY <1>4 DEF Return, ContextEnds, vars
  <2>2. Delivered' = Delivered  BY <2>1 DEF Delivered, Merged
  <2>3. QED  BY <2>1, <2>2, GatherKept
<1>5. ASSUME NEW b \in Backend, ProxyReturns(b) \/ SendFailed(b) \/ SendPart(b)
      PROVE  GatherInv'
  <2>1. Merged' = Merged /\ acc' = acc /\ \A c \in Merged : answer'[c] = answer[c]
    BY <1>5, WorkersKeepMerged
  <2>2. Delivered' = Delivered  BY <2>1 DEF Delivered
  <2>3. QED  BY <2>1, <2>2, GatherKept DEF Delivered
<1>6. QED
  BY <1>1, <1>2, <1>3, <1>4, <1>5 DEF Next, Main, Terminated

-----------------------------------------------------------------------------
(* Each step maps to one of the promise. *)

LEMMA InitPromise == Init => Promise!Init
<1>1. SUFFICES ASSUME Init PROVE Promise!Init  OBVIOUS
<1>2. Merged = {} /\ Delivered = {}  BY <1>1 DEF Init, Delivered, Merged
<1>3. \A b \in Backend : FateOf(b) = "open"
  BY <1>1, <1>2 DEF Init, FateOf
<1>4. Fates = [b \in Backend |-> "open"]  BY <1>3 DEF Fates
<1>5. Gifts = [b \in Backend |-> Nil]  BY <1>2 DEF Gifts
<1>6. reply = Nil  BY <1>1 DEF Init
<1>7. QED  BY <1>4, <1>5, <1>6 DEF Promise!Init, Promise!Backend, Backend

\* A step that merges nothing and skips no backend is a stutter.
LEMMA Stutters ==
  ASSUME Merged' = Merged, Delivered' = Delivered, reply' = reply,
         \A b \in Delivered : answer'[b] = answer[b],
         \A b \in Backend : worker'[b] = "skipped" <=> worker[b] = "skipped"
  PROVE  UNCHANGED Promise!vars
<1>1. \A b \in Backend : FateOf(b)' = FateOf(b)  BY DEF FateOf
<1>2. Fates' = Fates  BY <1>1 DEF Fates
<1>3. Gifts' = Gifts  BY DEF Gifts
<1>4. QED  BY <1>2, <1>3 DEF Promise!vars
LEMMA SkipMaps ==
  ASSUME TypeOK, CountInv, Skip
  PROVE  index \in Backend /\ Promise!Skip(index)
<1>1. index \in Backend /\ worker[index] = "idle"
  BY FilteredAssumption, NAssumption DEF Skip, CountInv, Backend
<1>2. Merged = {} /\ Merged' = {} /\ Delivered = {} /\ Delivered' = {}
  BY LaunchMergesNothing
<1>3. worker' = [worker EXCEPT ![index] = "skipped"] /\ reply' = reply
  BY DEF Skip
<1>4. FateOf(index) = "open"  BY <1>1, <1>2 DEF FateOf
<1>5. \A b \in Backend : FateOf(b)' = IF b = index THEN "skipped" ELSE FateOf(b)
  BY <1>1, <1>2, <1>3 DEF FateOf, TypeOK
<1>6. Fates' = [Fates EXCEPT ![index] = "skipped"]
  BY <1>5 DEF Fates
<1>7. Gifts' = Gifts  BY <1>2 DEF Gifts
<1>8. Fates[index] = "open"  BY <1>1, <1>4 DEF Fates
<1>9. QED  BY <1>1, <1>3, <1>6, <1>7, <1>8 DEF Promise!Skip

LEMMA FailMaps ==
  ASSUME TypeOK, ChannelInv, AccountInv, CollectFailed
  PROVE  Head(failed) \in Backend /\ Promise!Fail(Head(failed))
<1> PICK h : h = Head(failed)
  OBVIOUS
<1>1. /\ h \in Backend \ Merged /\ Merged' = Merged \cup {h}
      /\ Delivered' = Delivered /\ h \notin Delivered
  BY ErrorDelivered DEF Delivered
<1>2. UNCHANGED <<worker, answer, reply>>  BY DEF CollectFailed
<1>3. worker[h] # "skipped"
  BY CollectFailedMerges DEF Started
<1>4. \A b \in Backend : FateOf(b)' = IF b = h THEN "failed" ELSE FateOf(b)
  BY <1>1, <1>2, <1>3 DEF FateOf
<1>5. FateOf(h) = "open"  BY <1>1, <1>3 DEF FateOf
<1>6. Fates' = [Fates EXCEPT ![h] = "failed"]  BY <1>4 DEF Fates
<1>7. Gifts' = Gifts  BY <1>1, <1>2 DEF Gifts
<1>8. Fates[h] = "open"  BY <1>1, <1>5 DEF Fates
<1>9. QED  BY <1>1, <1>2, <1>6, <1>7, <1>8 DEF Promise!Fail

LEMMA DeliverMaps ==
  ASSUME TypeOK, ChannelInv, AccountInv, CollectPart
  PROVE  Head(parts) \in Backend /\ Promise!Deliver(Head(parts))
<1> PICK h, r : h = Head(parts) /\ r = answer[h].res
  OBVIOUS
<1>1. /\ h \in Backend \ Merged /\ Merged' = Merged \cup {h}
      /\ Delivered' = Delivered \cup {h} /\ h \notin Delivered
      /\ r \in Response
  BY PartDelivered DEF Delivered
<1>2. UNCHANGED <<worker, answer, reply>>  BY DEF CollectPart
<1>3. worker[h] # "skipped"
  BY CollectPartMerges DEF Started
<1>4. \A b \in Backend : FateOf(b)' = IF b = h THEN "delivered" ELSE FateOf(b)
  BY <1>1, <1>2, <1>3 DEF FateOf
<1>5. FateOf(h) = "open"  BY <1>1, <1>3 DEF FateOf
<1>6. Fates' = [Fates EXCEPT ![h] = "delivered"]  BY <1>4 DEF Fates
<1>7. Gifts' = [Gifts EXCEPT ![h] = r]  BY <1>1, <1>2 DEF Gifts
<1>8. Fates[h] = "open"  BY <1>1, <1>5 DEF Fates
<1>9. r \in Promise!Response
  BY <1>1 DEF Promise!Response, Promise!Data, Promise!Backend, Response, Data, Backend
<1>10. QED  BY <1>1, <1>2, <1>6, <1>7, <1>8, <1>9 DEF Promise!Deliver

\* When the merge returns, no message is outstanding.
LEMMA AllMerged ==
  ASSUME TypeOK, ChannelInv, CountInv, Return
  PROVE  acc.pending = 0 /\ Merged = Started /\ \A b \in Backend : worker[b] # "idle"
<1>1. [Next]_vars  BY DEF Next, Main
<1>2. CountInv' /\ main' = "returned"  BY <1>1, NextType, NextCount DEF Return
<1>3. UNCHANGED <<worker, parts, failed, acc, index, proxyCount>>  BY DEF Return
<1>4. Merged' = Merged /\ Started' = Started  BY <1>3 DEF Merged, Started
<1>5. acc.pending = proxyCount - index /\ index >= proxyCount /\ acc.pending >= 0
  BY NAssumption DEF Return, CountInv, TypeOK, Accumulator
<1>6. acc.pending = 0  BY <1>5, NAssumption DEF TypeOK
<1>7. QED  BY <1>2, <1>3, <1>4, <1>6 DEF CountInv

LEMMA FatesAtReturn ==
  ASSUME TypeOK, AccountInv, Merged = Started, \A b \in Backend : worker[b] # "idle"
  PROVE  /\ Promise!With("open") = {}
         /\ Promise!With("delivered") = Delivered
         /\ Promise!With("failed") = Range(acc.errs)
<1>1. \A b \in Backend : FateOf(b) # "open"  BY DEF FateOf, Started
<1>2. \A b \in Backend : FateOf(b) = "delivered" <=> b \in Delivered
  BY DEF FateOf, Delivered, Merged
<1>3. \A b \in Backend : FateOf(b) = "failed" <=> b \in Range(acc.errs)
  BY DEF FateOf, Delivered, Merged, AccountInv
<1>4. Delivered \subseteq Backend /\ Range(acc.errs) \subseteq Backend
  BY DEF Delivered, Merged, AccountInv
<1>5. \A b \in Backend : Fates[b] = FateOf(b)  BY DEF Fates
<1>6. QED
  BY <1>1, <1>2, <1>3, <1>4, <1>5 DEF Promise!With, Promise!Backend, Backend

LEMMA PromiseCardinality ==
  ASSUME NEW S
  PROVE  Promise!Cardinality(S) = Cardinality(S)
BY DEF Promise!Cardinality, Cardinality

LEMMA MoreThanOne ==
  ASSUME NEW S, IsFiniteSet(S)
  PROVE  Cardinality(S) > 1 <=> \E b, c \in S : b # c
<1>0. Cardinality(S) \in Nat  BY FS_CardinalityType
<1>1. ASSUME NEW b \in S, NEW c \in S, b # c PROVE Cardinality(S) > 1
  <2>1. Cardinality({b}) = 1 /\ Cardinality({b}) <= Cardinality(S)
    BY FS_Singleton, FS_Subset
  <2>2. Cardinality(S) # 1  BY <1>1, <2>1, FS_Subset
  <2>3. QED  BY <1>0, <2>1, <2>2
<1>2. ASSUME ~\E b, c \in S : b # c PROVE ~(Cardinality(S) > 1)
  <2>1. CASE S = {}  BY <2>1, FS_EmptySet
  <2>2. CASE S # {}
    <3>1. PICK b : S = {b}  BY <1>2, <2>2
    <3>2. QED  BY <3>1, FS_Singleton
  <2>3. QED  BY <2>1, <2>2
<1>3. QED  BY <1>1, <1>2

LEMMA ReturnMaps ==
  ASSUME TypeOK, ChannelInv, CountInv, ResponseInv, AccountInv, GatherInv, Return
  PROVE  Promise!Join
<1> PICK res, errs : res = Result(acc).res /\ errs = acc.errs
  OBVIOUS
<1>1. acc.pending = 0 /\ Merged = Started /\ \A b \in Backend : worker[b] # "idle"
  BY AllMerged
<1>2. /\ Promise!With("open") = {} /\ Promise!With("delivered") = Delivered
      /\ Promise!With("failed") = Range(errs)
  BY <1>1, FatesAtReturn
<1>3. /\ reply = Nil /\ reply' = Result(acc) /\ Result(acc).errs = errs
      /\ UNCHANGED <<worker, answer, acc, parts, failed>>
  BY DEF Return, ResponseInv, Result
<1>4. UNCHANGED <<Fates, Gifts>>
  <2>1. Merged' = Merged /\ Delivered' = Delivered  BY <1>3 DEF Merged, Delivered
  <2>2. \A b \in Backend : FateOf(b)' = FateOf(b)  BY <1>3, <2>1 DEF FateOf
  <2>3. QED  BY <1>3, <2>1, <2>2 DEF Fates, Gifts
<1>5. Promise!ErrorsOf(errs)
  <2>1. errs \in Seq(Error) /\ IsFiniteSet(Error) /\ IsInjective(errs)
    BY NAssumption, FS_Interval DEF TypeOK, Accumulator, Error, AccountInv
  <2>2. Len(errs) = Cardinality(Range(errs))  BY <2>1, LengthLemma
  <2>3. Promise!Range(errs) = Range(errs)  BY DEF Promise!Range, Range
  <2>4. QED  BY <1>2, <2>2, <2>3, PromiseCardinality DEF Promise!ErrorsOf
<1>6. /\ res = IF errs = <<>> THEN acc.data ELSE Incomplete(acc.data)
      /\ res = Nil <=> acc.data = Nil
      /\ res # Nil => res.data = acc.data.data
      /\ HasBody(res) <=> HasBody(acc.data)
  <2>1. res = IF errs = <<>> THEN acc.data ELSE Incomplete(acc.data)
    BY <1>1 DEF Result
  <2>2. acc.data = Nil => res = Nil  BY <2>1 DEF Incomplete
  <2>3. acc.data # Nil => res # Nil /\ res.data = acc.data.data
    BY <2>1, IncompleteKeeps DEF TypeOK, Accumulator
  <2>4. QED  BY <2>1, <2>2, <2>3 DEF HasBody
<1>7. \A b \in Delivered : Gifts[b] = answer[b].res
  BY DEF Gifts, Delivered, Merged
<1>8. IsFiniteSet(Delivered)
  <2>1. Delivered \subseteq Backend  BY DEF Delivered, Merged
  <2>2. QED  BY <2>1, BackendFinite, FS_Subset
<1>9. res # Nil => (res.complete <=> Range(errs) = {} /\ AllComplete)
  <2>1. CASE errs = <<>>
    <3>1. Range(errs) = {}  BY <2>1 DEF Range
    <3>2. QED  BY <1>6, <2>1, <3>1 DEF GatherInv
  <2>2. CASE errs # <<>>
    <3>1. res # Nil => ~res.complete  BY <1>6, <2>2 DEF Incomplete
    <3>2. errs \in Seq(Error)  BY DEF TypeOK, Accumulator
    <3>3. errs[1] \in Range(errs)  BY <2>2, <3>2 DEF Range
    <3>4. QED  BY <3>1, <3>3
  <2>3. QED  BY <2>1, <2>2
<1>10. \A k : {b \in Delivered : Promise!HasBody(Gifts[b]) /\ k \in DOMAIN Gifts[b].data}
                 = Holders(k)
  BY <1>7 DEF Holders, Promise!HasBody, HasBody
<1>11. Promise!ResponseOf(res)
  <2>1. res = Nil <=> Delivered = {}  BY <1>6 DEF GatherInv
  <2>2. ASSUME res # Nil, HasBody(res)
        PROVE  /\ \A k \in Keys : k \in DOMAIN res.data <=> Holders(k) # {}
               /\ \A k \in DOMAIN res.data :
                     \E b \in Holders(k) : res.data[k] = Gifts[b].data[k]
    <3>1. res.data = acc.data.data /\ HasBody(acc.data)  BY <1>6, <2>2
    <3>2. \A k : \A b \in Holders(k) : Gifts[b] = answer[b].res
      BY <1>7 DEF Holders
    <3>3. QED  BY <3>1, <3>2 DEF GatherInv
  <2>3. ASSUME res # Nil, ~HasBody(res) PROVE Cardinality(Delivered) = 1
    <3>1. \E b : Delivered = {b}  BY <1>6, <2>3 DEF GatherInv
    <3>2. QED  BY <3>1, FS_Singleton
  <2>4. ASSUME res # Nil
        PROVE  res.complete <=> /\ Range(errs) = {}
                                /\ \A b \in Delivered : Gifts[b].complete
                                /\ Cardinality(Delivered) > 1 =>
                                      \A b \in Delivered : HasBody(Gifts[b])
    BY <1>7, <1>8, <1>9, <2>4, MoreThanOne DEF AllComplete
  <2>5. HasBody(res) <=> Promise!HasBody(res)  BY DEF Promise!HasBody, HasBody
  <2>6. \A b \in Delivered : HasBody(Gifts[b]) <=> Promise!HasBody(Gifts[b])
    BY DEF Promise!HasBody, HasBody
  <2>7. QED
    BY <1>2, <1>10, <2>1, <2>2, <2>3, <2>4, <2>5, <2>6, PromiseCardinality
    DEF Promise!ResponseOf
<1>12. Result(acc) \in Promise!Reply
  BY ResultType
  DEF TypeOK, Promise!Reply, Promise!Response, Promise!Data, Promise!Error,
      Promise!Backend, Reply, Response, Data, Error, Backend
<1>13. QED  BY <1>2, <1>3, <1>4, <1>5, <1>11, <1>12 DEF Promise!Join

LEMMA NextPromise ==
  ASSUME IInv, AccountInv, GatherInv, [Next]_vars
  PROVE  [Promise!Next]_(Promise!vars)
<1> USE DEF IInv
<1>b. Promise!Backend = Backend  BY DEF Promise!Backend, Backend
<1>1. CASE Launch \/ StartCollecting
  <2>1. Merged' = Merged /\ Delivered = {} /\ Delivered' = {}
    BY <1>1, LaunchMergesNothing
  <2>2. reply' = reply  BY <1>1 DEF Launch, StartCollecting
  <2>3. \A b \in Backend : worker'[b] = "skipped" <=> worker[b] = "skipped"
    BY <1>1, NAssumption DEF Launch, StartCollecting, CountInv, TypeOK, Backend
  <2>4. QED  BY <2>1, <2>2, <2>3, Stutters
<1>2. CASE Skip  BY <1>2, <1>b, SkipMaps DEF Promise!Next
<1>3. CASE CollectFailed  BY <1>3, <1>b, FailMaps DEF Promise!Next
<1>4. CASE CollectPart  BY <1>4, <1>b, DeliverMaps DEF Promise!Next
<1>5. CASE Return  BY <1>5, ReturnMaps DEF Promise!Next
<1>6. CASE ContextEnds \/ UNCHANGED vars
  <2>1. UNCHANGED <<worker, parts, failed, acc, answer, reply>>
    BY <1>6 DEF ContextEnds, vars
  <2>2. Merged' = Merged /\ Delivered' = Delivered  BY <2>1 DEF Delivered, Merged
  <2>3. QED  BY <2>1, <2>2, Stutters
<1>7. ASSUME NEW b \in Backend, ProxyReturns(b) \/ SendFailed(b) \/ SendPart(b)
      PROVE  [Promise!Next]_(Promise!vars)
  <2>1. /\ Merged' = Merged /\ UNCHANGED <<acc, reply>>
        /\ \A c \in Merged : answer'[c] = answer[c]
    BY <1>7, WorkersKeepMerged
  <2>2. Delivered' = Delivered /\ Delivered \subseteq Merged  BY <2>1 DEF Delivered
  <2>3. \A c \in Backend : worker'[c] = "skipped" <=> worker[c] = "skipped"
    BY <1>7 DEF ProxyReturns, SendFailed, SendPart, TypeOK
  <2>4. QED  BY <2>1, <2>2, <2>3, Stutters
<1>8. QED
  BY <1>1, <1>2, <1>3, <1>4, <1>5, <1>6, <1>7 DEF Next, Main, Terminated

\* merging.go:279-311 implements the promise of ForkJoin: each backend is
\* accounted for once, and the one reply is made of what they delivered.
THEOREM KeepsPromiseAlways == Spec => KeepsPromise
<1>1. Init => Promise!Init /\ IInv /\ AccountInv /\ GatherInv
  BY InitPromise, InitType, InitChannel, InitCount, InitResponse, InitAccount, InitGather
  DEF IInv
<1>2. IInv /\ AccountInv /\ GatherInv /\ [Next]_vars
        => IInv' /\ AccountInv' /\ GatherInv'
  BY NextType, NextChannel, NextCount, NextResponse, NextAccount, NextGather DEF IInv
<1>3. IInv /\ AccountInv /\ GatherInv /\ [Next]_vars => [Promise!Next]_(Promise!vars)
  BY NextPromise
<1>4. QED  BY <1>1, <1>2, <1>3, PTL DEF Spec, KeepsPromise, Promise!Spec

=============================================================================
