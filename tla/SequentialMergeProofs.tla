----------------------- MODULE SequentialMergeProofs -----------------------
(***************************************************************************)
(* Proofs about SequentialMerge, for every number of backends and every    *)
(* choice of filters, keys and replacements.                               *)
(***************************************************************************)
EXTENDS SequentialMerge, TLAPS

\* The inductive invariant: what the loop has behind it at each turn.

Fine(b) ==
  \/ fate[b] = "skipped"
  \/ fate[b] = "delivered" /\ answer[b].res \in Response /\ answer[b].res.complete

\* The backend that ended the loop.
Trouble(b) ==
  \/ fate[b] = "failed" /\ acc.errs # <<>>
  \/ fate[b] = "delivered" /\ answer[b].res \in Response /\ ~answer[b].res.complete

\* Every turn leaves the backend before it skipped or complete, and the ones
\* after it alone.
TurnInv ==
  /\ \A b \in Backend : b < i => Fine(b)
  /\ \A b \in Backend : b > i => fate[b] = "open"
  /\ at \in {"turn", "call", "select"} /\ i \in Backend => fate[i] = "open"
  /\ at \in {"call", "select", "result"} => i \in Backend
  /\ at = "result" => Trouble(i)

\* A message less is pending after each turn.
PendingInv ==
  /\ at \in {"turn", "call", "select"} => acc.pending = N + 1 - i /\ acc.errs = <<>>
  /\ at = "result" => acc.pending = N - i

BodyInv ==
  /\ owner # Nil => HasBody(acc.data)
  /\ /\ acc.data # Nil /\ acc.errs = <<>>
     /\ \A b \in Delivered : answer[b].res.complete /\ HasBody(answer[b].res)
     => acc.data.complete /\ HasBody(acc.data)

\* The loop ended at its end, or with the trouble of a backend.
ReplyInv ==
  /\ at = "returned" <=> reply # Nil
  /\ reply # Nil /\ reply.res # Nil =>
       /\ reply = Result(acc)
       /\ \/ i = N + 1 /\ acc.pending = 0 /\ acc.errs = <<>>
          \/ i \in Backend /\ acc.pending = N - i /\ Trouble(i)

IInv == TypeOK /\ TurnInv /\ PendingInv /\ BodyInv /\ ReplyInv

-----------------------------------------------------------------------------
(* The accumulator and combineData, as in ParallelMergeProofs. *)

LEMMA CombineType ==
  ASSUME NEW a \in Response, NEW r \in Response
  PROVE  /\ CombineData(2, <<a, r>>) \in Response
         /\ CombineData(2, <<a, r>>).data \in Data
<1> DEFINE parts2     == <<a, r>>
           usable     == {n \in DOMAIN parts2 : HasBody(parts2[n])}
           holders(k) == {n \in usable : k \in DOMAIN parts2[n].data}
           last(k)    == CHOOSE n \in holders(k) : \A m \in holders(k) : m <= n
           keys       == {key \in Keys : holders(key) # {}}
           body       == [k \in keys |-> parts2[last(k)].data[k]]
<1>1. ASSUME NEW k \in keys PROVE last(k) \in holders(k)
  <2>1. holders(k) \subseteq {1, 2} /\ holders(k) # {}  OBVIOUS
  <2>2. \E n \in holders(k) : \A m \in holders(k) : m <= n
    <3> HIDE DEF holders
    <3>1. CASE 2 \in holders(k)  BY <2>1, <3>1
    <3>2. CASE 2 \notin holders(k)  BY <2>1, <3>2
    <3>3. QED  BY <3>1, <3>2
  <2>3. QED  BY <2>2
<1>2. ASSUME NEW k \in keys PROVE parts2[last(k)].data[k] \in Backend
  <2>1. /\ last(k) \in DOMAIN parts2
        /\ HasBody(parts2[last(k)])
        /\ k \in DOMAIN parts2[last(k)].data
    BY <1>1
  <2>2. parts2[last(k)] \in Response
    <3> HIDE DEF last
    <3>1. last(k) \in {1, 2}  BY <2>1
    <3>2. QED  BY <3>1
  <2> HIDE DEF last
  <2>3. parts2[last(k)].data \in Data
    BY <2>1, <2>2, NilAssumption DEF HasBody, Response
  <2>4. QED  BY <2>1, <2>3 DEF Data
<1>3. body \in Data
  <2>1. keys \in SUBSET Keys  OBVIOUS
  <2>2. body \in [keys -> Backend]  BY <1>2
  <2> HIDE DEF body, keys
  <2>3. QED  BY <2>1, <2>2 DEF Data
<1>4. CombineData(2, <<a, r>>).data = body  BY DEF CombineData
<1>5. QED  BY <1>3 DEF CombineData, Response

\* Combining two responses keeps the keys of both, the second's value where
\* both have one, and is complete if both are and both have a body.
LEMMA CombineExact ==
  ASSUME NEW a \in Response, NEW r \in Response
  PROVE  LET both == CombineData(2, <<a, r>>)
             In(p, k) == HasBody(p) /\ k \in DOMAIN p.data
         IN  /\ HasBody(both) /\ DOMAIN both.data \subseteq Keys
             /\ \A k : k \in DOMAIN both.data <=> In(a, k) \/ In(r, k)
             /\ \A k \in DOMAIN both.data :
                  both.data[k] = IF In(r, k) THEN r.data[k] ELSE a.data[k]
             /\ both.complete <=> a.complete /\ r.complete /\ HasBody(a) /\ HasBody(r)
<1> DEFINE both       == CombineData(2, <<a, r>>)
           In(p, k)   == HasBody(p) /\ k \in DOMAIN p.data
           parts2     == <<a, r>>
           usable     == {n \in DOMAIN parts2 : HasBody(parts2[n])}
           holders(k) == {n \in usable : k \in DOMAIN parts2[n].data}
           last(k)    == CHOOSE n \in holders(k) : \A m \in holders(k) : m <= n
           keys       == {key \in Keys : holders(key) # {}}
<1>1. both.data = [k \in keys |-> parts2[last(k)].data[k]]
  BY DEF CombineData
<1>2. both.complete <=> usable = DOMAIN parts2 /\ \A n \in usable : parts2[n].complete
  BY DEF CombineData
<1>3. /\ \A k : 1 \in holders(k) <=> In(a, k)
      /\ \A k : 2 \in holders(k) <=> In(r, k)
      /\ \A k : holders(k) \subseteq {1, 2}
  OBVIOUS
<1>4. ASSUME NEW p \in Response, HasBody(p) PROVE DOMAIN p.data \subseteq Keys
  <2>1. p.data \in Data  BY <1>4, NilAssumption DEF HasBody, Response
  <2>2. QED  BY <2>1 DEF Data
<1>5. ASSUME NEW k PROVE k \in keys <=> In(a, k) \/ In(r, k)
  <2>1. In(a, k) \/ In(r, k) => k \in Keys  BY <1>4
  <2> HIDE DEF holders, In
  <2>2. holders(k) # {} <=> In(a, k) \/ In(r, k)  BY <1>3
  <2>3. QED  BY <2>1, <2>2
<1>6. ASSUME NEW k \in keys PROVE last(k) = IF In(r, k) THEN 2 ELSE 1
  <2>1. holders(k) # {}  OBVIOUS
  <2> HIDE DEF holders, In
  <2>2. CASE In(r, k)
    <3>1. 2 \in holders(k) /\ \A j \in holders(k) : j <= 2  BY <1>3, <2>2
    <3>2. \A n \in holders(k) : (\A m \in holders(k) : m <= n) => n = 2
      BY <1>3, <3>1
    <3>3. QED  BY <2>2, <3>1, <3>2
  <2>3. CASE ~In(r, k)
    <3>1. holders(k) = {1}  BY <1>3, <2>1, <2>3
    <3>2. QED  BY <2>3, <3>1
  <2>4. QED  BY <2>2, <2>3
<1>7. HasBody(both)
  <2>1. both \in Response /\ both.data \in Data  BY CombineType
  <2> HIDE DEF both
  <2>2. QED  BY <2>1, NilAssumption DEF HasBody
<1>8. DOMAIN both.data = keys  BY <1>1
<1>9. ASSUME NEW k \in DOMAIN both.data
      PROVE  both.data[k] = IF In(r, k) THEN r.data[k] ELSE a.data[k]
  <2>1. k \in keys  BY <1>8, <1>9
  <2>2. both.data[k] = parts2[last(k)].data[k]
    <3> HIDE DEF last, keys, both
    <3>1. QED  BY <1>1, <2>1
  <2>3. CASE In(r, k)
    <3>1. last(k) = 2  BY <1>6, <2>1, <2>3
    <3> HIDE DEF last, In
    <3>2. QED  BY <2>2, <2>3, <3>1
  <2>4. CASE ~In(r, k)
    <3>1. last(k) = 1  BY <1>6, <2>1, <2>4
    <3> HIDE DEF last, In
    <3>2. QED  BY <2>2, <2>4, <3>1
  <2>5. QED  BY <2>3, <2>4
<1>10. both.complete <=> a.complete /\ r.complete /\ HasBody(a) /\ HasBody(r)
  <2>1. DOMAIN parts2 = {1, 2} /\ parts2[1] = a /\ parts2[2] = r  OBVIOUS
  <2>2. usable = DOMAIN parts2 <=> HasBody(a) /\ HasBody(r)
    <3>1. 1 \in usable <=> HasBody(a)  OBVIOUS
    <3>2. 2 \in usable <=> HasBody(r)  OBVIOUS
    <3>3. usable \subseteq {1, 2}  BY <2>1
    <3>4. QED  BY <2>1, <3>1, <3>2, <3>3
  <2>3. usable = DOMAIN parts2 =>
          ((\A n \in usable : parts2[n].complete) <=> a.complete /\ r.complete)
    BY <2>1
  <2> HIDE DEF both, usable, parts2
  <2>4. QED  BY <1>2, <2>2, <2>3
<1>11. keys \subseteq Keys  OBVIOUS
<1>12. QED  BY <1>5, <1>7, <1>8, <1>9, <1>10, <1>11

LEMMA MergeErrorType ==
  ASSUME NEW a \in Accumulator, NEW e \in Error, a.pending > 0
  PROVE  MergeError(a, e) \in Accumulator
<1>1. Incomplete(a.data) \in Response \cup {Nil}
  BY DEF Accumulator, Incomplete, Response
<1>2. a.pending - 1 \in 0..N  BY NAssumption DEF Accumulator
<1>3. Append(a.errs, e) \in Seq(Error)  BY DEF Accumulator
<1>4. QED  BY <1>1, <1>2, <1>3 DEF MergeError, Accumulator

LEMMA MergeResponseType ==
  ASSUME NEW a \in Accumulator, NEW r \in Response, a.pending > 0
  PROVE  MergeResponse(a, r) \in Accumulator
<1>1. r # Nil  BY NilAssumption
<1>2. a.data # Nil => CombineData(2, <<a.data, r>>) \in Response
  BY CombineType DEF Accumulator
<1> DEFINE m == MergeResponse(a, r)
<1>3. /\ m = [pending |-> m.pending, data |-> m.data, errs |-> m.errs]
      /\ m.pending = a.pending - 1 /\ m.errs = a.errs
      /\ m.data = IF a.data = Nil THEN r ELSE CombineData(2, <<a.data, r>>)
  BY <1>1 DEF MergeResponse
<1>4. m.pending \in 0..N /\ m.data \in Response \cup {Nil} /\ m.errs \in Seq(Error)
  BY <1>2, <1>3, NAssumption DEF Accumulator
<1> HIDE DEF m
<1>5. QED  BY <1>3, <1>4 DEF Accumulator, m

LEMMA ResultType ==
  ASSUME NEW a \in Accumulator
  PROVE  Result(a) \in Reply
BY NilAssumption DEF Result, Reply, Accumulator, Incomplete, Response

\* A response that is called incomplete keeps its body.
LEMMA IncompleteKeeps ==
  ASSUME NEW a \in Response \cup {Nil}, a # Nil
  PROVE  Incomplete(a) # Nil /\ Incomplete(a).data = a.data
<1>1. [data |-> a.data, complete |-> FALSE] \in Response  BY DEF Response
<1>2. QED  BY <1>1, NilAssumption DEF Incomplete

-----------------------------------------------------------------------------
(* Replacements. *)

LEMMA CopiedType ==
  ASSUME TypeOK, BodyInv, NEW p \in Parameter
  PROVE  Copied(p) \in Backend \cup {Empty, Nil}
<1>1. ASSUME NEW d \in Data, p.key \in DOMAIN d
      PROVE  Text(d[p.key], p.key) \in Backend \cup {Empty}
  BY <1>1 DEF Data, Text
<1>2. p.from \in Backend  BY DEF Parameter
<1>3. registry[p] \in Backend \cup {Empty}  BY DEF TypeOK
<1>4. ASSUME owner = p.from PROVE Body(p.from) \in Data
  <2>1. owner # Nil  BY <1>2, <1>4, NilAssumption, NAssumption DEF Backend, Error
  <2>2. acc.data \in Response /\ acc.data.data # Nil
    BY <2>1 DEF BodyInv, HasBody, TypeOK, Accumulator
  <2>3. acc.data.data \in Data  BY <2>2 DEF Response
  <2>4. QED  BY <1>4, <2>3 DEF Body
<1>5. ASSUME owner # p.from, Body(p.from) # Nil, p.key \in DOMAIN Body(p.from)
      PROVE  Body(p.from) \in Data
  <2>1. answer[p.from].res # Nil
    BY <1>5 DEF Body, OwnBody
  <2>2. answer[p.from].res \in Response  BY <1>2, <2>1 DEF TypeOK
  <2>3. Body(p.from) = answer[p.from].res.data  BY <1>5, <2>1 DEF Body, OwnBody
  <2>4. QED  BY <1>5, <2>2, <2>3 DEF Response
<1>6. QED  BY <1>1, <1>3, <1>4, <1>5 DEF Copied, Found

LEMMA ReplaceType ==
  ASSUME TypeOK, BodyInv, Replace
  PROVE  /\ params' \in [Parameter -> Backend \cup {Empty, Nil}]
         /\ registry' \in [Parameter -> Backend \cup {Empty}]
<1>1. \A p \in Parameter : Copied(p) \in Backend \cup {Empty, Nil}  BY CopiedType
<1>2. \A p \in Parameter : /\ params[p] \in Backend \cup {Empty, Nil}
                           /\ registry[p] \in Backend \cup {Empty}
  BY DEF TypeOK
<1>3. QED  BY <1>1, <1>2 DEF Replace

-----------------------------------------------------------------------------
(* Merging one message. *)

\* What Delivers and DeliversPart have in common.
LEMMA MergeStep ==
  ASSUME IInv, at = "select", GotResponse, MergeAnswer, UNCHANGED answer,
         fate' = [fate EXCEPT ![i] = "delivered"]
  PROVE  /\ i \in Backend /\ answer[i].res \in Response
         /\ acc' \in Accumulator /\ acc'.pending = N - i /\ acc'.errs = <<>>
         /\ owner' \in Backend \cup {Nil}
         /\ \A b \in Backend : fate'[b] = IF b = i THEN "delivered" ELSE fate[b]
         /\ fate' \in [Backend -> {"open", "skipped", "delivered", "failed"}]
         /\ BodyInv'
<1> DEFINE r == answer[i].res
<1> USE DEF IInv
<1>1. i \in Backend /\ r \in Response /\ fate[i] = "open"
  BY DEF TurnInv, GotResponse, TypeOK
<1>2. r # Nil /\ (acc.data # Nil => acc.data \in Response)
  BY <1>1, NilAssumption DEF TypeOK, Accumulator
<1>3. acc.pending = N + 1 - i /\ acc.pending > 0 /\ acc.errs = <<>>
  BY <1>1, NAssumption DEF PendingInv, Backend
<1>4. acc' = MergeResponse(acc, r)  BY DEF MergeAnswer
<1> HIDE DEF r
<1>5. acc' \in Accumulator
  BY <1>1, <1>3, <1>4, MergeResponseType DEF TypeOK
<1>6. /\ acc'.pending = N - i /\ acc'.errs = <<>>
      /\ acc'.data = IF acc.data = Nil THEN r ELSE CombineData(2, <<acc.data, r>>)
  BY <1>1, <1>2, <1>3, <1>4, NAssumption DEF MergeResponse, Backend
<1>7. owner' \in Backend \cup {Nil} /\ (owner' # Nil => owner # Nil \/ HasBody(r))
  BY <1>1 DEF MergeAnswer, TypeOK, r
<1>8. \A b \in Backend : fate'[b] = IF b = i THEN "delivered" ELSE fate[b]
  BY <1>1 DEF TypeOK
<1>9. Delivered' = Delivered \cup {i}  BY <1>1, <1>8 DEF Delivered
<1>10. BodyInv'
  <2>1. CASE acc.data = Nil
    <3>1. owner = Nil  BY <2>1 DEF BodyInv, HasBody
    <3>2. acc'.data = r  BY <1>6, <2>1
    <3>3. answer'[i].res = r  BY DEF r
    <3>4. QED  BY <1>7, <1>9, <3>1, <3>2, <3>3 DEF BodyInv
  <2>2. CASE acc.data # Nil
    <3> DEFINE both == CombineData(2, <<acc.data, r>>)
    <3>1. HasBody(both) /\ (both.complete <=> acc.data.complete /\ r.complete
                                               /\ HasBody(acc.data) /\ HasBody(r))
      BY <1>1, <1>2, <2>2, CombineExact
    <3>2. acc'.data = both  BY <1>6, <2>2
    <3> HIDE DEF both
    <3>3. ASSUME \A b \in Delivered' : answer'[b].res.complete /\ HasBody(answer'[b].res)
          PROVE  acc'.data.complete
      <4>1. r.complete /\ HasBody(r)  BY <1>9, <3>3 DEF r
      <4>2. acc.data.complete /\ HasBody(acc.data)
        BY <1>3, <1>9, <2>2, <3>3 DEF BodyInv
      <4>3. QED  BY <3>1, <3>2, <4>1, <4>2
    <3>4. QED  BY <3>1, <3>2, <3>3 DEF BodyInv
  <2>3. QED  BY <2>1, <2>2
<1>11. QED  BY <1>1, <1>5, <1>6, <1>7, <1>8, <1>10 DEF TypeOK, r

-----------------------------------------------------------------------------
(* Every action keeps the invariant. *)

LEMMA InitInv == Init => IInv
<1>1. SUFFICES ASSUME Init PROVE IInv  OBVIOUS
<1>2. 1 \in Backend /\ NewAccumulator(N) \in Accumulator
  BY NAssumption DEF Backend, NewAccumulator, Accumulator
<1>3. TypeOK  BY <1>1, <1>2, NAssumption DEF Init, TypeOK
<1>4. TurnInv  BY <1>1, NAssumption DEF Init, TurnInv, Backend
<1>5. PendingInv /\ BodyInv /\ ReplyInv
  BY <1>1, NAssumption DEF Init, PendingInv, BodyInv, ReplyInv, NewAccumulator, Delivered
<1>6. QED  BY <1>3, <1>4, <1>5 DEF IInv

LEMMA SkipKeeps ==
  ASSUME IInv, Skip
  PROVE  IInv'
<1> USE DEF IInv
<1>1. /\ i \in Backend /\ at = "turn" /\ at' = "turn" /\ i' = i + 1
      /\ i \in 1..N /\ N \in Nat
  BY FilteredAssumption, NAssumption DEF Skip, Backend
<1>2. /\ acc' = [acc EXCEPT !.pending = @ - 1]
      /\ acc.pending = N + 1 - i /\ acc.errs = <<>> /\ acc \in Accumulator
  BY <1>1 DEF Skip, PendingInv, TypeOK
<1>3. /\ acc' \in Accumulator /\ acc'.pending = N + 1 - i'
      /\ acc'.data = acc.data /\ acc'.errs = <<>>
  BY <1>1, <1>2 DEF Accumulator
<1>4. \A b \in Backend : fate'[b] = IF b = i THEN "skipped" ELSE fate[b]
  BY <1>1 DEF Skip, TypeOK
<1>5. UNCHANGED <<answer, owner, ctx, reply>>  BY DEF Skip
<1>6. TypeOK'
  <2>1. fate' \in [Backend -> {"open", "skipped", "delivered", "failed"}]
    BY DEF Skip, TypeOK
  <2>2. parts' \subseteq Backend  BY <1>1 DEF Skip, TypeOK
  <2>3. Replace  BY DEF Skip
  <2>4. QED  BY <1>1, <1>3, <1>5, <2>1, <2>2, <2>3, ReplaceType DEF TypeOK
<1>7. TurnInv'
  <2>1. \A b \in Backend : b < i' => b = i \/ b < i  BY <1>1 DEF Backend
  <2>2. \A b \in Backend : b >= i' => b > i  BY <1>1 DEF Backend
  <2>3. \A b \in Backend : b # i /\ Fine(b) => Fine(b)'  BY <1>4, <1>5 DEF Fine
  <2>4. \A b \in Backend : b < i => b # i  BY <1>1 DEF Backend
  <2>5. \A b \in Backend : b = i => Fine(b)'  BY <1>1, <1>4 DEF Fine
  <2>6. \A b \in Backend : b < i' => Fine(b)'
    BY <2>1, <2>3, <2>4, <2>5 DEF TurnInv
  <2>7. \A b \in Backend : b >= i' => fate'[b] = "open"
    BY <1>1, <1>4, <2>2 DEF TurnInv, Backend
  <2>8. QED  BY <1>1, <2>6, <2>7 DEF TurnInv, Backend
<1>8. Delivered' = Delivered
  BY <1>1, <1>4 DEF Delivered, TurnInv
<1>9. PendingInv' /\ BodyInv'
  BY <1>1, <1>2, <1>3, <1>5, <1>8 DEF PendingInv, BodyInv
<1>10. ReplyInv'  BY <1>1, <1>5 DEF ReplyInv
<1>11. QED  BY <1>6, <1>7, <1>9, <1>10

LEMMA AskKeeps ==
  ASSUME IInv, Ask
  PROVE  IInv'
<1> USE DEF IInv
<1>1. UNCHANGED <<i, parts, answer, owner, fate, ctx, acc, reply>>
  BY DEF Ask
<1>2. at = "turn" /\ at' = "call" /\ i \in Backend  BY DEF Ask
<1>3. Replace  BY DEF Ask
<1>4. TypeOK'  BY <1>1, <1>2, <1>3, ReplaceType DEF TypeOK
<1>5. TurnInv'
  BY <1>1, <1>2 DEF TurnInv, Fine
<1>6. Delivered' = Delivered  BY <1>1 DEF Delivered
<1>7. PendingInv' /\ BodyInv' /\ ReplyInv'
  BY <1>1, <1>2, <1>6 DEF PendingInv, BodyInv, ReplyInv
<1>8. QED  BY <1>4, <1>5, <1>7

LEMMA ProxyReturnsKeeps ==
  ASSUME IInv, ProxyReturns
  PROVE  IInv'
<1> USE DEF IInv
<1>1. /\ UNCHANGED <<i, parts, owner, params, registry, fate, ctx, acc, reply>>
      /\ at = "call" /\ at' = "select" /\ i \in Backend /\ fate[i] = "open"
  BY DEF ProxyReturns, TurnInv
<1>2. answer' \in [Backend -> [res : Response \cup {Nil}, err : BOOLEAN]]
  <2>1. Bodies(i) \subseteq Data \cup {Nil}
    BY <1>1, KeySetsAssumption DEF Bodies, Data
  <2>2. Answers(i) \subseteq [res : Response \cup {Nil}, err : BOOLEAN]
    BY <2>1 DEF Answers, Response
  <2>3. QED  BY <2>2 DEF ProxyReturns, TypeOK
<1>3. \A b \in Backend : b # i => answer'[b] = answer[b]
  BY DEF ProxyReturns, TypeOK
<1>4. TypeOK'  BY <1>1, <1>2 DEF TypeOK
<1>5. \A b \in Backend : Fine(b) => Fine(b)'
  BY <1>1, <1>3 DEF Fine
<1>6. TurnInv'  BY <1>1, <1>5 DEF TurnInv
<1>7. Delivered' = Delivered /\ i \notin Delivered /\ Delivered \subseteq Backend
  BY <1>1 DEF Delivered
<1>8. \A b \in Delivered : answer'[b] = answer[b]  BY <1>3, <1>7
<1>9. BodyInv'  BY <1>1, <1>7, <1>8 DEF BodyInv
<1>10. PendingInv' /\ ReplyInv'  BY <1>1 DEF PendingInv, ReplyInv
<1>11. QED  BY <1>4, <1>6, <1>9, <1>10

LEMMA FirstFailsKeeps ==
  ASSUME IInv, FirstFails
  PROVE  IInv'
<1> USE DEF IInv
<1>1. /\ UNCHANGED <<i, parts, answer, owner, params, registry, acc>>
      /\ at = "select" /\ i = 1 /\ at' = "returned" /\ ctx' = "ended"
      /\ reply' = [res |-> Nil, errs |-> <<i>>]
      /\ i \in Backend /\ i \in Error
  BY NAssumption DEF FirstFails, End, Backend, Error
<1>2. \A b \in Backend : fate'[b] = IF b = i THEN "failed" ELSE fate[b]
  BY <1>1 DEF FirstFails, TypeOK
<1>3. fate' \in [Backend -> {"open", "skipped", "delivered", "failed"}]
  BY DEF FirstFails, TypeOK
<1>4. reply' \in Reply  BY <1>1 DEF Reply
<1>5. TypeOK'  BY <1>1, <1>3, <1>4 DEF TypeOK
<1>6. TurnInv'  BY <1>1, <1>2, NAssumption DEF TurnInv, Backend
<1>7. Delivered' = Delivered  BY <1>1, <1>2 DEF Delivered, TurnInv
<1>8. BodyInv' /\ PendingInv'  BY <1>1, <1>7 DEF BodyInv, PendingInv
<1>9. reply' # Nil  BY <1>4, NilAssumption
<1>10. ReplyInv'  BY <1>1, <1>9 DEF ReplyInv
<1>11. QED  BY <1>5, <1>6, <1>8, <1>10

LEMMA LaterFailsKeeps ==
  ASSUME IInv, LaterFails
  PROVE  IInv'
<1> USE DEF IInv
<1>1. /\ UNCHANGED <<i, parts, answer, owner, params, registry, ctx, reply>>
      /\ at = "select" /\ at' = "result" /\ acc' = MergeError(acc, i)
      /\ i \in Backend /\ i \in Error /\ fate[i] = "open"
  BY NAssumption DEF LaterFails, TurnInv, Backend, Error
<1>2. acc \in Accumulator /\ acc.pending = N + 1 - i /\ acc.pending > 0 /\ acc.errs = <<>>
  BY <1>1, NAssumption DEF TypeOK, PendingInv, Backend
<1>3. acc' \in Accumulator  BY <1>1, <1>2, MergeErrorType
<1>4. /\ acc'.pending = N - i /\ acc'.errs # <<>>
      /\ acc'.data = Incomplete(acc.data)
  BY <1>1, <1>2, NAssumption DEF MergeError, Backend
<1>5. \A b \in Backend : fate'[b] = IF b = i THEN "failed" ELSE fate[b]
  BY <1>1 DEF LaterFails, TypeOK
<1>6. fate' \in [Backend -> {"open", "skipped", "delivered", "failed"}]
  BY DEF LaterFails, TypeOK
<1>7. TypeOK'  BY <1>1, <1>3, <1>6 DEF TypeOK
<1>8. TurnInv'
  <2>1. \A b \in Backend : b # i /\ Fine(b) => Fine(b)'  BY <1>1, <1>5 DEF Fine
  <2>2. \A b \in Backend : b < i \/ b > i => b # i  BY <1>1 DEF Backend
  <2>3. \A b \in Backend : b < i => Fine(b)'  BY <2>1, <2>2 DEF TurnInv
  <2>4. \A b \in Backend : b > i => fate'[b] = "open"  BY <1>5, <2>2 DEF TurnInv
  <2>5. Trouble(i)'  BY <1>1, <1>4, <1>5 DEF Trouble
  <2>6. QED  BY <1>1, <2>3, <2>4, <2>5 DEF TurnInv
<1>9. PendingInv'  BY <1>1, <1>4 DEF PendingInv
<1>10. BodyInv'
  <2>1. HasBody(acc.data) => HasBody(acc'.data)
    BY <1>2, <1>4, IncompleteKeeps DEF HasBody, Accumulator
  <2>2. QED  BY <1>1, <1>4, <2>1 DEF BodyInv
<1>11. ReplyInv'  BY <1>1 DEF ReplyInv
<1>12. QED  BY <1>7, <1>8, <1>9, <1>10, <1>11

LEMMA DeliversPartKeeps ==
  ASSUME IInv, DeliversPart
  PROVE  IInv'
<1> USE DEF IInv
<1>1. /\ UNCHANGED <<i, parts, answer, params, registry, ctx, reply>>
      /\ at = "select" /\ at' = "result" /\ ~answer[i].res.complete
      /\ GotResponse /\ MergeAnswer /\ fate' = [fate EXCEPT ![i] = "delivered"]
  BY DEF DeliversPart
<1>2. /\ i \in Backend /\ answer[i].res \in Response
      /\ acc' \in Accumulator /\ acc'.pending = N - i /\ acc'.errs = <<>>
      /\ owner' \in Backend \cup {Nil}
      /\ \A b \in Backend : fate'[b] = IF b = i THEN "delivered" ELSE fate[b]
      /\ fate' \in [Backend -> {"open", "skipped", "delivered", "failed"}]
      /\ BodyInv'
  BY <1>1, MergeStep
<1>3. TypeOK'  BY <1>1, <1>2 DEF TypeOK
<1>4. TurnInv'
  <2>1. \A b \in Backend : b # i /\ Fine(b) => Fine(b)'  BY <1>1, <1>2 DEF Fine
  <2>2. \A b \in Backend : b < i \/ b > i => b # i  BY <1>2 DEF Backend
  <2>3. \A b \in Backend : b < i => Fine(b)'  BY <2>1, <2>2 DEF TurnInv
  <2>4. \A b \in Backend : b > i => fate'[b] = "open"  BY <1>2, <2>2 DEF TurnInv
  <2>5. Trouble(i)'  BY <1>1, <1>2 DEF Trouble
  <2>6. QED  BY <1>1, <1>2, <2>3, <2>4, <2>5 DEF TurnInv
<1>5. PendingInv' /\ ReplyInv'  BY <1>1, <1>2 DEF PendingInv, ReplyInv
<1>6. QED  BY <1>2, <1>3, <1>4, <1>5

LEMMA DeliversKeeps ==
  ASSUME IInv, Delivers
  PROVE  IInv'
<1> USE DEF IInv
<1>1. /\ UNCHANGED <<answer, params, registry, ctx, reply>>
      /\ at = "select" /\ at' = "turn" /\ answer[i].res.complete
      /\ i' = i + 1 /\ parts' = parts \cup {i}
      /\ GotResponse /\ MergeAnswer /\ fate' = [fate EXCEPT ![i] = "delivered"]
  BY DEF Delivers
<1>2. /\ i \in Backend /\ answer[i].res \in Response
      /\ acc' \in Accumulator /\ acc'.pending = N - i /\ acc'.errs = <<>>
      /\ owner' \in Backend \cup {Nil}
      /\ \A b \in Backend : fate'[b] = IF b = i THEN "delivered" ELSE fate[b]
      /\ fate' \in [Backend -> {"open", "skipped", "delivered", "failed"}]
      /\ BodyInv'
  BY <1>1, MergeStep
<1>3. i \in 1..N /\ N \in Nat  BY <1>2, NAssumption DEF Backend
<1>4. TypeOK'  BY <1>1, <1>2, <1>3 DEF TypeOK
<1>5. TurnInv'
  <2>1. \A b \in Backend : b < i' => b = i \/ b < i  BY <1>1, <1>3 DEF Backend
  <2>2. \A b \in Backend : b >= i' => b > i /\ b # i  BY <1>1, <1>3 DEF Backend
  <2>3. \A b \in Backend : b # i /\ Fine(b) => Fine(b)'  BY <1>1, <1>2 DEF Fine
  <2>4. \A b \in Backend : b < i => b # i  BY <1>3 DEF Backend
  <2>5. \A b \in Backend : b = i => Fine(b)'  BY <1>1, <1>2 DEF Fine
  <2>6. \A b \in Backend : b < i' => Fine(b)'
    BY <2>1, <2>3, <2>4, <2>5 DEF TurnInv
  <2>7. \A b \in Backend : b >= i' => fate'[b] = "open"
    BY <1>2, <2>2 DEF TurnInv
  <2>8. QED  BY <1>1, <1>3, <2>6, <2>7 DEF TurnInv, Backend
<1>6. PendingInv' /\ ReplyInv'  BY <1>1, <1>2, <1>3 DEF PendingInv, ReplyInv
<1>7. QED  BY <1>2, <1>4, <1>5, <1>6

LEMMA ReturnKeeps ==
  ASSUME IInv, Return
  PROVE  IInv'
<1> USE DEF IInv
<1>1. /\ UNCHANGED <<i, parts, answer, owner, params, registry, fate, acc>>
      /\ at = "result" \/ (at = "turn" /\ i > N)
      /\ at' = "returned" /\ reply' = Result(acc) /\ ctx' = "ended"
  BY DEF Return, End
<1>2. reply' \in Reply /\ reply' # Nil
  BY <1>1, ResultType, NilAssumption DEF TypeOK
<1>3. TypeOK'  BY <1>1, <1>2 DEF TypeOK
<1>4. Delivered' = Delivered /\ (\A b \in Backend : Fine(b)' = Fine(b)) /\ Trouble(i)' = Trouble(i)
  BY <1>1 DEF Delivered, Fine, Trouble
<1>5. TurnInv'  BY <1>1, <1>4 DEF TurnInv
<1>6. PendingInv' /\ BodyInv'  BY <1>1, <1>4 DEF PendingInv, BodyInv
<1>7. \/ i = N + 1 /\ acc.pending = 0 /\ acc.errs = <<>>
      \/ i \in Backend /\ acc.pending = N - i /\ Trouble(i)
  <2>1. CASE at = "result"  BY <2>1 DEF TurnInv, PendingInv
  <2>2. CASE at = "turn" /\ i > N  BY <2>2, NAssumption DEF PendingInv, TypeOK
  <2>3. QED  BY <1>1, <2>1, <2>2
<1>8. ReplyInv'
  BY <1>1, <1>2, <1>4, <1>7 DEF ReplyInv, Result
<1>9. QED  BY <1>3, <1>5, <1>6, <1>8

LEMMA NextInv ==
  ASSUME IInv, [Next]_vars
  PROVE  IInv'
<1>1. CASE ContextEnds \/ UNCHANGED vars
  <2>1. /\ UNCHANGED <<at, i, parts, answer, owner, params, registry, fate, acc, reply>>
        /\ ctx' \in {"ended", ctx}
    BY <1>1 DEF ContextEnds, vars
  <2>2. TypeOK'  BY <2>1 DEF IInv, TypeOK
  <2>3. Delivered' = Delivered /\ (\A b : Fine(b)' = Fine(b)) /\ (\A b : Trouble(b)' = Trouble(b))
    BY <2>1 DEF Delivered, Fine, Trouble
  <2>4. QED
    BY <2>1, <2>2, <2>3 DEF IInv, TurnInv, PendingInv, BodyInv, ReplyInv, Result
<1>2. QED
  BY <1>1, SkipKeeps, AskKeeps, ProxyReturnsKeeps, FirstFailsKeeps, LaterFailsKeeps,
     DeliversPartKeeps, DeliversKeeps, ReturnKeeps
  DEF Next, Select, Terminated

-----------------------------------------------------------------------------
(* The theorems. *)

\* The inductive invariant holds at every turn of every request.
THEOREM Invariance == Spec => []IInv
<1>1. QED  BY InitInv, NextInv, PTL DEF Spec

\* The variables stay what the loop of merging.go:324-446 allows: no count goes
\* below zero, and every parameter copied is a value some backend wrote.
THEOREM TypeCorrect == Spec => []TypeOK
<1>1. IInv => TypeOK  BY DEF IInv
<1>2. QED  BY <1>1, Invariance, PTL

\* merging.go:424,428: no backend is asked after an error or an incomplete
\* response, for any number of backends and any filters.
THEOREM StopsAtFirstTroubleAlways == Spec => []StopsAtFirstTrouble
<1>1. IInv => StopsAtFirstTrouble
  <2>1. SUFFICES ASSUME IInv, NEW b \in Backend, fate[b] # "open" \/ i = b,
                        NEW c \in 1..b-1
                 PROVE  fate[c] = "skipped" \/ (fate[c] = "delivered" /\ answer[c].res.complete)
    BY DEF StopsAtFirstTrouble
  <2>2. b \in 1..N /\ i \in 1..N+1 /\ N \in Nat
    BY <2>1, NAssumption DEF Backend, IInv, TypeOK
  <2>3. b <= i  BY <2>1, <2>2 DEF IInv, TurnInv
  <2>4. c \in Backend /\ c < i  BY <2>1, <2>2, <2>3 DEF Backend
  <2>5. Fine(c)  BY <2>1, <2>4 DEF IInv, TurnInv
  <2>6. QED  BY <2>5 DEF Fine
<1>2. QED  BY <1>1, Invariance, PTL

-----------------------------------------------------------------------------
(* What the merged response holds under each key. *)

Holders(k) == {b \in Delivered : HasBody(answer[b].res) /\ k \in DOMAIN answer[b].res.data}

\* The values of a body name the backend it came from.
AnswerInv ==
  \A b \in Backend : HasBody(answer[b].res) =>
    \A k \in DOMAIN answer[b].res.data : answer[b].res.data[k] = b

\* The merged response holds the keys of all bodies merged so far, each with
\* the value of the last of its holders.
WriterInv ==
  /\ HasBody(acc.data) \/ \A b \in Delivered : ~HasBody(answer[b].res)
  /\ \A k : HasBody(acc.data) =>
       IF Holders(k) = {} THEN k \notin DOMAIN acc.data.data
       ELSE /\ k \in DOMAIN acc.data.data
            /\ acc.data.data[k] \in Holders(k)
            /\ \A b \in Holders(k) : b <= acc.data.data[k]

LEMMA InitWriters == Init => AnswerInv /\ WriterInv
BY DEF Init, AnswerInv, WriterInv, Holders, Delivered, HasBody, NewAccumulator

LEMMA AnswersKept ==
  ASSUME IInv, AnswerInv, [Next]_vars
  PROVE  AnswerInv'
<1>1. CASE ProxyReturns
  <2>1. i \in Backend /\ answer \in [Backend -> [res : Response \cup {Nil}, err : BOOLEAN]]
    BY <1>1 DEF IInv, TypeOK, TurnInv, ProxyReturns
  <2>2. PICK a \in Answers(i) : answer' = [answer EXCEPT ![i] = a]
    BY <1>1 DEF ProxyReturns
  <2>3. ASSUME HasBody(a.res), NEW k \in DOMAIN a.res.data PROVE a.res.data[k] = i
    <3>1. a.res \in [data : Bodies(i), complete : BOOLEAN]
      BY <2>3 DEF Answers, HasBody
    <3>2. a.res.data \in Bodies(i) /\ a.res.data # Nil  BY <2>3, <3>1 DEF HasBody
    <3>3. QED  BY <2>3, <3>2 DEF Bodies
  <2>4. \A b \in Backend : answer'[b] = IF b = i THEN a ELSE answer[b]  BY <2>1, <2>2
  <2>5. QED  BY <2>3, <2>4 DEF AnswerInv
<1>2. CASE ~ProxyReturns
  <2>1. UNCHANGED answer
    BY <1>2 DEF Next, vars, Skip, Ask, Select, FirstFails, LaterFails, DeliversPart, Delivers,
       Return, ContextEnds, Terminated
  <2>2. QED  BY <2>1 DEF AnswerInv
<1>3. QED  BY <1>1, <1>2

\* A merge leaves every key with its last holder.
LEMMA WriterStep ==
  ASSUME IInv, AnswerInv, WriterInv, at = "select", GotResponse, MergeAnswer, UNCHANGED answer,
         fate' = [fate EXCEPT ![i] = "delivered"]
  PROVE  WriterInv'
<1> DEFINE r == answer[i].res
           both == CombineData(2, <<acc.data, r>>)
           In(q, k) == HasBody(q) /\ k \in DOMAIN q.data
<1>1. /\ i \in Backend /\ r \in Response /\ r # Nil /\ acc' = MergeResponse(acc, r)
      /\ \A b \in Backend : fate'[b] = IF b = i THEN "delivered" ELSE fate[b]
  BY MergeStep, NilAssumption DEF MergeAnswer
<1>2. acc'.data = IF acc.data = Nil THEN r ELSE both
  BY <1>1 DEF MergeResponse
<1>3. Delivered' = Delivered \cup {i} /\ \A b \in Delivered : b \in Nat /\ b < i
  <2>1. \A b \in Backend : b > i => fate[b] = "open"  BY DEF IInv, TurnInv
  <2>2. fate[i] = "open"  BY <1>1 DEF IInv, TurnInv
  <2>3. \A b \in Backend : b \in Nat /\ (b < i \/ b = i \/ b > i)
    BY <1>1, NAssumption DEF Backend
  <2>4. QED  BY <1>1, <2>1, <2>2, <2>3 DEF Delivered
<1>4. ASSUME NEW k PROVE Holders(k)' = IF In(r, k) THEN Holders(k) \cup {i} ELSE Holders(k)
  BY <1>3 DEF Holders
<1>5. ASSUME NEW k, In(r, k) PROVE r.data[k] = i
  BY <1>1, <1>5 DEF AnswerInv
<1>6. acc.data # Nil => acc.data \in Response  BY DEF IInv, TypeOK, Accumulator
<1>7. ~HasBody(acc.data) => \A k : Holders(k) = {}
  BY DEF WriterInv, Holders
<1>8. HasBody(acc'.data) \/ \A b \in Delivered' : ~HasBody(answer'[b].res)
  <2>1. CASE acc.data = Nil
    <3>1. \A b \in Delivered : ~HasBody(answer[b].res)
      BY <2>1 DEF WriterInv, HasBody
    <3>2. acc'.data = r  BY <1>2, <2>1
    <3>3. QED  BY <1>3, <3>1, <3>2
  <2>2. CASE acc.data # Nil
    <3>1. HasBody(both)  BY <1>1, <1>6, <2>2, CombineExact
    <3>2. QED  BY <1>2, <2>2, <3>1
  <2>3. QED  BY <2>1, <2>2
<1>9. ASSUME HasBody(acc'.data), NEW k
      PROVE  IF Holders(k)' = {} THEN k \notin DOMAIN acc'.data.data
             ELSE /\ k \in DOMAIN acc'.data.data
                  /\ acc'.data.data[k] \in Holders(k)'
                  /\ \A b \in Holders(k)' : b <= acc'.data.data[k]
  <2>1. \A b \in Holders(k) : b \in Nat /\ b < i  BY <1>3 DEF Holders
  <2>2. i \in Nat  BY <1>1, NAssumption DEF Backend
  <2>3. CASE acc.data = Nil
    <3>1. acc'.data = r /\ Holders(k) = {}  BY <1>2, <1>7, <2>3 DEF HasBody
    <3>2. CASE k \in DOMAIN r.data
      <4>1. In(r, k)  BY <1>9, <3>1, <3>2
      <4>2. r.data[k] = i /\ Holders(k)' = {i}  BY <1>4, <1>5, <3>1, <4>1
      <4>3. QED  BY <2>2, <3>1, <3>2, <4>2
    <3>3. CASE k \notin DOMAIN r.data
      <4>1. Holders(k)' = {}  BY <1>4, <3>1, <3>3
      <4>2. QED  BY <3>1, <3>3, <4>1
    <3>4. QED  BY <3>2, <3>3
  <2>4. CASE acc.data # Nil
    <3>1. /\ k \in DOMAIN both.data <=> In(acc.data, k) \/ In(r, k)
          /\ k \in DOMAIN both.data =>
               both.data[k] = IF In(r, k) THEN r.data[k] ELSE acc.data.data[k]
      BY <1>1, <1>6, <2>4, CombineExact
    <3>2. acc'.data = both  BY <1>2, <2>4
    <3>3. In(acc.data, k) <=> Holders(k) # {}
      BY <1>7 DEF WriterInv
    <3>4. In(acc.data, k) => /\ acc.data.data[k] \in Holders(k)
                             /\ \A b \in Holders(k) : b <= acc.data.data[k]
      BY DEF WriterInv
    <3> HIDE DEF both, In, r
    <3>5. CASE In(r, k)
      <4>1. Holders(k)' = Holders(k) \cup {i}  BY <1>4, <3>5
      <4>2. k \in DOMAIN acc'.data.data /\ acc'.data.data[k] = i  BY <1>5, <3>1, <3>2, <3>5
      <4>3. \A b \in Holders(k)' : b <= i  BY <2>1, <2>2, <4>1
      <4>4. QED  BY <4>1, <4>2, <4>3
    <3>6. CASE ~In(r, k)
      <4>1. Holders(k)' = Holders(k)  BY <1>4, <3>6
      <4>2. CASE In(acc.data, k)
        <5>1. k \in DOMAIN acc'.data.data /\ acc'.data.data[k] = acc.data.data[k]
          BY <3>1, <3>2, <3>6, <4>2
        <5>2. QED  BY <3>3, <3>4, <4>1, <4>2, <5>1
      <4>3. CASE ~In(acc.data, k)  BY <3>1, <3>2, <3>3, <3>6, <4>1, <4>3
      <4>4. QED  BY <4>2, <4>3
    <3>7. QED  BY <3>5, <3>6
  <2>5. QED  BY <2>3, <2>4
<1>10. QED  BY <1>8, <1>9 DEF WriterInv

\* Only a merge delivers, and what was delivered stays as it is.
LEMMA DeliveredKept ==
  ASSUME IInv, [Next]_vars, ~(DeliversPart \/ Delivers)
  PROVE  Delivered' = Delivered /\ \A b \in Delivered : answer'[b] = answer[b]
<1> USE DEF IInv
<1>1. Delivered' = Delivered
  <2>1. i \in Backend /\ at \in {"turn", "select"} => fate[i] = "open"  BY DEF TurnInv
  <2>2. \/ UNCHANGED fate
        \/ /\ fate[i] = "open"
           /\ \E f \in {"skipped", "failed"} : fate' = [fate EXCEPT ![i] = f]
    BY <2>1, FilteredAssumption
    DEF Next, vars, Skip, Ask, ProxyReturns, Select, FirstFails, LaterFails, Return, End,
        ContextEnds, Terminated, TurnInv
  <2>3. CASE UNCHANGED fate  BY <2>3 DEF Delivered
  <2>4. ASSUME NEW f \in {"skipped", "failed"}, fate[i] = "open",
               fate' = [fate EXCEPT ![i] = f]
        PROVE  Delivered' = Delivered
    <3>1. \A b \in Backend : fate'[b] = IF b = i THEN f ELSE fate[b]  BY <2>4 DEF TypeOK
    <3>2. QED  BY <2>4, <3>1 DEF Delivered
  <2>5. QED  BY <2>2, <2>3, <2>4
<1>2. \A b \in Delivered : answer'[b] = answer[b]
  <2>1. CASE ProxyReturns
    <3>1. i \in Backend /\ i \notin Delivered  BY <2>1 DEF ProxyReturns, TurnInv, Delivered
    <3>2. \A b \in Backend : b # i => answer'[b] = answer[b]
      BY <2>1 DEF ProxyReturns, TypeOK
    <3>3. QED  BY <3>1, <3>2 DEF Delivered
  <2>2. CASE ~ProxyReturns
    BY <2>2 DEF Next, vars, Skip, Ask, Select, FirstFails, LaterFails, Return, End,
       ContextEnds, Terminated
  <2>3. QED  BY <2>1, <2>2
<1>3. QED  BY <1>1, <1>2

LEMMA WritersKept ==
  ASSUME IInv, AnswerInv, WriterInv, [Next]_vars
  PROVE  WriterInv'
<1> USE DEF IInv
<1>1. CASE DeliversPart \/ Delivers
  BY <1>1, WriterStep DEF DeliversPart, Delivers
\* No other action changes the merged body.
<1>2. CASE ~(DeliversPart \/ Delivers)
  <2>1. Delivered' = Delivered /\ \A b \in Delivered : answer'[b] = answer[b]
    BY <1>2, DeliveredKept
  <2>2. /\ HasBody(acc'.data) <=> HasBody(acc.data)
        /\ HasBody(acc.data) => acc'.data.data = acc.data.data
    <3>1. acc \in Accumulator  BY DEF TypeOK
    <3>2. acc'.data = acc.data \/ acc'.data = Incomplete(acc.data)
      <4>1. CASE LaterFails  BY <4>1 DEF LaterFails, MergeError
      <4>2. CASE Skip  BY <3>1, <4>2 DEF Skip, Accumulator
      <4>3. CASE ~LaterFails /\ ~Skip
        BY <1>2, <4>3 DEF Next, vars, Ask, ProxyReturns, Select, FirstFails, Return, End,
           ContextEnds, Terminated
      <4>4. QED  BY <4>1, <4>2, <4>3
    <3>3. QED  BY <3>1, <3>2, IncompleteKeeps DEF HasBody, Accumulator, Incomplete
  <2>3. \A k : Holders(k)' = Holders(k)  BY <2>1 DEF Holders
  <2>4. QED  BY <2>1, <2>2, <2>3 DEF WriterInv
<1>3. QED  BY <1>1, <1>2

\* merging.go:408-446: however the responses follow each other, the value under
\* a key is that of the last backend that delivered one, and none is lost.
THEOREM LastWriterWinsAlways == Spec => []LastWriterWins
<1>1. IInv /\ WriterInv => LastWriterWins
  <2>1. SUFFICES ASSUME IInv, WriterInv, reply # Nil, reply.res # Nil,
                        \E b \in Delivered : HasBody(answer[b].res)
                 PROVE  /\ HasBody(reply.res)
                        /\ \A k \in Keys :
                             IF Holders(k) = {} THEN k \notin DOMAIN reply.res.data
                             ELSE /\ reply.res.data[k] \in Holders(k)
                                  /\ \A b \in Holders(k) : b <= reply.res.data[k]
    BY DEF LastWriterWins, Holders
  <2>2. reply = Result(acc) /\ acc \in Accumulator  BY <2>1 DEF IInv, ReplyInv, TypeOK
  <2>3. HasBody(acc.data)  BY <2>1 DEF WriterInv
  <2>4. reply.res = acc.data \/ reply.res = Incomplete(acc.data)  BY <2>2 DEF Result
  <2>5. HasBody(reply.res) /\ reply.res.data = acc.data.data
    BY <2>2, <2>3, <2>4, IncompleteKeeps DEF HasBody, Accumulator
  <2>6. QED  BY <2>1, <2>3, <2>5 DEF WriterInv
<1>2. IInv /\ AnswerInv /\ WriterInv /\ [Next]_vars => (AnswerInv /\ WriterInv)'
  BY AnswersKept, WritersKept
<1>3. QED  BY <1>1, <1>2, InitWriters, Invariance, PTL DEF Spec

\* merging.go:332-407: the registry and the request hold the same texts, which
\* is why a later turn cannot send another one.
Registered == \A p \in Parameter : params[p] # Nil => registry[p] = params[p]

Stable ==
  \A p \in Parameter : params[p] # Nil =>
     \/ params'[p] = params[p]
     \/ params[p] = Empty /\ params'[p] # Nil

LEMMA RegistryKept ==
  ASSUME Registered, [Next]_vars
  PROVE  Registered' /\ Stable
<1> USE DEF Registered, Stable
<1>1. CASE Replace
  <2>1. Registered'  BY <1>1 DEF Replace
  <2>2. ASSUME NEW p \in Parameter, params[p] # Nil
        PROVE  params'[p] = params[p] \/ (params[p] = Empty /\ params'[p] # Nil)
    <3>1. params[p] # Empty => Copied(p) \in {Nil, params[p]}  BY <2>2 DEF Copied
    <3>2. params'[p] = IF p \in Replacements[i] /\ i > 1 /\ Copied(p) # Nil
                       THEN Copied(p) ELSE params[p]
      BY <1>1 DEF Replace
    <3>3. QED  BY <2>2, <3>1, <3>2
  <2>3. QED  BY <2>1, <2>2
<1>2. CASE ~Replace
  BY <1>2 DEF Next, vars, Skip, Ask, ProxyReturns, Select, FirstFails, LaterFails, DeliversPart,
     Delivers, Return, ContextEnds, Terminated
<1>3. QED  BY <1>1, <1>2

\* merging.go:332-407: no step changes the text of a parameter that was sent
\* and is not empty, or takes a parameter back, whatever is merged into the
\* response it came from.
THEOREM ParamsStableAlways == Spec => ParamsStable
<1>1. Init => Registered  BY DEF Init, Registered
<1>2. Registered /\ [Next]_vars => Registered' /\ [Stable]_vars  BY RegistryKept
<1>3. Spec => [][Stable]_vars  BY <1>1, <1>2, PTL DEF Spec
<1>4. QED  BY <1>3 DEF ParamsStable, Stable

-----------------------------------------------------------------------------
(* The refinement of InTurn: every turn settles the fate of one backend,   *)
(* and the reply is made of what the accumulator gathered.                 *)

AllComplete ==
  /\ \A b \in Delivered : answer[b].res.complete
  /\ (\E b, c \in Delivered : b # c) => \A b \in Delivered : HasBody(answer[b].res)

\* The response built so far is that of the backends that delivered so far,
\* and the only error that of the backend that ended the loop.
GatherInv ==
  /\ \A b \in Delivered : answer[b].res \in Response
  /\ acc.data = Nil <=> Delivered = {}
  /\ acc.data # Nil /\ ~HasBody(acc.data) =>
       \E b : Delivered = {b} /\ ~HasBody(answer[b].res)
  /\ HasBody(acc.data) => \A b : Delivered = {b} => HasBody(answer[b].res)
  /\ acc.data # Nil /\ acc.errs = <<>> => (acc.data.complete <=> AllComplete)
  /\ at = "result" => acc.errs = IF fate[i] = "failed" THEN <<i>> ELSE <<>>

LEMMA InitGather == Init => GatherInv
<1>1. SUFFICES ASSUME Init PROVE GatherInv  OBVIOUS
<1>2. Delivered = {} /\ acc.data = Nil /\ at = "turn"
  BY <1>1 DEF Init, Delivered, NewAccumulator
<1>3. QED  BY <1>2 DEF GatherInv, HasBody

\* A merge gathers the response merged.
LEMMA GatherStep ==
  ASSUME IInv, GatherInv, DeliversPart \/ Delivers
  PROVE  GatherInv'
<1> PICK r, both : r = answer[i].res /\ both = CombineData(2, <<acc.data, r>>)
  OBVIOUS
<1>1. /\ at = "select" /\ GotResponse /\ MergeAnswer /\ UNCHANGED answer
      /\ fate' = [fate EXCEPT ![i] = "delivered"]
      /\ at' = "result" => i' = i
  BY DEF DeliversPart, Delivers
<1>2. /\ i \in Backend /\ r \in Response /\ acc'.errs = <<>> /\ r # Nil
      /\ \A b \in Backend : fate'[b] = IF b = i THEN "delivered" ELSE fate[b]
  BY <1>1, MergeStep, NilAssumption
<1>3. acc'.data = IF acc.data = Nil THEN r ELSE both
  BY <1>1, <1>2 DEF MergeAnswer, MergeResponse
<1>4. fate[i] = "open" /\ acc.errs = <<>>
  BY <1>1, <1>2 DEF IInv, TurnInv, PendingInv
<1>5. Delivered' = Delivered \cup {i} /\ i \notin Delivered
  BY <1>2, <1>4 DEF Delivered
<1>6. \A b \in Delivered' : answer'[b].res \in Response
  BY <1>1, <1>2, <1>5 DEF GatherInv
<1>7. at' = "result" => acc'.errs = IF fate'[i'] = "failed" THEN <<i'>> ELSE <<>>
  BY <1>1, <1>2
<1>8. CASE acc.data = Nil
  <2>1. acc'.data = r /\ Delivered' = {i}  BY <1>3, <1>5, <1>8 DEF GatherInv
  <2>2. AllComplete' <=> r.complete  BY <1>1, <2>1 DEF AllComplete
  <2>3. HasBody(acc'.data) <=> HasBody(answer'[i].res)  BY <1>1, <2>1
  <2>4. \A b : Delivered' = {b} => b = i  BY <2>1
  <2>5. QED  BY <1>2, <1>6, <1>7, <2>1, <2>2, <2>3, <2>4 DEF GatherInv
<1>9. CASE acc.data # Nil
  <2>1. acc.data \in Response  BY <1>9 DEF IInv, TypeOK, Accumulator
  <2>2. /\ HasBody(both)
        /\ both.complete <=> acc.data.complete /\ r.complete /\ HasBody(acc.data) /\ HasBody(r)
    BY <1>2, <2>1, CombineExact
  <2>3. acc'.data = both /\ both # Nil  BY <1>3, <1>9, <2>2 DEF HasBody
  <2>4. PICK d : d \in Delivered  BY <1>9 DEF GatherInv
  <2>5. \E b, c \in Delivered' : b # c  BY <1>5, <2>4
  <2>6. AllComplete' <=> \A b \in Delivered \cup {i} :
                            answer[b].res.complete /\ HasBody(answer[b].res)
    BY <1>1, <1>5, <2>5 DEF AllComplete
  <2>7. acc.data.complete /\ HasBody(acc.data) <=>
          \A b \in Delivered : answer[b].res.complete /\ HasBody(answer[b].res)
    <3>1. acc.data.complete <=> AllComplete  BY <1>4, <1>9 DEF GatherInv
    <3>2. CASE \E b, c \in Delivered : b # c
      <4>1. HasBody(acc.data)
        <5>1. ~\E b : Delivered = {b}  BY <3>2
        <5>2. QED  BY <1>9, <5>1 DEF GatherInv
      <4>2. QED  BY <3>1, <3>2, <4>1 DEF AllComplete
    <3>3. CASE ~\E b, c \in Delivered : b # c
      <4>1. Delivered = {d}  BY <2>4, <3>3
      <4>2. HasBody(acc.data) <=> HasBody(answer[d].res)
        BY <1>9, <4>1 DEF GatherInv
      <4>3. AllComplete <=> answer[d].res.complete  BY <3>3, <4>1 DEF AllComplete
      <4>4. QED  BY <3>1, <4>1, <4>2, <4>3
    <3>4. QED  BY <3>2, <3>3
  <2>8. both.complete <=> AllComplete'  BY <2>2, <2>6, <2>7
  <2>9. ~\E b : Delivered' = {b}  BY <2>5
  <2>10. QED  BY <1>5, <1>6, <1>7, <2>2, <2>3, <2>8, <2>9 DEF GatherInv
<1>10. QED  BY <1>8, <1>9

LEMMA NextGather ==
  ASSUME IInv, GatherInv, [Next]_vars
  PROVE  GatherInv'
<1>1. CASE DeliversPart \/ Delivers  BY <1>1, GatherStep
<1>2. CASE ~(DeliversPart \/ Delivers)
  <2>1. Delivered' = Delivered /\ \A b \in Delivered : answer'[b] = answer[b]
    BY <1>2, DeliveredKept
  <2>2. AllComplete' = AllComplete  BY <2>1 DEF AllComplete
  <2>3. \A b : Delivered = {b} => b \in Delivered  OBVIOUS
  <2>4. CASE LaterFails
    <3>1. /\ at = "select" /\ acc' = MergeError(acc, i) /\ i' = i /\ fate'[i] = "failed"
      BY <2>4 DEF LaterFails, IInv, TypeOK, TurnInv
    <3>2. acc.errs = <<>> /\ acc \in Accumulator
      BY <3>1 DEF IInv, TypeOK, PendingInv
    <3>3. acc'.errs = <<i>> /\ acc'.data = Incomplete(acc.data)
      BY <3>1, <3>2 DEF MergeError
    <3>4. acc'.errs # <<>>  BY <3>3
    <3>5. /\ acc'.data = Nil <=> acc.data = Nil
          /\ HasBody(acc'.data) <=> HasBody(acc.data)
      BY <3>2, <3>3, IncompleteKeeps DEF HasBody, Accumulator, Incomplete
    <3>6. QED  BY <2>1, <2>3, <3>1, <3>3, <3>4, <3>5 DEF GatherInv
  <2>5. CASE ~LaterFails
    <3>1. acc'.data = acc.data /\ acc'.errs = acc.errs
      <4>1. CASE Skip  BY <4>1 DEF Skip, IInv, TypeOK, Accumulator
      <4>2. CASE ~Skip
        BY <1>2, <2>5, <4>2 DEF Next, vars, Ask, ProxyReturns, Select, FirstFails, Return, End,
           ContextEnds, Terminated
      <4>3. QED  BY <4>1, <4>2
    <3>2. at' = "result" => at = "result" /\ i' = i /\ fate' = fate
      BY <1>2, <2>5 DEF Next, vars, Skip, Ask, ProxyReturns, Select, FirstFails, Return, End,
         ContextEnds, Terminated
    <3>3. QED  BY <2>1, <2>2, <2>3, <3>1, <3>2 DEF GatherInv
  <2>6. QED  BY <2>4, <2>5
<1>3. QED  BY <1>1, <1>2

\* merging.go:324-446: a response is called complete exactly if every backend
\* was skipped or delivered a complete one, and none of several delivered ones
\* lacked a body, whichever backend ends the loop.
THEOREM CompleteMeansAllAskedAlways == Spec => []CompleteMeansAllAsked
<1> DEFINE AllFine == \A b \in Backend : \/ fate[b] = "skipped"
                                         \/ fate[b] = "delivered" /\ answer[b].res.complete
<1>1. IInv /\ GatherInv => CompleteMeansAllAsked
  <2>1. SUFFICES ASSUME IInv, GatherInv, reply # Nil, reply.res # Nil
                 PROVE  /\ reply.res.complete <=> AllFine /\ AllComplete
                        /\ reply.res.complete => reply.errs = <<>>
    BY DEF CompleteMeansAllAsked, AllComplete, Delivered
  <2>2. /\ reply = Result(acc) /\ acc \in Accumulator
        /\ \/ i = N + 1 /\ acc.pending = 0 /\ acc.errs = <<>>
           \/ i \in Backend /\ acc.pending = N - i /\ Trouble(i)
    BY <2>1 DEF IInv, ReplyInv, TypeOK
  <2>3. /\ reply.errs = acc.errs
        /\ reply.res = IF acc.pending > 0 \/ acc.errs # <<>>
                       THEN Incomplete(acc.data) ELSE acc.data
    BY <2>2 DEF Result
  <2>4. acc.data # Nil  BY <2>1, <2>3 DEF Incomplete
  <2>5. acc.errs = <<>> => (acc.data.complete <=> AllComplete)
    BY <2>1, <2>4 DEF GatherInv
  <2>6. reply.res.complete <=> acc.pending = 0 /\ acc.errs = <<>> /\ AllComplete
    <3>1. acc.pending \in 0..N  BY <2>2 DEF Accumulator
    <3>2. ~Incomplete(acc.data).complete  BY <2>4 DEF Incomplete
    <3>3. QED  BY <2>3, <2>5, <3>1, <3>2, NAssumption
  <2>7. ASSUME acc.pending = 0, acc.errs = <<>>, AllComplete PROVE AllFine
    <3>1. SUFFICES ASSUME NEW b \in Backend
                   PROVE  fate[b] \in {"skipped", "delivered"}
      BY <2>7 DEF AllComplete, Delivered
    <3>2. i = N + 1 \/ (i = N /\ fate[i] = "delivered")
      BY <2>2, <2>7, NAssumption DEF Backend, Trouble
    <3>3. b < i \/ (b = i /\ fate[i] = "delivered")
      BY <3>2, NAssumption DEF Backend
    <3>4. b < i => Fine(b)  BY <2>1 DEF IInv, TurnInv
    <3>5. QED  BY <3>3, <3>4 DEF Fine
  <2>8. ASSUME AllFine PROVE acc.pending = 0 /\ acc.errs = <<>>
    <3>1. ~(i \in Backend /\ Trouble(i))  BY <2>8 DEF Trouble
    <3>2. QED  BY <2>2, <3>1
  <2>9. QED  BY <2>3, <2>6, <2>7, <2>8
<1>2. Init => GatherInv  BY InitGather
<1>3. IInv /\ GatherInv /\ [Next]_vars => GatherInv'  BY NextGather
<1>4. QED  BY <1>1, <1>2, <1>3, Invariance, PTL DEF Spec

LEMMA InitPromise == Init => Promise!Init
<1>1. SUFFICES ASSUME Init PROVE Promise!Init  OBVIOUS
<1>2. Delivered = {}  BY <1>1 DEF Init, Delivered
<1>3. Gifts = [b \in Backend |-> Nil]  BY <1>2 DEF Gifts
<1>4. QED  BY <1>1, <1>3 DEF Init, Promise!Init, Promise!Backend, Backend

\* At the turn of backend i all before it are settled well.
LEMMA SettleMaps ==
  ASSUME IInv, i \in Backend, at \in {"turn", "select"}, NEW f,
         fate' = [fate EXCEPT ![i] = f]
  PROVE  Promise!Settle(i, f)
<1>1. reply = Nil /\ fate[i] = "open"  BY DEF IInv, ReplyInv, TurnInv
<1>2. ASSUME NEW c \in 1..i-1
      PROVE  fate[c] = "skipped" \/ (fate[c] = "delivered" /\ Gifts[c].complete)
  <2>1. c \in Backend /\ c < i  BY NAssumption DEF Backend
  <2>2. Fine(c)  BY <2>1 DEF IInv, TurnInv
  <2>3. fate[c] = "delivered" => Gifts[c] = answer[c].res  BY <2>1 DEF Gifts, Delivered
  <2>4. QED  BY <2>2, <2>3 DEF Fine
<1>3. QED  BY <1>1, <1>2 DEF Promise!Settle

\* Gifts change only with what is delivered.
LEMMA GiftsKept ==
  ASSUME Delivered' = Delivered, \A b \in Delivered : answer'[b] = answer[b]
  PROVE  Gifts' = Gifts
BY DEF Gifts

LEMMA DeliverMaps ==
  ASSUME IInv, GatherInv, DeliversPart \/ Delivers
  PROVE  Promise!Deliver(i) /\ i \in Backend
<1>1. /\ at = "select" /\ GotResponse /\ MergeAnswer /\ UNCHANGED <<answer, reply>>
      /\ fate' = [fate EXCEPT ![i] = "delivered"]
  BY DEF DeliversPart, Delivers
<1>2. /\ i \in Backend /\ answer[i].res \in Response
      /\ \A b \in Backend : fate'[b] = IF b = i THEN "delivered" ELSE fate[b]
  BY <1>1, MergeStep
<1>3. Delivered' = Delivered \cup {i}  BY <1>2 DEF Delivered
<1>4. Gifts' = [Gifts EXCEPT ![i] = answer[i].res]
  BY <1>1, <1>2, <1>3 DEF Gifts
<1>5. answer[i].res \in Promise!Response
  BY <1>2 DEF Promise!Response, Promise!Data, Promise!Backend, Response, Data, Backend
<1>6. Promise!Settle(i, "delivered")  BY <1>1, <1>2, SettleMaps
<1>7. QED  BY <1>1, <1>2, <1>4, <1>5, <1>6 DEF Promise!Deliver

\* The reply of a loop that ended with its last turn or with trouble.
LEMMA ReturnMaps ==
  ASSUME IInv, AnswerInv, WriterInv, GatherInv, Return
  PROVE  Promise!End
<1> PICK res, errs : res = Result(acc).res /\ errs = acc.errs
  OBVIOUS
<1>1. /\ UNCHANGED <<i, fate, answer, acc>> /\ reply = Nil
      /\ reply' = Result(acc) /\ reply'.res = res /\ reply'.errs = errs
      /\ acc \in Accumulator
      /\ at = "result" \/ (at = "turn" /\ i = N + 1)
  BY NAssumption DEF Return, End, Result, IInv, ReplyInv, TypeOK
<1>b. Promise!Backend = Backend /\ \A q : Promise!HasBody(q) <=> HasBody(q)
  BY DEF Promise!Backend, Backend, Promise!HasBody, HasBody
<1>2. Promise!With("delivered") = Delivered
  BY <1>b DEF Promise!With, Delivered
<1>3. \A b \in Delivered : Gifts[b] = answer[b].res /\ b \in Backend
  BY DEF Gifts, Delivered
<1>4. Delivered' = Delivered /\ Gifts' = Gifts  BY <1>1 DEF Delivered, Gifts
\* Which of the two ways the loop ended.
<1>5. \/ /\ i = N + 1 /\ acc.pending = 0 /\ errs = <<>>
         /\ \A b \in Backend : Fine(b)
      \/ /\ i \in Backend /\ Trouble(i) /\ errs = IF fate[i] = "failed" THEN <<i>> ELSE <<>>
         /\ \A b \in Backend : b # i => fate[b] # "failed"
  <2>1. CASE at = "result"
    <3>1. i \in Backend /\ Trouble(i) /\ errs = IF fate[i] = "failed" THEN <<i>> ELSE <<>>
      BY <2>1 DEF IInv, TurnInv, GatherInv
    <3>2. \A b \in Backend : b < i \/ b > i \/ b = i  BY <3>1, NAssumption DEF Backend
    <3>3. \A b \in Backend : b # i => fate[b] # "failed"
      BY <3>2 DEF IInv, TurnInv, Fine
    <3>4. QED  BY <3>1, <3>3
  <2>2. CASE at = "turn" /\ i = N + 1
    <3>1. acc.pending = 0 /\ errs = <<>>  BY <2>2, NAssumption DEF IInv, PendingInv
    <3>2. \A b \in Backend : b < i  BY <2>2, NAssumption DEF Backend
    <3>3. QED  BY <2>2, <3>1, <3>2 DEF IInv, TurnInv
  <2>3. QED  BY <1>1, <2>1, <2>2
<1>6. Promise!With("failed") = {} <=> errs = <<>>
  <2>1. CASE i \in Backend /\ fate[i] = "failed"
    <3>1. errs = <<i>> /\ errs # <<>>
      <4>1. errs = <<i>>  BY <1>5, <2>1 DEF Fine
      <4>2. QED  BY <4>1
    <3>2. QED  BY <1>b, <2>1, <3>1 DEF Promise!With
  <2>2. CASE ~(i \in Backend /\ fate[i] = "failed")
    <3>1. errs = <<>> /\ \A b \in Backend : fate[b] # "failed"
      BY <1>5, <2>2 DEF Fine
    <3>2. QED  BY <1>b, <3>1 DEF Promise!With
  <2>3. QED  BY <2>1, <2>2
<1>7. Promise!ErrorsOf(errs)
  <2>1. CASE i \in Backend /\ fate[i] = "failed"
    <3>1. errs = <<i>> /\ i \in Promise!With("failed")
      BY <1>5, <1>b, <2>1 DEF Fine, Promise!With
    <3>2. QED  BY <3>1 DEF Promise!ErrorsOf
  <2>2. CASE ~(i \in Backend /\ fate[i] = "failed")
    <3>1. errs = <<>>  BY <1>5, <2>2 DEF Fine
    <3>2. QED  BY <1>6, <3>1 DEF Promise!ErrorsOf
  <2>3. QED  BY <2>1, <2>2
<1>8. Promise!With("open") = {} \/ \E b \in Promise!Backend : Promise!Trouble(b)
  <2>1. CASE i \in Backend /\ Trouble(i)
    <3>1. fate[i] = "delivered" => i \in Delivered  BY <2>1 DEF Delivered
    <3>2. Promise!Trouble(i)  BY <1>3, <2>1, <3>1 DEF Trouble, Promise!Trouble
    <3>3. QED  BY <1>b, <2>1, <3>2
  <2>2. CASE \A b \in Backend : Fine(b)
    BY <1>b, <2>2 DEF Fine, Promise!With
  <2>3. QED  BY <1>5, <2>1, <2>2
<1>9. /\ res = Nil <=> acc.data = Nil
      /\ res # Nil => res.data = acc.data.data
      /\ HasBody(res) <=> HasBody(acc.data)
      /\ res # Nil => (res.complete <=> acc.pending = 0 /\ errs = <<>> /\ acc.data.complete)
  <2>1. res = IF acc.pending > 0 \/ errs # <<>> THEN Incomplete(acc.data) ELSE acc.data
    BY DEF Result
  <2>2. acc.data = Nil => res = Nil  BY <2>1 DEF Incomplete
  <2>3. acc.data # Nil => res # Nil /\ res.data = acc.data.data
    BY <1>1, <2>1, IncompleteKeeps DEF Accumulator
  <2>4. acc.pending > 0 \/ acc.pending = 0  BY <1>1, NAssumption DEF Accumulator
  <2>5. acc.data # Nil => ~Incomplete(acc.data).complete  BY DEF Incomplete
  <2>6. QED  BY <2>1, <2>2, <2>3, <2>4, <2>5 DEF HasBody
<1>10. ASSUME res # Nil
       PROVE  res.complete <=> /\ Promise!With("open") = {} /\ Promise!With("failed") = {}
                               /\ AllComplete
  <2>1. ASSUME errs = <<>>, AllComplete
        PROVE  acc.pending = 0 /\ Promise!With("open") = {}
    <3>1. ~(i \in Backend /\ Trouble(i))
      <4>1. fate[i] = "delivered" /\ i \in Backend => answer[i].res.complete
        BY <2>1 DEF AllComplete, Delivered
      <4>2. Trouble(i) => fate[i] = "delivered" /\ ~answer[i].res.complete
        BY <2>1 DEF Trouble
      <4>3. QED  BY <4>1, <4>2
    <3>2. acc.pending = 0 /\ \A b \in Backend : Fine(b)  BY <1>5, <3>1
    <3>3. QED  BY <1>b, <3>2 DEF Fine, Promise!With
  <2>2. errs = <<>> => (acc.data.complete <=> AllComplete)
    BY <1>9, <1>10 DEF GatherInv
  <2>3. QED  BY <1>6, <1>9, <1>10, <2>1, <2>2
<1>11. ASSUME NEW k
       PROVE  {b \in Delivered : Promise!HasBody(Gifts[b]) /\ k \in DOMAIN Gifts[b].data}
                = Holders(k)
  BY <1>b, <1>3 DEF Holders
<1>12. Promise!ResponseOf(res)
  <2>1. res = Nil <=> Delivered = {}  BY <1>9 DEF GatherInv
  <2>2. ASSUME HasBody(res)
        PROVE  /\ \A k \in Keys : k \in DOMAIN res.data <=> Holders(k) # {}
               /\ \A k \in DOMAIN res.data :
                     \E b \in Holders(k) : /\ res.data[k] = Gifts[b].data[k]
                                           /\ \A c \in Holders(k) : c <= b
    <3>1. HasBody(acc.data) /\ res.data = acc.data.data
      BY <1>9, <2>2 DEF HasBody
    <3>2. \A k : k \in DOMAIN res.data <=> Holders(k) # {}
      BY <3>1 DEF WriterInv
    <3>3. ASSUME NEW k \in DOMAIN res.data
          PROVE  \E b \in Holders(k) : /\ res.data[k] = Gifts[b].data[k]
                                        /\ \A c \in Holders(k) : c <= b
      <4>1. /\ res.data[k] \in Holders(k)
            /\ \A c \in Holders(k) : c <= res.data[k]
        BY <3>1, <3>2 DEF WriterInv
      <4>2. ASSUME NEW b \in Holders(k) PROVE Gifts[b].data[k] = b
        BY <1>3 DEF Holders, AnswerInv
      <4>3. QED  BY <4>1, <4>2
    <3>4. QED  BY <3>2, <3>3
  <2>3. ASSUME res # Nil, ~HasBody(res) PROVE ~\E b, c \in Delivered : b # c
    BY <1>9, <2>3 DEF GatherInv
  <2>4. AllComplete <=>
          /\ \A b \in Delivered : Gifts[b].complete
          /\ (\E b, c \in Delivered : b # c) => \A b \in Delivered : HasBody(Gifts[b])
    BY <1>3 DEF AllComplete
  <2>5. QED
    BY <1>b, <1>2, <1>10, <1>11, <2>1, <2>2, <2>3, <2>4 DEF Promise!ResponseOf
<1>13. Result(acc) \in Promise!Reply
  BY <1>1, ResultType
  DEF Promise!Reply, Promise!Response, Promise!Data, Promise!Error,
      Promise!Backend, Reply, Response, Data, Error, Backend
<1>14. QED  BY <1>1, <1>4, <1>7, <1>8, <1>12, <1>13 DEF Promise!End

LEMMA NextPromise ==
  ASSUME IInv, AnswerInv, WriterInv, GatherInv, [Next]_vars
  PROVE  [Promise!Next]_(Promise!vars)
<1>b. Promise!Backend = Backend  BY DEF Promise!Backend, Backend
<1>1. CASE DeliversPart \/ Delivers
  BY <1>1, <1>b, DeliverMaps DEF Promise!Next
<1>2. CASE Return  BY <1>2, ReturnMaps DEF Promise!Next
<1>3. CASE ~(DeliversPart \/ Delivers)
  <2>1. Gifts' = Gifts  BY <1>3, DeliveredKept, GiftsKept
  <2>2. CASE Skip
    <3>1. /\ i \in Backend /\ at = "turn" /\ fate' = [fate EXCEPT ![i] = "skipped"]
          /\ reply' = reply
      BY <2>2, FilteredAssumption DEF Skip
    <3>2. Promise!Skip(i)  BY <2>1, <3>1, SettleMaps DEF Promise!Skip
    <3>3. QED  BY <1>b, <3>1, <3>2 DEF Promise!Next
  <2>3. CASE FirstFails
    <3>1. /\ i = 1 /\ i \in Backend /\ at = "select" /\ fate' = [fate EXCEPT ![i] = "failed"]
          /\ reply' = [res |-> Nil, errs |-> <<i>>]
      BY <2>3, NAssumption DEF FirstFails, End, Backend
    <3>2. Promise!Settle(1, "failed")  BY <3>1, SettleMaps
    <3>3. Promise!FailAtOnce  BY <2>1, <3>1, <3>2 DEF Promise!FailAtOnce
    <3>4. QED  BY <3>3 DEF Promise!Next
  <2>4. CASE LaterFails
    <3>1. /\ i > 1 /\ i \in Backend /\ at = "select" /\ fate' = [fate EXCEPT ![i] = "failed"]
          /\ reply' = reply
      BY <2>4 DEF LaterFails, IInv, TurnInv
    <3>2. Promise!Fail(i)  BY <2>1, <3>1, SettleMaps DEF Promise!Fail
    <3>3. QED  BY <1>b, <3>1, <3>2 DEF Promise!Next
  <2>5. CASE Ask \/ ProxyReturns \/ ContextEnds \/ UNCHANGED vars
    <3>1. UNCHANGED <<fate, reply>>
      BY <2>5 DEF Ask, ProxyReturns, ContextEnds, vars
    <3>2. QED  BY <2>1, <3>1 DEF Promise!vars
  <2>6. QED
    BY <1>2, <1>3, <2>2, <2>3, <2>4, <2>5 DEF Next, Select, Terminated
<1>4. QED  BY <1>1, <1>3

\* merging.go:324-446 implements the promise of InTurn: backends are settled
\* one after the other, and the one reply is made of what they delivered.
THEOREM KeepsPromiseAlways == Spec => KeepsPromise
<1> DEFINE Inv == IInv /\ AnswerInv /\ WriterInv /\ GatherInv
<1>1. Init => Inv /\ Promise!Init
  BY InitInv, InitWriters, InitGather, InitPromise
<1>2. Inv /\ [Next]_vars => Inv'
  BY NextInv, AnswersKept, WritersKept, NextGather
<1>3. Inv /\ [Next]_vars => [Promise!Next]_(Promise!vars)
  BY NextPromise
<1> HIDE DEF Inv
<1>4. QED  BY <1>1, <1>2, <1>3, PTL DEF Spec, KeepsPromise, Promise!Spec

=============================================================================
