----------------------- MODULE ConcurrentCallsProofs -----------------------
(***************************************************************************)
(* Proofs about ConcurrentCalls, for every number of concurrent calls and  *)
(* whichever of them are deaf to their context.                            *)
(***************************************************************************)
EXTENDS ConcurrentCalls, FiniteSetTheorems, TLAPS

-----------------------------------------------------------------------------
(* A buffered channel is the sequence of those whose message is in it,     *)
(* each of them at most once.                                              *)

\* A sender that is not in the channel joins those who are.
LEMMA SendLemma ==
  ASSUME NEW S, NEW s \in Seq(S), NEW b \in S
  PROVE  /\ Append(s, b) \in Seq(S)
         /\ Range(Append(s, b)) = Range(s) \cup {b}
         /\ IsInjective(s) /\ b \notin Range(s) => IsInjective(Append(s, b))
<1> DEFINE t == Append(s, b)
<1>1. /\ t \in Seq(S) /\ Len(t) = Len(s) + 1 /\ Len(s) \in Nat
      /\ DOMAIN t = 1..Len(s) + 1 /\ DOMAIN s = 1..Len(s)
      /\ \A i \in 1..Len(s) : t[i] = s[i]
      /\ t[Len(s) + 1] = b
  OBVIOUS
<1> HIDE DEF t
<1>2. Range(t) = Range(s) \cup {b}
  <2>1. Range(t) \subseteq Range(s) \cup {b}
    <3>1. SUFFICES ASSUME NEW i \in DOMAIN t PROVE t[i] \in Range(s) \cup {b}
      BY DEF Range
    <3>2. i \in 1..Len(s) \/ i = Len(s) + 1  BY <1>1
    <3>3. QED  BY <3>2, <1>1 DEF Range
  <2>2. Range(s) \subseteq Range(t)
    <3>1. SUFFICES ASSUME NEW i \in DOMAIN s PROVE s[i] \in Range(t)
      BY DEF Range
    <3>2. i \in DOMAIN t /\ t[i] = s[i]  BY <1>1
    <3>3. QED  BY <3>2 DEF Range
  <2>3. b \in Range(t)
    <3>1. Len(s) + 1 \in DOMAIN t  BY <1>1
    <3>2. QED  BY <3>1, <1>1 DEF Range
  <2>4. QED  BY <2>1, <2>2, <2>3
<1>3. ASSUME IsInjective(s), b \notin Range(s) PROVE IsInjective(t)
  <2>1. SUFFICES ASSUME NEW i \in DOMAIN t, NEW j \in DOMAIN t, t[i] = t[j]
                 PROVE  i = j
    BY DEF IsInjective
  <2>2. \A k \in 1..Len(s) : s[k] \in Range(s)  BY <1>1 DEF Range
  <2>3. i \in 1..Len(s) \/ i = Len(s) + 1  BY <1>1
  <2>4. j \in 1..Len(s) \/ j = Len(s) + 1  BY <1>1
  <2>5. QED  BY <1>1, <1>3, <2>1, <2>2, <2>3, <2>4 DEF IsInjective
<1>4. QED  BY <1>1, <1>2, <1>3 DEF t

\* The receiver takes the oldest message and leaves the others.
LEMMA ReceiveLemma ==
  ASSUME NEW S, NEW s \in Seq(S), s # <<>>
  PROVE  /\ Head(s) \in S /\ Tail(s) \in Seq(S)
         /\ Range(s) = {Head(s)} \cup Range(Tail(s))
         /\ IsInjective(s) => IsInjective(Tail(s)) /\ Head(s) \notin Range(Tail(s))
<1> DEFINE t == Tail(s)
           h == Head(s)
<1>1. /\ h \in S /\ t \in Seq(S) /\ Len(s) \in Nat \ {0}
      /\ Len(t) = Len(s) - 1 /\ h = s[1]
      /\ DOMAIN s = 1..Len(s) /\ DOMAIN t = 1..Len(s) - 1
      /\ \A i \in 1..Len(s) - 1 : t[i] = s[i + 1]
  OBVIOUS
<1> HIDE DEF t, h
<1>2. Range(s) = {h} \cup Range(t)
  <2>1. Range(s) \subseteq {h} \cup Range(t)
    <3>1. SUFFICES ASSUME NEW i \in DOMAIN s PROVE s[i] = h \/ s[i] \in Range(t)
      BY DEF Range
    <3>2. CASE i = 1  BY <3>2, <1>1
    <3>3. CASE i # 1
      <4>1. i - 1 \in DOMAIN t /\ t[i - 1] = s[i]  BY <3>3, <1>1
      <4>2. QED  BY <4>1 DEF Range
    <3>4. QED  BY <3>2, <3>3
  <2>2. h \in Range(s)
    <3>1. 1 \in DOMAIN s  BY <1>1
    <3>2. QED  BY <3>1, <1>1 DEF Range
  <2>3. Range(t) \subseteq Range(s)
    <3>1. SUFFICES ASSUME NEW i \in DOMAIN t PROVE t[i] \in Range(s)
      BY DEF Range
    <3>2. i + 1 \in DOMAIN s /\ s[i + 1] = t[i]  BY <1>1
    <3>3. QED  BY <3>2 DEF Range
  <2>4. QED  BY <2>1, <2>2, <2>3
<1>3. ASSUME IsInjective(s) PROVE IsInjective(t) /\ h \notin Range(t)
  <2>1. IsInjective(t)
    <3>1. SUFFICES ASSUME NEW i \in DOMAIN t, NEW j \in DOMAIN t, t[i] = t[j]
                   PROVE  i = j
      BY DEF IsInjective
    <3>2. i + 1 \in DOMAIN s /\ j + 1 \in DOMAIN s /\ s[i + 1] = s[j + 1]
      BY <1>1, <3>1
    <3>3. i + 1 = j + 1  BY <3>2, <1>3 DEF IsInjective
    <3>4. QED  BY <3>3, <1>1
  <2>2. ASSUME NEW i \in DOMAIN t, t[i] = h PROVE FALSE
    <3>1. 1 \in DOMAIN s /\ i + 1 \in DOMAIN s /\ s[i + 1] = s[1]
      BY <1>1, <2>2
    <3>2. i + 1 = 1  BY <3>1, <1>3 DEF IsInjective
    <3>3. QED  BY <3>2, <1>1
  <2>3. QED  BY <2>1, <2>2 DEF Range
<1>4. QED  BY <1>1, <1>2, <1>3 DEF t, h

\* A channel holds as many messages as it has senders.
LEMMA LengthLemma ==
  ASSUME NEW S, IsFiniteSet(S), NEW s \in Seq(S), IsInjective(s)
  PROVE  /\ Range(s) \subseteq S /\ IsFiniteSet(Range(s))
         /\ Len(s) = Cardinality(Range(s))
         /\ Len(s) <= Cardinality(S)
         /\ \A b \in S : b \notin Range(s) => Len(s) < Cardinality(S)
<1>1. Len(s) \in Nat /\ DOMAIN s = 1..Len(s) /\ s \in [1..Len(s) -> S]
  OBVIOUS
<1>2. Range(s) \subseteq S  BY <1>1 DEF Range
<1>3. IsFiniteSet(Range(s)) /\ Cardinality(Range(s)) <= Cardinality(S)
  BY <1>2, FS_Subset
<1>4. Len(s) = Cardinality(Range(s))
  <2>1. s \in Bijection(1..Len(s), Range(s))
    <3>1. s \in [1..Len(s) -> Range(s)]  BY <1>1 DEF Range
    <3>2. IsInjective(s)  OBVIOUS
    <3>3. \A y \in Range(s) : \E x \in 1..Len(s) : s[x] = y  BY <1>1 DEF Range
    <3>4. QED  BY <3>1, <3>2, <3>3 DEF Bijection, Injection, Surjection
  <2>2. IsFiniteSet(1..Len(s)) /\ Cardinality(1..Len(s)) = Len(s)
    BY <1>1, FS_Interval
  <2>3. ExistsBijection(1..Len(s), Range(s))  BY <2>1 DEF ExistsBijection
  <2>4. QED  BY <2>2, <2>3, FS_Bijection
<1>5. ASSUME NEW b \in S, b \notin Range(s) PROVE Len(s) < Cardinality(S)
  <2>1. Cardinality(Range(s)) # Cardinality(S)  BY <1>2, <1>5, FS_Subset
  <2>2. Cardinality(S) \in Nat  BY FS_CardinalityType
  <2>3. QED  BY <2>1, <2>2, <1>1, <1>3, <1>4
<1>6. QED  BY <1>2, <1>3, <1>4, <1>5

-----------------------------------------------------------------------------
(* The calls. *)

LEMMA CallFinite == IsFiniteSet(Call) /\ Cardinality(Call) = N
BY NAssumption, FS_Interval DEF Call

LEMMA ReceivedFinite ==
  Received \subseteq Call /\ IsFiniteSet(Received) /\ Cardinality(Received) \in Nat
BY CallFinite, FS_Subset, FS_CardinalityType DEF Received

-----------------------------------------------------------------------------
(* What receiving and sending do to the channels. *)

LEMMA ReceiveResultReads ==
  ASSUME TypeOK, ChannelInv, ReceiveResult
  PROVE  /\ Head(results) \in Call \ Received
         /\ Received' = Received \cup {Head(results)}
         /\ call[Head(results)] = "sent" /\ Usable(Head(results))
         /\ IsInjective(Tail(results)) /\ Tail(results) \in Seq(Call)
         /\ Range(Tail(results)) \subseteq Range(results)
<1>1. results \in Seq(Call) /\ results # <<>>  BY DEF TypeOK, ReceiveResult
<1>2. /\ Head(results) \in Call /\ Tail(results) \in Seq(Call)
      /\ Range(results) = {Head(results)} \cup Range(Tail(results))
      /\ IsInjective(Tail(results)) /\ Head(results) \notin Range(Tail(results))
  BY <1>1, ReceiveLemma DEF ChannelInv
<1>3. call' = call /\ failed' = failed /\ results' = Tail(results)
  BY DEF ReceiveResult
<1>4. /\ call[Head(results)] = "sent" /\ Usable(Head(results))
      /\ Head(results) \notin Range(failed)
  BY <1>2 DEF ChannelInv
<1>5. QED  BY <1>2, <1>3, <1>4 DEF Received

LEMMA ReceiveErrorReads ==
  ASSUME TypeOK, ChannelInv, ReceiveError
  PROVE  /\ Head(failed) \in Call \ Received
         /\ Received' = Received \cup {Head(failed)}
         /\ IsInjective(Tail(failed)) /\ Tail(failed) \in Seq(Call)
         /\ Range(Tail(failed)) \subseteq Range(failed)
         /\ ~Usable(Head(failed))
<1>1. failed \in Seq(Call) /\ failed # <<>>  BY DEF TypeOK, ReceiveError
<1>2. /\ Head(failed) \in Call /\ Tail(failed) \in Seq(Call)
      /\ Range(failed) = {Head(failed)} \cup Range(Tail(failed))
      /\ IsInjective(Tail(failed)) /\ Head(failed) \notin Range(Tail(failed))
  BY <1>1, ReceiveLemma DEF ChannelInv
<1>3. call' = call /\ results' = results /\ failed' = Tail(failed)
  BY DEF ReceiveError
<1>4. /\ call[Head(failed)] = "sent" /\ ~Usable(Head(failed))
      /\ Head(failed) \notin Range(results)
  BY <1>2 DEF ChannelInv
<1>5. QED  BY <1>2, <1>3, <1>4 DEF Received

\* One more read makes one more received.
LEMMA OneMoreReceived ==
  ASSUME NEW c \in Call \ Received, Received' = Received \cup {c}
  PROVE  Cardinality(Received') = Cardinality(Received) + 1
BY ReceivedFinite, FS_AddElement

\* A step of a call reads nothing, and touches no call that has reported.
LEMMA CallStep ==
  ASSUME TypeOK, ChannelInv, NEW c \in Call,
         ProxyReturns(c) \/ SendError(c) \/ SendResult(c)
  PROVE  /\ call[c] \in {"calling", "holding"}
         /\ call'[c] \in {"holding", "sent"}
         /\ \A d \in Call \ {c} : call'[d] = call[d] /\ answer'[d] = answer[d]
         /\ Received' = Received
         /\ UNCHANGED <<main, index, parent, ctx, response, err, reply>>
<1>1. /\ call[c] \in {"calling", "holding"} /\ call'[c] \in {"holding", "sent"}
      /\ \A d \in Call \ {c} : call'[d] = call[d] /\ answer'[d] = answer[d]
      /\ UNCHANGED <<main, index, parent, ctx, response, err, reply>>
  BY DEF TypeOK, ProxyReturns, SendError, SendResult
<1>2. Received' = Received
  <2>1. CASE ProxyReturns(c)
    BY <2>1, <1>1 DEF TypeOK, ProxyReturns, Received
  <2>2. CASE SendError(c)
    <3>1. Range(failed') = Range(failed) \cup {c} /\ results' = results
      BY <2>2, SendLemma DEF SendError, TypeOK
    <3>2. QED  BY <3>1, <1>1 DEF Received
  <2>3. CASE SendResult(c)
    <3>1. Range(results') = Range(results) \cup {c} /\ failed' = failed
      BY <2>3, SendLemma DEF SendResult, TypeOK
    <3>2. QED  BY <3>1, <1>1 DEF Received
  <2>4. QED  BY <2>1, <2>2, <2>3
<1>3. QED  BY <1>1, <1>2

-----------------------------------------------------------------------------
(* Types. *)

LEMMA InitType == Init => TypeOK
BY NAssumption DEF Init, TypeOK, Answer, Call

LEMMA NextType ==
  ASSUME TypeOK, ChannelInv, [Next]_vars
  PROVE  TypeOK'
<1> USE DEF TypeOK
<1>n. N \in Nat /\ N > 1 /\ Call = 1..N  BY NAssumption DEF Call
<1>1. CASE Launch
  <2>1. index' \in 0..N+1  BY <1>1, <1>n DEF Launch
  <2>2. call' \in [Call -> {"idle", "calling", "holding", "sent"}]
    BY <1>1 DEF Launch
  <2>3. QED  BY <1>1, <2>1, <2>2 DEF Launch
<1>2. CASE StartCollecting  BY <1>2, <1>n DEF StartCollecting
<1>3. CASE ReceiveResult
  <2>1. Head(results) \in Call /\ Tail(results) \in Seq(Call)
    BY <1>3, ReceiveResultReads
  <2>2. CASE answer[Head(results)] = "complete"
    <3>1. reply' = [res |-> Head(results), err |-> Nil]
      BY <1>3, <2>2 DEF ReceiveResult, Return
    <3>2. QED  BY <1>3, <2>1, <2>2, <3>1 DEF ReceiveResult, Return
  <2>3. CASE answer[Head(results)] # "complete"
    <3>1. index' \in 0..N+1  BY <1>3, <1>n, <2>3 DEF ReceiveResult
    <3>2. QED  BY <1>3, <2>1, <2>3, <3>1 DEF ReceiveResult
  <2>4. QED  BY <2>2, <2>3
<1>4. CASE ReceiveError
  <2>1. Head(failed) \in Call /\ Tail(failed) \in Seq(Call)
    BY <1>4, ReceiveErrorReads
  <2>2. QED  BY <1>4, <1>n, <2>1 DEF ReceiveError
<1>5. CASE ParentDone  BY <1>5, <1>n DEF ParentDone
<1>6. CASE GiveUp  BY <1>6 DEF GiveUp, Return
<1>7. ASSUME NEW c \in Call, ProxyReturns(c) PROVE TypeOK'
  BY <1>7 DEF ProxyReturns
<1>8. ASSUME NEW c \in Call, SendError(c) PROVE TypeOK'
  BY <1>8, SendLemma DEF SendError, Answer
<1>9. ASSUME NEW c \in Call, SendResult(c) PROVE TypeOK'
  BY <1>9, SendLemma DEF SendResult
<1>10. CASE LocalTimeout \/ ParentEnds  BY <1>10 DEF LocalTimeout, ParentEnds
<1>11. CASE UNCHANGED vars  BY <1>11 DEF vars
<1>12. QED
  BY <1>1, <1>2, <1>3, <1>4, <1>5, <1>6, <1>7, <1>8, <1>9, <1>10, <1>11
  DEF Next, Main, Terminated

-----------------------------------------------------------------------------
(* No call is in a channel twice. *)

LEMMA InitChannel == Init => ChannelInv
BY DEF Init, ChannelInv, IsInjective, Range

LEMMA NextChannel ==
  ASSUME TypeOK, ChannelInv, CountInv, [Next]_vars
  PROVE  ChannelInv'
<1> USE DEF ChannelInv
<1>1. CASE Launch
  <2>1. index \in Call /\ call[index] = "idle"
    BY <1>1, NAssumption DEF Launch, CountInv, TypeOK, Call
  <2>2. index \notin Range(results) \cup Range(failed)  BY <2>1
  <2>3. QED  BY <1>1, <2>2 DEF Launch, TypeOK, Usable
<1>2. CASE StartCollecting  BY <1>2 DEF StartCollecting, Usable
<1>3. CASE ReceiveResult
  BY <1>3, ReceiveResultReads DEF ReceiveResult, Usable
<1>4. CASE ReceiveError
  BY <1>4, ReceiveErrorReads DEF ReceiveError, Usable
<1>5. CASE ParentDone  BY <1>5 DEF ParentDone, Usable
<1>6. CASE GiveUp  BY <1>6 DEF GiveUp, Usable
<1>7. ASSUME NEW c \in Call, ProxyReturns(c) PROVE ChannelInv'
  <2>1. c \notin Range(results) \cup Range(failed)  BY <1>7 DEF ProxyReturns
  <2>2. \A d \in Range(results) \cup Range(failed) :
           call'[d] = call[d] /\ answer'[d] = answer[d]
    BY <1>7, <2>1, CallFinite, LengthLemma DEF ProxyReturns, TypeOK
  <2>3. QED  BY <1>7, <2>2 DEF ProxyReturns, Usable
<1>8. ASSUME NEW c \in Call, SendError(c) PROVE ChannelInv'
  <2>1. c \notin Range(results) \cup Range(failed)  BY <1>8 DEF SendError
  <2>2. Range(failed') = Range(failed) \cup {c} /\ IsInjective(failed')
    BY <1>8, <2>1, SendLemma DEF SendError, TypeOK
  <2>3. /\ call'[c] = "sent" /\ answer'[c] = "error"
        /\ \A d \in Range(results) \cup Range(failed) :
              call'[d] = call[d] /\ answer'[d] = answer[d]
    BY <1>8, <2>1, CallFinite, LengthLemma DEF SendError, TypeOK
  <2>4. QED  BY <1>8, <2>1, <2>2, <2>3 DEF SendError, Usable
<1>9. ASSUME NEW c \in Call, SendResult(c) PROVE ChannelInv'
  <2>1. c \notin Range(results) \cup Range(failed)  BY <1>9 DEF SendResult
  <2>2. Range(results') = Range(results) \cup {c} /\ IsInjective(results')
    BY <1>9, <2>1, SendLemma DEF SendResult, TypeOK
  <2>3. /\ call'[c] = "sent"
        /\ \A d \in Range(results) \cup Range(failed) : call'[d] = call[d]
    BY <1>9, <2>1 DEF SendResult, TypeOK
  <2>4. QED  BY <1>9, <2>1, <2>2, <2>3 DEF SendResult, Usable
<1>10. CASE LocalTimeout \/ ParentEnds
  BY <1>10 DEF LocalTimeout, ParentEnds, Usable
<1>11. CASE UNCHANGED vars  BY <1>11 DEF vars, Usable
<1>12. QED
  BY <1>1, <1>2, <1>3, <1>4, <1>5, <1>6, <1>7, <1>8, <1>9, <1>10, <1>11
  DEF Next, Main, Terminated

-----------------------------------------------------------------------------
(* The loop variable counts the reports read. *)

LEMMA InitCount == Init => CountInv
BY DEF Init, CountInv, Received

LEMMA NextCount ==
  ASSUME TypeOK, ChannelInv, CountInv, [Next]_vars
  PROVE  CountInv'
<1> USE DEF CountInv
<1>n. N \in Nat /\ N > 1 /\ Call = 1..N /\ Nil \notin Call
  BY NAssumption, NilAssumption DEF Call
<1>t. index \in 0..N+1 /\ main \in {"launch", "collect", "returned"}
  BY DEF TypeOK
<1>1. CASE Launch
  <2>1. index \in Call /\ call[index] = "idle"  BY <1>1, <1>n, <1>t DEF Launch
  <2>2. Received' = Received  BY <1>1, <2>1 DEF Launch, TypeOK, Received
  <2>3. \A c \in Call : c >= index' => call'[c] = "idle"
    BY <1>1, <1>n, <1>t DEF Launch, TypeOK
  <2>4. QED  BY <1>1, <1>n, <1>t, <2>2, <2>3 DEF Launch
<1>2. CASE StartCollecting
  <2>1. Received' = {}  BY <1>2 DEF StartCollecting, Received
  <2>2. QED  BY <1>2, <1>n, <2>1, FS_EmptySet DEF StartCollecting
<1>3. CASE ReceiveResult
  <2>1. Head(results) \in Call /\ Cardinality(Received') = Cardinality(Received) + 1
    BY <1>3, ReceiveResultReads, OneMoreReceived
  <2>2. CASE answer[Head(results)] = "complete"
    BY <1>3, <2>2 DEF ReceiveResult, Return
  <2>3. CASE answer[Head(results)] # "complete"
    <3>1. /\ main' = "collect" /\ main = "collect" /\ index < N
          /\ index' = index + 1 /\ parent' = parent
          /\ response' = Head(results)
      BY <1>3, <2>3 DEF ReceiveResult
    <3>2. QED  BY <3>1, <2>1, <1>n, <1>t
  <2>4. QED  BY <2>2, <2>3
<1>4. CASE ReceiveError
  <2>1. Head(failed) \in Call /\ Cardinality(Received') = Cardinality(Received) + 1
    BY <1>4, ReceiveErrorReads, OneMoreReceived
  <2>2. /\ main' = "collect" /\ main = "collect" /\ index < N
        /\ index' = index + 1 /\ parent' = parent
        /\ err' = Head(failed)
    BY <1>4 DEF ReceiveError
  <2>3. QED  BY <2>1, <2>2, <1>n, <1>t
<1>5. CASE ParentDone  BY <1>5, <1>n, <1>t DEF ParentDone
<1>6. CASE GiveUp  BY <1>6 DEF GiveUp, Return
<1>7. ASSUME NEW c \in Call,
             ProxyReturns(c) \/ SendError(c) \/ SendResult(c)
      PROVE  CountInv'
  <2>1. /\ Received' = Received
        /\ UNCHANGED <<main, index, parent, response, err>>
        /\ \A d \in Call : call[d] = "idle" => call'[d] = "idle"
    BY <1>7, CallStep
  <2>2. QED  BY <2>1
<1>8. CASE LocalTimeout \/ ParentEnds
  <2>1. Received' = Received  BY <1>8 DEF LocalTimeout, ParentEnds, Received
  <2>2. QED  BY <1>8, <2>1 DEF LocalTimeout, ParentEnds
<1>9. CASE UNCHANGED vars
  <2>1. Received' = Received  BY <1>9 DEF vars, Received
  <2>2. QED  BY <1>9, <2>1 DEF vars
<1>10. QED
  BY <1>1, <1>2, <1>3, <1>4, <1>5, <1>6, <1>7, <1>8, <1>9
  DEF Next, Main, Terminated
-----------------------------------------------------------------------------
(* What is kept as the response was delivered, and the reply fits it. *)

LEMMA InitResponse == Init => ResponseInv /\ ErrorXorSuccess
BY DEF Init, ResponseInv, ErrorXorSuccess

LEMMA NextResponse ==
  ASSUME TypeOK, ChannelInv, CountInv, ResponseInv, ErrorXorSuccess, [Next]_vars
  PROVE  ResponseInv' /\ ErrorXorSuccess'
<1> USE DEF ResponseInv, ErrorXorSuccess
<1>n. N \in Nat /\ N > 1 /\ Call = 1..N  BY NAssumption DEF Call
<1>1. CASE Launch
  <2>1. response = Nil /\ reply = Nil  BY <1>1 DEF Launch, CountInv
  <2>2. QED  BY <1>1, <2>1 DEF Launch
<1>2. CASE StartCollecting
  BY <1>2 DEF StartCollecting, CountInv
<1>3. CASE ReceiveResult
  <2> DEFINE h == Head(results)
  <2>1. h \in Call /\ call[h] = "sent" /\ Usable(h)
    BY <1>3, ReceiveResultReads
  <2>2. /\ main = "collect" /\ reply = Nil /\ response' = h
        /\ UNCHANGED <<call, answer, parent>>
    BY <1>3 DEF ReceiveResult
  <2>3. CASE answer[h] = "complete"
    <3>1. main' = "returned" /\ reply' = [res |-> h, err |-> Nil]
      BY <1>3, <2>3 DEF ReceiveResult, Return
    <3>2. reply'.res = h /\ reply'.err = Nil  BY <3>1
    <3> HIDE DEF h
    <3>3. ResponseInv'  BY <2>1, <2>2, <3>1, <3>2 DEF Usable
    <3>4. answer'[h] \in {"complete", "incomplete"}  BY <2>1, <2>2 DEF Usable
    <3>5. h # Nil  BY <2>1, NilAssumption
    <3>6. ErrorXorSuccess'  BY <3>2, <3>4, <3>5 DEF Usable
    <3>7. QED  BY <3>3, <3>6
  <2>4. CASE answer[h] # "complete"
    <3>1. main' = main /\ reply' = reply  BY <1>3, <2>4 DEF ReceiveResult
    <3>2. QED  BY <2>1, <2>2, <2>4, <3>1 DEF Usable
  <2>5. QED  BY <2>3, <2>4
<1>4. CASE ReceiveError  BY <1>4 DEF ReceiveError, Usable
<1>5. CASE ParentDone  BY <1>5 DEF ParentDone, Usable
<1>6. CASE GiveUp
  <2>1. /\ main = "collect" /\ index = N /\ main' = "returned"
        /\ reply' = [res |-> response, err |-> err]
        /\ UNCHANGED <<call, answer, parent, response, err>>
    BY <1>6 DEF GiveUp, Return
  <2>2. reply'.res = response /\ reply'.err = err  BY <2>1
  <2>3. parent = "live" => response # Nil \/ err # Nil
    BY <2>1, <1>n DEF CountInv
  <2>4. /\ response # Nil => /\ call[response] = "sent" /\ Usable(response)
                             /\ answer[response] # "complete"
        /\ \A c : Usable(c)' <=> Usable(c)
    BY <2>1 DEF Usable
  <2>5. ResponseInv'  BY <2>1, <2>2, <2>4
  <2>6. ErrorXorSuccess'  BY <2>1, <2>2, <2>3, <2>4
  <2>7. QED  BY <2>5, <2>6
<1>7. ASSUME NEW c \in Call,
             ProxyReturns(c) \/ SendError(c) \/ SendResult(c)
      PROVE  ResponseInv' /\ ErrorXorSuccess'
  <2>1. /\ call[c] # "sent"
        /\ \A d \in Call \ {c} : call'[d] = call[d] /\ answer'[d] = answer[d]
        /\ UNCHANGED <<main, parent, response, err, reply>>
    BY <1>7, CallStep
  <2>2. response # Nil => response \in Call \ {c}
    BY <2>1 DEF TypeOK
  <2>3. reply # Nil /\ reply.res # Nil => reply.res \in Call \ {c}
    BY <2>1 DEF TypeOK
  <2>4. QED  BY <2>1, <2>2, <2>3 DEF Usable
<1>8. CASE LocalTimeout \/ ParentEnds
  BY <1>8 DEF LocalTimeout, ParentEnds, Usable
<1>9. CASE UNCHANGED vars  BY <1>9 DEF vars, Usable
<1>10. QED
  BY <1>1, <1>2, <1>3, <1>4, <1>5, <1>6, <1>7, <1>8, <1>9
  DEF Next, Main, Terminated

-----------------------------------------------------------------------------
(* What the loop holds comes from the calls it has read. *)

LEMMA InitReport == Init => ReportInv
BY DEF Init, ReportInv

LEMMA NextReport ==
  ASSUME IInv, ReportInv, [Next]_vars
  PROVE  ReportInv'
<1> USE DEF IInv, ReportInv
<1>1. CASE Launch  BY <1>1 DEF Launch
<1>2. CASE StartCollecting
  <2>1. response' = Nil /\ err' = Nil /\ Received' = {}
    BY <1>2 DEF StartCollecting, CountInv, Received
  <2>2. QED  BY <2>1
<1>3. CASE ReceiveResult
  <2>1. SUFFICES ASSUME main' = "collect" PROVE ReportInv'
    OBVIOUS
  <2> PICK h : h = Head(results)
    OBVIOUS
  <2>2. /\ h \in Call \ Received /\ Received' = Received \cup {h} /\ Usable(h)
    BY <1>3, ReceiveResultReads
  <2>3. answer[h] # "complete"  BY <1>3, <2>1 DEF ReceiveResult, Return
  <2>4. answer[h] = "incomplete"  BY <2>2, <2>3 DEF Usable
  <2>5. /\ main = "collect" /\ response' = h /\ err' = err /\ answer' = answer
    BY <1>3 DEF ReceiveResult
  <2>6. h # Nil  BY <2>2, NilAssumption
  <2>7. QED  BY <2>2, <2>4, <2>5, <2>6 DEF Usable
<1>4. CASE ReceiveError
  <2> PICK h : h = Head(failed)
    OBVIOUS
  <2>1. h \in Call \ Received /\ Received' = Received \cup {h} /\ ~Usable(h)
    BY <1>4, ReceiveErrorReads
  <2>2. /\ main = "collect" /\ err' = h /\ response' = response /\ answer' = answer
    BY <1>4 DEF ReceiveError
  <2>3. h # Nil  BY <2>1, NilAssumption
  <2>4. QED  BY <2>1, <2>2, <2>3 DEF Usable
<1>5. CASE ParentDone
  <2>1. Received' = Received  BY <1>5 DEF ParentDone, Received
  <2>2. QED  BY <1>5, <2>1 DEF ParentDone, Usable
<1>6. CASE GiveUp  BY <1>6 DEF GiveUp, Return
<1>7. ASSUME NEW c \in Call,
             ProxyReturns(c) \/ SendError(c) \/ SendResult(c)
      PROVE  ReportInv'
  <2>1. /\ c \notin Received /\ Received' = Received
        /\ \A d \in Call \ {c} : answer'[d] = answer[d]
        /\ UNCHANGED <<main, response, err>>
    BY <1>7, CallStep DEF Received
  <2>2. Received \subseteq Call \ {c}  BY <2>1, ReceivedFinite
  <2>3. QED  BY <2>1, <2>2 DEF Usable
<1>8. CASE LocalTimeout \/ ParentEnds
  <2>1. Received' = Received  BY <1>8 DEF LocalTimeout, ParentEnds, Received
  <2>2. QED  BY <1>8, <2>1 DEF LocalTimeout, ParentEnds, Usable
<1>9. CASE UNCHANGED vars
  <2>1. Received' = Received  BY <1>9 DEF vars, Received
  <2>2. QED  BY <1>9, <2>1 DEF vars, Usable
<1>10. QED
  BY <1>1, <1>2, <1>3, <1>4, <1>5, <1>6, <1>7, <1>8, <1>9
  DEF Next, Main, Terminated

-----------------------------------------------------------------------------
(* The steps of the promise. *)

LEMMA InitPromise == Init => Promise!Init
<1>1. SUFFICES ASSUME Init PROVE Promise!Init  OBVIOUS
<1>2. Received = {}  BY <1>1 DEF Init, Received
<1>3. Fates = [c \in Call |-> "open"]  BY <1>2 DEF Fates, FateOf
<1>4. QED  BY <1>1, <1>3 DEF Init, Promise!Init

\* A step that reads no report changes no fate.
LEMMA FatesKept ==
  ASSUME TypeOK, Received' = Received,
         \A c \in Received : answer'[c] = answer[c]
  PROVE  Fates' = Fates
<1>1. \A c \in Call : FateOf(c)' = FateOf(c)  BY DEF FateOf
<1>2. QED  BY <1>1 DEF Fates

\* A report read settles the fate of its call.
LEMMA FateSettled ==
  ASSUME TypeOK, NEW c \in Call \ Received, Received' = Received \cup {c},
         answer' = answer
  PROVE  /\ Fates[c] = "open"
         /\ Fates' = [Fates EXCEPT ![c] = FateOf(c)']
<1>1. Fates[c] = "open"  BY DEF Fates, FateOf
<1>2. ASSUME NEW d \in Call, d # c PROVE FateOf(d)' = FateOf(d)
  BY <1>2 DEF FateOf
<1>3. Fates' = [d \in Call |-> FateOf(d)']  BY DEF Fates
<1>4. QED  BY <1>1, <1>2, <1>3 DEF Fates

\* concurrent.go:50-54
LEMMA ResultMaps ==
  ASSUME IInv, ReceiveResult
  PROVE  \E c \in Call : Promise!Win(c) \/ Promise!FallShort(c)
<1> PICK h : h = Head(results)
  OBVIOUS
<1>1. h \in Call \ Received /\ Received' = Received \cup {h} /\ Usable(h)
  BY ReceiveResultReads DEF IInv
<1>2. reply = Nil /\ answer' = answer /\ parent' = parent
  BY DEF ReceiveResult, IInv, ResponseInv
<1>3. CASE answer[h] = "complete"
  <2>1. reply' = [res |-> h, err |-> Nil]
    BY <1>3 DEF ReceiveResult, Return
  <2>2. FateOf(h)' = "won"  BY <1>1, <1>2, <1>3 DEF FateOf
  <2>3. Fates[h] = "open" /\ Fates' = [Fates EXCEPT ![h] = "won"]
    BY <1>1, <1>2, <2>2, FateSettled DEF IInv
  <2>4. Promise!Win(h)
    BY <1>2, <2>1, <2>3 DEF Promise!Win, Promise!Report
  <2>5. QED  BY <1>1, <2>4
<1>4. CASE answer[h] # "complete"
  <2>1. reply' = Nil  BY <1>2, <1>4 DEF ReceiveResult
  <2>2. answer[h] = "incomplete"  BY <1>1, <1>4 DEF Usable
  <2>3. FateOf(h)' = "short"  BY <1>1, <1>2, <2>1, <2>2 DEF FateOf
  <2>4. Fates[h] = "open" /\ Fates' = [Fates EXCEPT ![h] = "short"]
    BY <1>1, <1>2, <2>1, <2>3, FateSettled DEF IInv
  <2>5. Promise!FallShort(h)
    BY <1>2, <2>1, <2>4 DEF Promise!FallShort, Promise!Report
  <2>6. QED  BY <1>1, <2>5
<1>5. QED  BY <1>3, <1>4

\* concurrent.go:55
LEMMA ErrorMaps ==
  ASSUME IInv, ReceiveError
  PROVE  \E c \in Call : Promise!Fail(c)
<1> PICK h : h = Head(failed)
  OBVIOUS
<1>1. h \in Call \ Received /\ Received' = Received \cup {h} /\ ~Usable(h)
  BY ReceiveErrorReads DEF IInv
<1>2. reply = Nil /\ reply' = Nil /\ answer' = answer /\ parent' = parent
  BY DEF ReceiveError, IInv, ResponseInv
<1>3. Fates[h] = "open" /\ Fates' = [Fates EXCEPT ![h] = FateOf(h)']
  BY <1>1, <1>2, FateSettled DEF IInv
<1>4. FateOf(h)' = "failed"  BY <1>1, <1>2 DEF FateOf, Usable
<1>5. Promise!Fail(h)
  BY <1>2, <1>3, <1>4 DEF Promise!Fail, Promise!Report
<1>6. QED  BY <1>1, <1>5

\* concurrent.go:59-60
LEMMA GiveUpMaps ==
  ASSUME IInv, ReportInv, GiveUp
  PROVE  \E res \in Promise!With("short") \cup {Nil},
            e \in Promise!With("failed") \cup {Nil} :
              Promise!GiveUp(res, e)
<1>1. /\ main = "collect" /\ index = N /\ reply = Nil
      /\ reply' = [res |-> response, err |-> err]
      /\ UNCHANGED <<call, answer, results, failed, parent>>
  BY DEF GiveUp, Return, IInv, ResponseInv
<1>2. Received' = Received  BY <1>1 DEF Received
<1>3. Fates' = Fates  BY <1>1, <1>2, FatesKept DEF IInv
<1>4. \A c \in Received : answer[c] # "complete"
  BY <1>1 DEF ReportInv, Usable
<1>5. \A c \in Call : /\ Fates[c] = "open" <=> c \notin Received
                      /\ Fates[c] = "short" <=> c \in Received /\ answer[c] = "incomplete"
                      /\ Fates[c] = "failed" <=> c \in Received /\ ~Usable(c)
  BY <1>4 DEF Fates, FateOf, Usable
<1>6. Received \subseteq Call  BY ReceivedFinite
<1>7. response \in Promise!With("short") \cup {Nil}
  BY <1>1, <1>5, <1>6 DEF ReportInv, Promise!With
<1>8. err \in Promise!With("failed") \cup {Nil}
  BY <1>1, <1>5, <1>6 DEF ReportInv, Promise!With
<1>9. parent = "live" => Promise!With("open") = {}
  <2>1. SUFFICES ASSUME parent = "live" PROVE Received = Call
    BY <1>5 DEF Promise!With
  <2>2. Cardinality(Received) = N  BY <1>1, <2>1 DEF IInv, CountInv
  <2>3. QED  BY <2>2, ReceivedFinite, CallFinite, FS_Subset
<1>10. err = Nil => Promise!With("failed") = {}
  BY <1>1, <1>5 DEF ReportInv, Promise!With, Usable
<1>11. response = Nil => Promise!With("short") = {}
  BY <1>1, <1>5 DEF ReportInv, Promise!With, Usable
<1>12. Promise!GiveUp(response, err)
  BY <1>1, <1>3, <1>9, <1>10, <1>11 DEF Promise!GiveUp
<1>13. QED  BY <1>7, <1>8, <1>12

LEMMA NextPromise ==
  ASSUME IInv, ReportInv, [Next]_vars
  PROVE  [Promise!Next]_(Promise!vars)
<1>1. CASE Launch
  <2>1. index \in Call /\ call[index] = "idle"
    BY <1>1, NAssumption DEF Launch, IInv, CountInv, TypeOK, Call
  <2>2. Received' = Received  BY <1>1, <2>1 DEF Launch, IInv, TypeOK, Received
  <2>3. UNCHANGED <<answer, parent, reply>>  BY <1>1 DEF Launch
  <2>4. QED  BY <2>2, <2>3, FatesKept DEF IInv, Promise!vars
<1>2. CASE ReceiveResult  BY <1>2, ResultMaps DEF Promise!Next
<1>3. CASE ReceiveError  BY <1>3, ErrorMaps DEF Promise!Next
<1>4. CASE GiveUp  BY <1>4, GiveUpMaps DEF Promise!Next
<1>5. ASSUME NEW c \in Call,
             ProxyReturns(c) \/ SendError(c) \/ SendResult(c)
      PROVE  [Promise!Next]_(Promise!vars)
  <2>1. /\ c \notin Received /\ Received' = Received
        /\ \A d \in Call \ {c} : answer'[d] = answer[d]
        /\ UNCHANGED <<parent, reply>>
    BY <1>5, CallStep DEF IInv, Received
  <2>2. \A d \in Received : answer'[d] = answer[d]  BY <2>1, ReceivedFinite
  <2>3. QED  BY <2>1, <2>2, FatesKept DEF IInv, Promise!vars
<1>6. CASE StartCollecting \/ ParentDone \/ LocalTimeout \/ UNCHANGED vars
  <2>1. UNCHANGED <<call, answer, results, failed, parent, reply>>
    BY <1>6 DEF StartCollecting, ParentDone, LocalTimeout, vars
  <2>2. Received' = Received  BY <2>1 DEF Received
  <2>3. QED  BY <2>1, <2>2, FatesKept DEF IInv, Promise!vars
<1>7. CASE ParentEnds
  <2>1. UNCHANGED <<call, answer, results, failed, reply>>
    BY <1>7 DEF ParentEnds
  <2>2. Received' = Received  BY <2>1 DEF Received
  <2>3. Fates' = Fates  BY <2>1, <2>2, FatesKept DEF IInv
  <2>4. Promise!Leave  BY <1>7, <2>1, <2>3 DEF ParentEnds, Promise!Leave
  <2>5. QED  BY <2>4 DEF Promise!Next
<1>8. QED
  BY <1>1, <1>2, <1>3, <1>4, <1>5, <1>6, <1>7 DEF Next, Main, Terminated

-----------------------------------------------------------------------------
(* The theorems. *)

\* The inductive invariant holds in every state of every request.
THEOREM Invariance == Spec => []IInv
<1>1. Init => IInv
  BY InitType, InitChannel, InitCount, InitResponse DEF IInv
<1>2. IInv /\ [Next]_vars => IInv'
  BY NextType, NextChannel, NextCount, NextResponse DEF IInv
<1>3. QED  BY <1>1, <1>2, PTL DEF Spec

\* Each variable stays what its Go type and the loops of concurrent.go:37-58
\* allow.
THEOREM TypeCorrect == Spec => []TypeOK
<1>1. IInv => TypeOK  BY DEF IInv
<1>2. QED  BY <1>1, Invariance, PTL

\* concurrent.go:34-35: a call that reports after the first complete response
\* was returned never waits to send, for any number of calls.
THEOREM NoSenderWaitsAlways == Spec => []NoSenderWaits
<1>1. IInv => NoSenderWaits
  <2>1. SUFFICES ASSUME IInv, NEW c \in Call, call[c] = "holding"
                 PROVE  Len(results) < Capacity /\ Len(failed) < Capacity
    BY DEF NoSenderWaits
  <2>2. c \notin Range(results) /\ c \notin Range(failed)
    BY <2>1 DEF IInv, ChannelInv
  <2>3. /\ results \in Seq(Call) /\ IsInjective(results)
        /\ failed \in Seq(Call) /\ IsInjective(failed)
    BY <2>1 DEF IInv, TypeOK, ChannelInv
  <2>4. QED  BY <2>2, <2>3, CallFinite, LengthLemma DEF Capacity
<1>2. QED  BY <1>1, Invariance, PTL

\* concurrent.go:53 and 60: a complete response comes without an error, and
\* without an error there is a response as long as the caller waits.
THEOREM ErrorXorSuccessAlways == Spec => []ErrorXorSuccess
<1>1. IInv => ErrorXorSuccess  BY DEF IInv
<1>2. QED  BY <1>1, Invariance, PTL

\* concurrent.go:48-60: while the caller waits, a complete response is
\* returned, or every call has reported, all reports were read and none was a
\* complete response.
THEOREM GivesUpOnlyWithoutSuccessAlways == Spec => GivesUpOnlyWithoutSuccess
<1> DEFINE Justified ==
      \/ /\ reply'.err = Nil /\ reply'.res # Nil
         /\ answer[reply'.res] = "complete"
      \/ /\ \A c \in Call : call[c] = "sent" /\ answer[c] # "complete"
         /\ results = <<>> /\ failed = <<>>
         /\ reply' # [res |-> Nil, err |-> Nil]
<1>1. ASSUME IInv, ReportInv, [Next]_vars, reply = Nil, reply' # Nil, parent = "live"
      PROVE  Justified
  <2>1. ReceiveResult \/ GiveUp
    BY <1>1 DEF Next, Main, Terminated, vars, Launch, StartCollecting, ReceiveError,
       ParentDone, ProxyReturns, SendError, SendResult, LocalTimeout, ParentEnds
  <2>2. CASE ReceiveResult
    <3>1. /\ answer[Head(results)] = "complete"
          /\ reply' = [res |-> Head(results), err |-> Nil]
      BY <1>1, <2>2 DEF ReceiveResult, Return
    <3>2. Head(results) \in Call
      BY <1>1, <2>2, ReceiveResultReads DEF IInv
    <3>3. Head(results) # Nil  BY <3>2, NilAssumption
    <3>4. reply'.err = Nil /\ reply'.res = Head(results)  BY <3>1
    <3>5. QED  BY <3>1, <3>3, <3>4
  <2>3. CASE GiveUp
    <3>1. /\ main = "collect" /\ index = N
          /\ reply' = [res |-> response, err |-> err]
      BY <2>3 DEF GiveUp, Return
    <3>2. Cardinality(Received) = N /\ (response # Nil \/ err # Nil)
      BY <1>1, <3>1, NAssumption DEF IInv, CountInv
    <3>3. Received = Call
      BY <3>2, ReceivedFinite, CallFinite, FS_Subset
    <3>4. /\ \A c \in Call : call[c] = "sent" /\ answer[c] # "complete"
          /\ \A c \in Call : c \notin Range(results) \cup Range(failed)
      BY <1>1, <3>1, <3>3 DEF Received, ReportInv, Usable
    <3>5. results = <<>> /\ failed = <<>>
      <4>1. results \in Seq(Call) /\ failed \in Seq(Call)
        BY <1>1 DEF IInv, TypeOK
      <4>2. results # <<>> => Head(results) \in Call \cap Range(results)
        BY <4>1, ReceiveLemma
      <4>3. failed # <<>> => Head(failed) \in Call \cap Range(failed)
        BY <4>1, ReceiveLemma
      <4>4. QED  BY <3>4, <4>2, <4>3
    <3>6. QED  BY <3>1, <3>2, <3>4, <3>5
  <2>4. QED  BY <2>1, <2>2, <2>3
<1>2. IInv /\ ReportInv /\ [Next]_vars =>
        [(reply = Nil /\ reply' # Nil /\ parent = "live") => Justified]_vars
  BY <1>1
<1>3. Init => ReportInv  BY InitReport
<1>4. IInv /\ ReportInv /\ [Next]_vars => ReportInv'
  BY NextReport DEF IInv
<1>5. QED  BY <1>2, <1>3, <1>4, Invariance, PTL DEF Spec, GivesUpOnlyWithoutSuccess

\* concurrent.go:31-60 implements the promise of FirstSuccess: the first
\* complete response read is the reply, and whatever else is returned accounts
\* for all reports read.
THEOREM KeepsPromiseAlways == Spec => KeepsPromise
<1>1. Init => IInv /\ ReportInv /\ Promise!Init
  BY InitType, InitChannel, InitCount, InitResponse, InitReport, InitPromise DEF IInv
<1>2. IInv /\ ReportInv /\ [Next]_vars => IInv' /\ ReportInv'
  BY NextType, NextChannel, NextCount, NextResponse, NextReport DEF IInv
<1>3. IInv /\ ReportInv /\ [Next]_vars => [Promise!Next]_(Promise!vars)
  BY NextPromise
<1>4. QED  BY <1>1, <1>2, <1>3, PTL DEF Spec, KeepsPromise, Promise!Spec

=============================================================================
