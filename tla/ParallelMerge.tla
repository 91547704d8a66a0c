--------------------------- MODULE ParallelMerge ---------------------------
(***************************************************************************)
(* One request through proxy/merging.go:parallelMerge.  The main goroutine *)
(* launches one requestPart per backend its filter lets through, collects  *)
(* as many messages as it launched goroutines from two buffered channels,  *)
(* and returns what the accumulator made of them.  The goroutines run      *)
(* while it launches, collects and after it returned; the local context    *)
(* ends when its timer fires, when the caller's context ends, or by the    *)
(* cancel() of the main goroutine.                                         *)
(***************************************************************************)
EXTENDS MergeData

CONSTANTS Filtered,   \* the backends that have a (non-nil) BackendFilterer
          KeySets     \* the sets of keys a backend may answer with

ASSUME FilteredAssumption == Filtered \subseteq Backend
ASSUME KeySetsAssumption  == KeySets \subseteq SUBSET Keys

VARIABLES main,        \* where the main goroutine is
          index,       \* its loop variable
          proxyCount,  \* goroutines it launched (counted down from len(next))
          worker,      \* where the requestPart of each backend is
          answer,      \* what the proxy of each backend returned: (in, err)
          parts,       \* channel of *Response, as the backends that sent them
          failed,      \* channel of errors, as the backends that sent them
          ctx,         \* localCtx: "live" or "ended"
          acc,         \* the accumulator
          reply        \* what the proxy returned, Nil before it has

vars == <<main, index, proxyCount, worker, answer, parts, failed, ctx, acc, reply>>

Answer  == [res : Response \cup {Nil}, err : BOOLEAN]

\* The answers of a proxy: an error, a nil response, or a response whose
\* body is nil or holds some of the keys.
Bodies(b)  == {[k \in S |-> b] : S \in KeySets} \cup {Nil}
Answers(b) == [res : {Nil}, err : BOOLEAN]
              \cup [res : [data : Bodies(b), complete : BOOLEAN], err : {FALSE}]

\* Room in each channel: make(chan ..., proxyCount), before any filter ran.
CapacityShort == N - 1
Capacity == N

Usable(b) == ~answer[b].err /\ answer[b].res # Nil

Init ==
  /\ main = "launch" /\ index = 1 /\ proxyCount = N
  /\ worker = [b \in Backend |-> "idle"]
  /\ answer = [b \in Backend |-> [res |-> Nil, err |-> FALSE]]
  /\ parts = <<>> /\ failed = <<>>
  /\ ctx = "live"
  /\ acc = NewAccumulator(0)
  /\ reply = Nil

-----------------------------------------------------------------------------
(* The main goroutine. *)

\* The filter of this backend, if it has one, accepts the request.
Launch ==
  /\ main = "launch" /\ index \in Backend
  /\ worker' = [worker EXCEPT ![index] = "calling"]
  /\ index' = index + 1
  /\ UNCHANGED <<main, proxyCount, answer, parts, failed, ctx, acc, reply>>

SkipUncounted ==
  /\ main = "launch" /\ index \in Filtered
  /\ worker' = [worker EXCEPT ![index] = "skipped"]
  /\ index' = index + 1
  /\ UNCHANGED <<main, proxyCount, answer, parts, failed, ctx, acc, reply>>

Skip ==
  /\ main = "launch" /\ index \in Filtered
  /\ worker' = [worker EXCEPT ![index] = "skipped"]
  /\ proxyCount' = proxyCount - 1
  /\ index' = index + 1
  /\ UNCHANGED <<main, answer, parts, failed, ctx, acc, reply>>

StartCollecting ==
  /\ main = "launch" /\ index > N
  /\ main' = "collect"
  /\ index' = 0
  /\ acc' = NewAccumulator(proxyCount)
  /\ UNCHANGED <<proxyCount, worker, answer, parts, failed, ctx, reply>>

CollectFailed ==
  /\ main = "collect" /\ index < proxyCount
  /\ failed # <<>>
  /\ acc' = MergeError(acc, Head(failed))
  /\ failed' = Tail(failed)
  /\ index' = index + 1
  /\ UNCHANGED <<main, proxyCount, worker, answer, parts, ctx, reply>>

CollectPart ==
  /\ main = "collect" /\ index < proxyCount
  /\ parts # <<>>
  /\ acc' = MergeResponse(acc, answer[Head(parts)].res)
  /\ parts' = Tail(parts)
  /\ index' = index + 1
  /\ UNCHANGED <<main, proxyCount, worker, answer, failed, ctx, reply>>

Return ==
  /\ main = "collect" /\ index >= proxyCount
  /\ main' = "returned"
  /\ reply' = Result(acc)
  /\ ctx' = "ended"
  /\ UNCHANGED <<index, proxyCount, worker, answer, parts, failed, acc>>

-----------------------------------------------------------------------------
(* requestPart: call the proxy, send one message.  A send waits for room.  *)

ProxyReturns(b) ==
  /\ worker[b] = "calling"
  /\ \E a \in Answers(b) : answer' = [answer EXCEPT ![b] = a]
  /\ worker' = [worker EXCEPT ![b] = "holding"]
  /\ UNCHANGED <<main, index, proxyCount, parts, failed, ctx, acc, reply>>

\* failed <- err, with the error of the proxy, errNullResult or ctx.Err():
\* the last is one of the two ways the select can go once the context ended.
SendFailed(b) ==
  /\ worker[b] = "holding"
  /\ Usable(b) => ctx = "ended"
  /\ Len(failed) < Capacity
  /\ failed' = Append(failed, b)
  /\ worker' = [worker EXCEPT ![b] = "sent"]
  /\ UNCHANGED <<main, index, proxyCount, answer, parts, ctx, acc, reply>>

SendPart(b) ==
  /\ worker[b] = "holding"
  /\ Usable(b)
  /\ Len(parts) < Capacity
  /\ parts' = Append(parts, b)
  /\ worker' = [worker EXCEPT ![b] = "sent"]
  /\ UNCHANGED <<main, index, proxyCount, answer, failed, ctx, acc, reply>>

-----------------------------------------------------------------------------
(* The timeout of the middleware or the end of the caller's context. *)
ContextEnds ==
  /\ ctx = "live"
  /\ ctx' = "ended"
  /\ UNCHANGED <<main, index, proxyCount, worker, answer, parts, failed, acc, reply>>

\* The request is over and no goroutine is left.
Terminated ==
  /\ main = "returned"
  /\ \A b \in Backend : worker[b] \in {"skipped", "sent"}
  /\ UNCHANGED vars

Main == Launch \/ Skip \/ StartCollecting \/ CollectFailed \/ CollectPart \/ Return

Next ==
  \/ Main
  \/ \E b \in Backend : ProxyReturns(b) \/ SendFailed(b) \/ SendPart(b)
  \/ ContextEnds
  \/ Terminated

Spec == Init /\ [][Next]_vars

-----------------------------------------------------------------------------
(* Fairness.  The runtime schedules a goroutine that can run, and the timer *)
(* of localCtx fires.  A proxy is trusted to return only once the context   *)
(* has ended: that is what the HTTP client does with the request's context. *)
Fairness ==
  /\ WF_vars(Main)
  /\ WF_vars(ContextEnds)
  /\ \A b \in Backend : /\ WF_vars(ctx = "ended" /\ ProxyReturns(b))
                        /\ WF_vars(SendFailed(b) \/ SendPart(b))

FairSpec == Spec /\ Fairness

-----------------------------------------------------------------------------
(* Properties. *)

\* The variables hold what their Go types and the loops allow.
TypeOK ==
  /\ main \in {"launch", "collect", "returned"}
  /\ index \in 0..N+1
  /\ proxyCount \in 0..N
  /\ worker \in [Backend -> {"idle", "skipped", "calling", "holding", "sent"}]
  /\ answer \in [Backend -> Answer]
  /\ parts \in Seq(Backend) /\ failed \in Seq(Backend)
  /\ ctx \in {"live", "ended"}
  /\ acc \in Accumulator
  /\ reply \in Reply \cup {Nil}

Started == {b \in Backend : worker[b] \notin {"idle", "skipped"}}

\* The backends whose message the main goroutine has taken from a channel.
Merged ==
  {b \in Backend : worker[b] = "sent"} \ (Range(parts) \cup Range(failed))

Delivered == Merged \ Range(acc.errs)

\* merging.go:285-286 make both channels as long as next: a requestPart that
\* has something to send never waits, whatever the others sent and however
\* far the main goroutine is, so none is left behind when it returns.
NoSenderWaits ==
  \A b \in Backend :
    worker[b] = "holding" => Len(parts) < Capacity /\ Len(failed) < Capacity

\* merging.go:455-484: a caller told that the response is complete has, in
\* it, a complete response of every backend the filters let through; no
\* order of answers, errors and timeouts hides a failure.
CompleteIsHonest ==
  reply # Nil /\ reply.res # Nil =>
     (reply.res.complete =>
        /\ reply.errs = <<>>
        /\ \A b \in Started : Usable(b) /\ answer[b].res.complete)

\* Each backend started is accounted for in exactly one way: its error is in
\* the list, once, or the keys it answered with are in the response.
EveryBackendAccounted ==
  reply # Nil =>
    /\ Len(reply.errs) = Cardinality(Range(reply.errs))
    /\ Range(reply.errs) \subseteq Started
    /\ \A b \in Started \ Range(reply.errs) :
         /\ reply.res # Nil
         /\ HasBody(answer[b].res) =>
              /\ HasBody(reply.res)
              /\ DOMAIN answer[b].res.data \subseteq DOMAIN reply.res.data

\* The merge returns, and every goroutine it started ends, even if no
\* backend answers before the timeout of merging.go:280.
Returns == <>(main = "returned" /\ \A b \in Started : worker[b] = "sent")

\* What became of each backend so far, and what those that delivered gave.
FateOf(b) ==
  IF worker[b] = "skipped"  THEN "skipped"
  ELSE IF b \in Delivered   THEN "delivered"
  ELSE IF b \in Merged      THEN "failed"
  ELSE "open"

Fates == [b \in Backend |-> FateOf(b)]
Gifts == [b \in Backend |-> IF b \in Delivered THEN answer[b].res ELSE Nil]

\* The merge does what ForkJoin promises.
Promise == INSTANCE ForkJoin WITH fate <- Fates, given <- Gifts, reply <- reply

\* The fork and join refines the promise: each backend accounted for once,
\* and one reply that says neither more nor less than what came back.
KeepsPromise == Promise!Spec

-----------------------------------------------------------------------------
(* The inductive invariant behind the safety properties. *)

Skipped == {b \in Backend : worker[b] = "skipped"}

\* A message is in one channel, once, and its sender has sent it.
ChannelInv ==
  /\ IsInjective(parts) /\ IsInjective(failed)
  /\ Range(parts) \cap Range(failed) = {}
  /\ \A b \in Range(parts) \cup Range(failed) : worker[b] = "sent"
  /\ \A b \in Range(parts) : Usable(b)

\* The loop variable and proxyCount count backends.
CountInv ==
  /\ proxyCount + Cardinality(Skipped) = N
  /\ main = "launch" =>
       /\ index >= 1 /\ Merged = {}
       /\ \A b \in Backend : worker[b] = "idle" <=> b >= index
       /\ acc = NewAccumulator(0)
  /\ main # "launch" =>
       /\ \A b \in Backend : worker[b] # "idle"
       /\ index = Cardinality(Merged)
       /\ acc.pending = proxyCount - index
  /\ main = "returned" => Merged = Started

\* A response that still counts as complete is made of complete ones only.
ResponseInv ==
  /\ acc.errs = <<>> /\ acc.data = Nil => Merged = {}
  /\ acc.errs = <<>> /\ acc.data # Nil =>
       (acc.data.complete => \A b \in Merged : Usable(b) /\ answer[b].res.complete)
  /\ reply = Nil <=> main # "returned"

\* What becomes of a backend once it is merged: its error is in the list, once,
\* or its keys are in the response, which later ones only add to.
Kept(b) ==
  /\ acc.data # Nil
  /\ HasBody(answer[b].res) => /\ HasBody(acc.data)
                               /\ DOMAIN answer[b].res.data \subseteq DOMAIN acc.data.data

AccountInv ==
  /\ IsInjective(acc.errs) /\ Range(acc.errs) \subseteq Merged
  /\ \A b \in Merged \ Range(acc.errs) : Kept(b)
  /\ reply # Nil => reply = Result(acc)

IInv == TypeOK /\ ChannelInv /\ CountInv /\ ResponseInv /\ CompleteIsHonest

=============================================================================
