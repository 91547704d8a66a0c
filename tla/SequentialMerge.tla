-------------------------- MODULE SequentialMerge --------------------------
(***************************************************************************)
(* One request through proxy/merging.go:sequentialMerge.  The backends are *)
(* asked one after the other; values of earlier responses are copied into  *)
(* the request of a later one (the parameters Resp<j>_<key>); the first    *)
(* error or incomplete response ends the loop.                             *)
(*                                                                         *)
(* combineData does not copy: the map of the merged response IS the map of *)
(* the first response with a body, which parts[] still holds.  `owner` is  *)
(* the backend whose map that is.                                          *)
(***************************************************************************)
EXTENDS MergeData

CONSTANTS Filtered,       \* the backends that have a (non-nil) BackendFilterer
          KeySets,        \* the sets of keys a backend may answer with
          Replacements,   \* sequentialReplacements: the parameters of each backend
          Blank           \* the values that print as the empty string

\* A replacement copies the value under `key` of the response of backend
\* `from`.  Indexes here start at 1, in the code at 0.
Parameter == [from : Backend, key : Keys]

\* A value as it is printed into a parameter: all empty strings are one.  The
\* value a backend wrote under a key is named as the parameter is.
Empty == 0
Text(b, k) == IF [from |-> b, key |-> k] \in Blank THEN Empty ELSE b

ASSUME FilteredAssumption     == Filtered \subseteq Backend
ASSUME KeySetsAssumption      == KeySets \subseteq SUBSET Keys
ASSUME ReplacementsAssumption == Replacements \in [Backend -> SUBSET Parameter]
ASSUME BlankAssumption        == Blank \subseteq Parameter

VARIABLES at,        \* where the loop is
          i,         \* the backend of this turn
          parts,     \* the backends in parts[], filtered ones included
          answer,    \* what the proxy of each backend returned
          owner,     \* whose map the merged response has, Nil before there is one
          params,    \* request.Params: the text of each parameter, Nil if absent
          registry,  \* sequentialMergeRegistry: Empty also where it has no entry
          fate,      \* what the loop made of each backend
          ctx,       \* localCtx: "live" or "ended"
          acc,       \* the accumulator
          reply      \* what the proxy returned, Nil before it has

vars == <<at, i, parts, answer, owner, params, registry, fate, ctx, acc, reply>>

Bodies(b)  == {[k \in S |-> b] : S \in KeySets} \cup {Nil}
Answers(b) == [res : {Nil}, err : BOOLEAN]
              \cup [res : [data : Bodies(b), complete : BOOLEAN], err : {FALSE}]

Init ==
  /\ at = "turn" /\ i = 1
  /\ parts = {}
  /\ answer = [b \in Backend |-> [res |-> Nil, err |-> FALSE]]
  /\ owner = Nil
  /\ params = [p \in Parameter |-> Nil]
  /\ registry = [p \in Parameter |-> Empty]
  /\ fate = [b \in Backend |-> "open"]
  /\ ctx = "live"
  /\ acc = NewAccumulator(N)
  /\ reply = Nil

-----------------------------------------------------------------------------
\* The body parts[j].Data as it is now: the map of the merged response, if
\* that is the same one.  A filtered backend has an empty body.
OwnBody(j) == IF answer[j].res = Nil THEN <<>> ELSE answer[j].res.data
Body(j) == IF j = owner THEN acc.data.data ELSE OwnBody(j)

\* What a replacement finds in the response now, Nil if nothing.
Found(p) ==
  IF Body(p.from) = Nil                    THEN Nil
  ELSE IF p.key \notin DOMAIN Body(p.from) THEN Nil
  ELSE Text(Body(p.from)[p.key], p.key)

\* The text a replacement copies, Nil if it copies none: the registry comes
\* before the response, unless it holds the empty string.
Uncached(p) ==
  IF p.from >= i \/ p.from \notin parts THEN Nil ELSE Found(p)

Copied(p) ==
  IF p.from >= i \/ p.from \notin parts THEN Nil
  ELSE IF registry[p] # Empty            THEN registry[p]
  ELSE Found(p)

\* merging.go:332-407, the head of every turn: nothing for the first backend.
Replace ==
  LET set == {p \in Replacements[i] : i > 1 /\ Copied(p) # Nil}
  IN  /\ params'   = [p \in Parameter |-> IF p \in set THEN Copied(p) ELSE params[p]]
      /\ registry' = [p \in Parameter |-> IF p \in set THEN Copied(p) ELSE registry[p]]

\* The filter rejects the request: an empty complete response stands in.
SkipPending ==
  /\ at = "turn" /\ i \in Filtered
  /\ Replace
  /\ parts' = parts \cup {i}
  /\ fate' = [fate EXCEPT ![i] = "skipped"]
  /\ i' = i + 1
  /\ UNCHANGED <<at, answer, owner, ctx, acc, reply>>

Skip ==
  /\ at = "turn" /\ i \in Filtered
  /\ Replace
  /\ parts' = parts \cup {i}
  /\ fate' = [fate EXCEPT ![i] = "skipped"]
  /\ acc' = [acc EXCEPT !.pending = @ - 1]
  /\ i' = i + 1
  /\ UNCHANGED <<at, answer, owner, ctx, reply>>

Ask ==
  /\ at = "turn" /\ i \in Backend
  /\ Replace
  /\ at' = "call"
  /\ UNCHANGED <<i, parts, answer, owner, fate, ctx, acc, reply>>

ProxyReturns ==
  /\ at = "call"
  /\ \E a \in Answers(i) : answer' = [answer EXCEPT ![i] = a]
  /\ at' = "select"
  /\ UNCHANGED <<i, parts, owner, params, registry, fate, ctx, acc, reply>>

-----------------------------------------------------------------------------
(* sequentialRequestPart left one message in `errCh` or in `out`: for a     *)
(* response it is ctx.Err() or the response, whichever the select took.     *)

GotError    == answer[i].err \/ answer[i].res = Nil \/ ctx = "ended"
GotResponse == ~answer[i].err /\ answer[i].res # Nil

End(r) ==
  /\ at' = "returned"
  /\ reply' = r
  /\ ctx' = "ended"

FirstFails ==
  /\ at = "select" /\ GotError /\ i = 1
  /\ fate' = [fate EXCEPT ![i] = "failed"]
  /\ End([res |-> Nil, errs |-> <<i>>])
  /\ UNCHANGED <<i, parts, answer, owner, params, registry, acc>>

LaterFailsSilently ==
  /\ at = "select" /\ GotError /\ i > 1
  /\ fate' = [fate EXCEPT ![i] = "failed"]
  /\ acc' = [acc EXCEPT !.pending = @ - 1]
  /\ at' = "result"
  /\ UNCHANGED <<i, parts, answer, owner, params, registry, ctx, reply>>

LaterFails ==
  /\ at = "select" /\ GotError /\ i > 1
  /\ fate' = [fate EXCEPT ![i] = "failed"]
  /\ acc' = MergeError(acc, i)
  /\ at' = "result"
  /\ UNCHANGED <<i, parts, answer, owner, params, registry, ctx, reply>>

\* The first body merged is the one the merged response goes on with, except
\* after two responses without one, which make a new map.
MergeAnswer ==
  /\ acc' = MergeResponse(acc, answer[i].res)
  /\ owner' = IF HasBody(answer[i].res) /\ ~HasBody(acc.data) THEN i ELSE owner

DeliversPartGoesOn ==
  /\ at = "select" /\ GotResponse /\ ~answer[i].res.complete
  /\ MergeAnswer
  /\ fate' = [fate EXCEPT ![i] = "delivered"]
  /\ at' = "turn" /\ i' = i + 1
  /\ parts' = parts \cup {i}
  /\ UNCHANGED <<answer, params, registry, ctx, reply>>

DeliversPart ==
  /\ at = "select" /\ GotResponse /\ ~answer[i].res.complete
  /\ MergeAnswer
  /\ fate' = [fate EXCEPT ![i] = "delivered"]
  /\ at' = "result"
  /\ UNCHANGED <<i, parts, answer, params, registry, ctx, reply>>

Delivers ==
  /\ at = "select" /\ GotResponse /\ answer[i].res.complete
  /\ MergeAnswer
  /\ fate' = [fate EXCEPT ![i] = "delivered"]
  /\ parts' = parts \cup {i}
  /\ at' = "turn" /\ i' = i + 1
  /\ UNCHANGED <<answer, params, registry, ctx, reply>>

ReturnOnBreak ==
  /\ at = "result"
  /\ End(Result(acc))
  /\ UNCHANGED <<i, parts, answer, owner, params, registry, fate, acc>>

Return ==
  /\ at = "result" \/ (at = "turn" /\ i > N)
  /\ End(Result(acc))
  /\ UNCHANGED <<i, parts, answer, owner, params, registry, fate, acc>>

\* The timeout of the middleware or the end of the caller's context.
ContextEnds ==
  /\ ctx = "live" /\ ctx' = "ended"
  /\ UNCHANGED <<at, i, parts, answer, owner, params, registry, fate, acc, reply>>

Terminated == at = "returned" /\ UNCHANGED vars

Select == FirstFails \/ LaterFails \/ DeliversPart \/ Delivers

Next ==
  \/ Skip \/ Ask \/ ProxyReturns \/ Select \/ Return
  \/ ContextEnds
  \/ Terminated

Spec == Init /\ [][Next]_vars

\* As in ParallelMerge: a proxy is trusted to return once its context ended.
FairSpec ==
  /\ Spec
  /\ WF_vars(Skip \/ Ask \/ Select \/ Return)
  /\ WF_vars(ctx = "ended" /\ ProxyReturns)
  /\ WF_vars(ContextEnds)

-----------------------------------------------------------------------------
(* Properties. *)

TypeOK ==
  /\ at \in {"turn", "call", "select", "result", "returned"}
  /\ i \in 1..N+1
  /\ parts \subseteq Backend
  /\ answer \in [Backend -> [res : Response \cup {Nil}, err : BOOLEAN]]
  /\ owner \in Backend \cup {Nil}
  /\ params \in [Parameter -> Backend \cup {Empty, Nil}]
  /\ registry \in [Parameter -> Backend \cup {Empty}]
  /\ fate \in [Backend -> {"open", "skipped", "delivered", "failed"}]
  /\ ctx \in {"live", "ended"}
  /\ acc \in Accumulator
  /\ reply \in Reply \cup {Nil}

Delivered == {b \in Backend : fate[b] = "delivered"}

\* merging.go:424,428: what a later backend is asked depends on what the
\* earlier ones answered, so none is asked after an error or an incomplete
\* response.
StopsAtFirstTrouble ==
  \A b \in Backend : (fate[b] # "open" \/ (i = b /\ at # "turn")) =>
     \A c \in 1..b-1 :
        fate[c] = "skipped" \/ (fate[c] = "delivered" /\ answer[c].res.complete)

\* The caller is told that the response is complete exactly if every backend
\* was skipped or delivered a complete response and, where several delivered,
\* none of them was without a body; then there is no error either.
CompleteMeansAllAsked ==
  reply # Nil /\ reply.res # Nil =>
    /\ reply.res.complete <=>
         /\ \A b \in Backend : \/ fate[b] = "skipped"
                               \/ fate[b] = "delivered" /\ answer[b].res.complete
         /\ (\E b, c \in Delivered : b # c) =>
               \A b \in Delivered : HasBody(answer[b].res)
    /\ reply.res.complete => reply.errs = <<>>

\* The merged response holds, under each key, the value of the last backend
\* that delivered one: merging step by step amounts to one combineData.
LastWriterWins ==
  (reply # Nil /\ reply.res # Nil /\ \E b \in Delivered : HasBody(answer[b].res)) =>
     /\ HasBody(reply.res)
     /\ \A k \in Keys :
        LET holders == {b \in Delivered : HasBody(answer[b].res)
                                          /\ k \in DOMAIN answer[b].res.data}
        IN  IF holders = {} THEN k \notin DOMAIN reply.res.data
            ELSE /\ reply.res.data[k] \in holders
                 /\ \A b \in holders : b <= reply.res.data[k]

Gifts == [b \in Backend |-> IF b \in Delivered THEN answer[b].res ELSE Nil]

\* The merge does what InTurn promises.
Promise == INSTANCE InTurn WITH given <- Gifts

\* merging.go:324-446 refines the promise: no backend is asked or skipped out
\* of turn or after trouble, and the one reply, whichever way the loop ends,
\* says neither more nor less than what came back.
KeepsPromise == Promise!Spec

\* A parameter keeps the first text it was sent with that is not empty,
\* whatever is merged into the response it came from: every later backend sees
\* the same one.  The registry (merging.go:356) does not keep the empty string,
\* so a parameter sent as that stays sent but may get a text in a later turn.
ParamsStable ==
  [][\A p \in Parameter : params[p] # Nil =>
        \/ params'[p] = params[p]
        \/ params[p] = Empty /\ params'[p] # Nil]_vars

\* The loop ends even if no backend answers before the timeout.
Returns == <>(at = "returned")

\* proxy/merging_test.go checks that the parameters Resp0_... hold values of
\* the first backend's response: a parameter named after a backend holds the
\* text of what this backend delivered.
ParamsFromNamedBackend ==
  \A p \in Parameter : params[p] # Nil => params[p] = Text(p.from, p.key)

=============================================================================
