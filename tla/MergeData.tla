----------------------------- MODULE MergeData -----------------------------
(***************************************************************************)
(* The data both merging strategies of proxy/merging.go share: responses,  *)
(* combineData and incrementalMergeAccumulator.                            *)
(*                                                                         *)
(* A backend is its index in `next`.  A response body is a function from   *)
(* the keys it holds to the backend that wrote each value: who wrote a     *)
(* value is all the properties tell apart.  An error is named by the       *)
(* backend whose call produced it, 0 standing for the errNullResult that   *)
(* the accumulator makes itself.                                           *)
(*                                                                         *)
(* Here and in the other modules, an operator that no other one uses is a  *)
(* variant of the one below it with a plausible slip: the properties are   *)
(* checked to fail when it takes the other's place.                        *)
(***************************************************************************)
EXTENDS Integers, Sequences, FiniteSets, Functions

CONSTANTS N,        \* how many backends the endpoint has: len(next)
          Keys,     \* the keys a response body can hold
          Nil       \* Go's nil: no response, no body, no error

Backend == 1..N

Data     == UNION {[S -> Backend] : S \in SUBSET Keys}
Response == [data : Data \cup {Nil}, complete : BOOLEAN]
Error    == 0..N
Reply    == [res : Response \cup {Nil}, errs : Seq(Error)]

\* NewMergeDataMiddleware merges two backends or more: one gets the empty
\* middleware, none is fatal.
ASSUME NAssumption   == N \in Nat \ {0, 1}
ASSUME NilAssumption == /\ Nil \notin Data \cup Response \cup Error
                        /\ Nil \notin Reply

-----------------------------------------------------------------------------
\* combineData skips the parts that are nil or have no body, lets a later
\* part overwrite the keys of an earlier one, and never returns a nil body.
HasBody(part) == IF part = Nil THEN FALSE ELSE part.data # Nil

CombineData(total, parts) ==
  LET usable   == {i \in DOMAIN parts : HasBody(parts[i])}
      holders(k) == {i \in usable : k \in DOMAIN parts[i].data}
      last(k)  == CHOOSE i \in holders(k) : \A j \in holders(k) : j <= i
  IN  [data     |-> [k \in {key \in Keys : holders(key) # {}} |-> parts[last(k)].data[k]],
       complete |-> /\ Len(parts) = total
                    /\ usable = DOMAIN parts
                    /\ \A i \in usable : parts[i].complete]

-----------------------------------------------------------------------------
\* incrementalMergeAccumulator: `data` is the response built so far.
Accumulator == [pending : 0..N, data : Response \cup {Nil}, errs : Seq(Error)]

NewAccumulatorUntold(total) == [pending |-> 0, data |-> Nil, errs |-> <<>>]
NewAccumulator(total) == [pending |-> total, data |-> Nil, errs |-> <<>>]

Incomplete(res) == IF res = Nil THEN Nil ELSE [data |-> res.data, complete |-> FALSE]

MergeError(acc, err) ==
  [pending |-> acc.pending - 1,
   data    |-> Incomplete(acc.data),
   errs    |-> Append(acc.errs, err)]

MergeResponseReplacing(acc, res) ==
  [pending |-> acc.pending - 1, data |-> res, errs |-> acc.errs]

\* The count combineData expects is that of the endpoint, not 2.
MergeResponseOfAll(acc, res) ==
  [pending |-> acc.pending - 1,
   data    |-> IF acc.data = Nil THEN res ELSE CombineData(N, <<acc.data, res>>),
   errs    |-> acc.errs]

\* A nil response without an error counts as errNullResult, and this path
\* leaves the response built so far as it is.
MergeResponse(acc, res) ==
  [pending |-> acc.pending - 1,
   data    |-> IF res = Nil           THEN acc.data
              ELSE IF acc.data = Nil THEN res
              ELSE CombineData(2, <<acc.data, res>>),
   errs    |-> IF res = Nil THEN Append(acc.errs, 0) ELSE acc.errs]

ResultOfPending(acc) ==
  [res  |-> IF acc.pending > 0 THEN Incomplete(acc.data) ELSE acc.data,
   errs |-> acc.errs]

\* newMergeError makes a nil error of an empty list: `errs` is what the
\* caller sees as the error, <<>> being nil.
Result(acc) ==
  [res  |-> IF acc.pending > 0 \/ acc.errs # <<>> THEN Incomplete(acc.data) ELSE acc.data,
   errs |-> acc.errs]

=============================================================================
