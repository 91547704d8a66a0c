-------------------------- MODULE ConcurrentCalls --------------------------
(***************************************************************************)
(* One request through proxy/concurrent.go: the same backend is called     *)
(* several times at once and the first complete response wins.  The main   *)
(* goroutine may return while calls are still on their way; it watches the *)
(* caller's context (parent), the calls watch the local one (ctx), which   *)
(* its own timer, the parent or a cancel() ends.                           *)
(***************************************************************************)
EXTENDS Integers, Sequences, FiniteSets, Functions

CONSTANTS N,       \* remote.ConcurrentCalls
          Deaf,    \* the calls whose proxy does not mind its context
          Nil      \* Go's nil

Call == 1..N

\* proxy/factory.go:96 stacks the middleware for more than one call only.
ASSUME NAssumption    == N \in Nat \ {0, 1}
ASSUME DeafAssumption == Deaf \subseteq Call
ASSUME NilAssumption  == /\ Nil \notin Call
                         /\ Nil \notin [res : Call \cup {Nil}, err : Call \cup {Nil}]

VARIABLES main,      \* where the main goroutine is
          index,     \* its loop variable
          call,      \* where each processConcurrentCall is
          answer,    \* what each call has to report: what the next proxy
                     \* returned to it, or the error it sends instead
          results,   \* channel of responses, as the calls that sent them
          failed,    \* channel of errors, as the calls that sent them
          parent,    \* the caller's context: "live" or "ended"
          ctx,       \* localCtx: "live" or "ended"
          response,  \* the last response received, as the call it came from
          err,       \* the last error received, as the call it came from
          reply      \* what the proxy returned, Nil before it has

vars == <<main, index, call, answer, results, failed, parent, ctx, response, err, reply>>

\* What the next proxy returns: (nil, err), (nil, nil), a response with
\* IsComplete or one without.
Answer == {"error", "nil", "complete", "incomplete"}

Usable(c) == answer[c] \in {"complete", "incomplete"}

\* Room in each channel.
CapacityOne == 1
Capacity == N

TypeOK ==
  /\ main \in {"launch", "collect", "returned"}
  /\ index \in 0..N+1
  /\ call \in [Call -> {"idle", "calling", "holding", "sent"}]
  /\ answer \in [Call -> Answer]
  /\ results \in Seq(Call) /\ failed \in Seq(Call)
  /\ parent \in {"live", "ended"} /\ ctx \in {"live", "ended"}
  /\ response \in Call \cup {Nil} /\ err \in Call \cup {Nil}
  /\ reply \in [res : Call \cup {Nil}, err : Call \cup {Nil}] \cup {Nil}

Init ==
  /\ main = "launch" /\ index = 1
  /\ call = [c \in Call |-> "idle"]
  /\ answer = [c \in Call |-> "nil"]
  /\ results = <<>> /\ failed = <<>>
  /\ parent = "live" /\ ctx = "live"
  /\ response = Nil /\ err = Nil
  /\ reply = Nil

-----------------------------------------------------------------------------
(* The main goroutine. *)

Launch ==
  /\ main = "launch" /\ index <= N
  /\ call' = [call EXCEPT ![index] = "calling"]
  /\ index' = index + 1
  /\ UNCHANGED <<main, answer, results, failed, parent, ctx, response, err, reply>>

StartCollecting ==
  /\ main = "launch" /\ index > N
  /\ main' = "collect"
  /\ index' = 0
  /\ UNCHANGED <<call, answer, results, failed, parent, ctx, response, err, reply>>

Return(r, e) ==
  /\ main' = "returned"
  /\ reply' = [res |-> r, err |-> e]
  /\ ctx' = "ended"

\* case response = <-results, and the early return of a complete one.
ReceiveUnread ==
  /\ main = "collect" /\ index < N /\ results # <<>>
  /\ response' = Head(results)
  /\ results' = Tail(results)
  /\ index' = index + 1
  /\ UNCHANGED <<main, call, answer, failed, parent, ctx, err, reply>>

ReceiveResult ==
  /\ main = "collect" /\ index < N /\ results # <<>>
  /\ response' = Head(results)
  /\ results' = Tail(results)
  /\ IF answer[Head(results)] = "complete"
     THEN Return(Head(results), Nil) /\ UNCHANGED index
     ELSE index' = index + 1 /\ UNCHANGED <<main, ctx, reply>>
  /\ UNCHANGED <<call, answer, failed, parent, err>>

\* case err = <-failed
ReceiveError ==
  /\ main = "collect" /\ index < N /\ failed # <<>>
  /\ err' = Head(failed)
  /\ failed' = Tail(failed)
  /\ index' = index + 1
  /\ UNCHANGED <<main, call, answer, results, parent, ctx, response, reply>>

\* case <-ctx.Done(): the ended context uses up one turn of the loop.
WaitOnLocal ==
  /\ main = "collect" /\ index < N /\ ctx = "ended"
  /\ index' = index + 1
  /\ UNCHANGED <<main, call, answer, results, failed, parent, ctx, response, err, reply>>

ParentDoneForever ==
  /\ main = "collect" /\ parent = "ended"
  /\ index' = index + 1
  /\ UNCHANGED <<main, call, answer, results, failed, parent, ctx, response, err, reply>>

ParentDoneAtFirst ==
  /\ main = "collect" /\ index = 0 /\ parent = "ended"
  /\ index' = index + 1
  /\ UNCHANGED <<main, call, answer, results, failed, parent, ctx, response, err, reply>>

ParentDone ==
  /\ main = "collect" /\ index < N /\ parent = "ended"
  /\ index' = index + 1
  /\ UNCHANGED <<main, call, answer, results, failed, parent, ctx, response, err, reply>>

GiveUp ==
  /\ main = "collect" /\ index = N
  /\ Return(response, err)
  /\ UNCHANGED <<index, call, answer, results, failed, parent, response, err>>

-----------------------------------------------------------------------------
(* processConcurrentCall *)

ProxyReturns(c) ==
  /\ call[c] = "calling"
  /\ \E a \in Answer : answer' = [answer EXCEPT ![c] = a]
  /\ call' = [call EXCEPT ![c] = "holding"]
  /\ UNCHANGED <<main, index, results, failed, parent, ctx, response, err, reply>>

SendError(c) ==
  /\ call[c] = "holding"
  /\ Usable(c) => ctx = "ended"
  /\ Len(failed) < Capacity
  /\ failed' = Append(failed, c)
  /\ answer' = [answer EXCEPT ![c] = "error"]
  /\ call' = [call EXCEPT ![c] = "sent"]
  /\ UNCHANGED <<main, index, results, parent, ctx, response, err, reply>>

SendResult(c) ==
  /\ call[c] = "holding" /\ Usable(c)
  /\ Len(results) < Capacity
  /\ results' = Append(results, c)
  /\ call' = [call EXCEPT ![c] = "sent"]
  /\ UNCHANGED <<main, index, answer, failed, parent, ctx, response, err, reply>>

-----------------------------------------------------------------------------
(* The contexts. *)

LocalTimeout ==
  /\ ctx = "live" /\ ctx' = "ended"
  /\ UNCHANGED <<main, index, call, answer, results, failed, parent, response, err, reply>>

ParentEnds ==
  /\ parent = "live" /\ parent' = "ended" /\ ctx' = "ended"
  /\ UNCHANGED <<main, index, call, answer, results, failed, response, err, reply>>

Terminated ==
  /\ main = "returned" /\ \A c \in Call : call[c] = "sent"
  /\ UNCHANGED vars

Main == Launch \/ StartCollecting \/ ReceiveResult \/ ReceiveError \/ ParentDone \/ GiveUp

Next ==
  \/ Main
  \/ \E c \in Call : ProxyReturns(c) \/ SendError(c) \/ SendResult(c)
  \/ LocalTimeout \/ ParentEnds
  \/ Terminated

Spec == Init /\ [][Next]_vars

\* The runtime runs what can run and the timer of localCtx fires.  A proxy
\* that minds its context returns once that ended; a deaf one may never.
Fairness ==
  /\ WF_vars(Main)
  /\ WF_vars(LocalTimeout)
  /\ \A c \in Call : WF_vars(SendError(c) \/ SendResult(c))
  /\ \A c \in Call \ Deaf : WF_vars(ctx = "ended" /\ ProxyReturns(c))

FairSpec == Spec /\ Fairness

-----------------------------------------------------------------------------
(* Properties. *)

\* concurrent.go:34-35: the main goroutine stops reading the channels at the
\* first complete response; every other call still has room to send, so no
\* goroutine is left behind for ever.
NoSenderWaits ==
  \A c \in Call :
    call[c] = "holding" => Len(results) < Capacity /\ Len(failed) < Capacity

\* docs/OVERVIEW.md promises the first successful response.  While the caller
\* still waits, what the proxy returns is a complete response and no error, or
\* every call has reported, every report was read, none of them was a complete
\* response, and the reply is not empty.
GivesUpOnlyWithoutSuccess ==
  [][(reply = Nil /\ reply' # Nil /\ parent = "live") =>
        \/ /\ reply'.err = Nil /\ reply'.res # Nil
           /\ answer[reply'.res] = "complete"
        \/ /\ \A c \in Call : call[c] = "sent" /\ answer[c] # "complete"
           /\ results = <<>> /\ failed = <<>>
           /\ reply' # [res |-> Nil, err |-> Nil]]_vars

\* A complete response is returned without an error, and what is returned
\* without an error is complete, unless the caller had gone: it gets the
\* incomplete response, or nothing and no error, of a loop cut short.
ErrorXorSuccess ==
  reply # Nil =>
    /\ (reply.res # Nil /\ answer[reply.res] = "complete") => reply.err = Nil
    /\ (reply.err = Nil /\ parent = "live") =>
          reply.res # Nil /\ Usable(reply.res)

\* The calls whose report the main goroutine has read.
Received ==
  {c \in Call : call[c] = "sent" /\ c \notin Range(results) \cup Range(failed)}

\* What became of each call, as far as the main goroutine knows.
FateOf(c) ==
  IF c \notin Received THEN "open"
  ELSE IF answer[c] = "complete" THEN "won"
  ELSE IF answer[c] = "incomplete" THEN "short"
  ELSE "failed"

Fates == [c \in Call |-> FateOf(c)]

\* The middleware does what FirstSuccess promises.
Promise == INSTANCE FirstSuccess WITH fate <- Fates, caller <- parent, reply <- reply

\* concurrent.go:45-60 refines the promise: whatever the order in which
\* answers, errors and the caller's end are read, the first complete response
\* read is the reply, and any other reply comes when no call is outstanding
\* or the caller has gone, and accounts for what was read.
KeepsPromise == Promise!Spec

\* No goroutine outlives the request for long: each call whose proxy minds
\* its context ends, whether or not the main goroutine is still there.
CallsEnd == <>(\A c \in Call \ Deaf : call[c] = "sent")

\* concurrent.go:56: the caller's deadline ends the wait, even if a backend
\* never answers and minds no context.
ReturnsByDeadline == parent = "ended" ~> main = "returned"

-----------------------------------------------------------------------------
(* The inductive invariant of the proofs.                                  *)

ChannelInv ==
  /\ IsInjective(results) /\ IsInjective(failed)
  /\ Range(results) \cap Range(failed) = {}
  /\ \A c \in Range(results) \cup Range(failed) : call[c] = "sent"
  /\ \A c \in Range(results) : Usable(c)
  /\ \A c \in Range(failed) : ~Usable(c)

\* While the caller waits the loop variable counts the reports read.
CountInv ==
  /\ main = "launch" =>
       /\ index > 0 /\ \A c \in Call : c >= index => call[c] = "idle"
       /\ Received = {} /\ response = Nil /\ err = Nil
  /\ main = "collect" =>
       /\ index <= N
       /\ parent = "live" => Cardinality(Received) = index
       /\ parent = "live" /\ index > 0 => response # Nil \/ err # Nil

ResponseInv ==
  /\ response # Nil => call[response] = "sent" /\ Usable(response)
  /\ main = "collect" /\ response # Nil => answer[response] # "complete"
  /\ main # "returned" => reply = Nil
  /\ reply # Nil /\ reply.res # Nil => call[reply.res] = "sent"

\* While the loop runs it has read no complete response, what it holds comes
\* from calls it has read, an incomplete response read leaves a response and
\* an error read leaves an error.
ReportInv ==
  main = "collect" =>
    /\ response # Nil => response \in Received /\ answer[response] = "incomplete"
    /\ err # Nil => err \in Received /\ ~Usable(err)
    /\ \A c \in Received : \/ answer[c] = "incomplete" /\ response # Nil
                           \/ ~Usable(c) /\ err # Nil

IInv == TypeOK /\ ChannelInv /\ CountInv /\ ResponseInv /\ ErrorXorSuccess

=============================================================================
