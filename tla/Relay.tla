------------------------------- MODULE Relay -------------------------------
(***************************************************************************)
(* One request for an endpoint with one no-op backend, from the handler of *)
(* the router (router/mux/endpoint.go, router/gin/endpoint.go) through the *)
(* HTTP proxy (proxy/http.go) and back: the body of the backend's response *)
(* is handed up unread, copied to the client by the render, and closed by  *)
(* a goroutine that waits for the context the proxy was called with.       *)
(*                                                                         *)
(* With more than one concurrent call, proxy/concurrent.go is in between.  *)
(* A no-op response is never complete, so its loop reads all the calls;    *)
(* here that is one step, ConcurrentCalls has it in detail.                *)
(***************************************************************************)
EXTENDS Integers, FiniteSets

CONSTANTS Concurrency,   \* the values of backend.ConcurrentCalls to look at
          Chunks,        \* bound: how many chunks a body has
          Nil

ASSUME ConcurrencyAssumption == Concurrency \subseteq Nat \ {0}
ASSUME ChunksAssumption      == Chunks \in Nat \ {0}
ASSUME NilAssumption         == Nil \notin Nat

VARIABLES router,    \* which handler: "mux" or "gin"
          output,    \* output encoding of the endpoint: "no-op" or "json"
          calls,     \* backend.ConcurrentCalls
          client,    \* "waiting" or "gone"
          request,   \* the handler's context: "live" or "ended"
          local,     \* the context of the concurrent middleware
          trip,      \* where each call of the HTTP proxy is
          body,      \* the body of each response: "none", "open" or "closed"
          closer,    \* its closeOnCancel goroutine: "none", "waiting", "done"
          sent,      \* how many chunks of it the backend has sent
          handler,   \* where the handler is
          reply,     \* what the endpoint's proxy returned, Nil before it has
          copied,    \* chunks written to the client's ResponseWriter
          seen       \* chunks flushed to the client

vars == <<router, output, calls, client, request, local, trip, body, closer, sent,
          handler, reply, copied, seen>>
endpoint == <<router, output, calls>>

Call == 1..calls

Init ==
  /\ router \in {"mux", "gin"} /\ output \in {"no-op", "json"}
  /\ calls \in Concurrency
  /\ client = "waiting" /\ request = "live" /\ local = "live"
  /\ trip = [c \in Call |-> "asking"]
  /\ body = [c \in Call |-> "none"]
  /\ closer = [c \in Call |-> "none"]
  /\ sent = [c \in Call |-> 0]
  /\ handler = "calling"
  /\ reply = Nil
  /\ copied = 0 /\ seen = 0

-----------------------------------------------------------------------------
(* Contexts.  The HTTP proxy is called with the handler's context or, below *)
(* the concurrent middleware, with one of its own for each call, which      *)
(* ends with the middleware's and once the call has reported.               *)

Reported(c) == trip[c] \in {"response sent", "error sent"}

CtxEnded(c) ==
  \/ request = "ended"
  \/ calls > 1 /\ (local = "ended" \/ Reported(c))

\* The connection is lost: net/http ends the request's context.
ClientLeaves ==
  /\ client = "waiting" /\ handler # "done"
  /\ client' = "gone" /\ request' = "ended" /\ local' = "ended"
  /\ UNCHANGED <<endpoint, trip, body, closer, sent, handler, reply, copied, seen>>

IsStreamingEndpoint == output = "no-op"

TimeoutAlways ==
  /\ handler # "done"
  /\ request = "live" /\ request' = "ended" /\ local' = "ended"
  /\ UNCHANGED <<endpoint, client, trip, body, closer, sent, handler, reply, copied, seen>>

\* Streaming endpoints get the request's context as it is; the others get
\* one with the timeout of the endpoint.
Timeout ==
  /\ handler # "done" /\ ~IsStreamingEndpoint
  /\ request = "live" /\ request' = "ended" /\ local' = "ended"
  /\ UNCHANGED <<endpoint, client, trip, body, closer, sent, handler, reply, copied, seen>>

LocalTimeout ==
  /\ calls > 1
  /\ local = "live" /\ local' = "ended"
  /\ UNCHANGED <<endpoint, client, request, trip, body, closer, sent, handler, reply, copied, seen>>

-----------------------------------------------------------------------------
(* The backend, and proxy/http.go:NewHTTPProxyDetailed. *)

BackendAnswers(c) ==
  /\ trip[c] = "asking"
  /\ trip' = [trip EXCEPT ![c] = "answered"]
  /\ body' = [body EXCEPT ![c] = "open"]
  /\ UNCHANGED <<endpoint, client, request, local, closer, sent, handler, reply, copied, seen>>

BackendFails(c) ==
  /\ trip[c] = "asking"
  /\ trip' = [trip EXCEPT ![c] = "error"]
  /\ UNCHANGED <<endpoint, client, request, local, body, closer, sent, handler, reply, copied, seen>>

BackendSends(c) ==
  /\ body[c] = "open" /\ sent[c] < Chunks
  /\ sent' = [sent EXCEPT ![c] = @ + 1]
  /\ UNCHANGED <<endpoint, client, request, local, trip, body, closer, handler, reply, copied, seen>>

\* The context ended during the round trip: the response is dropped, its
\* body left to the transport.
DropAnswer(c) ==
  /\ trip[c] = "answered" /\ CtxEnded(c)
  /\ trip' = [trip EXCEPT ![c] = "error"]
  /\ UNCHANGED <<endpoint, client, request, local, body, closer, sent, handler, reply, copied, seen>>

ParseUnattended(c) ==
  /\ trip[c] = "answered" /\ ~CtxEnded(c)
  /\ trip' = [trip EXCEPT ![c] = "response"]
  /\ UNCHANGED <<endpoint, client, request, local, body, closer, sent, handler, reply, copied, seen>>

\* NoOpHTTPStatusHandler takes any status; NoOpHTTPResponseParser wraps the
\* body and starts closeOnCancel.
Parse(c) ==
  /\ trip[c] = "answered" /\ ~CtxEnded(c)
  /\ trip' = [trip EXCEPT ![c] = "response"]
  /\ closer' = [closer EXCEPT ![c] = "waiting"]
  /\ UNCHANGED <<endpoint, client, request, local, body, sent, handler, reply, copied, seen>>

CloseOnCancel(c) ==
  /\ closer[c] = "waiting" /\ CtxEnded(c)
  /\ closer' = [closer EXCEPT ![c] = "done"]
  /\ body' = [body EXCEPT ![c] = "closed"]
  /\ UNCHANGED <<endpoint, client, request, local, trip, sent, handler, reply, copied, seen>>

-----------------------------------------------------------------------------
(* What the handler gets: the answer of its one call, or that of the        *)
(* concurrent middleware.                                                   *)

OneCallReturns ==
  /\ calls = 1 /\ handler = "calling"
  /\ trip[1] \in {"response", "error"}
  /\ reply' = [res |-> IF trip[1] = "response" THEN 1 ELSE Nil, err |-> trip[1] = "error"]
  /\ handler' = "answered"
  /\ UNCHANGED <<endpoint, client, request, local, trip, body, closer, sent, copied, seen>>

\* processConcurrentCall: a response may be given up for ctx.Err() once the
\* middleware's context ended.  The call's own context ends with this step.
Report(c) ==
  /\ calls > 1 /\ trip[c] \in {"response", "error"}
  /\ \/ trip[c] = "response" /\ trip' = [trip EXCEPT ![c] = "response sent"]
     \/ /\ trip[c] = "error" \/ local = "ended"
        /\ trip' = [trip EXCEPT ![c] = "error sent"]
  /\ UNCHANGED <<endpoint, client, request, local, body, closer, sent, handler, reply, copied, seen>>

\* The last response and the last error of those it read: of all the calls,
\* unless the caller's context used up turns of the loop.
Collect ==
  /\ calls > 1 /\ handler = "calling"
  /\ \E read \in SUBSET {c \in Call : Reported(c)} :
       /\ request = "live" => read = Call
       /\ LET answers == {c \in read : trip[c] = "response sent"}
          IN  \E res \in IF answers = {} THEN {Nil} ELSE answers :
                 reply' = [res |-> res, err |-> \E c \in read : trip[c] = "error sent"]
  /\ local' = "ended"
  /\ handler' = "answered"
  /\ UNCHANGED <<endpoint, client, request, trip, body, closer, sent, copied, seen>>

-----------------------------------------------------------------------------
(* The handler and the render.  The data of a no-op response is empty: the  *)
(* mux handler sends the error if there is one, whatever the response; the  *)
(* gin handler renders the response if there is one, whatever the error.    *)

Failed == reply.err \/ request = "ended"

Finish ==
  /\ handler' = "done"
  /\ request' = "ended" /\ local' = "ended"

SendsError ==
  /\ handler = "answered" /\ Failed
  /\ router = "gin" => reply.res = Nil
  /\ Finish
  /\ UNCHANGED <<endpoint, client, trip, body, closer, sent, reply, copied, seen>>

Renders == handler = "answered" /\ ~(Failed /\ (router = "gin" => reply.res = Nil))

\* A render that is not the no-op one writes an empty document.
RendersData ==
  /\ Renders /\ output = "json"
  /\ Finish
  /\ UNCHANGED <<endpoint, client, trip, body, closer, sent, reply, copied, seen>>

StartsCopy ==
  /\ Renders /\ output = "no-op"
  /\ handler' = "copying"
  /\ UNCHANGED <<endpoint, client, request, local, trip, body, closer, sent, reply, copied, seen>>

CopyStale ==
  /\ handler = "copying" /\ client = "waiting"
  /\ body[reply.res] = "open"
  /\ copied' = copied + 1
  /\ seen' = copied'
  /\ UNCHANGED <<endpoint, client, request, local, trip, body, closer, sent, handler, reply>>

CopyBuffered ==
  /\ handler = "copying" /\ client = "waiting"
  /\ body[reply.res] = "open" /\ copied < sent[reply.res]
  /\ copied' = copied + 1
  /\ seen' = IF copied' = Chunks THEN copied' ELSE seen
  /\ UNCHANGED <<endpoint, client, request, local, trip, body, closer, sent, handler, reply>>

\* StreamCopy: read, write and flush.
Copy ==
  /\ handler = "copying" /\ client = "waiting"
  /\ body[reply.res] = "open" /\ copied < sent[reply.res]
  /\ copied' = copied + 1
  /\ seen' = copied'
  /\ UNCHANGED <<endpoint, client, request, local, trip, body, closer, sent, handler, reply>>

\* It ends at the end of the body, when a read fails because the body was
\* closed, or when a write fails because the client has gone.
CopyEnds ==
  /\ handler = "copying"
  /\ \/ copied = Chunks
     \/ body[reply.res] = "closed"
     \/ client = "gone" /\ copied < sent[reply.res]
  /\ Finish
  /\ UNCHANGED <<endpoint, client, trip, body, closer, sent, reply, copied, seen>>

Terminated == handler = "done" /\ UNCHANGED vars

HTTPProxy(c) == DropAnswer(c) \/ Parse(c)
Handler == OneCallReturns \/ Collect \/ SendsError \/ RendersData \/ StartsCopy \/ Copy \/ CopyEnds

Next ==
  \/ ClientLeaves \/ Timeout \/ LocalTimeout
  \/ \E c \in Call : \/ BackendAnswers(c) \/ BackendFails(c) \/ BackendSends(c)
                     \/ HTTPProxy(c) \/ CloseOnCancel(c) \/ Report(c)
  \/ Handler
  \/ Terminated

Spec == Init /\ [][Next]_vars

\* Goroutines that can run do.  The backend may take its time for ever; the
\* round trip fails once its context ended.
FairSpec ==
  /\ Spec
  /\ WF_vars(Handler)
  /\ \A c \in UNION {1..k : k \in Concurrency} :
       /\ WF_vars(c \in Call /\ (HTTPProxy(c) \/ Report(c)))
       /\ WF_vars(c \in Call /\ CloseOnCancel(c))
       /\ WF_vars(c \in Call /\ CtxEnded(c) /\ BackendFails(c))

-----------------------------------------------------------------------------
(* Properties. *)

TypeOK ==
  /\ client \in {"waiting", "gone"}
  /\ request \in {"live", "ended"} /\ local \in {"live", "ended"}
  /\ trip \in [Call -> {"asking", "answered", "response", "error",
                        "response sent", "error sent"}]
  /\ body \in [Call -> {"none", "open", "closed"}]
  /\ closer \in [Call -> {"none", "waiting", "done"}]
  /\ sent \in [Call -> 0..Chunks]
  /\ handler \in {"calling", "answered", "copying", "done"}
  /\ reply \in [res : Call \cup {Nil}, err : BOOLEAN] \cup {Nil}
  /\ copied \in 0..Chunks /\ seen \in 0..copied

Rendered ==
  /\ handler = "done" /\ output = "no-op" /\ client = "waiting"
  /\ ~reply.err /\ reply.res # Nil

\* proxy/http_response.go:61 says that NoOpHTTPResponseParser just copies the
\* body of the backend into the proxy response: a client that stays until the
\* render is done has been given all of it.
WholeBody == Rendered => seen = Chunks

\* router/mux/endpoint.go:54-63: with a single call neither a timeout nor a
\* cancel ends the body's context before the body is copied.
WholeBodyOfOneCall == calls = 1 => WholeBody

\* proxy/streaming.go:22: a client that stays sees each chunk once the backend
\* has sent it, without any further one having to come.
Prompt ==
  \A n \in 0..Chunks-1 :
    (calls = 1 /\ handler = "copying" /\ sent[1] > n) ~> (seen > n \/ client = "gone")

\* proxy/proxy.go:51: a client that leaves, even in the middle of a stream
\* that never ends, ends the handler, and no body handed up stays open.
Released ==
  client = "gone" ~>
     /\ handler = "done"
     /\ \A c \in Call :
           (trip[c] \in {"response", "response sent"}) => body[c] = "closed"

=============================================================================
