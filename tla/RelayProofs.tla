---------------------------- MODULE RelayProofs ----------------------------
(***************************************************************************)
(* Proofs about Relay, for bodies of every length, any number of           *)
(* concurrent calls, both routers and both renders.                        *)
(***************************************************************************)
EXTENDS Relay, TLAPS

\* What does not change while a request is served.
EndpointInv ==
  router \in {"mux", "gin"} /\ output \in {"no-op", "json"} /\ calls \in Nat \ {0}

\* The handler goes on only with a reply, and copies only from a response: an
\* answer without one comes with an error or with an ended context.
ReplyInv ==
  /\ handler # "calling" => reply \in [res : Call \cup {Nil}, err : BOOLEAN]
  /\ handler = "answered" /\ reply.res = Nil => reply.err \/ request = "ended"
  /\ handler = "copying" => reply.res # Nil

\* As long as the client of a stream with one call waits, nothing ends the
\* context its body was read with, and every chunk copied was flushed.
StreamInv ==
  /\ seen = copied
  /\ calls = 1 /\ output = "no-op" /\ client = "waiting" /\ handler # "done" =>
       request = "live" /\ body[1] # "closed"

IInv == EndpointInv /\ TypeOK /\ ReplyInv /\ StreamInv /\ WholeBodyOfOneCall

LEMMA OneMore ==
  ASSUME NEW n \in 0..Chunks, NEW m \in 0..Chunks, n < m
  PROVE  n + 1 \in 0..Chunks /\ n + 1 \in 0..n + 1
BY ChunksAssumption

LEMMA ChunksInRange == Chunks \in 0..Chunks
BY ChunksAssumption

LEMMA Calls ==
  ASSUME EndpointInv
  PROVE  Call \subseteq Nat /\ 1 \in Call /\ (calls = 1 => Call = {1})
BY DEF EndpointInv, Call

LEMMA InitInv == Init => IInv
BY ConcurrencyAssumption, ChunksAssumption
DEF Init, IInv, EndpointInv, TypeOK, ReplyInv, StreamInv, WholeBodyOfOneCall, WholeBody,
    Rendered, Call

-----------------------------------------------------------------------------
(* Type correctness, for the calls and for the handler. *)

CallStep(c) ==
  \/ BackendAnswers(c) \/ BackendFails(c) \/ BackendSends(c)
  \/ HTTPProxy(c) \/ CloseOnCancel(c) \/ Report(c)

LEMMA CallType ==
  ASSUME EndpointInv, TypeOK, NEW c \in Call, CallStep(c)
  PROVE  TypeOK'
<1> USE ChunksAssumption DEF TypeOK, Call, endpoint
<1>1. CASE BackendAnswers(c)  BY <1>1 DEF BackendAnswers
<1>2. CASE BackendFails(c)  BY <1>2 DEF BackendFails
<1>3. CASE BackendSends(c)
  <2>1. sent[c] \in 0..Chunks /\ sent[c] < Chunks /\ sent' = [sent EXCEPT ![c] = @ + 1]
    BY <1>3 DEF BackendSends
  <2>2. sent[c] + 1 \in 0..Chunks
    <3>1. Chunks \in 0..Chunks  BY ChunksInRange
    <3>2. QED  BY <2>1, <3>1, OneMore
  <2>3. sent' \in [Call -> 0..Chunks]  BY <2>1, <2>2
  <2>4. QED  BY <1>3, <2>3 DEF BackendSends
<1>4. CASE HTTPProxy(c)  BY <1>4 DEF HTTPProxy, DropAnswer, Parse
<1>5. CASE CloseOnCancel(c)  BY <1>5 DEF CloseOnCancel
<1>6. CASE Report(c)  BY <1>6 DEF Report
<1>7. QED  BY <1>1, <1>2, <1>3, <1>4, <1>5, <1>6 DEF CallStep

\* The one call, or the middleware, makes a reply that the handler can use.
LEMMA ReplyMade ==
  ASSUME EndpointInv, TypeOK, OneCallReturns \/ Collect
  PROVE  /\ reply' \in [res : Call \cup {Nil}, err : BOOLEAN]
         /\ reply'.res = Nil => reply'.err \/ request = "ended"
<1>1. CASE OneCallReturns
  <2>1. calls = 1 /\ 1 \in Call /\ 1 # Nil
    BY <1>1, NilAssumption DEF OneCallReturns, Call
  <2>2. reply' = [res |-> IF trip[1] = "response" THEN 1 ELSE Nil, err |-> trip[1] = "error"]
    BY <1>1 DEF OneCallReturns
  <2>3. trip[1] = "response" \/ trip[1] = "error"  BY <1>1 DEF OneCallReturns
  <2>4. reply'.res = Nil => reply'.err  BY <2>1, <2>2, <2>3
  <2>5. reply' \in [res : Call \cup {Nil}, err : BOOLEAN]  BY <2>1, <2>2
  <2>6. QED  BY <2>4, <2>5
<1>2. CASE Collect
  <2>1. PICK read \in SUBSET {c \in Call : Reported(c)} :
          /\ request = "live" => read = Call
          /\ LET answers == {c \in read : trip[c] = "response sent"}
             IN  \E res \in IF answers = {} THEN {Nil} ELSE answers :
                   reply' = [res |-> res, err |-> \E c \in read : trip[c] = "error sent"]
    BY <1>2 DEF Collect
  <2> DEFINE answers == {c \in read : trip[c] = "response sent"}
  <2>2. PICK res \in IF answers = {} THEN {Nil} ELSE answers :
          reply' = [res |-> res, err |-> \E c \in read : trip[c] = "error sent"]
    BY <2>1
  <2>3. read \subseteq {c \in Call : Reported(c)} /\ (request = "live" => read = Call)
    BY <2>1
  <2>4. answers \subseteq Call /\ Nil \notin answers
    <3>1. answers \subseteq Call  BY <2>3
    <3>2. Call \subseteq Nat  BY Calls
    <3>3. QED  BY <3>1, <3>2, NilAssumption
  <2>5. res \in Call \cup {Nil} /\ (res = Nil => answers = {})
    <3> HIDE DEF answers
    <3>1. QED  BY <2>4, <2>2
  <2>6. ASSUME res = Nil, request = "live" PROVE \E c \in read : trip[c] = "error sent"
    <3>1. 1 \in Call /\ read = Call  BY <2>3, <2>6, Calls
    <3>2. Reported(1) /\ 1 \in read /\ 1 \notin answers  BY <2>5, <2>6, <3>1
    <3>3. QED  BY <3>2 DEF Reported
  <2>7. request = "live" \/ request = "ended"  BY DEF TypeOK
  <2>8. QED  BY <2>2, <2>5, <2>6, <2>7
<1>3. QED  BY <1>1, <1>2

LEMMA HandlerType ==
  ASSUME EndpointInv, TypeOK, ReplyInv, StreamInv, Handler
  PROVE  TypeOK'
<1> USE ChunksAssumption DEF TypeOK, Call, endpoint
<1>1. CASE OneCallReturns  BY <1>1, ReplyMade DEF OneCallReturns
<1>2. CASE Collect  BY <1>2, ReplyMade DEF Collect
<1>3. CASE SendsError  BY <1>3 DEF SendsError, Finish
<1>4. CASE RendersData  BY <1>4 DEF RendersData, Finish
<1>5. CASE StartsCopy  BY <1>5 DEF StartsCopy
<1>6. CASE Copy
  <2>1. reply.res \in Call  BY <1>6 DEF ReplyInv, Copy
  <2>2. copied' = copied + 1 /\ seen' = copied' /\ copied < sent[reply.res]
    BY <1>6 DEF Copy
  <2>3. sent[reply.res] \in 0..Chunks /\ copied \in 0..Chunks
    BY <2>1
  <2>4. copied + 1 \in 0..Chunks /\ copied + 1 \in 0..copied + 1  BY <2>2, <2>3, OneMore
  <2>5. copied' \in 0..Chunks /\ seen' \in 0..copied'  BY <2>2, <2>4
  <2>6. QED  BY <1>6, <2>5 DEF Copy
<1>7. CASE CopyEnds  BY <1>7 DEF CopyEnds, Finish
<1>8. QED  BY <1>1, <1>2, <1>3, <1>4, <1>5, <1>6, <1>7 DEF Handler

-----------------------------------------------------------------------------
(* Every step keeps the invariant. *)

\* A call never ends the context of a stream that is alone, nor closes a body
\* before that context ended.
LEMMA CallKeeps ==
  ASSUME IInv, NEW c \in Call, CallStep(c)
  PROVE  IInv'
<1> USE DEF IInv
<1>1. TypeOK'  BY CallType
<1>2. UNCHANGED <<router, output, calls, client, request, handler, reply, copied, seen>>
  BY DEF CallStep, BackendAnswers, BackendFails, BackendSends, HTTPProxy, DropAnswer,
         Parse, CloseOnCancel, Report, endpoint
<1>3. EndpointInv' /\ ReplyInv'  BY <1>2 DEF EndpointInv, ReplyInv, Call
<1>4. ASSUME calls = 1, request = "live", body[1] # "closed" PROVE body'[1] # "closed"
  <2>1. ~CtxEnded(c)  BY <1>4 DEF CtxEnded
  <2>2. body' = body \/ body' = [body EXCEPT ![c] = "open"]
    BY <2>1 DEF CallStep, BackendAnswers, BackendFails, BackendSends, HTTPProxy,
       DropAnswer, Parse, CloseOnCancel, Report
  <2>3. body \in [Call -> {"none", "open", "closed"}] /\ 1 \in Call /\ c = 1
    BY <1>4, Calls DEF TypeOK
  <2>4. QED  BY <1>4, <2>2, <2>3
<1>5. StreamInv'  BY <1>2, <1>4 DEF StreamInv
<1>6. WholeBodyOfOneCall'
  BY <1>2 DEF WholeBodyOfOneCall, WholeBody, Rendered
<1>7. QED  BY <1>1, <1>3, <1>5, <1>6

LEMMA HandlerKeeps ==
  ASSUME IInv, Handler
  PROVE  IInv'
<1> USE DEF IInv
<1>1. TypeOK'  BY HandlerType
<1>2. UNCHANGED <<router, output, calls, client, body>>
  BY DEF Handler, OneCallReturns, Collect, SendsError, RendersData, StartsCopy, Copy,
         CopyEnds, Finish, endpoint
<1>3. EndpointInv'  BY <1>2 DEF EndpointInv
<1>4. CASE OneCallReturns \/ Collect
  <2>1. UNCHANGED <<request, copied, seen>> /\ handler = "calling" /\ handler' = "answered"
    BY <1>4 DEF OneCallReturns, Collect
  <2>2. ReplyInv'  BY <1>2, <1>4, <2>1, ReplyMade DEF ReplyInv, Call
  <2>3. StreamInv'  BY <1>2, <2>1 DEF StreamInv
  <2>4. WholeBodyOfOneCall'  BY <2>1 DEF WholeBodyOfOneCall, WholeBody, Rendered
  <2>5. QED  BY <1>1, <1>3, <2>2, <2>3, <2>4
<1>5. CASE SendsError
  <2>1. /\ UNCHANGED <<reply, copied, seen>>
        /\ handler = "answered" /\ handler' = "done" /\ (reply.err \/ request = "ended")
    BY <1>5 DEF SendsError, Finish, Failed
  <2>2. ReplyInv' /\ StreamInv'  BY <1>2, <2>1 DEF ReplyInv, StreamInv, Call
  <2>3. calls = 1 => ~Rendered'  BY <1>2, <2>1 DEF Rendered, StreamInv
  <2>4. QED  BY <1>1, <1>2, <1>3, <2>2, <2>3 DEF WholeBodyOfOneCall, WholeBody
<1>6. CASE RendersData
  <2>1. /\ UNCHANGED <<reply, copied, seen>>
        /\ handler = "answered" /\ handler' = "done" /\ output = "json"
    BY <1>6 DEF RendersData, Renders, Finish
  <2>2. ReplyInv' /\ StreamInv'  BY <1>2, <2>1 DEF ReplyInv, StreamInv, Call
  <2>3. ~Rendered'  BY <1>2, <2>1 DEF Rendered
  <2>4. QED  BY <1>1, <1>3, <2>2, <2>3 DEF WholeBodyOfOneCall, WholeBody
<1>7. CASE StartsCopy
  <2>1. /\ UNCHANGED <<request, reply, copied, seen>>
        /\ handler = "answered" /\ handler' = "copying"
        /\ ~(Failed /\ (router = "gin" => reply.res = Nil))
    BY <1>7 DEF StartsCopy, Renders
  <2>2. reply.res # Nil  BY <2>1 DEF ReplyInv, Failed
  <2>3. ReplyInv' /\ StreamInv'  BY <1>2, <2>1, <2>2 DEF ReplyInv, StreamInv, Call
  <2>4. ~Rendered'  BY <2>1 DEF Rendered
  <2>5. QED  BY <1>1, <1>3, <2>3, <2>4 DEF WholeBodyOfOneCall, WholeBody
<1>8. CASE Copy
  <2>1. UNCHANGED <<request, reply, handler>> /\ handler = "copying" /\ seen' = copied'
    BY <1>8 DEF Copy
  <2>2. ReplyInv' /\ StreamInv'  BY <1>2, <2>1 DEF ReplyInv, StreamInv, Call
  <2>3. ~Rendered'  BY <2>1 DEF Rendered
  <2>4. QED  BY <1>1, <1>3, <2>2, <2>3 DEF WholeBodyOfOneCall, WholeBody
<1>9. CASE CopyEnds
  <2>1. /\ UNCHANGED <<reply, copied, seen>>
        /\ handler = "copying" /\ handler' = "done"
        /\ copied = Chunks \/ body[reply.res] = "closed" \/ client = "gone"
    BY <1>9 DEF CopyEnds, Finish
  <2>2. ReplyInv' /\ StreamInv'  BY <1>2, <2>1 DEF ReplyInv, StreamInv, Call
  <2>3. ASSUME calls = 1, Rendered' PROVE seen' = Chunks
    <3>1. reply.res = 1  BY <2>1, <2>3 DEF ReplyInv, Call
    <3>2. client = "waiting" /\ output = "no-op"  BY <1>2, <2>3 DEF Rendered
    <3>3. copied = Chunks  BY <2>1, <2>3, <3>1, <3>2 DEF StreamInv
    <3>4. QED  BY <2>1, <3>3 DEF StreamInv
  <2>4. QED  BY <1>1, <1>2, <1>3, <2>2, <2>3 DEF WholeBodyOfOneCall, WholeBody
<1>10. QED
  BY <1>4, <1>5, <1>6, <1>7, <1>8, <1>9 DEF Handler

\* Only the client can end the context of a stream with one call: it has no
\* timeout, and the middleware's is not there.
LEMMA ContextKeeps ==
  ASSUME IInv, ClientLeaves \/ Timeout \/ LocalTimeout
  PROVE  IInv'
<1> USE DEF IInv
<1>1. /\ UNCHANGED <<router, output, calls, trip, body, closer, sent, handler, reply,
                     copied, seen>>
      /\ request' \in {request, "ended"} /\ local' \in {local, "ended"}
      /\ client' \in {client, "gone"}
  BY DEF ClientLeaves, Timeout, LocalTimeout, endpoint
<1>2. EndpointInv' /\ TypeOK' /\ ReplyInv'
  <2>1. EndpointInv'  BY <1>1 DEF EndpointInv
  <2>2. Call' = Call  BY <1>1 DEF Call
  <2>3. TypeOK'
    <3>1. request' \in {"live", "ended"} /\ local' \in {"live", "ended"}
          /\ client' \in {"waiting", "gone"}
      BY <1>1 DEF TypeOK
    <3>2. QED  BY <1>1, <2>2, <3>1 DEF TypeOK
  <2>4. ReplyInv'
    <3>1. request = "ended" => request' = "ended"  BY <1>1
    <3>2. QED  BY <1>1, <2>2, <3>1 DEF ReplyInv
  <2>5. QED  BY <2>1, <2>3, <2>4
<1>3. StreamInv'
  <2>1. calls = 1 /\ output = "no-op" /\ client' = "waiting" => request' = request
    BY DEF ClientLeaves, Timeout, LocalTimeout, IsStreamingEndpoint
  <2>2. client' = "waiting" => client = "waiting"  BY <1>1
  <2>3. QED  BY <1>1, <2>1, <2>2 DEF StreamInv
<1>4. WholeBodyOfOneCall'
  BY <1>1 DEF WholeBodyOfOneCall, WholeBody, Rendered
<1>5. QED  BY <1>2, <1>3, <1>4

LEMMA NextInv ==
  ASSUME IInv, [Next]_vars
  PROVE  IInv'
<1>1. CASE UNCHANGED vars
  BY <1>1 DEF vars, endpoint, IInv, EndpointInv, TypeOK, ReplyInv, StreamInv,
     WholeBodyOfOneCall, WholeBody, Rendered, Call
<1>2. QED
  BY <1>1, CallKeeps, HandlerKeeps, ContextKeeps DEF Next, CallStep, Terminated

-----------------------------------------------------------------------------
(* The theorems. *)

\* proxy/http_response.go:61, router/mux/endpoint.go:54-63: with a single call,
\* a client that stays until the render is done has been given every chunk of
\* the body, however many there are.
THEOREM WholeBodyOfOneCallAlways == Spec => []WholeBodyOfOneCall
<1>1. IInv => WholeBodyOfOneCall  BY DEF IInv
<1>2. QED  BY <1>1, InitInv, NextInv, PTL DEF Spec

\* proxy/concurrent.go and router/*/endpoint.go: the handler never reads a reply
\* it does not have, and never copies more than the body holds.
THEOREM TypeCorrect == Spec => []TypeOK
<1>1. IInv => TypeOK  BY DEF IInv
<1>2. QED  BY <1>1, InitInv, NextInv, PTL DEF Spec
=============================================================================
