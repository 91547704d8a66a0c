--------------------------- MODULE RequestSharing ---------------------------
(***************************************************************************)
(* The requests of one endpoint and the maps they share.  A request holds  *)
(* references to a Query map, a Headers map and a Body; Clone copies the   *)
(* references, CloneRequest gives the clone maps of its own.  Clones are   *)
(* made for the shadow pipe (proxy/shadow.go), for the backends of a merge *)
(* (proxy/merging.go) and for concurrent calls (proxy/concurrent.go), and  *)
(* every call takes its request through the middlewares of its backend, in *)
(* the order of proxy/factory.go:newStack, while the others are under way. *)
(*                                                                         *)
(* What a map holds is the set of those whose entries are in it: the       *)
(* client, and the backends whose GraphQL middleware wrote to it.  Params, *)
(* which only the sequential loop writes, are left to SequentialMerge; of  *)
(* the GraphQL operations only the queries are modelled, and every request *)
(* has a body, as those net/http makes do.                                 *)
(***************************************************************************)
EXTENDS Integers, Sequences, FiniteSets

CONSTANTS Backend,      \* the backends of the endpoint, numbers from 1
          MaxCalls,     \* the most concurrent calls of a backend
          Endpoints,    \* the configurations considered, out of Endpoint
          Nil

\* A pair of numbers names who holds a request: a pipe, a backend, or the k-th
\* call of a backend.
Main   == <<0, 1>>
Shadow == <<0, 2>>
Pipe   == {Main, Shadow}
Of(b)  == <<b, 0>>
Call   == Backend \X (1..MaxCalls)
Holder == Pipe \cup {Of(b) : b \in Backend} \cup Call
Client == 0

\* QueryStringsToPass and HeadersToPass of a backend: absent, naming all that
\* the client sent, or leaving out some of it.
Filters == {"none", "passes", "drops"}
\* The GraphQL middleware of a backend: absent, or the method of its call.
GraphQL == {"none", "GET", "POST"}

VARIABLES cfg,      \* the endpoint
          heap,     \* what each map and each body holds
          req,      \* the request of each pipe, backend and call
          pc,       \* where each of them is
          url,      \* URL.RawQuery of each call's request
          sent      \* what each call sent to its backend, Nil before it has

vars == <<cfg, heap, req, pc, url, sent>>

Endpoint ==
  [shadow : SUBSET Backend, sequential : BOOLEAN, forceDeepClone : BOOLEAN,
   method : [Backend -> {"GET", "POST"}], graphql : [Backend -> GraphQL],
   queries : [Backend -> Filters], headers : [Backend -> Filters],
   calls : [Backend -> 1..MaxCalls]]

-----------------------------------------------------------------------------
\* The backends of the regular pipe and of the shadow one.
Backends(p) == IF p = Shadow THEN cfg.shadow ELSE Backend \ cfg.shadow

HasUnsafeBackends(p) ==
  Cardinality(Backends(p)) > 1 /\ \E b \in Backends(p) : cfg.method[b] # "GET"

\* NewRequest: the handler makes the maps, the body is that of the connection.
NewRequest == [query |-> 1, headers |-> 2, body |-> 3]

\* Clone and CloneRequest of r in heap h: the heap after it, the clone, and
\* the original, whose body is another one once it has been read to copy it.
Clone(h, r) == [heap |-> h, clone |-> r, original |-> r]

CloneRequest(h, r) ==
  LET n == Len(h)
  IN  [heap     |-> [h EXCEPT ![r.body] = {}] \o <<h[r.headers], h[r.body], h[r.body]>>,
       clone    |-> [r EXCEPT !.headers = n + 1, !.body = n + 2],
       original |-> [r EXCEPT !.body = n + 3]]

\* reqClone of the merge of a pipe.
ReqClone(p, h, r) ==
  IF HasUnsafeBackends(p) \/ cfg.forceDeepClone THEN CloneRequest(h, r) ELSE Clone(h, r)

Init ==
  /\ cfg \in Endpoints
  /\ heap = [cell \in 1..3 |-> {Client}]
  /\ req = [x \in Holder |-> Nil]
  /\ pc = [x \in Holder |-> "new"]
  /\ url = [c \in Call |-> {}]
  /\ sent = [c \in Call |-> Nil]

\* The endpoint's proxy, with a shadow pipe or without.
NewShadowProxyWithTimeout ==
  /\ pc[Main] = "new"
  /\ Backends(Main) # {}
  /\ IF Backends(Shadow) = {}
     THEN /\ req' = [req EXCEPT ![Main] = NewRequest]
          /\ pc' = [pc EXCEPT ![Main] = "merge"]
          /\ UNCHANGED heap
     ELSE LET c == CloneRequest(heap, NewRequest) IN
          /\ heap' = c.heap
          /\ req' = [req EXCEPT ![Main] = c.original, ![Shadow] = c.clone]
          /\ pc' = [pc EXCEPT ![Main] = "merge", ![Shadow] = "merge"]
  /\ UNCHANGED <<cfg, url, sent>>

Started(p)  == {b \in Backends(p) : pc[Of(b)] # "new"}
Done(b)     == pc[Of(b)] = "called" /\ \A k \in 1..cfg.calls[b] : sent[<<b, k>>] # Nil

\* One turn of the merge: the next backend gets a clone of the pipe's request,
\* or the request itself when there is no merge.  The sequential merge waits
\* for the backend before it.
RequestPart(p) ==
  /\ pc[p] = "merge"
  /\ cfg.sequential => \A b \in Started(p) : Done(b)
  /\ \E b \in Backends(p) \ Started(p) :
       /\ \A other \in Backends(p) \ Started(p) : b <= other
       /\ LET c == IF Cardinality(Backends(p)) = 1 THEN Clone(heap, req[p])
                   ELSE ReqClone(p, heap, req[p])
          IN  /\ heap' = c.heap
              /\ req' = [req EXCEPT ![p] = c.original, ![Of(b)] = c.clone]
       /\ pc' = [pc EXCEPT ![Of(b)] = "filterQuery"]
  /\ UNCHANGED <<cfg, url, sent>>

\* A filter hands the map on when it has nothing to take out of it, and a new
\* map with the entries it names otherwise.
HandsOn(rule, cell) ==
  rule = "none" \/ heap[cell] = {} \/ (rule = "passes" /\ heap[cell] \subseteq {Client})
Filtered(cell) == Append(heap, heap[cell] \cap {Client})

FilterQueryStrings(b) ==
  /\ pc[Of(b)] = "filterQuery"
  /\ IF HandsOn(cfg.queries[b], req[Of(b)].query) THEN UNCHANGED <<heap, req>>
     ELSE /\ heap' = Filtered(req[Of(b)].query)
          /\ req' = [req EXCEPT ![Of(b)].query = Len(heap')]
  /\ pc' = [pc EXCEPT ![Of(b)] = "call"]
  /\ UNCHANGED <<cfg, url, sent>>

\* The concurrent middleware: a clone for every call but the last, which takes
\* the request itself.
ConcurrentCall(b) ==
  /\ pc[Of(b)] = "call"
  /\ \E k \in 1..cfg.calls[b] :
       /\ pc[<<b, k>>] = "new"
       /\ \A j \in 1..(k - 1) : pc[<<b, j>>] # "new"
       /\ LET c == IF k < cfg.calls[b] THEN CloneRequest(heap, req[Of(b)]) ELSE Clone(heap, req[Of(b)])
          IN  /\ heap' = c.heap
              /\ req' = [req EXCEPT ![Of(b)] = c.original, ![<<b, k>>] = c.clone]
       /\ pc' = [pc EXCEPT ![<<b, k>>] = "balance",
                           ![Of(b)] = IF k = cfg.calls[b] THEN "called" ELSE @]
  /\ UNCHANGED <<cfg, url, sent>>

\* The balancer writes the query strings into the URL.
Balance(c) ==
  /\ pc[c] = "balance"
  /\ url' = [url EXCEPT ![c] = heap[req[c].query]]
  /\ pc' = [pc EXCEPT ![c] = "filterHeaders"]
  /\ UNCHANGED <<cfg, heap, req, sent>>

FilterHeaders(c) ==
  /\ pc[c] = "filterHeaders"
  /\ IF HandsOn(cfg.headers[c[1]], req[c].headers) THEN UNCHANGED <<heap, req>>
     ELSE /\ heap' = Filtered(req[c].headers)
          /\ req' = [req EXCEPT ![c].headers = Len(heap')]
  /\ pc' = [pc EXCEPT ![c] = IF cfg.graphql[c[1]] = "none" THEN "send" ELSE "graphql"]
  /\ UNCHANGED <<cfg, url, sent>>

\* A backend sets its own values under the names every GraphQL backend uses.
SetBy(b, entries) == (entries \ Backend) \cup {b}

\* The GraphQL middleware: a body and headers of its own, and for a GET the
\* query in the Query map, from which it then makes the URL again.
GraphQLQuery(c) ==
  LET b   == c[1]
      get == cfg.graphql[b] = "GET"
  IN  /\ pc[c] = "graphql"
      /\ req' = [req EXCEPT ![c].body = Len(heap) + 1]
      /\ heap' = [cell \in 1..(Len(heap) + 1) |->
                    CASE cell = Len(heap) + 1             -> IF get THEN {} ELSE {b}
                      [] cell = req[c].headers            -> SetBy(b, heap[cell])
                      [] get /\ cell = req[c].query       -> SetBy(b, heap[cell])
                      [] OTHER                            -> heap[cell]]
      /\ pc' = [pc EXCEPT ![c] = IF get THEN "encode" ELSE "send"]
      /\ UNCHANGED <<cfg, url, sent>>

EncodeQuery(c) ==
  /\ pc[c] = "encode"
  /\ url' = [url EXCEPT ![c] = heap[req[c].query]]
  /\ pc' = [pc EXCEPT ![c] = "send"]
  /\ UNCHANGED <<cfg, heap, req, sent>>

\* The HTTP proxy copies the headers and reads the body out.
Send(c) ==
  /\ pc[c] = "send"
  /\ sent' = [sent EXCEPT ![c] = [url |-> url[c], headers |-> heap[req[c].headers],
                                  body |-> heap[req[c].body]]]
  /\ heap' = [heap EXCEPT ![req[c].body] = {}]
  /\ pc' = [pc EXCEPT ![c] = "sent"]
  /\ UNCHANGED <<cfg, req, url>>

Next ==
  \/ NewShadowProxyWithTimeout
  \/ \E p \in Pipe : RequestPart(p)
  \/ \E b \in Backend : FilterQueryStrings(b) \/ ConcurrentCall(b)
  \/ \E c \in Call : \/ Balance(c) \/ FilterHeaders(c) \/ GraphQLQuery(c)
                     \/ EncodeQuery(c) \/ Send(c)

Spec == Init /\ [][Next]_vars

-----------------------------------------------------------------------------
\* Every merge of the endpoint clones with CloneRequest.
DeepClones ==
  \A p \in Pipe : \/ Cardinality(Backends(p)) < 2
                  \/ HasUnsafeBackends(p) \/ cfg.forceDeepClone

(***************************************************************************)
(* Where CloneRequest makes the clones, what a backend is sent is from the *)
(* client and from the backend's own middlewares: nothing another backend, *)
(* the shadow pipe included, wrote into its request shows in it.  This is  *)
(* what request.go:70 says of CloneRequest, whose clone shares no pointer  *)
(* with the original.                                                      *)
(***************************************************************************)
ClonesApart ==
  DeepClones => \A c \in Call : sent[c] # Nil =>
    sent[c].url \cup sent[c].headers \cup sent[c].body \subseteq {Client, c[1]}
=============================================================================
